SPECIFICATION FairSpec
CONSTANTS
    i1 = i1
    i2 = i2
    a1 = a1
    a2 = a2
    Nil = Nil
    Insts = {i1, i2}
    ConnsPerInstance = 1
    MaxConns = 2
    Senders = {a1}
    EventSets <- MCEventSets
INVARIANTS
    OpenIsPooled
PROPERTIES
    DeadLeaves
    StopReturns
CHECK_DEADLOCK FALSE
