SPECIFICATION FairSpec
CONSTANTS
    i1 = i1
    i2 = i2
    k1 = k1
    k2 = k2
    Nil = Nil
    Insts = {i1}
    Conns = {k1, k2}
    MaxStarts = 2
    Scenes <- MCScenes
INVARIANTS
    RelaysCounted
    LiveClientNeverClosed
PROPERTIES
    BrokenClientForgotten
    StopEndsRelay
    SilentRelayEnds
CHECK_DEADLOCK FALSE
