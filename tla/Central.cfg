SPECIFICATION Spec
CONSTANTS
    SeqSpace = 6
    s1 = s1
    s2 = s2
    c1 = c1
    c2 = c2
    Nil = Nil
    Sources = {s1, s2}
    ConnIDs = {c1}
    MaxStates = 2
    MaxReverse = 0
    QueueCap = 1
    Environments <- DataOrDeath
INVARIANTS
    ChunkInOnePlace
    RegisteredIffLive
    DeadSourceForgotten
SYMMETRY SourceSymmetry
CHECK_DEADLOCK FALSE
