SPECIFICATION Spec
CONSTANTS
    SeqSpace = 6
    s1 = s1
    s2 = s2
    c1 = c1
    c2 = c2
    Nil = Nil
    Sources = {s1, s2}
    ConnIDs = {c1}
    MaxStates = 1
    MaxReverse = 0
    QueueCap = 2
    Environments <- DataOnly
INVARIANTS
    UpstreamInOrder
SYMMETRY SourceSymmetry
CHECK_DEADLOCK FALSE
