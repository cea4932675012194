SPECIFICATION FairSpec
CONSTANTS
    SeqSpace = 4
    s1 = s1
    s2 = s2
    c1 = c1
    c2 = c2
    Nil = Nil
    Sources = {s1}
    ConnIDs = {c1}
    MaxStates = 1
    MaxReverse = 1
    QueueCap = 1
    Environments <- EveryFailure
PROPERTIES
    CleanedUpstreamCloses
    QuietConnRemoved
CHECK_DEADLOCK FALSE
