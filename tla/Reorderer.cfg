SPECIFICATION FairSpec
CONSTANTS
    SeqSpace = 10
    StartSeq = 1
    Frames = {0, 1, 2, 4, 5, 6, 8}
INVARIANTS
    InOrderOnce
    Accounted
    FreshGrace
    DrainIsIteratedNext
PROPERTIES
    ImplementsStream
    NoPermanentStall
CHECK_DEADLOCK FALSE
