SPECIFICATION FairSpec
CONSTANTS
    SeqSpace = 6
    n1 = n1
    n2 = n2
    Tunnels = {n1, n2}
    MaxUp = 2
    MaxReverse = 2
    BufCap = 1
    Events = {"clientEOF", "loss", "RST", "writeErr", "synErr", "noInstance"}
INVARIANTS
    FINIsLast
PROPERTIES
    ClientStream
    EitherEndsBoth
    SilentConnEnds
CHECK_DEADLOCK FALSE
