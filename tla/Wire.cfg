SPECIFICATION WireFairSpec
CONSTANTS
    w1 = w1
    w2 = w2
    Writers = {w1, w2}
    MaxPayloadSize = 6
    IDSpace = 4
    SocksIDs = {2}
    Requests <- MCRequests
    Scenes <- MCScenes
INVARIANTS
    FramesIntact
PROPERTIES
    FramesArrive
CHECK_DEADLOCK FALSE
