SPECIFICATION FairSpec
CONSTANTS
    p1 = p1
    p2 = p2
    MaxGen = 2
    MaxStarts = 2
    Probes = {p1}
    maxConsecutiveFailures = 2
    EndToEnd = TRUE
    EventSets <- MCEventSets
    KillWorks = TRUE
INVARIANTS
    TypeOK
    ProcessReachable
PROPERTIES
    OneProcessAtATime
    SupervisedRestarts
    AdminFinishes
CHECK_DEADLOCK FALSE
