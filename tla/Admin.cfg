SPECIFICATION AdminFairSpec
CONSTANTS
    t1 = t1
    t2 = t2
    Tabs = {t1, t2}
    PortMax = 4
    Starts <- MCStarts
    NewEntries <- MCNewEntries
    Accounts <- MCAccounts
    MaxEntries = 2
INVARIANTS
    RunningPorts
    InSync
    AcceptedConfigBoots
    UsersKept
PROPERTIES
    RestartFinishes
CHECK_DEADLOCK FALSE
