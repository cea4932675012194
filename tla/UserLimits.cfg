SPECIFICATION Spec
CONSTANTS
    k1 = k1
    k2 = k2
    k3 = k3
    k4 = k4
    ip1 = ip1
    ip2 = ip2
    ip3 = ip3
    NoIP = NoIP
    Conns = {k1, k2, k3, k4}
    IPs = {ip1, ip2, ip3}
    maxConnections = 3
    ipLimit = 2
    dataLimit = 2
    Modes <- AllModes
    MaxMoved = 3
INVARIANTS
    CountsMatchConns
    QuotaIsExact
SYMMETRY ConnSymmetry
CHECK_DEADLOCK FALSE
