SPECIFICATION BalancerSpec
CONSTANTS
    p1 = p1
    p2 = p2
    N = 3
    Pickers = {p1, p2}
    MaxLoad = 3
    MaxWait = 4
    Period = 6
    Scenes <- MCScenes
INVARIANTS
    NoStarvation
    LoadsStayEven
PROPERTY
    ExactShare
CHECK_DEADLOCK FALSE
