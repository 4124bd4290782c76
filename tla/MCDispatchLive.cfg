\* Two scenarios, one of them Once, and nodes with different plans: a leader
\* that is replaced leaves work to its successor.
CONSTANTS
    n1 = n1
    n2 = n2
    p1 = p1
    p2 = p2
    Node = {n1, n2}
    NoNode = NoNode
    Scenario = {s1, s2}
    Once = {s2}
    Plan = {p1, p2}
    PlanOf <- PlanPerNode
    SlicesOf <- TwoAndOne
    MaxWindow = 2
    MaxFence = 2
    MaxFaults = 0
    MaxStray = 0
SPECIFICATION FairSpec
PROPERTY DueWindowsComplete
CHECK_DEADLOCK FALSE
