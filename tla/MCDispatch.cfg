\* A rolling deployment: two nodes with different plans of two slices.
CONSTANTS
    n1 = n1
    n2 = n2
    p1 = p1
    p2 = p2
    Node = {n1, n2}
    NoNode = NoNode
    Scenario = {s1}
    Once = {}
    Plan = {p1, p2}
    PlanOf <- PlanPerNode
    SlicesOf <- TwoSlices
    MaxWindow = 2
    MaxFence = 2
    MaxFaults = 2
    MaxStray = 1
SPECIFICATION Spec
INVARIANTS TypeOK LedgerFollowsKafka RunsAreRegistered
PROPERTIES WritesAreFenced ImplementsWindowDispatch
CHECK_DEADLOCK FALSE
