\* One failed renewal, and a release while scenario tasks still run.
CONSTANTS
    n1 = n1
    n2 = n2
    k1 = k1
    k2 = k2
    Node = {n1, n2}
    NoNode = NoNode
    Key = {k1}
    Logs <- SingleJob
    Rejects <- NoRejects
    MaxRetries = 1
    Attempts = 2
    QueueSize = 1
    MaxRebalance = 1
    MaxFaults = 1
    MaxStray = 1
SPECIFICATION Spec
INVARIANT OneNodeRunsAnExecution
CHECK_DEADLOCK FALSE
