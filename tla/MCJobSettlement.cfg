\* Records of every kind, two workers, crashes, rebalances and lost answers.
CONSTANTS
    n1 = n1
    n2 = n2
    k1 = k1
    k2 = k2
    Node = {n1, n2}
    NoNode = NoNode
    Key = {k1, k2}
    Logs <- MixedRecords
    Rejects <- OneRejects
    MaxRetries = 1
    Attempts = 2
    QueueSize = 1
    MaxRebalance = 1
    MaxFaults = 1
    MaxStray = 1
SPECIFICATION Spec
INVARIANTS TypeOK CommittedIsSettled RecordedIsPublished HeldLeaseIsMine
CHECK_DEADLOCK FALSE
