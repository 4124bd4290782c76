\* Two nodes, pauses and slow clocks: safety of the local deadline.
CONSTANTS
    Node = {n1, n2}
    NoNode = NoNode
    TTL = 3
    Renew = 1
    OpTimeout = 1
    Drift = 1
    MaxTime = 3
    MaxFence = 3
    MaxOrphans = 1
SPECIFICATION Spec
SYMMETRY NodeSymmetry
INVARIANTS TypeOK LocalLeaseIsRedisLease AtMostOneCurrentLeader
PROPERTY ImplementsLease
CHECK_DEADLOCK FALSE
