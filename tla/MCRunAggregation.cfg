SPECIFICATION Spec
CONSTANTS
    n1 = n1
    n2 = n2
    r1 = r1
    r2 = r2
    Node = {n1, n2}
    NoNode = NoNode
    Run = {r1, r2}
    Logs <- AllLogs
    Bounds <- AllBounds
    Expected <- TwoSlices
    Batch = 1
    MaxActive = 1
    MaxKinds = 2
    MaxExact = 3
SYMMETRY NodeSymmetry
INVARIANTS
    TypeOK
    PendingIsRecoverable
    CapacityIsKept
    AckedIsPublished
    CommittedIsAggregated
    SummaryCountsEachSliceOnce
PROPERTIES
    RunsOnlyAdvance
