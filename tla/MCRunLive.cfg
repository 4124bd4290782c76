SPECIFICATION FairSpec
CONSTANTS
    n1 = n1
    n2 = n2
    r1 = r1
    r2 = r2
    Node = {n1, n2}
    NoNode = NoNode
    Run = {r1}
    Logs <- ShortLogs
    Bounds <- ShortBounds
    Expected <- TwoSlices
    Batch = 1
    MaxActive = 2
    MaxKinds = 2
    MaxExact = 3
PROPERTIES
    RunsAreReported
    ResultsAreConsumed
