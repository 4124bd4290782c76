SPECIFICATION FairSpec
CONSTANTS
  Tools = {1, 2}
  Modes <- MCModes
  FirstLogs <- MCLogs
  Limit = 2
  WorkerPlan = 1
  MaxRetries = 1
  MaxLog = 3
  MaxSessions = 2
  MaxFaults = 2
INVARIANT CommittedIsAccounted
INVARIANT OneExecutionPerClaim
PROPERTY OffsetsOnlyAdvance
PROPERTY SessionsComeToRest
CHECK_DEADLOCK FALSE
