SPECIFICATION FairSpec
CONSTANTS
  DrainTimeout = 2
  RenewInterval = 1
  Request = 1
  OpTimeout = 1
  Grace = 1
  MaxFailures = 1
INVARIANT ReadyIsHonest
INVARIANT OkMeansRequested
INVARIANT NodeIsNotCutOff
PROPERTY ProcessEnds
CHECK_DEADLOCK FALSE
