SPECIFICATION FairSpec
CONSTANTS
  Second = 2
  TARGET_SPS_PER_SLICE = 2
  TARGET_CONCURRENCY_PER_SLICE = 2
  MAX_AUTO_SLICES = 3
  Executed <- MCExecuted
  Windows <- MCWindows
  Steps = 1
  ScenarioTimeout = 1
  TickMs = 0
  StepErrors = {"pulse_infrastructure"}
  MaxTime = 5
  LatestStart = 1
INVARIANTS
  TypeOK
  ConcurrencyIsGlobal
  PacedStarts
  KeepsUp
  EveryStartIsCounted
  EndsInBudget
  PlanKeepsTheLoad
PROPERTIES
  EverySliceEnds
CHECK_DEADLOCK FALSE
