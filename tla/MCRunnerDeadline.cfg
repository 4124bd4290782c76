SPECIFICATION Spec
CONSTANTS
  Second = 2
  TARGET_SPS_PER_SLICE = 2
  TARGET_CONCURRENCY_PER_SLICE = 2
  MAX_AUTO_SLICES = 3
  Executed <- MCExecuted
  Windows <- MCExecuted
  Steps = 2
  StepErrors = {"target"}
  ScenarioTimeout = 2
  TickMs = 5000
  MaxTime = 6
  LatestStart = 0
INVARIANTS
  MeasurementsBecomeResults
CHECK_DEADLOCK FALSE
