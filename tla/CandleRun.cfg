SPECIFICATION Spec
CHECK_DEADLOCK FALSE
CONSTANTS
  NIters = 2
  BatchSize = 2
  SavePeriod = 3
  CustomOp = TRUE
  MaxIter = 6
  MaxLaunches = 3
  MaxCpuRuns = 1
  MaxFails = 1
INVARIANTS
  PoisonIsFresh
  CounterIsAge
  SomethingToResume
  OdeGradientsOfThisBatch
