SPECIFICATION Spec
CHECK_DEADLOCK FALSE
CONSTANTS
  NIters = 2
  BatchSize = 1
  SavePeriod = 2
  CustomOp = FALSE
  MaxIter = 4
  MaxLaunches = 1
  MaxCpuRuns = 1
  MaxFails = 0
INVARIANTS
  CpuDrawsFromStream
