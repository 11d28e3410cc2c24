SPECIFICATION Spec
CHECK_DEADLOCK FALSE
CONSTANTS
  NIters = 2
  BatchSize = 1
  SavePeriod = 2
  Tied = TRUE
  LearnableOde = TRUE
  OldIters = {}
  MaxIter = 4
  MaxLaunches = 2
INVARIANT
  CompleteFileLoads
