SPECIFICATION FairSpec
CHECK_DEADLOCK FALSE
CONSTANTS
  NIters = 2
  BatchSize = 2
  SavePeriod = 2
  Tied = FALSE
  LearnableOde = TRUE
  OldIters = {1}
  MaxIter = 6
  MaxLaunches = 3
INVARIANTS
  StreamAligned
  MomentsMatchWeights
  SnapshotsCoherent
  SourceKept
  CompleteFileLoads
PROPERTIES
  RunEnds
