SPECIFICATION OdeSpec
CONSTANTS
  P = 10007
  Jobs <- MCJobs
INVARIANTS
  OdeGradientExact
  MixingConservesEnergy
CHECK_DEADLOCK FALSE
