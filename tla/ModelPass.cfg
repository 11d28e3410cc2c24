SPECIFICATION Spec
CONSTANTS
  P = 10007
  Temperature = 7
  ContentDim = 2
  ModelJobs <- MCModelJobs
INVARIANTS
  ModelGradientExact
  LayoutRoundTrips
  AutoLoadRecovers
  Causal
  AttentionAligned
  PassesAgree
CHECK_DEADLOCK FALSE
