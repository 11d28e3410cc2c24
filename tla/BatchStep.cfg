SPECIFICATION FairSpec
CONSTANTS
  Elements = {e1, e2}
  NLayers = 2
  Ceilings = {5, 20}
  Configured = 20
  CliCeiling = 0
  Readings = {3, 12, 40}
  LearnableAttn = TRUE
  Devices = {"cpu", "gpu"}
  Headrooms = {FALSE, TRUE}
  Resumes = {FALSE, TRUE}
  NIters = 2
INVARIANTS GradientsOfOneModel SharedWithinPhysics OneForwardPerBatch
PROPERTIES BatchesEnd
