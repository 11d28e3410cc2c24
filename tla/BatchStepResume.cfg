SPECIFICATION Spec
CONSTANTS
  Elements = {e1, e2}
  NLayers = 2
  Ceilings = {5, 20}
  Configured = 20
  CliCeiling = 0
  Readings = {3, 12, 40}
  LearnableAttn = FALSE
  Devices = {"cpu"}
  Headrooms = {FALSE}
  Resumes = {TRUE}
  NIters = 2
INVARIANT ResumedWithinPhysics
