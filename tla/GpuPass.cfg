SPECIFICATION Spec
CONSTANTS
  P = 10007
  GpuJobs <- MCGpuJobs
INVARIANTS
  GpuForwardAgrees
  GpuBackwardAgrees
CHECK_DEADLOCK FALSE
