SPECIFICATION Spec
CONSTANTS
  P = 10007
  Jobs <- MCCudaJobs
INVARIANTS
  RaceFree
  CudaAgrees
