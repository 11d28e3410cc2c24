----------------------------- MODULE MCCudaOde -----------------------------
EXTENDS CudaOde
CudaJob(bands, chi, steps, rows, dev) ==
  [n |-> bands, chi |-> chi, steps |-> steps, rows |-> rows, seed |-> 1, dev |-> dev]
MCCudaJobs == { CudaJob(5, TRUE, 1, 1, "cuda"), CudaJob(3, FALSE, 2, 2, "cuda"), CudaJob(4, TRUE, 1, 1, "cuda"),
                CudaJob(6, TRUE, 2, 2, "cpu"), CudaJob(3, FALSE, 1, 1, "none") }
=============================================================================
