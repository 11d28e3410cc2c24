----------------------------- MODULE MCGpuPass -----------------------------
EXTENDS GpuPass
Job(kind, bands, chi, steps, beyond, T, groups) ==
  [kind |-> kind, n |-> bands, chi |-> chi, steps |-> steps, beyond |-> beyond, T |-> T, groups |-> groups, seed |-> 1]
MCGpuJobs == { Job("forward", 6, TRUE, 2, "zero", 2, 1), Job("forward", 5, TRUE, 1, "last", 1, 1),
               Job("backward", 6, FALSE, 2, "zero", 2, 1), Job("backward", 4, TRUE, 2, "last", 1, 1),
               Job("backward", 5, TRUE, 1, "last", 1, 1),
               Job("perturb", 4, FALSE, 1, "zero", 2, 1), Job("perturb", 5, TRUE, 1, "zero", 1, 1),
               Job("layer", 4, TRUE, 1, "last", 2, 1), Job("chain", 5, TRUE, 2, "zero", 2, 1),
               Job("fallback", 4, FALSE, 1, "zero", 2, 2), Job("attention", 4, FALSE, 1, "zero", 3, 1),
               Job("linear", 3, FALSE, 1, "zero", 2, 1), Job("norm", 3, FALSE, 1, "zero", 3, 1),
               Job("heads", 4, FALSE, 1, "zero", 3, 1), Job("perBand", 3, FALSE, 1, "zero", 2, 1),
               Job("oneMaestro", 5, TRUE, 2, "zero", 2, 1),
               Job("legacy", 4, FALSE, 2, "zero", 2, 1), Job("legacy", 5, TRUE, 1, "zero", 1, 1) }
=============================================================================
