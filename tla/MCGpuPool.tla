----------------------------- MODULE MCGpuPool -----------------------------
EXTENDS GpuPool, TLC
CONSTANTS t1, t2
MCPrograms ==
  (t1 :> { << Op("linearBatch", 2, "w1"), Op("matvec", 1, "none") >>, << Op("layerNormBatch", 1, "g"), Op("linearBatch", 1, "w1") >>,
           KerrOde(1, 1), << Op("backwardDx", 2, "none"), Op("matvecResident", 1, "none") >> })
  @@ (t2 :> { << Op("linearBatch", 1, "w1"), Op("linearBatch", 2, "w2") >>, << Op("matvec", 2, "none"), Op("layerNorm", 1, "none") >>,
              << KerrOdeBatch(1, 2, 1)[1], Op("backwardDx", 1, "none") >> })
=============================================================================
