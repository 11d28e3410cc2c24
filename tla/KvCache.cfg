SPECIFICATION CacheSpec
CHECK_DEADLOCK FALSE
CONSTANTS
  Tokens = {0, 1, 2}
  BlockSize = 4
  NLayers = 2
  Heads = {0, 1}
  NBuckets = 8
  MaxLen = 6
  Parts = {}
  V <- MCV
  Wte <- MCWte
  Wpe <- MCWpe
  Bin <- MCBin
  Mix <- MCMix
INVARIANTS
  CacheIsRecomputable
