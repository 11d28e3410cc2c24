SPECIFICATION StalledSpec
CHECK_DEADLOCK FALSE
CONSTANTS
  Requests = {r1, r2}
  MaxTokens = 2
  Cap = 1
  PoolSize = 2
  UseMemory = TRUE
  MaxRestarts = 0
  MaxFails = 0
PROPERTIES
  WholeRequestEnds
