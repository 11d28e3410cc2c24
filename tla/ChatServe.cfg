SPECIFICATION FairSpec
CHECK_DEADLOCK FALSE
CONSTANTS
  Requests = {r1, r2}
  MaxTokens = 2
  Cap = 2
  PoolSize = 1
  UseMemory = TRUE
  MaxRestarts = 1
  MaxFails = 1
INVARIANTS
  StreamScripted
  AnsweredIsRemembered
  NoPhantomConversation
PROPERTIES
  KeepsPromise
  DisconnectFreesThread
  EveryRequestEnds
  ShutdownEnds
