SPECIFICATION FairSpec
CONSTANTS
  Runtimes = {"chat", "embedding"}
  Delays <- MCDelays
  RetryDelay = 1
  MaxGeneration = 4
  None = None
  Requests = {r1, r2}
  Calls <- MixedCalls
  PoolSize = 1
  MaxChunks = 2
  PathConfigured = TRUE
  FailingParts = {"model"}
  EarlyDisconnect = TRUE
  UnloadMayRaise = TRUE
PROPERTIES
  HandlersReturn
  LoopComesFree
  LockIsReleasedOrLost
  IdleModelsLeave
