SPECIFICATION ClientSpec
CONSTANTS
  Runtimes = {"chat"}
  Delays <- MCDelays
  RetryDelay = 1
  MaxGeneration = 4
  None = None
  Requests = {r1, r2}
  Calls <- StreamCalls
  PoolSize = 2
  MaxChunks = 1
  PathConfigured = TRUE
  FailingParts = {}
  EarlyDisconnect = TRUE
  UnloadMayRaise = FALSE
PROPERTIES
  LockIsReleased
