SPECIFICATION Spec
CONSTANTS
  Runtimes = {"chat", "translation"}
  Delays <- MCDelays
  RetryDelay = 1
  MaxGeneration = 4
  None = None
  Requests = {r1, r2}
  Calls <- FallbackCalls
  PoolSize = 2
  MaxChunks = 1
  PathConfigured = FALSE
  FailingParts = {}
  EarlyDisconnect = FALSE
  UnloadMayRaise = FALSE
INVARIANTS
  IdleMemoryIsScheduled
