SPECIFICATION HealthSpec
CONSTANTS
  Runtimes = {"chat", "embedding"}
  Delays <- MCDelays
  RetryDelay = 1
  MaxGeneration = 4
  None = None
  Requests = {r1, r2}
  Calls <- MCCalls
  PoolSize = 2
  MaxChunks = 1
  PathConfigured = TRUE
  FailingParts = {"model"}
  EarlyDisconnect = FALSE
  UnloadMayRaise = FALSE
  Monitor = monitor
  RuntimesInTurn <- InTurn
INVARIANTS
  HealthTypeOK
  FreeReportIsTrue
  DeadlineFitsKeepAlive
