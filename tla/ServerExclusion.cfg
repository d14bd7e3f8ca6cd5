SPECIFICATION Spec
CONSTANTS
  Runtimes = {"chat", "translation"}
  Delays <- MCDelays
  RetryDelay = 1
  MaxGeneration = 6
  None = None
  Requests = {r1, r2, r3}
  Calls <- ExclusionCalls
  PoolSize = 2
  MaxChunks = 2
  PathConfigured = FALSE
  FailingParts = {}
  EarlyDisconnect = TRUE
  UnloadMayRaise = TRUE
INVARIANTS
  TypeOK
  LockDiscipline
  OneJob
