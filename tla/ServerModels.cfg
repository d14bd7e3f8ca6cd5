SPECIFICATION Spec
CONSTANTS
  Runtimes = {"chat", "tts", "translation"}
  Delays <- MCTwoDelays
  RetryDelay = 1
  MaxGeneration = 6
  None = None
  Requests = {r1, r2, r3}
  Calls <- ModelCalls
  PoolSize = 2
  MaxChunks = 1
  PathConfigured = TRUE
  FailingParts = {"custom_voice", "translator"}
  EarlyDisconnect = FALSE
  UnloadMayRaise = FALSE
INVARIANTS
  IdleMemoryIsScheduled
  UnloadOnlyWhenIdle
  OneTtsModel
PROPERTIES
  KeepsPolicy
