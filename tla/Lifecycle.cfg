SPECIFICATION Spec
CONSTANTS
  Runtimes = {chat}
  Delays <- MCDelays
  RetryDelay = 1
  MaxGeneration = 4
  None = None
  chat = chat
INVARIANTS
  TypeOK
  WaitingIsCancellable
  PublishedDeadline
  NoTimerUnlessAsked
