SPECIFICATION Spec
CONSTANTS
  None = None
  TimeoutMax = 100000
  Environments <- MCEnvironments
  Requests <- MCRequests
  MaxRequests = 3
CHECK_DEADLOCK FALSE
INVARIANTS
  TypeOK
  AnswersFit
  SpokenAsAsked
  LoadedWhenUsed
  KeepAliveHonoured
PROPERTIES
  OnlyServedRequestsTouch
