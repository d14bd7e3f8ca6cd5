SPECIFICATION FairSpec
CONSTANTS
  Callers = {c1, c2}
  MaxItems = 3
  None = None
CHECK_DEADLOCK FALSE
INVARIANTS
  TypeOK
  NothingLeftBehind
  StopsPromptly
  NeverWaitsForItself
PROPERTIES
  DeliversInOrder
  CloseEnds
  CallsEnd
