SPECIFICATION Spec
CONSTANTS
  Handlers = {h1, h2}
  Failures <- AllFailures
  None = None
SYMMETRY HandlerSymmetry
CHECK_DEADLOCK FALSE
INVARIANTS
  TypeOK
  LeaksAreExplained
  FilesInUseExist
