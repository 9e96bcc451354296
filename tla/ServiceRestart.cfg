\* The comment on the first loop of StartSvc.
CONSTANTS
  Instance = {i1, i2}
  NoInstance = NoInstance
  CallsFail = FALSE
  Console = {a, b}
  Dependent = {}
SPECIFICATION Spec
PROPERTY StartWaitsForStop
CHECK_DEADLOCK FALSE
