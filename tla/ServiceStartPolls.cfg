\* The comment on the second loop of StartSvc.
CONSTANTS
  Instance = {i1, i2}
  NoInstance = NoInstance
  CallsFail = FALSE
  Console = {a, b}
  Dependent = {}
SPECIFICATION Spec
PROPERTY StartPollsUntilStarted
CHECK_DEADLOCK FALSE
