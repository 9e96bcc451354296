\* The second process finds the port taken by the first.
CONSTANTS
  Instance = {i1, i2}
  NoInstance = NoInstance
  CallsFail = FALSE
  Console = {a, b}
  Dependent = {}
SPECIFICATION Spec
INVARIANT RunningServes
CHECK_DEADLOCK FALSE
