\* The process ends under its server thread.
CONSTANTS
  Instance = {i1, i2}
  NoInstance = NoInstance
  CallsFail = FALSE
  Console = {a, b}
  Dependent = {}
SPECIFICATION Spec
INVARIANT NoneUsesDestroyed
CHECK_DEADLOCK FALSE
