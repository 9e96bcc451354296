\* Liveness: two administrators, two starts, no system call fails.
CONSTANTS
  Instance = {i1, i2}
  NoInstance = NoInstance
  CallsFail = FALSE
  Console = {a, b}
  Dependent = {}
SPECIFICATION FairSpec
PROPERTIES CallsReturn StopEndsProcess DeletedGoes
CHECK_DEADLOCK FALSE
