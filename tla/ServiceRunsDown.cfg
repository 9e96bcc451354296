\* What is proved of a stop: every system call may fail.
CONSTANTS
  Instance = {i1, i2}
  NoInstance = NoInstance
  CallsFail = TRUE
  Console = {a, b}
  Dependent = {d1}
SPECIFICATION Spec
SYMMETRY ServiceSymmetry
INVARIANTS NobodyWaitsInVain OneReporter
PROPERTIES RunsDown
CHECK_DEADLOCK FALSE
