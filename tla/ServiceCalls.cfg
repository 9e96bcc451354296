\* Two administrators, two starts, every system call may fail.
CONSTANTS
  Instance = {i1, i2}
  NoInstance = NoInstance
  CallsFail = TRUE
  Console = {a, b}
  Dependent = {d1}
SPECIFICATION Spec
SYMMETRY ServiceSymmetry
INVARIANTS TypeOK StopTrueMeansStopped HandlesClosed
PROPERTIES LegalMoves
CHECK_DEADLOCK FALSE
