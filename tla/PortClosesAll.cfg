\* What is open after a Start that failed.
CONSTANTS
  Client = {c1, c2}
  Id = {c1, c2}
  IdOf <- DistinctIds
  Aborted = {}
  Worker = {w1, w2}
  NoClient = NoClient
SPECIFICATION Spec
INVARIANT ClosesAll
CHECK_DEADLOCK FALSE
