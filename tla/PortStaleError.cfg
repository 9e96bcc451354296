\* One connection is aborted by the local stack.
CONSTANTS
  Client = {c1, c2}
  Id = {c1, c2}
  IdOf <- DistinctIds
  Aborted = {c1}
  Worker = {w1, w2}
  NoClient = NoClient
SPECIFICATION Spec
PROPERTY DroppedWhenLost
CHECK_DEADLOCK FALSE
