\* What is proved whatever the hash does, and of Stop: under a hash that collides.
CONSTANTS
  Client = {c1, c2}
  Id = {c1, c2}
  IdOf <- CollidingIds
  Aborted = {}
  Worker = {w1, w2}
  NoClient = NoClient
SPECIFICATION Spec
INVARIANT StopNeverStuck
PROPERTIES RunsDown RemovesSameId
CHECK_DEADLOCK FALSE
