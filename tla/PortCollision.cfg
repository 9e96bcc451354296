\* Two connections whose ids are the same hash value.
CONSTANTS
  Client = {c1, c2}
  Id = {c1, c2}
  IdOf <- CollidingIds
  Aborted = {}
  Worker = {w1, w2}
  NoClient = NoClient
SPECIFICATION Spec
PROPERTY RemovesOwnContext
CHECK_DEADLOCK FALSE
