\* Distinct ids, one connection the local stack may abort; the server may be
\* stopped at any time, or fail to start at every call.  Liveness allows no symmetry.
CONSTANTS
  Client = {c1, c2}
  Id = {c1, c2}
  IdOf <- DistinctIds
  Aborted = {c1}
  Worker = {w1, w2}
  NoClient = NoClient
SPECIFICATION FairSpec
INVARIANTS TypeOK OneOperation NoFreedContextUsed StopReleasesAll HandlesOpen
PROPERTIES RemovesOwnContext DroppedForAReason StopCompletes
CHECK_DEADLOCK FALSE
