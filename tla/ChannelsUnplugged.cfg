\* An input channel and a forceable output channel of a device that is
\* unplugged and plugged in again.
CONSTANTS
  Client = {c1, c2}
  Device = {d1}
  InChannel = {i1}
  OutChannel = {o1}
  Forceable = {o1}
  Unpluggable = {d1}
  NoOwner = NoOwner
  BadChannel = BadChannel
  Nothing = Nothing
SPECIFICATION Spec
SYMMETRY ClientSymmetry
INVARIANTS TypeOK NoOrphanLease ExclusiveUse
PROPERTY LeaseRefinement
