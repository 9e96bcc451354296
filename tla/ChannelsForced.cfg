\* Every command, two clients, one forceable input channel; liveness allows
\* no symmetry.
CONSTANTS
  Client = {c1, c2}
  Device = {d1}
  InChannel = {i1}
  OutChannel = {}
  Forceable = {i1}
  Unpluggable = {}
  NoOwner = NoOwner
  BadChannel = BadChannel
  Nothing = Nothing
SPECIFICATION FairSpec
INVARIANT ContextOwned
PROPERTY LeasesReclaimed
