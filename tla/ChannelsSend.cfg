\* The comment on the result of IsChannelAvaliableFor.
CONSTANTS
  Client = {c1, c2}
  Device = {d1}
  InChannel = {i1}
  OutChannel = {o1}
  Forceable = {}
  Unpluggable = {}
  NoOwner = NoOwner
  BadChannel = BadChannel
  Nothing = Nothing
SPECIFICATION Spec
INVARIANT SendIsModerated
