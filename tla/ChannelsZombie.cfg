\* The comment on _clientsMap.
CONSTANTS
  Client = {c1, c2}
  Device = {d1}
  InChannel = {i1}
  OutChannel = {o1}
  Forceable = {}
  Unpluggable = {}
  NoOwner = NoOwner
  BadChannel = BadChannel
  Nothing = Nothing
SPECIFICATION Spec
INVARIANT MapHoldsWorking
