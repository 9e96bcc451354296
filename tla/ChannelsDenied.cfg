\* The comment on the results of the Set and Reset commands.
CONSTANTS
  Client = {c1, c2}
  Device = {d1}
  InChannel = {i1}
  OutChannel = {o1}
  Forceable = {}
  Unpluggable = {}
  NoOwner = NoOwner
  BadChannel = BadChannel
  Nothing = Nothing
SPECIFICATION Spec
PROPERTY DeniedIsError
