\* The comment on the address: the text of one address may contain another.
CONSTANTS
  Device = {d1, d2}
  Address = {own, far}
  Own = own
  Contained = {own, far}
  MaxChanges = 2
  MaxFlight = 1
SPECIFICATION Spec
PROPERTY OnlyOwnServer
CHECK_DEADLOCK FALSE
