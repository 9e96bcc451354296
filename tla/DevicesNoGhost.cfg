\* A device that is not there: added from behind the list, unplugged between the two handlers,
\* or while it is being added.
CONSTANTS
  Device = {d1, d2}
  Address = {own, far}
  Own = own
  Contained = {own}
  MaxChanges = 2
  MaxFlight = 1
SPECIFICATION Spec
INVARIANT NoGhost
CHECK_DEADLOCK FALSE
