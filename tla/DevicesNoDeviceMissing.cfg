\* A send that fails while Start adds the devices it has listed.
CONSTANTS
  Device = {d1, d2}
  Address = {own, far}
  Own = own
  Contained = {own}
  MaxChanges = 2
  MaxFlight = 1
SPECIFICATION Spec
INVARIANT NoDeviceMissing
CHECK_DEADLOCK FALSE
