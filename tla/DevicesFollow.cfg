\* Two devices, two changes at any moment; another server's address is contained in
\* the own one.
CONSTANTS
  Device = {d1, d2}
  Address = {own, far}
  Own = own
  Contained = {own, far}
  MaxChanges = 2
  MaxFlight = 1
SPECIFICATION FairSpec
INVARIANTS TypeOK MapFollowsDevices ViewFollowsMap NoticeAfterMap
PROPERTY DeviceServed
CHECK_DEADLOCK FALSE
