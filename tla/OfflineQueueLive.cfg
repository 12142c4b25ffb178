SPECIFICATION FairSpec
CONSTANTS
  d1 = d1
  d2 = d2
  p1 = p1
  p2 = p2
  Device = {d1, d2}
  Request = {p1, p2}
  DeviceOf <- MCDeviceOf
  JobsOf <- MCJobsOf
  Slot <- MCSlot
  SlotOf <- MCSlotOf
  AnySlot = AnySlot
  Addressee <- MCUnaddressed
  Stale = 2
  Superseded = 1
  TTL = 2
  Loads <- MCTwoDirect
  MaxClock = 0
PROPERTY D1CatchesUp
CHECK_DEADLOCK FALSE
