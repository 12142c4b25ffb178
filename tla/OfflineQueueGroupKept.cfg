SPECIFICATION Spec
CONSTANTS
  d1 = d1
  d2 = d2
  p1 = p1
  p2 = p2
  Device = {d1, d2}
  Request = {p1, p2}
  DeviceOf <- MCDeviceOf
  JobsOf <- MCJobsOf
  Slot <- MCSlot
  SlotOf <- MCSlotOf
  AnySlot = AnySlot
  Addressee <- MCFanout
  Stale = 2
  Superseded = 1
  TTL = 2
  Loads <- MCTwoGroup
  MaxClock = 0
INVARIANT GroupKept
CHECK_DEADLOCK FALSE
