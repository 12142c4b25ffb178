SPECIFICATION Spec
CONSTANTS
  d1 = d1
  d2 = d2
  p1 = p1
  p2 = p2
  Device = {d1, d2}
  Request = {p1, p2}
  DeviceOf <- MCDeviceOf
  JobsOf <- MCJobsOf
  Slot <- MCSlot
  SlotOf <- MCSlotOf
  AnySlot = AnySlot
  Addressee <- MCFanout
  Stale = 1
  Superseded = 0
  TTL = 0
  Loads <- MCTwoDirectOrGroup
  MaxClock = 1
INVARIANTS  SeqAgreesWithId
CHECK_DEADLOCK FALSE
