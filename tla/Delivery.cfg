SPECIFICATION DeliverySpec
CONSTANTS
  d1 = d1
  p1 = p1
  p2 = p2
  d0 = d0
  r1 = r1
  Device = {d1}
  LogDevice = {d1}
  Drainer = {d0}
  Room = {r1}
  Lane = {1}
  MaxPosts = 2
  Asked <- MCAny
  Events = {"leave", "fail", "pin", "quiet", "expire", "resume"}
  Request = {p1, p2}
  DeviceOf <- MCSocketsOf
  JobsOf <- MCSocketJobs
  Slot = {1, 2}
  SlotOf <- MCSlotOf
  AnySlot = AnySlot
  Addressee <- MCFanout
  Stale = 2
  Superseded = 1
  TTL = 2
  Loads <- MCLoads
  MaxClock = 0
INVARIANTS LogKept InOrderKept
PROPERTY CursorForward
CHECK_DEADLOCK FALSE
