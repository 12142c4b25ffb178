SPECIFICATION Spec
CONSTANTS
  a = a
  b = b
  c = c
  p1 = p1
  p2 = p2
  Uin = {a, b, c}
  Guest = {c}
  Watched = {b}
  Request = {p1, p2}
  Calls = {"join", "remove", "transfer", "permit", "delete", "state", "burn", "crash"}
  MaxSeat = 3
  MaxVer = 1
SYMMETRY MCRequests
INVARIANTS OneOwnerRow GuestNeverOwns OwnerSeated
CHECK_DEADLOCK FALSE
