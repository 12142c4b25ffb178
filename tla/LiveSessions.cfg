SPECIFICATION Spec
CONSTANTS
  Users = {u1, u2, u3}
  Workers = {w1, w2}
  Rooms = {r1}
  Founded = {r1}
  Pairs = {1, 2}
  Nobody = Nobody
  MaxInRoom = 1
  MaxOps = 4
  Mixes = {{"call", "move"}, {"call", "crash"}, {"room", "move"}, {"call", "room"}, {"random", "move"}}
  Refuses = {}
INVARIANTS CallsPaired RoomKept 
 
CHECK_DEADLOCK FALSE
