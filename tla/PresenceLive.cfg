SPECIFICATION Spec
CONSTANTS
  w1 = w1
  w2 = w2
  d1 = d1
  d2 = d2
  Workers = {w1, w2}
  Devices = {d1, d2}
  Sockets = {1, 2}
  Dials <- TwoDials
  Kicks <- SomeKicks
  MaxSockets = 1
  Faults = 1
  NoOne = NoOne
  All = All
PROPERTIES LiveSeen  OneSurvivor
CHECK_DEADLOCK FALSE
