SPECIFICATION Spec
CONSTANTS
  Workers = {w1, w2}
  Phones = {d1}
  Browsers = {b1, b2}
  Mixes = {{"epoch"}, {"suspended"}, {"devices"}}
  MaxVersion = 2
  MaxDevices = 1
  MaxFaults = 1
  None = None
PROPERTIES Mirrored NotLockedOut 
CHECK_DEADLOCK FALSE
