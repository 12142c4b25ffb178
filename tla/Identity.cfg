SPECIFICATION Spec
CONSTANTS
  k1 = k1
  k2 = k2
  k3 = k3
  k4 = k4
  d1 = d1
  d2 = d2
  Uins = {1, 2, 3}
  Keys = {k1, k2, k3, k4}
  Devices = {d1, d2}
  Accounts = {1, 2, 3}
  Starts <- TwoStarts
  MaxOps = 5
  Overlap = FALSE
  None = None
PROPERTIES  FindsHome
CHECK_DEADLOCK FALSE
