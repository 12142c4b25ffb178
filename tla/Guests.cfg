SPECIFICATION Spec
CONSTANTS
  Uins = {1, 2, 3}
  Reqs = {r1, r2}
  Vouchers = {v1}
  Asks = {{"join", "add", "settle", "operator"}, {"join", "add", "register"}, {"add", "recover", "redeem", "operator"}}
  MaxUses = 1
  MaxOps = 3
  MaxFaults = 1
  None = None
INVARIANTS GuestKnown OneGuestRow PaidKept
 
CHECK_DEADLOCK FALSE
