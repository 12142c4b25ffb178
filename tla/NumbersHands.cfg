SPECIFICATION Spec
CONSTANTS
  a = a
  b = b
  c = c
  p1 = p1
  p2 = p2
  r1 = r1
  r2 = r2
  v1 = v1
  v2 = v2
  None = None
  Uin = {a, b, c}
  Scarce = {a}
  Shelf = {a}
  Person = {p1, p2}
  Request = {r1, r2}
  Nonce = {v1, v2}
  Voucher <- MCVoucher
  HoldId = {h1}
  MaxOwned = 1
  MaxOffer = 1
  MaxCall = 5
  Calls = {"register", "migrate", "claim", "activate", "redeem", "release", "list", "delist", "burn", "grant", "hold", "invite", "reclaim"}
SYMMETRY MCSymmetry
INVARIANTS OneBody VoucherHonoured TitleKept DeedExclusive
CHECK_DEADLOCK FALSE
