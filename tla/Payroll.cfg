\* A recent and an older commission of one mechanic and a cashier; two
\* disbursements may be under way.
CONSTANTS
  c = c
  d = d
  m = m
  k = k
  sample = sample
  Comm = {c, d}
  Mech = {m}
  MechOf <- Owner
  Recent = {c}
  Cashier = {k}
  Sample = sample
  Role = "manager"
  MaxReleased = 0
  MaxTimer = 2
  Budget = 3
SPECIFICATION Spec
INVARIANTS SlipAgrees
PROPERTIES CountedIsMarked
\* Once the budget is spent the pages may be left for good.
CHECK_DEADLOCK FALSE
