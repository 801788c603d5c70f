\* Two items with two SKUs between them, one stand-in, one motorcycle model; two
\* handlers wait.
CONSTANTS
  a = a
  b = b
  m = m
  n = n
  s = s
  t = t
  nmax = nmax
  Item = {a, b}
  Mock = {m}
  Sku = {s, t}
  Bike = {nmax}
  Role = "admin"
  MaxCall = 2
  Budget = 2
SPECIFICATION Spec
PROPERTIES GoneNotListed OwnNotRevived FreshListOnce RegistryAgrees
\* Once the ids and the budget are spent the pages may be left for good.
CHECK_DEADLOCK FALSE
