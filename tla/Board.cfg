\* One order that the server creates or one made up offline; two handlers wait.
CONSTANTS
  a = a
  b = b
  o = o
  NoJob = NoJob
  Job = {a}
  Existing = {}
  Local = {o}
  Target = {"RELEASED"}
  Cashier = FALSE
  MaxFetch = 1
  MaxCall = 2
  Budget = 2
SPECIFICATION Spec
INVARIANTS PaidBeforeRelease CashierListAgrees
PROPERTIES GhostsAreStale
\* Once the ids and the budget are spent the board may be left for good.
CHECK_DEADLOCK FALSE
