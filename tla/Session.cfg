\* Two tabs of one browser; two concurrent calls of the first one.
CONSTANTS
  t1 = t1
  t2 = t2
  c1 = c1
  c2 = c2
  Tab = {t1, t2}
  Call = {c1, c2}
  Owner <- OneTab
  Ages = TRUE
  Fails = TRUE
  MaxSession = 1
  Budget = 2
SPECIFICATION Spec
INVARIANTS QueueHasLeader TokensAccountedFor
PROPERTIES EndsForAReason KeepsPromise CallsSettle GuardDecides
\* Nobody need sign in again once the budget and the sessions are used up.
CHECK_DEADLOCK FALSE
