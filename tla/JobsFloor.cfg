SPECIFICATION Spec
CONSTANTS
  repair = repair
  tuneup = tuneup
  Jobs = {repair, tuneup}
  Opened = {repair}
  Assigned = {repair}
  Requests = {r1, r2, r3}
  Keep = Keep
  Free = Free
  Menu = "floor"
  MaxFaults = 1
  Bodies <- MCBodies
INVARIANT TypeOK ReleaseInv ReleasedIsPaid NoOrphans PaidHasCommission
PROPERTY PaymentAddsOnlyTheFirst
