\* Two accounts, one browser they share and requests of another one.
CONSTANTS
  ann = ann
  bob = bob
  User = {ann, bob}
  First = ann
  Page = {"settings", "users", "audit"}
  Assignable = {"admin", "cashier"}
  Toggled <- MCToggled
  Budget = 2
SPECIFICATION FairSpec
INVARIANT TypeOK GuardKnowsRole
PROPERTY LastAdminFallsToACrossing OwnSaveKeepsRole DeniedSettles
