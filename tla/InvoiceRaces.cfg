SPECIFICATION Spec
CONSTANTS
  mgr = mgr
  reg = reg
  chief = chief
  Req = {r1, r2}
  User <- MCUser
  RolesOf <- MCRolesOf
  Author = mgr
  Data <- CompleteOnly
  Month = {1}
  Key = {k1, k2}
  Origin = {"submitted", "legacy", "historical"}
  Calls = {"transition", "pay", "reverse", "cancel", "review", "crash"}
SYMMETRY SlotSymmetry
INVARIANTS PaidHasRow PreNamesAPayment ClaimsAreExclusive
PROPERTIES LedgerIsAppendOnly OnlyTheLedgerRevives
\* A rejected or canceled invoice accepts no further request: the system may stop.
CHECK_DEADLOCK FALSE
