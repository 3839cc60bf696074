SPECIFICATION Spec
CONSTANTS
  mgr = mgr
  reg = reg
  chief = chief
  Req = {r1}
  User <- MCUser
  RolesOf <- MCRolesOf
  Author = mgr
  Data <- CompleteSparse
  Month = {1}
  Key = {k1, k2, k3}
  Origin = {"submitted", "draft"}
  Calls = {"transition", "pay", "reverse", "update", "review", "resubmit", "replace", "cancel", "close", "regional"}
SYMMETRY KeySymmetry
INVARIANTS StatusReflectsLedger PaidDataWasApproved
