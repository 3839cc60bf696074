CONSTANTS
  r1 = r1
  r2 = r2
  mgr = mgr
  reg = reg
  chief = chief
  f1 = f1
  f2 = f2
  f3 = f3
  Req <- MCReq
  User <- MCUser
  RolesOf <- MCRolesOf
  File <- MCFile
  Amount = {1, 2}
  Scenarios <- MCScenarios
SYMMETRY Symmetric
SPECIFICATION Spec
\* A refund that is paid or canceled accepts no further request.
CHECK_DEADLOCK FALSE
INVARIANTS
  SlotHoldsOneStoredFile
  SubmittedIsComplete
  PaidOnceAsApproved
