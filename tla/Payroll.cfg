SPECIFICATION Spec
CONSTANTS
  r1 = r1
  r2 = r2
  mgr = mgr
  reg = reg
  acc = acc
  gd = gd
  a1 = a1
  a2 = a2
  k1 = k1
  k2 = k2
  t1 = t1
  t2 = t2
  v1 = v1
  v2 = v2
  d1 = d1
  d2 = d2
  q1 = q1
  q2 = q2
  Req = {r1, r2}
  User = {mgr, reg, acc, gd}
  RolesOf <- MCRolesOf
  Adjustment = {a1, a2}
  Key = {k1, k2}
  Tranche = {t1, t2}
  Voucher = {v1}
  Debt = {d1}
  Request = {q1}
  Amount = {1, 2}
  MaxAttempts = 2
  Scenarios <- MCScenarios
SYMMETRY Symmetry
INVARIANTS TotalsMatchRows MoneyIsCounted TranchesWithinApproved DebtIsAccounted BonusesFollowRequests PaymentsAreSerial
PROPERTIES PaymentLedger
\* A closed period and used up ids accept no further request.
CHECK_DEADLOCK FALSE
