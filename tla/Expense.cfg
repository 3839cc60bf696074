SPECIFICATION Spec
CONSTANTS
  mgr = mgr
  reg = reg
  acc = acc
  own = own
  r1 = r1
  r2 = r2
  d1 = d1
  d2 = d2
  d3 = d3
  Req <- MCReq
  User = {mgr, reg, acc, own}
  RolesOf <- MCRolesOf
  ClubWallet = {w1, w2}
  Transfer = {t1}
  Income = {i1}
  Doc <- MCDoc
  MaxDocuments = 2
  Scenarios <- MCScenarios
SYMMETRY Symmetry
INVARIANTS RegionalFirst CashFollowsVerification VerifiedIsRealized
PROPERTIES TransfersAreCovered
\* A verified or cancelled expense and used up ids accept no further request.
CHECK_DEADLOCK FALSE
