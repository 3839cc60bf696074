SPECIFICATION Spec
CONSTANTS
  mgr = mgr
  reg = reg
  acc = acc
  ooo = ooo
  ip = ip
  Req = {r1}
  User <- MCUser
  RolesOf <- MCRolesOf
  Entities <- MCEntities
  Difference = {0, 1, 2}
INVARIANTS ClosedWasReviewed
