CONSTANTS
  r1 = r1
  r2 = r2
  olga = olga
  oleg = oleg
  mila = mila
  c1 = c1
  c2 = c2
  c3 = c3
  s1 = s1
  s2 = s2
  s3 = s3
  i1 = i1
  i2 = i2
  Req <- MCReq
  User <- MCUser
  Address <- MCAddress
  AddressOf <- MCAddressOf
  Invite <- MCInvite
  Challenge <- MCChallenge
  NewSession <- MCNewSession
  InviteRoles <- MCInviteRoles
  MaxAttempts = 2
  MaxSends = 2
  MaxResends = 1
  Scenarios <- MCScenarios
SYMMETRY Symmetric
SPECIFICATION Spec
\* The ids of rows are finite, so a behaviour may come to its end.
CHECK_DEADLOCK FALSE
INVARIANTS
  LoginsAreSpent
  LeftAccountsHoldNothing
  CompanyKeepsAnOwner
  CookieIsStored
PROPERTIES
  InvitesGrantOnce
