CONSTANTS
  r1 = r1
  r2 = r2
  ann = ann
  bob = bob
  x = x
  y = y
  d1 = d1
  d2 = d2
  Req <- MCReq
  User <- MCUser
  Chat <- MCChat
  Drain <- MCDrain
  Codes = 2
  MaxTries = 2
  Notes = 2
  Batch = 2
  MaxAttempts = 2
  Scenarios <- MCScenarios
SPECIFICATION Spec
\* The ids of codes and of notifications are finite, so a behaviour may come to its end.
CHECK_DEADLOCK FALSE
INVARIANTS
  ConnectionsAreExclusive
PROPERTIES
  LinksUseACode
  DeliversAsPromised
  RowsSettle
