CONSTANTS
  s1 = s1
  s2 = s2
  taxcom = taxcom
  astral = astral
  kkt1 = kkt1
  kkt2 = kkt2
  fn1 = fn1
  fn2 = fn2
  north = north
  south = south
  llc = llc
  x1 = x1
  x2 = x2
  x3 = x3
  ann = ann
  bob = bob
  Slot <- MCSlot
  Connection <- MCConnection
  ProviderOf <- MCProviderOf
  Register <- MCRegister
  Drive <- MCDrive
  Club <- MCClub
  Legal = {llc}
  Receipt <- MCReceipt
  DriveOf <- MCDriveOf
  SourceOf <- MCSourceOf
  DayOf <- MCDayOf
  CashierOf <- MCCashierOf
  Employee <- MCEmployee
  Mid <- MCMid
  Scenarios <- MCScenarios

SPECIFICATION Spec

INVARIANTS
  SummariesMatchReceipts
  ReceiptsKeepTheirRegister
  DrivesAreExclusive
  DaysHaveOneCashier
  OnlyConfirmedPays

SYMMETRY Symmetric

\* The system may stop: nobody has to ask for anything, and the ids of mappings run out.
CHECK_DEADLOCK FALSE
