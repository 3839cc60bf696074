SPECIFICATION IntakeSpec
CONSTANTS
  ann = ann
  bob = bob
  s1 = s1
  s2 = s2
  s3 = s3
  Req = {r1, r2}
  Caller = {ann, bob}
  File = {f1, f2, f3}
  Submission = {s1, s2, s3}
  Opener <- ThreeForms
  InvoiceId = {i1, i2}
  Faults = {"storage", "database", "crash"}
SYMMETRY FileSymmetry
INVARIANTS FileIsStored OneInvoicePerForm
\* Every upload may have been consumed or expired and every key used up.
CHECK_DEADLOCK FALSE
