--------------------------- MODULE MCInvoiceIntake ---------------------------
(* Small instances of InvoiceIntake for TLC.                               *)
EXTENDS InvoiceIntake, TLC

CONSTANTS s1, s2, s3, ann, bob

ThreeForms == s1 :> ann @@ s2 :> ann @@ s3 :> bob

FileSymmetry == Permutations(File) \cup Permutations(Req) \cup Permutations(InvoiceId)
=============================================================================
