-------------------------- MODULE MCInvoiceContour --------------------------
(* Small instances of InvoiceContour for TLC.                              *)
EXTENDS InvoiceContour, TLC

CONSTANTS mgr, reg, chief

MCUser    == {mgr, reg, chief}
MCRolesOf == mgr :> {"manager"} @@ reg :> {"regional_director"}
             @@ chief :> {"chief_accountant"}

\* Versions of the invoice: complete and for two units of money; for one unit
\* with a requisite missing.
Complete == [amount |-> 2, month |-> 1, gap |-> "none"]
Sparse   == [amount |-> 1, month |-> 1, gap |-> "requisites"]

CompleteOnly    == {Complete}
CompleteSparse  == {Complete, Sparse}

KeySymmetry  == Permutations(Key)
SlotSymmetry == Permutations(Req) \cup Permutations(Key)
=============================================================================
