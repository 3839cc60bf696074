------------------------ MODULE MCCashReconciliation ------------------------
(* A small instance of CashReconciliation for TLC.                         *)
EXTENDS CashReconciliation, TLC

CONSTANTS mgr, reg, acc, ooo, ip

MCEntities == <<ooo, ip>>
MCUser    == {mgr, reg, acc}
MCRolesOf == mgr :> {"manager"} @@ reg :> {"regional_director"} @@ acc :> {"accountant"}
=============================================================================
