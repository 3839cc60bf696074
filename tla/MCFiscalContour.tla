--------------------------- MODULE MCFiscalContour ---------------------------
(***************************************************************************)
(* Small instances of FiscalContour for TLC: a Taxcom connection with two  *)
(* registers and an Astral one with one, two clubs, three receipts.        *)
(***************************************************************************)
EXTENDS FiscalContour

CONSTANTS s1, s2, taxcom, astral, kkt1, kkt2, fn1, fn2, north, south, llc, x1, x2, x3, ann, bob

MCSlot       == {s1, s2}
MCConnection == {taxcom, astral}
MCProviderOf == (taxcom :> "taxcom") @@ (astral :> "astral")
MCRegister   == {kkt1, kkt2}
MCDrive      == {fn1, fn2}
MCClub       == {north, south}
MCReceipt    == {x1, x2, x3}
MCDriveOf    == (x1 :> fn1) @@ (x2 :> fn1) @@ (x3 :> fn1)
MCDayOf      == (x1 :> 1) @@ (x2 :> 1) @@ (x3 :> 2)
MCEmployee   == {ann, bob}
MCMid        == 1..3

MCSourceOf  == (x1 :> "taxcom") @@ (x2 :> "astral") @@ (x3 :> "astral")
MCCashierOf == (x1 :> None) @@ (x2 :> "ivanova") @@ (x3 :> "ivanova")

Symmetric == Permutations(MCClub) \cup Permutations(MCEmployee)

Nothing  == [r \in MCRegister |-> NoRegister]
Of(calls, slots) ==
  [calls |-> calls, slots |-> slots, bindings |-> {<<north, llc>>}, register |-> Nothing, receipt |-> [x \in MCReceipt |-> NoReceipt],
   identity |-> [i \in Identity |-> NoIdentity], mapping |-> [m \in MCMid |-> NoMapping]]

TwoTaxcom == (kkt1 :> Row(taxcom, fn1, north, llc)) @@ (kkt2 :> Row(taxcom, fn2, south, None))
OneEach   == (kkt1 :> Row(taxcom, fn1, north, llc)) @@ (kkt2 :> Row(astral, fn1, south, llc))

\* One request at a time: imports of both providers, new bindings, failures.
Imports == [Of({"import", "update", "crash"}, {s1})
             EXCEPT !.register = OneEach, !.bindings = {<<south, llc>>}]

\* One request at a time: lines are sorted again.
Lines == [Of({"batch", "rule", "reclassify"}, {s1}) EXCEPT !.register = [OneEach EXCEPT ![kkt1] = NoRegister]]

\* One request at a time: registers.
Registers == [Of({"add", "edit", "renumber", "toggle", "delete", "bind", "unbind", "organization", "update"}, {s1})
              EXCEPT !.register = TwoTaxcom]

\* One request at a time: registers with receipts.
Deletions == [Of({"add", "toggle", "delete", "batch", "toggle connection"}, {s1}) EXCEPT !.register = TwoTaxcom]

\* Astral receipts of one cashier on two days, imported; the cashier is known in the last three.
CashierName == <<astral, fn1, "ivanova">>

Sold == [x \in MCReceipt |-> IF x = x1 THEN NoReceipt ELSE [conn |-> astral, club |-> north, legal |-> llc]]

Known == [i \in Identity |-> IF i = CashierName THEN [status |-> "active"] ELSE NoIdentity]

Suggested == [m \in MCMid |-> IF m = 1 THEN Mapping(CashierName, ann, "auto_matched", 1) ELSE NoMapping]

\* One request at a time: cashiers from their first receipt on.
Cashiers ==
  [Of({"sync", "assign", "exclude", "apply"}, {s1}) EXCEPT !.receipt = Sold, !.register = OneEach]

\* Two assignments at once.
Assignments ==
  [Of({"assign"}, {s1, s2})
     EXCEPT !.receipt = Sold, !.register = OneEach, !.identity = Known, !.mapping = Suggested]

\* Sales of one day applied while the cashier is assigned or excluded.
Payouts ==
  [Of({"assign", "exclude", "apply"}, {s1, s2})
     EXCEPT !.receipt = [Sold EXCEPT ![x3] = NoReceipt], !.register = OneEach,
            !.identity = Known, !.mapping = Suggested]

\* A register is purged with all that was imported from it.
Purges ==
  [Of({"purge", "apply"}, {s1, s2})
     EXCEPT !.receipt = Sold, !.register = OneEach, !.identity = Known, !.mapping = Suggested]

MCScenarios == {Imports, Lines, Registers, Deletions, Cashiers, Assignments, Payouts, Purges}
=============================================================================
