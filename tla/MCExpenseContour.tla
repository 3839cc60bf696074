--------------------------- MODULE MCExpenseContour ---------------------------
(* A small instance of ExpenseContour for TLC.                             *)
EXTENDS ExpenseContour, TLC

CONSTANTS mgr, reg, acc, own, r1, r2, d1, d2, d3

MCReq     == {r1, r2}
MCDoc     == {d1, d2, d3}
MCRolesOf == mgr :> {"manager"} @@ reg :> {"regional_director"}
             @@ acc :> {"accountant"} @@ own :> {"owner", "manager"}

\* The same expense on two days.
Day1 == [amount |-> 1, when |-> 1]
Day2 == [amount |-> 1, when |-> 2]

Workflow == {"draft", "edit", "submit", "approve", "verify", "return", "cancel", "date", "upload",
             "opening", "regional"}

\* One request at a time, with transfers and incomes next to the
\* expense.  Balances reach two units: an opening balance and an income.
OneByOne == [calls |-> Workflow \cup {"remove", "income", "transfer", "confirm"}, slots |-> {r1},
             origin |-> {"new"}, amounts |-> {1}, data |-> {Day1},
             updates |-> {}, docs |-> MCDoc]

\* Two requests at a time, with crashes, and with an old row that waits for an owner.
TwoAtOnce == [calls |-> Workflow \cup {"approveOwner", "crash"}, slots |-> MCReq,
              origin |-> {"new", "owner"}, amounts |-> {1}, data |-> {Day1, Day2},
              updates |-> {}, docs |-> {d1}]

\* Two requests at a time, one of which may be the older form: it writes another date,
\* or takes the amount away, before, between and after the steps of a verification.
Rewriting == [calls |-> {"draft", "upload", "submit", "approve", "approveOwner", "verify", "return",
                         "cancel", "update"},
              slots |-> MCReq, origin |-> {"new", "owner"}, amounts |-> {}, data |-> {Day1},
              updates |-> {Day2, [Day1 EXCEPT !.amount = 0]}, docs |-> {d1}]

MCScenarios == {OneByOne, TwoAtOnce, Rewriting}

Symmetry == Permutations(Req) \cup Permutations(ClubWallet) \cup Permutations(Doc)
            \cup Permutations(Transfer) \cup Permutations(Income)
=============================================================================
