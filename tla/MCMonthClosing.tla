--------------------------- MODULE MCMonthClosing ---------------------------
(* Small instances of MonthClosing for TLC.                                *)
EXTENDS MonthClosing, TLC

\* Besides a chief accountant and two owners, a user who is both.
CONSTANTS chief, both, owner, second

MCChiefOf == {chief, both}
MCOwnerOf == {both, owner, second}

Symmetry == Permutations(Slot) \cup Permutations(CloseRow) \cup Permutations(RequestId)
            \cup Permutations({owner, second})
=============================================================================
