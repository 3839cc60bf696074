SPECIFICATION MonthSpec
CONSTANTS
  chief = chief
  both = both
  owner = owner
  second = second
  Slot = {r1}
  Person = {chief, both, owner, second}
  ChiefOf <- MCChiefOf
  OwnerOf <- MCOwnerOf
  CloseRow = {w1, w2}
  RequestId = {q1, q2, q3, q4}
  MaxExecuted = 2
SYMMETRY Symmetry
INVARIANTS ReopeningIsApproved ExecutedOnce
