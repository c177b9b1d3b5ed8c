SPECIFICATION Spec
CONSTANTS
  first = first
  second = second
  c1 = c1
  c2 = c2
  Orders = {first, second}
  Total = 2
  Amounts <- MCAmounts
  Calls = {c1, c2}
  MaxRows = 3
  MaxCalls = 3
SYMMETRY Symmetry
INVARIANTS TypeOK GrantsMatchExcess RefundsWithinPaid CancelledIsSettled
CHECK_DEADLOCK FALSE
