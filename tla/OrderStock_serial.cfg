SPECIFICATION Spec
CONSTANTS
  o1 = o1
  o2 = o2
  w1 = w1
  w2 = w2
  Orders = {o1, o2}
  Workers = {w1, w2}
  Qty <- OneEach
  InitialOnHand = 2
  EntryPoints <- LifeEntries
  StatusTargets <- LifeStatuses
  BoardTargets <- LifeBoard
  Bookable = {"Packed"}
  MaxReturns = 1
  SplitReturns = FALSE
  Overlap = "serial"
SYMMETRY Symmetry
INVARIANTS LiveOrderHoldsClaim DeadOrderHoldsNothing
PROPERTY DiesWithNothing
CHECK_DEADLOCK FALSE
