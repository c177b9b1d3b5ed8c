SPECIFICATION Spec
CONSTANTS
  o1 = o1
  o2 = o2
  w1 = w1
  w2 = w2
  Orders = {o1}
  Workers = {w1}
  Qty <- TwoEach
  InitialOnHand = 2
  EntryPoints <- ReturnEntries
  StatusTargets <- ShopStatuses
  BoardTargets <- ShopBoard
  Bookable = {"Packed"}
  MaxReturns = 2
  SplitReturns = TRUE
  Overlap = "serial"
INVARIANT ReturnedUnitsAreBack
CHECK_DEADLOCK FALSE
