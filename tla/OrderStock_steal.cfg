SPECIFICATION Spec
CONSTANTS
  o1 = o1
  o2 = o2
  w1 = w1
  w2 = w2
  Orders = {o1, o2}
  Workers = {w1}
  Qty <- OneEach
  InitialOnHand = 2
  EntryPoints <- CounterEntries
  StatusTargets <- ShopStatuses
  BoardTargets <- ShopBoard
  Bookable = {"Packed"}
  MaxReturns = 1
  SplitReturns = FALSE
  Overlap = "serial"
INVARIANT ReservationsCovered
CHECK_DEADLOCK FALSE
