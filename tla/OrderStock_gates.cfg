SPECIFICATION Spec
CONSTANTS
  o1 = o1
  o2 = o2
  w1 = w1
  w2 = w2
  Orders = {o1, o2}
  Workers = {w1, w2}
  Qty <- OneEach
  InitialOnHand = 2
  EntryPoints <- RaceEntries
  StatusTargets <- RaceStatuses
  BoardTargets <- RaceBoard
  Bookable = {"Confirmed"}
  MaxReturns = 1
  SplitReturns = FALSE
  Overlap = "gates"
SYMMETRY Symmetry
INVARIANTS TypeOK TakenOnce NoPhantomReservation
PROPERTY ShelfPromise
CHECK_DEADLOCK FALSE
