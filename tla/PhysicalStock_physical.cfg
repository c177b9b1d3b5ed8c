SPECIFICATION Spec
CONSTANTS
  small = small
  large = large
  floor = floor
  bin = bin
  w1 = w1
  w2 = w2
  Orders = {small, large}
  Workers = {w1, w2}
  Qty <- MCQty
  Rows = {floor, bin}
  Floor = floor
  StockAt <- MCStockAt
  Opening <- MCOpening
  Moves = {1}
  MaxLots = 3
  MaxCycles <- MCMaxCycles
  MaxMoves = 1
SYMMETRY Symmetry
INVARIANTS TypeOK NoLotOverdrawn LotsWithinReceipt CostsComeBack ReservationsCounted ReservedGoodsAreThere
PROPERTY CostPromise
CHECK_DEADLOCK FALSE
