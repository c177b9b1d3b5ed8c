SPECIFICATION Spec
CONSTANTS
  pathao = pathao
  steadfast = steadfast
  Parcels = {pathao, steadfast}
  PanelOnly = {steadfast}
  MaxEvents = 3
  MaxFaults = 1
  MaxCalls = 1
  BoardSets = {"HOLD", "CANCELLED"}
INVARIANTS TypeOK CancelledHidesNoParcel
CHECK_DEADLOCK FALSE
PROPERTIES DeliveredWasClaimed LastWordIsHeeded
