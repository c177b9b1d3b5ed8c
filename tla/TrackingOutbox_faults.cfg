SPECIFICATION Spec
CONSTANTS
  m = m
  t = t
  Workers = {1, 2}
  Targets = {m, t}
  Captures <- PurchaseCaptures
  MaxAttempts = 1
  JobAttempts = 2
  JobIds = {0, 1, 2, 3}
  MaxFaults = 1
  MaxCalls = 1
INVARIANTS TypeOK SentMeansAccepted DuplicatesNeedFaults
PROPERTY Settles
CHECK_DEADLOCK FALSE
