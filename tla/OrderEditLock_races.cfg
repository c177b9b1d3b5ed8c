SPECIFICATION Spec
CONSTANTS
  ann = ann
  bob = bob
  a1 = a1
  a2 = a2
  b1 = b1
  Sessions = {a1, a2, b1}
  Users = {ann, bob}
  UserOf <- TwoUsers
  TTL = 2
  Faulty = {}
PROPERTY OnlyOverrideDisplaces
CHECK_DEADLOCK FALSE
