SPECIFICATION Spec
CONSTANTS
  ann = ann
  bob = bob
  a1 = a1
  a2 = a2
  b1 = b1
  Sessions = {a1, b1}
  Users = {ann, bob}
  UserOf <- TwoUsers
  TTL = 2
  Faulty = {a1, b1}
INVARIANT TypeOK
PROPERTIES DisplacedLearns AbandonedLockEnds
CHECK_DEADLOCK FALSE
