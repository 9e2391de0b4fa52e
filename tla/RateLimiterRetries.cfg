SPECIFICATION Spec
CONSTANTS
  None = None
  Calls = {a1, a2}
  Capacity = 1
  Unit = 1
  Rate = 1
  BucketTTL = 3
  Limit = 1
  Window = 3
  MaxDelay = 1
  MaxRetries = 2
  Horizon = 4
SYMMETRY CallSymmetry
INVARIANTS
  TypeOK
  AtMostLimitPerWindow
  BurstBounded
