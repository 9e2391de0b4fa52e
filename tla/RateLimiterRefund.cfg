SPECIFICATION Spec
CONSTANTS
  None = None
  Calls = {a1, a2, a3}
  Capacity = 2
  Unit = 3
  Rate = 2
  BucketTTL = 4
  Limit = 2
  Window = 4
  MaxDelay = 1
  MaxRetries = 0
  Horizon = 7
SYMMETRY CallSymmetry
INVARIANTS
  RefusalIsFree
