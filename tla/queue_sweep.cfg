CONSTANTS
  NoOne = NoOne
  A = A
  B = B
  OfB = {}
  Jobs = {j1, j2}
  Claimants = {w1}
  Sessions = {A, B}
  SessionOf <- Split
  MaxAttempts = 1
  Batch = 1
  Filters <- SomeFilters
  Watched = {}
  MaxCrashes = 1
SPECIFICATION FairSpec
INVARIANTS LaneTurnsDistinct RetriesCostCrashes
PROPERTY EveryExhaustedRowGetsItsRetry
CHECK_DEADLOCK FALSE
