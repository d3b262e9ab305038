CONSTANTS
  NoOne = NoOne
  A = A
  B = B
  OfB = {j3}
  Jobs = {j1, j2, j3}
  Claimants = {w1}
  Sessions = {A, B}
  SessionOf <- Split
  MaxAttempts = 1
  Batch = 0
  Filters <- SomeFilters
  Watched = {j1, j2, j3}
  MaxCrashes = 0
SPECIFICATION Spec
INVARIANTS FirstTurnWaitsOneJobPerSession
PROPERTIES ImplementsClaimTable
CHECK_DEADLOCK FALSE
SYMMETRY Symmetry
