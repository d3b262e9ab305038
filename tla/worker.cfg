CONSTANTS
  NoOne = NoOne
  Claimants = {w1, w2}
  Jobs = {j1, j2}
  Slots = {s1, s2}
  MaxAttempts = 2
  BreakerThreshold = 2
  LiveClaimsExpire = FALSE
  Quietly = {j2}
  MaxExpiries = 2
SPECIFICATION FairSpec
INVARIANTS NoOrphanedClaim OneRunPerRow StopGivesEverythingBack ClaimedRowsHaveAttemptsLeft
PROPERTY EveryRowSettles
CHECK_DEADLOCK FALSE
