CONSTANTS
  Rows = {r1}
  Entities = {e1, e2, e3}
  MaxNodes = 1
  MaxAttempts = 3
  MaxCrashes = 1
  MaxFailures = 2
SPECIFICATION FairSpec
INVARIANTS EntitiesAreWoven DoneMeansEnriched RemintedOnlyWhenCutShort PairsRecountedOnlyAfterCut OneBurst
PROPERTY EpisodeGetsEnriched
CHECK_DEADLOCK FALSE
