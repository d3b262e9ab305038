CONSTANTS
  Processes = {p, q}
  Ops = {1, 2}
  Width <- Buckets
  Relevance <- Levels
  Slow = {1}
  Responders = {2}
  Measured = {2}
  Improves = {}
  AlwaysDue = {1}
  Starvation = 1
  Threshold = 1
  Grace = 2
  Tier3Acts = TRUE
  MaxWait = 2
  MaxBalance = 1
  MaxDowns = 2
SPECIFICATION FairSpec
INVARIANT OneRunPerWindow
PROPERTY EveryOperationRuns
