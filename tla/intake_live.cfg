CONSTANTS
  p1 = p1
  p2 = p2
  p3 = p3
  s1 = s1
  s2 = s2
  c1 = c1
  c2 = c2
  Pushes = {p1, p2, p3}
  SessionOf <- TwoTwins
  ContentOf <- Contents
  Passes = {}
  NoOne = NoOne
  None = None
  Batch = 1
  MaxCrashes = 1
  MaxFailures = 0
  MaxForgets = 0
  MaxDrops = 0
SPECIFICATION FairSpec
INVARIANTS ChainIsALine OneRowPerEpisode
PROPERTY StoredIsEnriched
CHECK_DEADLOCK FALSE
