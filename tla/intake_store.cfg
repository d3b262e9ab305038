CONSTANTS
  p1 = p1
  p2 = p2
  p3 = p3
  s1 = s1
  s2 = s2
  c1 = c1
  c2 = c2
  Pushes = {p1, p2}
  SessionOf <- TwoTwins
  ContentOf <- Contents
  Passes = {k1}
  NoOne = NoOne
  None = None
  Batch = 1
  MaxCrashes = 1
  MaxFailures = 1
  MaxForgets = 1
  MaxDrops = 1
SPECIFICATION Spec
INVARIANTS OneEpisodePerExperience AckedIsKept CacheIsBacked
CHECK_DEADLOCK FALSE
