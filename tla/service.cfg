CONSTANTS
  Sessions = {s1, s2, s3}
  Calls = {c1}
  NoSession = NoSession
  MaxSessions = 2
  MaxDowns = 1
SPECIFICATION FairSpec
INVARIANTS SessionsEndOnce NothingMeetsAClosedStore
PROPERTY ServedRowsGo
CHECK_DEADLOCK FALSE
