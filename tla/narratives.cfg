CONSTANTS
  Episodes = {1, 2}
  Narrators = {"closer", "sweep", "stage", "cleanup"}
  NodeId <- Ids
  MidSession = 2
  MaxBusy = 2
  MaxForgets = 1
  MaxMarks = 1
  MaxCrashes = 1
SPECIFICATION NarrativesFairSpec
PROPERTIES CoverageNeverShrinks SessionSettles
CHECK_DEADLOCK FALSE
