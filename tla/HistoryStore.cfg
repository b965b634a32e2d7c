CONSTANTS
  Backing = {"backup"}
  Restoring = {"restore"}
  MaxTime = 2
  MaxSessions = 3
  Cutoffs = {1}
  Switched = {TRUE}
  NoFile = NoFile
  Builds <- MCBuilds
SPECIFICATION MCSpec
INVARIANTS
  HistoryKept
  SafetyCopy
  NoHole
  GapsAreReal
PROPERTIES
  DatabaseComesBack
  CollectionIsLetIn
CHECK_DEADLOCK FALSE
