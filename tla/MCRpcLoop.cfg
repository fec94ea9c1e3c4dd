CONSTANTS
  MaxRuns = 2
  MaxAborts = 2
  MaxCommits = 1
  MaxRequests = 1
  MaxOthers = 1
  MayFail = TRUE
SPECIFICATION FairSpec
INVARIANTS
  TypeOK
  RunsInOrder
  NothingLeftBehind
PROPERTIES
  RunsEnd
  EngineExits
CHECK_DEADLOCK FALSE
