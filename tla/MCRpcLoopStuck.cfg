CONSTANTS
  MaxRuns = 1
  MaxAborts = 1
  MaxCommits = 1
  MaxRequests = 0
  MaxOthers = 0
  MayFail = FALSE
SPECIFICATION FairSpec
PROPERTY AbortIsAnswered
CHECK_DEADLOCK FALSE
