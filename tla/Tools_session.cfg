SPECIFICATION Spec
CONSTANTS
  QueryFloor = 5
  QueryCap = 6
  ImpactCap = 2
  HeadFactor = 2
  BaseLimit = 1
  Sessions <- MCSessions
  Commits <- MCCommits
  Requests <- MCRequests
INVARIANTS SearchesAreExact CandidatesCoverCalls PagesAreComplete
CHECK_DEADLOCK FALSE
