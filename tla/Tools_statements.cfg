SPECIFICATION Spec
CONSTANTS
  QueryFloor = 5
  QueryCap = 6
  ImpactCap = 2
  HeadFactor = 2
  BaseLimit = 1
  Sessions <- MCCrossedSessions
  Commits <- MCCommits
  Requests <- MCCrossedRequests
INVARIANT StatementsFit
CHECK_DEADLOCK FALSE
