SPECIFICATION MCSpec
CONSTANTS
  Roots <- MCRoots  Workers <- MCWorkers  Host <- MCHost  Kind <- MCKind  Plans <- MCPlans
  Home = "a"  Stdio = stdio  NoOne = none
  MaxEdits = 1  WithContent = TRUE  MaxRequests = 2
INVARIANTS MergedIsWhole ContentNotForgotten OneWriter
PROPERTIES JobsTellTheTruth CallsEnd AnswersAreCommitted
CHECK_DEADLOCK FALSE
