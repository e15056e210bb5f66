SPECIFICATION FairSpec
CONSTANTS
  ThreadCount = 1
  Capacity = 1
  WorkLists <- MCWorkLists
  PersistFails = TRUE
INVARIANTS TypeOK NothingLostOrDoubled Complete ArenasBalanced WatchdogSeesStuckParses
PROPERTY RunEnds
