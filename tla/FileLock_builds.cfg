SPECIFICATION FairSpec
CONSTANTS
  Procs = {p1, p2, p3}
  NoPid = NoPid
  Scenarios <- BothBuilds
INVARIANTS TypeOK MutualExclusion NoOrphan
PROPERTIES ProbeSound BlockingReturns LockIsFreed
