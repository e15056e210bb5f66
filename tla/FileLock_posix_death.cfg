SPECIFICATION Spec
CONSTANTS
  Procs = {p1, p2, p3}
  NoPid = NoPid
  Scenarios <- PosixDeath
INVARIANT MutualExclusion
CHECK_DEADLOCK FALSE
