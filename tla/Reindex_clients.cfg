SPECIFICATION Spec
CONSTANTS
  Clients = {c1, c2}
  Files = {f1, f2}
  Scenarios <- Supported
INVARIANTS TypeOK NothingForgotten NoStrandedTrigger NoDuplicateRun
PROPERTIES CatchesUp StopDrains
CHECK_DEADLOCK FALSE
