SPECIFICATION Spec
CONSTANTS
  Total = 6
  ThreadCount = 1
  BatchSize = 2
  Scenarios <- Supported
INVARIANTS TypeOK OnlyOvertakenLost QuarantineHonoured
PROPERTIES ChangesAreAnnounced SupervisorReturns
