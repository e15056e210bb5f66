SPECIFICATION Spec
CONSTANTS
  SourceNames = {"a.py", "b.py", "c.py", "l.py", "o.py"}
  ExcludedDirs = {"build"}
  BazelDirs = {"bazel-out"}
  Edits <- MCEdits
  Scenarios <- MCScenarios
INVARIANT IndexFollowsTree
CHECK_DEADLOCK FALSE
