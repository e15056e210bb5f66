SPECIFICATION Spec
CONSTANTS
  Paths <- MCPaths
  RootOf <- MCRootOf
  Base <- MCBase
  TestPaths = {}
  Lang <- MCLang
  Versions <- MCVersions
  Content <- MCContent
  Traces <- MCTraces
  EdgesPerRef = 1
  BatchSize = 2
  Modes = {"full", "targeted", "force"}
  MaxEdits = 2
  MaxFaults = 1
  MaxCommands = 3
INVARIANTS NoDangling RowsAreOneVersion ResolvedHaveEdges
PROPERTY ObservedSurvive
