SPECIFICATION Spec
CONSTANTS
  Paths <- MCPaths
  RootOf <- MCRootOf
  Base <- MCBase
  TestPaths = {}
  Lang <- MCLang
  Versions <- MCVersions
  Content <- MCContent
  Traces = {}
  EdgesPerRef = 1
  BatchSize = 2
  Modes = {"full"}
  MaxEdits = 1
  MaxFaults = 0
  MaxCommands = 0
INVARIANT ResolvedCallsFit
