SPECIFICATION FairSpec
CONSTANTS
  Files <- MCFiles
  Commits <- MCCommits
  Content <- MCContent
  Quoted = {2}
  Contents = {0, 1, 3}
  Scenarios <- MCScenarios
INVARIANTS CopyIsCommitted TimesTellTheTruth
PROPERTY IndexFollowsDisk
CHECK_DEADLOCK FALSE
