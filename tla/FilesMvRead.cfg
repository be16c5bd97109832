CONSTANTS
  Paths <- AllPaths
  Mounts <- OneOrTwo
  Base <- BaseOf
  Join <- JoinOf
  Backup <- BackupOf
  Trees <- AllTrees
  Calls <- AllCalls
  Options <- AllOptions
  Others = 1
  Names <- TwoNames
  Stdin = "-"
  Scenarios <- AllScenarios
  DefaultLines = 2
  Initial = 1
  Changes = 1
SPECIFICATION FilesSpec
PROPERTY RemovedAfterCopy
CHECK_DEADLOCK FALSE
