CONSTANTS
  Paths <- AllPaths
  Mounts <- OneOrTwo
  Base <- BaseOf
  Join <- JoinOf
  Backup <- BackupOf
  Trees <- AllTrees
  Calls <- AllCalls
  Options <- AllOptions
  Others = 1
  Names <- TwoNames
  Stdin = "-"
  Scenarios <- AllScenarios
  DefaultLines = 2
  Initial = 2
  Changes = 3
SPECIFICATION FilesFairSpec
INVARIANTS ZeroMeansMoved RingIsLast
PROPERTIES NothingLost ReplacedAtOnce AppendedComesOut ComesToTheName
CHECK_DEADLOCK FALSE
