CONSTANTS
  err = err
  f1 = f1
  x = x
  nl = nl
  nul = nul
  Chars <- AllChars
  Digits <- AllDigits
  DigitValue <- ValueOf
  NUL = nul
  Size = 4
  HistMax = 2
  Streams = {err, f1}
  Std <- StdStreams
  StdErr = err
  Modes = {"r", "w", "a"}
  Bytes = {x, nl}
  NL = nl
  Contents <- AllContents
  Inputs <- AllInputs
  BufSz = 2
  MaxFiles = 2
  MaxLen = 3
  AtExitMax = 1
  Lines <- AllLines
  Sourced <- File
  Statuses = {0, 1}
  d1 = d1
  d2 = d2
  none = none
  Names <- VarNames
  Dirs = {d1, d2}
  Values = {d1, d2}
  Unset = none
  Inherited <- Environments
  Preset <- NoPreset
  MaxVars = 3
  Aliases = {"ll", "la"}
  StandsFor = {"e1"}
  Defaults <- Default
  MaxAliases = 2
SPECIFICATION InputSpec
CONSTRAINT OneInUse
INVARIANTS InputRight OnceAndInOrder ChainsRun ExitIsLastStatus ExitFlushes StderrPrompt
INVARIANTS OneEntryPerName EnvironmentAgrees DirsKnown
PROPERTIES OthersKept TextKept PromptImplementsView StdioImplementsView
CHECK_DEADLOCK FALSE
