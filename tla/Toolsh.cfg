CONSTANTS
  Pids = {p1, p2}
  NoPid = NoPid
  ExitCodes = {0, 1}
  MaxJobs = 2
  MaxStages = 2
  N = 3
  Cap = 1
  Statuses = {0, 1}
  Lines <- EveryLine
SPECIFICATION ShellFairSpec
INVARIANTS NoLostWakeup LiveJobListed ExitStatusUnlessStolen EndsArePrivate NoStageLeft LastStageCounts
PROPERTIES JobKeptUntilReaped WaitReturns PipelineEnds
