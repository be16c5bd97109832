CONSTANTS
  Pids = {p1, p2, p3}
  NoPid = NoPid
  ExitCodes = {0, 1}
  MaxJobs = 2
  MaxStages = 2
SPECIFICATION Spec
INVARIANT LastExitIsReal
