CONSTANTS
  Faults = 1
  Meddlings = 1
  Started = {"cp", "rm", "dirs", "ln", "install", "find", "chmod",
             "dd", "tee", "cat", "sort", "uniq", "cut", "tac", "head", "wc", "tr", "sed", "awk"}
SPECIFICATION Spec
INVARIANTS TypeOK ZeroMeansDone OthersKept NeverHalf CopiesRight FiltersRight EditsRight
CHECK_DEADLOCK FALSE
