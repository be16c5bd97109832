CONSTANTS
  Faults = 1
  Meddlings = 1
  Started = {"sort"}
SPECIFICATION Spec
INVARIANT SortedComesOut
CHECK_DEADLOCK FALSE
