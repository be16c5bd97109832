CONSTANTS
  Faults = 1
  Meddlings = 1
  Started = {"cat", "tr", "sort", "dirs", "chmod", "cp"}
SPECIFICATION Spec
INVARIANT HelpHolds
CHECK_DEADLOCK FALSE
