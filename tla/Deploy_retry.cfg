SPECIFICATION Spec
CONSTANTS
  Runs = 2
  Commits <- Again
  NewAccount = FALSE
  Overlap = FALSE
  MaxFaults = 1
INVARIANT SkippedMeansAttached
CHECK_DEADLOCK FALSE
