SPECIFICATION Spec
CONSTANTS
  Runs = 1
  Commits <- BothLayers
  NewAccount = TRUE
  Overlap = FALSE
  MaxFaults = 0
INVARIANT ServedWithLayer
CHECK_DEADLOCK FALSE
