SPECIFICATION FairSpec
CONSTANTS
  Runs = 2
  Commits <- OneLayerEach
  NewAccount = FALSE
  Overlap = FALSE
  MaxFaults = 3
INVARIANT ServedWhenFaultless
INVARIANT SkipSoundWhenFaultless
INVARIANT OneVersionPerLayer
INVARIANT AliasServesNewest
INVARIANT WorkflowNotAhead
PROPERTY EveryRunEnds
CHECK_DEADLOCK FALSE
