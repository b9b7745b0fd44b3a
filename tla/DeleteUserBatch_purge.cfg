SPECIFICATION FairSpec
CONSTANTS
  Users = {u1, u2}
  Executions = {e1, e2}
  RetentionEnv = 2
  TimeoutSeconds = 1
  MaxTime = 3
INVARIANT TypeOK
INVARIANT SuccessMeansPurged
PROPERTY OnlyExpiredDeleted
PROPERTY ImplementsPurge
PROPERTY EveryExecutionEnds
CHECK_DEADLOCK FALSE
