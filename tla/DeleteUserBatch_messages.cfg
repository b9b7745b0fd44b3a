SPECIFICATION Spec
CONSTANTS
  Users = {u1}
  Executions = {e1}
  RetentionEnv <- NotAnInteger
  TimeoutSeconds = 1
  MaxTime = 2
INVARIANT InternalErrorsHidden
CHECK_DEADLOCK FALSE
