SPECIFICATION ContainerSpec
CONSTANTS
  MaxBad = 1
  MaxRequests = 1
INVARIANT FailsAsDocumented
CHECK_DEADLOCK FALSE
