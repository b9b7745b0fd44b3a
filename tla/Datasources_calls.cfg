SPECIFICATION MCSpec
CONSTANTS
  MaxKeys = 7
  BatchSizeEnv = 2
  DefaultBatchSize = 3
  MaxRetriesEnv <- Unset
  DefaultMaxRetries = 2
  Items = {e1, e2, e3}
  Users = {u1, u2}
  Values = {"ab", "a b"}
  Spaced = {"a b"}
  Squeezed <- OneSpaced
  Ttls = {0, 1, 3}
  ConfigTtl = 2
  LastTime = 4
  MaxBad = 2
  MaxRequests = 3
INVARIANT ResolvedIsAnswered
INVARIANT TypeOK
INVARIANT ChunksInOrder
INVARIANT ResolvedMeansAllDeleted
INVARIANT AttemptsWithinBudget
INVARIANT OnlyConfigurationFails
INVARIANT OneInstance
PROPERTY EndpointsAllOrError
PROPERTY ServesLastWritten
PROPERTY ImplementsAllOrError
PROPERTY CallSettles
PROPERTY BatchEnds
CHECK_DEADLOCK FALSE
