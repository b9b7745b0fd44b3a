SPECIFICATION MCSpec
CONSTANTS
  Keys = {1, 2, 3, 4}
  Directory = {1, 2, 3}
  PageSize = 2
  DeleteLimit = 2
  Disturbances = 2
  Callers = {c1, c2}
  Configs = {g1, g2}
  Lifetime = 4
  Grace = 1
  StsTimeout = 1
  LastTime = 6
  Uploaders = {u1, u2}
INVARIANT TypesOK
INVARIANT DeletedOrRefused
INVARIANT ListingComplete
INVARIANT CredentialsLast
INVARIANT WholeOrAbsent
PROPERTY CallsSettle
CHECK_DEADLOCK FALSE
