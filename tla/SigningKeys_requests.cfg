SPECIFICATION FairSpec
CONSTANTS
  Kids = {k1, k2}
  Containers = {a1}
  Sliding = FALSE
  Ttl = 2
  CacheTimeout = 1
  FetchTimeout = 1
  MaxTime = 5
INVARIANT RetiredKeyExpires
INVARIANT OnlyPublishedKeys
INVARIANT CacheNeverDenies
INVARIANT DelayBounded
PROPERTY EveryRequestAnswered
