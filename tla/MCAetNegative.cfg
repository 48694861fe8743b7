SPECIFICATION Spec
CONSTANTS
  INT_BITS = 5
  STEP = 2
  CacheSizes = 24
  PGAP = 4
  RefCounts <- MCRefCounts
  WORD_BITS = 6
  DOMAIN_SIZE = 2
  Mfn <- MCMfn
  HASH = 2
  HASH_CONFLICT_NUM = 2
  MAX_PAGE_NUM = 9
  MAX_ARRAY_SIZE = 14
  MemCounter <- MCMemCounter
  FaultBound = 2
  TrackBound = 4
PROPERTY NegativeDistanceDiscarded
CHECK_DEADLOCK FALSE
