SPECIFICATION Spec
CONSTANTS
  INT_BITS = 5
  STEP = 2
  CacheSizes = 24
  PGAP = 4
  RefCounts <- MCRefCounts
  WORD_BITS = 6
  DOMAIN_SIZE = 2
  Mfn <- MCMfn
  HASH = 2
  HASH_CONFLICT_NUM = 2
  MAX_PAGE_NUM = 9
  MAX_ARRAY_SIZE = 14
  MemCounter <- MCMemCounter
  FaultBound = 1
  TrackBound = 4
INVARIANTS TypeOK HashWellFormed NodeCountExact FaultsAccounted HistogramWithinReferences CurveUndoesCompression CurveIsMissRatio
PROPERTIES SpinsOnlyOnWrap ImplementsRecorder
CHECK_DEADLOCK FALSE
