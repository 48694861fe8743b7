SPECIFICATION Spec
CONSTANTS
  Cpu = {c1, c2}
  Table = {t1}
  Region = {r1}
  SLOTS = 2
  Frame = {f1, f2}
  Removable = {}
  CONSECUTIVE_SET_PAGE = 2
  MAX_PENDING_PAGE = 1
  VPID = FALSE
  TagBound = 2
  NoFrame = NoFrame
  NoCpu = NoCpu
  NoPage = NoPage
INVARIANT RefsCoverMappings
CHECK_DEADLOCK FALSE
