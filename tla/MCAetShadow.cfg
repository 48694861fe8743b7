SPECIFICATION Spec
CONSTANTS
  Cpu = {c1}
  Table = {t1}
  Region = {r1}
  SLOTS = 2
  Frame = {f1, f2}
  Removable = {f1}
  CONSECUTIVE_SET_PAGE = 1
  MAX_PENDING_PAGE = 2
  VPID = TRUE
  TagBound = 2
  NoFrame = NoFrame
  NoCpu = NoCpu
  NoPage = NoPage
INVARIANTS TypeOK RefsCoverMappings PageTablesReadOnly PendingDistinct
CHECK_DEADLOCK FALSE
