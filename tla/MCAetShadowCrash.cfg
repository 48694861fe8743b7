SPECIFICATION Spec
CONSTANTS
  Cpu = {c1}
  Table = {t1}
  Region = {r1}
  SLOTS = 2
  Frame = {f1, f2}
  Removable = {}
  CONSECUTIVE_SET_PAGE = 1
  MAX_PENDING_PAGE = 1
  VPID = TRUE
  TagBound = 2
  NoFrame = NoFrame
  NoCpu = NoCpu
  NoPage = NoPage
INVARIANT OnlySpecialUseCrashes
CHECK_DEADLOCK FALSE
