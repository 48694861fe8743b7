SPECIFICATION Spec
CONSTANTS
  Cpu = {c1}
  Table = {t1, t2}
  Region = {r1, r2}
  SLOTS = 1
  Frame = {f1, f2}
  Removable = {}
  CONSECUTIVE_SET_PAGE = 1
  MAX_PENDING_PAGE = 1
  VPID = TRUE
  TagBound = 2
  NoFrame = NoFrame
  NoCpu = NoCpu
  NoPage = NoPage
SYMMETRY Symmetry
INVARIANTS TranslationsCurrent
CHECK_DEADLOCK FALSE
