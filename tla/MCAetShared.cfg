SPECIFICATION Spec
CONSTANTS
  Cpu = {c1, c2}
  Table = {t1, t2, t3}
  NoTable = none
  Mfn = {m1, m2}
  HASH_CONFLICT_NUM = 1
  MAX_PENDING_PAGE = 2
  MAX_ARRAY_SIZE = 3
  LogSlack = 2
  Modes = {0, 2}
  ExitBound = 3
  ToolBound = 1
INVARIANTS TypeOK LogWithinArray PendingSound ModeWasAsked  SavedCountNotAhead
CHECK_DEADLOCK FALSE
SYMMETRY Symmetry
