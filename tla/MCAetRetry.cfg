SPECIFICATION Spec
CONSTANTS
  Cpu = {c1,c2}
  SLOTS = 2
  CONSECUTIVE_SET_PAGE = 1
  Operands <- OneSampledPage
  NoSlot = NoSlot
INVARIANT TypeOK
PROPERTY InstructionsComplete
