SPECIFICATION Spec
CONSTANTS
  Cpu = {c1}
  SLOTS = 2
  CONSECUTIVE_SET_PAGE = 2
  Operands <- TwoSampledPages
  NoSlot = NoSlot
PROPERTY InstructionsComplete
