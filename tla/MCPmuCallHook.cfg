SPECIFICATION Spec
CONSTANTS
  Cpu = {p0, p1}
  Guest = {p1}
  Target = p1
  Sampled = {p1}
  CountBound = 1
  NoCpu = NoCpu
PROPERTY CallLockReleased
CHECK_DEADLOCK FALSE
