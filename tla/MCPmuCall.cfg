SPECIFICATION Spec
CONSTANTS
  Cpu = {p0, p1, p2}
  Guest = {p1, p2}
  Target = p1
  Sampled = {p2}
  CountBound = 1
  NoCpu = NoCpu
INVARIANTS TypeOK CountWithinCall StoppedMeansZero
PROPERTY CallLockReleased
\* A spinning processor takes no step, so a lock never released may look like a
\* deadlock; CallLockReleased speaks of it.
CHECK_DEADLOCK FALSE
