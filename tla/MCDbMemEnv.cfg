SPECIFICATION Spec
CONSTANTS
  Threads = {t1, t2, t3}
  Paths = {p1, p2}
  NoPath = NoPath
  Buffers = {m1, m2, m3}
  Envs = {e1, e2}
  NoEnv = NoEnv
  NoBuffer = NoBuffer
  MaxFaults = 2
SYMMETRY Symmetry
INVARIANTS
  OwnBuffer
  NoUseAfterFree
  NoSharing
  NoOtherLeak
CHECK_DEADLOCK FALSE
