CONSTANTS
  Threads = {t1, t2, t3}
  Keys = {k1}
  MaxRequests = 2
  Window = 3
  TicksPerSecond = 2
  MaxSkew = 1
  MaxTime = 8
  MaxCalls = 6
SPECIFICATION Spec
SYMMETRY ThreadSymmetry
INVARIANTS
  WindowLimit
CHECK_DEADLOCK FALSE
