CONSTANTS
  Threads = {t1, t2, t3}
  Keys = {k1, k2}
  MaxRequests = 2
  Window = 4
  TicksPerSecond = 2
  MaxSkew = 1
  MaxTime = 8
  MaxCalls = 6
SPECIFICATION Spec
SYMMETRY ThreadSymmetry
INVARIANTS
  TypeOK
  DequesBounded
  LimitUpToSkew
PROPERTIES
  RetryAfterHonest
CHECK_DEADLOCK FALSE
