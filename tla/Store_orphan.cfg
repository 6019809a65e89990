CONSTANTS
  Readers = {r1}
  MaxAttempts = 4
  CommitFaults = TRUE
  Crashes = FALSE
SPECIFICATION Spec
INVARIANTS
  NoOrphanFile
CHECK_DEADLOCK FALSE
