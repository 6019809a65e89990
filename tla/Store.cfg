CONSTANTS
  Readers = {r1, r2}
  MaxAttempts = 4
  CommitFaults = TRUE
  Crashes = TRUE
SPECIFICATION Spec
SYMMETRY ReaderSymmetry
INVARIANTS
  TypeOK
  AnswerIsAnnounced
  OrphansExplained
PROPERTIES
  ImplementsLog
CHECK_DEADLOCK FALSE
