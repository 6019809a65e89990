CONSTANTS
  Jobs = {j1, j2}
  Workers = {w1, w2}
  NoJob = NoJob
  MaxRetries = 2
  RetryDelay = 2
  Redelivery = FALSE
  Faults = TRUE
  Crashes = TRUE
SPECIFICATION Spec
SYMMETRY JobAndWorkerSymmetry
INVARIANTS
  TypeOK
  AttemptsAccounted
  NoJobLost
  TrackedOnce
  AcceptedIsDurable
  CompletedHasTranscript
  DeadLetterIsTruthful
  RecoveredOldestFirst
PROPERTIES
  ImplementsLifecycle
