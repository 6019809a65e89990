CONSTANTS
  Jobs = {j1, j2}
  Workers = {w1, w2}
  NoJob = NoJob
  MaxRetries = 2
  RetryDelay = 0
  Redelivery = TRUE
  Faults = FALSE
  Crashes = FALSE
SPECIFICATION Spec
SYMMETRY JobAndWorkerSymmetry
INVARIANTS
  OneRunner
  NoJobLost
  FailedIsDeadLettered
PROPERTIES
  FinishedStaysFinished
