CONSTANTS
  Jobs = {j1, j2}
  Workers = {w1, w2}
  NoJob = NoJob
  MaxRetries = 1
  RetryDelay = 2
  Redelivery = FALSE
  Faults = FALSE
  Crashes = TRUE
SPECIFICATION FairSpec
PROPERTIES
  EveryJobFinishes
