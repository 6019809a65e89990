CONSTANTS
  MaxChunks = 5
  MaxConcurrent = 3
SPECIFICATION PipelineSpec
INVARIANTS
  PipelineTypeOK
  OnlyWholeResults
  ThreadsBounded
  FilesOutliveThreads
  UsedSafely
PROPERTIES
  OneModel
  FailureIsRaised
  RunEnds
CHECK_DEADLOCK FALSE
