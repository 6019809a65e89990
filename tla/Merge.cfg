CONSTANTS
  TicksPerFrame = 2
  Settings <- MCSettings
  Sounds = {"a", "b", "c", "d", "clipped"}
  Clipped = "clipped"
  Recordings <- MCRecordings
  Engines <- MCEngines
SPECIFICATION Spec
INVARIANTS
  TypeOK
  ChunksCover
  NoEmptyChunk
  WellFormed
  WordsKeptOnce
  FallbackGap
CHECK_DEADLOCK FALSE
