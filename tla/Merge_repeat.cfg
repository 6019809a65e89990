CONSTANTS
  TicksPerFrame = 2
  Settings <- Talks
  Sounds = {"a", "b", "c", "d", "clipped"}
  Clipped = "clipped"
  Recordings <- MCRepetitions
  Engines <- MCListeners
SPECIFICATION Spec
INVARIANTS
  RepeatsKeptOnce
CHECK_DEADLOCK FALSE
