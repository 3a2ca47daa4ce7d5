SPECIFICATION Spec
CONSTANTS
  Capacity = 2
  MaxSpawns = 1
  MaxLines = 2
  PipeSize = 2
  EmitLogs = TRUE
INVARIANT AllTextTaken
CHECK_DEADLOCK FALSE
