SPECIFICATION FairSpec
CONSTANTS
  Capacity = 2
  MaxSpawns = 2
  MaxLines = 3
  PipeSize = 2
  EmitLogs = TRUE
INVARIANTS
  TypeOK
  LogsShowNewest
  StreamsInOrder
  EventsMatchLogs
PROPERTIES
  EveryLineRead
  MarkerIsSeen
  ReadersEnd
\* When all spawns, lines and readers are used up nothing is left to do.
CHECK_DEADLOCK FALSE
