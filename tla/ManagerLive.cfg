SPECIFICATION AppFairSpec
CONSTANTS
  Sidecar = {"base", "top"}
  DependsOn <- PairDepends
  StartOrder <- PairOrder
  Retries <- PairRetries
  Callers = {"setup", "exit", "user"}
  Calls <- PairCalls
  Setup = "setup"
  Exit = "exit"
PROPERTIES
  StartedAfterDependencies
  ShutdownEndsWaits
  StartAllStarts
  WaitsEnd
  ExitEnds
