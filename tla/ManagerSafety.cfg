SPECIFICATION AppSpec
CONSTANTS
  Sidecar = {"base", "mid", "top"}
  DependsOn <- ChainDepends
  StartOrder <- ChainOrder
  Retries <- ChainRetries
  Callers = {"setup", "exit", "user"}
  Calls <- ChainCalls
  Setup = "setup"
  Exit = "exit"
INVARIANTS
  AppTypeOK
  DependentsDownFirst
  NothingLeftBehind
PROPERTIES
  StartedAfterDependencies
  ShutdownIsFinal
  FleetLives
