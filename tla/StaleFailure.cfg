SPECIFICATION AppSpec
CONSTANTS
  Sidecar = {"base", "top"}
  DependsOn <- PairDepends
  StartOrder <- PairOrder
  Retries <- PairRetries
  Callers = {"setup", "exit", "user"}
  Calls <- StartTop
  Setup = "setup"
  Exit = "exit"
PROPERTY FailureIsFresh
