SPECIFICATION FairSpec
CONSTANTS
  Port = {p1, p2}
  FixedPort = p1
  NoPort = NoPort
  Configs <- MixedConfigs
INVARIANTS
  TypeOK
  EnvironmentAgrees
  NoStaleServer
  StatusHasPort
PROPERTIES
  GateEnds
  StopEnds
