SPECIFICATION Spec
CONSTANTS
  Port = {p1, p2}
  FixedPort = p1
  NoPort = NoPort
  Configs <- DynamicConfigs
PROPERTY PortAfterStart
