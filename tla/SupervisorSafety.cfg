SPECIFICATION Spec
CONSTANTS
  Callers = {c1, c2}
  Tree = {t1, t2, t3}
  NoCaller = NoCaller
  NoTree = NoTree
  QueueCapacity = 1
  Configs <- MixedConfigs
SYMMETRY Symmetry
INVARIANTS
  TypeOK
  PidFileTracks
  DownMeansNoProcess
  JobContainsTree
PROPERTIES
  TreeGoneOnReturn
  StopReturnsDown
  RefinesLifecycle
\* The manager may be dropped, and then nothing is left to do.
CHECK_DEADLOCK FALSE
