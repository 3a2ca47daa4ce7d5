SPECIFICATION FairSpec
CONSTANTS
  Callers = {c1, c2}
  Tree = {t1}
  NoCaller = NoCaller
  NoTree = NoTree
  QueueCapacity = 1
  Configs <- MarkerConfigs
PROPERTIES
  EveryCallReturns
  TaskEnds
  CrashLoopEnds
\* The manager may be dropped, and then nothing is left to do.
CHECK_DEADLOCK FALSE
