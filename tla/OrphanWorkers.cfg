SPECIFICATION Spec
CONSTANTS
  Callers = {c1}
  Tree = {t1, t2}
  NoCaller = NoCaller
  NoTree = NoTree
  QueueCapacity = 1
  Configs <- UnixConfigs
INVARIANT WholeTreeDies
CHECK_DEADLOCK FALSE
