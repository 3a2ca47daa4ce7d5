SPECIFICATION Spec
CONSTANTS
  Name = {1, 2, 3, 4}
  ConfigLists <- SmallLists
INVARIANTS
  NoUnderflow
  SortIsExact
\* The sort ends.
CHECK_DEADLOCK FALSE
