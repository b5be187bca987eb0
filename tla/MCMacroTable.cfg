CONSTANTS
  Names = {"a", "b", "c"}
  Values = {v, w}
  ParamLists = {xy}
  NULL = NULL
  Freed = Freed
  Lost = Lost
  Hash <- MCHash
  InitialBuckets = 1
SPECIFICATION Spec
INVARIANTS TableOK FreedOnce
PROPERTY ImplementsMap
CHECK_DEADLOCK FALSE
