SPECIFICATION Spec
CONSTANTS
  t1 = t1
  c1 = c1
  n1 = n1
  n2 = n2
  NULL = NULL
  Task = {t1}
  Pid = {1}
  Caller = {c1}
  Node = {n1, n2}
  Limit = {2}
  LongMax = 3
  PageSize = 2
  MaxPages = 2
  MaxEntries = 2
  IntRange = 4
  GroupLeader <- MCLeader
INVARIANTS UpdateFindsListed
CHECK_DEADLOCK FALSE
