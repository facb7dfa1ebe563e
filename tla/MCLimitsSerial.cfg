SPECIFICATION FairSpec
CONSTANTS
  t1 = t1
  t2 = t2
  c1 = c1
  n1 = n1
  n2 = n2
  NULL = NULL
  Task = {t1, t2}
  Pid = {1, 2}
  Caller = {c1}
  Node = {n1, n2}
  Limit = {2, 3, 7}
  LongMax = 3
  PageSize = 2
  MaxPages = 0
  MaxEntries = 2
  IntRange = 4
  GroupLeader <- MCLeader
PROPERTIES ImplementsRegistry CallsReturn
CHECK_DEADLOCK FALSE
