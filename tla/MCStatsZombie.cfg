SPECIFICATION Spec
CONSTANTS
  t1 = t1
  t2 = t2
  c1 = c1
  NULL = NULL
  Task = {t1, t2}
  Pid = {1, 2}
  Caller = {c1}
  Pages = {1}
  PageSize = 1
  Mb = 1
  GroupLeader <- MCThreads
INVARIANTS ZombieHasNoMemory
CHECK_DEADLOCK FALSE
