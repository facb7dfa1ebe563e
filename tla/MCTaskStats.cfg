SPECIFICATION Spec
CONSTANTS
  t1 = t1
  t2 = t2
  c1 = c1
  NULL = NULL
  Task = {t1, t2, t3}
  Pid = {1, 2, 3}
  Caller = {c1}
  Pages = {0, 1}
  PageSize = 1
  Mb = 1
  GroupLeader <- MCThreads
INVARIANTS UsersBalanced TaskNotFreed WalkComplete
CHECK_DEADLOCK FALSE
