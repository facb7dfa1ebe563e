CONSTANTS
  Task = {t1}
  Uid = {0, 1}
  Gid = {0, 1}
  Root = 0
  NprocLimit = 1
  MaxOthers = 2
  NULL = NULL
SPECIFICATION Spec
CHECK_DEADLOCK FALSE
INVARIANTS ChargedToUid PrivilegeIsRoot RootNotFlagged
PROPERTY NoNewIds
