SPECIFICATION IoSpec
CONSTANTS
  t1 = t1
  t2 = t2
  r1 = r1
  plain = plain
  pipe = pipe
  NULL = NULL
  Task = {t1, t2}
  Reader = {r1}
  MaxReads = 1
  File = {plain}
  Ops = {"read"}
  Counts = {2}
  Offsets = {0}
  MaxBytes = 1
  MaxNonLfs = 1
  FsizeLimit = 1
  MaxRw = 1
  OffsetMax = 3
  MaxCalls = 1
  Attr <- MCAttr
INVARIANTS ProcessTotal
CHECK_DEADLOCK FALSE
