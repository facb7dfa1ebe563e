SPECIFICATION IoSpec
CONSTANTS
  t1 = t1
  r1 = r1
  plain = plain
  pipe = pipe
  NULL = NULL
  Task = {t1}
  Reader = {r1}
  MaxReads = 1
  File = {plain, pipe}
  Ops = {"read", "writev", "sendfile"}
  Counts = {2}
  Offsets = {0}
  MaxBytes = 2
  MaxNonLfs = 1
  FsizeLimit = 1
  MaxRw = 1
  OffsetMax = 3
  MaxCalls = 2
  Attr <- MCAttr
INVARIANTS ReportIsRecent BytesMatchCalls
CHECK_DEADLOCK FALSE
