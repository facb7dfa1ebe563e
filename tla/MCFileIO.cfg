SPECIFICATION Spec
CONSTANTS
  t1 = t1
  t2 = t2
  plain = plain
  append = append
  pipe = pipe
  NULL = NULL
  Task = {t1, t2}
  File = {plain, append}
  Ops = {"read", "write", "readv", "writev", "pread", "pwrite", "preadv", "pwritev", "sendfile", "copy_file_range", "lseek"}
  Counts = {0, 2}
  Offsets <- MCOffsets
  MaxBytes = 3
  MaxNonLfs = 1
  FsizeLimit = NULL
  MaxRw = 2
  OffsetMax = 4
  MaxCalls = 1
  Attr <- MCAttr
INVARIANTS AccountExact NoOverlappingCopy
SYMMETRY Symmetry
PROPERTIES PositionKept ReportsMoved 
CHECK_DEADLOCK FALSE
