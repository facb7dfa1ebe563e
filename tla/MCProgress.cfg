SPECIFICATION AllFairSpec
CONSTANTS
  t1 = t1
  t2 = t2
  plain = plain
  pipe = pipe
  NULL = NULL
  Task = {t1, t2}
  File = {plain, pipe}
  Ops = {"read", "writev", "sendfile", "lseek"}
  Counts = {2}
  Offsets = {0}
  MaxBytes = 2
  MaxNonLfs = 1
  FsizeLimit = 1
  MaxRw = 1
  OffsetMax = 3
  MaxCalls = 1
  Attr <- MCAttr
  NONE = NONE
  Machine <- MCMachine
  EarlyOption = {"quiet", "bootconfig"}
  Dotted = {"m.x"}
  EnvArgLimit = 2
  ConfigForce = FALSE
  HdrLen = 2
  XbcDataMax = 4
  Levels <- MCLevels
  AsyncCalls = {"rootfs", "dev"}
  PopulateRootfs = "rootfs"
  DefaultInit = "/d"
INVARIANTS  HandOver InitmemUnused InitcallsInOrder
PROPERTIES EarlyInitFound BootEnds CallsReturn
CHECK_DEADLOCK FALSE
