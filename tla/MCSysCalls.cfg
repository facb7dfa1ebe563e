SPECIFICATION AllSpec
CONSTANTS
  t1 = t1
  t2 = t2
  p1 = p1
  p2 = p2
  u1 = u1
  u2 = u2
  NOTHING = NOTHING
  NIL = NIL
  Pid <- MCPid
  InitPid = 1
  Caller <- MCCaller
  Owner <- MCOwner
  Root = 0
  MinNice <- MCMinNice
  MaxNice = 1
  NiceArg <- MCNiceArg
  NiceRlimit = 0
  Process = {p1, p2}
  Thread = {t1, t2}
  Home <- MCHome
  Uid <- MCUid
  SysResource = {t1}
  Resource = {"CPU", "NOFILE"}
  LimitArg <- MCLimitArg
  RlimInfinity = 4
  CompatInfinity = 3
  OldMax = 1
  NrOpen = 2
  MaxLimitCalls <- MCLimitCalls
  MmThread = {u1, u2}
  CapResource = {u1, u2}
  CapRestore = {u1}
  MmapMinAddr = 1
  TaskSize = 3
  MaxAddr = 3
  FirstLayout <- MCFirstLayout
  MapArg <- MCMapArg
  DataLimits = {0, 2}
  VectorSize = 3
  ExeFile = {e1}
  PageSize = 4
  WordSize = 8
  MaxMmCalls <- MCMmCalls
  Asker = {a1}
  RamPages = {5}
  SwapPages = {0, 2, 4, 17, 30}
  PageShift = 2
  LongRange = 32
  CompatWord = 16
  Kilo = 2
  Mega = 8
  MaxMoves = 2
INVARIANTS SessionTree ReportsOutcome TimerCoversLimit LayoutValid AllOrNothing RoomForCaller  SysinfoExact
PROPERTIES FreshSession  ChangeAllowed OldIsReplaced NoLostMark
CHECK_DEADLOCK FALSE
