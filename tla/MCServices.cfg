SPECIFICATION ServicesSpec
CONSTANTS
  Parts = {"ring", "copy", "memory", "dedup", "rotate", "whitelist", "manager", "ebpf"}
  Pids <- MCPids
  Details = {d1, d2}
  NoDetail = none
  MaxEvents = 3
  a = a
  b = b
  c = c
  MaxLength = 36
  CopySize = 5
  HashSize = 7
  BlockSize = 6
  FieldSize = 2
  MaxShort = 2
  ShortSled = 2
  LongSled = 3
  ArmSled = 2
  ThumbSled = 3
  MipsSled = 2
  MaxCode = 3
  MaxRead = 12
  Lines = {a, b, c}
  Slots = {1, 2}
  SlotOf <- SlotOfLine
  NoLine = NoLine
  Rates = {0, 2}
  Elapses <- BothWays
  DedupTime = 3
  MaxLogged = 4
  ArchiveCounts <- Archives
  MaxBytes = 3
  LineSize <- LineSizes
  MaxCrashes = 3
  MaxFailures = 1
  PollSeconds = 2
  RulesTime = 7
  MaxVersions = 4
  Builtins <- FourBuiltins
  Requests <- PathsToLoad
  Objects = {"A", "B", "C"}
  FileOf <- SharedObjects
  MaxDynamic = 2
  Calls <- SomeCalls
  MaxLinks = 4
  RingSize = 2
  MaxCalls = 4
INVARIANTS
  HashIsOfExecutable
  CodeIsFound
  SledsAreContiguous
  SuppressedWasWritten
  RepeatsAreReported
  HistoryIsKept
  DiskIsBounded
  StaleIsNoticed
  HandlesMatchSlots
  
  NothingIsLeft
  
  AlertsHaveCause
PROPERTIES
  ImplementsLog
CHECK_DEADLOCK FALSE
