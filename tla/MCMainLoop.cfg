SPECIFICATION MCSpec
CONSTANTS
  Parts = {"clock", "sockets", "files"}
  Pids <- MCPids
  Sockets = {"pa", "pb", "raw"}
  TableOf <- MCTableOf
  MaxOwners = 3
  CacheSize = 2
  MaxChanges = 4
  Others = {1, 2}
  Self = 3
  SuspiciousExe = {1, 3}
  LogsSuspicious = FALSE
  MaxCases = 2
  MaxTouches = 3
  SelfSeconds = 2
  FullSeconds = 3
  MaxRound = 3
  MaxFailures = 2
INVARIANTS
  
  RepeatOnlyWhenFull
PROPERTIES
  RoundsGoOn
  PacketSocketIsAlerted
