SPECIFICATION MCSpec
CONSTANTS
  Parts = {"sockets"}
  Pids <- MCPids
  Sockets = {"pa", "pb", "raw"}
  TableOf <- MCTableOf
  MaxOwners = 3
  CacheSize = 2
  MaxChanges = 1
  Others = {1, 2}
  Self = 3
  SuspiciousExe = {1, 3}
  LogsSuspicious = FALSE
  MaxCases = 2
  MaxTouches = 3
  SelfSeconds = 2
  FullSeconds = 3
  MaxRound = 3
  MaxFailures = 0
PROPERTY RawSocketIsAlerted
