SPECIFICATION Spec
CONSTANTS
  p1 = p1
  p2 = p2
  Pids <- TwoPids
  MaxProcs = 1
  MaxCases = 2
  MaxEvents = 3
  CaseThreshold = 60
  EnableWhitelist = TRUE
  WhitelistPercent = 35
  StopSuspicious = FALSE
  MkdirMayFail = FALSE
  Browsers <- OnePid
  TrackScores <- WideTracks
  Enabled <- WideFindings
  MaxMappings = 1
  MaxDetections = 2
  MaxTime = 900
  Elapses <- CoreElapses
INVARIANTS
  TypeOK
  OneCasePerProcess
  NoNestedSnapshot
  SummaryExplainsRisk
  ScoreBounds
