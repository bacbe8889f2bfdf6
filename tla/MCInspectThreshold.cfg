SPECIFICATION Spec
CONSTANTS
  p1 = p1
  p2 = p2
  Pids <- OnePid
  MaxProcs = 1
  MaxCases = 1
  MaxEvents = 3
  CaseThreshold = 90
  EnableWhitelist = FALSE
  WhitelistPercent = 35
  StopSuspicious = FALSE
  MkdirMayFail = FALSE
  Browsers <- NoPids
  TrackScores <- HighTracks
  Enabled <- InspectFindings
  MaxMappings = 1
  MaxDetections = 1
  MaxTime = 0
  Elapses <- NoElapses
INVARIANTS
  CaseThresholdHonoured
