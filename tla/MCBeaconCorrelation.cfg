SPECIFICATION Spec
CONSTANTS
  p1 = p1
  p2 = p2
  Pids <- OnePid
  MaxProcs = 1
  MaxCases = 1
  MaxEvents = 3
  CaseThreshold = 60
  EnableWhitelist = FALSE
  WhitelistPercent = 35
  StopSuspicious = FALSE
  MkdirMayFail = FALSE
  Browsers <- NoPids
  TrackScores <- HighTracks
  Enabled <- BeaconFindings
  MaxMappings = 1
  MaxDetections = 2
  MaxTime = 0
  Elapses <- NoElapses
INVARIANTS
  BeaconAndMemoryCorrelate
