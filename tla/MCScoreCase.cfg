SPECIFICATION Spec
CONSTANTS
  p1 = p1
  p2 = p2
  Pids <- TwoPids
  MaxProcs = 2
  MaxCases = 1
  MaxEvents = 3
  CaseThreshold = 85
  EnableWhitelist = FALSE
  WhitelistPercent = 35
  StopSuspicious = TRUE
  MkdirMayFail = TRUE
  Browsers <- NoPids
  TrackScores <- CoreTracks
  Enabled <- CoreFindings
  MaxMappings = 1
  MaxDetections = 3
  MaxTime = 900
  Elapses <- CoreElapses
INVARIANTS
  CaseJustified
  CrossingOpensCase
  
  
