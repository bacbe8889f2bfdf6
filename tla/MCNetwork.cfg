SPECIFICATION NetworkSpec
CONSTANTS
  k1 = k1
  k2 = k2
  Parts = {"tracks", "connects", "syns"}
  Keys = {k1, k2}
  Exe <- MixedExe
  WebPorts = {k1, k2}
  CaseThreshold = 0
  MaxTracks = 1
  MaxIntervals = 3
  Elapses <- Clock
  MaxTime = 9
  MaxConnects = 1
  MaxSightings <- Sightings7
  ConnectWebPorts = {k1}
  ConnectThreshold = 85
  ConnectTracks = 1
  ConnectIntervals = 3
  ConnectElapses = {1}
  RingSize = 2
  Round = 2
  ConnectTime = 4
  ConnectLimits <- Connects5
  Pids = {1, 2}
  Targets <- FivePorts
  Window = 2
  SynLimit = 3
  UniqueLimit = 2
  KeySlots = 4
  SynTracks = 1
  SynTime = 5
  SynSightings <- Syns6
INVARIANTS
  SteadyBeaconIsFound
  AlertHasTiming
  SightingIsFresh
  AlertHasReconnects
  
  
PROPERTIES
  SightingsImplemented
CHECK_DEADLOCK FALSE
