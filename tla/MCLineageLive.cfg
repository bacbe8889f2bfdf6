SPECIFICATION FairSpec
CONSTANTS
  MaxPid = 3
  MaxNodes = 4
  MaxChildren = 3
  MaxDepth = 2
  MaxQueue = 1
  PidReuse = TRUE
  MaxForks = 3
PROPERTIES
  EventuallyCurrent
