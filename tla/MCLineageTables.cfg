SPECIFICATION Spec
CONSTANTS
  MaxPid = 5
  MaxNodes = 4
  MaxChildren = 2
  MaxDepth = 2
  MaxQueue = 1
  PidReuse = TRUE
  MaxForks = 4
INVARIANTS
  TypeOK
  ParentKnowsChild
  TreeComplete
  RelativesRelated
PROPERTIES
  LinksStayCurrent
