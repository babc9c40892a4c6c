CONSTANTS
  Ann = Ann
  Bob = Bob
  Client = {Ann}
  Contact <- BothEnds
  MaxCalls = 2
  MaxHops = 4
  Server = {2,4,6}
  Founder = {2,4,6}
  Buddy <- LowestFounder
  Key = {3,5}
  FullMesh = 6
  MaxCrash = 1
SPECIFICATION FairRoutingSpec
INVARIANTS
  RoutingTypeOK
  RequestsCollect
PROPERTIES
  RequestAnswered
  GoroutinesEnd
CHECK_DEADLOCK FALSE
