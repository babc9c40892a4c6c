CONSTANTS
  Ann = Ann
  Bob = Bob
  Client = {Ann,Bob}
  Contact <- BothEnds
  MaxCalls = 1
  MaxHops = 4
  Server = {2,4}
  Founder = {2,4}
  Buddy <- LowestFounder
  Key = {1,3}
  FullMesh = 6
  MaxCrash = 1
SPECIFICATION RoutingSpec
INVARIANTS
  NoPanic
CHECK_DEADLOCK FALSE
