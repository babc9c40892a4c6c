CONSTANTS
  Ann = Ann
  Bob = Bob
  Client = {Ann,Bob}
  Contact <- BothEnds
  MaxCalls = 1
  MaxHops = 2
  Server = {2,4,6}
  Founder = {2,4,6}
  Buddy <- LowestFounder
  Key = {1,3,7}
  FullMesh = 6
  MaxCrash = 0
SPECIFICATION FairRoutingSpec
INVARIANTS
  ServedByOwner
PROPERTIES
  RequestAnswered
CHECK_DEADLOCK FALSE
