CONSTANTS
  Server = {2,4,6}
  Founder = {4,6}
  Buddy <- LowestFounder
  Key = {1,3,5,7}
  FullMesh = 2
  MaxCrash = 0
SPECIFICATION FairSpec
INVARIANTS
  NothingLost
  RingKnown
  SuccessorConnected
PROPERTIES
  NewcomerServes
CHECK_DEADLOCK FALSE
