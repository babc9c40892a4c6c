CONSTANTS
  Server = {2,4,6}
  Founder = {2,4}
  Buddy <- LowestFounder
  Key = {1,3,5,7}
  FullMesh = 6
  MaxCrash = 2
SPECIFICATION FairSpec
INVARIANTS
  TypeOK
  NeverDuplicated
  OnlyTheDeadMarked
  NilOnlyForDead
  BodiesCollected
  SkipListComplete
PROPERTIES
  RegisteredServes
  GoroutinesEnd
  PlacementSpec
CHECK_DEADLOCK FALSE
