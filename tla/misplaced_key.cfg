CONSTANTS
  Server = {2,4,6}
  Founder = {4,6}
  Buddy <- LowestFounder
  Key = {1,5,7}
  FullMesh = 6
  MaxCrash = 0
SPECIFICATION Spec
INVARIANTS
  KeysAtOwner
CHECK_DEADLOCK FALSE
