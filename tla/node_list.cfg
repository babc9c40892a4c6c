CONSTANTS
  Node = {2,4,6,8,10,12,14}
  Self = 8
  Key = {1,2,3,6,8,9,14,15}
SPECIFICATION Spec
INVARIANTS
  TypeOK
  ListIncreasing
  IndexTracksSelf
  OneOwner
  LastTwoRemoved
