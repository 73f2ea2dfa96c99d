CONSTANTS
  Registers = {0, 1}
  Size = 64
  Displacements = {0, 7, 18, 33}
  MaxSteps = 2
SPECIFICATION Spec
INVARIANT SidesMeet
PROPERTY FollowsPower
CHECK_DEADLOCK FALSE
