SPECIFICATION Spec
CONSTANTS
  Length = 3
  Inputs <- MCInputs
INVARIANTS
  GotosHaveLabels
PROPERTIES
  FlushModeRight
  FollowsGuest
