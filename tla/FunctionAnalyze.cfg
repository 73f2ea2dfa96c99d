SPECIFICATION Spec
CONSTANTS
  Words = 3
  Tails = {0, 1}
  Insns <- MCInsns
  MaxBlocks = 6
  Modulus = 64
INVARIANTS
  TypeOK
  CursorAtBlockEnd
  DistinctBases
  PendingUntouched
  GapsAreReal
  GrownFallthroughContinues
  SizeInRegion
PROPERTIES
  Termination
  ReportsExtent
