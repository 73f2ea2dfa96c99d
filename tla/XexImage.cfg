CONSTANTS
  Base = 100
  Thunk <- MCThunk
  Programs <- MCPrograms
  Bases <- MCBases
  Elves <- MCElves
  Patches <- MCPatches
  MaxOffset = 40
SPECIFICATION Spec
INVARIANTS
  LoadsPromised
  UnreadKept
  AppliedWhereItFits
  FindsContent
  ImportsLinked
