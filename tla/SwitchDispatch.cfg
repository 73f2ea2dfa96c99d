CONSTANTS
  Half = 64
  Reach = 14
  Layouts <- MCLayouts
  Values <- MCValues
SPECIFICATION Spec
INVARIANTS TablesFound CasesFollow
