SPECIFICATION Spec
CONSTANTS
  Xexes = {"x1", "x2"}
  Patches = {"p1", "p2"}
  Compatible <- MCCompatible
  Texts <- MCTexts
  Outputs = 3
INVARIANTS
  UpToDate
  Repeatable
PROPERTY
  SkipsIdentical
