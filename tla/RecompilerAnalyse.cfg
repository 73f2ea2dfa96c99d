SPECIFICATION Spec
CONSTANTS
  Sections <- MCSections
  Families <- MCFamilies
  Inputs <- MCInputs
  MaxSwitchExtension = 1
INVARIANTS
  DuplicatesAreExplicit
  FunctionsInSection
  ScanLeavesNoHole
  CallsResolve
PROPERTIES
  ExtensionCoversCaseBodies
  Termination
