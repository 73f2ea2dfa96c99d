CONSTANTS
  Count = 2
  Count64 = 2
  Programs <- MCPrograms
SPECIFICATION Spec
INVARIANTS HelpersFound SameBehaviour
