CONSTANTS
  Programs <- MCPrograms
  Bounds <- MCBounds
SPECIFICATION Spec
INVARIANTS
  Stored
  NoExit
  Exact
  Merged
  PartialParse
