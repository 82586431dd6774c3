CONSTANTS
  Programs <- MCPrograms
  Bounds <- MCBounds
SPECIFICATION Spec
INVARIANT UseArrives
