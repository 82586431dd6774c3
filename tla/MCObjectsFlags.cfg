CONSTANTS
  Programs <- MCPrograms
  Bounds <- MCBounds
SPECIFICATION Spec
INVARIANT FlagsAreU32
