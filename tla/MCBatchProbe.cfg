SPECIFICATION ProbeSpec
CONSTANTS
  Width = 6
INVARIANTS
  Verdict
  NoSocketLeft
PROPERTIES
  Terminates
