SPECIFICATION Spec
CONSTANTS
  MaxSet = 3
  MaxExprs = 2
INVARIANTS
  NoExit
  Exact
  Refused
  Settled
