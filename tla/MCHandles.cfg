SPECIFICATION Spec
CONSTANTS
  NULL = NULL
  MaxHandles = 5
  MaxSerials = 4
  Tokens = {a, b}
  Types = {t}
  MaxMade = 5
  MaxDepth = 3
SYMMETRY Symmetry
CONSTRAINT Intact
CHECK_DEADLOCK FALSE
INVARIANTS
  HandleInv
  ChainsUntilMangled
  DestroyedWhenUnused
  StaleNeverReads
