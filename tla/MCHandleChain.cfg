SPECIFICATION Spec
CONSTANTS
  NULL = NULL
  MaxHandles = 4
  MaxSerials = 20
  Tokens = {a}
  Types = {t}
  MaxMade = 5
  MaxDepth = 2
INVARIANT UnloadReleasesAll
CHECK_DEADLOCK FALSE
