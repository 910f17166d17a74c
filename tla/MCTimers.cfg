SPECIFICATION Spec
CONSTANTS
  NULL = NULL
  Structs = {1, 2}
  Kinds <- MCKinds
  Deltas = {1, 3}
  Accuracy = 1
  MaxTime = 4
  MaxDepth = 3
CHECK_DEADLOCK FALSE
INVARIANTS
  TimerInv
  NoneLate
PROPERTIES
  KilledNeverFires
  TimeForward
  SweepExact
