SPECIFICATION Spec
CONSTANTS
  NULL = NULL
  PoolSize = 2
  MaxCalls = 3
  DrivePeriod = 2
  KeySize = 3
  CR = "cr"
  LF = "lf"
  NUL = "nul"
  Unreserved = {"a", "b", "i"}
  Byte = {"a", "b", "c", "i", "cr", "lf", "nul"}
  Bodies <- AnyBodies
  InitialKey <- NoInitialKey
  Workload <- Heartbeats
INVARIANTS
  TypeOK
  SlotsExclusive
  MultiMirrorsPool
  HeapExact
  ScanReapsOnce
  KeysEarned
  OverloadOnly
  DrainedMeansDone
PROPERTIES
  ImplementsBox
