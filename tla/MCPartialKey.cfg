SPECIFICATION Spec
CONSTANTS
  NULL = NULL
  PoolSize = 2
  MaxCalls = 3
  DrivePeriod = 2
  KeySize = 3
  CR = "cr"
  LF = "lf"
  NUL = "nul"
  Unreserved = {"a", "b", "i"}
  Byte = {"a", "b", "c", "i", "cr", "lf", "nul"}
  Bodies <- MCBodies
  InitialKey <- NoInitialKey
  Workload <- AllRequests
INVARIANT UrlHasWholeKey
