SPECIFICATION FairSpec
CONSTANTS
  NULL = NULL
  PoolSize = 2
  MaxCalls = 3
  DrivePeriod = 5
  KeySize = 3
  CR = "cr"
  LF = "lf"
  NUL = "nul"
  Unreserved = {"a", "b", "i"}
  Byte = {"a", "b", "c", "i", "cr", "lf", "nul"}
  Bodies <- ShortBodies
  InitialKey <- NoInitialKey
  Workload <- Heartbeats
PROPERTIES
  SentIsStarted
  AnsweredIsReaped
  QueueDrains
  BodyOpensGate
