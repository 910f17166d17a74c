SPECIFICATION FairWorker
CONSTANTS
  MaxJobs = 3
  PerFrame = 2
INVARIANTS
  WorkerInv
PROPERTIES
  FlushRunsAll
  NextJobWakes
  HangsOnlyAsleep
