SPECIFICATION Spec
CONSTANTS
  NULL = NULL
  MaxJobs = 2
  PerFrame = 1
  Plugins = {"p"}
  Extensions = {"x"}
  Drivers = {"d", "e"}
  DefaultDrivers = {"d"}
  Prios = {0, 2}
INVARIANTS
  DBInv
  PriorityKeepsOrder
  GoneOwnsNothing
  DriversKnown
  WorkerApart
