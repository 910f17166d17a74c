SPECIFICATION FairSpec
CONSTANTS
  NULL = NULL
  MaxJobs = 1
  PerFrame = 1
  Plugins = {"p"}
  Extensions = {"x"}
  Drivers = {"d"}
  DefaultDrivers = {"d"}
  Prios = {0, 2}
PROPERTY KillReturns
