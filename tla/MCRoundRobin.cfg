SPECIFICATION RRFairSpec
CONSTANTS
  MaxTasks = 3
  Sectors = 1
  SleepTicks = 1
  MaxSpawns = 3
  Calls <- QuietCalls
  ReloadWhileLive = FALSE
INVARIANTS
  BoundedBypass
PROPERTIES
  ImplementsCpuSharing
  MainLoopReturns
  YieldingCallReturns
