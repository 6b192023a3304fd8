SPECIFICATION Spec
CONSTANTS
  MaxTasks = 3
  Sectors = 1
  SleepTicks = 1
  MaxSpawns = 2
  Calls <- AllCalls
  ReloadWhileLive = FALSE
INVARIANTS
  HaltWakesUp
CHECK_DEADLOCK FALSE
