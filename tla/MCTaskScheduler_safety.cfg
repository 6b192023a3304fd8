SPECIFICATION Spec
CONSTANTS
  MaxTasks = 4
  Sectors = 2
  SleepTicks = 2
  MaxSpawns = 4
  Calls <- AllCalls
  ReloadWhileLive = TRUE
INVARIANTS
  SlotsAreSound
  RunningTaskIsRunnable
  ContextsBelong
  TonesBelong
PROPERTIES
  PausedTaskFrozen
CHECK_DEADLOCK FALSE
