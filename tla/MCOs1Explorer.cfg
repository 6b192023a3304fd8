CONSTANTS
  Ports = {0, 1}
  Sticks = {100}
  StickPort = 1
  Slots <- TwoSlots
  ReaderRows = 1
  FatLba <- FatFile
  MaxFails = 1
  FirstKinds = {"cfs", "fat32"}
  FirstDirs <- SomeDirs
  MaxClicks = 6
SPECIFICATION Spec
CHECK_DEADLOCK FALSE
INVARIANTS DirectoriesAreSound RootRowsAreReal
PROPERTIES OneEntryPerClick LivingDataKept
