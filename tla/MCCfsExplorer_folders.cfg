SPECIFICATION Spec
CONSTANTS
  Drives <- CfsAndBlank
  Usb <- None
  Flaky <- None
  Format0 <- FormatOf
  Formattable <- CfsAndBlank
  NSlots = 2
  MkdirSlots = 1
  FileSectors = 1
  ForeignStarts <- NoFilesThere
  ForeignFolders <- None
  RawStart = 0
  Buttons <- Dialog
INVARIANTS
  CacheNeverLies
  DirectoriesAreTrees
CHECK_DEADLOCK FALSE
