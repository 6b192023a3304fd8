SPECIFICATION Spec
CONSTANTS
  Drives <- CfsAndNtfs
  Usb <- None
  Flaky <- None
  Format0 <- FormatOf
  Formattable <- CfsOnly
  NSlots = 3
  MkdirSlots = 1
  FileSectors = 2
  ForeignStarts <- TwoRecords
  ForeignFolders <- None
  RawStart = 0
  Buttons <- CopyPaste
PROPERTIES
  ImplementsFileStore
CHECK_DEADLOCK FALSE
