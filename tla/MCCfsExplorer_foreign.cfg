SPECIFICATION Spec
CONSTANTS
  Drives <- CfsAndFat32
  Usb <- Fat32Only
  Flaky <- CfsAndFat32
  Format0 <- FormatOf
  Formattable <- CfsOnly
  NSlots = 2
  MkdirSlots = 1
  FileSectors = 1
  ForeignStarts <- FolderAndFile
  ForeignFolders <- FirstIsFolder
  RawStart = 1002
  Buttons <- FileMkdirSave
PROPERTIES
  EntriesPersist
CHECK_DEADLOCK FALSE
