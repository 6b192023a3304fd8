SPECIFICATION FairSpec
CONSTANTS
  Ports = {0, 1}
  Lbas <- MCLbas
  Bufs <- MCBufs
  MaxDrives = 2
  MaxClicks = 3
  UsbFound = {TRUE, FALSE}
INVARIANTS
  ListIsSound
  LabelsAreOwn
  IndexMeansDrive
PROPERTIES
  ImplementsBlockDevice
  DesktopGoesOn
CHECK_DEADLOCK FALSE
