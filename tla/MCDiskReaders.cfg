SPECIFICATION Spec
CONSTANTS
  Ports = {0, 1}
  Tables <- MCTables
  Mbrs <- MCMbrs
  RootDirs <- MCRootDirs
  SubDirs <- MCSubDirs
  Junk <- MCJunk
  Cluster <- MCCluster
  DataStart = 100
  StaleStart = 24
  PerCluster = 8
  MaxFiles = 3
  PageStep = 2
  MaxPage = 4
  MaxShown = 2
INVARIANTS
  
  FolderShown
  NamesAreOwn
