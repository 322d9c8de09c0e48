SPECIFICATION MCSpec
CONSTANTS
  BlockBytes = 2
  MaxLinks = 2
  NDirect = 1
  AddrPerBlock = 2
  FatSector = 2
  FatWindow = 4
  NumClust = 12
  ExtentsPerPage = 2
  PxeBufLen = 5
  CachedSlots = 2
  Lens = {3, 30}
  WSIZE = 4
  INBUFSIZ = 3
  GzLens = {3, 30}
  GzFiles <- MCGzFiles
  Paths <- MCPaths
  Disks <- MCDisks
  Files <- MCFiles
  Commands <- MCCommands
  MaxCommands = 2
  Volumes <- MCVolumes
INVARIANT ErrorReported
