\* Reads of up to five sectors, past the end of a disk too; writes of one
\* sector; an exchange of disks at every prompt.
\* Three map commands, in any order with hook, unhook and a write.
CONSTANTS
  Drives <- MCDrives
  Removable = {"fd0"}
  Disks <- MCDisks
  NoDisk = NoDisk
  NoDrive = NoDrive
  Size <- MCSize
  Spt <- MCSpt
  BufferLen = 3
  Values <- MCValues
  NoValue = NoValue
  Shipped <- MCShipped
  Wanted = {0, 1, 2, 3, 4}
  Targets = {1, 2}
  Written <- MCWritten
  Numbers <- MCNumbers
  BiosSize <- MCBiosSize
  Regions <- MCRegions
  MinEmuBase = 8
  Page = 2
  DriveMapSize = 2
  Commands <- MCCommands
  MaxMaps = 3
SPECIFICATION MCSpec
INVARIANTS TypeOK CacheCoherent ServesShown MemoryReserved
PROPERTIES ImplementsDisk EveryCallReturns ImplementsDriveTable
