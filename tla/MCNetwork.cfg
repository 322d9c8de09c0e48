\* Two opens or rewinds, reads of one byte and of all; and up to four commands
\* that configure the network or use it.
CONSTANTS
  Files = {"a", "b"}
  Length <- TwoFiles
  Junk = Junk
  NoFile = NoFile
  Unknown = Unknown
  BufLen = 4
  DefaultSize = 1
  MaxPacket = 2
  BlockMod = 4
  MaxRetries = 1
  MaxRexmt = 1
  Servers <- AllServers
  InFlight = 2
  Strays <- SomeStrays
  MaxResend = 1
  MaxCalls = 2
  ReadSizes = {2, 5}
  Seeks = {0}
  Sites <- MCSites
  Arguments <- MCArguments
  Names <- MCNames
  MaxBootpRetries = 2
  MaxArpRetries = 2
  MaxTftpRetries = 1
  MaxRetransmits = 2
SPECIFICATION MCSpec
INVARIANTS TypesOK BufferIsFile ReadIsFile SizeIsTrue LockStep AddressIsLeased ArpTrue
PROPERTIES EveryCallEnds
CHECK_DEADLOCK FALSE
