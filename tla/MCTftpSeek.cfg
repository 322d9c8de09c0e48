\* One open and one forward seek, past what the buffer holds.
CONSTANTS
  Files = {"long"}
  Length <- LongFile
  Junk = Junk
  NoFile = NoFile
  Unknown = Unknown
  BufLen = 4
  DefaultSize = 1
  MaxPacket = 2
  BlockMod = 16
  MaxRetries = 1
  MaxRexmt = 1
  Servers <- AllServers
  InFlight = 2
  Strays <- NoStrays
  MaxResend = 1
  MaxCalls = 2
  ReadSizes = {1}
  Seeks = {6}
SPECIFICATION Spec
INVARIANTS ReadIsFile
CHECK_DEADLOCK FALSE
