\* Configuration, fallback and resets, with every outcome of every entry.
SPECIFICATION MCSpec
CONSTANTS
  N = 3
  MaxLines = 0
  MaxFallback = 3
  Digits = {}
  Terms <- BootTerms
  Configs <- BootConfigs
  Saves <- BootSaves
  Healths <- BootHealths
  MaxArrivals = 3
  MaxStrays = 1
  MaxAsked = 5
  MaxAgain = 1
  MemLower = 2560
  MemUpper = 12288
  KernelCommands <- MCKernelCommands
  ModuleCommands <- MCModuleCommands
  ChainCommands <- MCChainCommands
  Drives <- MCDrives
  CmdlineBuf = 8
  MaxCommands = 3
  MaxRoots = 1
  Builds <- MCBuilds
  MaxProbes = 2
INVARIANTS FallbacksDistinct SavesWhatComesNext ProbesCards
PROPERTIES BootingEnds EnsuresStarted ImplementsLink ImplementsBootImage KeepsReceiving TransmitReturns
