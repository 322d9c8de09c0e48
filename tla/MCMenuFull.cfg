\* A full list of fallbacks that ends in a number no entry has.
SPECIFICATION FairSpec
CONSTANTS
  N = 3
  MaxLines = 0
  MaxFallback = 3
  Digits = {}
  Terms <- BootTerms
  Configs <- FullConfigs
  Saves <- BootSaves
  Healths <- BootHealths
PROPERTY ValidationEnds
