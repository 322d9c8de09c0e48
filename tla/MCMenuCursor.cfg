\* Every key, with an edited entry of up to four lines.
SPECIFICATION Spec
CONSTANTS
  N = 11
  MaxLines = 4
  MaxFallback = 3
  Digits = {0, 1}
  Terms <- CursorTerms
  Configs <- CursorConfigs
  Saves <- CursorSaves
  Healths <- CursorHealths
INVARIANTS TypeOK CursorInMenu CursorInEdit
