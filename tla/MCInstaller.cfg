\* Two distributions on every Windows family; power failures, deletions put off.
SPECIFICATION Spec
CONSTANTS
  d1 = d1
  d2 = d2
  g1 = g1
  g2 = g2
  g3 = g3
  None = None
  User = User
  Distros = {d1, d2}
  Ids = {g1, g2}
  MediaKinds = {"CDROM"}
  Families = {"9x", "NT", "Vista", "other"}
  ConfigAtStart = {User}
  FetchResults = {"OK"}
  CopyMayFail = FALSE
  BcdMayFail = {"delete"}
  Lockable = {"menu.lst", "uninst"}
  CrashAt <- AllSteps
  MaxInstalls = 2
  MaxRestarts = 2
SYMMETRY Symmetric
INVARIANTS TypeOK Undoable Traceless
PROPERTY ImplementsUndoLog
CHECK_DEADLOCK FALSE
