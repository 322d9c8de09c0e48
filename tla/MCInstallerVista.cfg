\* No power failure and nothing fails: the installer is run twice.
SPECIFICATION Spec
CONSTANTS
  d1 = d1
  d2 = d2
  g1 = g1
  g2 = g2
  g3 = g3
  None = None
  User = User
  Distros = {d1}
  Ids = {g1, g2, g3}
  MediaKinds = {"NET", "CDROM", "LOCAL"}
  Families = {"9x", "NT", "Vista"}
  ConfigAtStart = {User}
  FetchResults = {"OK"}
  CopyMayFail = FALSE
  BcdMayFail = {}
  Lockable = {}
  CrashAt = {}
  MaxInstalls = 2
  MaxRestarts = 0
CHECK_DEADLOCK FALSE
INVARIANT WindowsEntryKept
