\* One distribution; every failure but locks on the loader files.
SPECIFICATION FairSpec
CONSTANTS
  d1 = d1
  d2 = d2
  g1 = g1
  g2 = g2
  g3 = g3
  None = None
  User = User
  Distros = {d1}
  Ids = {g1, g2}
  MediaKinds = {"NET", "CDROM", "LOCAL"}
  Families = {"9x", "NT", "Vista", "other"}
  ConfigAtStart = {User}
  FetchResults = {"OK", "URL Parts Error", "failed"}
  CopyMayFail = TRUE
  BcdMayFail = {"create", "displayorder", "delete"}
  Lockable = {"config.sys", "uninst", "hitme", "initrd"}
  CrashAt <- AllSteps
  MaxInstalls = 2
  MaxRestarts = 2
CHECK_DEADLOCK FALSE
INVARIANT UserConfigKept
PROPERTIES FinishedBoots EventuallyClean
