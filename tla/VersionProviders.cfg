SPECIFICATION LossySpec
CONSTANTS
  Modules = {}
  Providers = {p1, p2}
  Releases = {"5.80.0"}
  Release <- MCRelease
  Contents = {c1}
  ErrorPage = ErrorPage
  FileNames = {f1, f2, f3}
  Dual = {}
  Immutable = {}
  Backend = "fileSystem"
  Workers = 2
  Scanning = TRUE
  ScanModules = TRUE
  Flagged = {}
  FlaggedSources = {}
  ScansMayFail = TRUE
  None = None
  Absent = Absent
  Torn = Torn
  Budget = 2
INVARIANTS
  TypeOK
  SemaphoresHeld
PROPERTIES
  EventuallyRestored
CHECK_DEADLOCK FALSE
