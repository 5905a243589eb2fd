SPECIFICATION BoundedSpec
CONSTANTS
  Modules = {}
  Providers = {p1}
  Releases = {"5.80.0"}
  Release <- MCRelease
  Contents = {c1}
  ErrorPage = ErrorPage
  FileNames = {f1, f2}
  Dual = {}
  Immutable = {}
  Backend = "fileSystem"
  Workers = 1
  Scanning = TRUE
  ScanModules = TRUE
  Flagged = {}
  FlaggedSources = {"5.80.0"}
  ScansMayFail = FALSE
  None = None
  Absent = Absent
  Torn = Torn
  Budget = 3
INVARIANTS
  SourceGate
CHECK_DEADLOCK FALSE
