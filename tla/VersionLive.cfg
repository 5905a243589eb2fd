SPECIFICATION LiveSpec
CONSTANTS
  Modules = {m1}
  Providers = {p1}
  Releases = {"5.80.0"}
  Release <- MCRelease
  Contents = {c1, c2}
  ErrorPage = ErrorPage
  FileNames = {f1, f2, f3}
  Dual = {p1}
  Immutable = {}
  Backend = "fileSystem"
  Workers = 2
  Scanning = FALSE
  ScanModules = FALSE
  Flagged = {}
  FlaggedSources = {}
  ScansMayFail = FALSE
  None = None
  Absent = Absent
  Torn = Torn
  Budget = 3
INVARIANTS
  RestsOnlyWhenDone
PROPERTIES
  EventuallyPublished
  DeletionCompletes
  Settles
  DualSettles
CHECK_DEADLOCK FALSE
