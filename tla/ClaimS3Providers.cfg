SPECIFICATION LiveSpec
CONSTANTS
  Modules = {}
  Providers = {p1}
  Releases = {"5.80.0"}
  Release <- MCRelease
  Contents = {c1}
  ErrorPage = ErrorPage
  FileNames = {f1, f2}
  Dual = {}
  Immutable = {}
  Backend = "s3"
  Workers = 2
  Scanning = FALSE
  ScanModules = FALSE
  Flagged = {}
  FlaggedSources = {}
  ScansMayFail = FALSE
  None = None
  Absent = Absent
  Torn = Torn
  Budget = 1
PROPERTIES
  EventuallyPublished
CHECK_DEADLOCK FALSE
