SPECIFICATION Spec
CONSTANTS
  Modules = {m1}
  Providers = {}
  Releases = {"5.80.0"}
  Release <- MCRelease
  Contents = {c1, c2}
  ErrorPage = ErrorPage
  FileNames = {f1, f2}
  Dual = {}
  Immutable = {m1}
  Backend = "fileSystem"
  Workers = 1
  Scanning = FALSE
  ScanModules = FALSE
  Flagged = {}
  FlaggedSources = {}
  ScansMayFail = FALSE
  None = None
  Absent = Absent
  Torn = Torn
PROPERTIES
  ImmutableChecksum
