SPECIFICATION RegistryBoundedSpec
CONSTANTS
  Modules = {}
  Providers = {p1, p2}
  Releases = {"5.80.0"}
  Release <- MCRelease
  Rank <- MCRank
  Clients = {k1}
  Contents = {c1, c2}
  ErrorPage = ErrorPage
  FileNames = {f1, f2, f3}
  Dual = {}
  Immutable = {}
  Backend = "fileSystem"
  Workers = 2
  Scanning = FALSE
  ScanModules = TRUE
  Flagged = {}
  FlaggedSources = {}
  ScansMayFail = FALSE
  None = None
  Absent = Absent
  Torn = Torn
  Budget = 2
SYMMETRY NamesAlike
INVARIANTS
  RightPlatform
CHECK_DEADLOCK FALSE
