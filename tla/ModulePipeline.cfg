SPECIFICATION PipelineSpec
CONSTANTS
  Modules = {m1, m2}
  Providers = {}
  Releases = {"5.80.0"}
  Release <- MCRelease
  Order <- MCOrder
  HistoryLimit = 1
  Contents = {c1}
  ErrorPage = ErrorPage
  FileNames = {f1, f2, f3, f4, f5}
  Dual = {}
  Immutable = {}
  Backend = "fileSystem"
  Workers = 1
  Scanning = FALSE
  ScanModules = FALSE
  Flagged = {}
  FlaggedSources = {}
  ScansMayFail = FALSE
  None = None
  Absent = Absent
  Torn = Torn
  UserSteps = 1
  Failures = 1
INVARIANTS
  ModuleTypeOK
  LatestAtRest
  NamesAtRest
PROPERTIES
  IsAnOwner
  RemovesUnlisted
  VersionsFollowModule
  ListedIsPublished
CHECK_DEADLOCK FALSE
