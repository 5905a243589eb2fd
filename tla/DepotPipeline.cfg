SPECIFICATION DepotPipelineSpec
CONSTANTS
  Modules = {m1}
  Providers = {p1, p2}
  Releases = {"5.80.0", "5.81.0"}
  Release <- MCReleases
  Order <- MCOrder
  HistoryLimit = 0
  Contents = {c1}
  ErrorPage = ErrorPage
  FileNames = {f1, f2, f3, f4, f5}
  Dual = {}
  Immutable = {}
  Backend = "fileSystem"
  Workers = 1
  Scanning = FALSE
  ScanModules = FALSE
  Flagged = {}
  FlaggedSources = {}
  ScansMayFail = FALSE
  None = None
  Absent = Absent
  Torn = Torn
  UserSteps = 1
  Failures = 1
INVARIANTS
  DepotTypeOK
  RefsAtRest
PROPERTIES
  DepotIsAnOwner
  RemovesUnwanted
  ListsFollowDepot
  ReleasedIsPublished
  VersionsFollowProvider
CHECK_DEADLOCK FALSE
