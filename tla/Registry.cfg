SPECIFICATION RegistryBoundedSpec
CONSTANTS
  Modules = {m1}
  Providers = {p1}
  Releases = {"5.80.0"}
  Release <- MCRelease
  Rank <- MCRank
  Clients = {k1}
  Contents = {c1, c2}
  ErrorPage = ErrorPage
  FileNames = {f1, f2, f3}
  Dual = {}
  Immutable = {m1}
  Backend = "fileSystem"
  Workers = 1
  Scanning = TRUE
  ScanModules = TRUE
  Flagged = {c2}
  FlaggedSources = {"5.80.0"}
  ScansMayFail = FALSE
  None = None
  Absent = Absent
  Torn = Torn
  Budget = 3
SYMMETRY NamesAlike
INVARIANTS
  IInv
  QuiescentConsistent
  NamesDisjoint
  ScanGate
  RegistryTypeOK
  UndisturbedDownloads
  ScannedDownloads
PROPERTIES
  LiveArtifactKept
  ImmutableOnceSeen
  ArtifactGoesFirst
  DownloadsAreAtomic
CHECK_DEADLOCK FALSE
