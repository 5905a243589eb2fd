# Verification of the OpenDepot controllers

OpenDepot is a private registry for OpenTofu modules and providers that runs as
a set of Kubernetes controllers.  This directory holds TLA+ specifications of
its core, the TLC configurations that check them, and proofs that TLAPS checks.
Paths below are relative to the repository; file and line references are to
`src/`.

The controllers share no memory: they interact through objects at the API
server, an object store, and the services they download from.  Every hard
question is about what one controller does with a copy that another has
changed.

## 1. Inventory

| Component | Source | State it keeps | Operations |
|---|---|---|---|
| Version controller | `services/version/internal/controller/opendepot_versions_controller.go` | `Version.spec.fileName`, `spec.moduleConfigRef`, `status.checksum`, `status.synced`, its finalizer; `downloadSem`, `scanSem` in memory | `Reconcile`, `reconcileDeletion` |
| Vulnerability scanner | `.../scanner.go` | `Provider.status.sourceScan`, scan results in `Version.status` | `runProviderScan`, `runModuleScan` |
| Provider registry client | `.../registry.go` | none | look up a download, a repository |
| Storage back ends | `pkg/storage` | the objects | get, checksum, put, delete for file system, S3, GCS, Azure |
| GitHub client | `pkg/github/github.go` | none | download a tag's archive, a go.mod |
| Module controller | `services/module/internal/controller` | `Version` objects of a module, `Module.status.moduleVersionRefs`, `latestVersion` | `Reconcile`, `ReconcileVersionRemovals` |
| Provider controller | `services/provider/internal/controller` | `Version` objects of a provider, one per version, os and arch | `Reconcile`, removals |
| Depot controller | `services/depot/internal/controller` | `Module` and `Provider` objects, `Depot.status` | `Reconcile` on a polling interval |
| Registry server | `services/server/main.go` | none | registry protocol: list versions, metadata, checksums, download |
| Shared version helpers | `pkg/utils` | none | latest version, versions to keep, names |

**How they interact.**  A `Depot` lists releases that satisfy a constraint and
writes them into `Module.spec.versions` and `Provider.spec.versions`.  The
Module and the Provider controller own one `Version` object per entry: they
create it, overwrite it on every pass (with a freshly built object: finalizers
and most of the config reference are lost) and delete it when the entry goes.
The Module controller also draws the file name, records it in the Module's
status, and creates the Version.  The Version controller downloads, stores,
scans and records; it reads the file name from the Module's status.  The server
only reads, in several requests per download.

**What is hard.**

- A reconcile reads a Version once, from an informer cache, and works on that
  snapshot for minutes.  Meanwhile its owner rewrites, deletes or recreates the
  Version, a second informer (for Modules) is at another point in time, the tag
  moves, and the process may restart.
- Three stores are written in sequence without a transaction: artifact,
  `spec`, `status`.  On the file system the upload itself truncates first.
- Any call may fail.  A failed call ends the pass and the key is retried; a
  failed scan does not; a back end that dereferences a nil config never
  succeeds.
- Two semaphores are shared by all workers, one of them released by hand.
- The source scan of a provider is deduplicated through the `Provider`'s
  status, by Versions that run in parallel.
- The four controllers are four processes, each with informers of its own that
  lag by themselves.  The Module controller reads its Module up to four times in
  a pass; the Provider controller reads once and is woken by nothing but a change
  of the spec; both drop every event of the Versions they own.
- The Module and the Version controller copy a file name from each other.

**What makes each component correct.**

- Version controller: when it rests on a Version it calls synced, the storage
  holds the archive of the recorded checksum; no deletion takes an artifact
  somebody serves; file names are never shared; the checksum of an immutable
  version stays once it has been seen; the object goes before the finalizer; a
  Version that can be published is; a terminating one terminates; it comes to rest,
  and only on what it is done with.
- Scanner: nothing with findings at a blocked severity is recorded as synced;
  the scan semaphore is never leaked.
- Storage back ends: what they report is what they hold.
- Module and Provider controllers: in the end the Versions are those of the
  spec, whatever happened on the way; what the status reports at rest (latest
  version, file names, refs) is right; what is listed is not removed; to a Version they do only what the Version controller
  can cope with.
- Depot controller: in the end the Modules and Providers list exactly the
  releases that satisfy the constraints, whoever edited them meanwhile; it lists
  nothing the constraints do not admit.
- All of them together: what upstream releases and a Depot admits is published.
- Registry server: what a client receives has the checksum it was promised, and
  is for its platform.

`PROJECT.json` lists every hazard at its line, with the properties that cover
it or the reason that none does yet.

## 2. Modules

| Module | What it is |
|---|---|
| `ArtifactStore` | the four back ends: what a call may return, and when it can never succeed |
| `VersionController` | the Version controller with scanner, informers, work queue, owners, upstream and restarts; type and safety properties |
| `VersionInvariant` | the inductive invariants: `IInv`, and `CourseInv` for what a run is about |
| `VersionClaims` | what documents and comments say, where the code does something else |
| `MCVersion` | instance for the claims checked over the specification as it is |
| `MCVersionBounded` | the same with a budget of disturbances |
| `MCVersionLive` | the bounded instance with fairness; liveness properties |
| `VersionTypeProofs` | every action preserves the types |
| `VersionSafetyProofs` | the inductive invariant, and what it implies |
| `VersionScanProofs` | semaphores, scan gate, live artifacts |
| `VersionRestProofs` | what the controller rests on is done and has its storage config; immutable checksums stay; the object goes before the finalizer |
| `VersionOwners` | what the owners of Versions share: their informers, and everybody who is not an owner |
| `ModuleController` | the Module controller, step by step, in place of the owner of `VersionController` |
| `MCModule` | it and the Version controller end to end, with fairness |
| `ModuleProofs` | what it reports at rest, what it removes; it implements the owner |
| `ProviderController` | the Provider controller, likewise |
| `MCProvider` | it beside a slow Version controller, for one claim |
| `DepotController` | the Depot controller, composed with the other two owners |
| `MCDepot` | all four controllers end to end, with fairness |
| `ProviderProofs` | the same for the Provider controller, for the Depot controller, and for all controllers side by side |
| `RegistryServer` | the registry server and its clients, composed with `VersionController` |
| `AtomicDownload` | abstract specification: a download is one atomic read |
| `RegistryRefinement` | the server's requests seen as an `AtomicDownload` |
| `MCRegistry` | the bounded instance of server and Version controller |
| `RegistryProofs` | types, what a client never installs, what it gets |
| `DownloadProofs` | the server implements `AtomicDownload` |

### VersionController: state

- `api[v]` is the resource at the API server, `cache[v]` the informer's copy.
  `news` holds the Versions with a watch event under way.  One pending event per
  Version is enough: an informer coalesces, and a copy only moves to the
  current state or stays behind.
- `queued` is the work queue (with rate limited requeues), `run[v]` the
  reconcile under way: its program counter, the snapshot, the in-memory file
  name and config, the archive, whether a scan result waits to be recorded.
- `fresh` holds the runs whose snapshot has the current `resourceVersion`: it
  decides whether an `Update` through the snapshot is a conflict, and stands
  for the counter itself, which is unbounded.
- `ref[v]`, `seen[v]` and `hand[v]` are the file name in the Module's status, in
  this controller's copy of the Module, and in the memory of a Module
  controller's run.
- `upstream[v]` is what GitHub or the provider registry serves, `store[f]` what
  is stored under a name, `dlSem` and `scanSem` the semaphores, `srcScan` the
  `Provider`'s source scan.

An archive is identified with its SHA-256; a file truncated by an unfinished
write is `Torn`; the body of a 404 answer is `ErrorPage`.  A `Version`
identifies the object key once `spec.fileName` and the storage config are
there (`HasPath`).

### VersionController: actions

The program counter follows `Reconcile` from top to bottom, one action for each
piece of code between two calls that other processes can come between:

| `pc` | Code | Actions |
|---|---|---|
| `idle` | get, finalizer, deletion (85-118, 424-430) | `StartGone`, `AddFinalizer`, `StartDelete`, `StartSync` |
| `prepare`, `rejectDual` | 118-148, 471-559 | `Prepare`, `RejectDual` |
| `fetch` | modules: 154-179, 562-592 | `FetchModule`, `RejectReplaced` |
| `fastPath`, `acquire`, `download` | providers: 182-241, 625-773 | `FastPathHit`, `FastPathMiss`, `AcquireDownload`, `DownloadProvider` |
| `verify`, `put*`, `write*` | 243-330 | `Verify`, `BeginPut`, `EndPut` |
| `persist` | 332-348 | `Persist` |
| `scan`, `scanning`, `source`, `gomod`, `sourcing` | 350-387, `scanner.go` | `BeginScan`, `EndScan`, `ScanFails`, `BlockScan`, `MissSource`, `SkipSource`, `BeginSource`, `NoGoMod`, `EndSource`, `SourceFails`, `BlockSource` |
| `finish` | 389-421 | `Finish` |
| `remove`, `unfinalize` | 437-465 | `RemoveArtifact`, `RemoveFinalizer` |
| any | an error return | `Abort` |

`Abort` is any call that fails; `Doomed` names the states where a call must fail
whatever the network does.  `Deliver`, `Resync`, `DeliverRefs` and `Crash` are
the machinery of controller-runtime.  `RecordName`, `CreateForModule`,
`RecordRefs`, `CreateWithConfig`, `Rewrite`, `DeleteVersion` are what owners and
users do, `Retag` what upstream does.

In `VersionController` the owners are modelled by their writes, in any order and at
any time.  This is more than the code does (the Module controller creates a
Version right after it recorded the name, for instance), so what holds there
holds with the real owners: `ModuleController`, `ProviderController` and
`DepotController` are those, and each is shown to implement it (`IsAnOwner`,
`ProviderIsAnOwner`, `DepotIsAnOwner`).

### The owners: state and actions

Each owner is a process of its own.  `known` and `versionNews` (`VersionOwners`) are
its informer of Versions, `moduleSeen`, `providerSeen`, `depotSeen` its copy of
the object it reconciles, `moduleNews`, `providerNews`, `outdated` the events on their
way, `moduleQueued` and so on its work queue, and `mrun`, `prun`, `drun` the pass
under way with what it holds in memory.

| Code | Actions |
|---|---|
| Module: `Reconcile`, get and loop (69-85) | `StartModule` |
| not found: name, status (95-140), create (142-177) | `NameVersion`, `CreateVersion`, `SkipCreate` |
| found: overwrite (178-223) | `RewriteVersion` |
| latest version, history limit, force (226-265) | `ListDone`, `TooShort`, `ResetForce` |
| final status (266-286) | `WriteModuleStatus` |
| `ReconcileVersionRemovals` (299-333) | `ListVersions`, `RemoveVersion`, `RemoveAgain` |
| error returns, panics | `AbortModule`; `DoomedModule` where it must |
| Provider: loop (86-133) | `StartProvider`, `CreateCombination`, `RewriteCombination` |
| force, status (135-168) | `ResetProviderForce`, `WriteProviderStatus` |
| removals (178-208) | `ListCombinations`, `RemoveCombination`, `RemoveCombinationAgain` |
| `GenerationChangedPredicate` (221) | `QueuedBy` in `DeliverProvider` |
| Depot: modules (79-239) | `StartDepot`, `ListReleases`, `PutListedModule` |
| providers (241-322) | `ListProviderVersions`, `PutListedProvider` |
| status, polling (324-344) | `WriteDepotStatus` |

A list of versions is a set, a constraint the set of what it admits, a
combination of release, os and arch a provider Version.  The copy of the Module in
the hands of a pass is replaced where the code reads into it again; that a list
trimmed to `versionHistoryLimit` is lost with it is part of `WriteModuleStatus`.

### RegistryServer: state and actions

The server keeps nothing, so its state is in its clients: `req[c]` is the
conversation of client `c`, what it wants, how far it is, and what it carries
from one answer to the next.  `calm` is a history variable for one property: the
conversations that began, and so far went on, with the Version controller at
rest on every Version.

| Step of the conversation | Handler in `services/server/main.go` | Action |
|---|---|---|
| what there is | `getModuleVersions` 661-700, `getProviderVersions` 702-779 | `AskModule`, `AskProvider` |
| a module's URL | `getDownloadModuleUrl` 272-352 | `GetDownloadModuleUrl` |
| a provider's metadata | `getProviderPackageMetadata` 781-843 | `GetProviderPackageMetadata` |
| its checksums | `getProviderPackageSHA256SUMS` 888-925 | `GetProviderPackageSHA256SUMS` |
| their signature | 927-998 | `GetProviderPackageSHA256SUMSSignature` |
| its URL | `serveProviderPackageDownload` 845-886 | `ServeProviderPackageDownload` |
| the object: compare | `getObjectFromStorageSystem` 541-552 | `CheckObject` |
| the object: send | 554-574 | `StreamObject` |

Between any two of them the whole of `VersionController` may take steps
(`RegistryNext`), so every answer reads another state.  An error ends a
conversation as `refused`; a client may turn away at any time (`Leave`).

### Abstractions

- The text of `status.syncStatus` and the `resourceVersion`s its updates use up.
  They only make conflicts more likely, and `Abort` covers a conflict anywhere.
- One replica: the managers run without concurrent leaders.
- One Module and one Provider own all the Versions of an instance, and a Depot
  has an entry for each at most; the dedupe
  of the source scan reads the current `Provider`, not a lagging copy (with a
  lagging one the scan runs once more, or is found covered a little later).  That
  look (`MissSource`) and the scan are two steps: two platforms may both find no
  scan and scan one after the other, which costs a scan and changes no result.
- A panic while a download holds `downloadSem` is left out: `fetchProviderArchive`
  checks the pointers it follows.  Every error return is there.
- The storage back end and directory do not change; one back end serves all.
- The requeue for an object key that cannot be built (243-255) is not a step
  of its own: a config that lacks the storage lacks it at the download too.
- Any answer but success and "not found" from GitHub is a failure.  (The code
  keeps the body of a 5xx on the second attempt as it keeps that of a 404.)
- A provider Version without the `Provider` label, which only a user can make,
  is not scanned; here all are.
- A download is one step: nothing the controller can observe changes during it.
- The server reads the API server, not a cache, and streams an object as one
  step; that it opens the object twice is two steps.
- A provider's client checks what OpenTofu checks: the signature over
  `SHA256SUMS`, the promised checksum in it, the bytes against that checksum.  A
  module's client checks nothing.
- Clients share no state with each other; the server has no lock or cache.
- A Version has one reference (`NoDual`): one with both would be in the lists of
  both kinds.

## 3. What the runs check

All twelve runs are listed in `PROJECT.json`.  Bounds appear in the `.cfg` files;
`FileNames` bounds the UUIDs drawn in a behaviour, `Budget` the number of
disturbances (owner steps, moved tags, avoidable failures, resyncs, restarts),
`UserSteps` and `Failures` the same in the pipelines.

| Run | Instance | Shows |
|---|---|---|
| `registry` | an immutable module and a provider Version, one client, two archives of which one is flagged, a flagged source, budget 3 (2.2 million states) | `IInv` (types, disjoint names, each part of the inductive invariant) and what follows from it: `NamesDisjoint`, `QuiescentConsistent`, `LiveArtifactKept`, `ScanGate`; `ImmutableOnceSeen` and `ArtifactGoesFirst`; for the client `RegistryTypeOK`, `UndisturbedDownloads`, `ScannedDownloads`, and the refinement `DownloadsAreAtomic` |
| `version_live` | a module Version and one with two configs, two workers, two archives, budget 3 | `RestsOnlyWhenDone`, `EventuallyPublished`, `DeletionCompletes`, `Settles`, `DualSettles` |
| `version_providers` | two platforms of one release, two workers, failing scans, lost artifacts, budget 2 | `TypeOK`, `SemaphoresHeld`, `EventuallyRestored` |
| `module_pipeline` | a Module with two versions and a history limit of one (which the code does not enforce), one user step, one failure (0.9 million states) | `ModuleTypeOK`, `LatestAtRest`, `NamesAtRest`, `RemovesUnlisted`, the refinement `IsAnOwner`, `VersionsFollowModule`, `ListedIsPublished` |
| `depot_pipeline` | a Depot with a module and a provider of two releases, all four controllers, one user step or one failure (0.3 million states) | `DepotTypeOK`, `RefsAtRest`, `RemovesUnwanted`, the refinement `DepotIsAnOwner`, `ListsFollowDepot`, `ReleasedIsPublished`, `VersionsFollowProvider` |
| `claim_*` | seven statements of the documents and comments | see Findings |

**Why the bounds are enough.**  Two Versions are all that any property relates;
two workers are enough for two Versions to be under way, and the semaphores
have one place.  Two archives suffice to tell "moved" from "same" (a third
would be another "moved").  The error page is one more content.  Two names suffice
for a Version to change its name; where names run out a draw is just not
possible; were that to stop a Version that can be published, the liveness runs
would fail.  A budget of three holds a rewrite, a moved tag and a restart, in any
order, inside one reconcile.  One client is enough for the server: clients cannot
affect each other, so a property of one is a property of each.  The safety
properties are proved for all values besides (section 4), so for those the runs
are a check of the theorems' statements rather than the last word.

**The pipelines.**  With every controller at its own pace the end-to-end instances
are out of reach, so `MCModule` and `MCDepot` fix an order where nothing is lost
by it or where another run covers what is lost.  The Version controller is
prompt: it finishes before an owner goes on (what it does when it is slow is the
matter of the runs above, where owners act at any time; `MCProvider` has both at their own pace).  The Module controller's steps
come before the Provider controller's: they share nothing but the Version controller.
Names are drawn in a fixed order: they are interchangeable.  A resync, and a
Depot's poll, come when everything is done; while it is not, they count as a
failure, as does a pass that starts behind its informers.  In `MCDepot` either a
user disturbs or something fails; in `MCModule` both may.  A user step creates or
edits a list, forces a sync, deletes a Version by hand, edits the Depot, goes
around it, or withdraws a release; a failure is any call that fails in any pass, a
restart of any owner, or a pass with an old cache.  What a moved tag, a lost
artifact and a restart of the Version controller do is the matter of `version_live`
and `version_providers`.

**Fairness.**  `Deliver` and `DeliverRefs` are weakly fair: an informer that is
connected delivers.  `Proceed(v)`, which is every step of the controller and
every failure it cannot avoid, is strongly fair: the work queue is first-in
first-out, so a key that is queued again and again is taken, and blocked senders
of a Go channel are served in order, so a worker that waits for a semaphore gets
it.  Nothing is assumed of owners, users, upstream, restarts, or failures
without a cause of their own; these are bounded by the budget, so "eventually"
means "once the disturbances stop".  Strong fairness of `Proceed` includes that
a call returns.  For downloads the code does not guarantee that (the HTTP client
has no timeout), which is listed as a hazard.  `version_providers` also assumes
that the informer's periodic resync comes, as it does every ten hours by
default: nothing else makes the controller look at an artifact that vanished.

In the pipelines there is one weakly fair step for the whole system: together with
the fixed order it says that every worker goes on, every event and every retry
comes in the end.  Nothing is assumed of users and failures.  The listings of
`ListsFollowDepot` need `pollingIntervalMinutes`: its requeue is the only thing that
makes a Depot look again.

The premises are named: `Workable` (the list is not empty and not shorter than the
history limit: otherwise the pass panics every time), `Discoverable` (every entry
of the Depot matches something: otherwise the pass ends with an error before the
entries after it).

Deadlock is not checked in the bounded runs: there the system really stops,
when the budget is spent and nothing is left to do.  `claim_immutable` and
`claim_released` run over the specification without a budget.

**Mutants.**  Each property has a mutant: a plausible slip in the code (the
checksum not compared, the name not persisted, the semaphore not released, a
terminal status turned into a retry) under which TLC finds it violated.  They
stand right before the definitions they replace.

### Findings

| Run | The code | The statement |
|---|---|---|
| `claim_immutable` | immutability is checked against a snapshot that may predate the checksum; the final write does not compare | `docs/architecture.md:50`: "prevents any modification or replacement of a published version" |
| `claim_released` | if the tag exists neither with nor without its `v`, the body of the second answer is stored and published | `pkg/github/github.go:78`: another attempt "before returning an error" |
| `claim_source_gate` | a blocked source scan is on record, so the retry skips it and syncs | `docs/configuration/scanning.md:70`: the version "will remain in an unsynced state" |
| `claim_s3_providers` | the S3 back end dereferences `moduleConfigRef`, nil for providers: never published | `docs/architecture.md:100`: "stores it in S3" |
| `claim_idempotent` | Module and Version controller copy the file name from each other; with copies that lag they exchange two names for ever, and upload the archive each time | `docs/guides/cicd.md:101`: "idempotent — it won't re-create versions that already exist" |
| `claim_combinations` | a pass takes the finalizer off a Version in termination, counts it as there, and nothing queues the Provider when it is gone | `docs/architecture.md:64`: "creates a `Version` resource for every OS/architecture combination" |
| `claim_platform` | the lookup of a provider Version ignores os and arch, so with nothing else going on a client is served another platform's binary, with checksums that agree | `docs/reference/api.md:97`: metadata "for a specific provider binary" |

The model shows more, on which no run is spent:

- A Provider controller whose cache of Versions lags when it lists them for removal
  misses one it created a moment ago, and nothing makes it look again: the orphan
  stays (`docs/architecture.md:70` has it garbage-collected).  It is the mirror image
  of `claim_combinations`, and `VersionsFollowProvider` is checked where no user
  edits a Provider while that happens.
- `versionHistoryLimit` prunes nothing: it trims a copy of the list that is read
  again before it is used (Module controller 231-268).  `docs/guides/cicd.md:138` has
  older versions "automatically pruned when the limit is exceeded",
  `docs/architecture.md:60` says the controller "Enforces `versionHistoryLimit`",
  `api/v1alpha1/types.go:102` calls it the "number of versions to keep stored".  A
  Provider's limit (`docs/architecture.md:71`) is not read at all.
  `VersionsFollowModule` therefore promises something of the versions the limit keeps
  (`Kept`) and of those not listed, and nothing of listed versions beyond the limit;
  that `ListedIsPublished` has these published as well is what the code does, not what
  the documents say.
- A history limit larger than the list makes `versionsToKeep` panic, an empty list
  `getLatestVersion`: the pass never comes to the removals (`DoomedModule`).
- A Depot without a polling interval looks at upstream again after every resync and
  restart (`docs/guides/depot.md:65`: "reconciles once and does not poll").
- The update of a Version is retried on a conflict with the `resourceVersion` it met
  the conflict with (Module controller 198-209): the retries are in vain, the pass
  that comes after them succeeds.

- GCS and Azure dereference the same nil; GCS also dereferences
  `soi.ArchiveChecksum`, which no caller sets, so nothing is ever put there
  (`CanPut`).
- Azure looks at the container's properties, finds that it exists and has no
  checksum, and never uploads a moved tag again, while `status.checksum` follows
  the tag.  `QuiescentConsistent` is stated, proved and checked for the other
  back ends.
- A provider's file name is drawn before the upload and persisted after it: a
  failure in between draws another, and the first object is left behind.
- The server builds the URL of an object in S3 from the configured key alone, and
  of one in Azure without the directory the Version controller put in the blob's
  name: neither leads to the object (`Addressable`).
- The server compares the checksum of an object, then opens it again to send it.
  On the file system an upload in place between the two is sent unchecked;
  `docs/reference/api.md:50` says the endpoints "validate the SHA256 checksum and
  stream the module archive".
  A module's client does not notice, a provider's does (`ScannedDownloads`).
- The Module controller's rewrite takes finalizer and storage config from a
  Version; deleted before the next pass it leaves its artifact behind.

## 4. What is proved

Assumptions: those named in `VersionController` (kinds are disjoint, the options
have their types, markers are no data).  None bounds the number of Versions,
names, archives, releases or workers, and all four back ends are covered.

| Theorem | Module | Statement |
|---|---|---|
| `Invariant` | `VersionSafetyProofs` | `Spec => []IInv` |
| `TypeCorrect` | `VersionSafetyProofs` | `Spec => []TypeOK` |
| `Consistent` | `VersionSafetyProofs` | `Backend # "azure"`: `Spec => []QuiescentConsistent` |
| `DisjointNames` | `VersionSafetyProofs` | `Spec => []NamesDisjoint` |
| `KeepsLiveArtifacts` | `VersionScanProofs` | `Spec => LiveArtifactKept` |
| `HoldsSemaphores` | `VersionScanProofs` | `Spec => []SemaphoresHeld` |
| `GatesScans` | `VersionScanProofs` | `Spec => []ScanGate` |
| `RestsWhenDone` | `VersionRestProofs` | `Spec => []RestsOnlyWhenDone` |
| `RestsPublished` | `VersionRestProofs` | `Backend # "azure"`: `Spec => []PublishedAtRest` |
| `RemovesArtifactFirst` | `VersionRestProofs` | `Spec => ArtifactGoesFirst` |
| `KeepsImmutable` | `VersionRestProofs` | `Spec => ImmutableOnceSeen` |
| `ConversationsTyped` | `RegistryProofs` | `RegistrySpec => []RegistryTypeOK` |
| `ServesScanned` | `RegistryProofs` | `RegistrySpec => []ScannedDownloads` |
| `UndisturbedIsServed` | `RegistryProofs` | `RegistrySpec => []UndisturbedDownloads` |
| `ImplementsAtomicDownload` | `DownloadProofs` | `RegistrySpec => DownloadsAreAtomic` |
| `ModuleTypeCorrect` | `ModuleProofs` | `ModuleSpec => []ModuleTypeOK` |
| `ReportsLatest` | `ModuleProofs` | `ModuleSpec => []LatestAtRest` |
| `RecordsListed` | `ModuleProofs` | `ModuleSpec => []NamesAtRest` |
| `RemovesOrphansOnly` | `ModuleProofs` | `ModuleSpec => RemovesUnlisted` |
| `ModuleControllerIsAnOwner` | `ModuleProofs` | `ModuleSpec => Spec` |
| `DisjointNamesUnderModule` | `ModuleProofs` | `ModuleSpec => []NamesDisjoint` |
| `ProviderTypeCorrect` | `ProviderProofs` | `ProviderSpec => []ProviderTypeOK` |
| `ReportsRefs` | `ProviderProofs` | `ProviderSpec => []RefsAtRest` |
| `RemovesStaleOnly` | `ProviderProofs` | `ProviderSpec => RemovesUnwanted` |
| `ProviderControllerIsAnOwner` | `ProviderProofs` | `ProviderSpec => Spec` |
| `DepotTypeCorrect` | `ProviderProofs` | `DepotSpec => []DepotTypeOK` |
| `ReportsRefsBesideDepot` | `ProviderProofs` | `DepotSpec => []RefsAtRest` |
| `PipelineIsAnOwner` | `ProviderProofs` | `DepotSpec => Spec` |
| `DisjointNamesInPipeline` | `ProviderProofs` | `DepotSpec => []NamesDisjoint` |
| `PipelineKeepsVersions` | `ProviderProofs` | `DepotSpec =>` `[]IInv`, `[]RestsOnlyWhenDone`, `[]SemaphoresHeld`, `[]ScanGate`, `LiveArtifactKept`, `ArtifactGoesFirst`, `ImmutableOnceSeen` |
| `ConsistentInPipeline` | `ProviderProofs` | `Backend # "azure"`: `DepotSpec => []QuiescentConsistent /\ []PublishedAtRest` |
| `ModuleReportsInPipeline` | `ProviderProofs` | `DepotSpec => []LatestAtRest /\ []NamesAtRest` |
| `RemovalsInPipeline` | `ProviderProofs` | `DepotSpec => RemovesUnlisted /\ RemovesUnwanted` |
| `DepotReportsManaged` | `ProviderProofs` | `DepotSpec => []ManagedAtRest /\ RecordsManaged` |
| `DepotListsAdmitted` | `ProviderProofs` | `DepotSpec => ListsAdmitted` |

`PublishedAtRest`, `ManagedAtRest`, `RecordsManaged` and `ListsAdmitted` are stated where they are
proved, and no run lists them: the first follows from `CourseInv` and
`QuiescentConsistent`, the others are about the Depot controller alone, whose share
in the pipeline `ListsFollowDepot` checks end to end.

**The argument.**  `QuiescentConsistent` speaks of a controller at rest, so it
says nothing about the step before.  `IInv` adds what the code relies on
between two steps:

- `CacheCurrent`: without an event under way the copy is the resource.
- `Awake`: a run that works on an outdated snapshot is not the last one; its
  key is queued or will be.  This is why it may write what it likes.
- `SnapshotCurrent`, `NamePersisted`: a run that *may* be the last one works on
  the resource as it is, and the resource names the file this run stored.
- `Uploaded`: past the storage calls the storage holds this run's archive, or
  the one the snapshot's checksum stands for.  `Verify` compares with the
  latter.  When they differ, the final write changes the checksum, hence
  emits an event, and the controller is not at rest.
- `RemovesDead`, `DeadStaysDead`: a deletion, and a copy that says "gone", is
  never about a Version that is served; with them goes `LiveArtifactKept`.
- `NamesDisjoint`: a step for `v` touches `v`'s own state and storage under
  `v`'s names, so the invariant of another Version cannot be disturbed.  It
  holds because names are drawn only where nothing refers to them (`Unused`),
  and only copied within the state of one Version.

The proof takes one lemma per action for the types, shows that names move only
within a Version or are new, that a step for one Version leaves every other
one's state and storage alone, and then preserves each part for the Version the
step is about.  `ScanGate` and `SemaphoresHeld` have inductive invariants of
their own in `VersionScanProofs`: for the gate, past its scan a run carries an
archive that is not flagged, and no checksum ever recorded is one of a flagged
archive, synced or not.  The second half is what the server needs: it does not
look at `status.synced`.

**Done, not just quiet.**  `IInv` says what holds of a Version the controller calls
synced; it does not say that it calls one so.  `RestsOnlyWhenDone` does: where nothing
will make the controller look again, the Version is synced and not in
termination, or has two references.  It could fail at every `return` of `Reconcile`
that carries no error.  `CourseInv` goes through them: a run past the start works on a
live snapshot with its finalizer (`SyncsLive`), so one that ends early without an
error ends because somebody wrote the Version, and that wakes it up; the dual-config
guard turns away those it should and no others (`DualTurnedAway`).  Together
with `QuiescentConsistent` this is `PublishedAtRest`: the safety half of "every
Version is published", for any number of Versions and any interleaving, and without
fairness.

`ImmutableOnceSeen` is the promise the code does keep where `ImmutableChecksum`, what the
document says, fails.  It speaks of a checksum in the cache and in the snapshot of
the run under way, and `ArchiveCompared` is what makes it inductive: past the
immutable check the archive is the one the snapshot's checksum stands for, so a
write that goes through repeats it.  `ArtifactGoesFirst` needs `ObjectGone`: nothing
puts an object back between its removal and that of the finalizer, because names are
not shared and the run that removes is the only one of its Version.

**The server.**  Its steps change nothing of the Version controller's state
(`ServerOnlyReads`: `RegistrySpec => Spec`), so every invariant above holds beside
it.  `SafeInv` adds that what a conversation carries was told by some Version,
hence is not flagged, and that what a provider's client accepted is what it was
promised.  For `UndisturbedDownloads` the five answers have to agree with each other
and with the storage.  `CalmInv` says that each thing a calm conversation carries is
what the Version it comes to has *now*; it is inductive because at rest nothing
changes a Version or the storage before somebody works on it again
(`RestIsStill`), and answers are never errors because a Version at rest has its
file, its checksum, its object (`QuiescentConsistent`) and its storage config.
The last is `ConfigInv` (`VersionRestProofs`): the Module controller's rewrite takes
the config away, and only because a run re-reads a Version that changed under it
does the controller not come to rest without one.

Two assumptions are the server's own: the list of Versions has an order
(`RankIsOrder`), and no Version has both references (`NoDual`).

**Atomic downloads.**  `RegistryRefinement` maps five requests to one read: the
moment of choice is the metadata, everything after it insists on the promised
checksum.  The invariant of `RegistryProofs` supplies what each step needs: the
promise was recorded at some Version of the release at that moment, the bytes
accepted are those promised, and (`GateInv`) what is recorded is clean.

**The owners.**  A controller at rest reports what its object asks for although a
pass mixes several reads.  For the Module, `PassInv` says why: until the latest
version is written, the list in hand is that of the cache, or the Module is queued
again; the cache shows the Module, or an event is on its way; and the write goes
through only with a current copy.  For the Provider an event of the status queues
nothing, so `ProviderInv` adds that such an event leaves the spec alone.  Both need
that the cache of Versions errs only where an event is on its way (`OwnersTypeOK`).
`PassInv` is also what makes a step of the Module controller a step of the owner:
a pass creates only what it has drawn a name for.  For the Depot's specification, each
step is one of the Module controller's, of the Provider controller's, of the
Version controller's, or leaves all three alone (`DepotMoves`), and the invariants of
the two owners hold side by side because all they share is `OwnersTypeOK`.  From the
refinement every theorem about `VersionController` carries over
(`PipelineKeepsVersions`, `ConsistentInPipeline`).

**Names and removals.**  A status write of the Module controller replaces the whole
table of file names with what the pass has noted, and the pass may begin with a list,
lose it to a conflict and end anywhere.  `NotesInv` says what keeps the table right:
the versions noted and those still to do make up the list of the pass (`ListNoted`),
every Version there is has a name, so that a rewrite notes one (`HandsNamed`, which
needs `IInv`: nobody takes a name away), and what the removal goes by is the list of
the Module or the Module is queued again (`OrphansUnlisted`).  The Provider controller
goes by the first read of its pass; `ProviderCurrent` says that this is the spec
unless the Provider is queued.  Both invariants are kept by the other controllers:
what they do to a Version neither names nor unnames it (`ProviderKeepsNames`).

**The Depot controller.**  `DepotCurrent`: a pass works on the entries its cache shows,
or the Depot is queued; the cache shows the Depot, or its event is on the way; what
a pass found is part of the entry it looked for.  So a list it overwrites, minutes
after it read the entry, gets what the entry admits now, or another pass will come.
The same holds of the status it writes.  `ManagedAtRest` says so of a Depot at rest,
which one with a polling interval never is: each pass queues the next.  So
`RecordsManaged` says it of the write itself.

One assumption is the Module controller's own: versions have a place in an order, and every
list has a newest one (`SomeVersionIsNewest`).

**Only model-checked:** the liveness properties, which need fairness and `ENABLED`,
and those the prover does not handle: `EventuallyPublished`, `DeletionCompletes`,
`Settles`, `DualSettles`, `EventuallyRestored`, `VersionsFollowModule`,
`ListedIsPublished`, `ListsFollowDepot`, `ReleasedIsPublished`,
`VersionsFollowProvider`.  And the seven claims, which are violated.  Every safety
property of a passing run is a theorem.  No module of the project declares a
`RECURSIVE` operator.

## 5. Plan

In this order; the core came first because everything else exists to feed it or
to read what it wrote.

1. **Done:** `ArtifactStore`, `VersionController` with its invariants, claims,
   liveness and proofs.
2. **Done:** `RegistryServer`, composed with the Version controller, with its runs
   and proofs, and `AtomicDownload`, which it implements.
3. **Done:** `ModuleController`, `ProviderController` and `DepotController`, composed
   with the Version controller and with each other; they implement the owner it
   assumes.
4. **Done:** for each property of a passing run that is not about liveness, a theorem;
   the theorems about single controllers carried over to the pipeline.
5. Open, proofs: the registry server beside the pipeline (its theorems hold beside
   every `Spec` step, and the pipeline takes only such steps); the safety halves of
   the pipeline's liveness properties, as `PublishedAtRest` is that of
   `EventuallyPublished`.
6. Open, model: several Modules and Providers at once, with `moduleConfig.name` different
   from the object's name (creation labels by the one, removal selects by the
   other); the deletion of a Module, a Provider or a Depot, which the garbage collector
   of the cluster carries out; a change of the storage configuration; two replicas
   of a controller without leader election.

## 6. Not modelled

Generated code and stringers, the `main` functions (what their flags switch is a
CONSTANT: `Workers`, `Scanning`, `ScanModules`, `Flagged`; leader election is left
out), the Helm chart, authentication (GitHub App secrets, bearer tokens, RBAC), GPG
signing, the parsing of trivy's reports and of archives (one outcome each), logging.
Of the server: service discovery, the signing keys, and the check that a
`Provider` resource exists for a Version that is served.  Of the Depot: what an entry
hands down besides the list, a listing that changes between two of its pages, and
the names under which a provider is looked for.  Of `pkg/utils`: the functions
nobody calls; the others make names, which are model values here.  Names that are
spelled in two ways ("v1.0.0" and "1.0.0") do not occur.
