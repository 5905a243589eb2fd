------------------------- MODULE VersionController -------------------------
(***************************************************************************)
(* The Version controller: services/version/internal/controller.           *)
(*                                                                         *)
(* One Version resource stands for one published archive: a module release *)
(* or a provider binary for one os/arch.  Its controller downloads the     *)
(* archive, stores it under spec.fileName, scans it, and records           *)
(* status.checksum and status.synced; on deletion it removes the archive   *)
(* and then its finalizer.                                                 *)
(*                                                                         *)
(* What makes it hard is that none of this is atomic.  A reconcile reads   *)
(* the resource once, from an informer cache that may lag the API server,  *)
(* and acts on that snapshot for minutes, while the resource's owner (the  *)
(* Module or the Provider controller) rewrites it, deletes it, or replaces *)
(* its file name, other workers run, an upstream tag moves, and the        *)
(* process may crash.  Writes are guarded by resource versions only.       *)
(*                                                                         *)
(* Not in the model: the text of status.syncStatus, the findings of a scan *)
(* beyond "blocked or not", the extension of a file name, requeue delays.  *)
(***************************************************************************)
EXTENDS Integers, FiniteSets

CONSTANTS
    Modules,         \* Version resources with spec.type = Module, of one Module
    Providers,       \* Version resources with spec.type = Provider, of one Provider
    Releases,        \* provider versions (5.80.0, ...)
    Release,         \* Release[v]: the provider version of v, whatever its os/arch
    Contents,        \* archives upstream may serve, identified with their SHA-256
    ErrorPage,       \* the body of a "404 not found" answer
    FileNames,       \* the names the UUID generator can still draw
    Dual,            \* Versions a user created with both config references set
    Immutable,       \* module Versions with moduleConfig.immutable
    Backend,         \* the storage back end configured for all of them
    Workers,         \* MaxConcurrentReconciles
    Scanning,        \* --enable-scanning
    ScanModules,     \* --scan-modules
    Flagged,         \* archives with findings at a blocking severity
    FlaggedSources,  \* releases whose go.mod has findings at a blocking severity
    ScansMayFail,    \* trivy, go.mod downloads and Provider updates may fail
    None, Absent, Torn

Store == INSTANCE ArtifactStore

Versions == Modules \cup Providers
Kind(v) == IF v \in Modules THEN "module" ELSE "provider"

Archives == Contents \cup {ErrorPage}

ASSUME KindsAreDisjoint == Modules \cap Providers = {}
ASSUME ReleaseType == Release \in [Providers -> Releases]
ASSUME BackendType == Backend \in Store!Backends
ASSUME OptionsType ==
    /\ Dual \subseteq Versions
    /\ Immutable \subseteq Modules
    /\ Flagged \subseteq Contents
    /\ FlaggedSources \subseteq Releases
    /\ Scanning \in BOOLEAN /\ ScanModules \in BOOLEAN /\ ScansMayFail \in BOOLEAN
ASSUME MarkersAreDistinct ==
    /\ None \notin Archives \cup FileNames \cup Releases \cup Versions \cup {Absent, Torn}
    /\ Absent \notin Archives \cup {Torn}
    /\ Torn \notin Archives
    /\ ErrorPage \notin Contents

VARIABLES
    api,       \* api[v]: the resource at the API server
    cache,     \* cache[v]: the informer's copy, which every Get returns
    news,      \* the Versions with a watch event on its way to the cache
    queued,    \* the Versions in the work queue, or marked to be requeued
    run,       \* run[v]: the reconcile of v under way
    fresh,     \* the Versions whose run has a snapshot with the current resource version
    ref,       \* ref[v]: the file name in Module.status.moduleVersionRefs
    seen,      \* seen[v]: the same in this controller's copy of the Module
    hand,      \* hand[v]: what the Module controller's run holds for v
    upstream,  \* upstream[v]: what GitHub or the provider registry serves
    store,     \* store[f]: what the back end holds under a file name
    dlSem,     \* the Version holding downloadSem, or None
    scanSem,   \* the Version holding scanSem, or None
    srcScan    \* Provider.status.sourceScan.version, or None

objects == <<api, cache, news>>
outside == <<ref, seen, hand, upstream>>
sems == <<dlSem, scanSem>>
vars == <<api, cache, news, queued, run, fresh, ref, seen, hand, upstream, store, dlSem, scanSem,
          srcScan>>

----------------------------------------------------------------------------
(***************************************************************************)
(* The state of one Version resource.  "deleting": metadata carries a      *)
(* deletionTimestamp.  cfg: the config reference names a storage backend   *)
(* and, for a module, the repository; the Module controller writes one     *)
(* with only the module's name in it.                                      *)
(***************************************************************************)
VersionObject ==
    [st     : {"absent", "live", "deleting"},
     fin    : BOOLEAN,                   \* the controller's finalizer
     file   : FileNames \cup {None},     \* spec.fileName
     cfg    : BOOLEAN,
     sum    : Archives \cup {None},      \* status.checksum
     synced : BOOLEAN]                   \* status.synced

NoVersion == [st |-> "absent", fin |-> FALSE, file |-> None, cfg |-> FALSE,
              sum |-> None, synced |-> FALSE]

NewVersion(f, cfg) == [NoVersion EXCEPT !.st = "live", !.file = f, !.cfg = cfg]

\* A terminating object whose last finalizer is gone does not exist any more.
Settle(o) == IF o.st = "deleting" /\ ~o.fin THEN NoVersion ELSE o

\* getVersionFilePath can build the object key of this Version.
HasPath(o) == o.cfg /\ o.file # None

(***************************************************************************)
(* A reconcile under way: where it is, the snapshot it read, and the       *)
(* in-memory edits of spec.fileName and of the config reference it will    *)
(* persist.                                                                *)
(***************************************************************************)
Uploading == {"putFirst", "writeFirst", "putAgain", "writeAgain"}
Published == {"persist", "scan", "scanning", "source", "gomod", "sourcing", "finish"}
Removing == {"remove", "unfinalize"}
PCs == {"idle", "prepare", "rejectDual", "fetch", "fastPath", "acquire", "download", "verify"}
          \cup Uploading \cup Published \cup Removing

Reconcile ==
    [pc      : PCs,
     snap    : VersionObject,
     file    : FileNames \cup {None},
     cfg     : BOOLEAN,
     archive : Archives \cup {None},
     scanned : BOOLEAN]                  \* a scan result waits to be recorded

Idle == [pc |-> "idle", snap |-> NoVersion, file |-> None, cfg |-> FALSE,
         archive |-> None, scanned |-> FALSE]

\* A name in the Module controller's memory, and whether it was drawn for a
\* Version still to be created.
Held == [name : FileNames \cup {None}, drawn : BOOLEAN]
Nothing == [name |-> None, drawn |-> FALSE]

\* The names a Version, or anyone acting for it, refers to.
NamesOf(v) ==
    {api[v].file, cache[v].file, ref[v], seen[v], hand[v].name, run[v].file, run[v].snap.file}
       \ {None}

\* Mutant of Unused: names that need not be new, as one derived from the version.
AnyName == FileNames

\* uuid.NewV7 draws a name nothing was ever stored or referred to under.
Unused == {f \in FileNames : store[f] = Absent /\ \A v \in Versions : f \notin NamesOf(v)}

----------------------------------------------------------------------------
(***************************************************************************)
(* Writes.  The API server emits an event, and a new resource version,     *)
(* only when the object changes.                                           *)
(***************************************************************************)
Write(v, o) ==
    /\ api' = [api EXCEPT ![v] = o]
    /\ news' = IF o = api[v] THEN news ELSE news \cup {v}

\* A run of v whose snapshot predates the write will meet a conflict.
Outdate(v, o) == fresh' = IF o = api[v] THEN fresh ELSE fresh \ {v}

Goto(v, pc) == run' = [run EXCEPT ![v].pc = pc]

\* The worker is done with v.
Close(v) ==
    /\ run' = [run EXCEPT ![v] = Idle]
    /\ fresh' = fresh \ {v}

\* The worker returns an error, or RequeueAfter.
Requeue(v) == queued' = queued \cup {v}

\* What a status write through the run's own snapshot leaves: a conflict, which
\* the code ignores, unless the snapshot is current.
MarkUnsynced(v) ==
    IF v \in fresh THEN Write(v, [api[v] EXCEPT !.synced = FALSE]) ELSE UNCHANGED <<api, news>>

----------------------------------------------------------------------------
(***************************************************************************)
(* A worker takes v from the queue and reads it from the cache.  No two    *)
(* workers hold the same key.                                              *)
(***************************************************************************)
Busy == {v \in Versions : run[v].pc # "idle"}

MayStart(v) == v \in queued /\ run[v].pc = "idle" /\ Cardinality(Busy) < Workers

\* A run starts with a snapshot o, and with the name and the config it carries.
Started(o, pc) ==
    [pc |-> pc, snap |-> o, file |-> o.file, cfg |-> o.cfg,
     archive |-> None, scanned |-> FALSE]

Begin(v, pc) ==
    /\ run' = [run EXCEPT ![v] = Started(cache[v], pc)]
    /\ fresh' = IF v \in news THEN fresh \ {v} ELSE fresh \cup {v}
    /\ queued' = queued \ {v}
    /\ UNCHANGED <<objects, outside, store, sems, srcScan>>

\* The resource is gone, or terminating without our finalizer: nothing to do.
StartGone(v) ==
    /\ MayStart(v)
    /\ cache[v].st = "absent" \/ (cache[v].st = "deleting" /\ ~cache[v].fin)
    /\ queued' = queued \ {v}
    /\ UNCHANGED <<objects, run, fresh, outside, store, sems, srcScan>>

\* The first pass over a Version only adds the finalizer and comes back.  With
\* a stale copy the update is a conflict and the pass has no effect.
AddFinalizer(v) ==
    /\ MayStart(v)
    /\ cache[v].st = "live" /\ ~cache[v].fin
    /\ v \notin news
    /\ Write(v, [api[v] EXCEPT !.fin = TRUE])
    /\ UNCHANGED <<cache, queued, run, fresh, outside, store, sems, srcScan>>

\* Mutant of StartDelete: a missing object key is an error.
StartDeleteWithPath(v) ==
    /\ MayStart(v)
    /\ cache[v].st = "deleting" /\ cache[v].fin
    /\ HasPath(cache[v])
    /\ Begin(v, "remove")

\* Another: the finalizer goes first.
StartDeleteWithFinalizer(v) ==
    /\ MayStart(v)
    /\ cache[v].st = "deleting" /\ cache[v].fin
    /\ Begin(v, "unfinalize")

\* reconcileDeletion skips the storage when no object key can be built.
StartDelete(v) ==
    /\ MayStart(v)
    /\ cache[v].st = "deleting" /\ cache[v].fin
    /\ Begin(v, IF HasPath(cache[v]) THEN "remove" ELSE "unfinalize")

StartSync(v) ==
    /\ MayStart(v)
    /\ cache[v].st = "live" /\ cache[v].fin
    /\ Begin(v, "prepare")

(***************************************************************************)
(* prepareModuleVersion takes the file name and the whole config from the  *)
(* Module when the status it sees there has a ref for this version;        *)
(* otherwise it works on what the Version carries and draws a name if      *)
(* there is none.                                                          *)
(* prepareProviderVersion only validates.                                  *)
(***************************************************************************)
PreparedNames(v) ==
    IF v \in Modules /\ seen[v] # None THEN {seen[v]}
    ELSE IF v \in Providers \/ run[v].snap.file # None THEN {run[v].snap.file}
    ELSE Unused

\* Mutant of Prepare: the name is taken from the Module, its config is not.
PrepareNameOnly(v) ==
    /\ run[v].pc = "prepare"
    /\ \E f \in PreparedNames(v) :
          run' = [run EXCEPT
                    ![v].file = f,
                    ![v].pc = IF v \in Dual THEN "rejectDual"
                              ELSE IF v \in Modules THEN "fetch" ELSE "fastPath"]
    /\ UNCHANGED <<objects, queued, fresh, outside, store, sems, srcScan>>

Prepare(v) ==
    /\ run[v].pc = "prepare"
    /\ \E f \in PreparedNames(v) :
          run' = [run EXCEPT
                    ![v].file = f,
                    ![v].cfg = IF v \in Modules /\ seen[v] # None THEN TRUE ELSE @,
                    ![v].pc = IF v \in Dual THEN "rejectDual"
                              ELSE IF v \in Modules THEN "fetch" ELSE "fastPath"]
    /\ UNCHANGED <<objects, queued, fresh, outside, store, sems, srcScan>>

\* Mutant of RejectDual: the guard returns an error, so the key is retried.
RejectDualAgain(v) ==
    /\ run[v].pc = "rejectDual"
    /\ v \in fresh
    /\ Write(v, [api[v] EXCEPT !.synced = FALSE])
    /\ Close(v)
    /\ Requeue(v)
    /\ UNCHANGED <<cache, outside, store, sems, srcScan>>

\* The dual-config guard writes a terminal status and does not requeue.
RejectDual(v) ==
    /\ run[v].pc = "rejectDual"
    /\ v \in fresh
    /\ Write(v, [api[v] EXCEPT !.synced = FALSE])
    /\ Close(v)
    /\ UNCHANGED <<cache, queued, outside, store, sems, srcScan>>

(***************************************************************************)
(* Modules: download the tag's archive.  When neither "v1.2.3" nor "1.2.3" *)
(* exists the body of the second answer is kept, its status unread.        *)
(***************************************************************************)
Download(v) == IF upstream[v] # None THEN upstream[v] ELSE ErrorPage

\* An immutable Version refuses an archive other than the one it recorded.
Replaced(v, archive) ==
    v \in Immutable /\ run[v].snap.sum # None /\ archive # run[v].snap.sum

\* A Version that has recorded no checksum is uploaded without a look at the
\* storage.
AfterFetch(v) == IF run[v].snap.sum = None THEN "putFirst" ELSE "verify"

\* Mutant of FetchModule: the archive is taken as it comes.
FetchAnything(v) ==
    /\ run[v].pc = "fetch"
    /\ run[v].cfg
    /\ run' = [run EXCEPT ![v].archive = Download(v), ![v].pc = AfterFetch(v)]
    /\ UNCHANGED <<objects, queued, fresh, outside, store, sems, srcScan>>

FetchModule(v) ==
    /\ run[v].pc = "fetch"
    /\ run[v].cfg
    /\ ~Replaced(v, Download(v))
    /\ run' = [run EXCEPT ![v].archive = Download(v), ![v].pc = AfterFetch(v)]
    /\ UNCHANGED <<objects, queued, fresh, outside, store, sems, srcScan>>

RejectReplaced(v) ==
    /\ run[v].pc = "fetch"
    /\ run[v].cfg
    /\ Replaced(v, Download(v))
    /\ MarkUnsynced(v)
    /\ Close(v)
    /\ Requeue(v)
    /\ UNCHANGED <<cache, outside, store, sems, srcScan>>

(***************************************************************************)
(* Providers: nothing to do when the artifact is where the status says it  *)
(* is; otherwise one download at a time.                                   *)
(***************************************************************************)
AlreadyStored(v) ==
    LET s == run[v].snap
    IN  /\ s.sum # None /\ s.synced /\ HasPath(s)
        /\ Store!Found(s.sum) \in Store!GetObjectChecksum(Backend, Kind(v), store[s.file])

FastPathHit(v) ==
    /\ run[v].pc = "fastPath"
    /\ AlreadyStored(v)
    /\ Close(v)
    /\ UNCHANGED <<objects, queued, outside, store, sems, srcScan>>

FastPathMiss(v) ==
    /\ run[v].pc = "fastPath"
    /\ ~AlreadyStored(v)
    /\ Goto(v, "acquire")
    /\ UNCHANGED <<objects, queued, fresh, outside, store, sems, srcScan>>

\* Mutant of AcquireDownload: the channel has room for everyone.
AcquireAnyway(v) ==
    /\ run[v].pc = "acquire"
    /\ dlSem' = v
    /\ Goto(v, "download")
    /\ UNCHANGED <<objects, queued, fresh, outside, store, scanSem, srcScan>>

AcquireDownload(v) ==
    /\ run[v].pc = "acquire"
    /\ dlSem = None
    /\ dlSem' = v
    /\ Goto(v, "download")
    /\ UNCHANGED <<objects, queued, fresh, outside, store, scanSem, srcScan>>

\* Mutants of DownloadProvider: the semaphore is not released after the
\* download, a download that failed is used.
DownloadHolding(v) ==
    /\ run[v].pc = "download"
    /\ upstream[v] # None
    /\ run[v].cfg
    /\ \E f \in (IF run[v].file = None THEN Unused ELSE {run[v].file}) :
          run' = [run EXCEPT ![v].file = f, ![v].archive = upstream[v], ![v].pc = AfterFetch(v)]
    /\ UNCHANGED <<objects, queued, fresh, outside, store, sems, srcScan>>

DownloadUnchecked(v) ==
    /\ run[v].pc = "download"
    /\ run[v].cfg
    /\ \E f \in (IF run[v].file = None THEN Unused ELSE {run[v].file}) :
          run' = [run EXCEPT ![v].file = f, ![v].archive = upstream[v], ![v].pc = AfterFetch(v)]
    /\ dlSem' = None
    /\ UNCHANGED <<objects, queued, fresh, outside, store, scanSem, srcScan>>

\* The registry's shasum must match, so there is no error page here.  A name is
\* drawn when the snapshot has none.
DownloadProvider(v) ==
    /\ run[v].pc = "download"
    /\ upstream[v] # None
    /\ run[v].cfg
    /\ \E f \in (IF run[v].file = None THEN Unused ELSE {run[v].file}) :
          run' = [run EXCEPT ![v].file = f, ![v].archive = upstream[v], ![v].pc = AfterFetch(v)]
    /\ dlSem' = None
    /\ UNCHANGED <<objects, queued, fresh, outside, store, scanSem, srcScan>>

----------------------------------------------------------------------------
(***************************************************************************)
(* Storing the archive.                                                    *)
(***************************************************************************)
\* Mutants of NeedsUpload: no look at the checksum, no look at a missing file.
UploadIfMissing(v, got) == ~got.exists
UploadIfDifferent(v, got) == got.exists /\ got.sum # run[v].snap.sum

NeedsUpload(v, got) ==
    ~got.exists \/ (got.sum # None /\ got.sum # run[v].snap.sum)

Verify(v) ==
    /\ run[v].pc = "verify"
    /\ \E got \in Store!GetObjectChecksum(Backend, Kind(v), store[run[v].file]) :
          Goto(v, IF NeedsUpload(v, got) THEN "putAgain" ELSE "persist")
    /\ UNCHANGED <<objects, queued, fresh, outside, store, sems, srcScan>>

\* A back end that writes in place destroys the old archive first.
BeginPut(v) ==
    /\ run[v].pc \in {"putFirst", "putAgain"}
    /\ Store!CanPut(Backend, Kind(v)) /\ Store!PutTruncates(Backend)
    /\ store' = [store EXCEPT ![run[v].file] = Torn]
    /\ Goto(v, IF run[v].pc = "putFirst" THEN "writeFirst" ELSE "writeAgain")
    /\ UNCHANGED <<objects, queued, fresh, outside, sems, srcScan>>

\* PutObject never sets FileExists, so the first upload is always followed by
\* a second.
EndPut(v) ==
    /\ run[v].pc \in (IF Store!PutTruncates(Backend) THEN {"writeFirst", "writeAgain"}
                                                     ELSE {"putFirst", "putAgain"})
    /\ Store!CanPut(Backend, Kind(v))
    /\ store' = [store EXCEPT ![run[v].file] = run[v].archive]
    /\ Goto(v, IF run[v].pc \in {"writeFirst", "putFirst"} THEN "putAgain" ELSE "persist")
    /\ UNCHANGED <<objects, queued, fresh, outside, sems, srcScan>>

\* Only after the upload is the file name written to the resource.  The write
\* succeeds once the cache has caught up with the API server.
Scanned(v) == Scanning /\ (v \in Providers \/ ScanModules)

\* Mutant of WithSpec: the drawn name is not persisted.
WithoutName(o, r) == [o EXCEPT !.cfg = r.cfg]

WithSpec(o, r) == [o EXCEPT !.file = r.file, !.cfg = r.cfg]

Persist(v) ==
    /\ run[v].pc = "persist"
    /\ api[v].st # "absent" /\ v \notin news
    /\ Write(v, WithSpec(api[v], run[v]))
    /\ Outdate(v, WithSpec(api[v], run[v]))
    /\ Goto(v, IF Scanned(v) THEN "scan" ELSE "finish")
    /\ UNCHANGED <<cache, queued, outside, store, sems, srcScan>>

----------------------------------------------------------------------------
(***************************************************************************)
(* Scanning.  One trivy process at a time.                                 *)
(***************************************************************************)
BeginScan(v) ==
    /\ run[v].pc = "scan"
    /\ scanSem = None
    /\ scanSem' = v
    /\ Goto(v, "scanning")
    /\ UNCHANGED <<objects, queued, fresh, outside, store, dlSem, srcScan>>

AfterScan(v) == IF v \in Providers THEN "source" ELSE "finish"

EndScan(v) ==
    /\ run[v].pc = "scanning"
    /\ scanSem' = None
    /\ run[v].archive \notin Flagged \cup {ErrorPage}
    /\ run' = [run EXCEPT ![v].scanned = TRUE, ![v].pc = AfterScan(v)]
    /\ UNCHANGED <<objects, queued, fresh, outside, store, dlSem, srcScan>>

\* A scan that fails is logged and the sync goes on.  An error page is no archive
\* that could be unpacked.
ScanFails(v) ==
    /\ run[v].pc = "scanning"
    /\ ScansMayFail \/ run[v].archive = ErrorPage
    /\ scanSem' = None
    /\ Goto(v, AfterScan(v))
    /\ UNCHANGED <<objects, queued, fresh, outside, store, dlSem, srcScan>>

\* Mutant of BlockScan: the status is written, the reconcile goes on.
BlockScanAndGoOn(v) ==
    /\ run[v].pc = "scanning"
    /\ run[v].archive \in Flagged
    /\ scanSem' = None
    /\ MarkUnsynced(v)
    /\ Goto(v, AfterScan(v))
    /\ UNCHANGED <<cache, queued, fresh, outside, store, dlSem, srcScan>>

BlockScan(v) ==
    /\ run[v].pc = "scanning"
    /\ run[v].archive \in Flagged
    /\ scanSem' = None
    /\ MarkUnsynced(v)
    /\ Close(v)
    /\ Requeue(v)
    /\ UNCHANGED <<cache, outside, store, dlSem, srcScan>>

\* The go.mod of a release is scanned by whichever os/arch comes first, unless the
\* Provider holds a scan of it already.  The look at the Provider and the scan are apart:
\* two that find none scan both, one after the other.
SourceCovered(v) == srcScan = Release[v]

MissSource(v) ==
    /\ run[v].pc = "source"
    /\ ~SourceCovered(v)
    /\ Goto(v, "gomod")
    /\ UNCHANGED <<objects, queued, fresh, outside, store, sems, srcScan>>

\* It is skipped too when the Provider cannot be read, or nothing be prepared for trivy.
SkipSource(v) ==
    /\ \/ run[v].pc = "source" /\ SourceCovered(v)
       \/ run[v].pc \in {"source", "gomod"} /\ ScansMayFail
    /\ Goto(v, "finish")
    /\ UNCHANGED <<objects, queued, fresh, outside, store, sems, srcScan>>

BeginSource(v) ==
    /\ run[v].pc = "gomod"
    /\ scanSem = None
    /\ scanSem' = v
    /\ Goto(v, "sourcing")
    /\ UNCHANGED <<objects, queued, fresh, outside, store, dlSem, srcScan>>

\* A go.mod that cannot be downloaded is recorded as a scan without findings.
NoGoMod(v) ==
    /\ ScansMayFail
    /\ run[v].pc = "gomod"
    /\ srcScan' = Release[v]
    /\ Goto(v, "finish")
    /\ UNCHANGED <<objects, queued, fresh, outside, store, sems>>

EndSource(v) ==
    /\ run[v].pc = "sourcing"
    /\ Release[v] \notin FlaggedSources
    /\ scanSem' = None
    /\ srcScan' = Release[v]
    /\ Goto(v, "finish")
    /\ UNCHANGED <<objects, queued, fresh, outside, store, dlSem>>

\* trivy fails, or the result cannot be written to the Provider.
SourceFails(v) ==
    /\ ScansMayFail
    /\ run[v].pc = "sourcing"
    /\ scanSem' = None
    /\ Goto(v, "finish")
    /\ UNCHANGED <<objects, queued, fresh, outside, store, dlSem, srcScan>>

\* The result is on the Provider before the policy is applied.
BlockSource(v) ==
    /\ run[v].pc = "sourcing"
    /\ Release[v] \in FlaggedSources
    /\ scanSem' = None
    /\ srcScan' = Release[v]
    /\ MarkUnsynced(v)
    /\ Close(v)
    /\ Requeue(v)
    /\ UNCHANGED <<cache, outside, store, dlSem>>

----------------------------------------------------------------------------
(***************************************************************************)
(* The final status write.  A scan result carries its own timestamp, so    *)
(* recording one always changes the object.                                *)
(***************************************************************************)
Recorded(o, r) == [o EXCEPT !.synced = TRUE, !.sum = r.archive]

\* Mutant of Finish: a write that stamps the object every time.
FinishStamped(v) ==
    /\ run[v].pc = "finish"
    /\ api[v].st # "absent" /\ v \notin news
    /\ api' = [api EXCEPT ![v] = Recorded(@, run[v])]
    /\ news' = news \cup {v}
    /\ Close(v)
    /\ UNCHANGED <<cache, queued, outside, store, sems, srcScan>>

Finish(v) ==
    /\ run[v].pc = "finish"
    /\ api[v].st # "absent" /\ v \notin news
    /\ api' = [api EXCEPT ![v] = Recorded(@, run[v])]
    /\ news' = IF run[v].scanned \/ Recorded(api[v], run[v]) # api[v]
                  THEN news \cup {v} ELSE news
    /\ Close(v)
    /\ UNCHANGED <<cache, queued, outside, store, sems, srcScan>>

(***************************************************************************)
(* Deletion: first the artifact the snapshot names, then the finalizer.    *)
(***************************************************************************)
RemoveArtifact(v) ==
    /\ run[v].pc = "remove"
    /\ Store!CanDelete(Backend, Kind(v), store[run[v].snap.file])
    /\ store' = [store EXCEPT ![run[v].snap.file] = Absent]
    /\ Goto(v, "unfinalize")
    /\ UNCHANGED <<objects, queued, fresh, outside, sems, srcScan>>

RemoveFinalizer(v) ==
    /\ run[v].pc = "unfinalize"
    /\ v \in fresh
    /\ Write(v, Settle([api[v] EXCEPT !.fin = FALSE]))
    /\ Close(v)
    /\ UNCHANGED <<cache, queued, outside, store, sems, srcScan>>

(***************************************************************************)
(* Any call may fail: the API server answers with a conflict or an error,  *)
(* the network or the storage breaks, a back end panics.  The worker       *)
(* returns an error and the key is retried with backoff.  A failed scan is *)
(* not an error (ScanFails, SourceFails).                                  *)
(***************************************************************************)
Released(sem, v) == IF sem = v THEN None ELSE sem

\* Mutant of Abort: the error is logged and forgotten.
AbortAndForget(v) ==
    /\ run[v].pc \notin {"idle", "scan", "scanning", "source", "gomod", "sourcing"}
    /\ Close(v)
    /\ dlSem' = Released(dlSem, v)
    /\ UNCHANGED <<objects, queued, outside, store, scanSem, srcScan>>

Abort(v) ==
    /\ run[v].pc \notin {"idle", "scan", "scanning", "source", "gomod", "sourcing"}
    /\ Close(v)
    /\ Requeue(v)
    /\ dlSem' = Released(dlSem, v)
    /\ UNCHANGED <<objects, outside, store, scanSem, srcScan>>

(***************************************************************************)
(* The calls that fail whatever the network does: with these a retry is    *)
(* certain, not just possible.                                             *)
(***************************************************************************)
Doomed(v) ==
    LET r == run[v]
        put == Store!CanPut(Backend, Kind(v))
    IN  \/ r.pc \in {"rejectDual", "unfinalize"} /\ v \notin fresh
        \/ r.pc \in {"fetch", "download"} /\ ~r.cfg
        \/ r.pc = "download" /\ upstream[v] = None
        \/ r.pc = "verify" /\ Store!GetObjectChecksum(Backend, Kind(v), store[r.file]) = {}
        \/ r.pc \in Uploading /\ ~put
        \/ r.pc \in {"persist", "finish"} /\ api[v].st = "absent"
        \/ r.pc = "remove" /\ ~Store!CanDelete(Backend, Kind(v), store[r.snap.file])

ControllerStep(v) ==
    \/ StartGone(v) \/ AddFinalizer(v) \/ StartDelete(v) \/ StartSync(v)
    \/ Prepare(v) \/ RejectDual(v)
    \/ FetchModule(v) \/ RejectReplaced(v)
    \/ FastPathHit(v) \/ FastPathMiss(v) \/ AcquireDownload(v) \/ DownloadProvider(v)
    \/ Verify(v) \/ BeginPut(v) \/ EndPut(v) \/ Persist(v)
    \/ BeginScan(v) \/ EndScan(v) \/ ScanFails(v) \/ BlockScan(v)
    \/ MissSource(v) \/ SkipSource(v) \/ BeginSource(v) \/ NoGoMod(v)
    \/ EndSource(v) \/ SourceFails(v) \/ BlockSource(v)
    \/ Finish(v) \/ RemoveArtifact(v) \/ RemoveFinalizer(v)

----------------------------------------------------------------------------
(***************************************************************************)
(* The machinery around the reconciler: the informer, the periodic resync  *)
(* and the restart of the process.                                         *)
(***************************************************************************)
Deliver(v) ==
    /\ v \in news
    /\ cache' = [cache EXCEPT ![v] = api[v]]
    /\ news' = news \ {v}
    /\ Requeue(v)
    /\ UNCHANGED <<api, run, fresh, outside, store, sems, srcScan>>

Resync(v) ==
    /\ cache[v].st # "absent"
    /\ Requeue(v)
    /\ UNCHANGED <<objects, run, fresh, outside, store, sems, srcScan>>

\* The informer for Modules is another one; its events queue no Version.
DeliverRefs ==
    /\ seen # ref
    /\ seen' = ref
    /\ UNCHANGED <<objects, queued, run, fresh, ref, hand, upstream, store, sems, srcScan>>

\* After a restart the informers list everything and the Versions are queued.
Crash ==
    /\ cache' = api
    /\ seen' = ref
    /\ news' = {}
    /\ queued' = {v \in Versions : api[v].st # "absent"}
    /\ run' = [v \in Versions |-> Idle]
    /\ fresh' = {}
    /\ dlSem' = None
    /\ scanSem' = None
    /\ UNCHANGED <<api, ref, hand, upstream, store, srcScan>>

(***************************************************************************)
(* The owners.  The Module controller, finding no Version, draws a name,   *)
(* records it in the Module's status and only then creates the Version; it *)
(* takes any failure of its Get, and a cache that lags its own Create, for *)
(* "not found", and then only the name is replaced.  Finding one, it       *)
(* overwrites it with a freshly built object: no finalizers, a config      *)
(* reference with only the name.  Every write of the status replaces all   *)
(* the refs with those of the Versions this run has come past.             *)
(* The Provider controller has no names of its own and writes a complete   *)
(* config.                                                                 *)
(***************************************************************************)
OwnerWrites(v, o) ==
    /\ Write(v, o)
    /\ Outdate(v, o)
    /\ UNCHANGED <<cache, queued, run, seen, upstream, store, sems, srcScan>>

Refs(held, R) == [v \in Versions |-> IF v \in R THEN held[v].name ELSE None]

WriteRefs(held) ==
    /\ \E R \in SUBSET Modules : ref' = Refs(held, R)
    /\ UNCHANGED <<objects, queued, run, fresh, seen, upstream, store, sems, srcScan>>

RecordName(v) ==
    /\ v \in Modules \ Dual
    /\ \E f \in Unused :
          /\ hand' = [hand EXCEPT ![v] = [name |-> f, drawn |-> TRUE]]
          /\ WriteRefs(hand')
          /\ ref'[v] = f

\* The status write that ends the Module controller's run.
RecordRefs ==
    /\ hand' = [v \in Versions |-> Nothing]
    /\ WriteRefs(hand)

\* A run of it that ends without: an error, a restart of its process.
ForgetNames ==
    /\ hand' = [v \in Versions |-> Nothing]
    /\ UNCHANGED <<objects, queued, run, fresh, ref, seen, upstream, store, sems, srcScan>>

CreateForModule(v) ==
    /\ hand[v].drawn
    /\ api[v].st = "absent"
    /\ hand' = [hand EXCEPT ![v].drawn = FALSE]
    /\ OwnerWrites(v, NewVersion(hand[v].name, FALSE))
    /\ UNCHANGED ref

\* Also a module Version a user creates with the whole config inline.
CreateWithConfig(v) ==
    /\ api[v].st = "absent"
    /\ OwnerWrites(v, NewVersion(None, TRUE))
    /\ UNCHANGED <<ref, hand>>

Rewritten(v, o) == Settle([o EXCEPT !.fin = FALSE, !.cfg = v \in Providers])

Rewrite(v) ==
    /\ v \notin Dual
    /\ api[v].st # "absent"
    /\ OwnerWrites(v, Rewritten(v, api[v]))
    /\ hand' = IF v \in Modules
                  THEN [hand EXCEPT ![v] = [name |-> api[v].file, drawn |-> FALSE]]
                  ELSE hand
    /\ UNCHANGED ref

\* spec.versions no longer lists it, its Module is gone, or a user removes it.
DeleteVersion(v) ==
    /\ api[v].st = "live"
    /\ OwnerWrites(v, Settle([api[v] EXCEPT !.st = "deleting"]))
    /\ UNCHANGED <<ref, hand>>

\* A tag is moved or removed, a release is published or withdrawn.
Retag(v) ==
    /\ \E c \in (Contents \cup {None}) \ {upstream[v]} : upstream' = [upstream EXCEPT ![v] = c]
    /\ UNCHANGED <<objects, queued, run, fresh, ref, seen, hand, store, sems, srcScan>>

OwnerStep(v) ==
    \/ RecordName(v) \/ CreateForModule(v) \/ CreateWithConfig(v) \/ Rewrite(v)
    \/ DeleteVersion(v)

----------------------------------------------------------------------------
Init ==
    /\ api = [v \in Versions |-> NoVersion]
    /\ cache = api
    /\ news = {} /\ queued = {} /\ fresh = {}
    /\ run = [v \in Versions |-> Idle]
    /\ ref = [v \in Versions |-> None] /\ seen = ref
    /\ hand = [v \in Versions |-> Nothing]
    /\ upstream \in [Versions -> Contents \cup {None}]
    /\ store = [f \in FileNames |-> Absent]
    /\ dlSem = None /\ scanSem = None /\ srcScan = None

Next ==
    \/ \E v \in Versions :
          \/ ControllerStep(v) \/ Abort(v)
          \/ Deliver(v) \/ Resync(v)
          \/ OwnerStep(v) \/ Retag(v)
    \/ RecordRefs \/ ForgetNames \/ DeliverRefs
    \/ Crash

Spec == Init /\ [][Next]_vars

----------------------------------------------------------------------------
(***************************************************************************)
(* Properties.                                                             *)
(***************************************************************************)

\* Every variable has its type; in particular an object without finalizers
\* never lingers in termination.
TypeOK ==
    /\ api \in [Versions -> VersionObject] /\ cache \in [Versions -> VersionObject]
    /\ \A v \in Versions : Settle(api[v]) = api[v]
    /\ news \subseteq Versions /\ queued \subseteq Versions /\ fresh \subseteq Versions
    /\ run \in [Versions -> Reconcile]
    /\ ref \in [Versions -> FileNames \cup {None}] /\ seen \in [Versions -> FileNames \cup {None}]
    /\ hand \in [Versions -> Held]
    /\ upstream \in [Versions -> Contents \cup {None}]
    /\ store \in [FileNames -> Archives \cup {Absent, Torn}]
    /\ dlSem \in Versions \cup {None} /\ scanSem \in Versions \cup {None}
    /\ srcScan \in Releases \cup {None}

\* Nothing will make the controller look at v again, short of a resync.
AtRest(v) == run[v].pc = "idle" /\ v \notin queued /\ v \notin news

Served(v) == api[v].st = "live" /\ api[v].synced

\* When the controller has come to rest on a Version it calls synced, the
\* storage holds, under the recorded file name, exactly the archive whose
\* checksum is recorded (Reconcile, lines 285-418).  While it works this is
\* often false; it must never stay false.
ConsistentAtRest(v) ==
    AtRest(v) /\ Served(v) => api[v].file # None /\ store[api[v].file] = api[v].sum

QuiescentConsistent == \A v \in Versions : ConsistentAtRest(v)

\* No wake-up is lost: when nothing will make the controller look at a Version again,
\* it has done with it.  The Version is not terminating, carries the finalizer, and is
\* synced unless it is one the dual-config guard refuses, which never is (every return
\* of Reconcile and reconcileDeletion without an error).
RestsDone(v) ==
    AtRest(v) /\ api[v].st # "absent" =>
        api[v].st = "live" /\ api[v].fin /\ (api[v].synced <=> v \notin Dual)

RestsOnlyWhenDone == \A v \in Versions : RestsDone(v)

\* The controller has seen the checksum the Version records: it is in the cache, and in
\* the snapshot of the run under way.
Recalled(v) ==
    /\ api[v].st # "absent" /\ api[v].sum # None
    /\ cache[v].sum = api[v].sum
    /\ run[v].pc # "idle" => run[v].snap.sum = api[v].sum

\* Once the controller has seen the checksum of an immutable Version, the checksum
\* stays until the Version is gone, whatever becomes of the tag (the immutable check,
\* which compares with the snapshot alone).
ChecksumKept(v) ==
    Recalled(v) => api'[v].st = "absent" \/ (api'[v].sum = api[v].sum /\ Recalled(v)')

ImmutableOnceSeen == [][\A v \in Immutable : ChecksumKept(v)]_vars

\* A Version that disappears with the end of its reconcile, and whose object key can be
\* built, leaves no artifact behind (reconcileDeletion: first the object, and the
\* finalizer only when that has worked).
EndsWithReconcile(v) ==
    /\ run[v].pc # "idle" /\ run'[v].pc = "idle"
    /\ api[v].st # "absent" /\ api'[v].st = "absent"

ArtifactFirst(v) == EndsWithReconcile(v) /\ HasPath(api[v]) => store[api[v].file] = Absent

ArtifactGoesFirst == [][\A v \in Versions : ArtifactFirst(v)]_vars

\* No step removes the artifact of a Version that is live and synced, before and
\* after the step: not the deletion of another Version, not a late deletion
\* that meets a Version created anew under the same name (reconcileDeletion).
ArtifactKept(v) ==
    Served(v) /\ Served(v)' /\ api[v].file # None /\ api'[v].file = api[v].file
        => (store'[api[v].file] = Absent => store[api[v].file] = Absent)

ArtifactsKept == \A v \in Versions : ArtifactKept(v)

LiveArtifactKept == [][ArtifactsKept]_vars

\* Two Versions, and whoever acts for them, never use the same file name
\* (names drawn at prepareModuleVersion, generateProviderFileName and the Module
\* controller's generateFileName, carried over by every later write).
NamesDisjoint ==
    \A v, w \in Versions : v # w => NamesOf(v) \cap NamesOf(w) = {}

\* A semaphore is held exactly while its holder is downloading or running
\* trivy: no path, error or otherwise, leaks it.
SemaphoresHeld ==
    \A v \in Versions :
        /\ (dlSem = v) <=> (run[v].pc = "download")
        /\ (scanSem = v) <=> (run[v].pc \in {"scanning", "sourcing"})

\* With scans that always complete, an archive with blocking findings is never
\* recorded as synced (runProviderScan's binary scan, runModuleScan).
ScanGate ==
    Scanning /\ ScanModules /\ ~ScansMayFail =>
        \A v \in Versions : Served(v) => api[v].sum \notin Flagged
=============================================================================
