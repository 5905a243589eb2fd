-------------------------- MODULE VersionInvariant --------------------------
(***************************************************************************)
(* The inductive invariant behind QuiescentConsistent and LiveArtifactKept. *)
(* Neither is inductive: each part below says one thing the code relies on *)
(* between two of its steps.  The runs check it on small instances,        *)
(* VersionSafetyProofs proves it.                                      *)
(***************************************************************************)
EXTENDS VersionController

\* Without an event under way the informer's copy is the resource itself.
CacheCurrent(v) == v \notin news => cache[v] = api[v]

\* A run that works on an outdated snapshot is not the last one: the event
\* that will queue the Version again is under way, or has queued it already.
Awake(v) == run[v].pc # "idle" /\ v \notin fresh => v \in news \/ v \in queued

\* v \in fresh means what it says.
SnapshotCurrent(v) == run[v].pc # "idle" /\ v \in fresh => run[v].snap = api[v]

\* A run that handles an archive has one, and a name to store it under.
HasArchive(v) ==
    /\ run[v].pc \in {"fetch", "verify"} \cup Uploading \cup Published => run[v].file # None
    /\ run[v].pc \in {"verify"} \cup Uploading \cup Published => run[v].archive # None

\* Only a provider's go.mod is scanned.
SourceOfProvider(v) == run[v].pc \in {"source", "gomod", "sourcing"} => v \in Providers

\* Once past the storage calls, what is stored is the archive of this run, or
\* the one the snapshot's checksum stands for (Verify compared it with that,
\* not with the archive just downloaded).
Uploaded(v) ==
    Backend # "azure" /\ run[v].pc \in Published
        => \/ store[run[v].file] = run[v].archive
           \/ run[v].snap.sum # None /\ store[run[v].file] = run[v].snap.sum

\* Once past Persist, a snapshot that is still current names the file stored.
NamePersisted(v) ==
    run[v].pc \in Published \ {"persist"} /\ v \in fresh => api[v].file = run[v].file

\* A deletion under way is the deletion of something nobody serves.
RemovesDead(v) ==
    run[v].pc \in Removing =>
        /\ run[v].snap.st = "deleting" /\ ~Served(v)
        /\ run[v].pc = "remove" => run[v].snap.file # None

\* A copy that says "gone" or "terminating" is never the stale copy of a
\* Version that is served.
DeadStaysDead(v) == cache[v].st # "live" => ~Served(v)

\* What the controller comes to rest on, with a back end that returns the
\* checksum of what it holds.
RestsConsistent(v) == Backend # "azure" => ConsistentAtRest(v)

VersionInv(v) ==
    /\ CacheCurrent(v) /\ Awake(v) /\ SnapshotCurrent(v)
    /\ HasArchive(v) /\ SourceOfProvider(v) /\ Uploaded(v) /\ NamePersisted(v)
    /\ RemovesDead(v) /\ DeadStaysDead(v)
    /\ RestsConsistent(v)

IInv == TypeOK /\ NamesDisjoint /\ \A v \in Versions : VersionInv(v)

----------------------------------------------------------------------------
(***************************************************************************)
(* What a run has made sure of by where it is.  Beside IInv this gives     *)
(* RestsOnlyWhenDone, ImmutableOnceSeen and ArtifactGoesFirst, proved in   *)
(* VersionRestProofs.                                                      *)
(***************************************************************************)

\* Only a Version that is live and carries the finalizer is synced.
SyncsLive(v) ==
    run[v].pc \notin {"idle"} \cup Removing => run[v].snap.st = "live" /\ run[v].snap.fin

\* The dual-config guard turns away exactly the Versions it should.
DualTurnedAway(v) ==
    /\ run[v].pc = "rejectDual" => v \in Dual
    /\ run[v].pc \notin {"idle", "prepare", "rejectDual"} \cup Removing => v \notin Dual

\* Only providers take the fast path, or wait for the download semaphore.
ProviderDownload(v) == run[v].pc \in {"fastPath", "acquire", "download"} => v \notin Modules

\* Past the immutable check the archive is the one the snapshot's checksum stands for.
ArchiveCompared(v) ==
    v \in Immutable /\ run[v].pc \in {"verify"} \cup Uploading \cup Published
        => run[v].snap.sum \in {None, run[v].archive}

\* When the finalizer is about to go, the object is gone.
ObjectGone(v) ==
    run[v].pc = "unfinalize" /\ HasPath(run[v].snap) => store[run[v].snap.file] = Absent

OnCourse(v) ==
    SyncsLive(v) /\ DualTurnedAway(v) /\ ProviderDownload(v) /\ ArchiveCompared(v)

CourseInv == \A v \in Versions : OnCourse(v) /\ ObjectGone(v) /\ RestsDone(v)
=============================================================================
