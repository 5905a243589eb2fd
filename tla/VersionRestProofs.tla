------------------------- MODULE VersionRestProofs -------------------------
(***************************************************************************)
(* What one can rely on where nobody works on a Version: the storage       *)
(* config is there (ConfigInv), nothing changes before somebody works on   *)
(* it again, and the controller is done with it (CourseInv).  And what it  *)
(* takes from a Version it works on: the checksum of an immutable one      *)
(* never, the object before the finalizer.                                 *)
(***************************************************************************)
EXTENDS VersionScanProofs

Handling == {"verify"} \cup Uploading \cup Published

\* The Module controller's rewrite takes the storage config away.  A run that has
\* an archive has a config; past Persist a snapshot that is still current has it
\* too; so has what the controller rests on.
ConfigKept(v) ==
    /\ run[v].pc \in Handling => run[v].cfg
    /\ run[v].pc \in Published \ {"persist"} /\ v \in fresh => api[v].cfg
    /\ AtRest(v) /\ Served(v) => api[v].cfg

ConfigInv == \A v \in Versions : ConfigKept(v)

\* A run that goes from place to place, and writes nothing.
LEMMA MoveKeepsConfig ==
    ASSUME NEW v \in Versions, ConfigKept(v), run'[v].pc # "idle",
           run'[v].pc \in Handling => run'[v].cfg,
           run'[v].pc \in Published \ {"persist"} => run[v].pc \in Published \ {"persist"},
           UNCHANGED <<api, fresh>>
    PROVE  ConfigKept(v)'
BY DEF ConfigKept, AtRest

\* A run that ends: it is requeued, or what it leaves has a config.
LEMMA EndKeepsConfig ==
    ASSUME NEW v \in Versions, run'[v].pc = "idle",
           AtRest(v)' /\ Served(v)' => api'[v].cfg
    PROVE  ConfigKept(v)'
BY DEF ConfigKept, Handling, Uploading, Published

\* What a run leaves that ends with a current snapshot and nothing queued.
LEMMA LastRunIsFresh ==
    ASSUME NEW v \in Versions, VersionInv(v), run[v].pc # "idle",
           v \notin news, v \notin queued
    PROVE  v \in fresh /\ run[v].snap = api[v]
BY DEF VersionInv, Awake, SnapshotCurrent

LEMMA StartKeepsConfig ==
    ASSUME TypeOK, NEW v \in Versions, NEW p \in {"prepare", "remove", "unfinalize"}, Begin(v, p)
    PROVE  ConfigKept(v)'
<1>1. run'[v].pc = p
  BY SomePCs, BeginEffect DEF TypeOK, RunType
<1> QED BY <1>1 DEF ConfigKept, Handling, Uploading, Published, AtRest

LEMMA ControllerKeepsConfig ==
    ASSUME IInv, NEW v \in Versions, ConfigKept(v), ControllerStep(v)
    PROVE  ConfigKept(v)'
<1>0. TypeOK /\ RunType /\ VersionInv(v) /\ HasArchive(v) /\ SourceOfProvider(v)
  BY DEF IInv, TypeOK, RunType, VersionInv
<1>1. CASE StartGone(v)
  <2>1. UNCHANGED <<api, run, fresh, news>> /\ run[v].pc = "idle"
    BY <1>1 DEF StartGone, MayStart, objects
  <2>2. v \notin news => api[v].st # "live"
    BY <1>0, <1>1 DEF VersionInv, CacheCurrent, StartGone
  <2> QED BY <2>1, <2>2, EndKeepsConfig DEF AtRest, Served
<1>2. CASE AddFinalizer(v)
  BY <1>2, EndKeepsConfig DEF AddFinalizer, MayStart, AtRest
<1>3. CASE StartDelete(v) \/ StartSync(v)
  BY <1>0, <1>3, StartKeepsConfig DEF StartDelete, StartSync
<1>4. CASE Prepare(v)
  BY <1>0, <1>4, PrepareEffect, MoveKeepsConfig DEF Prepare, objects, Handling, Uploading,
       Published
<1>5. CASE RejectDual(v)
  BY <1>0, <1>5, CloseEffect, RejectDualEffect, EndKeepsConfig DEF RejectDual, Served
<1>6. CASE FetchModule(v)
  BY <1>0, <1>6, FetchModuleEffect, MoveKeepsConfig DEF FetchModule, objects, Published
<1>7. CASE RejectReplaced(v) \/ BlockScan(v) \/ BlockSource(v)
  BY <1>0, <1>7, CloseEffect, EndKeepsConfig DEF RejectReplaced, BlockScan, BlockSource,
       Requeue, AtRest
<1>8. CASE FastPathHit(v)
  <2>1. run'[v].pc = "idle" /\ run[v].pc # "idle"
    BY <1>0, <1>8, CloseEffect DEF FastPathHit
  <2>2. UNCHANGED <<api, news, queued>> /\ run[v].snap.cfg
    BY <1>8 DEF FastPathHit, objects, AlreadyStored, HasPath
  <2> QED BY <1>0, <2>1, <2>2, LastRunIsFresh, EndKeepsConfig DEF AtRest
<1>9. CASE FastPathMiss(v) \/ AcquireDownload(v)
  <2>1. run'[v].pc \in {"acquire", "download"}
    BY <1>0, <1>9, SomePCs, GotoEffect DEF FastPathMiss, AcquireDownload
  <2> QED BY <1>9, <2>1, MoveKeepsConfig DEF FastPathMiss, AcquireDownload, objects,
       Handling, Uploading, Published
<1>10. CASE DownloadProvider(v)
  BY <1>0, <1>10, DownloadProviderEffect, MoveKeepsConfig DEF DownloadProvider, objects,
       Published
<1>11. CASE Verify(v) \/ BeginPut(v) \/ EndPut(v)
  <2>1. /\ run'[v].pc \in Uploading \cup {"persist"} /\ run'[v].cfg = run[v].cfg
        /\ run[v].pc \in Handling
    BY <1>0, <1>11, SomePCs, GotoEffect DEF Verify, BeginPut, EndPut, Handling, Uploading
  <2> QED BY <1>11, <2>1, MoveKeepsConfig DEF Verify, BeginPut, EndPut, objects,
       ConfigKept, Uploading, Published
<1>12. CASE Persist(v)
  <2>1. /\ run'[v].pc \in {"scan", "finish"} /\ run'[v].cfg = run[v].cfg
    BY <1>0, <1>12, SomePCs, GotoEffect DEF Persist
  <2>2. run[v].cfg /\ api'[v].cfg = run[v].cfg
    BY <1>0, <1>12, PersistEffect DEF Persist, ConfigKept, Handling, Published
  <2> QED BY <2>1, <2>2 DEF ConfigKept, AtRest
<1>13. CASE EndScan(v)
  BY <1>0, <1>13, EndScanEffect, MoveKeepsConfig DEF EndScan, objects, ConfigKept,
       Handling, Published
<1>14. CASE BeginScan(v) \/ ScanFails(v) \/ MissSource(v) \/ SkipSource(v) \/ BeginSource(v)
              \/ NoGoMod(v)
              \/ EndSource(v) \/ SourceFails(v)
  <2>1. /\ run'[v].pc \in Published \ {"persist"} /\ run'[v].cfg = run[v].cfg
        /\ run[v].pc \in Published \ {"persist"}
    BY <1>0, <1>14, SomePCs, GotoEffect DEF BeginScan, ScanFails, MissSource, SkipSource,
       BeginSource,
         NoGoMod, EndSource, SourceFails, AfterScan, Published
  <2> QED BY <1>14, <2>1, MoveKeepsConfig DEF BeginScan, ScanFails, MissSource, SkipSource,
         BeginSource, NoGoMod, EndSource, SourceFails, objects, ConfigKept, Handling,
         Published
<1>15. CASE Finish(v)
  <2>1. run'[v].pc = "idle" /\ run[v].pc = "finish"
    BY <1>0, <1>15, CloseEffect DEF Finish
  <2>2. api'[v].cfg = api[v].cfg /\ queued' = queued /\ v \notin news
    BY <1>0, <1>15, FinishEffect DEF Finish
  <2>3. v \in fresh => api[v].cfg
    BY <2>1 DEF ConfigKept, Published
  <2> QED BY <1>0, <2>1, <2>2, <2>3, LastRunIsFresh, EndKeepsConfig DEF AtRest
<1>16. CASE RemoveArtifact(v)
  <2>1. run'[v].pc = "unfinalize"
    BY <1>0, <1>16, SomePCs, GotoEffect DEF RemoveArtifact
  <2> QED BY <1>16, <2>1, MoveKeepsConfig DEF RemoveArtifact, objects, Handling,
       Uploading, Published
<1>17. CASE RemoveFinalizer(v)
  <2>1. run'[v].pc = "idle" /\ run[v].pc = "unfinalize" /\ v \in fresh
    BY <1>0, <1>17, CloseEffect DEF RemoveFinalizer
  <2>2. api[v].st = "deleting"
    BY <1>0, <2>1 DEF VersionInv, SnapshotCurrent, RemovesDead, Removing
  <2>3. api'[v].st = "absent"
    BY <1>0, <1>17, <2>2, RemoveFinalizerEffect, IdleType
  <2> QED BY <2>1, <2>3, EndKeepsConfig DEF Served
<1> QED BY <1>1, <1>2, <1>3, <1>4, <1>5, <1>6, <1>7, <1>8, <1>9, <1>10, <1>11, <1>12,
     <1>13, <1>14, <1>15, <1>16, <1>17 DEF ControllerStep

LEMMA EnvironmentKeepsConfig ==
    ASSUME IInv, NEW v \in Versions, ConfigKept(v),
           Abort(v) \/ Deliver(v) \/ Resync(v) \/ OwnerStep(v) \/ Retag(v)
    PROVE  ConfigKept(v)'
<1>0. TypeOK /\ RunType
  BY DEF IInv, TypeOK, RunType
<1>1. CASE Abort(v)
  BY <1>0, <1>1, CloseEffect, EndKeepsConfig DEF Abort, Requeue, AtRest
<1>2. CASE Deliver(v) \/ Resync(v)
  BY <1>2 DEF Deliver, Resync, Requeue, objects, ConfigKept, AtRest, Served
<1>3. CASE Retag(v)
  BY <1>3 DEF Retag, objects, ConfigKept, AtRest, Served
<1>4. CASE OwnerStep(v)
  <2>1. /\ v \in fresh' => api'[v] = api[v] /\ v \in fresh
        /\ v \notin news' => api'[v] = api[v] /\ v \notin news
        /\ UNCHANGED <<queued, run>>
    BY <1>0, <1>4, OwnerEffect DEF Owned, Wrote
  <2> QED BY <2>1 DEF ConfigKept, AtRest, Served
<1> QED BY <1>1, <1>2, <1>3, <1>4

LEMMA ConfigHolds == Spec => []ConfigInv
<1>1. Init => ConfigInv
  BY IdleType DEF Init, ConfigInv, ConfigKept, Handling, Uploading, Published, Served
<1>2. ASSUME IInv, ConfigInv, [Next]_vars
      PROVE  ConfigInv'
  <2>1. ASSUME NEW v \in Versions,
               ControllerStep(v) \/ Abort(v) \/ Deliver(v) \/ Resync(v) \/ OwnerStep(v)
                    \/ Retag(v)
        PROVE  ConfigInv'
    <3>1. ConfigKept(v)'
      BY <1>2, <2>1, ControllerKeepsConfig, EnvironmentKeepsConfig DEF ConfigInv
    <3>2. Local(v)
      BY <1>2, <2>1, ControllerIsLocal, EnvironmentIsLocal DEF IInv
    <3>3. ASSUME NEW w \in Versions \ {v}
          PROVE  ConfigKept(w)'
      BY <1>2, <3>2 DEF Local, OnlyActsOn, Untouched, ConfigInv, ConfigKept, AtRest, Served
    <3> QED BY <3>1, <3>3 DEF ConfigInv
  <2>2. CASE Crash
    BY <2>2, IdleType DEF Crash, ConfigInv, ConfigKept, Handling, Uploading, Published,
         AtRest, Served
  <2>3. CASE RecordRefs \/ ForgetNames \/ DeliverRefs
    BY <1>2, <2>3 DEF RecordRefs, WriteRefs, ForgetNames, DeliverRefs, objects, ConfigInv, ConfigKept,
         AtRest, Served
  <2>4. CASE UNCHANGED vars
    BY <1>2, <2>4 DEF vars, ConfigInv, ConfigKept, AtRest, Served
  <2> QED BY <1>2, <2>1, <2>2, <2>3, <2>4 DEF Next
<1> QED BY <1>1, <1>2, Invariant, PTL DEF Spec

----------------------------------------------------------------------------
(***************************************************************************)
(* What a run has made sure of by where it is.                             *)
(***************************************************************************)
\* The places of a run that syncs, and has not been turned away.
Syncing == {"fetch", "fastPath", "acquire", "download", "verify"} \cup Uploading \cup Published

\* A run that goes on syncing, with the same archive or one just compared.
LEMMA MoveStaysOnCourse ==
    ASSUME NEW v \in Versions, OnCourse(v), run'[v].snap = run[v].snap,
           run[v].pc \in Syncing, run'[v].pc \in Syncing,
           run'[v].pc \in {"fastPath", "acquire", "download"} => v \notin Modules,
           \/ run'[v].pc \notin Handling
           \/ run[v].pc \in Handling /\ run'[v].archive = run[v].archive
           \/ v \in Immutable => run[v].snap.sum \in {None, run'[v].archive}
    PROVE  OnCourse(v)'
BY DEF OnCourse, SyncsLive, DualTurnedAway, ProviderDownload, ArchiveCompared, Syncing, Handling,
     Uploading, Published, Removing

LEMMA EndStaysOnCourse ==
    ASSUME NEW v \in Versions, run'[v].pc \in {"idle"} \cup Removing
    PROVE  OnCourse(v)'
BY DEF OnCourse, SyncsLive, DualTurnedAway, ProviderDownload, ArchiveCompared,
     Uploading, Published, Removing

LEMMA ControllerStaysOnCourse ==
    ASSUME TypeOK, NEW v \in Versions, OnCourse(v), ControllerStep(v)
    PROVE  OnCourse(v)'
<1>0. RunType
  BY DEF TypeOK, RunType
<1>1. CASE StartGone(v) \/ AddFinalizer(v)
  BY <1>1 DEF StartGone, AddFinalizer, OnCourse, SyncsLive, DualTurnedAway, ProviderDownload,
       ArchiveCompared
<1>2. CASE StartDelete(v)
  <2>1. run'[v].pc \in Removing
    BY <1>0, <1>2, SomePCs, BeginEffect DEF StartDelete, TypeOK, Removing
  <2> QED BY <2>1, EndStaysOnCourse
<1>3. CASE StartSync(v)
  <2>1. run'[v].pc = "prepare" /\ run'[v].snap.st = "live" /\ run'[v].snap.fin
    BY <1>0, <1>3, SomePCs, BeginEffect DEF StartSync, TypeOK
  <2> QED BY <2>1 DEF OnCourse, SyncsLive, DualTurnedAway, ProviderDownload, ArchiveCompared,
       Uploading, Published, Removing
<1>4. CASE Prepare(v)
  <2>1. run[v].pc = "prepare"
    BY <1>4 DEF Prepare
  <2>2. /\ run'[v].snap = run[v].snap
        /\ run'[v].pc \in {"rejectDual", "fetch", "fastPath"}
        /\ run'[v].pc = "fastPath" => v \notin Modules
        /\ run'[v].pc = "rejectDual" <=> v \in Dual
    BY <1>4, PrepareEffect
  <2> QED BY <2>1, <2>2 DEF OnCourse, SyncsLive, DualTurnedAway, ProviderDownload,
       ArchiveCompared, Uploading, Published, Removing
<1>5. CASE RejectDual(v) \/ RejectReplaced(v) \/ BlockScan(v) \/ BlockSource(v)
              \/ FastPathHit(v) \/ Finish(v) \/ RemoveFinalizer(v)
  BY <1>0, <1>5, CloseEffect, EndStaysOnCourse DEF RejectDual, RejectReplaced, BlockScan,
       BlockSource, FastPathHit, Finish, RemoveFinalizer
<1>6. CASE FetchModule(v)
  <2>1. /\ run'[v].pc \in {"putFirst", "verify"} /\ run'[v].snap = run[v].snap
        /\ run'[v].archive = Download(v)
    BY <1>6, FetchModuleEffect
  <2>2. run[v].pc = "fetch" /\ (v \in Immutable => run[v].snap.sum \in {None, Download(v)})
    BY <1>6 DEF FetchModule, Replaced
  <2> QED BY <2>1, <2>2, MoveStaysOnCourse DEF Syncing, Uploading
<1>7. CASE FastPathMiss(v) \/ AcquireDownload(v)
  <2>1. /\ run'[v].pc \in {"acquire", "download"} /\ run'[v].snap = run[v].snap
        /\ run[v].pc \in {"fastPath", "acquire"}
    BY <1>0, <1>7, SomePCs, GotoEffect DEF FastPathMiss, AcquireDownload
  <2>2. v \notin Modules
    BY <2>1 DEF OnCourse, ProviderDownload
  <2> QED BY <2>1, <2>2, MoveStaysOnCourse DEF Syncing, Handling, Uploading, Published
<1>8. CASE DownloadProvider(v)
  <2>1. run'[v].pc \in {"putFirst", "verify"} /\ run'[v].snap = run[v].snap
    BY <1>8, DownloadProviderEffect
  <2>2. run[v].pc = "download" /\ v \notin Immutable
    BY <1>8, OptionsType DEF DownloadProvider, OnCourse, ProviderDownload
  <2> QED BY <2>1, <2>2, MoveStaysOnCourse DEF Syncing, Uploading
<1>9. CASE Verify(v) \/ BeginPut(v) \/ EndPut(v) \/ Persist(v) \/ BeginScan(v) \/ ScanFails(v)
              \/ MissSource(v) \/ SkipSource(v) \/ BeginSource(v) \/ NoGoMod(v) \/ EndSource(v)
              \/ SourceFails(v)
  <2>1. /\ run[v].pc \in Handling /\ run'[v].pc \in Uploading \cup Published
        /\ run'[v].snap = run[v].snap /\ run'[v].archive = run[v].archive
    BY <1>0, <1>9, SomePCs, GotoEffect DEF Verify, BeginPut, EndPut, Persist, BeginScan,
         ScanFails, MissSource, SkipSource, BeginSource, NoGoMod, EndSource, SourceFails,
         AfterScan,
         Handling, Uploading, Published
  <2> QED BY <2>1, MoveStaysOnCourse DEF Syncing, Handling, Uploading, Published
<1>10. CASE EndScan(v)
  <2>1. /\ run[v].pc = "scanning" /\ run'[v].pc \in {"source", "finish"}
        /\ run'[v].snap = run[v].snap /\ run'[v].archive = run[v].archive
    BY <1>10, EndScanEffect DEF EndScan
  <2> QED BY <2>1, MoveStaysOnCourse DEF Syncing, Handling, Published
<1>11. CASE RemoveArtifact(v)
  <2>1. run'[v].pc \in Removing
    BY <1>0, <1>11, SomePCs, GotoEffect DEF RemoveArtifact, Removing
  <2> QED BY <2>1, EndStaysOnCourse
<1> QED BY <1>1, <1>2, <1>3, <1>4, <1>5, <1>6, <1>7, <1>8, <1>9, <1>10, <1>11
     DEF ControllerStep

\* The finalizer is next only after the object has gone, or when there is no key.
LEMMA ControllerRemovesFirst ==
    ASSUME TypeOK, NEW v \in Versions, VersionInv(v), ControllerStep(v)
    PROVE  ObjectGone(v)'
<1>0. RunType /\ HasArchive(v)
  BY DEF TypeOK, RunType, VersionInv
<1>1. CASE StartDelete(v)
  <2>1. run'[v].pc = (IF HasPath(cache[v]) THEN "remove" ELSE "unfinalize") /\ run'[v].snap = cache[v]
    BY <1>0, <1>1, SomePCs, BeginEffect DEF StartDelete, TypeOK
  <2> QED BY <2>1 DEF ObjectGone, HasPath
<1>2. CASE RemoveArtifact(v)
  <2>1. run[v].snap.file \in FileNames
    BY <1>2, ReconcileFields, ObjectFields
       DEF TypeOK, RemoveArtifact, VersionInv, RemovesDead, Removing
  <2>2. run'[v].snap = run[v].snap /\ store' = [store EXCEPT ![run[v].snap.file] = Absent]
    BY <1>0, <1>2, SomePCs, GotoEffect DEF RemoveArtifact
  <2> QED BY <2>1, <2>2 DEF ObjectGone, TypeOK
<1>3. CASE StartGone(v) \/ AddFinalizer(v)
  BY <1>3 DEF StartGone, AddFinalizer, MayStart, ObjectGone
<1>4. CASE StartSync(v)
  BY <1>0, <1>4, SomePCs, BeginEffect DEF StartSync, TypeOK, ObjectGone
<1>5. CASE RejectDual(v) \/ RejectReplaced(v) \/ BlockScan(v) \/ BlockSource(v)
              \/ FastPathHit(v) \/ Finish(v) \/ RemoveFinalizer(v)
  BY <1>0, <1>5, CloseEffect DEF RejectDual, RejectReplaced, BlockScan, BlockSource,
       FastPathHit, Finish, RemoveFinalizer, ObjectGone
<1>6. CASE Prepare(v) \/ FetchModule(v) \/ DownloadProvider(v) \/ EndScan(v)
  BY <1>6, PrepareEffect, FetchModuleEffect, DownloadProviderEffect, EndScanEffect
     DEF ObjectGone
<1>7. CASE FastPathMiss(v) \/ AcquireDownload(v) \/ Verify(v) \/ BeginPut(v) \/ EndPut(v)
              \/ Persist(v) \/ BeginScan(v) \/ ScanFails(v) \/ MissSource(v) \/ SkipSource(v)
              \/ BeginSource(v) \/ NoGoMod(v) \/ EndSource(v) \/ SourceFails(v)
  <2>1. run'[v].pc # "unfinalize"
    BY <1>0, <1>7, SomePCs, GotoEffect DEF FastPathMiss, AcquireDownload, Verify, BeginPut,
         EndPut, Persist, BeginScan, ScanFails, MissSource, SkipSource, BeginSource, NoGoMod,
         EndSource,
         SourceFails, AfterScan
  <2> QED BY <2>1 DEF ObjectGone
<1> QED BY <1>1, <1>2, <1>3, <1>4, <1>5, <1>6, <1>7 DEF ControllerStep

\* What the controller leaves when it comes to rest: its last run had a current snapshot.
LEMMA ControllerRestsDone ==
    ASSUME TypeOK, NEW v \in Versions, VersionInv(v), OnCourse(v), RestsDone(v),
           ControllerStep(v)
    PROVE  RestsDone(v)'
<1>0. RunType /\ HasArchive(v)
  BY DEF TypeOK, RunType, VersionInv
<1>1. CASE StartGone(v)
  <2>1. UNCHANGED <<api, run, news>>
    BY <1>1 DEF StartGone, objects
  <2>2. v \notin news => api[v].st = "absent" \/ (api[v].st = "deleting" /\ ~api[v].fin)
    BY <1>1 DEF VersionInv, CacheCurrent, StartGone
  <2>3. v \notin news => api[v].st = "absent"
    BY <2>2, IdleType DEF TypeOK, Settle
  <2> QED BY <2>1, <2>3 DEF RestsDone, AtRest
<1>2. CASE AddFinalizer(v)
  BY <1>2 DEF AddFinalizer, MayStart, RestsDone, AtRest
<1>3. CASE StartDelete(v) \/ StartSync(v)
  BY <1>0, <1>3, SomePCs, BeginEffect DEF StartDelete, StartSync, TypeOK, RestsDone, AtRest
<1>4. CASE RejectDual(v)
  <2>1. v \in Dual /\ api[v].st = "live" /\ api[v].fin
    BY <1>4 DEF RejectDual, OnCourse, DualTurnedAway, SyncsLive, Removing, VersionInv,
         SnapshotCurrent
  <2>2. api'[v].st = "live" /\ api'[v].fin /\ ~api'[v].synced
    BY <1>4, <2>1, RejectDualEffect
  <2> QED BY <2>1, <2>2 DEF RestsDone
<1>5. CASE RejectReplaced(v) \/ BlockScan(v) \/ BlockSource(v)
  BY <1>5 DEF RejectReplaced, BlockScan, BlockSource, Requeue, RestsDone, AtRest
<1>6. CASE FastPathHit(v)
  <2>1. /\ run[v].snap.synced /\ run[v].snap.st = "live" /\ run[v].snap.fin /\ v \notin Dual
        /\ run[v].pc # "idle"
    BY <1>6 DEF FastPathHit, AlreadyStored, OnCourse, DualTurnedAway, SyncsLive, Removing
  <2>2. UNCHANGED <<api, news, queued>>
    BY <1>6 DEF FastPathHit, objects
  <2> QED BY <2>1, <2>2, LastRunIsFresh DEF RestsDone, AtRest
<1>7. CASE Finish(v)
  <2>1. /\ run[v].snap.st = "live" /\ run[v].snap.fin /\ v \notin Dual /\ run[v].pc # "idle"
    BY <1>7 DEF Finish, OnCourse, DualTurnedAway, SyncsLive, Removing
  <2>2. /\ api'[v].synced /\ api'[v].st = api[v].st /\ api'[v].fin = api[v].fin
        /\ v \notin news /\ queued' = queued
    BY <1>0, <1>7, FinishEffect DEF Finish
  <2>3. v \notin queued => api[v].st = "live" /\ api[v].fin
    BY <2>1, <2>2, LastRunIsFresh
  <2> QED BY <2>1, <2>2, <2>3 DEF RestsDone, AtRest
<1>8. CASE RemoveFinalizer(v)
  <2>1. api[v].st = "deleting"
    BY <1>8 DEF RemoveFinalizer, VersionInv, SnapshotCurrent, RemovesDead, Removing
  <2>2. api'[v].st = "absent"
    BY <1>8, <2>1, RemoveFinalizerEffect, IdleType
  <2> QED BY <2>2 DEF RestsDone
<1>9. CASE Prepare(v) \/ FetchModule(v) \/ DownloadProvider(v) \/ EndScan(v)
  BY <1>9, PrepareEffect, FetchModuleEffect, DownloadProviderEffect, EndScanEffect
     DEF RestsDone, AtRest
<1>10. CASE FastPathMiss(v) \/ AcquireDownload(v) \/ Verify(v) \/ BeginPut(v) \/ EndPut(v)
              \/ Persist(v) \/ BeginScan(v) \/ ScanFails(v) \/ MissSource(v) \/ SkipSource(v)
              \/ BeginSource(v) \/ NoGoMod(v) \/ EndSource(v) \/ SourceFails(v)
              \/ RemoveArtifact(v)
  <2>1. run'[v].pc # "idle"
    BY <1>0, <1>10, SomePCs, GotoEffect DEF FastPathMiss, AcquireDownload, Verify, BeginPut,
         EndPut, Persist, BeginScan, ScanFails, MissSource, SkipSource, BeginSource, NoGoMod,
         EndSource,
         SourceFails, AfterScan, RemoveArtifact
  <2> QED BY <2>1 DEF RestsDone, AtRest
<1> QED BY <1>1, <1>2, <1>3, <1>4, <1>5, <1>6, <1>7, <1>8, <1>9, <1>10 DEF ControllerStep

LEMMA EnvironmentStaysOnCourse ==
    ASSUME TypeOK, NEW v \in Versions, OnCourse(v), ObjectGone(v), RestsDone(v),
           Abort(v) \/ Deliver(v) \/ Resync(v) \/ OwnerStep(v) \/ Retag(v)
    PROVE  (OnCourse(v) /\ ObjectGone(v) /\ RestsDone(v))'
<1>0. RunType
  BY DEF TypeOK, RunType
<1>1. CASE Abort(v)
  <2>1. run'[v].pc = "idle" /\ v \in queued'
    BY <1>0, <1>1, CloseEffect DEF Abort, Requeue
  <2> QED BY <2>1, EndStaysOnCourse DEF ObjectGone, RestsDone, AtRest
<1>2. ASSUME UNCHANGED <<run, store>>,
             v \in queued' \/ v \in news' \/ UNCHANGED <<api, queued, news>>
      PROVE  (OnCourse(v) /\ ObjectGone(v) /\ RestsDone(v))'
  BY <1>2 DEF OnCourse, SyncsLive, DualTurnedAway, ProviderDownload, ArchiveCompared,
       ObjectGone, RestsDone, AtRest
<1>3. CASE Deliver(v) \/ Resync(v) \/ Retag(v)
  BY <1>2, <1>3 DEF Deliver, Resync, Retag, Requeue, objects
<1>4. CASE OwnerStep(v)
  <2>1. UNCHANGED <<run, store, queued>> /\ (v \in news' \/ api'[v] = api[v])
    BY <1>4, OwnerEffect DEF Owned, Wrote
  <2>2. v \in news => v \in news'
    BY <1>4, OwnerEffect DEF Owned, Wrote
  <2> QED BY <2>1, <2>2 DEF OnCourse, SyncsLive, DualTurnedAway, ProviderDownload,
       ArchiveCompared, ObjectGone, RestsDone, AtRest
<1> QED BY <1>1, <1>3, <1>4

\* A Version nobody acts on.
LEMMA OthersStayOnCourse ==
    ASSUME TypeOK, NamesDisjoint, NEW v \in Versions, NEW w \in Versions \ {v},
           OnlyActsOn(v), OnCourse(w), ObjectGone(w), RestsDone(w)
    PROVE  (OnCourse(w) /\ ObjectGone(w) /\ RestsDone(w))'
<1>1. Untouched(w)
  BY DEF OnlyActsOn
<1>2. run[w].snap.file # None => store'[run[w].snap.file] = store[run[w].snap.file]
  BY NamesAreFileNames DEF OnlyActsOn, NamesDisjoint, NamesOf
<1>3. ObjectGone(w)'
  BY <1>1, <1>2 DEF Untouched, ObjectGone, HasPath
<1> QED BY <1>1, <1>3 DEF Untouched, OnCourse, SyncsLive, DualTurnedAway, ProviderDownload,
     ArchiveCompared, RestsDone, AtRest

LEMMA CourseHolds == Spec => []CourseInv
<1>1. Init => CourseInv
  BY IdleType DEF Init, CourseInv, OnCourse, SyncsLive, DualTurnedAway, ProviderDownload,
       ArchiveCompared, ObjectGone, RestsDone, Uploading, Published
<1>2. ASSUME IInv, CourseInv, [Next]_vars
      PROVE  CourseInv'
  <2>0. TypeOK /\ NamesDisjoint
    BY <1>2 DEF IInv
  <2>1. ASSUME NEW v \in Versions,
               ControllerStep(v) \/ Abort(v) \/ Deliver(v) \/ Resync(v) \/ OwnerStep(v)
                    \/ Retag(v)
        PROVE  CourseInv'
    <3>0. VersionInv(v) /\ OnCourse(v) /\ ObjectGone(v) /\ RestsDone(v)
      BY <1>2 DEF IInv, CourseInv
    <3>1. (OnCourse(v) /\ ObjectGone(v) /\ RestsDone(v))'
      BY <2>0, <2>1, <3>0, ControllerStaysOnCourse, ControllerRemovesFirst, ControllerRestsDone,
         EnvironmentStaysOnCourse
    <3>2. OnlyActsOn(v)
      BY <2>0, <2>1, <3>0, ControllerIsLocal, EnvironmentIsLocal DEF Local
    <3>3. ASSUME NEW w \in Versions \ {v}
          PROVE  (OnCourse(w) /\ ObjectGone(w) /\ RestsDone(w))'
      BY <1>2, <2>0, <3>2, OthersStayOnCourse DEF CourseInv
    <3> QED BY <3>1, <3>3 DEF CourseInv
  <2>2. CASE Crash
    BY <2>2, IdleType DEF Crash, CourseInv, OnCourse, SyncsLive, DualTurnedAway,
         ProviderDownload, ArchiveCompared, ObjectGone, RestsDone, AtRest, Uploading, Published
  <2>3. CASE RecordRefs \/ ForgetNames \/ DeliverRefs \/ UNCHANGED vars
    <3>1. UNCHANGED <<api, news, queued, run, store>>
      BY <2>3 DEF RecordRefs, WriteRefs, ForgetNames, DeliverRefs, objects, vars
    <3> QED BY <1>2, <3>1 DEF CourseInv, OnCourse, SyncsLive, DualTurnedAway, ProviderDownload,
         ArchiveCompared, ObjectGone, RestsDone, AtRest
  <2> QED BY <1>2, <2>1, <2>2, <2>3 DEF Next
<1> QED BY <1>1, <1>2, Invariant, PTL DEF Spec

\* No wake-up is lost: for any number of Versions and workers, and whatever owners,
\* upstream, failures and restarts do, a Version the controller rests on is done with
\* (Reconcile and reconcileDeletion; every error is returned or requeued).
THEOREM RestsWhenDone == Spec => []RestsOnlyWhenDone
<1>1. CourseInv => RestsOnlyWhenDone
  BY DEF CourseInv, RestsOnlyWhenDone
<1> QED BY <1>1, CourseHolds, PTL

\* What a Version looks like that the controller has done with.
IsPublished(v) ==
    /\ Served(v) /\ api[v].fin
    /\ api[v].file \in FileNames /\ api[v].sum \in Archives
    /\ store[api[v].file] = api[v].sum

PublishedAtRest ==
    \A v \in Versions \ Dual : AtRest(v) /\ api[v].st # "absent" => IsPublished(v)

\* With a back end that returns the checksum of what it holds, a Version the controller
\* rests on is published: it is synced, and the storage holds under its file name the
\* archive of the checksum it records (Reconcile, to its end).
THEOREM RestsPublished ==
    ASSUME Backend # "azure"
    PROVE  Spec => []PublishedAtRest
<1>1. ASSUME IInv, CourseInv, NEW v \in Versions \ Dual, AtRest(v), api[v].st # "absent"
      PROVE  IsPublished(v)
  <2>1. Served(v) /\ api[v].fin
    BY <1>1 DEF CourseInv, RestsDone, Served
  <2>2. api[v].file # None /\ store[api[v].file] = api[v].sum
    BY <1>1, <2>1 DEF IInv, VersionInv, RestsConsistent, ConsistentAtRest
  <2>3. /\ api[v].file \in FileNames \cup {None} /\ api[v].sum \in Archives \cup {None}
        /\ store \in [FileNames -> Archives \cup {Absent, Torn}]
    BY <1>1, ObjectFields DEF IInv, TypeOK
  <2> QED BY <2>1, <2>2, <2>3, MarkersAreDistinct DEF IsPublished
<1>2. IInv /\ CourseInv => PublishedAtRest
  BY <1>1 DEF PublishedAtRest
<1> QED BY <1>2, Invariant, CourseHolds, PTL

\* Nothing else the controller does makes a Version disappear.
LEMMA OnlyUnfinalizeEnds ==
    ASSUME TypeOK, NEW v \in Versions, HasArchive(v), ControllerStep(v), EndsWithReconcile(v)
    PROVE  RemoveFinalizer(v)
<1>0. RunType
  BY DEF TypeOK, RunType
<1>1. ~(StartGone(v) \/ AddFinalizer(v) \/ StartDelete(v) \/ StartSync(v))
  BY DEF EndsWithReconcile, StartGone, AddFinalizer, StartDelete, StartSync, MayStart
<1>2. ~(RejectDual(v) \/ RejectReplaced(v) \/ BlockScan(v) \/ BlockSource(v) \/ Finish(v))
  BY RejectDualEffect, MarkUnsyncedEffect, FinishEffect
     DEF EndsWithReconcile, RejectReplaced, BlockScan, BlockSource
<1>3. ~FastPathHit(v)
  BY DEF EndsWithReconcile, FastPathHit, objects
<1>4. ~(Prepare(v) \/ FetchModule(v) \/ DownloadProvider(v) \/ EndScan(v))
  BY PrepareEffect, FetchModuleEffect, DownloadProviderEffect, EndScanEffect
     DEF EndsWithReconcile
<1>5. ~(FastPathMiss(v) \/ AcquireDownload(v) \/ Verify(v) \/ BeginPut(v) \/ EndPut(v)
              \/ BeginScan(v) \/ ScanFails(v) \/ MissSource(v) \/ SkipSource(v)
              \/ BeginSource(v) \/ NoGoMod(v)
              \/ EndSource(v) \/ SourceFails(v) \/ RemoveArtifact(v))
  BY DEF EndsWithReconcile, FastPathMiss, AcquireDownload, Verify, BeginPut, EndPut, BeginScan,
       ScanFails, MissSource, SkipSource, BeginSource, NoGoMod, EndSource, SourceFails,
       RemoveArtifact, objects
<1>6. ~Persist(v)
  BY PersistEffect DEF EndsWithReconcile
<1> QED BY <1>1, <1>2, <1>3, <1>4, <1>5, <1>6 DEF ControllerStep

\* A Version that disappears with the end of its reconcile leaves no artifact behind,
\* whatever deletes it, however often the deletion is retried and whoever rewrites the
\* Version meanwhile (reconcileDeletion).
THEOREM RemovesArtifactFirst == Spec => ArtifactGoesFirst
<1>1. ASSUME IInv, CourseInv, [Next]_vars, NEW w \in Versions, EndsWithReconcile(w)
      PROVE  HasPath(api[w]) => store[api[w].file] = Absent
  <2>1. api'[w] # api[w] /\ run'[w] # run[w]
    BY <1>1 DEF EndsWithReconcile
  <2>2. ~UNCHANGED vars /\ ~Crash /\ ~RecordRefs /\ ~ForgetNames /\ ~DeliverRefs
    BY <2>1 DEF vars, Crash, RecordRefs, WriteRefs, ForgetNames, DeliverRefs, objects
  <2>3. PICK v \in Versions :
            ControllerStep(v) \/ Abort(v) \/ Deliver(v) \/ Resync(v) \/ OwnerStep(v) \/ Retag(v)
    BY <1>1, <2>2 DEF Next
  <2>4. v = w
    BY <1>1, <2>1, <2>3, ControllerIsLocal, EnvironmentIsLocal
       DEF IInv, Local, OnlyActsOn, Untouched
  <2>5. ~(Abort(w) \/ Deliver(w) \/ Resync(w) \/ Retag(w))
    BY <2>1 DEF Abort, Deliver, Resync, Retag, objects
  <2>6. ~OwnerStep(w)
    BY <1>1, <2>1, OwnerEffect DEF IInv, Owned
  <2>7. RemoveFinalizer(w)
    BY <1>1, <2>3, <2>4, <2>5, <2>6, OnlyUnfinalizeEnds DEF IInv, VersionInv
  <2>8. run[w].pc = "unfinalize" /\ run[w].snap = api[w]
    BY <1>1, <2>7 DEF RemoveFinalizer, IInv, VersionInv, SnapshotCurrent
  <2> QED BY <1>1, <2>8 DEF CourseInv, ObjectGone
<1>2. IInv /\ CourseInv /\ [Next]_vars => [\A v \in Versions : ArtifactFirst(v)]_vars
  BY <1>1 DEF ArtifactFirst
<1> QED BY <1>2, Invariant, CourseHolds, PTL DEF Spec, ArtifactGoesFirst

----------------------------------------------------------------------------
(***************************************************************************)
(* The checksum of an immutable Version.                                   *)
(***************************************************************************)
\* What a step that keeps the checksum and the cache, or refreshes it, leaves.
LEMMA StaysRecalled ==
    ASSUME NEW v \in Versions, Recalled(v), api'[v].sum = api[v].sum,
           cache'[v] \in {cache[v], api[v]},
           run'[v].pc # "idle" => run'[v].snap.sum \in {run[v].snap.sum, cache[v].sum} /\
                                  (run[v].pc # "idle" \/ run'[v].snap.sum = cache[v].sum)
    PROVE  ChecksumKept(v)
BY DEF Recalled, ChecksumKept

\* Every write of the controller but Finish carries the checksum over, and Finish records
\* the archive that was compared.
LEMMA ControllerKeepsChecksum ==
    ASSUME TypeOK, NEW v \in Immutable, v \in Versions, VersionInv(v), OnCourse(v), Recalled(v),
           ControllerStep(v)
    PROVE  ChecksumKept(v)
<1>0. RunType /\ HasArchive(v)
  BY DEF TypeOK, RunType, VersionInv
<1>1. CASE StartGone(v)
  BY <1>1, StaysRecalled DEF StartGone, MayStart, objects
<1>2. CASE AddFinalizer(v)
  BY <1>2, AddFinalizerEffect, StaysRecalled DEF AddFinalizer, MayStart
<1>3. CASE StartDelete(v) \/ StartSync(v)
  <2>1. run'[v].snap = cache[v] /\ UNCHANGED <<api, cache>>
    BY <1>0, <1>3, SomePCs, BeginEffect DEF StartDelete, StartSync, Begin, TypeOK, objects
  <2> QED BY <2>1, StaysRecalled
<1>4. CASE Prepare(v) \/ FetchModule(v) \/ DownloadProvider(v) \/ EndScan(v)
  <2>1. run'[v].snap = run[v].snap /\ run[v].pc # "idle" /\ UNCHANGED <<api, cache>>
    BY <1>4, PrepareEffect, FetchModuleEffect, DownloadProviderEffect, EndScanEffect
       DEF Prepare, FetchModule, DownloadProvider, EndScan, objects
  <2> QED BY <2>1, StaysRecalled
<1>5. CASE RejectDual(v) \/ RejectReplaced(v) \/ BlockScan(v) \/ BlockSource(v)
  <2>1. run'[v].pc = "idle"
    BY <1>0, <1>5, CloseEffect DEF RejectDual, RejectReplaced, BlockScan, BlockSource
  <2>2. api'[v].sum = api[v].sum /\ cache' = cache
    BY <1>5, RejectDualEffect, MarkUnsyncedEffect
       DEF RejectDual, RejectReplaced, BlockScan, BlockSource
  <2> QED BY <2>1, <2>2, StaysRecalled
<1>6. CASE FastPathHit(v)
  BY <1>0, <1>6, CloseEffect, StaysRecalled DEF FastPathHit, objects
<1>7. CASE Persist(v)
  <2>1. run'[v].snap = run[v].snap /\ run[v].pc # "idle"
    BY <1>0, <1>7, SomePCs, GotoEffect DEF Persist
  <2> QED BY <1>7, <2>1, PersistEffect, StaysRecalled DEF Persist
<1>8. CASE FastPathMiss(v) \/ AcquireDownload(v) \/ Verify(v) \/ BeginPut(v) \/ EndPut(v)
              \/ BeginScan(v) \/ ScanFails(v) \/ MissSource(v) \/ SkipSource(v)
              \/ BeginSource(v) \/ NoGoMod(v)
              \/ EndSource(v) \/ SourceFails(v) \/ RemoveArtifact(v)
  <2>1. run'[v].snap = run[v].snap /\ run[v].pc # "idle"
    BY <1>0, <1>8, SomePCs, GotoEffect DEF FastPathMiss, AcquireDownload, Verify, BeginPut,
         EndPut, BeginScan, ScanFails, MissSource, SkipSource, BeginSource, NoGoMod, EndSource,
         SourceFails, AfterScan, RemoveArtifact
  <2>2. UNCHANGED <<api, cache>>
    BY <1>8 DEF FastPathMiss, AcquireDownload, Verify, BeginPut, EndPut, BeginScan, ScanFails,
         MissSource, SkipSource, BeginSource, NoGoMod, EndSource, SourceFails,
         RemoveArtifact, objects
  <2> QED BY <2>1, <2>2, StaysRecalled
<1>9. CASE Finish(v)
  <2>1. run[v].pc = "finish" /\ run'[v].pc = "idle" /\ cache' = cache
    BY <1>0, <1>9, CloseEffect DEF Finish
  <2>2. run[v].snap.sum = api[v].sum /\ api[v].sum # None
    BY <2>1 DEF Recalled
  <2>3. api'[v].sum = run[v].archive
    BY <1>0, <1>9, FinishEffect
  <2>4. run[v].archive = api[v].sum
    BY <2>1, <2>2 DEF OnCourse, ArchiveCompared, Published
  <2> QED BY <2>1, <2>3, <2>4, StaysRecalled
<1>10. CASE RemoveFinalizer(v)
  <2>1. api[v].st = "deleting"
    BY <1>10 DEF RemoveFinalizer, VersionInv, SnapshotCurrent, RemovesDead, Removing
  <2>2. api'[v].st = "absent"
    BY <1>10, <2>1, RemoveFinalizerEffect, IdleType
  <2> QED BY <2>2 DEF ChecksumKept
<1> QED BY <1>1, <1>2, <1>3, <1>4, <1>5, <1>6, <1>7, <1>8, <1>9, <1>10 DEF ControllerStep

LEMMA EnvironmentKeepsChecksum ==
    ASSUME TypeOK, NEW v \in Versions, Recalled(v),
           Abort(v) \/ Deliver(v) \/ Resync(v) \/ OwnerStep(v) \/ Retag(v)
    PROVE  ChecksumKept(v)
<1>1. CASE Abort(v)
  <2>1. run'[v].pc = "idle"
    BY <1>1, CloseEffect DEF Abort, TypeOK, RunType
  <2> QED BY <1>1, <2>1, StaysRecalled DEF Abort, objects
<1>2. CASE Deliver(v)
  BY <1>2, StaysRecalled DEF Deliver, Recalled, TypeOK
<1>3. CASE Resync(v) \/ Retag(v)
  BY <1>3, StaysRecalled DEF Resync, Retag, Recalled, objects
<1>4. CASE OwnerStep(v)
  <2>1. UNCHANGED <<cache, run>> /\ (api'[v] = NoVersion \/ api'[v].sum = api[v].sum)
    BY <1>4, OwnerEffect DEF Owned, Recalled
  <2>2. CASE api'[v].sum = api[v].sum
    BY <2>1, <2>2, StaysRecalled
  <2> QED BY <2>1, <2>2, IdleType DEF ChecksumKept
<1> QED BY <1>1, <1>2, <1>3, <1>4

\* Once the controller has seen the checksum of an immutable Version, no step changes it
\* but the one that ends the Version (the immutable check of Reconcile).
THEOREM KeepsImmutable == Spec => ImmutableOnceSeen
<1>1. ASSUME IInv, CourseInv, [Next]_vars, NEW w \in Immutable, ~UNCHANGED vars
      PROVE  ChecksumKept(w)
  <2>0. w \in Versions /\ TypeOK
    BY <1>1, OptionsType DEF Versions, IInv
  <2>1. SUFFICES ASSUME Recalled(w)
                 PROVE  ChecksumKept(w)
    BY DEF ChecksumKept
  <2>2. ASSUME NEW v \in Versions,
            ControllerStep(v) \/ Abort(v) \/ Deliver(v) \/ Resync(v) \/ OwnerStep(v) \/ Retag(v)
        PROVE  ChecksumKept(w)
    <3>1. VersionInv(v) /\ OnCourse(v)
      BY <1>1 DEF IInv, CourseInv
    <3>2. CASE v = w
      BY <1>1, <2>0, <2>1, <2>2, <3>1, <3>2, ControllerKeepsChecksum, EnvironmentKeepsChecksum
    <3>3. CASE v # w
      <4>1. Untouched(w)
        BY <2>0, <2>2, <3>1, <3>3, ControllerIsLocal, EnvironmentIsLocal DEF Local, OnlyActsOn
      <4> QED BY <2>1, <4>1 DEF Untouched, Recalled, ChecksumKept
    <3> QED BY <3>2, <3>3
  <2>3. CASE Crash
    BY <2>0, <2>1, <2>3, IdleType DEF Crash, Recalled, ChecksumKept
  <2>4. CASE RecordRefs \/ ForgetNames \/ DeliverRefs
    BY <2>1, <2>4 DEF RecordRefs, WriteRefs, ForgetNames, DeliverRefs, objects, Recalled,
         ChecksumKept
  <2> QED BY <1>1, <2>2, <2>3, <2>4 DEF Next
<1>2. IInv /\ CourseInv /\ [Next]_vars => [\A v \in Immutable : ChecksumKept(v)]_vars
  BY <1>1
<1> QED BY <1>2, Invariant, CourseHolds, PTL DEF Spec, ImmutableOnceSeen
=============================================================================
