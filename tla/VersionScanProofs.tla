------------------------- MODULE VersionScanProofs -------------------------
(***************************************************************************)
(* What the inductive invariant does not need: no step takes away the      *)
(* artifact of a Version that is served, the semaphores are held exactly   *)
(* where they should be, and nothing flagged passes a scan that completes. *)
(***************************************************************************)
EXTENDS VersionSafetyProofs

(***************************************************************************)
(* Who empties the storage.                                                *)
(***************************************************************************)
LEMMA OnlyRemovalEmpties ==
    ASSUME TypeOK, NEW v \in Versions, HasArchive(v), NEW f \in FileNames,
           ControllerStep(v) \/ Abort(v) \/ Deliver(v) \/ Resync(v) \/ OwnerStep(v) \/
                Retag(v),
           store'[f] = Absent, store[f] # Absent
    PROVE  run[v].pc = "remove" /\ f = run[v].snap.file
<1>1. store' # store
  OBVIOUS
<1>2. ~BeginPut(v)
  BY MarkersAreDistinct DEF BeginPut, TypeOK
<1>3. ~EndPut(v)
  <2>1. ASSUME EndPut(v)
        PROVE  run[v].archive \in Archives
    BY <2>1, ReconcileFields DEF EndPut, TypeOK, HasArchive, Uploading
  <2> QED BY <2>1, MarkersAreDistinct DEF EndPut, TypeOK
<1>4. CASE OwnerStep(v)
  BY <1>1, <1>4, OwnerEffect DEF Owned
<1>5. ~(Abort(v) \/ Deliver(v) \/ Resync(v) \/ Retag(v))
  BY <1>1 DEF Abort, Deliver, Resync, Retag
<1>6. CASE ControllerStep(v)
  <2>1. RemoveArtifact(v)
    BY <1>1, <1>2, <1>3, <1>6 DEF ControllerStep, StartGone, AddFinalizer, StartDelete,
         StartSync,
         Begin, Prepare, RejectDual, FetchModule, RejectReplaced, FastPathHit, FastPathMiss,
         AcquireDownload, DownloadProvider, Verify, Persist, BeginScan, EndScan, ScanFails,
         BlockScan, MissSource, SkipSource, BeginSource, NoGoMod, EndSource, SourceFails,
         BlockSource,
         Finish, RemoveFinalizer
  <2> QED BY <2>1 DEF RemoveArtifact, TypeOK
<1> QED BY <1>4, <1>5, <1>6

\* No step takes away the artifact of a Version that is served before and after
\* it (reconcileDeletion against every other Version and every later one).
THEOREM KeepsLiveArtifacts == Spec => LiveArtifactKept
<1>1. ASSUME IInv, [Next]_vars, NEW w \in Versions
      PROVE  [ArtifactKept(w)]_vars
  <2>1. SUFFICES ASSUME Next, Served(w), api[w].file # None, store'[api[w].file] = Absent,
                        store[api[w].file] # Absent
                 PROVE  FALSE
    BY <1>1 DEF ArtifactKept
  <2>2. api[w].file \in FileNames /\ api[w].file \in NamesOf(w)
    BY <1>1, <2>1, ObjectFields DEF IInv, TypeOK, NamesOf
  <2>3. ~Crash /\ ~RecordRefs /\ ~ForgetNames /\ ~DeliverRefs
    BY <2>1 DEF Crash, RecordRefs, WriteRefs, ForgetNames, DeliverRefs
  <2>4. PICK v \in Versions :
            ControllerStep(v) \/ Abort(v) \/ Deliver(v) \/ Resync(v) \/ OwnerStep(v) \/
                 Retag(v)
    BY <2>1, <2>3 DEF Next
  <2>5. run[v].pc = "remove" /\ api[w].file = run[v].snap.file
    BY <1>1, <2>1, <2>2, <2>4, OnlyRemovalEmpties DEF IInv, VersionInv
  <2>6. v = w
    BY <1>1, <2>1, <2>2, <2>5 DEF IInv, NamesDisjoint, NamesOf
  <2> QED BY <1>1, <2>1, <2>5, <2>6 DEF IInv, VersionInv, RemovesDead, Removing
<1>2. IInv /\ [Next]_vars => [ArtifactsKept]_vars
  BY <1>1 DEF ArtifactsKept
<1> QED BY <1>2, Invariant, PTL DEF Spec, LiveArtifactKept

(***************************************************************************)
(* Semaphores and the scan gate.                                           *)
(***************************************************************************)
\* A run past its binary or module scan carries nothing flagged, and no status
\* has the checksum of something flagged, be the Version synced or not.
Gated(v) == Scanned(v) /\ ~ScansMayFail

GateInv(v) ==
    Gated(v) =>
        /\ api[v].sum \notin Flagged
        /\ run[v].pc \in {"source", "gomod", "sourcing", "finish"} => run[v].archive \notin Flagged

SemInv(v) ==
    /\ dlSem = v <=> run[v].pc = "download"
    /\ scanSem = v <=> run[v].pc \in {"scanning", "sourcing"}

\* A semaphore goes only from nobody to v or from v to nobody.
Passes(sem, next, v) == next = sem \/ (sem = None /\ next = v) \/ (sem = v /\ next = None)

Guarded(v) == SemInv(v)' /\ GateInv(v)' /\ Passes(dlSem, dlSem', v) /\ Passes(scanSem,
     scanSem', v)

\* Nothing but Finish gives a Version another checksum.
NoNewClaim(v) == api'[v].sum \in {api[v].sum, None}

LEMMA NothingIsFlagged == None \notin Flagged
BY OptionsType, MarkersAreDistinct DEF Archives

LEMMA ControllerGuarded ==
    ASSUME IInv, NEW v \in Versions, SemInv(v), GateInv(v), ControllerStep(v)
    PROVE  Guarded(v)
<1> USE DEF IInv
<1>0. TypeOK /\ RunType /\ None # v /\ HasArchive(v)
  BY MarkersAreDistinct DEF TypeOK, RunType, VersionInv
<1>1. CASE StartGone(v)
  BY <1>1 DEF StartGone, objects, sems, SemInv, GateInv, Guarded, Passes
<1>2. CASE AddFinalizer(v)
  BY <1>0, <1>2, AddFinalizerEffect DEF AddFinalizer, sems, SemInv, GateInv, Guarded, Passes
<1>3. CASE StartDelete(v)
  <2>1. run[v].pc = "idle" /\ run'[v].pc \in {"prepare", "remove", "unfinalize"}
    BY <1>0, <1>3, SomePCs, BeginEffect DEF StartDelete, MayStart, TypeOK
  <2> QED BY <1>0, <1>3, <2>1 DEF StartDelete, Begin, objects, sems, SemInv, GateInv,
       Guarded, Passes
<1>4. CASE StartSync(v)
  <2>1. run[v].pc = "idle" /\ run'[v].pc \in {"prepare", "remove", "unfinalize"}
    BY <1>0, <1>4, SomePCs, BeginEffect DEF StartSync, MayStart, TypeOK
  <2> QED BY <1>0, <1>4, <2>1 DEF StartSync, Begin, objects, sems, SemInv, GateInv,
       Guarded, Passes
<1>5. CASE Prepare(v)
  BY <1>0, <1>5, PrepareEffect DEF Prepare, objects, sems, SemInv, GateInv, Guarded, Passes
<1>6. CASE RejectDual(v)
  <2>1. run'[v].pc = "idle"
    BY <1>0, <1>6, CloseEffect DEF RejectDual
  <2>2. NoNewClaim(v)
    BY <1>0, <1>6, RejectDualEffect DEF RejectDual, NoNewClaim
  <2> QED BY <1>0, <1>6, <2>1, <2>2, NothingIsFlagged DEF RejectDual, NoNewClaim, sems, SemInv, GateInv,
       Guarded, Passes
<1>7. CASE FetchModule(v)
  BY <1>0, <1>7, FetchModuleEffect DEF FetchModule, objects, sems, SemInv, GateInv,
       Guarded, Passes
<1>8. CASE RejectReplaced(v)
  <2>1. run'[v].pc = "idle"
    BY <1>0, <1>8, CloseEffect DEF RejectReplaced
  <2>2. NoNewClaim(v)
    BY <1>0, <1>8, MarkUnsyncedEffect DEF RejectReplaced, NoNewClaim
  <2> QED BY <1>0, <1>8, <2>1, <2>2, NothingIsFlagged DEF RejectReplaced, NoNewClaim, sems, SemInv,
       GateInv, Guarded, Passes
<1>9. CASE FastPathHit(v)
  <2>1. run'[v].pc = "idle"
    BY <1>0, <1>9, CloseEffect DEF FastPathHit
  <2>2. NoNewClaim(v)
    BY <1>0, <1>9 DEF FastPathHit, objects, NoNewClaim
  <2> QED BY <1>0, <1>9, <2>1, <2>2, NothingIsFlagged DEF FastPathHit, NoNewClaim, sems, SemInv, GateInv,
       Guarded, Passes
<1>10. CASE FastPathMiss(v)
  <2>1. /\ run'[v].pc = "acquire" /\ run'[v].archive = run[v].archive
    BY <1>0, <1>10, SomePCs, GotoEffect DEF FastPathMiss, Versions
  <2> QED BY <1>0, <1>10, <2>1 DEF FastPathMiss, objects, sems, SemInv, GateInv,
       Guarded, Passes
<1>11. CASE AcquireDownload(v)
  <2>1. /\ run'[v].pc = "download" /\ run'[v].archive = run[v].archive
    BY <1>0, <1>11, SomePCs, GotoEffect DEF AcquireDownload, Versions
  <2> QED BY <1>0, <1>11, <2>1 DEF AcquireDownload, objects, sems, SemInv, GateInv,
       Guarded, Passes
<1>12. CASE DownloadProvider(v)
  BY <1>0, <1>12, DownloadProviderEffect DEF DownloadProvider, objects, sems, SemInv,
       GateInv, Guarded, Passes
<1>13. CASE Verify(v)
  <2>1. /\ run'[v].pc \in {"putAgain", "persist"} /\ run'[v].archive = run[v].archive
    BY <1>0, <1>13, SomePCs, GotoEffect DEF Verify, Versions
  <2> QED BY <1>0, <1>13, <2>1 DEF Verify, objects, sems, SemInv, GateInv, Guarded, Passes
<1>14. CASE BeginPut(v)
  <2>1. /\ run'[v].pc \in {"writeFirst", "writeAgain"} /\ run'[v].archive = run[v].archive
    BY <1>0, <1>14, SomePCs, GotoEffect DEF BeginPut, Versions
  <2> QED BY <1>0, <1>14, <2>1 DEF BeginPut, objects, sems, SemInv, GateInv, Guarded, Passes
<1>15. CASE EndPut(v)
  <2>1. /\ run'[v].pc \in {"putAgain", "persist"} /\ run'[v].archive = run[v].archive
    BY <1>0, <1>15, SomePCs, GotoEffect DEF EndPut, Versions
  <2> QED BY <1>0, <1>15, <2>1 DEF EndPut, objects, sems, SemInv, GateInv, Guarded,
       Passes, Uploading
<1>16. CASE Persist(v)
  <2>1. /\ run'[v].pc \in {"scan", "finish"} /\ run'[v].archive = run[v].archive
        /\ Gated(v) => run'[v].pc = "scan"
    BY <1>0, <1>16, SomePCs, GotoEffect DEF Persist, Gated, Versions
  <2>2. NoNewClaim(v)
    BY <1>0, <1>16, PersistEffect DEF NoNewClaim
  <2> QED BY <1>0, <1>16, <2>1, <2>2, NothingIsFlagged DEF Persist, NoNewClaim, sems, SemInv, GateInv,
       Guarded, Passes
<1>17. CASE BeginScan(v)
  <2>1. /\ run'[v].pc = "scanning" /\ run'[v].archive = run[v].archive
    BY <1>0, <1>17, SomePCs, GotoEffect DEF BeginScan, Versions
  <2> QED BY <1>0, <1>17, <2>1 DEF BeginScan, objects, sems, SemInv, GateInv, Guarded,
       Passes
<1>18. CASE EndScan(v)
  BY <1>0, <1>18, EndScanEffect DEF EndScan, objects, SemInv, GateInv, Guarded, Passes
<1>19. CASE ScanFails(v)
  <2>1. /\ run'[v].pc \in {"source", "finish"} /\ run'[v].archive = run[v].archive
    BY <1>0, <1>19, SomePCs, GotoEffect DEF ScanFails, AfterScan, Versions
  <2>2. run[v].archive \notin Flagged \/ ScansMayFail
    BY <1>19, OptionsType, MarkersAreDistinct DEF ScanFails
  <2> QED BY <1>0, <1>19, <2>1, <2>2 DEF ScanFails, objects, sems, SemInv, GateInv, Guarded,
             Passes, Gated
<1>20. CASE BlockScan(v)
  <2>1. run'[v].pc = "idle"
    BY <1>0, <1>20, CloseEffect DEF BlockScan
  <2>2. NoNewClaim(v)
    BY <1>0, <1>20, MarkUnsyncedEffect DEF BlockScan, NoNewClaim
  <2> QED BY <1>0, <1>20, <2>1, <2>2, NothingIsFlagged DEF BlockScan, NoNewClaim, sems, SemInv, GateInv,
       Guarded, Passes
<1>21. CASE SkipSource(v)
  <2>1. /\ run'[v].pc = "finish" /\ run'[v].archive = run[v].archive
    BY <1>0, <1>21, SomePCs, GotoEffect DEF SkipSource, Versions
  <2> QED BY <1>0, <1>21, <2>1 DEF SkipSource, objects, sems, SemInv, GateInv, Guarded,
       Passes
<1>21a. CASE MissSource(v)
  <2>1. /\ run'[v].pc = "gomod" /\ run'[v].archive = run[v].archive
    BY <1>0, <1>21a, SomePCs, GotoEffect DEF MissSource, Versions
  <2> QED BY <1>0, <1>21a, <2>1 DEF MissSource, objects, sems, SemInv, GateInv, Guarded,
       Passes
<1>22. CASE BeginSource(v)
  <2>1. /\ run'[v].pc = "sourcing" /\ run'[v].archive = run[v].archive
    BY <1>0, <1>22, SomePCs, GotoEffect DEF BeginSource, Versions
  <2> QED BY <1>0, <1>22, <2>1 DEF BeginSource, objects, sems, SemInv, GateInv, Guarded,
       Passes
<1>23. CASE NoGoMod(v)
  <2>1. /\ run'[v].pc = "finish" /\ run'[v].archive = run[v].archive
    BY <1>0, <1>23, SomePCs, GotoEffect DEF NoGoMod, Versions
  <2> QED BY <1>0, <1>23, <2>1 DEF NoGoMod, objects, sems, SemInv, GateInv, Guarded, Passes
<1>24. CASE EndSource(v)
  <2>1. /\ run'[v].pc = "finish" /\ run'[v].archive = run[v].archive
    BY <1>0, <1>24, SomePCs, GotoEffect DEF EndSource, Versions
  <2> QED BY <1>0, <1>24, <2>1 DEF EndSource, objects, sems, SemInv, GateInv, Guarded,
       Passes
<1>25. CASE SourceFails(v)
  <2>1. /\ run'[v].pc = "finish" /\ run'[v].archive = run[v].archive
    BY <1>0, <1>25, SomePCs, GotoEffect DEF SourceFails, Versions
  <2> QED BY <1>0, <1>25, <2>1 DEF SourceFails, objects, sems, SemInv, GateInv, Guarded,
       Passes
<1>26. CASE BlockSource(v)
  <2>1. run'[v].pc = "idle"
    BY <1>0, <1>26, CloseEffect DEF BlockSource
  <2>2. NoNewClaim(v)
    BY <1>0, <1>26, MarkUnsyncedEffect DEF BlockSource, NoNewClaim
  <2> QED BY <1>0, <1>26, <2>1, <2>2, NothingIsFlagged DEF BlockSource, NoNewClaim, sems, SemInv, GateInv,
       Guarded, Passes
<1>27. CASE Finish(v)
  <2>1. run'[v].pc = "idle"
    BY <1>0, <1>27, CloseEffect DEF Finish
  <2>2. Gated(v) => api'[v].sum \notin Flagged
    BY <1>0, <1>27, FinishEffect DEF Finish, GateInv
  <2> QED BY <1>0, <1>27, <2>1, <2>2 DEF Finish, sems, SemInv, GateInv, Guarded, Passes
<1>28. CASE RemoveArtifact(v)
  <2>1. /\ run'[v].pc = "unfinalize" /\ run'[v].archive = run[v].archive
    BY <1>0, <1>28, SomePCs, GotoEffect DEF RemoveArtifact, Versions
  <2> QED BY <1>0, <1>28, <2>1 DEF RemoveArtifact, objects, sems, SemInv, GateInv,
       Guarded, Passes
<1>29. CASE RemoveFinalizer(v)
  <2>1. run'[v].pc = "idle"
    BY <1>0, <1>29, CloseEffect DEF RemoveFinalizer
  <2>2. NoNewClaim(v)
    BY <1>0, <1>29, RemoveFinalizerEffect, IdleType DEF RemoveFinalizer, NoNewClaim
  <2> QED BY <1>0, <1>29, <2>1, <2>2, NothingIsFlagged DEF RemoveFinalizer, NoNewClaim, sems, SemInv,
       GateInv, Guarded, Passes
<1> QED BY <1>1, <1>2, <1>3, <1>4, <1>5, <1>6, <1>7, <1>8, <1>9, <1>10, <1>11, <1>12,
     <1>13, <1>14, <1>15, <1>16, <1>17, <1>18, <1>19, <1>20, <1>21, <1>21a, <1>22, <1>23, <1>24,
     <1>25, <1>26, <1>27, <1>28, <1>29 DEF ControllerStep

LEMMA EnvironmentGuarded ==
    ASSUME IInv, NEW v \in Versions, SemInv(v), GateInv(v),
           Abort(v) \/ Deliver(v) \/ Resync(v) \/ OwnerStep(v) \/ Retag(v)
    PROVE  Guarded(v)
<1>0. TypeOK /\ RunType /\ None # v
  BY MarkersAreDistinct DEF IInv, TypeOK, RunType
<1>1. CASE Abort(v)
  <2>1. run'[v].pc = "idle"
    BY <1>0, <1>1, CloseEffect DEF Abort
  <2> QED BY <1>0, <1>1, <2>1 DEF Abort, Released, objects, SemInv, GateInv, Guarded, Passes
<1>2. CASE Deliver(v) \/ Resync(v) \/ Retag(v)
  BY <1>2 DEF Deliver, Resync, Retag, objects, sems, SemInv, GateInv, Guarded, Passes
<1>3. CASE OwnerStep(v)
  BY <1>0, <1>3, OwnerEffect, NothingIsFlagged DEF Owned, sems, SemInv, GateInv, Guarded, Passes
<1> QED BY <1>1, <1>2, <1>3

GuardInv == \A v \in Versions : SemInv(v) /\ GateInv(v)

LEMMA GuardStep ==
    ASSUME IInv, GuardInv, [Next]_vars
    PROVE  GuardInv'
<1>1. ASSUME NEW v \in Versions,
             ControllerStep(v) \/ Abort(v) \/ Deliver(v) \/ Resync(v) \/ OwnerStep(v) \/
                  Retag(v)
      PROVE  GuardInv'
  <2>1. Guarded(v)
    BY <1>1, ControllerGuarded, EnvironmentGuarded DEF GuardInv
  <2>2. Local(v)
    BY <1>1, ControllerIsLocal, EnvironmentIsLocal DEF IInv
  <2>3. ASSUME NEW w \in Versions \ {v}
        PROVE  SemInv(w)' /\ GateInv(w)'
    <3>1. /\ run'[w] = run[w] /\ api'[w] = api[w] /\ SemInv(w) /\ GateInv(w)
          /\ w # v /\ w # None
      BY <2>2, MarkersAreDistinct DEF Local, OnlyActsOn, Untouched, GuardInv
    <3>2. (dlSem' = w <=> dlSem = w) /\ (scanSem' = w <=> scanSem = w)
      BY <2>1, <3>1 DEF Guarded, Passes
    <3> QED BY <3>1, <3>2 DEF SemInv, GateInv
  <2> QED BY <2>1, <2>3 DEF Guarded, GuardInv
<1>2. CASE Crash
  BY <1>2, IdleType, MarkersAreDistinct DEF Crash, GuardInv, SemInv, GateInv
<1>3. CASE RecordRefs \/ ForgetNames \/ DeliverRefs
  BY <1>3 DEF RecordRefs, WriteRefs, ForgetNames, DeliverRefs, objects, sems, GuardInv, SemInv, GateInv
<1>4. CASE UNCHANGED vars
  BY <1>4 DEF vars, GuardInv, SemInv, GateInv
<1> QED BY <1>1, <1>2, <1>3, <1>4 DEF Next

LEMMA GuardHolds == Spec => []GuardInv
<1>1. Init => GuardInv
  BY IdleType, MarkersAreDistinct, NothingIsFlagged DEF Init, GuardInv, SemInv, GateInv
<1>2. IInv /\ GuardInv /\ [Next]_vars => GuardInv'
  BY GuardStep
<1> QED BY <1>1, <1>2, Invariant, PTL DEF Spec

\* downloadSem and scanSem are held exactly while their holder downloads or runs
\* trivy: no early return, error or restart leaks one.
THEOREM HoldsSemaphores == Spec => []SemaphoresHeld
<1>1. GuardInv => SemaphoresHeld
  BY DEF GuardInv, SemInv, SemaphoresHeld
<1> QED BY <1>1, GuardHolds, PTL

\* With scans that always complete, an archive with blocking findings is never
\* recorded as synced (runProviderScan, runModuleScan).
THEOREM GatesScans == Spec => []ScanGate
<1>1. GuardInv => ScanGate
  BY DEF GuardInv, GateInv, Gated, Scanned, ScanGate, Served
<1> QED BY <1>1, GuardHolds, PTL
=============================================================================
