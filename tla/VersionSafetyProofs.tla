--------------------- MODULE VersionSafetyProofs ---------------------
(***************************************************************************)
(* The inductive invariant of VersionInvariant, and the theorems it gives. *)
(*                                                                         *)
(* The argument has three parts.  A step for v touches nothing of another  *)
(* Version w, and changes the storage only under names of v; since the     *)
(* names of different Versions are disjoint, the invariant of w is kept    *)
(* (OtherVersions).  A step for v brings in only names nobody uses         *)
(* (NamesStayDisjoint).  What is left is the invariant of v itself, action *)
(* by action.                                                              *)
(***************************************************************************)
EXTENDS VersionTypeProofs

Untouched(w) ==
    /\ api'[w] = api[w] /\ cache'[w] = cache[w] /\ run'[w] = run[w]
    /\ NamesOf(w)' \subseteq NamesOf(w)
    /\ w \in news' <=> w \in news
    /\ w \in queued' <=> w \in queued
    /\ w \in fresh' <=> w \in fresh

\* A step for v touches only v, and the storage only under the names of v.
OnlyActsOn(v) ==
    /\ \A w \in Versions \ {v} : Untouched(w)
    /\ \A f \in FileNames : f \notin NamesOf(v) => store'[f] = store[f]

\* A step for v adds to the names of v only names drawn afresh.
DrawsNames(v) == \A f \in FileNames : f \in NamesOf(v)' => f \in NamesOf(v) \/ f \in Unused

LEMMA NamesAreFileNames ==
    ASSUME TypeOK, NEW v \in Versions
    PROVE  NamesOf(v) \subseteq FileNames
<1>1. run[v].file \in FileNames \cup {None} /\ run[v].snap \in VersionObject
  BY ReconcileFields DEF TypeOK
<1>2. /\ api[v].file \in FileNames \cup {None} /\ cache[v].file \in FileNames \cup {None}
      /\ run[v].snap.file \in FileNames \cup {None} /\ ref[v] \in FileNames \cup {None}
      /\ seen[v] \in FileNames \cup {None} /\ hand[v].name \in FileNames \cup {None}
  BY <1>1, ObjectFields, HeldFields DEF TypeOK
<1> QED BY <1>1, <1>2 DEF NamesOf

LEMMA NamesStayDisjoint ==
    ASSUME TypeOK, NamesDisjoint, NEW v \in Versions, OnlyActsOn(v), DrawsNames(v)
    PROVE  NamesDisjoint'
<1>1. \A w \in Versions \ {v} : NamesOf(w)' \subseteq NamesOf(w)
  BY DEF OnlyActsOn, Untouched
<1>2. \A w \in Versions : NamesOf(w) \subseteq FileNames
  BY NamesAreFileNames
<1> QED BY <1>1, <1>2 DEF NamesDisjoint, DrawsNames, Unused

\* The invariant of the Versions a step does not act on.
LEMMA OtherVersions ==
    ASSUME TypeOK, NamesDisjoint, NEW v \in Versions, NEW w \in Versions \ {v},
           VersionInv(w), OnlyActsOn(v)
    PROVE  VersionInv(w)'
<1>1. Untouched(w)
  BY DEF OnlyActsOn
<1>2. \A f \in NamesOf(w) : store'[f] = store[f]
  BY NamesAreFileNames DEF OnlyActsOn, NamesDisjoint
<1>3. /\ run[w].file # None => store'[run[w].file] = store[run[w].file]
      /\ api[w].file # None => store'[api[w].file] = store[api[w].file]
  BY <1>2 DEF NamesOf
<1>4. CacheCurrent(w)' /\ Awake(w)' /\ SnapshotCurrent(w)' /\ HasArchive(w)'
      /\ SourceOfProvider(w)' /\ NamePersisted(w)' /\ RemovesDead(w)' /\ DeadStaysDead(w)'
  BY <1>1 DEF Untouched, VersionInv, CacheCurrent, Awake, SnapshotCurrent, HasArchive,
              SourceOfProvider, NamePersisted, RemovesDead, DeadStaysDead, Served
<1>5. Uploaded(w)'
  BY <1>1, <1>3 DEF Untouched, VersionInv, Uploaded, HasArchive
<1>6. RestsConsistent(w)'
  BY <1>1, <1>3 DEF Untouched, VersionInv, RestsConsistent, ConsistentAtRest, AtRest, Served
<1> QED BY <1>4, <1>5, <1>6 DEF VersionInv

(***************************************************************************)
(* Every action acts on one Version, and draws its new names.              *)
(***************************************************************************)
Local(v) == OnlyActsOn(v) /\ DrawsNames(v)


LEMMA LocalStep ==
    ASSUME TypeOK, NEW v \in Versions,
           Wrote(v, api'[v]) \/ UNCHANGED <<api, news>>,
           \A w \in Versions \ {v} : run'[w] = run[w] /\ cache'[w] = cache[w],
           UNCHANGED <<ref, seen, hand>> \/ (HoldsNames(v) /\ seen' = seen),
           queued' \in {queued, queued \ {v}, queued \cup {v}},
           fresh' \in {fresh, fresh \ {v}, fresh \cup {v}},
           \A f \in FileNames : f \notin NamesOf(v) => store'[f] = store[f],
           {api'[v].file, cache'[v].file, run'[v].file, run'[v].snap.file}
              \subseteq NamesOf(v) \cup Unused \cup {None}
    PROVE  Local(v)
<1>1. ASSUME NEW w \in Versions \ {v}
      PROVE  Untouched(w)
  <2>1. /\ api'[w] = api[w] /\ cache'[w] = cache[w] /\ run'[w] = run[w] /\ seen'[w] = seen[w]
        /\ hand'[w] = hand[w] /\ ref'[w] \in {None, ref[w], hand[w].name}
    BY DEF Wrote, HoldsNames
  <2>2. NamesOf(w)' \subseteq NamesOf(w)
    BY <2>1 DEF NamesOf
  <2> QED BY <2>1, <2>2 DEF Untouched, Wrote
<1>2. /\ hand'[v].name \in NamesOf(v) \cup Unused \cup {None} /\ seen'[v] = seen[v]
      /\ ref'[v] \in {None, ref[v], hand'[v].name}
  BY DEF HoldsNames, NamesOf
<1>3. DrawsNames(v)
  BY <1>2 DEF DrawsNames, NamesOf
<1> QED BY <1>1, <1>3 DEF Local, OnlyActsOn

\* The same for a step that leaves the resource alone and moves the run on.
LEMMA LocalMove ==
    ASSUME TypeOK, NEW v \in Versions,
           \A w \in Versions \ {v} : run'[w] = run[w],
           run'[v].snap = run[v].snap,
           run'[v].file \in {run[v].file} \cup Unused \cup NamesOf(v) \cup {None},
           \A f \in FileNames : f \notin NamesOf(v) => store'[f] = store[f],
           UNCHANGED <<api, news, cache, ref, seen, hand, queued, fresh>>
    PROVE  Local(v)
<1>1. {api'[v].file, cache'[v].file, run'[v].file, run'[v].snap.file}
         \subseteq NamesOf(v) \cup Unused \cup {None}
  BY DEF NamesOf
<1> QED BY <1>1, LocalStep

\* The same for a step that ends the run.
LEMMA LocalEnd ==
    ASSUME TypeOK, NEW v \in Versions, Close(v),
           Wrote(v, api'[v]) \/ UNCHANGED <<api, news>>,
           api'[v].file \in {api[v].file, None},
           queued' \in {queued, queued \ {v}, queued \cup {v}},
           UNCHANGED <<cache, ref, seen, hand, store>>
    PROVE  Local(v)
<1>1. /\ run'[v].file = None /\ run'[v].snap.file = None
      /\ \A w \in Versions \ {v} : run'[w] = run[w]
      /\ fresh' = fresh \ {v}
  BY CloseEffect DEF TypeOK, RunType
<1>2. {api'[v].file, cache'[v].file, run'[v].file, run'[v].snap.file}
         \subseteq NamesOf(v) \cup Unused \cup {None}
  BY <1>1 DEF NamesOf
<1> QED BY <1>1, <1>2, LocalStep

LEMMA ControllerIsLocal ==
    ASSUME TypeOK, NEW v \in Versions, VersionInv(v), ControllerStep(v)
    PROVE  Local(v)
<1>1. CASE StartGone(v)
  BY <1>1, LocalStep DEF StartGone, objects, outside, NamesOf
<1>2. CASE AddFinalizer(v)
  BY <1>2, AddFinalizerEffect, LocalStep DEF AddFinalizer, outside, NamesOf
<1>3. CASE StartDelete(v)
  <2>1. /\ run'[v].file = cache[v].file /\ run'[v].snap.file = cache[v].file
        /\ \A w \in Versions \ {v} : run'[w] = run[w]
    BY <1>3, SomePCs, BeginEffect DEF StartDelete, TypeOK, RunType
  <2> QED BY <1>3, <2>1, LocalStep DEF StartDelete, Begin, objects, outside, NamesOf
<1>4. CASE StartSync(v)
  <2>1. /\ run'[v].file = cache[v].file /\ run'[v].snap.file = cache[v].file
        /\ \A w \in Versions \ {v} : run'[w] = run[w]
    BY <1>4, SomePCs, BeginEffect DEF StartSync, TypeOK, RunType
  <2> QED BY <1>4, <2>1, LocalStep DEF StartSync, Begin, objects, outside, NamesOf
<1>5. CASE Prepare(v)
  <2>1. PreparedNames(v) \subseteq NamesOf(v) \cup Unused \cup {None}
    BY DEF PreparedNames, NamesOf
  <2> QED BY <1>5, <2>1, PrepareEffect, LocalMove DEF Prepare, objects, outside
<1>6. CASE RejectDual(v)
  BY <1>6, RejectDualEffect, LocalEnd DEF RejectDual, outside
<1>7. CASE FetchModule(v)
  BY <1>7, FetchModuleEffect, LocalMove DEF FetchModule, objects, outside
<1>8. CASE RejectReplaced(v)
  BY <1>8, MarkUnsyncedEffect, LocalEnd DEF RejectReplaced, Requeue, outside
<1>9. CASE FastPathHit(v)
  BY <1>9, LocalEnd DEF FastPathHit, objects, outside
<1>10. CASE FastPathMiss(v)
  <2>1. /\ run'[v].file = run[v].file /\ run'[v].snap = run[v].snap
        /\ \A w \in Versions \ {v} : run'[w] = run[w]
    BY <1>10, SomePCs, GotoEffect DEF FastPathMiss, TypeOK, RunType
  <2> QED BY <1>10, <2>1, LocalMove DEF FastPathMiss, objects, outside
<1>11. CASE AcquireDownload(v)
  <2>1. /\ run'[v].file = run[v].file /\ run'[v].snap = run[v].snap
        /\ \A w \in Versions \ {v} : run'[w] = run[w]
    BY <1>11, SomePCs, GotoEffect DEF AcquireDownload, TypeOK, RunType
  <2> QED BY <1>11, <2>1, LocalMove DEF AcquireDownload, objects, outside
<1>12. CASE DownloadProvider(v)
  BY <1>12, DownloadProviderEffect, LocalMove DEF DownloadProvider, objects, outside
<1>13. CASE Verify(v)
  <2>1. /\ run'[v].file = run[v].file /\ run'[v].snap = run[v].snap
        /\ \A w \in Versions \ {v} : run'[w] = run[w]
    BY <1>13, SomePCs, GotoEffect DEF Verify, TypeOK, RunType
  <2> QED BY <1>13, <2>1, LocalMove DEF Verify, objects, outside
<1>14. CASE BeginPut(v)
  <2>1. /\ run'[v].file = run[v].file /\ run'[v].snap = run[v].snap
        /\ \A w \in Versions \ {v} : run'[w] = run[w]
    BY <1>14, SomePCs, GotoEffect DEF BeginPut, TypeOK, RunType
  <2>2. \A f \in FileNames : f # run[v].file => store'[f] = store[f]
    BY <1>14 DEF BeginPut, TypeOK
  <2>3. \A f \in FileNames : f \notin NamesOf(v) => store'[f] = store[f]
    BY <2>2, MarkersAreDistinct DEF NamesOf
  <2> QED BY <1>14, <2>1, <2>3, LocalMove DEF BeginPut, objects, outside
<1>15. CASE EndPut(v)
  <2>1. /\ run'[v].file = run[v].file /\ run'[v].snap = run[v].snap
        /\ \A w \in Versions \ {v} : run'[w] = run[w]
    BY <1>15, SomePCs, GotoEffect DEF EndPut, TypeOK, RunType
  <2>2. \A f \in FileNames : f # run[v].file => store'[f] = store[f]
    BY <1>15 DEF EndPut, TypeOK
  <2>3. \A f \in FileNames : f \notin NamesOf(v) => store'[f] = store[f]
    BY <2>2, MarkersAreDistinct DEF NamesOf
  <2> QED BY <1>15, <2>1, <2>3, LocalMove DEF EndPut, objects, outside
<1>16. CASE Persist(v)
  <2>1. /\ run'[v].file = run[v].file /\ run'[v].snap = run[v].snap
        /\ \A w \in Versions \ {v} : run'[w] = run[w]
    BY <1>16, SomePCs, GotoEffect DEF Persist, TypeOK, RunType
  <2> QED BY <1>16, <2>1, PersistEffect, LocalStep DEF Persist, outside, NamesOf
<1>17. CASE BeginScan(v)
  <2>1. /\ run'[v].file = run[v].file /\ run'[v].snap = run[v].snap
        /\ \A w \in Versions \ {v} : run'[w] = run[w]
    BY <1>17, SomePCs, GotoEffect DEF BeginScan, TypeOK, RunType
  <2> QED BY <1>17, <2>1, LocalMove DEF BeginScan, objects, outside
<1>18. CASE EndScan(v)
  BY <1>18, EndScanEffect, LocalMove DEF EndScan, objects, outside
<1>19. CASE ScanFails(v)
  <2>1. /\ run'[v].file = run[v].file /\ run'[v].snap = run[v].snap
        /\ \A w \in Versions \ {v} : run'[w] = run[w]
    BY <1>19, SomePCs, GotoEffect DEF ScanFails, TypeOK, RunType, AfterScan
  <2> QED BY <1>19, <2>1, LocalMove DEF ScanFails, objects, outside
<1>20. CASE BlockScan(v)
  BY <1>20, MarkUnsyncedEffect, LocalEnd DEF BlockScan, Requeue, outside
<1>21. CASE SkipSource(v)
  <2>1. /\ run'[v].file = run[v].file /\ run'[v].snap = run[v].snap
        /\ \A w \in Versions \ {v} : run'[w] = run[w]
    BY <1>21, SomePCs, GotoEffect DEF SkipSource, TypeOK, RunType
  <2> QED BY <1>21, <2>1, LocalMove DEF SkipSource, objects, outside
<1>21a. CASE MissSource(v)
  <2>1. /\ run'[v].file = run[v].file /\ run'[v].snap = run[v].snap
        /\ \A w \in Versions \ {v} : run'[w] = run[w]
    BY <1>21a, SomePCs, GotoEffect DEF MissSource, TypeOK, RunType
  <2> QED BY <1>21a, <2>1, LocalMove DEF MissSource, objects, outside
<1>22. CASE BeginSource(v)
  <2>1. /\ run'[v].file = run[v].file /\ run'[v].snap = run[v].snap
        /\ \A w \in Versions \ {v} : run'[w] = run[w]
    BY <1>22, SomePCs, GotoEffect DEF BeginSource, TypeOK, RunType
  <2> QED BY <1>22, <2>1, LocalMove DEF BeginSource, objects, outside
<1>23. CASE NoGoMod(v)
  <2>1. /\ run'[v].file = run[v].file /\ run'[v].snap = run[v].snap
        /\ \A w \in Versions \ {v} : run'[w] = run[w]
    BY <1>23, SomePCs, GotoEffect DEF NoGoMod, TypeOK, RunType
  <2> QED BY <1>23, <2>1, LocalMove DEF NoGoMod, objects, outside
<1>24. CASE EndSource(v)
  <2>1. /\ run'[v].file = run[v].file /\ run'[v].snap = run[v].snap
        /\ \A w \in Versions \ {v} : run'[w] = run[w]
    BY <1>24, SomePCs, GotoEffect DEF EndSource, TypeOK, RunType
  <2> QED BY <1>24, <2>1, LocalMove DEF EndSource, objects, outside
<1>25. CASE SourceFails(v)
  <2>1. /\ run'[v].file = run[v].file /\ run'[v].snap = run[v].snap
        /\ \A w \in Versions \ {v} : run'[w] = run[w]
    BY <1>25, SomePCs, GotoEffect DEF SourceFails, TypeOK, RunType
  <2> QED BY <1>25, <2>1, LocalMove DEF SourceFails, objects, outside
<1>26. CASE BlockSource(v)
  BY <1>26, MarkUnsyncedEffect, LocalEnd DEF BlockSource, Requeue, outside
<1>27. CASE Finish(v)
  BY <1>27, FinishEffect, LocalEnd DEF Finish, outside, VersionInv
<1>28. CASE RemoveArtifact(v)
  <2>1. /\ run'[v].file = run[v].file /\ run'[v].snap = run[v].snap
        /\ \A w \in Versions \ {v} : run'[w] = run[w]
    BY <1>28, SomePCs, GotoEffect DEF RemoveArtifact, TypeOK, RunType
  <2>2. \A f \in FileNames : f # run[v].snap.file => store'[f] = store[f]
    BY <1>28 DEF RemoveArtifact, TypeOK
  <2>3. \A f \in FileNames : f \notin NamesOf(v) => store'[f] = store[f]
    BY <2>2, MarkersAreDistinct DEF NamesOf
  <2> QED BY <1>28, <2>1, <2>3, LocalMove DEF RemoveArtifact, objects, outside
<1>29. CASE RemoveFinalizer(v)
  BY <1>29, RemoveFinalizerEffect, IdleType, LocalEnd DEF RemoveFinalizer, outside
<1> QED BY <1>1, <1>2, <1>3, <1>4, <1>5, <1>6, <1>7, <1>8, <1>9, <1>10, <1>11, <1>12,
           <1>13, <1>14, <1>15, <1>16, <1>17, <1>18, <1>19, <1>20, <1>21, <1>21a, <1>22,
           <1>23, <1>24, <1>25, <1>26, <1>27, <1>28, <1>29 DEF ControllerStep

LEMMA EnvironmentIsLocal ==
    ASSUME TypeOK, NEW v \in Versions,
           Abort(v) \/ Deliver(v) \/ Resync(v) \/ OwnerStep(v) \/ Retag(v)
    PROVE  Local(v)
<1>1. CASE Abort(v)
  BY <1>1, LocalEnd DEF Abort, Requeue, objects, outside
<1>2. CASE Deliver(v)
  <2>1. /\ cache'[v] = api[v] /\ \A w \in Versions \ {v} : cache'[w] = cache[w]
        /\ UNCHANGED <<api, ref, seen, hand, run, fresh, store>>
    BY <1>2 DEF Deliver, outside, TypeOK
  <2>2. \A w \in Versions : NamesOf(w)' \subseteq NamesOf(w)
    BY <2>1 DEF NamesOf
  <2> QED BY <1>2, <2>1, <2>2 DEF Deliver, Requeue, Local, OnlyActsOn, Untouched, DrawsNames
<1>3. CASE Resync(v)
  BY <1>3, LocalStep DEF Resync, Requeue, objects, outside, NamesOf
<1>4. CASE OwnerStep(v)
  BY <1>4, OwnerEffect, LocalStep DEF Owned, NamesOf
<1>5. CASE Retag(v)
  BY <1>5, LocalStep DEF Retag, objects, NamesOf
<1> QED BY <1>1, <1>2, <1>3, <1>4, <1>5

(***************************************************************************)
(* The invariant of the Version a step acts on.                            *)
(***************************************************************************)
\* A step within a run that leaves resource, copy, queue and snapshot alone.
LEMMA MoveKeeps ==
    ASSUME NEW v \in Versions, VersionInv(v),
           run[v].pc # "idle", run'[v].pc # "idle", run'[v].snap = run[v].snap,
           UNCHANGED <<api, cache, news, queued, fresh>>,
           HasArchive(v)', SourceOfProvider(v)', Uploaded(v)', NamePersisted(v)',
                RemovesDead(v)'
    PROVE  VersionInv(v)'
BY DEF VersionInv, CacheCurrent, Awake, SnapshotCurrent, DeadStaysDead, RestsConsistent,
     ConsistentAtRest,
       AtRest, Served

\* A step that ends a run.
LEMMA EndKeeps ==
    ASSUME TypeOK, NEW v \in Versions, VersionInv(v), Close(v),
           Wrote(v, api'[v]) \/ UNCHANGED <<api, news>>, cache' = cache,
           Served(v)' => Served(v) \/ cache[v].st = "live",
           RestsConsistent(v)'
    PROVE  VersionInv(v)'
<1>1. run'[v].pc = "idle"
  BY CloseEffect DEF TypeOK, RunType
<1>2. CacheCurrent(v)' /\ DeadStaysDead(v)'
  BY DEF VersionInv, CacheCurrent, DeadStaysDead, Wrote
<1>3. /\ Awake(v)' /\ SnapshotCurrent(v)' /\ HasArchive(v)' /\ SourceOfProvider(v)'
      /\ Uploaded(v)' /\ NamePersisted(v)' /\ RemovesDead(v)'
  BY <1>1 DEF Awake, SnapshotCurrent, HasArchive, SourceOfProvider, Uploaded, NamePersisted,
              RemovesDead, Uploading, Published, Removing
<1> QED BY <1>2, <1>3 DEF VersionInv

LEMMA BeginKeeps ==
    ASSUME TypeOK, NEW v \in Versions, VersionInv(v), NEW p \in {"prepare", "remove",
         "unfinalize"},
           Begin(v, p),
           p # "prepare" => cache[v].st = "deleting",
           p = "remove" => cache[v].file # None
    PROVE  VersionInv(v)'
<1>1. p \in PCs
  BY SomePCs
<1>2. run'[v].pc = p /\ run'[v].snap = cache[v]
  BY <1>1, BeginEffect DEF TypeOK, RunType
<1>3. /\ UNCHANGED <<api, cache, news>>
      /\ fresh' = IF v \in news THEN fresh \ {v} ELSE fresh \cup {v}
  BY DEF Begin, objects
<1>4. /\ CacheCurrent(v)' /\ Awake(v)' /\ SnapshotCurrent(v)' /\ DeadStaysDead(v)'
      /\ RestsConsistent(v)'
  BY <1>2, <1>3 DEF VersionInv, CacheCurrent, Awake, SnapshotCurrent, DeadStaysDead,
                    RestsConsistent, ConsistentAtRest, AtRest, Served
<1>5. HasArchive(v)' /\ SourceOfProvider(v)' /\ Uploaded(v)' /\ NamePersisted(v)'
  BY <1>2 DEF HasArchive, SourceOfProvider, Uploaded, NamePersisted, Uploading, Published
<1>6. RemovesDead(v)'
  BY <1>2, <1>3 DEF VersionInv, DeadStaysDead, RemovesDead, Removing, Served
<1> QED BY <1>4, <1>5, <1>6 DEF VersionInv

(***************************************************************************)
(* Fetching and storing.                                                   *)
(***************************************************************************)
\* A back end other than Azure returns the checksum of what it holds.
LEMMA StoredChecksum ==
    ASSUME Backend # "azure", NEW kind, NEW stored, NEW sum, sum # None,
           Store!Found(sum) \in Store!GetObjectChecksum(Backend, kind, stored)
    PROVE  stored = sum
BY DEF Store!GetObjectChecksum, Store!Found, Store!Missing

\* Verify skips the upload only over what the snapshot's checksum stands for.
LEMMA VerifiedChecksum ==
    ASSUME TypeOK, Backend # "azure", NEW v \in Versions, HasArchive(v), Verify(v),
           run'[v].pc = "persist"
    PROVE  run[v].snap.sum # None /\ store[run[v].file] = run[v].snap.sum
<1>1. run[v].file \in FileNames
  BY ReconcileFields DEF Verify, TypeOK, HasArchive
<1>2. store[run[v].file] # None
  BY <1>1, MarkersAreDistinct DEF TypeOK, Archives
<1>3. PICK got \in Store!GetObjectChecksum(Backend, Kind(v), store[run[v].file]) :
          Goto(v, IF NeedsUpload(v, got) THEN "putAgain" ELSE "persist")
  BY DEF Verify
<1>4. ~NeedsUpload(v, got)
  BY <1>3, SomePCs, GotoEffect DEF TypeOK, RunType
<1>5. got = Store!Found(store[run[v].file]) \/ got = Store!Missing
  BY <1>3 DEF Store!GetObjectChecksum
<1>6. got.exists /\ got.sum = store[run[v].file]
  BY <1>4, <1>5 DEF NeedsUpload, Store!Found, Store!Missing
<1> QED BY <1>2, <1>4, <1>6 DEF NeedsUpload

LEMMA EndScanPC ==
    ASSUME TypeOK, NEW v \in Versions, EndScan(v), run'[v].pc = "source"
    PROVE  v \in Providers
BY DEF EndScan, AfterScan, TypeOK, Reconcile

LEMMA ControllerKeeps ==
    ASSUME TypeOK, NEW v \in Versions, VersionInv(v), ControllerStep(v)
    PROVE  VersionInv(v)'
<1>1. CASE StartGone(v)
  BY <1>1 DEF StartGone, objects, outside, VersionInv, CacheCurrent, Awake,
       SnapshotCurrent, HasArchive, SourceOfProvider, Uploaded, NamePersisted,
       RemovesDead, Uploading, Published, Removing, DeadStaysDead, RestsConsistent,
       ConsistentAtRest, AtRest, Served, MayStart
<1>2. CASE AddFinalizer(v)
  <2>1. /\ run' = run /\ run[v].pc = "idle" /\ v \in queued' /\ cache' = cache
    BY <1>2 DEF AddFinalizer, MayStart
  <2>2. /\ CacheCurrent(v)' /\ DeadStaysDead(v)' /\ RestsConsistent(v)'
    BY <1>2, <2>1, AddFinalizerEffect DEF VersionInv, CacheCurrent, DeadStaysDead,
         RestsConsistent, ConsistentAtRest, AtRest, Served, Wrote
  <2> QED BY <2>1, <2>2 DEF VersionInv, Awake, SnapshotCurrent, HasArchive,
       SourceOfProvider, Uploaded, NamePersisted, RemovesDead, Uploading, Published,
       Removing
<1>3. CASE StartDelete(v)
  <2>1. cache[v].st = "deleting"
                                 /\ Begin(v, IF HasPath(cache[v]) THEN "remove" ELSE "unfinalize")
    BY <1>3 DEF StartDelete
  <2>2. HasPath(cache[v]) => cache[v].file # None
    BY DEF HasPath
  <2> QED BY <2>1, <2>2, BeginKeeps
<1>4. CASE StartSync(v)
  BY <1>4, BeginKeeps DEF StartSync
<1>5. CASE Prepare(v)
  <2>1. run'[v].pc = "fetch" => run'[v].file # None
    BY <1>5, PrepareEffect, KindsAreDisjoint, MarkersAreDistinct DEF PreparedNames, Unused
  <2>2. /\ HasArchive(v)' /\ SourceOfProvider(v)' /\ Uploaded(v)' /\ NamePersisted(v)'
        /\ RemovesDead(v)'
    BY <1>5, <2>1, PrepareEffect DEF HasArchive, SourceOfProvider, Uploaded,
         NamePersisted, RemovesDead, Uploading, Published, Removing
  <2> QED BY <1>5, <2>2, PrepareEffect, MoveKeeps DEF Prepare, objects
<1>6. CASE RejectDual(v)
  <2>1. ~Served(v)'
    BY <1>6, RejectDualEffect DEF Served
  <2> QED BY <1>6, <2>1, RejectDualEffect, EndKeeps DEF RejectDual, RestsConsistent,
       ConsistentAtRest
<1>7. CASE FetchModule(v)
  <2>1. /\ HasArchive(v)' /\ SourceOfProvider(v)' /\ Uploaded(v)' /\ NamePersisted(v)'
        /\ RemovesDead(v)'
    BY <1>7, FetchModuleEffect DEF FetchModule, VersionInv, HasArchive,
         SourceOfProvider, Uploaded, NamePersisted, RemovesDead, Uploading, Published,
         Removing
  <2> QED BY <1>7, <2>1, FetchModuleEffect, MoveKeeps DEF FetchModule, objects
<1>8. CASE RejectReplaced(v)
  <2>1. Served(v)' => Served(v)
    BY <1>8, MarkUnsyncedEffect DEF RejectReplaced, Served
  <2>2. RestsConsistent(v)'
    BY <1>8 DEF RejectReplaced, Requeue, RestsConsistent, ConsistentAtRest, AtRest
  <2> QED BY <1>8, <2>1, <2>2, MarkUnsyncedEffect, EndKeeps DEF RejectReplaced
<1>9. CASE FastPathHit(v)
  <2>1. /\ run[v].pc = "fastPath" /\ UNCHANGED <<api, cache, news, queued, store>>
        /\ run[v].snap.file # None
        /\ Backend # "azure" => store[run[v].snap.file] = run[v].snap.sum
    BY <1>9, StoredChecksum DEF FastPathHit, AlreadyStored, HasPath, objects
  <2>2. AtRest(v)' => run[v].snap = api[v]
    BY <2>1 DEF VersionInv, Awake, SnapshotCurrent, AtRest
  <2>3. RestsConsistent(v)'
    BY <2>1, <2>2 DEF RestsConsistent, ConsistentAtRest
  <2> QED BY <1>9, <2>1, <2>3, EndKeeps DEF FastPathHit, Served
<1>10. CASE FastPathMiss(v)
  <2>1. /\ run'[v].snap = run[v].snap /\ run'[v].file = run[v].file
        /\ run'[v].archive = run[v].archive
    BY <1>10, SomePCs, GotoEffect DEF FastPathMiss, TypeOK, RunType
  <2>2. /\ run'[v].pc = "acquire"
    BY <1>10, SomePCs, GotoEffect DEF FastPathMiss, TypeOK, RunType
  <2>3. /\ HasArchive(v)' /\ SourceOfProvider(v)' /\ Uploaded(v)' /\ NamePersisted(v)'
        /\ RemovesDead(v)'
    BY <1>10, <2>1, <2>2 DEF FastPathMiss, objects, Served, VersionInv, HasArchive,
         SourceOfProvider, Uploaded, NamePersisted, RemovesDead, Uploading, Published,
         Removing
  <2>4. run[v].pc # "idle" /\ run'[v].pc # "idle"
    BY <1>10, <2>2 DEF FastPathMiss
  <2> QED BY <1>10, <2>1, <2>3, <2>4, MoveKeeps DEF FastPathMiss, objects
<1>11. CASE AcquireDownload(v)
  <2>1. /\ run'[v].snap = run[v].snap /\ run'[v].file = run[v].file
        /\ run'[v].archive = run[v].archive
    BY <1>11, SomePCs, GotoEffect DEF AcquireDownload, TypeOK, RunType
  <2>2. /\ run'[v].pc = "download"
    BY <1>11, SomePCs, GotoEffect DEF AcquireDownload, TypeOK, RunType
  <2>3. /\ HasArchive(v)' /\ SourceOfProvider(v)' /\ Uploaded(v)' /\ NamePersisted(v)'
        /\ RemovesDead(v)'
    BY <1>11, <2>1, <2>2 DEF AcquireDownload, objects, Served, VersionInv, HasArchive,
         SourceOfProvider, Uploaded, NamePersisted, RemovesDead, Uploading, Published,
         Removing
  <2>4. run[v].pc # "idle" /\ run'[v].pc # "idle"
    BY <1>11, <2>2 DEF AcquireDownload
  <2> QED BY <1>11, <2>1, <2>3, <2>4, MoveKeeps DEF AcquireDownload, objects
<1>12. CASE DownloadProvider(v)
  <2>1. /\ HasArchive(v)' /\ SourceOfProvider(v)' /\ Uploaded(v)' /\ NamePersisted(v)'
        /\ RemovesDead(v)'
    BY <1>12, DownloadProviderEffect DEF DownloadProvider, HasArchive, SourceOfProvider,
         Uploaded, NamePersisted, RemovesDead, Uploading, Published, Removing
  <2> QED BY <1>12, <2>1, DownloadProviderEffect, MoveKeeps DEF DownloadProvider, objects
<1>13. CASE Verify(v)
  <2>1. /\ run'[v].snap = run[v].snap /\ run'[v].file = run[v].file
        /\ run'[v].archive = run[v].archive
    BY <1>13, SomePCs, GotoEffect DEF Verify, TypeOK, RunType
  <2>2. /\ run'[v].pc \in {"putAgain", "persist"}
    BY <1>13, SomePCs, GotoEffect DEF Verify, TypeOK, RunType
  <2>3. Backend # "azure" /\ run'[v].pc = "persist"
          => run[v].snap.sum # None /\ store[run[v].file] = run[v].snap.sum
    BY <1>13, VerifiedChecksum DEF VersionInv
  <2>4. /\ HasArchive(v)' /\ SourceOfProvider(v)' /\ Uploaded(v)' /\ NamePersisted(v)'
        /\ RemovesDead(v)'
    BY <1>13, <2>1, <2>2, <2>3 DEF Verify, objects, Served, VersionInv, HasArchive,
         SourceOfProvider, Uploaded, NamePersisted, RemovesDead, Uploading, Published,
         Removing
  <2>5. run[v].pc # "idle" /\ run'[v].pc # "idle"
    BY <1>13, <2>2 DEF Verify
  <2> QED BY <1>13, <2>1, <2>4, <2>5, MoveKeeps DEF Verify, objects
<1>14. CASE BeginPut(v)
  <2>1. /\ run'[v].snap = run[v].snap /\ run'[v].file = run[v].file
        /\ run'[v].archive = run[v].archive
    BY <1>14, SomePCs, GotoEffect DEF BeginPut, TypeOK, RunType
  <2>2. /\ run'[v].pc \in Uploading
    BY <1>14, SomePCs, GotoEffect DEF BeginPut, TypeOK, RunType, Uploading
  <2>3. /\ HasArchive(v)' /\ SourceOfProvider(v)' /\ Uploaded(v)' /\ NamePersisted(v)'
        /\ RemovesDead(v)'
    BY <1>14, <2>1, <2>2 DEF BeginPut, objects, Served, VersionInv, HasArchive,
         SourceOfProvider, Uploaded, NamePersisted, RemovesDead, Uploading, Published,
         Removing
  <2>4. run[v].pc # "idle" /\ run'[v].pc # "idle"
    BY <1>14, <2>2 DEF BeginPut, Uploading
  <2> QED BY <1>14, <2>1, <2>3, <2>4, MoveKeeps DEF BeginPut, objects
<1>15. CASE EndPut(v)
  <2>1. /\ run'[v].snap = run[v].snap /\ run'[v].file = run[v].file
        /\ run'[v].archive = run[v].archive
    BY <1>15, SomePCs, GotoEffect DEF EndPut, TypeOK, RunType
  <2>2. /\ run'[v].pc \in {"putAgain", "persist"}
    BY <1>15, SomePCs, GotoEffect DEF EndPut, TypeOK, RunType
  <2>3. run'[v].pc = "persist" => store'[run[v].file] = run[v].archive
    <3>1. run[v].file \in FileNames
      BY <1>15, ReconcileFields DEF EndPut, TypeOK, VersionInv, HasArchive, Uploading
    <3> QED BY <1>15, <3>1 DEF EndPut, TypeOK
  <2>4. /\ HasArchive(v)' /\ SourceOfProvider(v)' /\ Uploaded(v)' /\ NamePersisted(v)'
        /\ RemovesDead(v)'
    BY <1>15, <2>1, <2>2, <2>3 DEF EndPut, objects, Served, VersionInv, HasArchive,
         SourceOfProvider, Uploaded, NamePersisted, RemovesDead, Uploading, Published,
         Removing
  <2>5. run[v].pc # "idle" /\ run'[v].pc # "idle"
    BY <1>15, <2>2 DEF EndPut
  <2> QED BY <1>15, <2>1, <2>4, <2>5, MoveKeeps DEF EndPut, objects
<1>16. CASE Persist(v)
  <2>1. /\ run[v].pc = "persist" /\ run'[v].pc \in {"scan", "finish"}
        /\ run'[v].snap = run[v].snap /\ run'[v].file = run[v].file
        /\ run'[v].archive = run[v].archive
        /\ UNCHANGED <<cache, queued, store>>
    BY <1>16, SomePCs, GotoEffect DEF Persist, TypeOK, RunType
  <2>2. /\ CacheCurrent(v)' /\ Awake(v)' /\ SnapshotCurrent(v)' /\ DeadStaysDead(v)'
        /\ RestsConsistent(v)'
    BY <1>16, <2>1, PersistEffect DEF VersionInv, CacheCurrent, Awake, SnapshotCurrent,
         DeadStaysDead, RestsConsistent, ConsistentAtRest, AtRest, Served, Wrote
  <2>3. /\ HasArchive(v)' /\ SourceOfProvider(v)' /\ Uploaded(v)' /\ NamePersisted(v)'
        /\ RemovesDead(v)'
    BY <1>16, <2>1, PersistEffect DEF VersionInv, HasArchive, SourceOfProvider,
         Uploaded, NamePersisted, RemovesDead, Uploading, Published, Removing
  <2> QED BY <2>2, <2>3 DEF VersionInv
<1>17. CASE BeginScan(v)
  <2>1. /\ run'[v].snap = run[v].snap /\ run'[v].file = run[v].file
        /\ run'[v].archive = run[v].archive
    BY <1>17, SomePCs, GotoEffect DEF BeginScan, TypeOK, RunType
  <2>2. /\ run'[v].pc = "scanning"
    BY <1>17, SomePCs, GotoEffect DEF BeginScan, TypeOK, RunType
  <2>3. /\ HasArchive(v)' /\ SourceOfProvider(v)' /\ Uploaded(v)' /\ NamePersisted(v)'
        /\ RemovesDead(v)'
    BY <1>17, <2>1, <2>2 DEF BeginScan, objects, Served, VersionInv, HasArchive,
         SourceOfProvider, Uploaded, NamePersisted, RemovesDead, Uploading, Published,
         Removing
  <2>4. run[v].pc # "idle" /\ run'[v].pc # "idle"
    BY <1>17, <2>2 DEF BeginScan
  <2> QED BY <1>17, <2>1, <2>3, <2>4, MoveKeeps DEF BeginScan, objects
<1>18. CASE EndScan(v)
  <2>1. run'[v].pc = "source" => v \in Providers
    BY <1>18, EndScanPC
  <2>2. /\ HasArchive(v)' /\ SourceOfProvider(v)' /\ Uploaded(v)' /\ NamePersisted(v)'
        /\ RemovesDead(v)'
    BY <1>18, <2>1, EndScanEffect DEF EndScan, objects, VersionInv, HasArchive,
         SourceOfProvider, Uploaded, NamePersisted, RemovesDead, Uploading, Published,
         Removing
  <2> QED BY <1>18, <2>2, EndScanEffect, MoveKeeps DEF EndScan, objects
<1>19. CASE ScanFails(v)
  <2>1. /\ run'[v].snap = run[v].snap /\ run'[v].file = run[v].file
        /\ run'[v].archive = run[v].archive
    BY <1>19, SomePCs, GotoEffect DEF ScanFails, TypeOK, RunType, AfterScan
  <2>2. /\ run'[v].pc \in {"source", "finish"}
        /\ run'[v].pc = "source" => v \in Providers
    BY <1>19, SomePCs, GotoEffect DEF ScanFails, TypeOK, RunType, AfterScan
  <2>3. /\ HasArchive(v)' /\ SourceOfProvider(v)' /\ Uploaded(v)' /\ NamePersisted(v)'
        /\ RemovesDead(v)'
    BY <1>19, <2>1, <2>2 DEF ScanFails, objects, Served, VersionInv, HasArchive,
         SourceOfProvider, Uploaded, NamePersisted, RemovesDead, Uploading, Published,
         Removing
  <2>4. run[v].pc # "idle" /\ run'[v].pc # "idle"
    BY <1>19, <2>2 DEF ScanFails
  <2> QED BY <1>19, <2>1, <2>3, <2>4, MoveKeeps DEF ScanFails, objects
<1>20. CASE BlockScan(v)
  <2>1. Served(v)' => Served(v)
    BY <1>20, MarkUnsyncedEffect DEF BlockScan, Served
  <2>2. RestsConsistent(v)'
    BY <1>20 DEF BlockScan, Requeue, RestsConsistent, ConsistentAtRest, AtRest
  <2> QED BY <1>20, <2>1, <2>2, MarkUnsyncedEffect, EndKeeps DEF BlockScan
<1>21. CASE SkipSource(v)
  <2>1. /\ run'[v].snap = run[v].snap /\ run'[v].file = run[v].file
        /\ run'[v].archive = run[v].archive
    BY <1>21, SomePCs, GotoEffect DEF SkipSource, TypeOK, RunType
  <2>2. /\ run'[v].pc = "finish"
    BY <1>21, SomePCs, GotoEffect DEF SkipSource, TypeOK, RunType
  <2>3. /\ HasArchive(v)' /\ SourceOfProvider(v)' /\ Uploaded(v)' /\ NamePersisted(v)'
        /\ RemovesDead(v)'
    BY <1>21, <2>1, <2>2 DEF SkipSource, objects, Served, VersionInv, HasArchive,
         SourceOfProvider, Uploaded, NamePersisted, RemovesDead, Uploading, Published,
         Removing
  <2>4. run[v].pc # "idle" /\ run'[v].pc # "idle"
    BY <1>21, <2>2 DEF SkipSource
  <2> QED BY <1>21, <2>1, <2>3, <2>4, MoveKeeps DEF SkipSource, objects
<1>21a. CASE MissSource(v)
  <2>1. /\ run'[v].snap = run[v].snap /\ run'[v].file = run[v].file
        /\ run'[v].archive = run[v].archive
    BY <1>21a, SomePCs, GotoEffect DEF MissSource, TypeOK, RunType
  <2>2. /\ run'[v].pc = "gomod"
    BY <1>21a, SomePCs, GotoEffect DEF MissSource, TypeOK, RunType
  <2>3. /\ HasArchive(v)' /\ SourceOfProvider(v)' /\ Uploaded(v)' /\ NamePersisted(v)'
        /\ RemovesDead(v)'
    BY <1>21a, <2>1, <2>2 DEF MissSource, objects, Served, VersionInv, HasArchive,
         SourceOfProvider, Uploaded, NamePersisted, RemovesDead, Uploading, Published,
         Removing
  <2>4. run[v].pc # "idle" /\ run'[v].pc # "idle"
    BY <1>21a, <2>2 DEF MissSource
  <2> QED BY <1>21a, <2>1, <2>3, <2>4, MoveKeeps DEF MissSource, objects
<1>22. CASE BeginSource(v)
  <2>1. /\ run'[v].snap = run[v].snap /\ run'[v].file = run[v].file
        /\ run'[v].archive = run[v].archive
    BY <1>22, SomePCs, GotoEffect DEF BeginSource, TypeOK, RunType
  <2>2. /\ run'[v].pc = "sourcing"
    BY <1>22, SomePCs, GotoEffect DEF BeginSource, TypeOK, RunType
  <2>3. /\ HasArchive(v)' /\ SourceOfProvider(v)' /\ Uploaded(v)' /\ NamePersisted(v)'
        /\ RemovesDead(v)'
    BY <1>22, <2>1, <2>2 DEF BeginSource, objects, Served, VersionInv, HasArchive,
         SourceOfProvider, Uploaded, NamePersisted, RemovesDead, Uploading, Published,
         Removing
  <2>4. run[v].pc # "idle" /\ run'[v].pc # "idle"
    BY <1>22, <2>2 DEF BeginSource
  <2> QED BY <1>22, <2>1, <2>3, <2>4, MoveKeeps DEF BeginSource, objects
<1>23. CASE NoGoMod(v)
  <2>1. /\ run'[v].snap = run[v].snap /\ run'[v].file = run[v].file
        /\ run'[v].archive = run[v].archive
    BY <1>23, SomePCs, GotoEffect DEF NoGoMod, TypeOK, RunType
  <2>2. /\ run'[v].pc = "finish"
    BY <1>23, SomePCs, GotoEffect DEF NoGoMod, TypeOK, RunType
  <2>3. /\ HasArchive(v)' /\ SourceOfProvider(v)' /\ Uploaded(v)' /\ NamePersisted(v)'
        /\ RemovesDead(v)'
    BY <1>23, <2>1, <2>2 DEF NoGoMod, objects, Served, VersionInv, HasArchive,
         SourceOfProvider, Uploaded, NamePersisted, RemovesDead, Uploading, Published,
         Removing
  <2>4. run[v].pc # "idle" /\ run'[v].pc # "idle"
    BY <1>23, <2>2 DEF NoGoMod
  <2> QED BY <1>23, <2>1, <2>3, <2>4, MoveKeeps DEF NoGoMod, objects
<1>24. CASE EndSource(v)
  <2>1. /\ run'[v].snap = run[v].snap /\ run'[v].file = run[v].file
        /\ run'[v].archive = run[v].archive
    BY <1>24, SomePCs, GotoEffect DEF EndSource, TypeOK, RunType
  <2>2. /\ run'[v].pc = "finish"
    BY <1>24, SomePCs, GotoEffect DEF EndSource, TypeOK, RunType
  <2>3. /\ HasArchive(v)' /\ SourceOfProvider(v)' /\ Uploaded(v)' /\ NamePersisted(v)'
        /\ RemovesDead(v)'
    BY <1>24, <2>1, <2>2 DEF EndSource, objects, Served, VersionInv, HasArchive,
         SourceOfProvider, Uploaded, NamePersisted, RemovesDead, Uploading, Published,
         Removing
  <2>4. run[v].pc # "idle" /\ run'[v].pc # "idle"
    BY <1>24, <2>2 DEF EndSource
  <2> QED BY <1>24, <2>1, <2>3, <2>4, MoveKeeps DEF EndSource, objects
<1>25. CASE SourceFails(v)
  <2>1. /\ run'[v].snap = run[v].snap /\ run'[v].file = run[v].file
        /\ run'[v].archive = run[v].archive
    BY <1>25, SomePCs, GotoEffect DEF SourceFails, TypeOK, RunType
  <2>2. /\ run'[v].pc = "finish"
    BY <1>25, SomePCs, GotoEffect DEF SourceFails, TypeOK, RunType
  <2>3. /\ HasArchive(v)' /\ SourceOfProvider(v)' /\ Uploaded(v)' /\ NamePersisted(v)'
        /\ RemovesDead(v)'
    BY <1>25, <2>1, <2>2 DEF SourceFails, objects, Served, VersionInv, HasArchive,
         SourceOfProvider, Uploaded, NamePersisted, RemovesDead, Uploading, Published,
         Removing
  <2>4. run[v].pc # "idle" /\ run'[v].pc # "idle"
    BY <1>25, <2>2 DEF SourceFails
  <2> QED BY <1>25, <2>1, <2>3, <2>4, MoveKeeps DEF SourceFails, objects
<1>26. CASE BlockSource(v)
  <2>1. Served(v)' => Served(v)
    BY <1>26, MarkUnsyncedEffect DEF BlockSource, Served
  <2>2. RestsConsistent(v)'
    BY <1>26 DEF BlockSource, Requeue, RestsConsistent, ConsistentAtRest, AtRest
  <2> QED BY <1>26, <2>1, <2>2, MarkUnsyncedEffect, EndKeeps DEF BlockSource
<1>27. CASE Finish(v)
  <2>1. /\ run[v].pc = "finish" /\ v \notin news /\ UNCHANGED <<cache, queued, store>>
    BY <1>27 DEF Finish
  <2>2. /\ Wrote(v, api'[v]) /\ api'[v].st = api[v].st /\ api'[v].file = api[v].file
        /\ api'[v].sum = run[v].archive
    BY <1>27, FinishEffect DEF VersionInv
  <2>3. Served(v)' => cache[v].st = "live"
    BY <2>1, <2>2 DEF VersionInv, CacheCurrent, Served
  <2>4. ASSUME AtRest(v)', Backend # "azure"
        PROVE  api'[v].file # None /\ store[api'[v].file] = api'[v].sum
    <3>1. api'[v] = api[v] /\ run[v].snap = api[v] /\ v \in fresh
      BY <2>1, <2>2, <2>4 DEF Wrote, VersionInv, Awake, SnapshotCurrent, AtRest
    <3>2. api[v].file = run[v].file /\ run[v].file # None
      BY <2>1, <3>1 DEF VersionInv, NamePersisted, HasArchive, Published
    <3>3. store[run[v].file] = run[v].archive
      BY <2>1, <2>2, <2>4, <3>1 DEF VersionInv, Uploaded, Published
    <3> QED BY <2>2, <3>1, <3>2, <3>3
  <2>5. RestsConsistent(v)'
    BY <2>1, <2>4 DEF RestsConsistent, ConsistentAtRest
  <2> QED BY <1>27, <2>1, <2>2, <2>3, <2>5, EndKeeps DEF Finish
<1>28. CASE RemoveArtifact(v)
  <2>1. /\ run'[v].snap = run[v].snap /\ run'[v].file = run[v].file
        /\ run'[v].archive = run[v].archive
    BY <1>28, SomePCs, GotoEffect DEF RemoveArtifact, TypeOK, RunType
  <2>2. /\ run'[v].pc = "unfinalize"
    BY <1>28, SomePCs, GotoEffect DEF RemoveArtifact, TypeOK, RunType
  <2>3. /\ HasArchive(v)' /\ SourceOfProvider(v)' /\ Uploaded(v)' /\ NamePersisted(v)'
        /\ RemovesDead(v)'
    BY <1>28, <2>1, <2>2 DEF RemoveArtifact, objects, Served, VersionInv, HasArchive,
         SourceOfProvider, Uploaded, NamePersisted, RemovesDead, Uploading, Published,
         Removing
  <2>4. run[v].pc # "idle" /\ run'[v].pc # "idle"
    BY <1>28, <2>2 DEF RemoveArtifact
  <2> QED BY <1>28, <2>1, <2>3, <2>4, MoveKeeps DEF RemoveArtifact, objects
<1>29. CASE RemoveFinalizer(v)
  <2>1. ~Served(v)'
    BY <1>29, RemoveFinalizerEffect, IdleType DEF RemoveFinalizer, VersionInv,
         RemovesDead, Removing, Served
  <2> QED BY <1>29, <2>1, RemoveFinalizerEffect, EndKeeps DEF RemoveFinalizer,
       RestsConsistent, ConsistentAtRest
<1> QED BY <1>1, <1>2, <1>3, <1>4, <1>5, <1>6, <1>7, <1>8, <1>9, <1>10, <1>11, <1>12,
     <1>13, <1>14, <1>15, <1>16, <1>17, <1>18, <1>19, <1>20, <1>21, <1>21a, <1>22, <1>23, <1>24,
     <1>25, <1>26, <1>27, <1>28, <1>29 DEF ControllerStep

LEMMA EnvironmentKeeps ==
    ASSUME TypeOK, NEW v \in Versions, VersionInv(v),
           Abort(v) \/ Deliver(v) \/ Resync(v) \/ OwnerStep(v) \/ Retag(v)
    PROVE  VersionInv(v)'
<1>1. CASE Abort(v)
  <2>1. RestsConsistent(v)'
    BY <1>1 DEF Abort, Requeue, RestsConsistent, ConsistentAtRest, AtRest
  <2> QED BY <1>1, <2>1, EndKeeps DEF Abort, objects, Served
<1>2. CASE Deliver(v)
  <2>1. /\ cache'[v] = api[v] /\ v \in queued' /\ UNCHANGED <<api, run, fresh, store>>
    BY <1>2 DEF Deliver, Requeue, TypeOK
  <2>2. CacheCurrent(v)' /\ Awake(v)' /\ SnapshotCurrent(v)' /\ DeadStaysDead(v)'
        /\ RestsConsistent(v)'
    BY <2>1 DEF VersionInv, CacheCurrent, Awake, SnapshotCurrent, DeadStaysDead,
                RestsConsistent, ConsistentAtRest, AtRest, Served
  <2> QED BY <2>1, <2>2 DEF VersionInv, HasArchive, SourceOfProvider, Uploaded,
       NamePersisted,
                            RemovesDead, Served
<1>3. CASE Resync(v)
  BY <1>3 DEF Resync, Requeue, objects, VersionInv, CacheCurrent, Awake, SnapshotCurrent,
              HasArchive, SourceOfProvider, Uploaded, NamePersisted, RemovesDead,
                   DeadStaysDead,
              RestsConsistent, ConsistentAtRest, AtRest, Served
<1>4. CASE OwnerStep(v)
  <2>1. Owned(v)
    BY <1>4, OwnerEffect
  <2>2. Served(v)' => Served(v) /\ api'[v].file = api[v].file /\ api'[v].sum = api[v].sum
    BY <2>1 DEF Owned, Served
  <2>3. CacheCurrent(v)' /\ Awake(v)' /\ SnapshotCurrent(v)' /\ DeadStaysDead(v)'
    BY <2>1, <2>2 DEF Owned, Wrote, VersionInv, CacheCurrent, Awake, SnapshotCurrent,
                      DeadStaysDead
  <2>4. HasArchive(v)' /\ SourceOfProvider(v)' /\ Uploaded(v)' /\ RemovesDead(v)'
    BY <2>1, <2>2 DEF Owned, VersionInv, HasArchive, SourceOfProvider, Uploaded, RemovesDead
  <2>5. NamePersisted(v)' /\ RestsConsistent(v)'
    BY <2>1, <2>2 DEF Owned, Wrote, VersionInv, NamePersisted, RestsConsistent,
         ConsistentAtRest, AtRest
  <2> QED BY <2>3, <2>4, <2>5 DEF VersionInv
<1>5. CASE Retag(v)
  BY <1>5 DEF Retag, objects, VersionInv, CacheCurrent, Awake, SnapshotCurrent,
              HasArchive, SourceOfProvider, Uploaded, NamePersisted, RemovesDead,
                   DeadStaysDead,
              RestsConsistent, ConsistentAtRest, AtRest, Served
<1> QED BY <1>1, <1>2, <1>3, <1>4, <1>5

\* After a restart every Version that exists is queued.
LEMMA CrashKeeps ==
    ASSUME TypeOK, NamesDisjoint, Crash, \A v \in Versions : VersionInv(v)
    PROVE  NamesDisjoint' /\ \A v \in Versions : VersionInv(v)'
<1>1. \A v \in Versions : /\ run'[v].pc = "idle" /\ run'[v].file = None
                          /\ run'[v].snap.file = None
                          /\ cache'[v] = api[v] /\ api'[v] = api[v] /\ ref'[v] = ref[v]
                          /\ seen'[v] = ref[v] /\ hand'[v] = hand[v]
                          /\ api[v].st # "absent" => v \in queued'
  BY IdleType DEF Crash, outside
<1>2. \A v \in Versions : NamesOf(v)' \subseteq NamesOf(v)
  BY <1>1 DEF NamesOf
<1>3. ASSUME NEW v \in Versions
      PROVE  VersionInv(v)'
  BY <1>1 DEF VersionInv, CacheCurrent, Awake, SnapshotCurrent, HasArchive,
       SourceOfProvider,
              Uploaded, NamePersisted, RemovesDead, DeadStaysDead, RestsConsistent,
                   ConsistentAtRest, AtRest,
              Served, Uploading, Published, Removing
<1> QED BY <1>2, <1>3 DEF NamesDisjoint

\* The refs of a Module, written or delivered, bring in no name.
LEMMA RefsKeep ==
    ASSUME TypeOK, NamesDisjoint, RecordRefs \/ ForgetNames \/ DeliverRefs,
           \A v \in Versions : VersionInv(v)
    PROVE  NamesDisjoint' /\ \A v \in Versions : VersionInv(v)'
<1>1. /\ UNCHANGED <<objects, queued, run, fresh, store>>
      /\ \A v \in Versions : /\ ref'[v] \in {None, ref[v], hand[v].name}
                             /\ seen'[v] \in {seen[v], ref[v]}
                             /\ hand'[v].name \in {None, hand[v].name}
  <2>1. CASE RecordRefs
    <3>1. WriteRefs(hand) /\ hand \in [Versions -> Held] /\ hand' = [v \in Versions |-> Nothing]
      BY <2>1 DEF RecordRefs, TypeOK
    <3> QED BY <3>1, RefsEffect, NothingHeld
  <2>2. CASE DeliverRefs
    BY <2>2 DEF DeliverRefs
  <2>3. CASE ForgetNames
    BY <2>3, NothingHeld DEF ForgetNames
  <2> QED BY <2>1, <2>2, <2>3
<1>2. \A v \in Versions : NamesOf(v)' \subseteq NamesOf(v)
  BY <1>1 DEF NamesOf, objects
<1>3. ASSUME NEW v \in Versions
      PROVE  VersionInv(v)'
  BY <1>1 DEF objects, VersionInv, CacheCurrent, Awake, SnapshotCurrent, HasArchive,
              SourceOfProvider, Uploaded, NamePersisted, RemovesDead, DeadStaysDead,
              RestsConsistent, ConsistentAtRest, AtRest, Served
<1> QED BY <1>2, <1>3 DEF NamesDisjoint

(***************************************************************************)
(* The theorems.                                                           *)
(***************************************************************************)
LEMMA InitInv ==
    ASSUME Init
    PROVE  IInv
<1>1. \A v \in Versions : /\ api[v] = NoVersion /\ cache[v] = NoVersion
                          /\ ref[v] = None /\ seen[v] = None /\ hand[v].name = None
                          /\ run[v].pc = "idle" /\ run[v].file = None /\ run[v].snap.file = None
  BY IdleType, NothingHeld DEF Init
<1>2. \A v \in Versions : NamesOf(v) = {}
  BY <1>1, IdleType DEF NamesOf
<1>3. ASSUME NEW v \in Versions
      PROVE  VersionInv(v)
  BY <1>1, IdleType DEF VersionInv, CacheCurrent, Awake, SnapshotCurrent, HasArchive,
              SourceOfProvider, Uploaded, NamePersisted, RemovesDead, DeadStaysDead,
              RestsConsistent, ConsistentAtRest, AtRest, Served, Uploading, Published, Removing
<1> QED BY <1>2, <1>3, InitTypes DEF IInv, NamesDisjoint

LEMMA NextInv ==
    ASSUME IInv, [Next]_vars
    PROVE  IInv'
<1>1. ASSUME NEW v \in Versions,
             ControllerStep(v) \/ Abort(v) \/ Deliver(v) \/ Resync(v) \/ OwnerStep(v) \/ Retag(v)
      PROVE  IInv'
  <2>1. TypeOK /\ NamesDisjoint /\ VersionInv(v)
    BY DEF IInv
  <2>2. TypeOK'
    BY <1>1, <2>1, ControllerTypes, EnvironmentTypes DEF VersionInv
  <2>3. Local(v)
    BY <1>1, <2>1, ControllerIsLocal, EnvironmentIsLocal
  <2>4. NamesDisjoint'
    BY <2>1, <2>3, NamesStayDisjoint DEF Local
  <2>5. VersionInv(v)'
    BY <1>1, <2>1, ControllerKeeps, EnvironmentKeeps
  <2>6. \A w \in Versions \ {v} : VersionInv(w)'
    BY <2>1, <2>3, OtherVersions DEF IInv, Local
  <2> QED BY <2>2, <2>4, <2>5, <2>6 DEF IInv
<1>2. CASE Crash
  BY <1>2, CrashTypes, CrashKeeps DEF IInv
<1>3. CASE RecordRefs \/ ForgetNames \/ DeliverRefs
  BY <1>3, RefsTypes, RefsKeep DEF IInv
<1>4. CASE UNCHANGED vars
  <2>1. TypeOK'
    BY <1>4 DEF IInv, vars, TypeOK
  <2>2. NamesDisjoint'
    BY <1>4 DEF IInv, vars, NamesDisjoint, NamesOf
  <2>3. ASSUME NEW v \in Versions
        PROVE  VersionInv(v)'
    BY <1>4 DEF IInv, vars, VersionInv, CacheCurrent, Awake, SnapshotCurrent, HasArchive,
              SourceOfProvider, Uploaded, NamePersisted, RemovesDead, DeadStaysDead,
              RestsConsistent, ConsistentAtRest, AtRest, Served
  <2> QED BY <2>1, <2>2, <2>3 DEF IInv
<1> QED BY <1>1, <1>2, <1>3, <1>4 DEF Next

\* The invariant, for any number of Versions, names, workers and archives, with
\* every back end that returns a checksum.
THEOREM Invariant == Spec => []IInv
<1>1. Init => IInv
  BY InitInv
<1>2. IInv /\ [Next]_vars => IInv'
  BY NextInv
<1> QED BY <1>1, <1>2, PTL DEF Spec

\* Type correctness (every variable of the controller keeps its type, and no
\* object lingers in termination without a finalizer).
THEOREM TypeCorrect == Spec => []TypeOK
<1>1. IInv => TypeOK
  BY DEF IInv
<1> QED BY <1>1, Invariant, PTL

\* Whenever the controller is at rest on a Version it calls synced, the storage
\* holds the archive the Version's checksum stands for (Reconcile, 285-418).
THEOREM Consistent ==
    ASSUME Backend # "azure"
    PROVE  Spec => []QuiescentConsistent
<1>1. IInv => QuiescentConsistent
  BY DEF IInv, VersionInv, RestsConsistent, QuiescentConsistent
<1> QED BY <1>1, Invariant, PTL

\* Two Versions never share a file name (prepareModuleVersion,
\* generateProviderFileName, generateFileName).
THEOREM DisjointNames == Spec => []NamesDisjoint
<1>1. IInv => NamesDisjoint
  BY DEF IInv
<1> QED BY <1>1, Invariant, PTL

=============================================================================
