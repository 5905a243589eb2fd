------------------------- MODULE VersionTypeProofs -------------------------
(***************************************************************************)
(* Type correctness of VersionController, and what its write operators do  *)
(* field by field: the later proofs cite these effects instead of          *)
(* expanding record updates.                                               *)
(***************************************************************************)
EXTENDS VersionInvariant, TLAPS

RunType == run \in [Versions -> Reconcile]
ObjectsType ==
    /\ api \in [Versions -> VersionObject]
    /\ news \subseteq Versions
    /\ \A v \in Versions : Settle(api[v]) = api[v]

\* Every program counter an action names is one.
LEMMA SomePCs ==
    /\ "idle" \in PCs /\ "prepare" \in PCs /\ "rejectDual" \in PCs /\ "fetch" \in PCs
    /\ "fastPath" \in PCs /\ "acquire" \in PCs /\ "download" \in PCs /\ "verify" \in PCs
    /\ "putFirst" \in PCs /\ "writeFirst" \in PCs /\ "putAgain" \in PCs /\ "writeAgain" \in PCs
    /\ "persist" \in PCs /\ "scan" \in PCs /\ "scanning" \in PCs /\ "source" \in PCs
    /\ "gomod" \in PCs /\ "sourcing" \in PCs /\ "finish" \in PCs /\ "remove" \in PCs
    /\ "unfinalize" \in PCs
BY DEF PCs, Uploading, Published, Removing

\* Replacing one reconcile leaves the others.
LEMMA RunUpdate ==
    ASSUME RunType, NEW v \in Versions, NEW r \in Reconcile, run' = [run EXCEPT ![v] = r]
    PROVE  RunType' /\ run'[v] = r /\ \A w \in Versions \ {v} : run'[w] = run[w]
BY DEF RunType

LEMMA ReconcileFields ==
    ASSUME NEW r \in Reconcile
    PROVE  /\ r.pc \in PCs /\ r.snap \in VersionObject /\ r.file \in FileNames \cup {None}
           /\ r.cfg \in BOOLEAN /\ r.archive \in Archives \cup {None} /\ r.scanned \in BOOLEAN
BY DEF Reconcile

LEMMA ObjectFields ==
    ASSUME NEW o \in VersionObject
    PROVE  /\ o.st \in {"absent", "live", "deleting"} /\ o.fin \in BOOLEAN
           /\ o.file \in FileNames \cup {None} /\ o.cfg \in BOOLEAN
           /\ o.sum \in Archives \cup {None} /\ o.synced \in BOOLEAN
BY DEF VersionObject

LEMMA MoveFields ==
    ASSUME NEW r \in Reconcile, NEW p \in PCs, NEW s, s = [r EXCEPT !.pc = p]
    PROVE  /\ s \in Reconcile
           /\ s.pc = p /\ s.snap = r.snap /\ s.file = r.file /\ s.cfg = r.cfg
           /\ s.archive = r.archive /\ s.scanned = r.scanned
BY DEF Reconcile

\* Goto moves one run and changes nothing else of it.
LEMMA GotoEffect ==
    ASSUME RunType, NEW v \in Versions, NEW p \in PCs, Goto(v, p)
    PROVE  /\ RunType'
           /\ run'[v].pc = p /\ run'[v].snap = run[v].snap
           /\ run'[v].file = run[v].file /\ run'[v].cfg = run[v].cfg
           /\ run'[v].archive = run[v].archive /\ run'[v].scanned = run[v].scanned
           /\ \A w \in Versions \ {v} : run'[w] = run[w]
<1> DEFINE s == [run[v] EXCEPT !.pc = p]
<1>1. run[v] \in Reconcile
  BY DEF RunType
<1>2. run' = [run EXCEPT ![v] = s]
  BY DEF RunType, Goto
<1>3. /\ s \in Reconcile
      /\ s.pc = p /\ s.snap = run[v].snap /\ s.file = run[v].file /\ s.cfg = run[v].cfg
      /\ s.archive = run[v].archive /\ s.scanned = run[v].scanned
  BY <1>1, MoveFields
<1> HIDE DEF s
<1> QED BY <1>2, <1>3, RunUpdate

LEMMA IdleType ==
    /\ NoVersion \in VersionObject /\ Settle(NoVersion) = NoVersion
    /\ NoVersion.st = "absent" /\ NoVersion.file = None /\ NoVersion.synced = FALSE
    /\ NoVersion.sum = None
    /\ Idle \in Reconcile
    /\ Idle.pc = "idle" /\ Idle.file = None /\ Idle.snap.file = None
    /\ Idle.archive = None /\ Idle.scanned = FALSE
<1>1. NoVersion \in VersionObject /\ Settle(NoVersion) = NoVersion
  BY DEF NoVersion, VersionObject, Settle
<1>2. Idle \in Reconcile
  BY <1>1, SomePCs DEF Idle, Reconcile
<1> QED BY <1>1, <1>2 DEF Idle, NoVersion

LEMMA CloseEffect ==
    ASSUME RunType, NEW v \in Versions, Close(v)
    PROVE  /\ RunType'
           /\ run'[v].pc = "idle" /\ run'[v].file = None /\ run'[v].snap.file = None
           /\ fresh' = fresh \ {v}
           /\ \A w \in Versions \ {v} : run'[w] = run[w]
<1>1. RunType' /\ run'[v] = Idle /\ \A w \in Versions \ {v} : run'[w] = run[w]
  BY IdleType, RunUpdate DEF Close
<1> QED BY <1>1, IdleType DEF Close

LEMMA StartFields ==
    ASSUME NEW o \in VersionObject, NEW p \in PCs
    PROVE  /\ Started(o, p) \in Reconcile
           /\ Started(o, p).pc = p /\ Started(o, p).snap = o /\ Started(o, p).file = o.file
BY DEF Started, Reconcile, VersionObject

\* A new run starts from the informer's copy.
LEMMA BeginEffect ==
    ASSUME RunType, NEW v \in Versions, cache[v] \in VersionObject, NEW p \in PCs, Begin(v, p)
    PROVE  /\ RunType'
           /\ run'[v].pc = p /\ run'[v].snap = cache[v] /\ run'[v].file = cache[v].file
           /\ \A w \in Versions \ {v} : run'[w] = run[w]
<1> DEFINE s == Started(cache[v], p)
<1>1. run' = [run EXCEPT ![v] = s]
  BY DEF Begin
<1>2. s \in Reconcile /\ s.pc = p /\ s.snap = cache[v] /\ s.file = cache[v].file
  BY StartFields
<1> HIDE DEF s
<1> QED BY <1>1, <1>2, RunUpdate

\* A write either changes the object and announces it, or changes nothing.
LEMMA WriteEffect ==
    ASSUME ObjectsType, NEW v \in Versions, NEW o \in VersionObject, Settle(o) = o, Write(v, o)
    PROVE  /\ ObjectsType'
           /\ api'[v] = o
           /\ \A w \in Versions \ {v} : api'[w] = api[w] /\ (w \in news' <=> w \in news)
           /\ o # api[v] => v \in news'
           /\ v \in news => v \in news'
<1>1. api' \in [Versions -> VersionObject] /\ api'[v] = o
      /\ \A w \in Versions \ {v} : api'[w] = api[w]
  BY DEF ObjectsType, Write
<1>2. \A w \in Versions : Settle(api'[w]) = api'[w]
  BY <1>1 DEF ObjectsType
<1> QED BY <1>1, <1>2 DEF ObjectsType, Write

\* The runs that Prepare, the downloads and EndScan leave, as operators: a record
\* update under a name of its own can be matched by the lemmas about it.
Fetched(r, f, a, p) == [r EXCEPT !.file = f, !.archive = a, !.pc = p]
Unpacked(r, a, p) == [r EXCEPT !.archive = a, !.pc = p]
Reported(r, p) == [r EXCEPT !.scanned = TRUE, !.pc = p]
Named(r, f, p) == [r EXCEPT !.file = f, !.pc = p]
Configured(r, f, p) == [r EXCEPT !.file = f, !.cfg = TRUE, !.pc = p]

LEMMA FetchFields ==
    ASSUME NEW r \in Reconcile, NEW p \in PCs, NEW f \in FileNames \cup {None},
           NEW a \in Archives \cup {None}, NEW s, s = Fetched(r, f, a, p)
    PROVE  /\ s \in Reconcile /\ s.pc = p /\ s.snap = r.snap /\ s.file = f /\ s.archive = a
           /\ s.cfg = r.cfg
BY DEF Reconcile, Fetched

LEMMA UnpackedFields ==
    ASSUME NEW r \in Reconcile, NEW p \in PCs, NEW a \in Archives \cup {None},
           NEW s, s = Unpacked(r, a, p)
    PROVE  /\ s \in Reconcile /\ s.pc = p /\ s.snap = r.snap /\ s.file = r.file
           /\ s.archive = a /\ s.cfg = r.cfg
BY DEF Reconcile, Unpacked

LEMMA ReportedFields ==
    ASSUME NEW r \in Reconcile, NEW p \in PCs, NEW s, s = Reported(r, p)
    PROVE  /\ s \in Reconcile /\ s.pc = p /\ s.snap = r.snap /\ s.file = r.file
           /\ s.archive = r.archive /\ s.cfg = r.cfg
BY DEF Reconcile, Reported

LEMMA PreparedFields ==
    ASSUME NEW r \in Reconcile, NEW p \in PCs, NEW f \in FileNames \cup {None}, NEW s,
           s = Named(r, f, p) \/ s = Configured(r, f, p)
    PROVE  s \in Reconcile /\ s.pc = p /\ s.snap = r.snap /\ s.file = f
BY DEF Reconcile, Named, Configured

LEMMA AfterFetchPC == \A v \in Versions : AfterFetch(v) \in {"putFirst", "verify"}
BY DEF AfterFetch

LEMMA DownloadIsArchive ==
    ASSUME TypeOK, NEW v \in Versions
    PROVE  Download(v) \in Archives /\ Download(v) # None
BY MarkersAreDistinct DEF TypeOK, Download, Archives

\* What fetching leaves in the run.
LEMMA FetchModuleEffect ==
    ASSUME TypeOK, NEW v \in Versions, FetchModule(v)
    PROVE  /\ RunType'
           /\ run'[v].pc \in {"putFirst", "verify"} /\ run'[v].snap = run[v].snap
           /\ run'[v].file = run[v].file /\ run'[v].archive # None /\ run'[v].cfg
           /\ run'[v].archive = Download(v)
           /\ \A w \in Versions \ {v} : run'[w] = run[w]
<1> DEFINE p == AfterFetch(v)
           a == Download(v)
           s == Unpacked(run[v], a, p)
<1>1. p \in PCs /\ p \in {"putFirst", "verify"}
  BY AfterFetchPC, SomePCs
<1>2. a \in Archives \cup {None} /\ a # None /\ a = Download(v)
  BY DownloadIsArchive
<1>3. run[v] \in Reconcile /\ RunType
  BY DEF TypeOK, RunType
<1>4. run' = [run EXCEPT ![v] = s]
  BY <1>3 DEF FetchModule, RunType, Unpacked
<1> HIDE DEF p, a
<1>5. /\ s \in Reconcile /\ s.pc = p /\ s.snap = run[v].snap /\ s.file = run[v].file
      /\ s.archive = a /\ s.cfg = run[v].cfg
  BY <1>1, <1>2, <1>3, UnpackedFields
<1>6. run[v].cfg
  BY DEF FetchModule
<1> HIDE DEF s
<1> QED BY <1>1, <1>2, <1>3, <1>4, <1>5, <1>6, RunUpdate

LEMMA DownloadProviderEffect ==
    ASSUME TypeOK, NEW v \in Versions, DownloadProvider(v)
    PROVE  /\ RunType'
           /\ run'[v].pc \in {"putFirst", "verify"} /\ run'[v].snap = run[v].snap
           /\ run'[v].file # None
           /\ run'[v].file = run[v].file \/ run'[v].file \in Unused
           /\ run'[v].archive # None /\ run'[v].cfg
           /\ \A w \in Versions \ {v} : run'[w] = run[w]
<1>0. PICK f \in (IF run[v].file = None THEN Unused ELSE {run[v].file}) :
          run' = [run EXCEPT ![v].file = f, ![v].archive = upstream[v], ![v].pc = AfterFetch(v)]
  BY DEF DownloadProvider
<1> DEFINE p == AfterFetch(v)
           a == upstream[v]
           s == Fetched(run[v], f, a, p)
<1>1. p \in PCs /\ p \in {"putFirst", "verify"}
  BY AfterFetchPC, SomePCs
<1>2. a \in Archives \cup {None} /\ a # None
  BY DEF DownloadProvider, TypeOK, Archives
<1>3. run[v] \in Reconcile /\ RunType
  BY DEF TypeOK, RunType
<1>4. f \in FileNames \cup {None} /\ f # None /\ (f = run[v].file \/ f \in Unused)
  BY <1>3, MarkersAreDistinct, ReconcileFields DEF Unused
<1>5. run' = [run EXCEPT ![v] = s]
  BY <1>0, <1>3 DEF RunType, Fetched
<1> HIDE DEF p, a
<1>6. /\ s \in Reconcile /\ s.pc = p /\ s.snap = run[v].snap /\ s.file = f /\ s.archive = a
      /\ s.cfg = run[v].cfg
  BY <1>1, <1>2, <1>3, <1>4, FetchFields
<1>7. run[v].cfg
  BY DEF DownloadProvider
<1> HIDE DEF s
<1> QED BY <1>1, <1>2, <1>3, <1>4, <1>5, <1>6, <1>7, RunUpdate

LEMMA EndScanEffect ==
    ASSUME TypeOK, NEW v \in Versions, EndScan(v)
    PROVE  /\ RunType'
           /\ run'[v].pc \in {"source", "finish"} /\ run'[v].snap = run[v].snap
           /\ run'[v].file = run[v].file /\ run'[v].archive = run[v].archive
           /\ run'[v].cfg = run[v].cfg
           /\ \A w \in Versions \ {v} : run'[w] = run[w]
<1> DEFINE p == AfterScan(v)
           s == Reported(run[v], p)
<1>1. p \in PCs /\ p \in {"source", "finish"}
  BY SomePCs DEF AfterScan
<1>2. run[v] \in Reconcile /\ RunType
  BY DEF TypeOK, RunType
<1>3. run' = [run EXCEPT ![v] = s]
  BY <1>2 DEF EndScan, RunType, Reported
<1> HIDE DEF p
<1>4. s \in Reconcile /\ s.pc = p /\ s.snap = run[v].snap /\ s.file = run[v].file
      /\ s.archive = run[v].archive /\ s.cfg = run[v].cfg
  BY <1>1, <1>2, ReportedFields
<1> HIDE DEF s
<1> QED BY <1>1, <1>2, <1>3, <1>4, RunUpdate

LEMMA PrepareEffect ==
    ASSUME TypeOK, NEW v \in Versions, Prepare(v)
    PROVE  /\ RunType'
           /\ run'[v].pc \in {"rejectDual", "fetch", "fastPath"} /\ run'[v].snap = run[v].snap
           /\ run'[v].file \in PreparedNames(v)
           /\ run'[v].pc = "fetch" => v \in Modules
           /\ run'[v].pc = "fastPath" => v \notin Modules
           /\ run'[v].pc = "rejectDual" <=> v \in Dual
           /\ \A w \in Versions \ {v} : run'[w] = run[w]
<1> DEFINE p == IF v \in Dual THEN "rejectDual"
                ELSE IF v \in Modules THEN "fetch" ELSE "fastPath"
<1>0. PICK f \in PreparedNames(v) :
          run' = [run EXCEPT ![v].file = f,
                             ![v].cfg = IF v \in Modules /\ seen[v] # None THEN TRUE ELSE @,
                             ![v].pc = p]
  BY DEF Prepare
<1>1. /\ p \in PCs /\ p \in {"rejectDual", "fetch", "fastPath"}
      /\ p = "fetch" => v \in Modules
      /\ p = "fastPath" => v \notin Modules
      /\ p = "rejectDual" <=> v \in Dual
  BY SomePCs
<1>2. run[v] \in Reconcile /\ RunType
  BY DEF TypeOK, RunType
<1>3. f \in FileNames \cup {None}
  BY <1>2, ReconcileFields, ObjectFields DEF PreparedNames, TypeOK, Unused
<1>4. PICK s : run' = [run EXCEPT ![v] = s]
               /\ (s = Named(run[v], f, p) \/ s = Configured(run[v], f, p))
  <2> HIDE DEF p
  <2>1. CASE v \in Modules /\ seen[v] # None
    BY <1>0, <1>2, <2>1 DEF RunType, Configured
  <2>2. CASE ~(v \in Modules /\ seen[v] # None)
    <3>1. run[v] = [run[v] EXCEPT !.cfg = run[v].cfg]
      BY <1>2 DEF Reconcile
    <3>2. run' = [run EXCEPT ![v] = Named(run[v], f, p)]
      BY <1>0, <1>2, <2>2, <3>1 DEF RunType, Reconcile, Named
    <3> QED BY <3>2
  <2> QED BY <2>1, <2>2
<1> HIDE DEF p
<1>5. s \in Reconcile /\ s.pc = p /\ s.snap = run[v].snap /\ s.file = f
  BY <1>1, <1>2, <1>3, <1>4, PreparedFields
<1> QED BY <1>1, <1>2, <1>4, <1>5, RunUpdate

(***************************************************************************)
(* The edits of a resource that are written.  Each gives a resource again, *)
(* one that does not linger in termination without a finalizer.            *)
(***************************************************************************)
LEMMA UnsyncedFields ==
    ASSUME NEW o \in VersionObject, Settle(o) = o, NEW q, q = [o EXCEPT !.synced = FALSE]
    PROVE  /\ q \in VersionObject /\ Settle(q) = q
           /\ q.synced = FALSE /\ q.st = o.st /\ q.file = o.file /\ q.sum = o.sum
           /\ q.fin = o.fin
<1>1. /\ q \in VersionObject /\ q.fin = o.fin
      /\ q.synced = FALSE /\ q.st = o.st /\ q.file = o.file /\ q.sum = o.sum
  BY DEF VersionObject
<1> QED BY <1>1 DEF Settle, NoVersion

LEMMA FinalizedFields ==
    ASSUME NEW o \in VersionObject, NEW q, q = [o EXCEPT !.fin = TRUE]
    PROVE  /\ q \in VersionObject /\ Settle(q) = q
           /\ q.synced = o.synced /\ q.st = o.st /\ q.file = o.file /\ q.sum = o.sum
BY DEF VersionObject, Settle, NoVersion

LEMMA WithSpecFields ==
    ASSUME NEW o \in VersionObject, Settle(o) = o, NEW r \in Reconcile, NEW q, q = WithSpec(o, r)
    PROVE  /\ q \in VersionObject /\ Settle(q) = q
           /\ q.synced = o.synced /\ q.st = o.st /\ q.file = r.file /\ q.sum = o.sum
           /\ q.cfg = r.cfg
<1>1. r.file \in FileNames \cup {None} /\ r.cfg \in BOOLEAN
  BY ReconcileFields
<1>2. /\ q \in VersionObject /\ q.fin = o.fin
      /\ q.synced = o.synced /\ q.st = o.st /\ q.file = r.file /\ q.sum = o.sum
      /\ q.cfg = r.cfg
  BY <1>1 DEF VersionObject, WithSpec
<1> QED BY <1>2 DEF Settle, NoVersion

LEMMA RecordedFields ==
    ASSUME NEW o \in VersionObject, Settle(o) = o, NEW r \in Reconcile, r.archive # None,
           NEW q, q = Recorded(o, r)
    PROVE  /\ q \in VersionObject
           /\ o.st # "absent" => Settle(q) = q
           /\ q.synced /\ q.st = o.st /\ q.file = o.file /\ q.sum = r.archive
           /\ q.cfg = o.cfg /\ q.fin = o.fin
<1>1. r.archive \in Archives
  BY ReconcileFields
<1>2. /\ q \in VersionObject /\ q.fin = o.fin
      /\ q.synced /\ q.st = o.st /\ q.file = o.file /\ q.sum = r.archive
      /\ q.cfg = o.cfg
  BY <1>1 DEF VersionObject, Recorded
<1> QED BY <1>2 DEF Settle, NoVersion

\* Once the finalizer of a terminating Version is off, there is no Version.
LEMMA ReleasedFields ==
    ASSUME NEW o \in VersionObject, NEW q, q = Settle([o EXCEPT !.fin = FALSE])
    PROVE  /\ q \in VersionObject /\ Settle(q) = q
           /\ o.st = "deleting" => q = NoVersion
           /\ q = NoVersion \/ (q.synced = o.synced /\ q.st = o.st /\ q.file = o.file
                                 /\ q.sum = o.sum)
<1> DEFINE t == [o EXCEPT !.fin = FALSE]
<1>1. /\ t \in VersionObject /\ ~t.fin
      /\ t.synced = o.synced /\ t.st = o.st /\ t.file = o.file /\ t.sum = o.sum
  BY DEF VersionObject
<1>2. q = Settle(t)
  OBVIOUS
<1> HIDE DEF t
<1> QED BY <1>1, <1>2, IdleType DEF Settle

LEMMA RewrittenFields ==
    ASSUME NEW v \in Versions, NEW o \in VersionObject, NEW q, q = Rewritten(v, o)
    PROVE  /\ q \in VersionObject /\ Settle(q) = q
           /\ q = NoVersion \/ (q.synced = o.synced /\ q.st = o.st /\ q.file = o.file
                                 /\ q.sum = o.sum)
<1> DEFINE c == v \in Providers
           t == [o EXCEPT !.fin = FALSE, !.cfg = c]
<1>1. /\ t \in VersionObject /\ ~t.fin
      /\ t.synced = o.synced /\ t.st = o.st /\ t.file = o.file /\ t.sum = o.sum
  <2> c \in BOOLEAN
    OBVIOUS
  <2> HIDE DEF c
  <2> QED BY DEF VersionObject
<1>2. q = Settle(t)
  BY DEF Rewritten
<1> HIDE DEF t
<1> QED BY <1>1, <1>2, IdleType DEF Settle

LEMMA DeletedFields ==
    ASSUME NEW o \in VersionObject, NEW q, q = Settle([o EXCEPT !.st = "deleting"])
    PROVE  /\ q \in VersionObject /\ Settle(q) = q
           /\ q = NoVersion \/ (q.synced = o.synced /\ q.st = "deleting" /\ q.file = o.file
                                 /\ q.sum = o.sum)
<1> DEFINE t == [o EXCEPT !.st = "deleting"]
<1>1. /\ t \in VersionObject /\ t.fin = o.fin
      /\ t.synced = o.synced /\ t.st = "deleting" /\ t.file = o.file /\ t.sum = o.sum
  BY DEF VersionObject
<1>2. q = Settle(t)
  OBVIOUS
<1> HIDE DEF t
<1> QED BY <1>1, <1>2, IdleType DEF Settle

LEMMA NewFields ==
    ASSUME NEW f \in FileNames \cup {None}, NEW c, c \in BOOLEAN, NEW q, q = NewVersion(f, c)
    PROVE  /\ q \in VersionObject /\ Settle(q) = q
           /\ q.synced = FALSE /\ q.st = "live" /\ q.file = f /\ q.sum = None
BY DEF VersionObject, Settle, NoVersion, NewVersion
(***************************************************************************)
(* The writes of the actions.                                              *)
(***************************************************************************)
LEMMA ObjectsTyped ==
    ASSUME TypeOK, NEW v \in Versions
    PROVE  ObjectsType /\ api[v] \in VersionObject /\ Settle(api[v]) = api[v]
BY DEF TypeOK, ObjectsType

\* What a write of o over api[v] leaves, in one formula.
Wrote(v, o) ==
    /\ ObjectsType'
    /\ api'[v] = o
    /\ \A w \in Versions \ {v} : api'[w] = api[w] /\ (w \in news' <=> w \in news)
    /\ o # api[v] => v \in news'
    /\ v \in news => v \in news'

LEMMA Writes ==
    ASSUME TypeOK, NEW v \in Versions, NEW o \in VersionObject, Settle(o) = o, Write(v, o)
    PROVE  Wrote(v, o)
BY ObjectsTyped, WriteEffect DEF Wrote

\* A status write can only make a Version less synced.
LEMMA MarkUnsyncedEffect ==
    ASSUME TypeOK, NEW v \in Versions, MarkUnsynced(v)
    PROVE  /\ Wrote(v, api'[v])
           /\ api'[v].st = api[v].st /\ api'[v].file = api[v].file
           /\ api'[v].sum = api[v].sum
           /\ api'[v].synced => api[v].synced
<1>1. CASE v \in fresh
  <2> DEFINE q == [api[v] EXCEPT !.synced = FALSE]
  <2>1. /\ q \in VersionObject /\ Settle(q) = q
        /\ q.synced = FALSE /\ q.st = api[v].st /\ q.file = api[v].file
        /\ q.sum = api[v].sum
    BY ObjectsTyped, UnsyncedFields
  <2>2. Write(v, q)
    BY <1>1 DEF MarkUnsynced
  <2> HIDE DEF q
  <2>3. Wrote(v, q)
    BY <2>1, <2>2, Writes
  <2> QED BY <2>1, <2>3 DEF Wrote
<1>2. CASE v \notin fresh
  BY <1>2, ObjectsTyped DEF MarkUnsynced, Wrote, ObjectsType
<1> QED BY <1>1, <1>2

LEMMA AddFinalizerEffect ==
    ASSUME TypeOK, NEW v \in Versions, AddFinalizer(v)
    PROVE  /\ Wrote(v, api'[v])
           /\ api'[v].st = api[v].st /\ api'[v].file = api[v].file
           /\ api'[v].synced = api[v].synced /\ api'[v].sum = api[v].sum
<1> DEFINE q == [api[v] EXCEPT !.fin = TRUE]
<1>1. /\ q \in VersionObject /\ Settle(q) = q
      /\ q.synced = api[v].synced /\ q.st = api[v].st /\ q.file = api[v].file
      /\ q.sum = api[v].sum
  BY ObjectsTyped, FinalizedFields
<1>2. Write(v, q)
  BY DEF AddFinalizer
<1> HIDE DEF q
<1>3. Wrote(v, q)
  BY <1>1, <1>2, Writes
<1> QED BY <1>1, <1>3 DEF Wrote

LEMMA RejectDualEffect ==
    ASSUME TypeOK, NEW v \in Versions, RejectDual(v)
    PROVE  /\ Wrote(v, api'[v])
           /\ api'[v].st = api[v].st /\ api'[v].file = api[v].file /\ ~api'[v].synced
           /\ api'[v].sum = api[v].sum /\ api'[v].fin = api[v].fin
<1> DEFINE q == [api[v] EXCEPT !.synced = FALSE]
<1>1. /\ q \in VersionObject /\ Settle(q) = q
      /\ q.synced = FALSE /\ q.st = api[v].st /\ q.file = api[v].file
      /\ q.sum = api[v].sum /\ q.fin = api[v].fin
  BY ObjectsTyped, UnsyncedFields
<1>2. Write(v, q)
  BY DEF RejectDual
<1> HIDE DEF q
<1>3. Wrote(v, q)
  BY <1>1, <1>2, Writes
<1> QED BY <1>1, <1>3 DEF Wrote

LEMMA PersistEffect ==
    ASSUME TypeOK, NEW v \in Versions, Persist(v)
    PROVE  /\ Wrote(v, api'[v])
           /\ api'[v].st = api[v].st /\ api'[v].file = run[v].file
           /\ api'[v].synced = api[v].synced /\ api'[v].sum = api[v].sum
           /\ api'[v].cfg = run[v].cfg
           /\ fresh' = IF api'[v] = api[v] THEN fresh ELSE fresh \ {v}
<1> DEFINE q == WithSpec(api[v], run[v])
<1>0. run[v] \in Reconcile
  BY DEF TypeOK
<1>1. /\ q \in VersionObject /\ Settle(q) = q
      /\ q.synced = api[v].synced /\ q.st = api[v].st /\ q.file = run[v].file
      /\ q.sum = api[v].sum /\ q.cfg = run[v].cfg
  BY <1>0, ObjectsTyped, WithSpecFields
<1>2. Write(v, q) /\ Outdate(v, q)
  BY DEF Persist
<1> HIDE DEF q
<1>3. Wrote(v, q)
  BY <1>1, <1>2, Writes
<1> QED BY <1>1, <1>2, <1>3 DEF Wrote, Outdate

LEMMA FinishEffect ==
    ASSUME TypeOK, NEW v \in Versions, HasArchive(v), Finish(v)
    PROVE  /\ Wrote(v, api'[v])
           /\ api'[v].st = api[v].st /\ api'[v].file = api[v].file
           /\ api'[v].synced /\ api'[v].sum = run[v].archive
           /\ api'[v].cfg = api[v].cfg /\ api'[v].fin = api[v].fin
<1> DEFINE q == Recorded(api[v], run[v])
<1>0. run[v] \in Reconcile /\ run[v].archive # None /\ api[v].st # "absent"
  BY DEF TypeOK, HasArchive, Finish, Published
<1>1. /\ q \in VersionObject /\ Settle(q) = q
      /\ q.synced /\ q.st = api[v].st /\ q.file = api[v].file
      /\ q.sum = run[v].archive /\ q.cfg = api[v].cfg
      /\ q.fin = api[v].fin
  <2>1. api[v] \in VersionObject /\ Settle(api[v]) = api[v]
    BY ObjectsTyped
  <2> QED BY <1>0, <2>1, RecordedFields
<1>2. /\ api' = [api EXCEPT ![v] = q]
      /\ news' = IF run[v].scanned \/ q # api[v] THEN news \cup {v} ELSE news
  BY DEF Finish, TypeOK
<1> HIDE DEF q
<1>3. Wrote(v, q)
  BY <1>1, <1>2, ObjectsTyped DEF Wrote, ObjectsType
<1> QED BY <1>1, <1>3 DEF Wrote

LEMMA RemoveFinalizerEffect ==
    ASSUME TypeOK, NEW v \in Versions, RemoveFinalizer(v)
    PROVE  /\ Wrote(v, api'[v])
           /\ api[v].st = "deleting" => api'[v] = NoVersion
           /\ api'[v] = NoVersion \/ (api'[v].synced = api[v].synced /\ api'[v].st = api[v].st
                 /\ api'[v].file = api[v].file /\ api'[v].sum = api[v].sum)
<1> DEFINE q == Settle([api[v] EXCEPT !.fin = FALSE])
<1>1. /\ q \in VersionObject /\ Settle(q) = q
      /\ api[v].st = "deleting" => q = NoVersion
      /\ q = NoVersion \/ (q.synced = api[v].synced /\ q.st = api[v].st
                             /\ q.file = api[v].file /\ q.sum = api[v].sum)
  BY ObjectsTyped, ReleasedFields
<1>2. Write(v, q)
  BY DEF RemoveFinalizer
<1> HIDE DEF q
<1>3. Wrote(v, q)
  BY <1>1, <1>2, Writes
<1> QED BY <1>1, <1>3 DEF Wrote

LEMMA OwnerWriteEffect ==
    ASSUME TypeOK, NEW v \in Versions, NEW o \in VersionObject, Settle(o) = o, OwnerWrites(v, o)
    PROVE  /\ Wrote(v, o)
           /\ fresh' = IF api'[v] = api[v] THEN fresh ELSE fresh \ {v}
           /\ UNCHANGED <<cache, queued, run, seen, upstream, store, sems, srcScan>>
<1>1. Wrote(v, o)
  BY Writes DEF OwnerWrites
<1> QED BY <1>1 DEF OwnerWrites, Outdate, Wrote

\* What an owner's run holds for v, and the refs it writes: its own names.
HoldsNames(v) ==
    /\ hand' \in [Versions -> Held]
    /\ hand'[v].name \in {None, hand[v].name, api[v].file} \cup Unused
    /\ ref' \in [Versions -> FileNames \cup {None}]
    /\ ref'[v] \in {None, ref[v], hand'[v].name}
    /\ \A w \in Versions \ {v} : hand'[w] = hand[w] /\ ref'[w] \in {None, ref[w], hand[w].name}

\* No owner makes a Version synced, gives a synced one another name, or any one
\* another checksum, or takes the checksum from one without taking all of it; the names
\* an owner brings in are drawn afresh.
Owned(v) ==
    /\ Wrote(v, api'[v])
    /\ api'[v].synced => /\ api[v].synced /\ api'[v].file = api[v].file
                         /\ api'[v].sum = api[v].sum
                         /\ api'[v].st = "live" => api[v].st = "live"
    /\ api'[v].file \in {None, api[v].file, hand[v].name}
    /\ api'[v].sum \in {None, api[v].sum}
    /\ api[v].st # "absent" => api'[v] = NoVersion \/ api'[v].sum = api[v].sum
    /\ HoldsNames(v)
    /\ fresh' = IF api'[v] = api[v] THEN fresh ELSE fresh \ {v}
    /\ UNCHANGED <<cache, queued, run, seen, upstream, store, sems, srcScan>>

LEMMA HeldFields ==
    ASSUME NEW h \in Held
    PROVE  h.name \in FileNames \cup {None} /\ h.drawn \in BOOLEAN
BY DEF Held

LEMMA NothingHeld == Nothing \in Held /\ Nothing.name = None
BY DEF Nothing, Held

\* A run that holds a record h for v, and leaves the refs alone.
LEMMA HandEffect ==
    ASSUME TypeOK, NEW v \in Versions, NEW h \in Held,
           h.name \in {None, hand[v].name, api[v].file} \cup Unused,
           hand' = [hand EXCEPT ![v] = h], ref' = ref
    PROVE  HoldsNames(v)
BY DEF HoldsNames, TypeOK

LEMMA KeepsHand ==
    ASSUME TypeOK, NEW v \in Versions, UNCHANGED <<ref, hand>>
    PROVE  HoldsNames(v)
BY DEF HoldsNames, TypeOK

LEMMA RefsEffect ==
    ASSUME NEW held \in [Versions -> Held], WriteRefs(held)
    PROVE  /\ ref' \in [Versions -> FileNames \cup {None}]
           /\ \A w \in Versions : ref'[w] \in {None, held[w].name}
           /\ UNCHANGED <<objects, queued, run, fresh, seen, upstream, store, sems, srcScan>>
<1>1. PICK R \in SUBSET Modules : ref' = Refs(held, R)
  BY DEF WriteRefs
<1>2. \A w \in Versions : held[w].name \in FileNames \cup {None}
  BY HeldFields
<1>3. ref' = [w \in Versions |-> IF w \in R THEN held[w].name ELSE None]
  BY <1>1 DEF Refs
<1> QED BY <1>2, <1>3 DEF WriteRefs

LEMMA OwnerEffect ==
    ASSUME TypeOK, NEW v \in Versions, OwnerStep(v)
    PROVE  Owned(v)
<1>0. /\ ObjectsType /\ api[v] \in VersionObject /\ Settle(api[v]) = api[v]
      /\ hand \in [Versions -> Held] /\ hand[v] \in Held
  BY ObjectsTyped DEF TypeOK
<1>1. api[v].file \in FileNames \cup {None} /\ hand[v].name \in FileNames \cup {None}
  BY <1>0, ObjectFields, HeldFields
<1>2. CASE RecordName(v)
  <2>1. PICK f \in Unused : /\ hand' = [hand EXCEPT ![v] = [name |-> f, drawn |-> TRUE]]
                            /\ WriteRefs(hand') /\ ref'[v] = f
    BY <1>2 DEF RecordName
  <2>2. f \in FileNames
    BY DEF Unused
  <2>3. /\ hand' \in [Versions -> Held] /\ hand'[v].name = f
        /\ \A w \in Versions \ {v} : hand'[w] = hand[w]
    BY <1>0, <2>1, <2>2 DEF Held
  <2> DEFINE h == hand'
  <2>4. h \in [Versions -> Held] /\ WriteRefs(h)
    BY <2>1, <2>3
  <2> HIDE DEF h
  <2>5. /\ ref' \in [Versions -> FileNames \cup {None}]
        /\ \A w \in Versions : ref'[w] \in {None, h[w].name}
        /\ UNCHANGED <<objects, queued, run, fresh, seen, upstream, store, sems, srcScan>>
    BY <2>4, RefsEffect
  <2>6. HoldsNames(v)
    BY <2>1, <2>3, <2>5 DEF h, HoldsNames
  <2> QED BY <1>0, <2>5, <2>6 DEF Owned, Wrote, ObjectsType, objects
<1>3. CASE CreateForModule(v)
  <2> DEFINE q == NewVersion(hand[v].name, FALSE)
             h == [hand[v] EXCEPT !.drawn = FALSE]
  <2>1. q \in VersionObject /\ Settle(q) = q /\ q.synced = FALSE /\ q.file = hand[v].name
        /\ q.sum = None
    BY <1>1, NewFields
  <2>2. OwnerWrites(v, q) /\ ref' = ref /\ hand' = [hand EXCEPT ![v] = h]
    BY <1>0, <1>3 DEF CreateForModule
  <2>3. h \in Held /\ h.name = hand[v].name
    BY <1>0 DEF Held
  <2> HIDE DEF q, h
  <2>4. Wrote(v, q) /\ fresh' = (IF api'[v] = api[v] THEN fresh ELSE fresh \ {v})
        /\ UNCHANGED <<cache, queued, run, seen, upstream, store, sems, srcScan>>
    BY <2>1, <2>2, OwnerWriteEffect
  <2>5. api'[v] = q
    BY <2>4 DEF Wrote
  <2>6. HoldsNames(v)
    BY <2>2, <2>3, HandEffect
  <2>7. api[v].st = "absent"
    BY <1>3 DEF CreateForModule
  <2> QED BY <2>1, <2>4, <2>5, <2>6, <2>7 DEF Owned
<1>4. CASE CreateWithConfig(v)
  <2> DEFINE q == NewVersion(None, TRUE)
  <2>1. q \in VersionObject /\ Settle(q) = q /\ q.synced = FALSE /\ q.file = None
        /\ q.sum = None
    BY NewFields
  <2>2. OwnerWrites(v, q) /\ HoldsNames(v)
    BY <1>4, KeepsHand DEF CreateWithConfig
  <2> HIDE DEF q
  <2>3. Wrote(v, q) /\ fresh' = (IF api'[v] = api[v] THEN fresh ELSE fresh \ {v})
        /\ UNCHANGED <<cache, queued, run, seen, upstream, store, sems, srcScan>>
    BY <2>1, <2>2, OwnerWriteEffect
  <2>4. api'[v] = q
    BY <2>3 DEF Wrote
  <2>5. api[v].st = "absent"
    BY <1>4 DEF CreateWithConfig
  <2> QED BY <2>1, <2>2, <2>3, <2>4, <2>5 DEF Owned
<1>5. CASE Rewrite(v)
  <2> DEFINE q == Rewritten(v, api[v])
             h == [name |-> api[v].file, drawn |-> FALSE]
  <2>1. /\ q \in VersionObject /\ Settle(q) = q
        /\ q = NoVersion \/ (q.synced = api[v].synced /\ q.st = api[v].st
                               /\ q.file = api[v].file /\ q.sum = api[v].sum)
    BY <1>0, RewrittenFields
  <2>2. /\ OwnerWrites(v, q)
        /\ \/ hand' = [hand EXCEPT ![v] = h] /\ ref' = ref
           \/ UNCHANGED <<ref, hand>>
    BY <1>5 DEF Rewrite
  <2>3. h \in Held /\ h.name = api[v].file
    BY <1>1 DEF Held
  <2> HIDE DEF q, h
  <2>4. Wrote(v, q) /\ fresh' = (IF api'[v] = api[v] THEN fresh ELSE fresh \ {v})
        /\ UNCHANGED <<cache, queued, run, seen, upstream, store, sems, srcScan>>
    BY <2>1, <2>2, OwnerWriteEffect
  <2>5. api'[v] = q
    BY <2>4 DEF Wrote
  <2>6. HoldsNames(v)
    BY <2>2, <2>3, HandEffect, KeepsHand
  <2> QED BY <2>1, <2>4, <2>5, <2>6, IdleType DEF Owned
<1>6. CASE DeleteVersion(v)
  <2> DEFINE q == Settle([api[v] EXCEPT !.st = "deleting"])
  <2>1. /\ q \in VersionObject /\ Settle(q) = q
        /\ q = NoVersion \/ (q.synced = api[v].synced /\ q.st = "deleting"
                               /\ q.file = api[v].file /\ q.sum = api[v].sum)
    BY <1>0, DeletedFields
  <2>2. OwnerWrites(v, q) /\ HoldsNames(v)
    BY <1>6, KeepsHand DEF DeleteVersion
  <2> HIDE DEF q
  <2>3. Wrote(v, q) /\ fresh' = (IF api'[v] = api[v] THEN fresh ELSE fresh \ {v})
        /\ UNCHANGED <<cache, queued, run, seen, upstream, store, sems, srcScan>>
    BY <2>1, <2>2, OwnerWriteEffect
  <2>4. api'[v] = q
    BY <2>3 DEF Wrote
  <2> QED BY <2>1, <2>2, <2>3, <2>4, IdleType DEF Owned
<1> QED BY <1>2, <1>3, <1>4, <1>5, <1>6 DEF OwnerStep

(***************************************************************************)
(* Type correctness.                                                       *)
(***************************************************************************)
LEMMA ProviderRelease ==
    ASSUME NEW v \in Providers
    PROVE  Release[v] \in Releases
BY ReleaseType

LEMMA ControllerTypes ==
    ASSUME TypeOK, NEW v \in Versions, HasArchive(v), SourceOfProvider(v), ControllerStep(v)
    PROVE  TypeOK'
<1>1. CASE StartGone(v)
  BY <1>1 DEF StartGone, TypeOK, objects, outside, sems
<1>2. CASE AddFinalizer(v)
  BY <1>2, AddFinalizerEffect DEF AddFinalizer, Wrote, ObjectsType, TypeOK, outside, sems
<1>3. CASE StartDelete(v)
  <2>1. RunType'
    BY <1>3, SomePCs, BeginEffect
        DEF StartDelete, TypeOK, RunType
  <2> QED BY <1>3, <2>1 DEF StartDelete, Begin, TypeOK, RunType, objects, outside, sems
<1>4. CASE StartSync(v)
  <2>1. RunType'
    BY <1>4, SomePCs, BeginEffect DEF StartSync, TypeOK, RunType
  <2> QED BY <1>4, <2>1 DEF StartSync, Begin, TypeOK, RunType, objects, outside, sems
<1>5. CASE Prepare(v)
  BY <1>5, PrepareEffect DEF Prepare, TypeOK, ObjectsType, RunType, objects, outside, sems
<1>6. CASE RejectDual(v)
  <2>1. RunType' /\ fresh' = fresh \ {v}
    BY <1>6, CloseEffect DEF RejectDual, TypeOK, RunType
  <2> QED BY <1>6, <2>1, RejectDualEffect DEF RejectDual, Wrote, TypeOK, ObjectsType, RunType, objects, outside, sems
<1>7. CASE FetchModule(v)
  BY <1>7, FetchModuleEffect DEF FetchModule, TypeOK, ObjectsType, RunType, objects, outside, sems
<1>8. CASE RejectReplaced(v)
  <2>1. RunType' /\ fresh' = fresh \ {v}
    BY <1>8, CloseEffect DEF RejectReplaced, TypeOK, RunType
  <2>2. ObjectsType'
    BY <1>8, MarkUnsyncedEffect DEF RejectReplaced, Wrote
  <2> QED BY <1>8, <2>1, <2>2 DEF RejectReplaced, Requeue, TypeOK, ObjectsType, RunType, objects, outside, sems
<1>9. CASE FastPathHit(v)
  <2>1. RunType' /\ fresh' = fresh \ {v}
    BY <1>9, CloseEffect DEF FastPathHit, TypeOK, RunType
  <2> QED BY <1>9, <2>1 DEF FastPathHit, TypeOK, ObjectsType, RunType, objects, outside, sems
<1>10. CASE FastPathMiss(v)
  <2>1. RunType'
    BY <1>10, SomePCs, GotoEffect DEF FastPathMiss, TypeOK, RunType
  <2> QED BY <1>10, <2>1 DEF FastPathMiss, TypeOK, ObjectsType, RunType, objects, outside, sems
<1>11. CASE AcquireDownload(v)
  <2>1. RunType'
    BY <1>11, SomePCs, GotoEffect DEF AcquireDownload, TypeOK, RunType
  <2> QED BY <1>11, <2>1 DEF AcquireDownload, TypeOK, ObjectsType, RunType, objects, outside, sems
<1>12. CASE DownloadProvider(v)
  BY <1>12, DownloadProviderEffect DEF DownloadProvider, TypeOK, ObjectsType, RunType, objects, outside, sems
<1>13. CASE Verify(v)
  <2>1. RunType'
    BY <1>13, SomePCs, GotoEffect DEF Verify, TypeOK, RunType
  <2> QED BY <1>13, <2>1 DEF Verify, TypeOK, ObjectsType, RunType, objects, outside, sems
<1>14. CASE BeginPut(v)
  <2>1. RunType'
    BY <1>14, SomePCs, GotoEffect DEF BeginPut, TypeOK, RunType
  <2> QED BY <1>14, <2>1 DEF BeginPut, TypeOK, ObjectsType, RunType, objects, outside, sems
<1>15. CASE EndPut(v)
  <2>1. RunType'
    BY <1>15, SomePCs, GotoEffect DEF EndPut, TypeOK, RunType
  <2>2. run[v].archive \in Archives
    BY <1>15, ReconcileFields DEF EndPut, TypeOK, HasArchive, Uploading
  <2> QED BY <1>15, <2>1, <2>2 DEF EndPut, TypeOK, ObjectsType, RunType, objects, outside, sems
<1>16. CASE Persist(v)
  <2>1. RunType'
    BY <1>16, SomePCs, GotoEffect DEF Persist, TypeOK, RunType
  <2> QED BY <1>16, <2>1, PersistEffect DEF Persist, Wrote, TypeOK, ObjectsType, RunType, objects, outside, sems
<1>17. CASE BeginScan(v)
  <2>1. RunType'
    BY <1>17, SomePCs, GotoEffect DEF BeginScan, TypeOK, RunType
  <2> QED BY <1>17, <2>1 DEF BeginScan, TypeOK, ObjectsType, RunType, objects, outside, sems
<1>18. CASE EndScan(v)
  BY <1>18, EndScanEffect DEF EndScan, TypeOK, ObjectsType, RunType, objects, outside, sems
<1>19. CASE ScanFails(v)
  <2>1. RunType'
    BY <1>19, SomePCs, GotoEffect DEF ScanFails, TypeOK, RunType, AfterScan
  <2> QED BY <1>19, <2>1 DEF ScanFails, TypeOK, ObjectsType, RunType, objects, outside, sems
<1>20. CASE BlockScan(v)
  <2>1. RunType' /\ fresh' = fresh \ {v}
    BY <1>20, CloseEffect DEF BlockScan, TypeOK, RunType
  <2>2. ObjectsType'
    BY <1>20, MarkUnsyncedEffect DEF BlockScan, Wrote
  <2> QED BY <1>20, <2>1, <2>2 DEF BlockScan, Requeue, TypeOK, ObjectsType, RunType, objects, outside, sems
<1>21. CASE SkipSource(v)
  <2>1. RunType'
    BY <1>21, SomePCs, GotoEffect DEF SkipSource, TypeOK, RunType
  <2> QED BY <1>21, <2>1 DEF SkipSource, TypeOK, ObjectsType, RunType, objects, outside, sems
<1>21a. CASE MissSource(v)
  <2>1. RunType'
    BY <1>21a, SomePCs, GotoEffect DEF MissSource, TypeOK, RunType
  <2> QED BY <1>21a, <2>1 DEF MissSource, TypeOK, ObjectsType, RunType, objects, outside, sems
<1>22. CASE BeginSource(v)
  <2>1. RunType'
    BY <1>22, SomePCs, GotoEffect DEF BeginSource, TypeOK, RunType
  <2> QED BY <1>22, <2>1 DEF BeginSource, TypeOK, ObjectsType, RunType, objects, outside, sems
<1>23. CASE NoGoMod(v)
  <2>1. RunType'
    BY <1>23, SomePCs, GotoEffect DEF NoGoMod, TypeOK, RunType
  <2>2. srcScan' \in Releases \cup {None}
    BY <1>23, ProviderRelease DEF NoGoMod, SourceOfProvider, TypeOK
  <2> QED BY <1>23, <2>1, <2>2 DEF NoGoMod, TypeOK, ObjectsType, RunType, objects, outside, sems
<1>24. CASE EndSource(v)
  <2>1. RunType'
    BY <1>24, SomePCs, GotoEffect DEF EndSource, TypeOK, RunType
  <2>2. srcScan' \in Releases \cup {None}
    BY <1>24, ProviderRelease DEF EndSource, SourceOfProvider, TypeOK
  <2> QED BY <1>24, <2>1, <2>2 DEF EndSource, TypeOK, ObjectsType, RunType, objects, outside, sems
<1>25. CASE SourceFails(v)
  <2>1. RunType'
    BY <1>25, SomePCs, GotoEffect DEF SourceFails, TypeOK, RunType
  <2> QED BY <1>25, <2>1 DEF SourceFails, TypeOK, ObjectsType, RunType, objects, outside, sems
<1>26. CASE BlockSource(v)
  <2>1. RunType' /\ fresh' = fresh \ {v}
    BY <1>26, CloseEffect DEF BlockSource, TypeOK, RunType
  <2>2. ObjectsType'
    BY <1>26, MarkUnsyncedEffect DEF BlockSource, Wrote
  <2>3. srcScan' \in Releases \cup {None}
    BY <1>26, ProviderRelease DEF BlockSource, SourceOfProvider, TypeOK
  <2> QED BY <1>26, <2>1, <2>2, <2>3 DEF BlockSource, Requeue, TypeOK, ObjectsType, RunType, objects, outside, sems
<1>27. CASE Finish(v)
  <2>1. RunType' /\ fresh' = fresh \ {v}
    BY <1>27, CloseEffect DEF Finish, TypeOK, RunType
  <2> QED BY <1>27, <2>1, FinishEffect DEF Finish, Wrote, TypeOK, ObjectsType, RunType, objects, outside, sems
<1>28. CASE RemoveArtifact(v)
  <2>1. RunType'
    BY <1>28, SomePCs, GotoEffect DEF RemoveArtifact, TypeOK, RunType
  <2> QED BY <1>28, <2>1 DEF RemoveArtifact, TypeOK, ObjectsType, RunType, objects, outside, sems
<1>29. CASE RemoveFinalizer(v)
  <2>1. RunType' /\ fresh' = fresh \ {v}
    BY <1>29, CloseEffect DEF RemoveFinalizer, TypeOK, RunType
  <2> QED BY <1>29, <2>1, RemoveFinalizerEffect DEF RemoveFinalizer, Wrote, TypeOK, ObjectsType, RunType, objects, outside, sems
<1> QED BY <1>1, <1>2, <1>3, <1>4, <1>5, <1>6, <1>7, <1>8, <1>9, <1>10, <1>11, <1>12,
           <1>13, <1>14, <1>15, <1>16, <1>17, <1>18, <1>19, <1>20, <1>21, <1>21a, <1>22,
           <1>23, <1>24, <1>25, <1>26, <1>27, <1>28, <1>29 DEF ControllerStep

LEMMA EnvironmentTypes ==
    ASSUME TypeOK, NEW v \in Versions,
           Abort(v) \/ Deliver(v) \/ Resync(v) \/ OwnerStep(v) \/ Retag(v)
    PROVE  TypeOK'
<1>1. CASE Abort(v)
  <2>1. RunType' /\ fresh' = fresh \ {v}
    BY <1>1, CloseEffect DEF Abort, TypeOK, RunType
  <2> QED BY <1>1, <2>1 DEF Abort, Requeue, Released, TypeOK, RunType, objects, outside
<1>2. CASE Deliver(v)
  BY <1>2 DEF Deliver, Requeue, TypeOK, outside, sems
<1>3. CASE Resync(v)
  BY <1>3 DEF Resync, Requeue, TypeOK, objects, outside, sems
<1>4. CASE OwnerStep(v)
  BY <1>4, OwnerEffect DEF Owned, HoldsNames, Wrote, ObjectsType, TypeOK, sems
<1>5. CASE Retag(v)
  BY <1>5 DEF Retag, TypeOK, objects, sems
<1> QED BY <1>1, <1>2, <1>3, <1>4, <1>5

LEMMA CrashTypes ==
    ASSUME TypeOK, Crash
    PROVE  TypeOK'
BY IdleType DEF Crash, TypeOK, outside

\* The status write that ends an owner's run, and the informer for Modules.
LEMMA RefsTypes ==
    ASSUME TypeOK, RecordRefs \/ ForgetNames \/ DeliverRefs
    PROVE  TypeOK'
<1>1. CASE RecordRefs
  <2>1. WriteRefs(hand) /\ hand \in [Versions -> Held] /\ hand' \in [Versions -> Held]
    BY <1>1, NothingHeld DEF RecordRefs, TypeOK
  <2>2. /\ ref' \in [Versions -> FileNames \cup {None}]
        /\ UNCHANGED <<objects, queued, run, fresh, seen, upstream, store, sems, srcScan>>
    BY <2>1, RefsEffect
  <2> QED BY <2>1, <2>2 DEF TypeOK, objects, sems
<1>2. CASE DeliverRefs
  BY <1>2 DEF DeliverRefs, TypeOK, objects, sems
<1>3. CASE ForgetNames
  BY <1>3, NothingHeld DEF ForgetNames, TypeOK, objects, sems
<1> QED BY <1>1, <1>2, <1>3

LEMMA InitTypes ==
    ASSUME Init
    PROVE  TypeOK
BY IdleType, NothingHeld DEF Init, TypeOK
=============================================================================
