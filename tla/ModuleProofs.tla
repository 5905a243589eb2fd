---------------------------- MODULE ModuleProofs ----------------------------
(***************************************************************************)
(* Theorems about ModuleController.                                        *)
(*                                                                         *)
(* The Module controller implements the owner of VersionController, so     *)
(* what is proved there of a Version under any owner holds under this one. *)
(* The latest version it reports at rest needs an invariant about the pass *)
(* (PassInv): a list that is not the current one any more is on its way to *)
(* be read again.  The file names it reports, and what it removes, need    *)
(* one about what a pass has noted so far (NotesInv).                      *)
(***************************************************************************)
EXTENDS ModuleController, VersionRestProofs

controllerVars == <<vars, ownerCache, moduleVars>>

\* A pass that creates knows what, and one that came to the end of the list had one.
PassTyped ==
    /\ mrun.pc = "create" => mrun.at \in Modules
    /\ mrun.pc = "status" => mrun.spec # {}

\* The cache shows the Module unless an event is on its way, a pass that has not written
\* the latest version works on the list of the cache unless the Module is queued, and
\* otherwise the latest version is that of the list unless the one or the other.
PassCurrent ==
    /\ ~moduleNews => moduleSeen = module
    /\ mrun.pc \in {"each", "create", "status"} /\ ~moduleQueued
          => mrun.spec = moduleSeen.versions
    /\ mrun.pc \in {"list", "remove", "idle"} /\ ~moduleQueued /\ ~moduleNews /\ module.live
          => module.versions # {} /\ module.latest = Newest(module.versions)

PassInv == ModuleTypeOK /\ PassTyped /\ PassCurrent

----------------------------------------------------------------------------
(***************************************************************************)
(* The owners' informers.                                                  *)
(***************************************************************************)
LEMMA NoticedKeeps ==
    ASSUME OwnersTypeOK, Noticed
    PROVE  OwnersTypeOK'
<1>1. known' \subseteq Versions /\ versionNews' \subseteq Versions
  BY DEF OwnersTypeOK, Noticed, Changed
<1>2. ASSUME NEW v \in Versions, v \notin versionNews'
      PROVE  v \in known' <=> api'[v].st # "absent"
  <2>1. v \notin versionNews /\ api'[v] = api[v]
    BY <1>2 DEF Noticed, Changed
  <2> QED BY <1>2, <2>1 DEF OwnersTypeOK, Noticed, Current, Exists
<1> QED BY <1>1, <1>2 DEF OwnersTypeOK, Current, Exists

LEMMA SilenceKeeps ==
    ASSUME OwnersTypeOK, UNCHANGED <<vars, ownerCache>>
    PROVE  OwnersTypeOK'
BY DEF OwnersTypeOK, Current, Exists, vars, ownerCache

LEMMA LearningKeeps ==
    ASSUME OwnersTypeOK, NEW v \in Versions, LearnVersion(v)
    PROVE  OwnersTypeOK'
BY DEF OwnersTypeOK, LearnVersion, Learned, Current, Exists, vars

LEMMA RelistingKeeps ==
    ASSUME OwnersTypeOK, NEW V \in SUBSET Versions, Relist(V), api' = api
    PROVE  OwnersTypeOK'
BY DEF OwnersTypeOK, Relist, Current, Exists

----------------------------------------------------------------------------
(***************************************************************************)
(* The record of a pass, and of the Module.                                *)
(***************************************************************************)
LEMMA NoPassFields ==
    /\ NoPass \in Pass
    /\ NoPass.pc = "idle"
BY DEF NoPass, Pass

LEMMA NewestIsPlace ==
    ASSUME NEW S \in SUBSET Modules, S # {}
    PROVE  Newest(S) \in Nat
<1>1. PICK n \in {Order[v] : v \in S} : \A v \in S : Order[v] <= n
  BY SomeVersionIsNewest
<1>2. Newest(S) \in {Order[v] : v \in S}
  BY <1>1 DEF Newest
<1> QED BY <1>2, OrderType

\* It is the place of one of the versions, and no other has a later one.
LEMMA NewestIsLast ==
    ASSUME NEW S \in SUBSET Modules, S # {}
    PROVE  \E v \in S : Newest(S) = Order[v] /\ \A w \in S : Order[w] <= Order[v]
<1>1. \E n \in {Order[v] : v \in S} : \A v \in S : Order[v] <= n
  BY SomeVersionIsNewest
<1>2. Newest(S) \in {Order[v] : v \in S} /\ \A w \in S : Order[w] <= Newest(S)
  BY <1>1 DEF Newest
<1> QED BY <1>2

\* What follows from the type of a pass for the one a step leaves.
LEMMA PassFields ==
    ASSUME NEW r \in Pass
    PROVE  /\ r.todo \subseteq Modules \ Dual /\ r.spec \subseteq Modules \ Dual
           /\ r.at \in Modules \cup {None} /\ r.force \in BOOLEAN
           /\ \A pc \in {"idle", "each", "create", "status", "list", "remove"} :
                 /\ [r EXCEPT !.pc = pc] \in Pass
                 /\ [r EXCEPT !.pc = pc].pc = pc
                 /\ [r EXCEPT !.pc = pc].spec = r.spec
BY DEF Pass

----------------------------------------------------------------------------
(***************************************************************************)
(* The Module controller is an owner.                                      *)
(***************************************************************************)
LEMMA VersionSideIsNext == VersionSide => Next
BY DEF VersionSide, OwnerStep, Next

LEMMA ModuleStepIsAnOwner ==
    ASSUME PassInv, ModuleStep
    PROVE  [Next]_vars
<1>0. Modules \subseteq Versions
  BY DEF Versions
<1>1. CASE StartModule \/ ListVersions \/ ResetForce \/ SkipCreate
  BY <1>1 DEF StartModule, ListVersions, ResetForce, SkipCreate, Silently, vars
<1>2. ASSUME NEW v \in Modules,
             NameVersion(v) \/ RewriteVersion(v) \/ RemoveVersion(v) \/ RemoveAgain(v)
      PROVE  [Next]_vars
  <2>1. CASE NameVersion(v)
    BY <1>0, <1>2, <2>1 DEF NameVersion, OwnerStep, Next
  <2>2. CASE RewriteVersion(v)
    BY <1>0, <1>2, <2>2 DEF RewriteVersion, OwnerStep, Next
  <2>3. CASE RemoveVersion(v)
    BY <1>0, <1>2, <2>3 DEF RemoveVersion, OwnerStep, Next
  <2>4. CASE RemoveAgain(v)
    BY <2>4 DEF RemoveAgain, Silently
  <2> QED BY <1>2, <2>1, <2>2, <2>3, <2>4
<1>3. CASE CreateVersion
  <2>1. mrun.at \in Versions
    BY <1>0, <1>3 DEF CreateVersion, PassInv, PassTyped
  <2> QED BY <1>3, <2>1 DEF CreateVersion, OwnerStep, Next
<1>4. CASE WriteModuleStatus
  BY <1>4 DEF WriteModuleStatus, Next
<1> QED BY <1>1, <1>2, <1>3, <1>4 DEF ModuleStep

LEMMA ModuleNextIsAnOwner ==
    ASSUME PassInv, ModuleNext
    PROVE  [Next]_vars
<1>1. CASE ModuleStep
  BY <1>1, ModuleStepIsAnOwner
<1>2. CASE AbortModule \/ CrashModule
  BY <1>2 DEF AbortModule, CrashModule, Next
<1>3. CASE DeliverModule \/ ResyncModule \/ ForceModule
  BY <1>3 DEF DeliverModule, ResyncModule, ForceModule
<1>4. CASE \E v \in Modules : LearnVersion(v) /\ UNCHANGED moduleVars
  BY <1>4 DEF LearnVersion
<1>5. CASE \E S \in SUBSET (Modules \ Dual) : PutModule(S)
  BY <1>5 DEF PutModule
<1>6. CASE VersionSide /\ Noticed /\ UNCHANGED moduleVars
  BY <1>6, VersionSideIsNext
<1> QED BY <1>1, <1>2, <1>3, <1>4, <1>5, <1>6 DEF ModuleNext

----------------------------------------------------------------------------
(***************************************************************************)
(* The invariant.  Before the write of the latest version a pass is early, *)
(* afterwards, and between passes, it is late.                             *)
(***************************************************************************)
Early == {"each", "create", "status"}
Late == {"list", "remove", "idle"}

\* A step inside one of the two halves, which leaves the Module alone.
LEMMA HalfStep ==
    ASSUME PassInv, OwnersTypeOK', NEW r \in Pass, Proceeds(r), UNCHANGED <<module, moduleNews>>,
           r.pc = "create" => r.at \in Modules,
           r.pc = "status" => r.spec # {},
           \/ mrun.pc \in Early /\ r.pc \in Early /\ r.spec = mrun.spec
           \/ mrun.pc \in Late /\ r.pc \in Late
    PROVE  PassInv'
<1>1. ModuleTypeOK'
  BY DEF PassInv, ModuleTypeOK, Proceeds
<1>2. PassTyped'
  BY DEF PassTyped, Proceeds
<1>3. PassCurrent'
  BY DEF PassInv, PassCurrent, Proceeds, Early, Late
<1> QED BY <1>1, <1>2, <1>3 DEF PassInv

LEMMA RemovedFields ==
    ASSUME PassInv, mrun.pc = "remove", NEW v
    PROVE  Removed(v) \in Pass /\ Removed(v).pc \in Late
BY NoPassFields DEF Removed, PassInv, ModuleTypeOK, Pass, Late

LEMMA StartModuleInv ==
    ASSUME PassInv, StartModule
    PROVE  PassInv'
<1>1. OwnersTypeOK'
  BY SilenceKeeps DEF StartModule, Silently, PassInv, ModuleTypeOK
<1>2. UNCHANGED <<module, moduleSeen, moduleNews>> /\ moduleQueued' = FALSE
  BY DEF StartModule, Silently
<1>3. CASE moduleSeen.live
  <2>1. /\ mrun' \in Pass /\ mrun'.pc = "each" /\ mrun'.spec = moduleSeen.versions
    BY <1>3, NoPassFields DEF StartModule, NoPass, Pass, PassInv, ModuleTypeOK, ModuleObject
  <2>2. ModuleTypeOK'
    BY <1>1, <1>2, <2>1 DEF PassInv, ModuleTypeOK
  <2> QED BY <1>2, <2>1, <2>2 DEF PassInv, PassTyped, PassCurrent
<1>4. CASE ~moduleSeen.live
  <2>1. mrun' = NoPass
    BY <1>4 DEF StartModule
  <2>2. ModuleTypeOK'
    BY <1>1, <1>2, <2>1, NoPassFields DEF PassInv, ModuleTypeOK
  <2>3. ~moduleNews => ~module.live
    BY <1>4 DEF PassInv, PassCurrent
  <2> QED BY <1>2, <2>1, <2>2, <2>3, NoPassFields DEF PassInv, PassTyped, PassCurrent
<1> QED BY <1>3, <1>4

LEMMA NameVersionInv ==
    ASSUME PassInv, NEW v \in Modules, NameVersion(v)
    PROVE  PassInv'
<1>1. OwnersTypeOK'
  BY NoticedKeeps DEF NameVersion, PassInv, ModuleTypeOK
<1>2. /\ UNCHANGED <<module, moduleSeen, moduleQueued>>
      /\ moduleNews' = (ref' # ref) /\ ~moduleNews
  BY DEF NameVersion, WriteModule, Proceeds
<1>3. /\ mrun' \in Pass /\ mrun'.pc = "create" /\ mrun'.at = v
      /\ mrun'.spec = moduleSeen.versions
  BY DEF NameVersion, Proceeds, Pass, PassInv, ModuleTypeOK, ModuleObject
<1>4. ModuleTypeOK'
  BY <1>1, <1>2, <1>3 DEF PassInv, ModuleTypeOK
<1> QED BY <1>2, <1>3, <1>4 DEF PassInv, PassTyped, PassCurrent

LEMMA ResetForceInv ==
    ASSUME PassInv, ResetForce
    PROVE  PassInv'
<1>1. OwnersTypeOK'
  BY SilenceKeeps DEF ResetForce, PassInv, ModuleTypeOK
<1>2. /\ UNCHANGED <<moduleSeen, moduleQueued>> /\ ~moduleNews
      /\ module' = [module EXCEPT !.force = FALSE]
      /\ moduleNews' = (module' # module)
  BY DEF ResetForce, WriteModule, Proceeds, vars
<1>3. mrun' \in Pass /\ mrun'.pc = "status" /\ mrun'.spec = mrun.spec /\ mrun.spec # {}
  BY PassFields DEF ResetForce, ListDone, TooShort, Proceeds, PassInv, ModuleTypeOK
<1>4. module' \in ModuleObject
  BY <1>2 DEF PassInv, ModuleTypeOK, ModuleObject
<1>5. ModuleTypeOK'
  BY <1>1, <1>2, <1>3, <1>4 DEF PassInv, ModuleTypeOK
<1>6. mrun.pc = "each"
  BY DEF ResetForce, ListDone
<1> QED BY <1>2, <1>3, <1>5, <1>6 DEF PassInv, PassTyped, PassCurrent

\* The list the latest version is taken from is the list of the Module, or the Module is
\* queued.
LEMMA WriteModuleStatusInv ==
    ASSUME PassInv, WriteModuleStatus
    PROVE  PassInv'
<1>1. OwnersTypeOK'
  BY NoticedKeeps DEF WriteModuleStatus, PassInv, ModuleTypeOK
<1>2. /\ UNCHANGED <<moduleSeen, moduleQueued>> /\ ~moduleNews
      /\ module' = [module EXCEPT !.latest = Newest(mrun.spec)]
      /\ moduleNews' = (module' # module \/ ref' # ref)
  BY DEF WriteModuleStatus, WriteModule, Proceeds
<1>3. mrun' \in Pass /\ mrun'.pc = "list"
  BY DEF WriteModuleStatus, Proceeds, Pass, PassInv, ModuleTypeOK, ModuleObject
<1>4. mrun.spec # {} /\ mrun.spec \subseteq Modules /\ mrun.pc \in {"each", "status"}
  BY PassFields DEF WriteModuleStatus, ListDone, TooShort, PassInv, PassTyped, ModuleTypeOK
<1>5. module' \in ModuleObject /\ module'.latest = Newest(mrun.spec)
         /\ module'.versions = module.versions
  BY <1>2, <1>4, NewestIsPlace DEF PassInv, ModuleTypeOK, ModuleObject
<1>6. ModuleTypeOK'
  BY <1>1, <1>2, <1>3, <1>5 DEF PassInv, ModuleTypeOK
<1>7. ~moduleQueued => mrun.spec = module.versions
  BY <1>2, <1>4 DEF PassInv, PassCurrent
<1> QED BY <1>2, <1>3, <1>4, <1>5, <1>6, <1>7 DEF PassInv, PassTyped, PassCurrent

LEMMA ModuleStepInv ==
    ASSUME PassInv, ModuleStep
    PROVE  PassInv'
<1>0. mrun \in Pass /\ OwnersTypeOK
  BY DEF PassInv, ModuleTypeOK
<1>1. ASSUME NEW v \in Modules, RewriteVersion(v)
      PROVE  PassInv'
  <2> DEFINE r == [mrun EXCEPT !.todo = @ \ {v}]
  <2>1. r \in Pass /\ r.pc = "each" /\ r.spec = mrun.spec /\ mrun.pc = "each"
    BY <1>0, <1>1 DEF RewriteVersion, Pass
  <2>2. OwnersTypeOK' /\ Proceeds(r) /\ UNCHANGED <<module, moduleNews>>
    BY <1>0, <1>1, NoticedKeeps DEF RewriteVersion
  <2> HIDE DEF r
  <2> QED BY <2>1, <2>2, HalfStep DEF Early
<1>2. ASSUME NEW v \in Modules, RemoveVersion(v) \/ RemoveAgain(v)
      PROVE  PassInv'
  <2>1. mrun.pc = "remove" /\ Proceeds(Removed(v)) /\ UNCHANGED <<module, moduleNews>>
    BY <1>2 DEF RemoveVersion, RemoveAgain, Silently
  <2>2. OwnersTypeOK'
    BY <1>0, <1>2, NoticedKeeps, SilenceKeeps DEF RemoveVersion, RemoveAgain, Silently
  <2> QED BY <2>1, <2>2, RemovedFields, HalfStep DEF Late
<1>3. CASE CreateVersion \/ SkipCreate
  <2>1. Created \in Pass /\ Created.pc = "each" /\ Created.spec = mrun.spec
    BY <1>0 DEF Created, Pass
  <2>2. mrun.pc = "create" /\ Proceeds(Created) /\ UNCHANGED <<module, moduleNews>>
    BY <1>3 DEF CreateVersion, SkipCreate, Silently
  <2>3. OwnersTypeOK'
    BY <1>0, <1>3, NoticedKeeps, SilenceKeeps DEF CreateVersion, SkipCreate, Silently
  <2> QED BY <2>1, <2>2, <2>3, HalfStep DEF Early
<1>4. CASE ListVersions
  <2> DEFINE r == IF Orphans = {} THEN NoPass ELSE [mrun EXCEPT !.pc = "remove", !.todo = Orphans]
  <2>1. r \in Pass /\ r.pc \in {"idle", "remove"}
    BY <1>0, NoPassFields DEF Orphans, Pass
  <2>2. mrun.pc = "list" /\ Proceeds(r) /\ UNCHANGED <<module, moduleNews>> /\ OwnersTypeOK'
    BY <1>0, <1>4, SilenceKeeps DEF ListVersions, Silently
  <2> HIDE DEF r
  <2> QED BY <2>1, <2>2, HalfStep DEF Late
<1> QED BY <1>1, <1>2, <1>3, <1>4, StartModuleInv, NameVersionInv, ResetForceInv,
           WriteModuleStatusInv DEF ModuleStep

\* Around the reconciler, and everybody else.
LEMMA ModuleNextInv ==
    ASSUME PassInv, ModuleNext
    PROVE  PassInv'
<1>0. OwnersTypeOK
  BY DEF PassInv, ModuleTypeOK
<1>1. CASE AbortModule
  <2>1. OwnersTypeOK'
    BY <1>0, <1>1, NoticedKeeps DEF AbortModule
  <2>2. ModuleTypeOK'
    BY <1>1, <2>1, NoPassFields DEF AbortModule, PassInv, ModuleTypeOK
  <2> QED BY <1>1, <2>2, NoPassFields DEF AbortModule, PassInv, PassTyped, PassCurrent
<1>2. CASE CrashModule
  <2>1. OwnersTypeOK'
    BY <1>0, <1>2, RelistingKeeps DEF CrashModule, ForgetNames, objects, Versions
  <2>2. ModuleTypeOK'
    BY <1>2, <2>1, NoPassFields DEF CrashModule, PassInv, ModuleTypeOK, ModuleObject
  <2> QED BY <1>2, <2>2, NoPassFields DEF CrashModule, PassInv, PassTyped, PassCurrent
<1>3. CASE DeliverModule \/ ResyncModule
  <2>1. OwnersTypeOK'
    BY <1>0, <1>3, SilenceKeeps DEF DeliverModule, ResyncModule
  <2>2. ModuleTypeOK'
    BY <1>3, <2>1 DEF DeliverModule, ResyncModule, PassInv, ModuleTypeOK
  <2> QED BY <1>3, <2>2 DEF DeliverModule, ResyncModule, PassInv, PassTyped, PassCurrent
<1>4. CASE (\E S \in SUBSET (Modules \ Dual) : PutModule(S)) \/ ForceModule
  <2>1. OwnersTypeOK'
    BY <1>0, <1>4, SilenceKeeps DEF PutModule, ForceModule
  <2>2. module' \in ModuleObject
    BY <1>4 DEF PutModule, ForceModule, PassInv, ModuleTypeOK, ModuleObject
  <2>3. ModuleTypeOK'
    BY <1>4, <2>1, <2>2 DEF PutModule, ForceModule, PassInv, ModuleTypeOK
  <2> QED BY <1>4, <2>3 DEF PutModule, ForceModule, PassInv, PassTyped, PassCurrent
<1>5. ASSUME UNCHANGED moduleVars, OwnersTypeOK'
      PROVE  PassInv'
  BY <1>5 DEF moduleVars, PassInv, ModuleTypeOK, PassTyped, PassCurrent
<1>6. CASE \E v \in Modules : LearnVersion(v) /\ UNCHANGED moduleVars
  BY <1>0, <1>5, <1>6, LearningKeeps DEF Versions
<1>7. CASE VersionSide /\ Noticed /\ UNCHANGED moduleVars
  BY <1>0, <1>5, <1>7, NoticedKeeps
<1> QED BY <1>1, <1>2, <1>3, <1>4, <1>6, <1>7, ModuleStepInv DEF ModuleNext

LEMMA ModuleInitInv == ModuleInit => PassInv
<1>1. ModuleInit => OwnersTypeOK
  BY DEF ModuleInit, OwnersInit, Init, OwnersTypeOK, Current, Exists, NoVersion
<1>2. NoModule \in ModuleObject /\ NoModule.live = FALSE
  BY DEF NoModule, ModuleObject
<1>3. ModuleInit => ModuleTypeOK
  BY <1>1, <1>2, NoPassFields DEF ModuleInit, ModuleTypeOK
<1> QED BY <1>2, <1>3, NoPassFields DEF ModuleInit, PassInv, PassTyped, PassCurrent

LEMMA PassHolds == ModuleSpec => []PassInv
<1>1. ASSUME PassInv, [ModuleNext]_controllerVars
      PROVE  PassInv'
  <2>1. CASE UNCHANGED controllerVars
    BY <1>1, <2>1, SilenceKeeps DEF controllerVars, moduleVars, PassInv, ModuleTypeOK, PassTyped,
         PassCurrent
  <2> QED BY <1>1, <2>1, ModuleNextInv
<1> QED BY <1>1, ModuleInitInv, PTL DEF ModuleSpec, controllerVars

----------------------------------------------------------------------------
\* Every variable of the Module controller has its type, and a Version its informer has
\* no news of is in its cache exactly if it exists.
THEOREM ModuleTypeCorrect == ModuleSpec => []ModuleTypeOK
<1>1. PassInv => ModuleTypeOK
  BY DEF PassInv
<1> QED BY <1>1, PassHolds, PTL

\* The latest version reported at rest is that of the list, for any list, any order of
\* events and any number of passes cut short.
THEOREM ReportsLatest == ModuleSpec => []LatestAtRest
<1>1. ASSUME PassInv, ModuleAtRest, module.live
      PROVE  module.versions # {} /\ module.latest = Newest(module.versions)
  BY <1>1 DEF PassInv, PassCurrent, ModuleAtRest
<1>2. PassInv => module.versions \subseteq Modules
  BY DEF PassInv, ModuleTypeOK, ModuleObject
<1>3. PassInv => LatestAtRest
  BY <1>1, <1>2, NewestIsLast DEF LatestAtRest
<1> QED BY <1>3, PassHolds, PTL

\* The Module controller implements the owner of VersionController.
THEOREM ModuleControllerIsAnOwner == ModuleSpec => IsAnOwner
<1>1. ModuleInit => Init
  BY DEF ModuleInit, OwnersInit
<1>2. ASSUME PassInv, [ModuleNext]_controllerVars
      PROVE  [Next]_vars
  BY <1>2, ModuleNextIsAnOwner DEF controllerVars
<1> QED BY <1>1, <1>2, PassHolds, PTL DEF ModuleSpec, IsAnOwner, Spec, controllerVars

\* So a Version under this owner never shares a file name with another one.
THEOREM DisjointNamesUnderModule == ModuleSpec => []NamesDisjoint
BY ModuleControllerIsAnOwner, DisjointNames, PTL DEF IsAnOwner

----------------------------------------------------------------------------
(***************************************************************************)
(* The names a pass notes, and the list it removes by.                     *)
(***************************************************************************)
\* Every Version of the Module has a file name, the one that was drawn for it or one that
\* was uploaded to, and a pass that has drawn one holds it.
HandsNamed ==
    \A v \in Modules :
        /\ api[v].st # "absent" => api[v].file # None
        /\ hand[v].drawn => hand[v].name # None

Noted == {v \in Modules : hand[v].name # None}

\* What a pass has noted and what it has still to handle make up its list, unless the
\* Module is queued; between passes the names in the status are those of the list, unless
\* it is queued or its cache is behind.
ListNoted ==
    /\ mrun.pc = "status" => mrun.todo = {}
    /\ mrun.pc \in Late => Noted = {}
    /\ mrun.pc \in Early /\ ~moduleQueued => Noted \cup mrun.todo = mrun.spec
    /\ mrun.pc \in Late /\ ~moduleQueued /\ ~moduleNews /\ module.live
          => {v \in Modules : ref[v] # None} = module.versions

\* What the removal goes by is the list, unless the Module is queued or news of it is on its
\* way.
OrphansUnlisted ==
    /\ mrun.pc \in {"list", "remove"} /\ ~moduleQueued /\ ~moduleNews
          => mrun.spec = module.versions
    /\ mrun.pc = "remove" => mrun.todo \cap mrun.spec = {}

NotesInv == HandsNamed /\ ListNoted /\ OrphansUnlisted

\* Nobody but the Module controller has names in hand or writes the refs.
LEMMA ControllerLeavesRefs ==
    ASSUME NEW v \in Versions, ControllerStep(v)
    PROVE  UNCHANGED <<ref, hand>>
<1>0. CASE StartGone(v) \/ AddFinalizer(v) \/ StartDelete(v) \/ StartSync(v) \/ Prepare(v)
              \/ RejectDual(v)
  BY <1>0 DEF StartGone, AddFinalizer, StartDelete, StartSync, Begin, Prepare, RejectDual, outside
<1>1. CASE FetchModule(v) \/ RejectReplaced(v) \/ FastPathHit(v) \/ FastPathMiss(v)
              \/ AcquireDownload(v) \/ DownloadProvider(v)
  BY <1>1 DEF FetchModule, RejectReplaced, FastPathHit, FastPathMiss, AcquireDownload,
       DownloadProvider, outside
<1>2. CASE Verify(v) \/ BeginPut(v) \/ EndPut(v) \/ Persist(v) \/ BeginScan(v) \/ EndScan(v)
              \/ ScanFails(v) \/ BlockScan(v) \/ MissSource(v) \/ SkipSource(v)
              \/ BeginSource(v) \/ NoGoMod(v)
  BY <1>2 DEF Verify, BeginPut, EndPut, Persist, BeginScan, EndScan, ScanFails, BlockScan,
       MissSource, SkipSource, BeginSource, NoGoMod, outside
<1>3. CASE EndSource(v) \/ SourceFails(v) \/ BlockSource(v) \/ Finish(v) \/ RemoveArtifact(v)
              \/ RemoveFinalizer(v)
  BY <1>3 DEF EndSource, SourceFails, BlockSource, Finish, RemoveArtifact, RemoveFinalizer, outside
<1> QED BY <1>0, <1>1, <1>2, <1>3 DEF ControllerStep

\* A Version that has a file name keeps one until it is gone, and none comes into being.
KeepsFile(v) ==
    /\ api'[v].st # "absent" => api[v].st # "absent"
    /\ api'[v].st # "absent" /\ api[v].file # None => api'[v].file # None

LEMMA ControllerKeepsFile ==
    ASSUME TypeOK, NEW v \in Versions, VersionInv(v), ControllerStep(v)
    PROVE  KeepsFile(v)
<1>0. HasArchive(v)
  BY DEF VersionInv
<1>1. CASE api'[v] = api[v]
  BY <1>1 DEF KeepsFile
<1>2. CASE AddFinalizer(v) \/ RejectDual(v) \/ Finish(v)
  BY <1>0, <1>2, AddFinalizerEffect, RejectDualEffect, FinishEffect DEF KeepsFile
<1>3. CASE RejectReplaced(v) \/ BlockScan(v) \/ BlockSource(v)
  BY <1>3, MarkUnsyncedEffect DEF KeepsFile, RejectReplaced, BlockScan, BlockSource
<1>4. CASE Persist(v)
  BY <1>0, <1>4, PersistEffect DEF KeepsFile, HasArchive, Persist, Published
<1>5. CASE RemoveFinalizer(v)
  BY <1>5, RemoveFinalizerEffect, IdleType DEF KeepsFile
<1>6. CASE StartGone(v) \/ StartDelete(v) \/ StartSync(v) \/ Prepare(v) \/ FetchModule(v)
              \/ FastPathHit(v)
  BY <1>1, <1>6 DEF StartGone, StartDelete, StartSync, Begin, Prepare, FetchModule, FastPathHit,
       objects
<1>8. CASE FastPathMiss(v) \/ AcquireDownload(v) \/ DownloadProvider(v) \/ Verify(v)
              \/ BeginPut(v) \/ EndPut(v)
  BY <1>1, <1>8 DEF FastPathMiss, AcquireDownload, DownloadProvider, Verify, BeginPut, EndPut,
       objects
<1>7. CASE BeginScan(v) \/ EndScan(v) \/ ScanFails(v) \/ MissSource(v) \/ SkipSource(v)
              \/ BeginSource(v)
              \/ NoGoMod(v) \/ EndSource(v) \/ SourceFails(v) \/ RemoveArtifact(v)
  BY <1>1, <1>7 DEF BeginScan, EndScan, ScanFails, MissSource, SkipSource, BeginSource,
       NoGoMod, EndSource,
       SourceFails, RemoveArtifact, objects
<1> QED BY <1>2, <1>3, <1>4, <1>5, <1>6, <1>7, <1>8 DEF ControllerStep

LEMMA OwnersKeepFile ==
    ASSUME TypeOK, NEW v \in Versions, Rewrite(v) \/ DeleteVersion(v)
    PROVE  /\ KeepsFile(v)
           /\ \A w \in Versions \ {v} : api'[w] = api[w]
<1>0. api[v] \in VersionObject
  BY DEF TypeOK
<1>1. CASE Rewrite(v)
  <2> DEFINE q == Rewritten(v, api[v])
  <2>1. q \in VersionObject /\ Settle(q) = q /\ (q = NoVersion \/ q.file = api[v].file)
    BY <1>0, RewrittenFields
  <2>2. OwnerWrites(v, q) /\ api[v].st # "absent"
    BY <1>1 DEF Rewrite
  <2> HIDE DEF q
  <2>3. Wrote(v, q)
    BY <2>1, <2>2, OwnerWriteEffect
  <2> QED BY <2>1, <2>2, <2>3, IdleType DEF KeepsFile, Wrote
<1>2. CASE DeleteVersion(v)
  <2> DEFINE q == Settle([api[v] EXCEPT !.st = "deleting"])
  <2>1. q \in VersionObject /\ Settle(q) = q /\ (q = NoVersion \/ q.file = api[v].file)
    BY <1>0, DeletedFields
  <2>2. OwnerWrites(v, q) /\ api[v].st = "live"
    BY <1>2 DEF DeleteVersion
  <2> HIDE DEF q
  <2>3. Wrote(v, q)
    BY <2>1, <2>2, OwnerWriteEffect
  <2> QED BY <2>1, <2>2, <2>3, IdleType DEF KeepsFile, Wrote
<1> QED BY <1>1, <1>2

\* What is neither an owner nor its informer leaves the names of a pass alone.
LEMMA VersionSideKeepsNames ==
    ASSUME IInv, HandsNamed, VersionSide
    PROVE  HandsNamed' /\ UNCHANGED <<ref, hand>>
<1>0. TypeOK /\ \A v \in Versions : VersionInv(v)
  BY DEF IInv
<1>1. ASSUME \A w \in Versions : KeepsFile(w), UNCHANGED <<ref, hand>>
      PROVE  HandsNamed' /\ UNCHANGED <<ref, hand>>
  BY <1>1 DEF HandsNamed, KeepsFile, Versions
<1>2. ASSUME api' = api, UNCHANGED <<ref, hand>>
      PROVE  HandsNamed' /\ UNCHANGED <<ref, hand>>
  BY <1>2 DEF HandsNamed
<1>3. ASSUME NEW v \in Versions, ControllerStep(v)
      PROVE  HandsNamed' /\ UNCHANGED <<ref, hand>>
  <2>1. KeepsFile(v) /\ \A w \in Versions \ {v} : api'[w] = api[w]
    BY <1>0, <1>3, ControllerKeepsFile, ControllerIsLocal DEF Local, OnlyActsOn, Untouched
  <2>2. \A w \in Versions : KeepsFile(w)
    BY <2>1 DEF KeepsFile
  <2> QED BY <1>1, <1>3, <2>2, ControllerLeavesRefs
<1>4. ASSUME NEW v \in Versions, Abort(v) \/ Deliver(v) \/ Resync(v) \/ Retag(v)
      PROVE  HandsNamed' /\ UNCHANGED <<ref, hand>>
  BY <1>2, <1>4 DEF Abort, Deliver, Resync, Retag, objects, outside
<1>5. ASSUME NEW v \in Versions, DeleteVersion(v)
      PROVE  HandsNamed' /\ UNCHANGED <<ref, hand>>
  <2>1. \A w \in Versions : KeepsFile(w)
    BY <1>0, <1>5, OwnersKeepFile DEF KeepsFile
  <2> QED BY <1>1, <1>5, <2>1 DEF DeleteVersion
<1>6. CASE DeliverRefs \/ Crash
  BY <1>2, <1>6 DEF DeliverRefs, Crash, objects
<1> QED BY <1>3, <1>4, <1>5, <1>6 DEF VersionSide

\* A step that leaves names and refs alone, and a pass within its half.
LEMMA NotesStand ==
    ASSUME NotesInv, HandsNamed', UNCHANGED <<ref, hand, module, moduleNews, moduleQueued>>,
           \/ /\ mrun.pc \in Early /\ mrun'.pc \in Early
              /\ mrun'.spec = mrun.spec /\ mrun'.todo = mrun.todo
              /\ mrun'.pc = "status" => mrun.pc = "status" \/ mrun.todo = {}
           \/ mrun.pc = "list" /\ mrun'.pc = "remove" /\ mrun'.spec = mrun.spec
                 /\ mrun'.todo \cap mrun.spec = {}
           \/ mrun.pc = "remove" /\ mrun'.pc = "remove" /\ mrun'.spec = mrun.spec
                 /\ mrun'.todo \subseteq mrun.todo
           \/ mrun.pc \in Late /\ mrun'.pc = "idle"
           \/ mrun' = mrun
    PROVE  NotesInv'
<1>1. Noted' = Noted
  BY DEF Noted
<1>2. ListNoted'
  BY <1>1 DEF NotesInv, ListNoted, Early, Late
<1>3. OrphansUnlisted'
  BY DEF NotesInv, OrphansUnlisted, Early, Late
<1> QED BY <1>2, <1>3 DEF NotesInv

LEMMA StartModuleNotes ==
    ASSUME PassInv, NotesInv, StartModule
    PROVE  NotesInv'
<1>1. /\ mrun.pc = "idle" /\ UNCHANGED <<api, ref, hand, module, moduleNews>>
      /\ moduleQueued' = FALSE
  BY DEF StartModule, Silently, vars
<1>2. HandsNamed' /\ Noted' = {} /\ Noted = {}
  BY <1>1 DEF NotesInv, HandsNamed, ListNoted, Noted, Late
<1>3. CASE moduleSeen.live
  <2>1. mrun'.pc = "each" /\ mrun'.spec = moduleSeen.versions /\ mrun'.todo = moduleSeen.versions
    BY <1>3 DEF StartModule, NoPass
  <2> QED BY <1>2, <2>1 DEF NotesInv, ListNoted, OrphansUnlisted, Late
<1>4. CASE ~moduleSeen.live
  <2>1. mrun'.pc = "idle" /\ (~moduleNews => ~module.live)
    BY <1>4, NoPassFields DEF StartModule, PassInv, PassCurrent
  <2> QED BY <1>1, <1>2, <2>1 DEF NotesInv, ListNoted, OrphansUnlisted, Early
<1> QED BY <1>3, <1>4

LEMMA NameVersionNotes ==
    ASSUME TypeOK, PassInv, NotesInv, NEW v \in Modules, NameVersion(v)
    PROVE  NotesInv'
<1>1. PICK f \in Unused : hand' = [hand EXCEPT ![v] = [name |-> f, drawn |-> TRUE]]
  BY DEF NameVersion, RecordName
<1>2. f # None /\ v \in Versions /\ hand \in [Versions -> Held]
  BY MarkersAreDistinct DEF Unused, Versions, TypeOK
<1>3. /\ hand'[v].name # None /\ \A w \in Modules \ {v} : hand'[w] = hand[w]
      /\ Noted' = Noted \cup {v}
  BY <1>1, <1>2 DEF Noted, Versions
<1>4. api' = api
  BY DEF NameVersion, RecordName, WriteRefs, objects
<1>5. HandsNamed'
  BY <1>3, <1>4 DEF NotesInv, HandsNamed
<1>6. /\ mrun.pc = "each" /\ v \in mrun.todo /\ moduleQueued' = moduleQueued
      /\ mrun'.pc = "create" /\ mrun'.todo = mrun.todo \ {v}
      /\ mrun'.spec = moduleSeen.versions
  BY DEF NameVersion, Proceeds, PassInv, ModuleTypeOK, Pass
<1>7. ~moduleQueued => Noted' \cup mrun'.todo = mrun'.spec
  BY <1>3, <1>6 DEF NotesInv, ListNoted, PassInv, PassCurrent, Early
<1> QED BY <1>5, <1>6, <1>7 DEF NotesInv, ListNoted, OrphansUnlisted, Late

LEMMA RewriteVersionNotes ==
    ASSUME TypeOK, PassInv, NotesInv, NEW v \in Modules, RewriteVersion(v)
    PROVE  NotesInv'
<1>1. /\ Rewrite(v) /\ api[v].st # "absent"
      /\ hand' = [hand EXCEPT ![v] = [name |-> api[v].file, drawn |-> FALSE]]
  BY DEF RewriteVersion, Rewrite
<1>2. v \in Versions /\ hand \in [Versions -> Held] /\ api[v].file # None
  BY <1>1 DEF Versions, TypeOK, NotesInv, HandsNamed
<1>3. /\ hand'[v].name # None /\ \A w \in Modules \ {v} : hand'[w] = hand[w]
      /\ Noted' = Noted \cup {v}
  BY <1>1, <1>2 DEF Noted, Versions
<1>4. KeepsFile(v) /\ \A w \in Versions \ {v} : api'[w] = api[w]
  BY <1>1, <1>2, OwnersKeepFile
<1>5. HandsNamed'
  BY <1>3, <1>4 DEF NotesInv, HandsNamed, KeepsFile, Versions
<1>6. /\ mrun.pc = "each" /\ v \in mrun.todo /\ moduleQueued' = moduleQueued
      /\ mrun'.pc = "each" /\ mrun'.todo = mrun.todo \ {v} /\ mrun'.spec = mrun.spec
  BY DEF RewriteVersion, Proceeds, PassInv, ModuleTypeOK, Pass
<1>7. ~moduleQueued => Noted' \cup mrun'.todo = mrun'.spec
  BY <1>3, <1>6 DEF NotesInv, ListNoted, Early
<1> QED BY <1>5, <1>6, <1>7 DEF NotesInv, ListNoted, OrphansUnlisted, Late

LEMMA CreateVersionNotes ==
    ASSUME TypeOK, PassInv, NotesInv, CreateVersion
    PROVE  NotesInv'
<1> DEFINE v == mrun.at
           q == NewVersion(hand[v].name, FALSE)
<1>1. v \in Modules /\ v \in Versions /\ mrun.pc = "create"
  BY DEF CreateVersion, PassInv, PassTyped, Versions
<1>2. /\ OwnerWrites(v, q) /\ hand[v].drawn /\ ref' = ref
      /\ hand' = [hand EXCEPT ![v].drawn = FALSE]
  BY DEF CreateVersion, CreateForModule
<1>3. /\ hand[v].name # None /\ hand[v].name \in FileNames \cup {None}
      /\ hand \in [Versions -> Held]
  BY <1>1, <1>2, HeldFields DEF NotesInv, HandsNamed, TypeOK
<1>4. q \in VersionObject /\ Settle(q) = q /\ q.file = hand[v].name
  BY <1>3, NewFields
<1>5. /\ hand'[v].name = hand[v].name /\ ~hand'[v].drawn
      /\ \A w \in Modules \ {v} : hand'[w] = hand[w]
  BY <1>1, <1>2, <1>3 DEF Held, Versions
<1> HIDE DEF q, v
<1>6. api'[v] = q /\ \A w \in Versions \ {v} : api'[w] = api[w]
  BY <1>1, <1>2, <1>4, OwnerWriteEffect DEF Wrote
<1>7. HandsNamed'
  BY <1>3, <1>4, <1>5, <1>6 DEF NotesInv, HandsNamed, Versions
<1>8. Noted' = Noted
  BY <1>5 DEF Noted
<1>9. /\ mrun'.pc = "each" /\ mrun'.todo = mrun.todo /\ mrun'.spec = mrun.spec
      /\ moduleQueued' = moduleQueued
  BY DEF CreateVersion, Proceeds, Created, PassInv, ModuleTypeOK, Pass
<1> QED BY <1>1, <1>7, <1>8, <1>9 DEF NotesInv, ListNoted, OrphansUnlisted, Early, Late

\* The names written are those of the list the pass ends with.
LEMMA WriteModuleStatusNotes ==
    ASSUME TypeOK, PassInv, NotesInv, WriteModuleStatus
    PROVE  NotesInv'
<1>1. /\ mrun.pc \in {"each", "status"} /\ mrun.todo = {}
      /\ mrun'.pc = "list" /\ mrun'.spec = moduleSeen.versions
      /\ moduleQueued' = moduleQueued /\ ~moduleNews
      /\ module' = [module EXCEPT !.latest = Newest(mrun.spec)]
      /\ moduleNews' = (module' # module \/ ref' # ref)
  BY DEF WriteModuleStatus, ListDone, WriteModule, Proceeds, PassInv, ModuleTypeOK, Pass,
         NotesInv, ListNoted
<1>2. hand' = [w \in Versions |-> Nothing] /\ ref' = Refs(hand, Modules) /\ api' = api
  BY DEF WriteModuleStatus, RecordRefs, WriteRefs, objects
<1>3. HandsNamed' /\ Noted' = {}
  BY <1>2, NothingHeld DEF NotesInv, HandsNamed, Noted, Versions, Nothing
<1>4. {w \in Modules : ref'[w] # None} = Noted
  BY <1>2 DEF Refs, Noted, Versions
<1>5. module'.versions = module.versions /\ moduleSeen = module
  BY <1>1 DEF PassInv, ModuleTypeOK, ModuleObject, PassCurrent
<1>6. ~moduleQueued => Noted = module.versions
  BY <1>1, <1>5 DEF NotesInv, ListNoted, PassInv, PassCurrent, Early
<1> QED BY <1>1, <1>3, <1>4, <1>5, <1>6 DEF NotesInv, ListNoted, OrphansUnlisted, Early

LEMMA ResetForceNotes ==
    ASSUME PassInv, NotesInv, ResetForce
    PROVE  NotesInv'
<1>1. /\ mrun.pc = "each" /\ mrun.todo = {} /\ moduleQueued' = moduleQueued
      /\ mrun'.pc = "status" /\ mrun'.todo = mrun.todo /\ mrun'.spec = mrun.spec
  BY DEF ResetForce, ListDone, Proceeds, PassInv, ModuleTypeOK, Pass
<1>2. HandsNamed' /\ Noted' = Noted
  BY DEF ResetForce, vars, NotesInv, HandsNamed, Noted
<1> QED BY <1>1, <1>2 DEF NotesInv, ListNoted, OrphansUnlisted, Early, Late

LEMMA RemovalNotes ==
    ASSUME TypeOK, PassInv, NotesInv, NEW v \in Modules, RemoveVersion(v) \/ RemoveAgain(v)
    PROVE  NotesInv'
<1>0. v \in Versions
  BY DEF Versions
<1>1. /\ mrun.pc = "remove" /\ mrun' = Removed(v)
      /\ UNCHANGED <<ref, hand, module, moduleNews, moduleQueued>>
  BY DEF RemoveVersion, RemoveAgain, Proceeds, Silently, DeleteVersion, vars
<1>2. ASSUME RemoveVersion(v)
      PROVE  HandsNamed'
  <2>1. KeepsFile(v) /\ \A w \in Versions \ {v} : api'[w] = api[w]
    BY <1>0, <1>2, OwnersKeepFile DEF RemoveVersion
  <2> QED BY <1>1, <2>1 DEF NotesInv, HandsNamed, KeepsFile, Versions
<1>3. ASSUME RemoveAgain(v)
      PROVE  HandsNamed'
  BY <1>3 DEF RemoveAgain, Silently, vars, NotesInv, HandsNamed
<1>4. \/ mrun'.pc = "idle"
      \/ mrun'.pc = "remove" /\ mrun'.spec = mrun.spec /\ mrun'.todo \subseteq mrun.todo
  BY <1>1, NoPassFields DEF Removed, PassInv, ModuleTypeOK, Pass
<1>5. HandsNamed'
  BY <1>2, <1>3
<1> QED BY <1>1, <1>4, <1>5, NotesStand DEF Late

LEMMA ModuleStepNotes ==
    ASSUME TypeOK, PassInv, NotesInv, ModuleStep
    PROVE  NotesInv'
<1>1. CASE SkipCreate
  <2>1. mrun'.pc = "each" /\ mrun'.todo = mrun.todo /\ mrun'.spec = mrun.spec
    BY <1>1 DEF SkipCreate, Proceeds, Created, PassInv, ModuleTypeOK, Pass
  <2>2. mrun.pc = "create" /\ UNCHANGED <<api, ref, hand, module, moduleNews, moduleQueued>>
    BY <1>1 DEF SkipCreate, Proceeds, Silently, vars
  <2>3. HandsNamed'
    BY <2>2 DEF NotesInv, HandsNamed
  <2> QED BY <2>1, <2>2, <2>3, NotesStand DEF Early
<1>2. CASE ListVersions
  <2>1. mrun.pc = "list" /\ UNCHANGED <<api, ref, hand, module, moduleNews, moduleQueued>>
    BY <1>2 DEF ListVersions, Proceeds, Silently, vars
  <2>2. HandsNamed'
    BY <2>1 DEF NotesInv, HandsNamed
  <2>3. CASE mrun' = NoPass
    BY <2>1, <2>2, <2>3, NoPassFields, NotesStand DEF Late
  <2>4. CASE mrun' = [mrun EXCEPT !.pc = "remove", !.todo = Orphans]
    <3>1. mrun'.pc = "remove" /\ mrun'.todo = Orphans /\ mrun'.spec = mrun.spec
      BY <2>4 DEF PassInv, ModuleTypeOK, Pass
    <3>2. Orphans \cap mrun.spec = {}
      BY DEF Orphans
    <3> QED BY <2>1, <2>2, <3>1, <3>2, NotesStand
  <2> QED BY <1>2, <2>3, <2>4 DEF ListVersions, Proceeds
<1> QED BY <1>1, <1>2, StartModuleNotes, NameVersionNotes, RewriteVersionNotes, RemovalNotes,
           CreateVersionNotes, ResetForceNotes, WriteModuleStatusNotes DEF ModuleStep

\* A pass that ends early is retried, and every change of the list is announced.
LEMMA ModuleNextNotes ==
    ASSUME IInv, PassInv, NotesInv, ModuleNext
    PROVE  NotesInv'
<1>0. TypeOK
  BY DEF IInv
<1>1. CASE AbortModule \/ CrashModule
  <2>1. hand' = [w \in Versions |-> Nothing] /\ UNCHANGED <<api, ref>>
    BY <1>1 DEF AbortModule, CrashModule, ForgetNames, objects
  <2>2. HandsNamed' /\ Noted' = {}
    BY <2>1 DEF NotesInv, HandsNamed, Noted, Versions, Nothing
  <2>3. mrun'.pc = "idle"
    BY <1>1, NoPassFields DEF AbortModule, CrashModule
  <2>4. moduleQueued' \/ ~module'.live
    BY <1>1 DEF AbortModule, CrashModule
  <2> QED BY <2>2, <2>3, <2>4 DEF NotesInv, ListNoted, OrphansUnlisted, Early
<1>2. CASE DeliverModule \/ ResyncModule
  <2>1. UNCHANGED <<api, ref, hand, module, mrun>> /\ moduleQueued'
    BY <1>2 DEF DeliverModule, ResyncModule, vars
  <2>2. HandsNamed' /\ Noted' = Noted
    BY <2>1 DEF NotesInv, HandsNamed, Noted
  <2> QED BY <2>1, <2>2 DEF NotesInv, ListNoted, OrphansUnlisted
<1>3. CASE (\E S \in SUBSET (Modules \ Dual) : PutModule(S)) \/ ForceModule
  <2>1. UNCHANGED <<api, ref, hand, mrun, moduleQueued>>
    BY <1>3 DEF PutModule, ForceModule, vars
  <2>2. moduleNews' \/ (module' = module /\ moduleNews' = moduleNews)
    BY <1>3 DEF PutModule, ForceModule, PassInv, ModuleTypeOK
  <2>3. HandsNamed' /\ Noted' = Noted
    BY <2>1 DEF NotesInv, HandsNamed, Noted
  <2> QED BY <2>1, <2>2, <2>3 DEF NotesInv, ListNoted, OrphansUnlisted
<1>4. CASE \E v \in Modules : LearnVersion(v) /\ UNCHANGED moduleVars
  <2>1. UNCHANGED <<api, ref, hand, module, moduleNews, moduleQueued, mrun>>
    BY <1>4 DEF LearnVersion, moduleVars, vars
  <2>2. HandsNamed'
    BY <2>1 DEF NotesInv, HandsNamed
  <2> QED BY <2>1, <2>2, NotesStand
<1>5. CASE VersionSide /\ Noticed /\ UNCHANGED moduleVars
  <2>1. UNCHANGED <<module, moduleNews, moduleQueued, mrun>>
    BY <1>5 DEF moduleVars
  <2> QED BY <1>5, <2>1, VersionSideKeepsNames, NotesStand DEF NotesInv
<1> QED BY <1>0, <1>1, <1>2, <1>3, <1>4, <1>5, ModuleStepNotes DEF ModuleNext

LEMMA ModuleInitNotes == ModuleInit => NotesInv
<1>1. ModuleInit => HandsNamed /\ Noted = {}
  BY DEF ModuleInit, OwnersInit, Init, HandsNamed, Noted, NoVersion, Nothing, Versions
<1>2. ModuleInit => ListNoted
  BY <1>1, NoPassFields DEF ModuleInit, ListNoted, NoModule, Early
<1> QED BY <1>1, <1>2, NoPassFields DEF ModuleInit, NotesInv, OrphansUnlisted

LEMMA OwnedInv == ModuleSpec => []IInv
BY ModuleControllerIsAnOwner, Invariant, PTL DEF IsAnOwner

LEMMA NotesHold == ModuleSpec => []NotesInv
<1>1. ASSUME IInv, PassInv, NotesInv, [ModuleNext]_controllerVars
      PROVE  NotesInv'
  <2>1. CASE UNCHANGED controllerVars
    <3>1. UNCHANGED <<api, ref, hand, module, moduleNews, moduleQueued, mrun>>
      BY <2>1 DEF controllerVars, moduleVars, vars
    <3>2. HandsNamed'
      BY <1>1, <3>1 DEF NotesInv, HandsNamed
    <3> QED BY <1>1, <3>1, <3>2, NotesStand
  <2> QED BY <1>1, <2>1, ModuleNextNotes
<1> QED BY <1>1, ModuleInitNotes, OwnedInv, PassHolds, PTL DEF ModuleSpec, controllerVars

\* At rest the status names a file for each version of the list and for none besides, in
\* whatever order list, cache and Versions change and wherever passes end.
THEOREM RecordsListed == ModuleSpec => []NamesAtRest
<1>1. ASSUME NotesInv, ModuleAtRest, module.live
      PROVE  {v \in Modules : ref[v] # None} = module.versions
  BY <1>1 DEF NotesInv, ListNoted, ModuleAtRest, Late
<1>2. PassInv => module.versions \subseteq Modules
  BY DEF PassInv, ModuleTypeOK, ModuleObject
<1>3. PassInv /\ NotesInv => NamesAtRest
  BY <1>1, <1>2 DEF NamesAtRest
<1> QED BY <1>3, PassHolds, NotesHold, PTL

LEMMA RemovalGoesByTheList ==
    ASSUME TypeOK, NotesInv, PassInv, ModuleNext, NEW w \in Modules, Removes(w)
    PROVE  w \notin module.versions \/ moduleQueued \/ moduleNews
<1>1. mrun.pc = "remove" /\ mrun' # mrun /\ api'[w] # api[w]
  BY DEF Removes
<1>2. PICK v \in Modules : RemoveVersion(v)
  <2>1. ~(AbortModule \/ CrashModule)
    BY <1>1 DEF AbortModule, CrashModule, ForgetNames, objects
  <2>2. ~(DeliverModule \/ ResyncModule \/ ForceModule)
    BY <1>1 DEF DeliverModule, ResyncModule, ForceModule
  <2>3. ~(\E S \in SUBSET (Modules \ Dual) : PutModule(S))
    BY <1>1 DEF PutModule
  <2>4. ~UNCHANGED moduleVars
    BY <1>1 DEF moduleVars
  <2>5. ModuleStep
    BY <2>1, <2>2, <2>3, <2>4 DEF ModuleNext
  <2>6. ~(StartModule \/ SkipCreate \/ ListVersions \/ ResetForce)
    BY <1>1 DEF StartModule, SkipCreate, ListVersions, ResetForce, ListDone
  <2>7. ~(CreateVersion \/ WriteModuleStatus)
    BY <1>1 DEF CreateVersion, WriteModuleStatus, ListDone
  <2>8. \A v \in Modules : ~(NameVersion(v) \/ RewriteVersion(v))
    BY <1>1 DEF NameVersion, RewriteVersion
  <2>9. \A v \in Modules : ~RemoveAgain(v)
    BY <1>1 DEF RemoveAgain, Silently, vars
  <2> QED BY <2>5, <2>6, <2>7, <2>8, <2>9 DEF ModuleStep
<1>3. v \in mrun.todo /\ v = w
  <2>1. v \in Versions /\ w \in Versions
    BY DEF Versions
  <2> QED BY <1>1, <1>2, <2>1, OwnersKeepFile DEF RemoveVersion
<1> QED BY <1>1, <1>3 DEF NotesInv, OrphansUnlisted

\* The removal deletes no Version that is on the list, whatever the list was when the pass
\* began, unless the list has changed since (ReconcileVersionRemovals).
THEOREM RemovesOrphansOnly == ModuleSpec => RemovesUnlisted
<1>1. ASSUME IInv, PassInv, NotesInv, [ModuleNext]_controllerVars
      PROVE  [\A v \in Modules : RemovesOrphan(v)]_controllerVars
  BY <1>1, RemovalGoesByTheList DEF RemovesOrphan, IInv
<1> QED BY <1>1, OwnedInv, PassHolds, NotesHold, PTL
        DEF ModuleSpec, RemovesUnlisted, controllerVars
=============================================================================
