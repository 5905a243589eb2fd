--------------------------- MODULE ProviderProofs ---------------------------
(***************************************************************************)
(* Theorems about ProviderController, and about DepotController, where it, *)
(* the Module controller and the Depot controller run side by side.        *)
(*                                                                         *)
(* The invariant of the Provider controller is that of ModuleProofs with   *)
(* one difference: an event that leaves the spec alone queues nothing, so  *)
(* it must be known to leave alone what the pass has read as well.         *)
(*                                                                         *)
(* Then the pipeline: each owner's invariant stands beside the other       *)
(* owners (DepotHolds), so what was proved of a controller alone holds of  *)
(* all four together, and the Depot controller has one of its own          *)
(* (DepotCurrent).                                                         *)
(***************************************************************************)
EXTENDS DepotController, ModuleProofs

providerSpecVars == <<vars, ownerCache, providerVars>>

\* What the pass works on is what the spec asks for, unless the Provider is queued or will
\* be; after the status write that is what the status says.
ProviderCurrent ==
    /\ providerNews = {} => providerSeen = provider
    /\ "spec" \notin providerNews
          => providerSeen.live = provider.live /\ providerSeen.wanted = provider.wanted
    /\ prun.pc # "idle" /\ ~providerQueued => prun.wanted = providerSeen.wanted
    /\ prun.pc = "remove" => prun.todo \cap prun.wanted = {}
    /\ prun.pc \in {"list", "remove", "idle"} /\ ~providerQueued
          /\ "spec" \notin providerNews /\ provider.live => provider.refs = provider.wanted

ProviderInv == ProviderTypeOK /\ ProviderCurrent

----------------------------------------------------------------------------
LEMMA NoProviderPassFields ==
    /\ NoProviderPass \in ProviderPass
    /\ NoProviderPass.pc = "idle"
BY DEF NoProviderPass, ProviderPass

LEMMA ProviderPassFields ==
    ASSUME NEW r \in ProviderPass
    PROVE  /\ r.todo \subseteq Combinations /\ r.wanted \subseteq Combinations
           /\ \A pc \in {"idle", "each", "status", "list", "remove"} :
                 /\ [r EXCEPT !.pc = pc] \in ProviderPass
                 /\ [r EXCEPT !.pc = pc].pc = pc
                 /\ [r EXCEPT !.pc = pc].wanted = r.wanted
BY DEF ProviderPass

LEMMA AfterRemovalFields ==
    ASSUME prun \in ProviderPass, prun.pc = "remove", NEW v
    PROVE  /\ AfterRemoval(v) \in ProviderPass
           /\ \/ AfterRemoval(v).pc = "idle"
              \/ /\ AfterRemoval(v).pc = "remove" /\ AfterRemoval(v).wanted = prun.wanted
                 /\ AfterRemoval(v).todo \subseteq prun.todo
BY NoProviderPassFields DEF AfterRemoval, ProviderPass

----------------------------------------------------------------------------
(***************************************************************************)
(* The Provider controller is an owner.                                    *)
(***************************************************************************)
LEMMA ProviderStepIsAnOwner ==
    ASSUME ProviderStep
    PROVE  [Next]_vars
<1>0. Combinations \subseteq Versions
  BY DEF Combinations, Versions
<1>1. CASE StartProvider \/ ListCombinations \/ ResetProviderForce \/ WriteProviderStatus
  BY <1>1 DEF StartProvider, ListCombinations, ResetProviderForce, WriteProviderStatus,
       WriteProvider, ProviderSilent
<1>2. ASSUME NEW v \in Combinations,
             \/ CreateCombination(v) \/ RewriteCombination(v)
             \/ RemoveCombination(v) \/ RemoveCombinationAgain(v)
      PROVE  [Next]_vars
  <2>1. CASE CreateCombination(v)
    BY <1>0, <2>1 DEF CreateCombination, OwnerStep, Next
  <2>2. CASE RewriteCombination(v)
    BY <1>0, <2>2 DEF RewriteCombination, OwnerStep, Next
  <2>3. CASE RemoveCombination(v)
    BY <1>0, <2>3 DEF RemoveCombination, OwnerStep, Next
  <2>4. CASE RemoveCombinationAgain(v)
    BY <2>4 DEF RemoveCombinationAgain, ProviderSilent
  <2> QED BY <1>2, <2>1, <2>2, <2>3, <2>4
<1> QED BY <1>1, <1>2 DEF ProviderStep

LEMMA ProviderNextIsAnOwner ==
    ASSUME ProviderNext
    PROVE  [Next]_vars
<1>1. CASE AbortProvider \/ DeliverProvider \/ CrashProvider \/ ForceProvider
  BY <1>1 DEF AbortProvider, DeliverProvider, CrashProvider, ForceProvider, ProviderSilent
<1>2. CASE \E v \in Providers : LearnVersion(v) /\ UNCHANGED providerVars
  BY <1>2 DEF LearnVersion
<1>3. CASE \E S \in SUBSET Combinations : PutProvider(S)
  BY <1>3 DEF PutProvider
<1>4. CASE VersionSide /\ Noticed /\ ProviderAside
  BY <1>4, VersionSideIsNext
<1> QED BY <1>1, <1>2, <1>3, <1>4, ProviderStepIsAnOwner DEF ProviderNext

----------------------------------------------------------------------------
(***************************************************************************)
(* The invariant.                                                          *)
(***************************************************************************)
\* A step on one side of the status write, which leaves the Provider alone.
LEMMA ProviderHalfStep ==
    ASSUME ProviderInv, OwnersTypeOK', NEW r \in ProviderPass, ProviderProceeds(r),
           UNCHANGED <<provider, providerNews>>,
           \/ prun.pc \in {"each", "status"} /\ r.pc \in {"each", "status"}
                 /\ r.wanted = prun.wanted
           \/ prun.pc \in {"list", "remove", "idle"} /\ r.pc = "idle"
           \/ prun.pc \in {"list", "remove"} /\ r.pc = "remove"
                 /\ r.wanted = prun.wanted /\ r.todo \cap r.wanted = {}
    PROVE  ProviderInv'
<1>1. ProviderTypeOK'
  BY DEF ProviderInv, ProviderTypeOK, ProviderProceeds
<1>2. ProviderCurrent'
  BY DEF ProviderInv, ProviderCurrent, ProviderProceeds
<1> QED BY <1>1, <1>2 DEF ProviderInv

LEMMA StartProviderInv ==
    ASSUME ProviderInv, StartProvider
    PROVE  ProviderInv'
<1>1. OwnersTypeOK'
  BY SilenceKeeps DEF StartProvider, ProviderSilent, ProviderInv, ProviderTypeOK
<1>2. UNCHANGED <<provider, providerSeen, providerNews>> /\ providerQueued' = FALSE
  BY DEF StartProvider, ProviderSilent
<1>3. CASE providerSeen.live
  <2>1. /\ prun' \in ProviderPass /\ prun'.pc = "each" /\ prun'.wanted = providerSeen.wanted
    BY <1>3 DEF StartProvider, ReadProvider, ProviderPass, ProviderInv, ProviderTypeOK,
         ProviderObject
  <2>2. ProviderTypeOK'
    BY <1>1, <1>2, <2>1 DEF ProviderInv, ProviderTypeOK
  <2> QED BY <1>2, <2>1, <2>2 DEF ProviderInv, ProviderCurrent
<1>4. CASE ~providerSeen.live
  <2>1. prun' = NoProviderPass
    BY <1>4 DEF StartProvider
  <2>2. ProviderTypeOK'
    BY <1>1, <1>2, <2>1, NoProviderPassFields DEF ProviderInv, ProviderTypeOK
  <2>3. "spec" \notin providerNews => ~provider.live
    BY <1>4 DEF ProviderInv, ProviderCurrent
  <2> QED BY <1>2, <2>1, <2>2, <2>3, NoProviderPassFields DEF ProviderInv, ProviderCurrent
<1> QED BY <1>3, <1>4

LEMMA ResetProviderForceInv ==
    ASSUME ProviderInv, ResetProviderForce
    PROVE  ProviderInv'
<1>1. OwnersTypeOK'
  BY SilenceKeeps DEF ResetProviderForce, WriteProvider, ProviderInv, ProviderTypeOK
<1>2. /\ UNCHANGED <<providerSeen, providerQueued>> /\ providerNews = {}
      /\ provider' = [provider EXCEPT !.force = FALSE]
      /\ providerNews' = IF provider' = provider THEN {} ELSE {"spec"}
  BY DEF ResetProviderForce, WriteProvider, ProviderProceeds
<1>3. prun' \in ProviderPass /\ prun'.pc = "status" /\ prun'.wanted = prun.wanted
         /\ prun.pc = "each"
  BY ProviderPassFields DEF ResetProviderForce, CombinationsDone, ProviderProceeds, ProviderInv,
       ProviderTypeOK
<1>4. provider' \in ProviderObject
  BY <1>2 DEF ProviderInv, ProviderTypeOK, ProviderObject
<1>5. ProviderTypeOK'
  BY <1>1, <1>2, <1>3, <1>4 DEF ProviderInv, ProviderTypeOK
<1> QED BY <1>2, <1>3, <1>5 DEF ProviderInv, ProviderCurrent

LEMMA WriteProviderStatusInv ==
    ASSUME ProviderInv, WriteProviderStatus
    PROVE  ProviderInv'
<1>1. OwnersTypeOK'
  BY SilenceKeeps DEF WriteProviderStatus, WriteProvider, ProviderInv, ProviderTypeOK
<1>2. /\ UNCHANGED <<providerSeen, providerQueued>> /\ providerNews = {}
      /\ provider' = [provider EXCEPT !.refs = prun.wanted]
      /\ providerNews' = IF provider' = provider THEN {} ELSE {"status"}
  BY DEF WriteProviderStatus, WriteProvider, ProviderProceeds
<1>3. prun' \in ProviderPass /\ prun'.pc = "list" /\ prun.pc \in {"each", "status"}
  BY ProviderPassFields DEF WriteProviderStatus, CombinationsDone, ProviderProceeds, ProviderInv,
       ProviderTypeOK
<1>4. prun.wanted \subseteq Combinations
  BY ProviderPassFields DEF ProviderInv, ProviderTypeOK
<1>5. /\ provider' \in ProviderObject /\ provider'.refs = prun.wanted
      /\ provider'.wanted = provider.wanted /\ provider'.live = provider.live
  BY <1>2, <1>4 DEF ProviderInv, ProviderTypeOK, ProviderObject
<1>6. ProviderTypeOK'
  BY <1>1, <1>2, <1>3, <1>5 DEF ProviderInv, ProviderTypeOK
<1>7. providerSeen = provider /\ (~providerQueued => prun.wanted = provider.wanted)
  BY <1>2, <1>3 DEF ProviderInv, ProviderCurrent
<1>8. prun'.wanted = prun.wanted
  BY <1>3, ProviderPassFields
     DEF WriteProviderStatus, ProviderProceeds, ProviderInv, ProviderTypeOK
<1>9. ProviderCurrent'
  BY <1>2, <1>3, <1>5, <1>7, <1>8 DEF ProviderInv, ProviderCurrent
<1> QED BY <1>6, <1>9 DEF ProviderInv

LEMMA ProviderStepInv ==
    ASSUME ProviderInv, ProviderStep
    PROVE  ProviderInv'
<1>0. prun \in ProviderPass /\ OwnersTypeOK
  BY DEF ProviderInv, ProviderTypeOK
<1>1. ASSUME NEW v \in Combinations, CreateCombination(v) \/ RewriteCombination(v)
      PROVE  ProviderInv'
  <2> DEFINE r == [prun EXCEPT !.todo = @ \ {v}]
  <2>1. r \in ProviderPass /\ r.pc = "each" /\ r.wanted = prun.wanted /\ prun.pc = "each"
    BY <1>0, <1>1 DEF CreateCombination, RewriteCombination, ProviderPass
  <2>2. OwnersTypeOK' /\ ProviderProceeds(r) /\ UNCHANGED <<provider, providerNews>>
    BY <1>0, <1>1, NoticedKeeps DEF CreateCombination, RewriteCombination
  <2> HIDE DEF r
  <2> QED BY <2>1, <2>2, ProviderHalfStep
<1>2. ASSUME NEW v \in Combinations, RemoveCombination(v) \/ RemoveCombinationAgain(v)
      PROVE  ProviderInv'
  <2>1. prun.pc = "remove" /\ ProviderProceeds(AfterRemoval(v))
           /\ UNCHANGED <<provider, providerNews>>
    BY <1>2 DEF RemoveCombination, RemoveCombinationAgain, ProviderSilent
  <2>2. OwnersTypeOK'
    BY <1>0, <1>2, NoticedKeeps, SilenceKeeps
       DEF RemoveCombination, RemoveCombinationAgain, ProviderSilent
  <2>3. prun.todo \cap prun.wanted = {}
    BY <2>1 DEF ProviderInv, ProviderCurrent
  <2> QED BY <1>0, <2>1, <2>2, <2>3, AfterRemovalFields, ProviderHalfStep
<1>3. CASE ListCombinations
  <2> DEFINE r == IF StaleCombinations = {} THEN NoProviderPass
                  ELSE [prun EXCEPT !.pc = "remove", !.todo = StaleCombinations]
  <2>1. /\ r \in ProviderPass
        /\ \/ r.pc = "idle"
           \/ r.pc = "remove" /\ r.wanted = prun.wanted /\ r.todo \cap r.wanted = {}
    BY <1>0, NoProviderPassFields DEF StaleCombinations, ProviderPass
  <2>2. /\ prun.pc = "list" /\ ProviderProceeds(r) /\ UNCHANGED <<provider, providerNews>>
        /\ OwnersTypeOK'
    BY <1>0, <1>3, SilenceKeeps DEF ListCombinations, ProviderSilent
  <2> HIDE DEF r
  <2> QED BY <2>1, <2>2, ProviderHalfStep
<1> QED BY <1>1, <1>2, <1>3, StartProviderInv, ResetProviderForceInv, WriteProviderStatusInv
        DEF ProviderStep

\* Everybody else does: the Provider's own variables stay as they are.
LEMMA ProviderStands ==
    ASSUME ProviderInv, OwnersTypeOK', UNCHANGED providerVars
    PROVE  ProviderInv'
BY DEF providerVars, ProviderInv, ProviderTypeOK, ProviderCurrent

LEMMA ModuleStands ==
    ASSUME PassInv, OwnersTypeOK', UNCHANGED moduleVars
    PROVE  PassInv'
BY DEF moduleVars, PassInv, ModuleTypeOK, PassTyped, PassCurrent

LEMMA ProviderAsideInv ==
    ASSUME ProviderInv, OwnersTypeOK', ProviderAside
    PROVE  ProviderInv'
<1>1. ProviderTypeOK'
  BY DEF ProviderAside, ProviderInv, ProviderTypeOK
<1>2. ProviderCurrent'
  BY DEF ProviderAside, ProviderInv, ProviderCurrent
<1> QED BY <1>1, <1>2 DEF ProviderInv

LEMMA ProviderNextInv ==
    ASSUME ProviderInv, ProviderNext
    PROVE  ProviderInv'
<1>0. OwnersTypeOK
  BY DEF ProviderInv, ProviderTypeOK
<1>1. CASE AbortProvider
  <2>1. OwnersTypeOK'
    BY <1>0, <1>1, SilenceKeeps DEF AbortProvider, ProviderSilent
  <2>2. ProviderTypeOK'
    BY <1>1, <2>1, NoProviderPassFields
       DEF AbortProvider, ProviderSilent, ProviderInv, ProviderTypeOK
  <2> QED BY <1>1, <2>2, NoProviderPassFields
          DEF AbortProvider, ProviderSilent, ProviderInv, ProviderCurrent
<1>2. CASE DeliverProvider
  <2>1. OwnersTypeOK'
    BY <1>0, <1>2, SilenceKeeps DEF DeliverProvider
  <2>2. ProviderTypeOK'
    BY <1>2, <2>1 DEF DeliverProvider, QueuedBy, ProviderInv, ProviderTypeOK
  <2> QED BY <1>2, <2>2 DEF DeliverProvider, QueuedBy, ProviderInv, ProviderCurrent
<1>3. CASE CrashProvider
  <2>1. OwnersTypeOK'
    BY <1>0, <1>3, RelistingKeeps DEF CrashProvider, vars, objects, Versions
  <2>2. ProviderTypeOK'
    BY <1>3, <2>1, NoProviderPassFields
       DEF CrashProvider, ProviderInv, ProviderTypeOK, ProviderObject
  <2> QED BY <1>3, <2>2, NoProviderPassFields DEF CrashProvider, ProviderInv, ProviderCurrent
<1>4. CASE (\E S \in SUBSET Combinations : PutProvider(S)) \/ ForceProvider
  <2>1. OwnersTypeOK'
    BY <1>0, <1>4, SilenceKeeps DEF PutProvider, ForceProvider
  <2>2. provider' \in ProviderObject
    BY <1>4 DEF PutProvider, ForceProvider, ProviderInv, ProviderTypeOK, ProviderObject
  <2>3. ProviderTypeOK'
    BY <1>4, <2>1, <2>2 DEF PutProvider, ForceProvider, ProviderInv, ProviderTypeOK
  <2> QED BY <1>4, <2>3 DEF PutProvider, ForceProvider, ProviderInv, ProviderCurrent
<1>5. CASE \E v \in Providers : LearnVersion(v) /\ UNCHANGED providerVars
  BY <1>0, <1>5, LearningKeeps, ProviderStands DEF Versions
<1>6. CASE VersionSide /\ Noticed /\ ProviderAside
  BY <1>0, <1>6, NoticedKeeps, ProviderAsideInv
<1> QED BY <1>1, <1>2, <1>3, <1>4, <1>5, <1>6, ProviderStepInv DEF ProviderNext

LEMMA ProviderInitInv == ProviderInit => ProviderInv
<1>1. ProviderInit => OwnersTypeOK
  BY DEF ProviderInit, OwnersInit, Init, OwnersTypeOK, Current, Exists, NoVersion
<1>2. NoProvider \in ProviderObject /\ NoProvider.live = FALSE
  BY DEF NoProvider, ProviderObject
<1> QED BY <1>1, <1>2, NoProviderPassFields DEF ProviderInit, ProviderInv, ProviderTypeOK, ProviderCurrent

LEMMA ProviderHolds == ProviderSpec => []ProviderInv
<1>1. ASSUME ProviderInv, [ProviderNext]_providerSpecVars
      PROVE  ProviderInv'
  <2>1. CASE UNCHANGED providerSpecVars
    BY <1>1, <2>1, SilenceKeeps, ProviderStands DEF providerSpecVars, ProviderInv, ProviderTypeOK
  <2> QED BY <1>1, <2>1, ProviderNextInv
<1> QED BY <1>1, ProviderInitInv, PTL DEF ProviderSpec, providerSpecVars

----------------------------------------------------------------------------
\* Every variable of the Provider controller has its type, for any set of combinations.
THEOREM ProviderTypeCorrect == ProviderSpec => []ProviderTypeOK
<1>1. ProviderInv => ProviderTypeOK
  BY DEF ProviderInv
<1> QED BY <1>1, ProviderHolds, PTL

\* The Versions a Provider reports at rest are those its spec asks for, for any lists, any
\* order of events and any number of passes cut short.
THEOREM ReportsRefs == ProviderSpec => []RefsAtRest
<1>1. ProviderInv => RefsAtRest
  BY DEF ProviderInv, ProviderCurrent, RefsAtRest, ProviderAtRest
<1> QED BY <1>1, ProviderHolds, PTL

\* What the removal deletes is what the pass found stale.
LEMMA RemovalGoesByTheSpec ==
    ASSUME ProviderInv, ProviderNext, NEW w \in Combinations, TypeOK, RemovesCombination(w)
    PROVE  w \notin provider.wanted \/ providerQueued \/ "spec" \in providerNews
<1>1. prun.pc = "remove" /\ prun' # prun /\ api'[w] # api[w]
  BY DEF RemovesCombination
<1>2. PICK v \in Combinations : RemoveCombination(v)
  <2>1. ~(AbortProvider \/ DeliverProvider \/ CrashProvider \/ ForceProvider)
    BY <1>1 DEF AbortProvider, ProviderSilent, DeliverProvider, CrashProvider, ForceProvider, vars
  <2>2. ~(\E S \in SUBSET Combinations : PutProvider(S))
    BY <1>1 DEF PutProvider
  <2>3. ~UNCHANGED providerVars /\ ~ProviderAside
    BY <1>1 DEF providerVars, ProviderAside
  <2>4. ProviderStep
    BY <2>1, <2>2, <2>3 DEF ProviderNext
  <2>5. ~(StartProvider \/ ListCombinations \/ ResetProviderForce \/ WriteProviderStatus)
    BY <1>1 DEF StartProvider, ListCombinations, ResetProviderForce, WriteProviderStatus,
         CombinationsDone
  <2>6. \A v \in Combinations :
            ~(CreateCombination(v) \/ RewriteCombination(v) \/ RemoveCombinationAgain(v))
    BY <1>1 DEF CreateCombination, RewriteCombination, RemoveCombinationAgain, ProviderSilent, vars
  <2> QED BY <2>4, <2>5, <2>6 DEF ProviderStep
<1>3. v \in prun.todo /\ v = w
  <2>1. v \in Versions /\ w \in Versions
    BY DEF Combinations, Versions
  <2> QED BY <1>1, <1>2, <2>1, OwnersKeepFile DEF RemoveCombination
<1> QED BY <1>1, <1>3 DEF ProviderInv, ProviderCurrent

\* The Provider controller implements the owner of VersionController.
THEOREM ProviderControllerIsAnOwner == ProviderSpec => ProviderIsAnOwner
<1>1. ProviderInit => Init
  BY DEF ProviderInit, OwnersInit
<1>2. ASSUME [ProviderNext]_providerSpecVars
      PROVE  [Next]_vars
  BY <1>2, ProviderNextIsAnOwner DEF providerSpecVars
<1> QED BY <1>1, <1>2, PTL DEF ProviderSpec, ProviderIsAnOwner, Spec, providerSpecVars

LEMMA OwnedByProvider == ProviderSpec => []IInv
BY ProviderControllerIsAnOwner, Invariant, PTL DEF ProviderIsAnOwner

\* The removal deletes no Version that the spec asks for, for any lists and any order of
\* events, unless the spec has changed since (ReconcileVersionRemovals).
THEOREM RemovesStaleOnly == ProviderSpec => RemovesUnwanted
<1>1. ASSUME IInv, ProviderInv, [ProviderNext]_providerSpecVars
      PROVE  [\A v \in Combinations : RemovesStale(v)]_providerSpecVars
  BY <1>1, RemovalGoesByTheSpec DEF RemovesStale, IInv
<1> QED BY <1>1, OwnedByProvider, ProviderHolds, PTL
        DEF ProviderSpec, RemovesUnwanted, providerSpecVars

----------------------------------------------------------------------------
(***************************************************************************)
(* The Depot controller beside the other two: each of them has variables   *)
(* of its own, and all of them meet in the Versions.                       *)
(***************************************************************************)
DepotTyped ==
    /\ depot \in DepotObject /\ depotSeen \in DepotObject
    /\ depotQueued \in BOOLEAN /\ outdated \subseteq {"depot", "module", "provider"}
    /\ drun \in DepotPass
    /\ drun.pc = "module" => drun.module # None
    /\ drun.pc = "putModule" => drun.matched \subseteq Modules \ Dual
    /\ drun.pc = "putProvider" => drun.matched \subseteq Combinations

DepotInv == PassInv /\ ProviderInv /\ DepotTyped

LEMMA NoDepotPassFields ==
    /\ NoDepotPass \in DepotPass
    /\ NoDepotPass.pc = "idle"
BY DEF NoDepotPass, DepotPass

\* Whose step it is, as the Versions see it.
ModuleMoves == ModuleNext /\ UNCHANGED providerVars
ProviderMoves == ProviderNext /\ UNCHANGED moduleVars
VersionsMove == VersionSide /\ Noticed /\ UNCHANGED moduleVars /\ ProviderAside
OwnersRest == UNCHANGED <<vars, ownerCache, moduleVars, providerVars>>

LEMMA PutListedModuleMoves ==
    ASSUME DepotTyped, PutListedModule
    PROVE  ModuleMoves
<1>1. drun.matched \in SUBSET (Modules \ Dual)
  BY DEF PutListedModule, DepotTyped
<1> QED BY <1>1 DEF PutListedModule, ModuleMoves, ModuleNext

LEMMA PutListedProviderMoves ==
    ASSUME DepotTyped, PutListedProvider
    PROVE  ProviderMoves
<1>1. drun.matched \in SUBSET Combinations
  BY DEF PutListedProvider, DepotTyped
<1> QED BY <1>1 DEF PutListedProvider, ProviderMoves, ProviderNext

LEMMA OthersMove ==
    ASSUME OthersStep
    PROVE  ModuleMoves \/ ProviderMoves \/ VersionsMove
<1>1. CASE (ModuleStep \/ AbortModule \/ DeliverModule \/ ResyncModule \/ CrashModule)
              /\ UNCHANGED providerVars
  BY <1>1 DEF ModuleMoves, ModuleNext
<1>2. CASE (ProviderStep \/ AbortProvider \/ DeliverProvider \/ CrashProvider)
              /\ UNCHANGED moduleVars
  BY <1>2 DEF ProviderMoves, ProviderNext
<1>3. ASSUME NEW v \in Versions, LearnVersion(v), UNCHANGED <<moduleVars, providerVars>>
      PROVE  ModuleMoves \/ ProviderMoves
  <2>1. CASE v \in Modules
    BY <1>3, <2>1 DEF ModuleMoves, ModuleNext
  <2>2. CASE v \in Providers
    BY <1>3, <2>2 DEF ProviderMoves, ProviderNext
  <2> QED BY <2>1, <2>2 DEF Versions
<1>4. CASE (\E S \in SUBSET (Modules \ Dual) : PutModule(S) /\ UNCHANGED providerVars)
              \/ (ForceModule /\ UNCHANGED providerVars)
  BY <1>4 DEF ModuleMoves, ModuleNext
<1>5. CASE (\E S \in SUBSET Combinations : PutProvider(S) /\ UNCHANGED moduleVars)
              \/ (ForceProvider /\ UNCHANGED moduleVars)
  BY <1>5 DEF ProviderMoves, ProviderNext
<1>6. CASE VersionSide /\ Noticed /\ UNCHANGED moduleVars /\ ProviderAside
  BY <1>6 DEF VersionsMove
<1> QED BY <1>1, <1>2, <1>3, <1>4, <1>5, <1>6 DEF OthersStep

LEMMA DepotMoves ==
    ASSUME DepotTyped, DepotNext
    PROVE  ModuleMoves \/ ProviderMoves \/ VersionsMove \/ OwnersRest
<1>1. CASE DepotStep
  <2>1. CASE StartDepot \/ ListReleases \/ ListProviderVersions
    BY <2>1 DEF StartDepot, ListReleases, ListProviderVersions, DepotSilent, OwnersRest
  <2>2. CASE WriteDepotStatus
    BY <2>2 DEF WriteDepotStatus, OwnersRest
  <2> QED BY <1>1, <2>1, <2>2, PutListedModuleMoves, PutListedProviderMoves DEF DepotStep
<1>2. CASE AbortDepot
  BY <1>2 DEF AbortDepot, DepotSilent, OwnersRest
<1>3. CASE DeliverDepot \/ DeliverToDepot \/ ResyncDepot \/ CrashDepot
  BY <1>3 DEF DeliverDepot, DeliverToDepot, ResyncDepot, CrashDepot, OwnersRest
<1>4. CASE \E m \in (SUBSET (Modules \ Dual)) \cup {None}, p \in (SUBSET Releases) \cup {None},
              polling \in BOOLEAN : PutDepot(m, p, polling)
  BY <1>4 DEF PutDepot, OwnersRest
<1>5. CASE OthersStep /\ DepotAside
  BY <1>5, OthersMove
<1> QED BY <1>1, <1>2, <1>3, <1>4, <1>5 DEF DepotNext

LEMMA DepotNextIsAnOwner ==
    ASSUME DepotInv, DepotNext
    PROVE  [Next]_vars
BY DepotMoves, ModuleNextIsAnOwner, ProviderNextIsAnOwner, VersionSideIsNext
   DEF DepotInv, ModuleMoves, ProviderMoves, VersionsMove, OwnersRest

\* What one owner does leaves the invariant of the other, since both caches stay true.
LEMMA DepotOwnersInv ==
    ASSUME DepotInv, DepotNext
    PROVE  PassInv' /\ ProviderInv'
<1>0. OwnersTypeOK /\ PassInv /\ ProviderInv /\ DepotTyped
  BY DEF DepotInv, PassInv, ModuleTypeOK
<1>1. CASE ModuleMoves
  <2>1. PassInv'
    BY <1>0, <1>1, ModuleNextInv DEF ModuleMoves
  <2>2. OwnersTypeOK'
    BY <2>1 DEF PassInv, ModuleTypeOK
  <2> QED BY <1>0, <1>1, <2>1, <2>2, ProviderStands DEF ModuleMoves
<1>2. CASE ProviderMoves
  <2>1. ProviderInv'
    BY <1>0, <1>2, ProviderNextInv DEF ProviderMoves
  <2>2. OwnersTypeOK'
    BY <2>1 DEF ProviderInv, ProviderTypeOK
  <2> QED BY <1>0, <1>2, <2>1, <2>2, ModuleStands DEF ProviderMoves
<1>3. CASE VersionsMove
  <2>1. OwnersTypeOK'
    BY <1>0, <1>3, NoticedKeeps DEF VersionsMove
  <2> QED BY <1>0, <1>3, <2>1, ModuleStands, ProviderAsideInv DEF VersionsMove
<1>4. CASE OwnersRest
  <2>1. OwnersTypeOK'
    BY <1>0, <1>4, SilenceKeeps DEF OwnersRest
  <2> QED BY <1>0, <1>4, <2>1, ModuleStands, ProviderStands DEF OwnersRest
<1> QED BY <1>0, <1>1, <1>2, <1>3, <1>4, DepotMoves

----------------------------------------------------------------------------
\* The types of the Depot controller's own variables.
LEMMA DepotReadsTyped ==
    ASSUME DepotTyped
    PROVE  ReadDepot \in DepotPass /\ (ReadDepot.pc = "module" => ReadDepot.module # None)
             /\ ReadDepot.pc \in {"module", "provider", "status"}
<1> DEFINE r == [NoDepotPass EXCEPT !.module = depotSeen.module, !.provider = depotSeen.provider]
<1>1. r \in DepotPass /\ r.module = depotSeen.module /\ r.provider = depotSeen.provider
  BY DEF DepotTyped, DepotObject, DepotPass, NoDepotPass
<1>2. ReadDepot = [r EXCEPT !.pc = IF r.module # None THEN "module" ELSE AfterModule(r)]
  BY DEF ReadDepot
<1> HIDE DEF r
<1>3. AfterModule(r) \in {"provider", "status"}
  BY DEF AfterModule
<1> QED BY <1>1, <1>2, <1>3 DEF DepotPass

LEMMA DepotStepTyped ==
    ASSUME DepotTyped, DepotStep
    PROVE  DepotTyped'
<1>1. CASE StartDepot
  <2>1. drun' = ReadDepot \/ drun' = NoDepotPass
    BY <1>1 DEF StartDepot
  <2>2. UNCHANGED <<depot, depotSeen, outdated>> /\ depotQueued' = FALSE
    BY <1>1 DEF StartDepot, DepotSilent
  <2>3. CASE drun' = ReadDepot
    BY <2>2, <2>3, DepotReadsTyped DEF DepotTyped
  <2>4. CASE drun' = NoDepotPass
    BY <2>2, <2>4, NoDepotPassFields DEF DepotTyped
  <2> QED BY <2>1, <2>3, <2>4
<1>2. CASE ListReleases
  <2>1. drun.module \in SUBSET (Modules \ Dual)
    BY <1>2 DEF ListReleases, DepotTyped, DepotPass
  <2>2. MatchingModules(drun.module) \subseteq Modules \ Dual
    BY <2>1 DEF MatchingModules
  <2>3. /\ UNCHANGED <<depot, depotSeen, depotQueued, outdated>>
        /\ drun' = [drun EXCEPT !.pc = "putModule", !.matched = MatchingModules(drun.module)]
    BY <1>2 DEF ListReleases, DepotProceeds, DepotSilent
  <2>4. /\ drun' \in DepotPass /\ drun'.pc = "putModule"
        /\ drun'.matched = MatchingModules(drun.module)
    BY <2>2, <2>3 DEF DepotTyped, DepotPass
  <2> QED BY <2>2, <2>3, <2>4 DEF DepotTyped
<1>3. CASE ListProviderVersions
  <2>1. MatchingCombinations(drun.provider) \subseteq Combinations
    BY DEF MatchingCombinations
  <2>2. /\ UNCHANGED <<depot, depotSeen, depotQueued, outdated>>
        /\ drun' = [drun EXCEPT !.pc = "putProvider",
                                !.matched = MatchingCombinations(drun.provider)]
    BY <1>3 DEF ListProviderVersions, DepotProceeds, DepotSilent
  <2>3. /\ drun' \in DepotPass /\ drun'.pc = "putProvider"
        /\ drun'.matched = MatchingCombinations(drun.provider)
    BY <2>1, <2>2 DEF DepotTyped, DepotPass
  <2> QED BY <2>1, <2>2, <2>3 DEF DepotTyped
<1>4. CASE PutListedModule
  <2>1. /\ UNCHANGED <<depot, depotSeen, depotQueued>>
        /\ outdated' \subseteq {"depot", "module", "provider"}
        /\ drun' = [drun EXCEPT !.pc = AfterModule(drun), !.matched = {}]
    BY <1>4 DEF PutListedModule, DepotProceeds, DepotTyped
  <2>2. AfterModule(drun) \in {"provider", "status"}
    BY DEF AfterModule
  <2>3. drun' \in DepotPass /\ drun'.pc \in {"provider", "status"}
    BY <2>1, <2>2 DEF DepotTyped, DepotPass
  <2> QED BY <2>1, <2>3 DEF DepotTyped
<1>5. CASE PutListedProvider
  <2>1. /\ UNCHANGED <<depot, depotSeen, depotQueued>>
        /\ outdated' \subseteq {"depot", "module", "provider"}
        /\ drun' = [drun EXCEPT !.pc = "status", !.matched = {}]
    BY <1>5 DEF PutListedProvider, DepotProceeds, DepotTyped
  <2>2. drun' \in DepotPass /\ drun'.pc = "status"
    BY <2>1 DEF DepotTyped, DepotPass
  <2> QED BY <2>1, <2>2 DEF DepotTyped
<1>6. CASE WriteDepotStatus
  <2>1. depot' = [depot EXCEPT !.managed = Managed(drun)] /\ drun' = NoDepotPass
    BY <1>6 DEF WriteDepotStatus
  <2>2. Managed(drun) \subseteq {"module", "provider"}
    BY DEF Managed
  <2>3. depot' \in DepotObject
    BY <2>1, <2>2 DEF DepotTyped, DepotObject
  <2>4. /\ UNCHANGED depotSeen /\ outdated' \subseteq {"depot", "module", "provider"}
        /\ depotQueued' \in BOOLEAN
    BY <1>6 DEF WriteDepotStatus, DepotTyped, DepotObject
  <2> QED BY <2>1, <2>3, <2>4, NoDepotPassFields DEF DepotTyped
<1> QED BY <1>1, <1>2, <1>3, <1>4, <1>5, <1>6 DEF DepotStep

LEMMA DepotNextTyped ==
    ASSUME DepotTyped, DepotNext
    PROVE  DepotTyped'
<1>1. CASE AbortDepot
  BY <1>1, NoDepotPassFields DEF AbortDepot, DepotSilent, DepotTyped
<1>2. CASE DeliverDepot \/ DeliverToDepot \/ ResyncDepot
  BY <1>2 DEF DeliverDepot, DeliverToDepot, ResyncDepot, DepotTyped
<1>3. CASE CrashDepot
  BY <1>3, NoDepotPassFields DEF CrashDepot, DepotTyped, DepotObject
<1>4. ASSUME NEW m \in (SUBSET (Modules \ Dual)) \cup {None}, NEW p \in (SUBSET Releases) \cup {None},
             NEW polling \in BOOLEAN, PutDepot(m, p, polling)
      PROVE  DepotTyped'
  <2>1. depot' \in DepotObject
    BY <1>4 DEF PutDepot, DepotTyped, DepotObject
  <2> QED BY <1>4, <2>1 DEF PutDepot, DepotTyped
<1>5. CASE DepotAside
  <2>1. UNCHANGED <<depot, depotSeen, depotQueued, drun>>
    BY <1>5 DEF DepotAside
  <2>2. outdated' \subseteq {"depot", "module", "provider"}
    BY <1>5 DEF DepotAside, DepotTyped
  <2> QED BY <2>1, <2>2 DEF DepotTyped
<1> QED BY <1>1, <1>2, <1>3, <1>4, <1>5, DepotStepTyped DEF DepotNext

LEMMA DepotHolds == DepotSpec => []DepotInv
<1>1. DepotInit => DepotInv
  <2>1. DepotInit => PassInv /\ ProviderInv
    BY ModuleInitInv, ProviderInitInv DEF DepotInit
  <2>2. NoDepot \in DepotObject
    BY DEF NoDepot, DepotObject
  <2> QED BY <2>1, <2>2, NoDepotPassFields DEF DepotInit, DepotInv, DepotTyped
<1>2. ASSUME DepotInv, [DepotNext]_allVars
      PROVE  DepotInv'
  <2>1. CASE UNCHANGED allVars
    <3>1. UNCHANGED <<vars, ownerCache>> /\ UNCHANGED moduleVars /\ UNCHANGED providerVars
             /\ UNCHANGED depotVars
      BY <2>1 DEF allVars
    <3>2. OwnersTypeOK'
      BY <1>2, <3>1, SilenceKeeps DEF DepotInv, ProviderInv, ProviderTypeOK
    <3>3. DepotTyped'
      BY <1>2, <3>1 DEF depotVars, DepotInv, DepotTyped
    <3> QED BY <1>2, <3>1, <3>2, <3>3, ModuleStands, ProviderStands DEF DepotInv
  <2>2. CASE DepotNext
    BY <1>2, <2>2, DepotOwnersInv, DepotNextTyped DEF DepotInv
  <2> QED BY <1>2, <2>1, <2>2
<1> QED BY <1>1, <1>2, PTL DEF DepotSpec

----------------------------------------------------------------------------
\* Side by side, every variable of the three controllers has its type, and no cache of
\* a Version is wrong without an event on its way to it.
THEOREM DepotTypeCorrect == DepotSpec => []DepotTypeOK
<1>1. DepotInv => DepotTypeOK
  BY DEF DepotInv, DepotTyped, PassInv, ProviderInv, DepotTypeOK
<1> QED BY <1>1, DepotHolds, PTL

\* What the Provider reports at rest is right beside the other controllers too, with the
\* Depot controller overwriting its list whenever it likes.
THEOREM ReportsRefsBesideDepot == DepotSpec => []RefsAtRest
<1>1. DepotInv => RefsAtRest
  BY DEF DepotInv, ProviderInv, ProviderCurrent, RefsAtRest, ProviderAtRest
<1> QED BY <1>1, DepotHolds, PTL

\* Four controllers, upstream and their users together implement the owner of
\* VersionController, so its theorems hold of the whole pipeline.
THEOREM PipelineIsAnOwner == DepotSpec => DepotIsAnOwner
<1>1. DepotInit => Init
  BY DEF DepotInit, ModuleInit, OwnersInit
<1>2. ASSUME DepotInv, [DepotNext]_allVars
      PROVE  [Next]_vars
  BY <1>2, DepotNextIsAnOwner DEF allVars
<1> QED BY <1>1, <1>2, DepotHolds, PTL DEF DepotSpec, DepotIsAnOwner, Spec

\* A name drawn for one Version is never the name of another, whoever of the pipeline
\* creates, overwrites, renames or deletes them.
THEOREM DisjointNamesInPipeline == DepotSpec => []NamesDisjoint
BY PipelineIsAnOwner, DisjointNames, PTL DEF DepotIsAnOwner

\* So every promise of VersionController is kept by the whole pipeline: the inductive
\* invariants hold, a Version at rest is done with, the artifact of a Version that is served
\* stays and that of one that goes is removed first, the checksum of an immutable Version
\* stays once seen, no semaphore leaks and nothing flagged is published.
THEOREM PipelineKeepsVersions ==
    DepotSpec => /\ []IInv /\ []RestsOnlyWhenDone /\ []SemaphoresHeld /\ []ScanGate
                 /\ LiveArtifactKept /\ ArtifactGoesFirst /\ ImmutableOnceSeen
BY PipelineIsAnOwner, Invariant, RestsWhenDone, HoldsSemaphores, GatesScans,
   KeepsLiveArtifacts, RemovesArtifactFirst, KeepsImmutable DEF DepotIsAnOwner

\* And with a back end that returns the checksum of what it holds, what the pipeline rests
\* on is consistent, and every Version it rests on is published.
THEOREM ConsistentInPipeline ==
    ASSUME Backend # "azure"
    PROVE  DepotSpec => []QuiescentConsistent /\ []PublishedAtRest
BY PipelineIsAnOwner, Consistent, RestsPublished DEF DepotIsAnOwner

----------------------------------------------------------------------------
(***************************************************************************)
(* What the Module and the Provider controller promise, beside each other  *)
(* and beside a Depot controller that overwrites their lists.              *)
(***************************************************************************)
LEMMA ProviderKeepsNames ==
    ASSUME IInv, HandsNamed, ProviderNext
    PROVE  HandsNamed' /\ UNCHANGED <<ref, hand>>
<1>0. TypeOK
  BY DEF IInv
<1>1. ASSUME \A w \in Modules : api'[w] = api[w], UNCHANGED <<ref, hand>>
      PROVE  HandsNamed' /\ UNCHANGED <<ref, hand>>
  BY <1>1 DEF HandsNamed
<1>2. \A v \in Combinations : v \in Versions /\ Modules \subseteq Versions \ {v}
  BY KindsAreDisjoint DEF Combinations, Versions
<1>3. ASSUME NEW v \in Combinations, CreateCombination(v)
      PROVE  HandsNamed' /\ UNCHANGED <<ref, hand>>
  <2> DEFINE q == NewVersion(None, TRUE)
  <2>1. q \in VersionObject /\ Settle(q) = q
    BY NewFields
  <2>2. OwnerWrites(v, q) /\ UNCHANGED <<ref, hand>>
    BY <1>3 DEF CreateCombination, CreateWithConfig
  <2> HIDE DEF q
  <2>3. \A w \in Versions \ {v} : api'[w] = api[w]
    BY <1>0, <1>2, <2>1, <2>2, OwnerWriteEffect DEF Wrote
  <2> QED BY <1>1, <1>2, <2>2, <2>3
<1>4. ASSUME NEW v \in Combinations, RewriteCombination(v) \/ RemoveCombination(v)
      PROVE  HandsNamed' /\ UNCHANGED <<ref, hand>>
  <2>1. \A w \in Versions \ {v} : api'[w] = api[w]
    BY <1>0, <1>2, <1>4, OwnersKeepFile DEF RewriteCombination, RemoveCombination
  <2>2. UNCHANGED <<ref, hand>>
    BY <1>2, <1>4 DEF RewriteCombination, RemoveCombination, Rewrite, DeleteVersion
  <2> QED BY <1>1, <1>2, <2>1, <2>2
<1>5. ASSUME UNCHANGED vars
      PROVE  HandsNamed' /\ UNCHANGED <<ref, hand>>
  BY <1>1, <1>5 DEF vars
<1>6. CASE ProviderStep
  <2>1. CASE StartProvider \/ ListCombinations \/ ResetProviderForce \/ WriteProviderStatus
    BY <1>5, <2>1 DEF StartProvider, ListCombinations, ResetProviderForce, WriteProviderStatus,
         WriteProvider, ProviderSilent
  <2>2. CASE \E v \in Combinations : RemoveCombinationAgain(v)
    BY <1>5, <2>2 DEF RemoveCombinationAgain, ProviderSilent
  <2> QED BY <1>3, <1>4, <1>6, <2>1, <2>2 DEF ProviderStep
<1>7. CASE AbortProvider \/ DeliverProvider \/ CrashProvider \/ ForceProvider
  BY <1>5, <1>7 DEF AbortProvider, ProviderSilent, DeliverProvider, CrashProvider, ForceProvider
<1>8. CASE \E S \in SUBSET Combinations : PutProvider(S)
  BY <1>5, <1>8 DEF PutProvider
<1>9. CASE \E v \in Providers : LearnVersion(v) /\ UNCHANGED providerVars
  BY <1>5, <1>9 DEF LearnVersion
<1>10. CASE VersionSide /\ Noticed /\ ProviderAside
  BY <1>10, VersionSideKeepsNames
<1> QED BY <1>6, <1>7, <1>8, <1>9, <1>10 DEF ProviderNext

LEMMA DepotNextNotes ==
    ASSUME IInv, DepotInv, NotesInv, DepotNext
    PROVE  NotesInv'
<1>0. PassInv /\ DepotTyped /\ HandsNamed
  BY DEF DepotInv, NotesInv
<1>1. CASE ModuleMoves
  BY <1>0, <1>1, ModuleNextNotes DEF ModuleMoves
<1>2. CASE ProviderMoves
  <2>1. HandsNamed' /\ UNCHANGED <<ref, hand>>
    BY <1>0, <1>2, ProviderKeepsNames DEF ProviderMoves
  <2> QED BY <1>2, <2>1, NotesStand DEF ProviderMoves, moduleVars
<1>3. CASE VersionsMove
  <2>1. HandsNamed' /\ UNCHANGED <<ref, hand>>
    BY <1>0, <1>3, VersionSideKeepsNames DEF VersionsMove
  <2> QED BY <1>3, <2>1, NotesStand DEF VersionsMove, moduleVars
<1>4. CASE OwnersRest
  <2>1. HandsNamed' /\ UNCHANGED <<ref, hand>>
    BY <1>0, <1>4 DEF OwnersRest, vars, HandsNamed
  <2> QED BY <1>4, <2>1, NotesStand DEF OwnersRest, moduleVars
<1> QED BY <1>0, <1>1, <1>2, <1>3, <1>4, DepotMoves

LEMMA OwnedByPipeline == DepotSpec => []IInv
BY PipelineIsAnOwner, Invariant, PTL DEF DepotIsAnOwner

LEMMA PipelineNotes == DepotSpec => []NotesInv
<1>1. DepotInit => NotesInv
  BY ModuleInitNotes DEF DepotInit
<1>2. ASSUME IInv, DepotInv, NotesInv, [DepotNext]_allVars
      PROVE  NotesInv'
  <2>1. CASE UNCHANGED allVars
    <3>1. /\ UNCHANGED <<api, ref, hand>>
          /\ UNCHANGED <<module, moduleNews, moduleQueued, mrun>>
      BY <2>1 DEF allVars, vars, moduleVars
    <3>2. HandsNamed'
      BY <1>2, <3>1 DEF NotesInv, HandsNamed
    <3> QED BY <1>2, <3>1, <3>2, NotesStand
  <2> QED BY <1>2, <2>1, DepotNextNotes
<1> QED BY <1>1, <1>2, OwnedByPipeline, DepotHolds, PTL DEF DepotSpec

\* What a Module reports at rest, the latest version and the file names, is right beside the
\* other controllers too.
THEOREM ModuleReportsInPipeline == DepotSpec => []LatestAtRest /\ []NamesAtRest
<1>1. PassInv => module.versions \subseteq Modules
  BY DEF PassInv, ModuleTypeOK, ModuleObject
<1>2. ASSUME PassInv, ModuleAtRest, module.live
      PROVE  module.versions # {} /\ module.latest = Newest(module.versions)
  BY <1>2 DEF PassInv, PassCurrent, ModuleAtRest
<1>3. PassInv => LatestAtRest
  BY <1>1, <1>2, NewestIsLast DEF LatestAtRest
<1>4. ASSUME NotesInv, ModuleAtRest, module.live
      PROVE  {v \in Modules : ref[v] # None} = module.versions
  BY <1>4 DEF NotesInv, ListNoted, ModuleAtRest, Late
<1>5. PassInv /\ NotesInv => NamesAtRest
  BY <1>1, <1>4 DEF NamesAtRest
<1>6. DepotInv => PassInv
  BY DEF DepotInv
<1> QED BY <1>3, <1>5, <1>6, DepotHolds, PipelineNotes, PTL

\* Neither controller deletes a Version that is listed, with three processes replacing the
\* lists and deleting Versions at any moment.
THEOREM RemovalsInPipeline == DepotSpec => RemovesUnlisted /\ RemovesUnwanted
<1>1. ASSUME IInv, DepotInv, NotesInv, [DepotNext]_allVars
      PROVE  /\ [\A v \in Modules : RemovesOrphan(v)]_controllerVars
             /\ [\A v \in Combinations : RemovesStale(v)]_providerSpecVars
  <2>0. TypeOK /\ PassInv /\ ProviderInv /\ DepotTyped
    BY <1>1 DEF IInv, DepotInv
  <2>1. ASSUME NEW w \in Modules, Removes(w)
        PROVE  w \notin module.versions \/ moduleQueued \/ moduleNews
    <3>1. ~UNCHANGED moduleVars
      BY <2>1 DEF Removes, moduleVars
    <3>2. ModuleNext
      BY <1>1, <2>0, <3>1, DepotMoves
         DEF allVars, ModuleMoves, ProviderMoves, VersionsMove, OwnersRest
    <3> QED BY <1>1, <2>0, <2>1, <3>2, RemovalGoesByTheList
  <2>2. ASSUME NEW w \in Combinations, RemovesCombination(w)
        PROVE  w \notin provider.wanted \/ providerQueued \/ "spec" \in providerNews
    <3>1. ~UNCHANGED providerVars /\ ~ProviderAside
      BY <2>2 DEF RemovesCombination, providerVars, ProviderAside
    <3>2. ProviderNext
      BY <1>1, <2>0, <3>1, DepotMoves
         DEF allVars, ModuleMoves, ProviderMoves, VersionsMove, OwnersRest
    <3> QED BY <1>1, <2>0, <2>2, <3>2, RemovalGoesByTheSpec
  <2> QED BY <2>1, <2>2 DEF RemovesOrphan, RemovesStale
<1> QED BY <1>1, OwnedByPipeline, DepotHolds, PipelineNotes, PTL
        DEF DepotSpec, RemovesUnlisted, RemovesUnwanted, controllerVars, providerSpecVars

----------------------------------------------------------------------------
(***************************************************************************)
(* What the Depot controller itself writes.                                *)
(***************************************************************************)

\* The cache shows the Depot unless its event is on its way; a pass works on the entries the
\* cache shows unless the Depot is queued, so what it recorded last is right unless the one
\* or the other; and what it found was asked for.
DepotCurrent ==
    /\ "depot" \notin outdated => depotSeen = depot
    /\ drun.pc # "idle" /\ ~depotQueued
          => drun.module = depotSeen.module /\ drun.provider = depotSeen.provider
    /\ drun.pc = "idle" /\ ~depotQueued /\ "depot" \notin outdated /\ depot.live
          => depot.managed = Managed(depot)
    /\ drun.pc = "putModule" => drun.module # None /\ drun.matched \subseteq drun.module
    /\ drun.pc = "provider" => drun.provider # None
    /\ drun.pc = "putProvider" =>
          drun.provider # None /\ \A v \in drun.matched : Release[v] \in drun.provider

\* Another pass over the Depot is on its way.
DepotLate == depotQueued \/ "depot" \in outdated

\* What the status of a Depot says it manages at rest are its entries, although the status
\* is written by a pass that read them earlier, onto a Depot that may have changed.
ManagedAtRest ==
    drun.pc = "idle" /\ ~DepotLate /\ depot.live => depot.managed = Managed(depot)

\* And whatever a pass writes there is right at that moment, unless the Depot is queued again
\* already.  This is what a polling Depot has: it is queued after each pass, never at rest.
RecordsManaged ==
    [][WriteDepotStatus => depotQueued \/ depot'.managed = Managed(depot')]_allVars

\* The Depot controller never empties the list of a Module or of a Provider, and puts
\* nothing on it that the entry of its Depot does not admit, unless the Depot has changed
\* since and another pass will come: the listing, which takes its time, lies in between.
AdmitsModules ==
    drun.pc = "putModule" /\ drun' # drun /\ module' # module =>
        /\ module'.versions # {}
        /\ ~DepotLate => depot.module # None /\ module'.versions \subseteq depot.module

AdmitsReleases ==
    drun.pc = "putProvider" /\ drun' # drun /\ provider' # provider =>
        /\ provider'.wanted # {}
        /\ ~DepotLate => /\ depot.provider # None
                         /\ \A v \in provider'.wanted : Release[v] \in depot.provider

ListsAdmitted == [][AdmitsModules /\ AdmitsReleases]_allVars

LEMMA ReadDepotFields ==
    ASSUME DepotTyped
    PROVE  /\ ReadDepot.module = depotSeen.module /\ ReadDepot.provider = depotSeen.provider
           /\ ReadDepot.pc \in {"module", "provider", "status"}
           /\ ReadDepot.pc = "provider" => ReadDepot.provider # None
<1> DEFINE r == [NoDepotPass EXCEPT !.module = depotSeen.module, !.provider = depotSeen.provider]
<1>1. r \in DepotPass /\ r.module = depotSeen.module /\ r.provider = depotSeen.provider
  BY DEF DepotTyped, DepotObject, DepotPass, NoDepotPass
<1>2. ReadDepot = [r EXCEPT !.pc = IF r.module # None THEN "module" ELSE AfterModule(r)]
  BY DEF ReadDepot
<1> HIDE DEF r
<1>3. AfterModule(r) = IF r.provider # None THEN "provider" ELSE "status"
  BY DEF AfterModule
<1> QED BY <1>1, <1>2, <1>3 DEF DepotPass

\* The status a pass writes is that of the Depot it is written onto, unless this one is queued.
LEMMA WriteRecordsManaged ==
    ASSUME DepotTyped, DepotCurrent, WriteDepotStatus, ~depotQueued
    PROVE  depot'.managed = Managed(depot')
<1>1. /\ depot' = [depot EXCEPT !.managed = Managed(drun)]
      /\ "depot" \notin outdated /\ drun.pc = "status"
  BY DEF WriteDepotStatus
<1>2. /\ depot'.managed = Managed(drun)
      /\ depot'.module = depot.module /\ depot'.provider = depot.provider
  BY <1>1 DEF DepotTyped, DepotObject
<1>3. drun.module = depot.module /\ drun.provider = depot.provider
  BY <1>1 DEF DepotCurrent
<1> QED BY <1>2, <1>3 DEF Managed

LEMMA DepotStepCurrent ==
    ASSUME DepotTyped, DepotCurrent, DepotStep
    PROVE  DepotCurrent'
<1>1. CASE StartDepot
  <2>1. UNCHANGED <<depot, depotSeen, outdated>> /\ ~depotQueued'
    BY <1>1 DEF StartDepot, DepotSilent
  <2>2. CASE depotSeen.live
    <3>1. drun' = ReadDepot
      BY <1>1, <2>2 DEF StartDepot
    <3> QED BY <2>1, <3>1, ReadDepotFields DEF DepotCurrent
  <2>3. CASE ~depotSeen.live
    <3>1. drun' = NoDepotPass
      BY <1>1, <2>3 DEF StartDepot
    <3> QED BY <2>1, <2>3, <3>1, NoDepotPassFields DEF DepotCurrent
  <2> QED BY <2>2, <2>3
<1>2. CASE ListReleases
  <2>1. /\ UNCHANGED <<depot, depotSeen, depotQueued, outdated>>
        /\ drun.pc = "module"
        /\ drun' = [drun EXCEPT !.pc = "putModule", !.matched = MatchingModules(drun.module)]
    BY <1>2 DEF ListReleases, DepotProceeds, DepotSilent
  <2>2. /\ drun'.pc = "putModule" /\ drun'.matched = MatchingModules(drun.module)
        /\ drun'.module = drun.module /\ drun'.provider = drun.provider
    BY <2>1 DEF DepotTyped, DepotPass
  <2>3. drun.module # None /\ MatchingModules(drun.module) \subseteq drun.module
    BY <2>1 DEF DepotTyped, MatchingModules
  <2> QED BY <2>1, <2>2, <2>3 DEF DepotCurrent
<1>3. CASE ListProviderVersions
  <2>1. /\ UNCHANGED <<depot, depotSeen, depotQueued, outdated>>
        /\ drun.pc = "provider"
        /\ drun' = [drun EXCEPT !.pc = "putProvider",
                                !.matched = MatchingCombinations(drun.provider)]
    BY <1>3 DEF ListProviderVersions, DepotProceeds, DepotSilent
  <2>2. /\ drun'.pc = "putProvider" /\ drun'.matched = MatchingCombinations(drun.provider)
        /\ drun'.module = drun.module /\ drun'.provider = drun.provider
    BY <2>1 DEF DepotTyped, DepotPass
  <2>3. \A v \in MatchingCombinations(drun.provider) : Release[v] \in drun.provider
    BY DEF MatchingCombinations
  <2> QED BY <2>1, <2>2, <2>3 DEF DepotCurrent
<1>4. CASE PutListedModule
  <2>1. /\ UNCHANGED <<depot, depotSeen, depotQueued>>
        /\ drun.pc = "putModule" /\ ("depot" \in outdated' <=> "depot" \in outdated)
        /\ drun' = [drun EXCEPT !.pc = AfterModule(drun), !.matched = {}]
    BY <1>4 DEF PutListedModule, DepotProceeds
  <2>2. AfterModule(drun) = IF drun.provider # None THEN "provider" ELSE "status"
    BY DEF AfterModule
  <2>3. /\ drun'.pc = AfterModule(drun)
        /\ drun'.module = drun.module /\ drun'.provider = drun.provider
    BY <2>1 DEF DepotTyped, DepotPass
  <2> QED BY <2>1, <2>2, <2>3 DEF DepotCurrent
<1>5. CASE PutListedProvider
  <2>1. /\ UNCHANGED <<depot, depotSeen, depotQueued>>
        /\ drun.pc = "putProvider" /\ ("depot" \in outdated' <=> "depot" \in outdated)
        /\ drun' = [drun EXCEPT !.pc = "status", !.matched = {}]
    BY <1>5 DEF PutListedProvider, DepotProceeds
  <2>2. /\ drun'.pc = "status"
        /\ drun'.module = drun.module /\ drun'.provider = drun.provider
    BY <2>1 DEF DepotTyped, DepotPass
  <2> QED BY <2>1, <2>2 DEF DepotCurrent
<1>6. CASE WriteDepotStatus
  <2>1. /\ depot' = [depot EXCEPT !.managed = Managed(drun)] /\ drun' = NoDepotPass
        /\ UNCHANGED depotSeen /\ "depot" \notin outdated /\ drun.pc = "status"
        /\ depotQueued' = (depotQueued \/ depot.polling)
        /\ outdated' = IF depot' = depot THEN outdated ELSE outdated \cup {"depot"}
    BY <1>6 DEF WriteDepotStatus
  <2>2. "depot" \notin outdated' => depotSeen' = depot'
    BY <2>1 DEF DepotCurrent
  <2>3. ASSUME ~depotQueued'
        PROVE  depot'.managed = Managed(depot')
    <3>1. ~depotQueued
      BY <2>1, <2>3 DEF DepotTyped
    <3> QED BY <1>6, <3>1, WriteRecordsManaged
  <2> QED BY <2>1, <2>2, <2>3, NoDepotPassFields DEF DepotCurrent
<1> QED BY <1>1, <1>2, <1>3, <1>4, <1>5, <1>6 DEF DepotStep

LEMMA DepotNextCurrent ==
    ASSUME DepotTyped, DepotCurrent, DepotNext
    PROVE  DepotCurrent'
<1>1. CASE AbortDepot
  BY <1>1, NoDepotPassFields DEF AbortDepot, DepotSilent, DepotCurrent
<1>2. CASE DeliverDepot \/ DeliverToDepot \/ ResyncDepot
  BY <1>2 DEF DeliverDepot, DeliverToDepot, ResyncDepot, DepotCurrent
<1>3. CASE CrashDepot
  BY <1>3, NoDepotPassFields DEF CrashDepot, DepotCurrent
<1>4. ASSUME NEW m, NEW p, NEW polling, PutDepot(m, p, polling)
      PROVE  DepotCurrent'
  <2>1. UNCHANGED <<depotSeen, depotQueued, drun>>
    BY <1>4 DEF PutDepot
  <2>2. (depot' = depot /\ outdated' = outdated) \/ "depot" \in outdated'
    BY <1>4 DEF PutDepot
  <2> QED BY <2>1, <2>2 DEF DepotCurrent
<1>5. CASE DepotAside
  <2>1. UNCHANGED <<depot, depotSeen, depotQueued, drun>>
    BY <1>5 DEF DepotAside
  <2>2. "depot" \in outdated' <=> "depot" \in outdated
    BY <1>5 DEF DepotAside
  <2> QED BY <2>1, <2>2 DEF DepotCurrent
<1> QED BY <1>1, <1>2, <1>3, <1>4, <1>5, DepotStepCurrent DEF DepotNext

LEMMA DepotStaysCurrent == DepotSpec => []DepotCurrent
<1>1. DepotInit => DepotCurrent
  BY NoDepotPassFields DEF DepotInit, DepotCurrent, NoDepot
<1>2. ASSUME DepotInv, DepotCurrent, [DepotNext]_allVars
      PROVE  DepotCurrent'
  <2>1. CASE UNCHANGED allVars
    BY <1>2, <2>1 DEF allVars, depotVars, DepotCurrent
  <2> QED BY <1>2, <2>1, DepotNextCurrent DEF DepotInv
<1> QED BY <1>1, <1>2, DepotHolds, PTL DEF DepotSpec

\* What a Depot's status says is right at rest, and right whenever a pass has written it.
THEOREM DepotReportsManaged == DepotSpec => []ManagedAtRest /\ RecordsManaged
<1>1. DepotCurrent => ManagedAtRest
  BY DEF DepotCurrent, ManagedAtRest, DepotLate
<1>2. DepotInv /\ DepotCurrent
         => [WriteDepotStatus => depotQueued \/ depot'.managed = Managed(depot')]_allVars
  BY WriteRecordsManaged DEF DepotInv
<1> QED BY <1>1, <1>2, DepotStaysCurrent, DepotHolds, PTL DEF DepotSpec, RecordsManaged

\* Nothing else moves the pass and writes a list.
LEMMA ListingSteps ==
    ASSUME DepotNext, drun' # drun
    PROVE  /\ module' # module => PutListedModule
           /\ provider' # provider => PutListedProvider
<1>1. CASE StartDepot \/ ListReleases \/ ListProviderVersions
  BY <1>1 DEF StartDepot, ListReleases, ListProviderVersions, DepotSilent, moduleVars, providerVars
<1>2. CASE PutListedModule \/ PutListedProvider
  BY <1>2 DEF PutListedModule, PutListedProvider, moduleVars, providerVars
<1>3. CASE WriteDepotStatus \/ AbortDepot
  BY <1>3 DEF WriteDepotStatus, AbortDepot, DepotSilent, moduleVars, providerVars
<1>4. CASE DeliverDepot \/ DeliverToDepot \/ ResyncDepot \/ CrashDepot
  BY <1>4 DEF DeliverDepot, DeliverToDepot, ResyncDepot, CrashDepot, moduleVars, providerVars
<1>5. CASE \E m \in (SUBSET (Modules \ Dual)) \cup {None}, p \in (SUBSET Releases) \cup {None},
              polling \in BOOLEAN : PutDepot(m, p, polling)
  BY <1>5 DEF PutDepot
<1>6. CASE DepotAside
  BY <1>6 DEF DepotAside
<1> QED BY <1>1, <1>2, <1>3, <1>4, <1>5, <1>6 DEF DepotNext, DepotStep

\* The Depot controller's lists come from its entries, and never empty.
THEOREM DepotListsAdmitted == DepotSpec => ListsAdmitted
<1>1. ASSUME DepotInv, DepotCurrent, [DepotNext]_allVars
      PROVE  AdmitsModules
  <2>1. SUFFICES ASSUME drun.pc = "putModule", drun' # drun, module' # module
                 PROVE  /\ module'.versions # {}
                        /\ ~DepotLate => /\ depot.module # None
                                         /\ module'.versions \subseteq depot.module
    BY DEF AdmitsModules
  <2>2. PutListedModule
    BY <1>1, <2>1, ListingSteps DEF allVars, moduleVars
  <2>3. drun.matched # {} /\ module' = [module EXCEPT !.live = TRUE, !.versions = drun.matched]
    BY <2>2 DEF PutListedModule, PutModule
  <2>4. module'.versions = drun.matched
    BY <1>1, <2>3 DEF DepotInv, PassInv, ModuleTypeOK, ModuleObject
  <2> QED BY <1>1, <2>1, <2>3, <2>4 DEF DepotCurrent, DepotLate
<1>2. ASSUME DepotInv, DepotCurrent, [DepotNext]_allVars
      PROVE  AdmitsReleases
  <2>1. SUFFICES ASSUME drun.pc = "putProvider", drun' # drun, provider' # provider
                 PROVE  /\ provider'.wanted # {}
                        /\ ~DepotLate =>
                              /\ depot.provider # None
                              /\ \A v \in provider'.wanted : Release[v] \in depot.provider
    BY DEF AdmitsReleases
  <2>2. PutListedProvider
    BY <1>2, <2>1, ListingSteps DEF allVars, providerVars
  <2>3. /\ drun.matched # {}
        /\ provider' = [provider EXCEPT !.live = TRUE, !.wanted = drun.matched]
    BY <2>2 DEF PutListedProvider, PutProvider
  <2>4. provider'.wanted = drun.matched
    BY <1>2, <2>3 DEF DepotInv, ProviderInv, ProviderTypeOK, ProviderObject
  <2> QED BY <1>2, <2>1, <2>3, <2>4 DEF DepotCurrent, DepotLate
<1> QED BY <1>1, <1>2, DepotHolds, DepotStaysCurrent, PTL DEF DepotSpec, ListsAdmitted
=============================================================================
