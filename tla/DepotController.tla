-------------------------- MODULE DepotController --------------------------
(***************************************************************************)
(* The Depot controller: services/depot/internal/controller.               *)
(*                                                                         *)
(* A Depot names modules and providers with version constraints; its       *)
(* controller asks GitHub and the HashiCorp releases API what there is and *)
(* keeps a Module or a Provider for each entry that lists the releases     *)
(* that match.  A Depot here has at most one entry of each kind: for the   *)
(* Module of ModuleController, for the Provider of ProviderController.     *)
(*                                                                         *)
(* A pass handles the modules, then the providers, then writes the status. *)
(* The first error ends it, so an entry that fails keeps those after it    *)
(* from being looked at.  Between the listing and the write others may     *)
(* write the same object, or upstream may publish more.                    *)
(*                                                                         *)
(* Not in the model: the deletion of the Depot (nothing follows from it:   *)
(* what it created stays), a listing that changes from page to page, and   *)
(* the part of a Module's or a Provider's config the entry carries.        *)
(***************************************************************************)
EXTENDS ModuleController, ProviderController

VARIABLES
    depot,        \* the Depot at the API server
    depotSeen,    \* the same in its controller's cache
    depotQueued,  \* the Depot is in the work queue, or will be when the interval is over
    outdated,     \* which objects the controller's cache has an old copy of
    drun          \* the pass under way

depotVars == <<depot, depotSeen, depotQueued, outdated, drun>>
allVars == <<vars, ownerCache, moduleVars, providerVars, depotVars>>

(***************************************************************************)
(* Entries.  A constraint is the set of the versions it admits.  One that  *)
(* does not parse ends the pass as one nothing matches does.               *)
(***************************************************************************)
DepotObject ==
    [live     : BOOLEAN,
     module   : (SUBSET (Modules \ Dual)) \cup {None},   \* spec.moduleConfigs, None: no entry
     provider : (SUBSET Releases) \cup {None},           \* spec.providerConfigs
     polling  : BOOLEAN,                               \* spec.pollingIntervalMinutes is set
     managed  : SUBSET {"module", "provider"}]         \* status.modules, status.providers

NoDepot == [live |-> FALSE, module |-> None, provider |-> None, polling |-> FALSE, managed |-> {}]

DepotPass ==
    [pc       : {"idle", "module", "putModule", "provider", "putProvider", "status"},
     module   : (SUBSET (Modules \ Dual)) \cup {None},
     provider : (SUBSET Releases) \cup {None},
     matched  : SUBSET (Modules \cup Combinations)]

NoDepotPass == [pc |-> "idle", module |-> None, provider |-> None, matched |-> {}]

\* The releases of a module that match.
MatchingModules(entry) == {v \in entry : upstream[v] # None}

\* The releases of a provider that match, in every combination the entry asks for.  The
\* releases API tells versions only.
Listed == {Release[v] : v \in {w \in Providers : upstream[w] # None}}
MatchingCombinations(entry) == {v \in Combinations : Release[v] \in entry \cap Listed}

----------------------------------------------------------------------------
(***************************************************************************)
(* Reconcile.                                                              *)
(***************************************************************************)
DepotProceeds(r) == drun' = r /\ UNCHANGED <<depotSeen, depotQueued>>

DepotSilent == UNCHANGED <<vars, ownerCache, moduleVars, providerVars, depot, outdated>>

AfterModule(r) == IF r.provider # None THEN "provider" ELSE "status"

ReadDepot ==
    LET r == [NoDepotPass EXCEPT !.module = depotSeen.module, !.provider = depotSeen.provider]
    IN  [r EXCEPT !.pc = IF r.module # None THEN "module" ELSE AfterModule(r)]

StartDepot ==
    /\ depotQueued /\ drun.pc = "idle"
    /\ depotQueued' = FALSE
    /\ drun' = IF depotSeen.live THEN ReadDepot ELSE NoDepotPass
    /\ UNCHANGED depotSeen
    /\ DepotSilent

ListReleases ==
    /\ drun.pc = "module"
    /\ DepotProceeds([drun EXCEPT !.pc = "putModule", !.matched = MatchingModules(drun.module)])
    /\ DepotSilent

\* Created if the cache has no Module, otherwise overwritten: the list alone, whoever
\* wrote the one there is.  A list without elements is null, which the API server rejects.
PutListedModule ==
    /\ drun.pc = "putModule" /\ drun.matched # {}
    /\ module.live => "module" \notin outdated
    /\ PutModule(drun.matched)
    /\ outdated' = IF module' = module THEN outdated ELSE outdated \cup {"module"}
    /\ DepotProceeds([drun EXCEPT !.pc = AfterModule(drun), !.matched = {}])
    /\ UNCHANGED <<providerVars, depot>>

ListProviderVersions ==
    /\ drun.pc = "provider"
    /\ DepotProceeds([drun EXCEPT !.pc = "putProvider",
                                  !.matched = MatchingCombinations(drun.provider)])
    /\ DepotSilent

PutListedProvider ==
    /\ drun.pc = "putProvider" /\ drun.matched # {}
    /\ provider.live => "provider" \notin outdated
    /\ PutProvider(drun.matched)
    /\ outdated' = IF provider' = provider THEN outdated ELSE outdated \cup {"provider"}
    /\ DepotProceeds([drun EXCEPT !.pc = "status", !.matched = {}])
    /\ UNCHANGED <<moduleVars, depot>>

Managed(r) ==
    (IF r.module # None THEN {"module"} ELSE {}) \cup
    (IF r.provider # None THEN {"provider"} ELSE {})

\* Mutant of WriteDepotStatus: the interval is not looked at.
WriteDepotStatusOnce ==
    /\ drun.pc = "status"
    /\ "depot" \notin outdated
    /\ depot' = [depot EXCEPT !.managed = Managed(drun)]
    /\ outdated' = IF depot' = depot THEN outdated ELSE outdated \cup {"depot"}
    /\ drun' = NoDepotPass
    /\ UNCHANGED <<vars, ownerCache, moduleVars, providerVars, depotSeen, depotQueued>>

\* The pass ends with the status, and comes back after the polling interval.  Whether
\* there is one is taken from the Depot as it is by now.
WriteDepotStatus ==
    /\ drun.pc = "status"
    /\ "depot" \notin outdated
    /\ depot' = [depot EXCEPT !.managed = Managed(drun)]
    /\ outdated' = IF depot' = depot THEN outdated ELSE outdated \cup {"depot"}
    /\ drun' = NoDepotPass
    /\ depotQueued' = (depotQueued \/ depot.polling)
    /\ UNCHANGED <<vars, ownerCache, moduleVars, providerVars, depotSeen>>

\* An entry without a match, a conflict, an upstream that does not answer: the pass ends
\* with an error, and is retried from the start.
AbortDepot ==
    /\ drun.pc # "idle"
    /\ drun' = NoDepotPass
    /\ depotQueued' = TRUE
    /\ UNCHANGED depotSeen
    /\ DepotSilent

DoomedDepot == drun.pc \in {"putModule", "putProvider"} /\ drun.matched = {}

DepotStep ==
    \/ StartDepot \/ ListReleases \/ PutListedModule
    \/ ListProviderVersions \/ PutListedProvider \/ WriteDepotStatus

----------------------------------------------------------------------------
(***************************************************************************)
(* Around the reconciler.  Every event of the Depot queues it, that of its *)
(* own status write included; those of Modules and Providers do not.       *)
(***************************************************************************)
DeliverDepot ==
    /\ "depot" \in outdated
    /\ depotSeen' = depot
    /\ depotQueued' = TRUE
    /\ outdated' = outdated \ {"depot"}
    /\ UNCHANGED <<vars, ownerCache, moduleVars, providerVars, depot, drun>>

DeliverToDepot ==
    /\ outdated \ {"depot"} # {}
    /\ outdated' = outdated \cap {"depot"}
    /\ UNCHANGED <<vars, ownerCache, moduleVars, providerVars, depot, depotSeen, depotQueued, drun>>

ResyncDepot ==
    /\ depotSeen.live
    /\ depotQueued' = TRUE
    /\ UNCHANGED <<vars, ownerCache, moduleVars, providerVars, depot, depotSeen, outdated, drun>>

CrashDepot ==
    /\ drun' = NoDepotPass
    /\ depotSeen' = depot
    /\ outdated' = {}
    /\ depotQueued' = depot.live
    /\ UNCHANGED <<vars, ownerCache, moduleVars, providerVars, depot>>

\* A user creates the Depot or edits its entries.
PutDepot(m, p, polling) ==
    /\ depot' = [depot EXCEPT !.live = TRUE, !.module = m, !.provider = p, !.polling = polling]
    /\ outdated' = IF depot' = depot THEN outdated ELSE outdated \cup {"depot"}
    /\ UNCHANGED <<vars, ownerCache, moduleVars, providerVars, depotSeen, depotQueued, drun>>

\* What the others do to the Module and to the Provider, the Depot's cache learns of later.
DepotAside ==
    /\ outdated' = outdated
          \cup (IF module' = module /\ ref' = ref THEN {} ELSE {"module"})
          \cup (IF provider' = provider /\ srcScan' = srcScan THEN {} ELSE {"provider"})
    /\ UNCHANGED <<depot, depotSeen, depotQueued, drun>>

----------------------------------------------------------------------------
DepotInit ==
    /\ ModuleInit /\ ProviderInit
    /\ depot = NoDepot /\ depotSeen = NoDepot
    /\ depotQueued = FALSE /\ outdated = {}
    /\ drun = NoDepotPass

\* The other three controllers, upstream, and users who go around the Depot.
OthersStep ==
    \/ (ModuleStep \/ AbortModule \/ DeliverModule \/ ResyncModule \/ CrashModule)
          /\ UNCHANGED providerVars
    \/ (ProviderStep \/ AbortProvider \/ DeliverProvider \/ CrashProvider)
          /\ UNCHANGED moduleVars
    \/ \E v \in Versions : LearnVersion(v) /\ UNCHANGED <<moduleVars, providerVars>>
    \/ \E S \in SUBSET (Modules \ Dual) : PutModule(S) /\ UNCHANGED providerVars
    \/ \E S \in SUBSET Combinations : PutProvider(S) /\ UNCHANGED moduleVars
    \/ (ForceModule /\ UNCHANGED providerVars) \/ (ForceProvider /\ UNCHANGED moduleVars)
    \/ VersionSide /\ Noticed /\ UNCHANGED moduleVars /\ ProviderAside

DepotNext ==
    \/ DepotStep \/ AbortDepot
    \/ DeliverDepot \/ DeliverToDepot \/ ResyncDepot \/ CrashDepot
    \/ \E m \in (SUBSET (Modules \ Dual)) \cup {None}, p \in (SUBSET Releases) \cup {None},
          polling \in BOOLEAN : PutDepot(m, p, polling)
    \/ OthersStep /\ DepotAside

DepotSpec == DepotInit /\ [][DepotNext]_allVars

----------------------------------------------------------------------------
(***************************************************************************)
(* Properties.                                                             *)
(***************************************************************************)
DepotTypeOK ==
    /\ ModuleTypeOK /\ ProviderTypeOK
    /\ depot \in DepotObject /\ depotSeen \in DepotObject
    /\ depotQueued \in BOOLEAN /\ outdated \subseteq {"depot", "module", "provider"}
    /\ drun \in DepotPass

\* Four controllers and their users do to Versions what VersionController says they may.
DepotIsAnOwner == Spec
=============================================================================
