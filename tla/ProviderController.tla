------------------------- MODULE ProviderController -------------------------
(***************************************************************************)
(* The Provider controller: services/provider/internal/controller.         *)
(*                                                                         *)
(* A Provider lists releases, operating systems and architectures; its     *)
(* controller sees to it that there is one Version resource for each       *)
(* combination and none besides.  One pass of Reconcile creates or         *)
(* overwrites them one by one, records them in Provider.status, and then   *)
(* deletes the Versions of the Provider that are none of them.             *)
(*                                                                         *)
(* Unlike the Module controller it works from one read of the Provider, it *)
(* gives up at the first error, and it only ever looks again when the spec *)
(* changes: its predicate drops every event that leaves the generation     *)
(* alone, its own status write and the periodic resync among them.         *)
(*                                                                         *)
(* Not in the model: the deletion of the Provider, a Provider without an   *)
(* operating system or an architecture (every pass fails), and what the    *)
(* status says besides the Versions and the source scan.                   *)
(***************************************************************************)
EXTENDS VersionOwners

VARIABLES
    provider,       \* the Provider at the API server, but for sourceScan (see srcScan)
    providerSeen,   \* the same in the controller's cache
    providerNews,   \* what has changed that the cache does not show: "spec", "status"
    providerQueued, \* the Provider is in the work queue
    prun            \* the pass under way

providerVars == <<provider, providerSeen, providerNews, providerQueued, prun>>

Combinations == Providers \ Dual

ProviderObject ==
    [live   : BOOLEAN,
     wanted : SUBSET Combinations,   \* spec: versions x operatingSystems x architectures
     force  : BOOLEAN,               \* spec.forceSync
     refs   : SUBSET Combinations]   \* status.providerVersionRefs

NoProvider == [live |-> FALSE, wanted |-> {}, force |-> FALSE, refs |-> {}]

ProviderPass ==
    [pc     : {"idle", "each", "status", "list", "remove"},
     todo   : SUBSET Combinations,
     wanted : SUBSET Combinations,
     force  : BOOLEAN]

NoProviderPass == [pc |-> "idle", todo |-> {}, wanted |-> {}, force |-> FALSE]

----------------------------------------------------------------------------
(***************************************************************************)
(* Reconcile.                                                              *)
(***************************************************************************)
ProviderProceeds(r) == prun' = r /\ UNCHANGED <<providerSeen, providerQueued>>

ProviderSilent == UNCHANGED <<vars, ownerCache, provider, providerNews>>

ReadProvider ==
    [pc |-> "each", todo |-> providerSeen.wanted, wanted |-> providerSeen.wanted,
     force |-> providerSeen.force]

StartProvider ==
    /\ providerQueued /\ prun.pc = "idle"
    /\ providerQueued' = FALSE
    /\ prun' = IF providerSeen.live THEN ReadProvider ELSE NoProviderPass
    /\ UNCHANGED providerSeen
    /\ ProviderSilent

\* Not in the cache: create it, with the whole config and no file name.
CreateCombination(v) ==
    /\ prun.pc = "each" /\ v \in prun.todo /\ v \notin known
    /\ CreateWithConfig(v)
    /\ ProviderProceeds([prun EXCEPT !.todo = @ \ {v}])
    /\ Noticed
    /\ UNCHANGED <<provider, providerNews>>

\* Mutant of RewriteCombination: the file name is not carried over.
RewriteWithoutName(v) ==
    /\ prun.pc = "each" /\ v \in prun.todo /\ v \in known
    /\ Current(v)
    /\ OwnerWrites(v, Settle([api[v] EXCEPT !.fin = FALSE, !.cfg = TRUE, !.file = None]))
    /\ UNCHANGED <<ref, hand>>
    /\ ProviderProceeds([prun EXCEPT !.todo = @ \ {v}])
    /\ Noticed
    /\ UNCHANGED <<provider, providerNews>>

\* In the cache: overwrite it, but for the file name; its finalizer goes.
RewriteCombination(v) ==
    /\ prun.pc = "each" /\ v \in prun.todo /\ v \in known
    /\ Current(v)
    /\ Rewrite(v)
    /\ ProviderProceeds([prun EXCEPT !.todo = @ \ {v}])
    /\ Noticed
    /\ UNCHANGED <<provider, providerNews>>

CombinationsDone == prun.pc = "each" /\ prun.todo = {}

\* Reads the Provider anew and writes it, again and again while there is a conflict.
WriteProvider(p, what) ==
    /\ providerNews = {}
    /\ provider' = p
    /\ providerNews' = IF p = provider THEN {} ELSE {what}
    /\ UNCHANGED <<vars, ownerCache>>

ResetProviderForce ==
    /\ CombinationsDone /\ prun.force
    /\ WriteProvider([provider EXCEPT !.force = FALSE], "spec")
    /\ ProviderProceeds([prun EXCEPT !.pc = "status"])

\* What it records is what the first read listed.
WriteProviderStatus ==
    /\ prun.pc = "status" \/ (CombinationsDone /\ ~prun.force)
    /\ WriteProvider([provider EXCEPT !.refs = prun.wanted], "status")
    /\ ProviderProceeds([prun EXCEPT !.pc = "list"])

(***************************************************************************)
(* ReconcileVersionRemovals.                                               *)
(***************************************************************************)
\* Mutant of StaleCombinations: what the new list does not have is not looked for.
NothingStale == {}

\* Another: it goes by what the copy in the cache reports.
StaleByStatus == {v \in known \cap Combinations : v \notin providerSeen.refs}

StaleCombinations == {v \in known \cap Combinations : v \notin prun.wanted}

ListCombinations ==
    /\ prun.pc = "list"
    /\ ProviderProceeds(IF StaleCombinations = {} THEN NoProviderPass
                        ELSE [prun EXCEPT !.pc = "remove", !.todo = StaleCombinations])
    /\ ProviderSilent

AfterRemoval(v) ==
    IF prun.todo = {v} THEN NoProviderPass ELSE [prun EXCEPT !.todo = @ \ {v}]

RemoveCombination(v) ==
    /\ prun.pc = "remove" /\ v \in prun.todo
    /\ DeleteVersion(v)
    /\ ProviderProceeds(AfterRemoval(v))
    /\ Noticed
    /\ UNCHANGED <<provider, providerNews>>

\* It terminates already.
RemoveCombinationAgain(v) ==
    /\ prun.pc = "remove" /\ v \in prun.todo
    /\ api[v].st = "deleting"
    /\ ProviderProceeds(AfterRemoval(v))
    /\ ProviderSilent

\* Mutant of AbortProvider: the error is swallowed.
AbandonProvider ==
    /\ prun.pc # "idle"
    /\ prun' = NoProviderPass
    /\ UNCHANGED <<providerSeen, providerQueued>>
    /\ ProviderSilent

\* Any error ends the pass, and it is retried from the start.
AbortProvider ==
    /\ prun.pc # "idle"
    /\ prun' = NoProviderPass
    /\ providerQueued' = TRUE
    /\ UNCHANGED providerSeen
    /\ ProviderSilent

\* The passes that end so whatever the network does: the cache is behind, and the
\* Version is there already, has changed, or is gone.
DoomedProvider ==
    \/ prun.pc = "each" /\ \E v \in prun.todo :
          (v \notin known /\ Exists(v)) \/ (v \in known /\ ~Current(v))
    \/ prun.pc = "remove" /\ \E v \in prun.todo : ~Exists(v)

ProviderStep ==
    \/ StartProvider
    \/ \E v \in Combinations :
          \/ CreateCombination(v) \/ RewriteCombination(v)
          \/ RemoveCombination(v) \/ RemoveCombinationAgain(v)
    \/ ResetProviderForce \/ WriteProviderStatus \/ ListCombinations

----------------------------------------------------------------------------
(***************************************************************************)
(* Around the reconciler.  GenerationChangedPredicate: an update queues    *)
(* the Provider only if the spec changed since the copy in the cache.      *)
(***************************************************************************)
\* Mutant of QueuedBy: no update queues the Provider.
QueuedByNothing(what) == FALSE

QueuedBy(what) == "spec" \in what

DeliverProvider ==
    /\ providerNews # {}
    /\ providerSeen' = provider
    /\ providerNews' = {}
    /\ providerQueued' = (providerQueued \/ QueuedBy(providerNews))
    /\ UNCHANGED <<vars, ownerCache, provider, prun>>

CrashProvider ==
    /\ Relist(Providers)
    /\ prun' = NoProviderPass
    /\ providerSeen' = provider
    /\ providerNews' = {}
    /\ providerQueued' = provider.live
    /\ UNCHANGED <<vars, provider>>

\* A user, or the Depot controller, creates the Provider or replaces its lists.
PutProvider(S) ==
    /\ provider' = [provider EXCEPT !.live = TRUE, !.wanted = S]
    /\ providerNews' = IF provider' = provider THEN providerNews ELSE providerNews \cup {"spec"}
    /\ UNCHANGED <<vars, ownerCache, providerSeen, providerQueued, prun>>

ForceProvider ==
    /\ provider.live /\ ~provider.force
    /\ provider' = [provider EXCEPT !.force = TRUE]
    /\ providerNews' = providerNews \cup {"spec"}
    /\ UNCHANGED <<vars, ownerCache, providerSeen, providerQueued, prun>>

\* The Version controller writes the source scan into the status of the Provider.
ProviderAside ==
    /\ providerNews' = IF srcScan' = srcScan THEN providerNews ELSE providerNews \cup {"status"}
    /\ UNCHANGED <<provider, providerSeen, providerQueued, prun>>

----------------------------------------------------------------------------
ProviderInit ==
    /\ OwnersInit
    /\ provider = NoProvider /\ providerSeen = NoProvider
    /\ providerNews = {} /\ providerQueued = FALSE
    /\ prun = NoProviderPass

ProviderNext ==
    \/ ProviderStep \/ AbortProvider
    \/ DeliverProvider \/ CrashProvider
    \/ \E v \in Providers : LearnVersion(v) /\ UNCHANGED providerVars
    \/ \E S \in SUBSET Combinations : PutProvider(S)
    \/ ForceProvider
    \/ VersionSide /\ Noticed /\ ProviderAside

ProviderSpec == ProviderInit /\ [][ProviderNext]_<<vars, ownerCache, providerVars>>

----------------------------------------------------------------------------
(***************************************************************************)
(* Properties.                                                             *)
(***************************************************************************)
ProviderTypeOK ==
    /\ OwnersTypeOK
    /\ provider \in ProviderObject /\ providerSeen \in ProviderObject
    /\ providerNews \subseteq {"spec", "status"} /\ providerQueued \in BOOLEAN
    /\ prun \in ProviderPass

\* Only a change of the spec, or a restart, makes the controller look again.
ProviderAtRest == prun.pc = "idle" /\ ~providerQueued /\ "spec" \notin providerNews

\* The Versions a Provider reports at rest are those its spec asks for, although a pass
\* takes them from an earlier read than the one it writes with, the write of a pass is
\* not announced to anyone, and no resync repairs it.
RefsAtRest == ProviderAtRest /\ provider.live => provider.refs = provider.wanted

\* The removal deletes no Version the Provider's spec asks for: unless the spec has changed
\* since, and that will start another pass.  It goes by the first read of the pass, and an
\* event that leaves the spec alone starts none.
RemovesCombination(v) ==
    prun.pc = "remove" /\ prun' # prun /\ api[v].st = "live" /\ api'[v].st # "live"

RemovesStale(v) ==
    RemovesCombination(v) =>
        v \notin provider.wanted \/ providerQueued \/ "spec" \in providerNews

RemovesUnwanted == [][\A v \in Combinations : RemovesStale(v)]_<<vars, ownerCache, providerVars>>

\* The Provider controller does to Versions only what VersionController says an owner may.
ProviderIsAnOwner == Spec
=============================================================================
