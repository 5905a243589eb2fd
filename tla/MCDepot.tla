------------------------------ MODULE MCDepot ------------------------------
(***************************************************************************)
(* A Depot, its Module and its Provider, and the four controllers together *)
(* end to end: what upstream releases and the Depot admits is published,   *)
(* and nothing else stays.                                                 *)
(*                                                                         *)
(* Users and upstream act at most UserSteps times, something fails at most *)
(* Failures times.  The Version controller is as prompt as in MCModule.    *)
(***************************************************************************)
EXTENDS DepotController, MCModule

depotPipelineVars == <<allVars, budget>>

\* Every provider Version is of a release of its own.
MCReleases == CHOOSE f \in [Providers -> Releases] :
                \A v, w \in Providers : f[v] = f[w] => v = w

----------------------------------------------------------------------------
\* A pass starts behind the informers' back only as a failure.
ProviderBehind == StartProvider /\ (providerNews # {} \/ versionNews \cap Providers # {})

\* The polling interval is long: the Depot's pass starts when the others are done, and
\* while they are not only as a failure.
EverythingQuiet == Quiet /\ ProviderAtRest /\ providerNews = {} /\ outdated = {}
DepotEarly == StartDepot /\ ~EverythingQuiet

ProviderGoesOn == (ProviderStep /\ ~ProviderBehind) \/ (DoomedProvider /\ AbortProvider)
DepotGoesOn == (DepotStep /\ ~DepotEarly) \/ (DoomedDepot /\ AbortDepot)

ModuleAlone == UNCHANGED providerVars /\ DepotAside
ProviderAlone == UNCHANGED moduleVars /\ DepotAside
VersionAlone == ProviderAside /\ DepotAside

ModuleGoesOn ==
    \/ ModuleProceeds /\ ModuleAlone
    \/ DeliverModule /\ ModuleAlone
    \/ DeliverRefs /\ Aside /\ VersionAlone
    \/ \E v \in Modules : LearnVersion(v) /\ UNCHANGED moduleVars /\ ModuleAlone

\* The Module and the Provider controller share nothing but the Version controller: one
\* order of their steps stands for all.
ModuleDone == ModuleAtRest /\ seen = ref /\ versionNews \cap Modules = {}

ProviderSide ==
    \/ (ProviderGoesOn \/ DeliverProvider) /\ ProviderAlone
    \/ \E v \in Providers : LearnVersion(v) /\ UNCHANGED moduleVars /\ ModuleAlone

DepotSystemStep ==
    \/ VersionProceeds /\ VersionAlone
    \/ VersionDelivers /\ VersionAlone
    \/ Urgent = {} /\ ModuleGoesOn
    \/ Urgent = {} /\ ModuleDone /\ ProviderSide
    \/ Urgent = {} /\ (DepotGoesOn \/ DeliverDepot \/ DeliverToDepot)

\* A user narrows the Depot to one release, or goes around it; upstream withdraws a
\* release.  It does not matter which one.
OneRelease == CHOOSE r \in Releases : TRUE

DepotUserStep ==
    \/ PutDepot(depot.module, {OneRelease}, TRUE)
    \/ PutProvider({}) /\ ProviderAlone
    \/ ForceProvider /\ ProviderAlone
    \/ \E v \in Modules \cup {w \in Providers : Release[w] = OneRelease} :
          Retag(v) /\ Aside /\ VersionAlone

DepotFailure ==
    \/ AbortProvider /\ ~DoomedProvider /\ ProviderAlone
    \/ ProviderBehind /\ ProviderAlone
    \/ CrashProvider /\ ProviderAlone
    \/ AbortDepot /\ ~DoomedDepot
    \/ DepotEarly \/ CrashDepot

\* A user has just created the Depot.  Then either users or failures disturb it.
DepotPipelineInit ==
    /\ ModuleInit /\ ProviderInit
    /\ \A v \in Versions : upstream[v] # None
    /\ depot = [NoDepot EXCEPT !.live = TRUE, !.module = Modules \ Dual,
                               !.provider = Releases, !.polling = TRUE]
    /\ depotSeen = NoDepot
    /\ depotQueued = FALSE /\ outdated = {"depot"}
    /\ drun = NoDepotPass
    /\ budget \in {[user |-> UserSteps, failures |-> 0], [user |-> 0, failures |-> Failures]}

DepotPipelineNext ==
    /\ \/ DepotSystemStep /\ UNCHANGED budget
       \/ Urgent = {} /\ ModuleDone /\ budget.user > 0 /\ DepotUserStep
             /\ budget' = [budget EXCEPT !.user = @ - 1]
       \/ Urgent = {} /\ budget.failures > 0 /\ DepotFailure
             /\ budget' = [budget EXCEPT !.failures = @ - 1]
    /\ InOrder

DepotPipelineSpec ==
    /\ DepotPipelineInit /\ [][DepotPipelineNext]_depotPipelineVars
    /\ WF_depotPipelineVars(DepotSystemStep /\ UNCHANGED budget)

----------------------------------------------------------------------------
\* The Depot polls, and each of its entries matches something: a pass gets through.
Discoverable ==
    /\ depot.live /\ depot.polling
    /\ MatchingModules(depot.module) # {} /\ MatchingCombinations(depot.provider) # {}

Admitted(v) ==
    v \in MatchingModules(depot.module) \cup MatchingCombinations(depot.provider)

\* In the end the lists are what the Depot admits of what upstream has, whoever wrote
\* them last (the Depot's Reconcile; docs/guides/depot.md, steps 1 to 3 and 6).
ListsFollowDepot ==
    <>[](Discoverable => /\ module.versions = MatchingModules(depot.module)
                        /\ provider.wanted = MatchingCombinations(depot.provider))

\* And what is released is published (steps 4 and 5, all four controllers).
ReleasedIsPublished ==
    \A v \in Versions :
       []<>(Discoverable /\ Admitted(v) => Correct(v))

\* Where nobody edits a Provider while its controller fails or looks away, and a Version
\* that is deleted is gone at once, the Versions follow the Provider (its Reconcile and
\* ReconcileVersionRemovals).  ListedCombinationsExist says what happens where it is not.
VersionsFollowProvider ==
    <>[](provider.live => \A v \in Combinations : Exists(v) <=> v \in provider.wanted)
=============================================================================
