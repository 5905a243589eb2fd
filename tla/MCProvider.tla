----------------------------- MODULE MCProvider -----------------------------
(***************************************************************************)
(* The Provider controller beside a Version controller that takes its      *)
(* time: both, and the informers of both, go on at their own pace, every   *)
(* one of them fairly, and nothing fails.  A user edits the Provider at    *)
(* most Budget times.                                                      *)
(***************************************************************************)
EXTENDS ProviderController, MCVersionLive

providerRunVars == <<boundedVars, ownerCache, providerVars>>

VersionActs(A) == A /\ Noticed /\ ProviderAside /\ UNCHANGED budget
ProviderActs(A) == A /\ UNCHANGED budget

ProviderGoesOn == ProviderStep \/ (DoomedProvider /\ AbortProvider)
Learn(v) == LearnVersion(v) /\ UNCHANGED providerVars

\* A user has just created the Provider.
ProviderRunInit ==
    /\ OwnersInit
    /\ \A v \in Versions : upstream[v] # None
    /\ provider = [NoProvider EXCEPT !.live = TRUE, !.wanted = Combinations]
    /\ providerSeen = NoProvider
    /\ providerNews = {"spec"} /\ providerQueued = FALSE
    /\ prun = NoProviderPass
    /\ budget = Budget

ProviderRunNext ==
    \/ \E v \in Versions :
          \/ VersionActs(Proceed(v)) \/ VersionActs(Deliver(v))
          \/ ProviderActs(Learn(v))
    \/ ProviderActs(ProviderGoesOn) \/ ProviderActs(DeliverProvider)
    \/ /\ budget > 0 /\ budget' = budget - 1
       /\ \E S \in SUBSET Combinations : S # provider.wanted /\ PutProvider(S)

ProviderRunSpec ==
    /\ ProviderRunInit /\ [][ProviderRunNext]_providerRunVars
    /\ WF_providerRunVars(ProviderActs(ProviderGoesOn))
    /\ WF_providerRunVars(ProviderActs(DeliverProvider))
    /\ \A v \in Versions :
          /\ SF_providerRunVars(VersionActs(Proceed(v)))
          /\ WF_providerRunVars(VersionActs(Deliver(v)))
          /\ WF_providerRunVars(ProviderActs(Learn(v)))

\* docs/architecture.md:64: "For each version in Provider.spec.versions, the Provider
\* controller creates a Version resource for every OS/architecture combination".
ListedCombinationsExist ==
    \A v \in Combinations : <>[](provider.live /\ v \in provider.wanted => Exists(v))
=============================================================================
