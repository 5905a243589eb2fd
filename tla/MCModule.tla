------------------------------ MODULE MCModule ------------------------------
(***************************************************************************)
(* The Module controller and the Version controller together, end to end:  *)
(* what a user lists is published, what he no longer lists goes away.      *)
(*                                                                         *)
(* A user acts at most UserSteps times and something fails at most         *)
(* Failures times, at any moment.  The Version controller and its informer *)
(* are prompt: they finish what they have to do, one Version after the     *)
(* other, before the Module controller goes on.  What they do when they    *)
(* are slow is the matter of the runs of VersionController, where owners   *)
(* act at any time.                                                        *)
(***************************************************************************)
EXTENDS ModuleController, TLC

CONSTANTS UserSteps, Failures
ASSUME BudgetType == UserSteps \in Nat /\ Failures \in Nat

VARIABLE budget

MCRelease == [v \in Providers |-> CHOOSE r \in Releases : TRUE]
MCOrder == CHOOSE o \in [Modules -> 1 .. Cardinality(Modules)] :
              \A v, w \in Modules : o[v] = o[w] => v = w

pipelineVars == <<vars, ownerCache, moduleVars, budget>>

----------------------------------------------------------------------------
\* Here a Create fails only as a failure.
CreateRefused == SkipCreate /\ mrun.at \notin known /\ ~Exists(mrun.at)

\* And a pass starts behind the informers' back only as a failure.
StartBehind == StartModule /\ (moduleNews \/ versionNews \cap Modules # {} \/ seen # ref)

ModuleProceeds ==
    \/ ModuleStep /\ ~CreateRefused /\ ~StartBehind
    \/ DoomedModule /\ AbortModule

Aside == Noticed /\ UNCHANGED moduleVars

UserStep ==
    \/ \E S \in SUBSET (Modules \ Dual) : module.versions # S /\ PutModule(S)
    \/ \E v \in Versions : DeleteVersion(v) /\ Aside
    \/ ForceModule

Failure ==
    \/ AbortModule /\ ~DoomedModule
    \/ CreateRefused \/ StartBehind
    \/ CrashModule

----------------------------------------------------------------------------
\* The runs of a Version without a config whose Module has no ref for it, or of a release
\* that is not there any more, fail without effect.  They are left out until that changes.
Waits(v) ==
    /\ cache[v].st = "live" /\ cache[v].fin
    /\ IF v \in Modules THEN ~cache[v].cfg /\ seen[v] = None ELSE upstream[v] = None

\* The Versions the Version controller or its informer has to do with now.
Urgent == Busy \cup news \cup {v \in queued : ~Waits(v)}
First == CHOOSE v \in IF Busy # {} THEN Busy ELSE Urgent : TRUE

VersionProceeds ==
    /\ Urgent # {} /\ (First \in news => First \in Busy)
    /\ ControllerStep(First) \/ (Doomed(First) /\ Abort(First))
    /\ Aside

VersionDelivers == Urgent # {} /\ Deliver(First) /\ Aside

\* The periodic resync comes every 10 hours: long after everything is done.
Quiet == Urgent = {} /\ ModuleAtRest /\ versionNews = {}

LateResync == Quiet /\ ResyncModule

ModuleSide ==
    /\ Urgent = {}
    /\ \/ ModuleProceeds \/ DeliverModule \/ LateResync
       \/ DeliverRefs /\ Aside
       \/ \E v \in Modules : LearnVersion(v) /\ UNCHANGED moduleVars

SystemStep == VersionProceeds \/ VersionDelivers \/ ModuleSide

\* UUIDs are interchangeable: they are drawn in a fixed order.
InOrder ==
    \A v \in Versions : hand'[v].name \in Unused => hand'[v].name = CHOOSE f \in Unused : TRUE

\* A user has just created the Module, and upstream has what it lists.
PipelineInit ==
    /\ OwnersInit
    /\ \A v \in Versions : upstream[v] # None
    /\ module = [NoModule EXCEPT !.live = TRUE, !.versions = Modules \ Dual]
    /\ moduleSeen = NoModule
    /\ moduleNews = TRUE /\ moduleQueued = FALSE
    /\ mrun = NoPass
    /\ budget = [user |-> UserSteps, failures |-> Failures]

PipelineNext ==
    /\ \/ SystemStep /\ UNCHANGED budget
       \/ Urgent = {} /\ budget.user > 0 /\ UserStep /\ budget' = [budget EXCEPT !.user = @ - 1]
       \/ Urgent = {} /\ budget.failures > 0 /\ Failure /\ budget' = [budget EXCEPT !.failures = @ - 1]
    /\ InOrder

\* Every worker goes on, every event and every retry comes in the end; neither the user
\* nor a failure has to.
PipelineSpec ==
    /\ PipelineInit /\ [][PipelineNext]_pipelineVars
    /\ WF_pipelineVars(SystemStep /\ UNCHANGED budget)

----------------------------------------------------------------------------
\* The list is one the controller can work on.
Workable == module.live /\ ~TooShort(module.versions)

Correct(v) == Served(v) /\ api[v].file # None /\ store[api[v].file] = api[v].sum

\* The versions of a list that versionHistoryLimit keeps: the newest ones.
Kept(S) ==
    {v \in S : HistoryLimit # 0 => Cardinality({w \in S : Order[w] > Order[v]}) < HistoryLimit}

\* Whatever happened, in the end there is a Version for each kept version of the list and
\* none for what is not listed (Reconcile and ReconcileVersionRemovals together).  Nothing
\* is said of a listed version beyond the limit: docs/guides/cicd.md:138 has it pruned,
\* the code keeps it.
VersionsFollowModule ==
    <>[](Workable => \A v \in Modules \ Dual :
            /\ v \in Kept(module.versions) => api[v].st = "live"
            /\ v \notin module.versions => ~Exists(v))

\* And each listed version is published, again and again if it does not stay so: a pass of
\* the Module controller takes the finalizer and the config off it.  The code does so for
\* the versions beyond the limit too, which are never taken from the object.
ListedIsPublished ==
    \A v \in Modules \ Dual : []<>(Workable /\ v \in module.versions => Correct(v))

\* docs/guides/cicd.md:101 calls the controller idempotent: "it won't re-create versions
\* that already exist".  What is published would then stay where it is in the end.
NamesSettle ==
    \A v \in Modules \ Dual :
        \E f \in FileNames : <>[](Workable /\ v \in module.versions => api[v].file = f)
=============================================================================
