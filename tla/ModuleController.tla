-------------------------- MODULE ModuleController --------------------------
(***************************************************************************)
(* The Module controller: services/module/internal/controller.             *)
(*                                                                         *)
(* A Module lists versions; its controller sees to it that there is one    *)
(* Version resource for each and none besides.  One pass of Reconcile      *)
(* walks the list, creates the Versions it does not find and overwrites    *)
(* those it does, records the latest version and a file name for each in   *)
(* Module.status, and then deletes the Versions the list no longer has.    *)
(*                                                                         *)
(* The pass reads the Module up to four times, each time from a cache that *)
(* lags, and the list it walks, the list it takes the latest version from  *)
(* and the list it removes by are three different reads.  It panics where  *)
(* the list is shorter than it expects (the panic is recovered, and the    *)
(* pass retried).                                                          *)
(*                                                                         *)
(* In the model the list is a set: nothing depends on its order but the    *)
(* order of the pass, which is left open.  Not in the model: the deletion  *)
(* of the Module, entries with more than a version in them, a Module whose *)
(* moduleConfig.name is not its own, and the write of syncStatus.          *)
(***************************************************************************)
EXTENDS VersionOwners

CONSTANTS
    Order,         \* Order[v]: the place of a module's version in semver order
    HistoryLimit   \* moduleConfig.versionHistoryLimit, 0 where it is nil

ASSUME OrderType == Order \in [Modules -> Nat]
ASSUME HistoryLimitType == HistoryLimit \in Nat

\* Lists are finite.
ASSUME SomeVersionIsNewest ==
    \A S \in SUBSET Modules : S # {} =>
        \E n \in {Order[v] : v \in S} : \A v \in S : Order[v] <= n

VARIABLES
    module,        \* the Module at the API server, but for the refs (see ref)
    moduleSeen,    \* the same in the controller's cache
    moduleNews,    \* an event of the Module is on its way to the cache
    moduleQueued,  \* the Module is in the work queue
    mrun           \* the pass under way

moduleVars == <<module, moduleSeen, moduleNews, moduleQueued, mrun>>

ModuleObject ==
    [live     : BOOLEAN,
     versions : SUBSET (Modules \ Dual),   \* spec.versions
     force    : BOOLEAN,                   \* spec.forceSync
     latest   : Nat \cup {None}]           \* status.latestVersion, by its place

NoModule == [live |-> FALSE, versions |-> {}, force |-> FALSE, latest |-> None]

(***************************************************************************)
(* A pass: where it is, what it has still to handle, the version it is     *)
(* creating, and the copy of the Module in its hands.                      *)
(***************************************************************************)
Pass ==
    [pc   : {"idle", "each", "create", "status", "list", "remove"},
     todo : SUBSET (Modules \ Dual),
     at   : Modules \cup {None},
     spec : SUBSET (Modules \ Dual),
     force : BOOLEAN]

NoPass == [pc |-> "idle", todo |-> {}, at |-> None, spec |-> {}, force |-> FALSE]

\* getLatestVersion: the last of the sorted list.  It panics on an empty one.
Newest(S) == CHOOSE n \in {Order[v] : v \in S} : \A v \in S : Order[v] <= n

\* versionsToKeep slices the sorted list from len - limit.
TooShort(S) == S = {} \/ HistoryLimit > Cardinality(S)

----------------------------------------------------------------------------
(***************************************************************************)
(* Reconcile.                                                              *)
(***************************************************************************)
Proceeds(r) == mrun' = r /\ UNCHANGED <<moduleSeen, moduleQueued>>

\* Nothing changes outside the controller.
Silently == UNCHANGED <<vars, ownerCache, module, moduleNews>>

StartModule ==
    /\ moduleQueued /\ mrun.pc = "idle"
    /\ moduleQueued' = FALSE
    /\ mrun' = IF moduleSeen.live
                  THEN [NoPass EXCEPT !.pc = "each", !.todo = moduleSeen.versions,
                                      !.spec = moduleSeen.versions, !.force = moduleSeen.force]
                  ELSE NoPass
    /\ UNCHANGED moduleSeen
    /\ Silently

\* A write of the Module through the copy in the cache: with a stale one it is a
\* conflict, and retried.
WriteModule(m) ==
    /\ ~moduleNews
    /\ module' = m
    /\ moduleNews' = (m # module \/ ref' # ref)

(***************************************************************************)
(* A version of the list.  Not found in the cache: draw a name, record it, *)
(* with those of the versions before it, in the status, and only then      *)
(* create the Version.  The copy of the Module in hand is replaced on the  *)
(* way.                                                                    *)
(***************************************************************************)
NameVersion(v) ==
    /\ mrun.pc = "each" /\ v \in mrun.todo /\ v \notin known
    /\ RecordName(v) /\ ref' = Refs(hand', Modules)
    /\ WriteModule(module)
    /\ Proceeds([mrun EXCEPT !.pc = "create", !.at = v, !.todo = @ \ {v},
                             !.spec = moduleSeen.versions, !.force = moduleSeen.force])
    /\ Noticed

Created == [mrun EXCEPT !.pc = "each", !.at = None]

\* Mutant of CreateVersion: it overwrites a Version the cache has not shown yet.
CreateOver ==
    /\ mrun.pc = "create"
    /\ mrun.at \notin known
    /\ OwnerWrites(mrun.at, NewVersion(hand[mrun.at].name, FALSE))
    /\ Proceeds(Created)
    /\ Noticed
    /\ UNCHANGED <<ref, hand, module, moduleNews>>

CreateVersion ==
    /\ mrun.pc = "create"
    /\ mrun.at \notin known
    /\ CreateForModule(mrun.at)
    /\ Proceeds(Created)
    /\ Noticed
    /\ UNCHANGED <<module, moduleNews>>

\* It is there by now, or the Create fails: that is only logged.
SkipCreate ==
    /\ mrun.pc = "create"
    /\ Proceeds(Created)
    /\ Silently

\* Mutant of RewriteVersion: it does not note the name.
RewriteUnnoted(v) ==
    /\ mrun.pc = "each" /\ v \in mrun.todo /\ v \in known
    /\ Current(v) /\ Exists(v)
    /\ OwnerWrites(v, Rewritten(v, api[v]))
    /\ Proceeds([mrun EXCEPT !.todo = @ \ {v}])
    /\ Noticed
    /\ UNCHANGED <<ref, hand, module, moduleNews>>

\* Found: overwrite it, and note the name it carries.
RewriteVersion(v) ==
    /\ mrun.pc = "each" /\ v \in mrun.todo /\ v \in known
    /\ Current(v)
    /\ Rewrite(v)
    /\ Proceeds([mrun EXCEPT !.todo = @ \ {v}])
    /\ Noticed
    /\ UNCHANGED <<module, moduleNews>>

(***************************************************************************)
(* The list is done.                                                       *)
(***************************************************************************)
ListDone == mrun.pc = "each" /\ mrun.todo = {} /\ ~TooShort(mrun.spec)

\* This read leaves the copy in hand alone.
ResetForce ==
    /\ ListDone /\ mrun.force
    /\ UNCHANGED <<vars, ownerCache>>
    /\ WriteModule([module EXCEPT !.force = FALSE])
    /\ Proceeds([mrun EXCEPT !.pc = "status"])

\* The latest version is that of the copy in hand.  Then the copy is replaced: a list
\* trimmed to the history limit is lost with it.
WriteModuleStatus ==
    /\ mrun.pc = "status" \/ (ListDone /\ ~mrun.force)
    /\ RecordRefs /\ ref' = Refs(hand, Modules)
    /\ WriteModule([module EXCEPT !.latest = Newest(mrun.spec)])
    /\ Proceeds([mrun EXCEPT !.pc = "list", !.spec = moduleSeen.versions])
    /\ Noticed

(***************************************************************************)
(* ReconcileVersionRemovals.                                               *)
(***************************************************************************)
\* Mutant of Orphans: the labels the removal selects by are not those of the creation.
NoOrphans == {}

\* Mutant of Orphans: the copy in hand still has the list trimmed to the history limit.
OrphansOfTrimmed ==
    {v \in known : /\ v \in Modules \ Dual
                   /\ \/ v \notin mrun.spec
                      \/ HistoryLimit # 0
                         /\ Cardinality({w \in mrun.spec : Order[w] > Order[v]}) >= HistoryLimit}

Orphans == {v \in known : v \in Modules \ Dual /\ v \notin mrun.spec}

ListVersions ==
    /\ mrun.pc = "list"
    /\ Proceeds(IF Orphans = {} THEN NoPass ELSE [mrun EXCEPT !.pc = "remove", !.todo = Orphans])
    /\ Silently

Removed(v) ==
    IF mrun.todo = {v} THEN NoPass ELSE [mrun EXCEPT !.todo = @ \ {v}]

RemoveVersion(v) ==
    /\ mrun.pc = "remove" /\ v \in mrun.todo
    /\ DeleteVersion(v)
    /\ Proceeds(Removed(v))
    /\ Noticed
    /\ UNCHANGED <<module, moduleNews>>

\* It terminates already.
RemoveAgain(v) ==
    /\ mrun.pc = "remove" /\ v \in mrun.todo
    /\ api[v].st = "deleting"
    /\ Proceeds(Removed(v))
    /\ Silently

\* The pass ends with an error: a conflict, a Version gone when it is to be
\* deleted, an API server that does not answer, a panic.  It is retried.
\* Mutant of AbortModule: the error is logged and forgotten.
AbandonModule ==
    /\ mrun.pc # "idle"
    /\ ForgetNames
    /\ mrun' = NoPass
    /\ Noticed
    /\ UNCHANGED <<module, moduleSeen, moduleNews, moduleQueued>>

AbortModule ==
    /\ mrun.pc # "idle"
    /\ ForgetNames
    /\ mrun' = NoPass
    /\ moduleQueued' = TRUE
    /\ Noticed
    /\ UNCHANGED <<module, moduleSeen, moduleNews>>

\* The passes that end so whatever the network does.
DoomedModule ==
    \/ mrun.pc = "each" /\ mrun.todo = {} /\ TooShort(mrun.spec)
    \/ mrun.pc = "remove" /\ \E v \in mrun.todo : ~Exists(v)

ModuleStep ==
    \/ StartModule
    \/ \E v \in Modules :
          NameVersion(v) \/ RewriteVersion(v) \/ RemoveVersion(v) \/ RemoveAgain(v)
    \/ CreateVersion \/ SkipCreate
    \/ ResetForce \/ WriteModuleStatus \/ ListVersions

----------------------------------------------------------------------------
(***************************************************************************)
(* Around the reconciler.  Every event of the Module queues it, those of   *)
(* the controller's own writes included.                                   *)
(***************************************************************************)
DeliverModule ==
    /\ moduleNews
    /\ moduleSeen' = module
    /\ moduleNews' = FALSE
    /\ moduleQueued' = TRUE
    /\ UNCHANGED <<vars, ownerCache, module, mrun>>

ResyncModule ==
    /\ moduleSeen.live
    /\ moduleQueued' = TRUE
    /\ UNCHANGED <<vars, ownerCache, module, moduleSeen, moduleNews, mrun>>

CrashModule ==
    /\ ForgetNames
    /\ Relist(Modules)
    /\ mrun' = NoPass
    /\ moduleSeen' = module
    /\ moduleNews' = FALSE
    /\ moduleQueued' = module.live
    /\ UNCHANGED module

\* A user, or the Depot controller, creates the Module or replaces its list.
PutModule(S) ==
    /\ module' = [module EXCEPT !.live = TRUE, !.versions = S]
    /\ moduleNews' = (moduleNews \/ module' # module)
    /\ UNCHANGED <<vars, ownerCache, moduleSeen, moduleQueued, mrun>>

ForceModule ==
    /\ module.live /\ ~module.force
    /\ module' = [module EXCEPT !.force = TRUE]
    /\ moduleNews' = TRUE
    /\ UNCHANGED <<vars, ownerCache, moduleSeen, moduleQueued, mrun>>

----------------------------------------------------------------------------
ModuleInit ==
    /\ OwnersInit
    /\ module = NoModule /\ moduleSeen = NoModule
    /\ moduleNews = FALSE /\ moduleQueued = FALSE
    /\ mrun = NoPass

ModuleNext ==
    \/ ModuleStep \/ AbortModule
    \/ DeliverModule \/ ResyncModule \/ CrashModule
    \/ \E v \in Modules : LearnVersion(v) /\ UNCHANGED moduleVars
    \/ \E S \in SUBSET (Modules \ Dual) : PutModule(S)
    \/ ForceModule
    \/ VersionSide /\ Noticed /\ UNCHANGED moduleVars

ModuleSpec == ModuleInit /\ [][ModuleNext]_<<vars, ownerCache, moduleVars>>

----------------------------------------------------------------------------
(***************************************************************************)
(* Properties.                                                             *)
(***************************************************************************)
ModuleTypeOK ==
    /\ OwnersTypeOK
    /\ module \in ModuleObject /\ moduleSeen \in ModuleObject
    /\ moduleNews \in BOOLEAN /\ moduleQueued \in BOOLEAN
    /\ mrun \in Pass

\* Nothing will make the controller look at the Module again, short of a resync.
ModuleAtRest == mrun.pc = "idle" /\ ~moduleQueued /\ ~moduleNews

\* The latest version a Module reports at rest is the latest of its list, although
\* a pass takes it from an earlier read than the one it writes with.
LatestAtRest ==
    ModuleAtRest /\ module.live =>
        \E v \in module.versions :
            /\ module.latest = Order[v]
            /\ \A w \in module.versions : Order[w] <= Order[v]

\* The file names a Module records at rest are those of the versions it lists, no more
\* and no fewer, although every write of the status replaces all of them with those of
\* the versions a pass has come past, and a pass may end at any version.
NamesAtRest ==
    ModuleAtRest /\ module.live => \A v \in Modules : ref[v] # None <=> v \in module.versions

\* The removal deletes no Version the Module lists, whichever of the four reads of the
\* list it goes by: unless the list has changed since, and that will start another pass.
Removes(v) == mrun.pc = "remove" /\ mrun' # mrun /\ api[v].st = "live" /\ api'[v].st # "live"

RemovesOrphan(v) == Removes(v) => v \notin module.versions \/ moduleQueued \/ moduleNews

RemovesUnlisted == [][\A v \in Modules : RemovesOrphan(v)]_<<vars, ownerCache, moduleVars>>

\* The Module controller, a process with its own stale view of everything, does to
\* Versions, names and refs only what VersionController says an owner may do:
\* what is checked and proved of that module holds in this composition.
IsAnOwner == Spec
=============================================================================
