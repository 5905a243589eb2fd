---------------------------- MODULE VersionOwners ----------------------------
(***************************************************************************)
(* What the Module and the Provider controller share: each is a process of *)
(* its own, with an informer of its own for the Versions it owns.  A       *)
(* Module's Versions are seen by the Module controller only, a Provider's  *)
(* by the Provider controller, so one map describes both informers.        *)
(*                                                                         *)
(* Both controllers drop every event of a Version (their predicates answer *)
(* false): a Version that changes, or goes away, queues no owner.          *)
(***************************************************************************)
EXTENDS VersionController

VARIABLES
    known,       \* the Versions in their owner's cache
    versionNews  \* those with a watch event on its way to that cache

ownerCache == <<known, versionNews>>

Exists(v) == api[v].st # "absent"

\* The Versions a step gives a new resource version.
Changed == {v \in Versions : api'[v] # api[v] \/ v \in news' \ news}

\* Whoever changes a Version, its owner's informer will hear of it.
Noticed ==
    /\ versionNews' = versionNews \cup Changed
    /\ UNCHANGED known

\* An owner that writes with the copy in its cache meets a conflict, or finds
\* the Version gone, unless that copy is current.
Current(v) == v \notin versionNews

\* Mutant of Learned: a deletion goes unnoticed.
NeverForgotten(v) == known \cup {v}

Learned(v) == IF Exists(v) THEN known \cup {v} ELSE known \ {v}

LearnVersion(v) ==
    /\ v \in versionNews
    /\ known' = Learned(v)
    /\ versionNews' = versionNews \ {v}
    /\ UNCHANGED vars

\* The owner of the Versions in V is restarted: its informer lists them anew.
Relist(V) ==
    /\ known' = (known \ V) \cup {v \in V : Exists(v)}
    /\ versionNews' = versionNews \ V

(***************************************************************************)
(* What is neither an owner nor the informer of one: the Version           *)
(* controller, upstream, and a user who deletes a Version by hand.         *)
(***************************************************************************)
VersionSide ==
    \/ \E v \in Versions :
          \/ ControllerStep(v) \/ Abort(v)
          \/ Deliver(v) \/ Resync(v)
          \/ DeleteVersion(v) \/ Retag(v)
    \/ DeliverRefs
    \/ Crash

OwnersInit ==
    /\ Init
    /\ known = {} /\ versionNews = {}

OwnersTypeOK ==
    /\ known \subseteq Versions /\ versionNews \subseteq Versions
    /\ \A v \in Versions : Current(v) => (v \in known <=> Exists(v))
=============================================================================
