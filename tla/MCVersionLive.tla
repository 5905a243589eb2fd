--------------------------- MODULE MCVersionLive ---------------------------
(***************************************************************************)
(* What must eventually happen once the disturbances stop.                 *)
(*                                                                         *)
(* Fairness.  The informer delivers what it has (weak).  A key that is     *)
(* queued is taken, a worker that can go on does, and a worker that waits  *)
(* for a semaphore gets it: the work queue and the senders of a Go channel *)
(* are served in order, so being enabled again and again is enough         *)
(* (strong).  Nothing is assumed of owners, upstream, crashes, or of calls *)
(* that fail for no reason of their own.                                   *)
(***************************************************************************)
EXTENDS MCVersionBounded

Fairness ==
    /\ WF_boundedVars(DeliverRefs /\ UNCHANGED budget)
    /\ \A v \in Versions :
        /\ WF_boundedVars(Deliver(v) /\ UNCHANGED budget)
        /\ SF_boundedVars(Proceed(v) /\ UNCHANGED budget)

LiveSpec == BoundedSpec /\ Fairness

\* Someone removes what is stored, behind the registry's back, and the
\* informer's periodic resync (every 10 hours by default) eventually comes.
LossyNext ==
    \/ BoundedNext
    \/ budget > 0 /\ LoseArtifact /\ budget' = budget - 1
    \/ \E v \in Versions : Resync(v) /\ UNCHANGED budget

LossySpec ==
    /\ BoundedInit /\ [][LossyNext]_boundedVars /\ Fairness
    /\ \A v \in Versions : WF_boundedVars(Resync(v) /\ UNCHANGED budget)

\* The controller has all it needs to publish v.
Publishable(v) ==
    /\ api[v].st = "live" /\ v \notin Dual
    /\ upstream[v] # None
    /\ api[v].cfg \/ ref[v] # None

Correct(v) == Served(v) /\ api[v].file # None /\ store[api[v].file] = api[v].sum

\* Whatever happened before, a Version that can be published is in the end
\* published, for good, with its checksum and its artifact in agreement.
EventuallyPublished == \A v \in Versions : <>[](Publishable(v) => Correct(v))

\* A terminating Version does not terminate for ever: no failure leaves the
\* finalizer in place with nobody to take it off.
DeletionCompletes == \A v \in Versions : api[v].st = "deleting" ~> api[v].st # "deleting"

\* A Version with two configs is reported unsynced and then left alone: a
\* terminal status, not a retry loop.
DualSettles == \A v \in Dual : <>[](AtRest(v) /\ ~api[v].synced)

\* The controller comes to rest: what it writes does not make it run again for
\* ever.
Settles == \A v \in Versions : <>[](Publishable(v) => AtRest(v))

\* An artifact that disappears from the storage comes back.
EventuallyRestored == \A v \in Versions : []<>(Publishable(v) => Correct(v))
=============================================================================
