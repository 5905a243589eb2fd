-------------------------- MODULE MCVersionBounded --------------------------
(***************************************************************************)
(* VersionController with a bound on what disturbs it.  The controller and *)
(* the informer run freely, and fairly; owners, upstream, failures and     *)
(* restarts together act at most Budget times.  Two Versions at once, and  *)
(* the liveness properties, are checked here.                              *)
(***************************************************************************)
EXTENDS VersionInvariant, VersionClaims, TLC

CONSTANT Budget
ASSUME BudgetType == Budget \in Nat

VARIABLE budget

boundedVars == <<vars, budget>>

MCRelease == [v \in Providers |-> CHOOSE r \in Releases : TRUE]

\* UUIDs are interchangeable.
NamesAlike == Permutations(FileNames)

\* What the controller does by itself, the failures it cannot avoid included.
Proceed(v) == ControllerStep(v) \/ (Doomed(v) /\ Abort(v))

\* Someone removes or damages what is stored, behind the registry's back.
LoseArtifact ==
    /\ \E f \in FileNames :
          /\ store[f] # Absent
          /\ store' = [store EXCEPT ![f] = Absent]
    /\ UNCHANGED <<objects, queued, run, fresh, outside, sems, srcScan>>

Disturb ==
    \/ \E v \in Versions : (Abort(v) /\ ~Doomed(v)) \/ Resync(v) \/ OwnerStep(v) \/ Retag(v)
    \/ RecordRefs \/ ForgetNames
    \/ Crash

BoundedNext ==
    \/ \E v \in Versions : (Proceed(v) \/ Deliver(v)) /\ UNCHANGED budget
    \/ DeliverRefs /\ UNCHANGED budget
    \/ budget > 0 /\ Disturb /\ budget' = budget - 1

BoundedInit == Init /\ budget = Budget

BoundedSpec == BoundedInit /\ [][BoundedNext]_boundedVars
=============================================================================
