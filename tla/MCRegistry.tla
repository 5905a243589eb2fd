----------------------------- MODULE MCRegistry -----------------------------
(***************************************************************************)
(* The registry server and its clients beside a Version controller that is *)
(* disturbed at most Budget times.                                         *)
(***************************************************************************)
EXTENDS RegistryRefinement, MCVersionBounded

\* Provider Versions in the order of their names.
MCRank == CHOOSE r \in [Providers -> 1 .. Cardinality(Providers)] :
             \A v, w \in Providers : r[v] = r[w] => v = w

RegistryBoundedInit == RegistryInit /\ budget = Budget

RegistryBoundedNext ==
    \/ \E c \in Clients : ServerStep(c) /\ UNCHANGED budget
    \/ BoundedNext /\ Disturbs

RegistryBoundedSpec ==
    RegistryBoundedInit /\ [][RegistryBoundedNext]_<<boundedVars, serverVars>>
=============================================================================
