----------------------------- MODULE MCVersion -----------------------------
(***************************************************************************)
(* VersionController on small instances, for the runs that explore its     *)
(* next-state relation as it is.                                           *)
(***************************************************************************)
EXTENDS VersionInvariant, VersionClaims

\* All provider Versions are of one release.
MCRelease == [v \in Providers |-> CHOOSE r \in Releases : TRUE]
=============================================================================
