--------------------------- MODULE VersionClaims ---------------------------
(***************************************************************************)
(* What the repository's documents and comments say of the Version         *)
(* controller, stated over its model, where the code does something else.  *)
(* Each has a run that finds the counterexample.                           *)
(***************************************************************************)
EXTENDS VersionController

\* architecture.md: with immutable set, "the stored checksum always matches the
\* archive checksum.  This prevents any modification or replacement of a
\* published version."  The comparison is made with a snapshot that may predate
\* the checksum.
KeepsChecksum(v) ==
    Served(v) /\ api'[v].st = "live" /\ api[v].sum # None => api'[v].sum = api[v].sum

ImmutableChecksum == [][\A v \in Immutable : KeepsChecksum(v)]_vars

\* GetModuleArchiveFromRef tries the tag without its "v" prefix "before returning
\* an error"; the error is never returned and the answer's body is published.
OnlyReleasedArchives == \A v \in Versions : api[v].synced => api[v].sum # ErrorPage

\* scanning.md: a version with findings at a blocked severity "will remain in an
\* unsynced state [...] until the vulnerability is resolved or the policy flag is
\* relaxed".  The scan result that blocked it makes the next attempt skip the
\* scan.
SourceGate ==
    \A v \in Providers :
        Scanning /\ ~ScansMayFail /\ Served(v) => Release[v] \notin FlaggedSources
=============================================================================
