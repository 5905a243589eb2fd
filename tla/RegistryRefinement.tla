------------------------- MODULE RegistryRefinement -------------------------
(***************************************************************************)
(* The five requests of a provider's download, beside the Version          *)
(* controller, seen as one AtomicDownload.                                 *)
(*                                                                         *)
(* The moment of choice is the package metadata: from there on the client  *)
(* insists on the checksum it was promised, so the three requests in       *)
(* between and the comparison in the storage are stutters.  A module's     *)
(* conversation has no such moment (its client checks nothing) and no      *)
(* place in the abstract specification.                                    *)
(***************************************************************************)
EXTENDS RegistryServer

\* With scans that complete, what is recorded is clean.
MayBeRecorded == IF Scanning /\ ~ScansMayFail THEN Archives \ Flagged ELSE Archives

PhaseOf(pc) ==
    IF pc = "metadata" THEN "asked"
    ELSE IF pc \in {"sums", "signature", "redirect", "check", "stream"} THEN "chosen"
    ELSE IF pc = "accepted" THEN "done"
    ELSE "refused"

DownloadOf(r) ==
    IF r.want \in Providers
       THEN [pc |-> PhaseOf(r.pc), want |-> r.want, choice |-> r.promise.sum, body |-> r.body]
       ELSE [pc |-> "idle", want |-> None, choice |-> None, body |-> None]

recordedBar == [v \in Providers |-> api[v].sum]
downloadBar == [c \in Clients |-> DownloadOf(req[c])]

Atomic == INSTANCE AtomicDownload WITH
    Clean <- MayBeRecorded,
    recorded <- recordedBar,
    download <- downloadBar

\* A provider's download is one atomic read of one Version of the release asked
\* for (getProviderPackageMetadata to getObjectFromStorageSystem), of a clean
\* archive where scans complete, although it is five requests and every one of
\* them looks the Version up again.
DownloadsAreAtomic == Atomic!Spec
=============================================================================
