--------------------------- MODULE ArtifactStore ---------------------------
(***************************************************************************)
(* The storage back ends of pkg/storage as the Version controller uses     *)
(* them.  A back end is a map from object keys to what is stored there;    *)
(* the operators below say, for one key, what a call may return or whether *)
(* it can succeed at all.  A call that panics (a nil dereference in the    *)
(* back end) is a call that never succeeds: controller-runtime recovers    *)
(* the panic and requeues, as it does for an error.                        *)
(*                                                                         *)
(* Network failures are not here: every caller may fail at any time (see   *)
(* Abort in VersionController).                                            *)
(***************************************************************************)

CONSTANTS
    None,      \* a nil pointer
    Absent,    \* nothing is stored under the key
    Torn       \* a file truncated by an unfinished write

Backends == {"fileSystem", "s3", "gcs", "azure"}

Kinds == {"module", "provider"}

\* Every remote back end reads soi.Version.Spec.ModuleConfigRef, which is nil
\* on the Versions the Provider controller creates.
DereferencesNil(backend, kind) == kind = "provider" /\ backend # "fileSystem"

(***************************************************************************)
(* GetObjectChecksum: the set of results (FileExists, ObjectChecksum) a    *)
(* call that returns nil may leave in the input.  The empty set: it always *)
(* fails.                                                                  *)
(*   fileSystem  hashes the file; a missing file is no error.              *)
(*   s3, gcs     a missing object is an error, never FileExists = FALSE.   *)
(*   azure       looks at the container, not the blob, and at a metadata   *)
(*               entry PutObject fills with a nil checksum.                *)
(***************************************************************************)
Found(sum) == [exists |-> TRUE, sum |-> sum]
Missing == [exists |-> FALSE, sum |-> None]

GetObjectChecksum(backend, kind, stored) ==
    {got \in {Found(stored), Found(None), Missing} :
        /\ ~DereferencesNil(backend, kind)
        /\ IF backend = "azure" THEN got = Found(None)
           ELSE IF stored # Absent THEN got = Found(stored)
           ELSE backend = "fileSystem" /\ got = Missing}

\* PutObject: the GCS back end dereferences soi.ArchiveChecksum, which no
\* caller sets.
CanPut(backend, kind) == ~DereferencesNil(backend, kind) /\ backend # "gcs"

\* The file system back end opens the target with O_TRUNC and copies into it:
\* until the copy ends the file is neither the old archive nor the new one.
PutTruncates(backend) == backend = "fileSystem"

\* DeleteObject: a missing object is an error on Azure only.
CanDelete(backend, kind, stored) ==
    /\ ~DereferencesNil(backend, kind)
    /\ backend = "azure" => stored # Absent
=============================================================================
