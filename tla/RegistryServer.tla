--------------------------- MODULE RegistryServer ---------------------------
(***************************************************************************)
(* The registry server: services/server, the read side.                    *)
(*                                                                         *)
(* The server keeps nothing.  A download is a conversation of up to five   *)
(* requests; each reads the Version at the API server, or the object in    *)
(* the storage, as it is at that moment, while the Version controller      *)
(* works on both.  What holds a conversation together is what the client   *)
(* carries from one answer to the next.                                    *)
(*                                                                         *)
(*   module     getDownloadModuleUrl, then the object                      *)
(*   provider   getProviderVersions, getProviderPackageMetadata,           *)
(*              getProviderPackageSHA256SUMS and its signature,            *)
(*              serveProviderPackageDownload, then the object              *)
(*                                                                         *)
(* A provider's client (OpenTofu) checks what it gets against the signed   *)
(* checksums; a module's client relies on the server.                      *)
(*                                                                         *)
(* Not in the model: authentication and the GPG key itself, other          *)
(* namespaces, and answers lost on the way: a client may turn away at any  *)
(* time (Leave).                                                           *)
(***************************************************************************)
EXTENDS VersionController

CONSTANTS
    Clients,
    Rank       \* Rank[v]: the place of v in a list of Versions, which is by name

ASSUME RankType == Rank \in [Providers -> Nat]
ASSUME RankIsOrder == \A v, w \in Providers : Rank[v] = Rank[w] => v = w
ASSUME NoDual == Dual = {}     \* a Version with both references would be in both lists

VARIABLES
    req,    \* req[c]: the conversation of client c
    calm    \* history: the conversations with a controller at rest all along

serverVars == <<req, calm>>

----------------------------------------------------------------------------
(***************************************************************************)
(* What the server tells about a Version: spec.fileName and                *)
(* status.checksum.  In a client's hands: what the metadata promised, the  *)
(* line of SHA256SUMS, and the URL of the object with its fileChecksum.    *)
(***************************************************************************)
Entry == [file : FileNames \cup {None}, sum : Archives \cup {None}]
NoEntry == [file |-> None, sum |-> None]
EntryOf(v) == [file |-> api[v].file, sum |-> api[v].sum]

Conversation ==
    [pc      : {"idle", "metadata", "sums", "signature", "redirect",
                "url", "check", "stream", "accepted", "refused"},
     want    : Versions \cup {None},      \* what the client is for
     promise : Entry,
     line    : Entry,
     link    : Entry,
     body    : Archives \cup {Torn, None}]

\* A conversation with nothing told in it.
Opening(pc, v) ==
    [pc |-> pc, want |-> v, promise |-> NoEntry, line |-> NoEntry, link |-> NoEntry,
     body |-> None]

Silence == Opening("idle", None)

\* An answer takes the conversation to r; an error ends it.
Answer(c, r) ==
    /\ req' = [req EXCEPT ![c] = r]
    /\ UNCHANGED <<vars, calm>>

Refuse(c) == Answer(c, Opening("refused", req[c].want))

Exists(v) == api[v].st # "absent"

\* The handlers dereference or test both fields, none looks at status.synced.
Told(v) == api[v].file # None /\ api[v].sum # None

\* The path of the object, in the URL the client is sent to.  For S3 it is made of
\* the configured key alone, for Azure it lacks the directory the Version
\* controller put in the blob's name: both lead to no object.
Addressable == {"fileSystem", "gcs"}

CanLink(v) == HasPath(api[v]) /\ Told(v) /\ Backend \in Addressable

----------------------------------------------------------------------------
(***************************************************************************)
(* Clients.                                                                *)
(***************************************************************************)
AllAtRest == \A v \in Versions : AtRest(v)

Ask(c, v, pc) ==
    /\ req[c].pc = "idle"
    /\ req' = [req EXCEPT ![c] = Opening(pc, v)]
    /\ calm' = IF AllAtRest THEN calm \cup {c} ELSE calm \ {c}
    /\ UNCHANGED vars

\* The versions of a module are those of the Module's spec.
AskModule(c) == \E v \in Modules : Ask(c, v, "url")

\* The versions of a provider are those of the Versions there are, for whatever
\* platform and in whatever state.
Listed == {Release[w] : w \in {x \in Providers : Exists(x)}}

AskProvider(c) ==
    \E v \in Providers : Release[v] \in Listed /\ Ask(c, v, "metadata")

Leave(c) ==
    /\ req[c].pc # "idle"
    /\ Answer(c, Silence)

----------------------------------------------------------------------------
(***************************************************************************)
(* Module: one answer with the URL of the object.                          *)
(***************************************************************************)
GetDownloadModuleUrl(c) ==
    LET v == req[c].want
    IN  /\ req[c].pc = "url"
        /\ IF Exists(v) /\ CanLink(v)
              THEN Answer(c, [req[c] EXCEPT !.pc = "check", !.link = EntryOf(v)])
              ELSE Refuse(c)

(***************************************************************************)
(* Provider: each request looks the Version up again, by release: the      *)
(* first in the list, whatever its platform.                               *)
(***************************************************************************)
Lookup(v) ==
    LET found == {w \in Providers : Release[w] = Release[v] /\ Exists(w)}
    IN  {w \in found : \A x \in found : Rank[w] <= Rank[x]}

GetProviderPackageMetadata(c) ==
    /\ req[c].pc = "metadata"
    /\ \/ \E w \in Lookup(req[c].want) :
             /\ Told(w)
             /\ Answer(c, [req[c] EXCEPT !.pc = "sums", !.promise = EntryOf(w)])
       \/ /\ \A w \in Lookup(req[c].want) : ~Told(w)
          /\ Refuse(c)

GetProviderPackageSHA256SUMS(c) ==
    /\ req[c].pc = "sums"
    /\ \/ \E w \in Lookup(req[c].want) :
             /\ Told(w)
             /\ Answer(c, [req[c] EXCEPT !.pc = "signature", !.line = EntryOf(w)])
       \/ /\ \A w \in Lookup(req[c].want) : ~Told(w)
          /\ Refuse(c)

\* The signature is over the text as it would be now.  The client compares it
\* with the text it has, and the text with what the metadata promised.
Signed(c, w) == Told(w) /\ EntryOf(w) = req[c].line /\ req[c].line = req[c].promise

GetProviderPackageSHA256SUMSSignature(c) ==
    /\ req[c].pc = "signature"
    /\ \/ \E w \in Lookup(req[c].want) :
             /\ Signed(c, w)
             /\ Answer(c, [req[c] EXCEPT !.pc = "redirect"])
       \/ /\ \A w \in Lookup(req[c].want) : ~Signed(c, w)
          /\ Refuse(c)

ServeProviderPackageDownload(c) ==
    /\ req[c].pc = "redirect"
    /\ \/ \E w \in Lookup(req[c].want) :
             /\ CanLink(w)
             /\ Answer(c, [req[c] EXCEPT !.pc = "check", !.link = EntryOf(w)])
       \/ /\ \A w \in Lookup(req[c].want) : ~CanLink(w)
          /\ Refuse(c)

(***************************************************************************)
(* The object: its checksum is compared with the one in the URL, then it   *)
(* is opened again and sent.  Without a checksum there is nothing to       *)
(* compare; a file that is gone by then is an aborted answer.              *)
(***************************************************************************)
Valid(c, got) == got.sum = None \/ got.sum = req[c].link.sum

\* The server fills in the module config the back ends read, for providers too.
Checksums(c) == Store!GetObjectChecksum(Backend, "module", store[req[c].link.file])

CheckObject(c) ==
    /\ req[c].pc = "check"
    /\ \/ \E got \in Checksums(c) :
             /\ Valid(c, got)
             /\ Answer(c, [req[c] EXCEPT !.pc = "stream"])
       \/ /\ \A got \in Checksums(c) : ~Valid(c, got)
          /\ Refuse(c)

\* A provider's client accepts only the promised bytes.
Accepts(c, body) == req[c].want \in Providers => body = req[c].promise.sum

\* Mutant of StreamObject: a file that is gone is sent like any other.
StreamAnything(c) ==
    LET body == store[req[c].link.file]
    IN  /\ req[c].pc = "stream"
        /\ IF Accepts(c, body)
              THEN Answer(c, [req[c] EXCEPT !.pc = "accepted", !.body = body])
              ELSE Refuse(c)

StreamObject(c) ==
    LET body == store[req[c].link.file]
    IN  /\ req[c].pc = "stream"
        /\ IF body # Absent /\ Accepts(c, body)
              THEN Answer(c, [req[c] EXCEPT !.pc = "accepted", !.body = body])
              ELSE Refuse(c)

ServerStep(c) ==
    \/ AskModule(c) \/ AskProvider(c) \/ Leave(c)
    \/ GetDownloadModuleUrl(c)
    \/ GetProviderPackageMetadata(c) \/ GetProviderPackageSHA256SUMS(c)
    \/ GetProviderPackageSHA256SUMSSignature(c) \/ ServeProviderPackageDownload(c)
    \/ CheckObject(c) \/ StreamObject(c)

----------------------------------------------------------------------------
\* A step of the rest of the system.
Disturbs == calm' = (IF AllAtRest' THEN calm ELSE {}) /\ UNCHANGED req

RegistryInit ==
    /\ Init
    /\ req = [c \in Clients |-> Silence]
    /\ calm = {}

RegistryNext ==
    \/ \E c \in Clients : ServerStep(c)
    \/ Next /\ Disturbs

RegistrySpec == RegistryInit /\ [][RegistryNext]_<<vars, serverVars>>

----------------------------------------------------------------------------
(***************************************************************************)
(* Properties.                                                             *)
(***************************************************************************)
\* What a conversation carries has its type; the bytes it ends with are never Absent.
RegistryTypeOK == req \in [Clients -> Conversation] /\ calm \subseteq Clients

\* A conversation while the controller is at rest ends, if the Version it comes
\* to is synced, with the archive whose checksum is recorded: five answers that
\* agree with each other and with the storage (getObjectFromStorageSystem and
\* the handlers that lead to it).
Addressed(v) == IF v \in Providers THEN Lookup(v) ELSE {v}

UndisturbedDownloads ==
    \A c \in calm : \A v \in Addressed(req[c].want) :
        req[c].pc # "idle" /\ Backend \in Addressable /\ Served(v) =>
            /\ req[c].pc # "refused"
            /\ req[c].pc = "accepted" => req[c].body = api[v].sum

\* No handler looks at status.synced.  Still no client installs a provider
\* binary with blocking findings: whatever a run that was blocked has stored or
\* left in the status, its checksum is never told to anyone (runProviderScan
\* blocks before the status is written).
ScannedDownloads ==
    Scanning /\ ~ScansMayFail =>
        \A c \in Clients :
            req[c].pc = "accepted" /\ req[c].want \in Providers => req[c].body \notin Flagged

\* api.md: the package metadata are those of "a specific provider binary", one
\* for an os and an arch.  The lookup ignores both.
RightPlatform ==
    \A c \in calm :
        LET v == req[c].want
        IN  req[c].pc = "accepted" /\ v \in Providers /\ Served(v) => req[c].body = api[v].sum
=============================================================================
