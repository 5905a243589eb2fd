--------------------------- MODULE RegistryProofs ---------------------------
(***************************************************************************)
(* Proofs about the registry server: the conversations keep their type,    *)
(* no client installs a provider binary with blocking findings, and a      *)
(* download nobody disturbs ends with the recorded archive.                *)
(*                                                                         *)
(* The server changes nothing, so every invariant of the Version           *)
(* controller holds beside it.                                             *)
(***************************************************************************)
EXTENDS RegistryServer, VersionRestProofs

LEMMA ServerOnlyReads == RegistrySpec => Spec
<1>1. RegistryInit => Init
  BY DEF RegistryInit
<1>2. ASSUME [RegistryNext]_<<vars, serverVars>>
      PROVE  [Next]_vars
  <2>1. CASE \E c \in Clients : ServerStep(c)
    BY <2>1 DEF ServerStep, AskModule, AskProvider, Ask, Leave, GetDownloadModuleUrl,
         GetProviderPackageMetadata, GetProviderPackageSHA256SUMS,
         GetProviderPackageSHA256SUMSSignature, ServeProviderPackageDownload,
         CheckObject, StreamObject, Refuse, Answer
  <2> QED BY <1>2, <2>1 DEF RegistryNext
<1> QED BY <1>1, <1>2, PTL DEF RegistrySpec, Spec

----------------------------------------------------------------------------
(***************************************************************************)
(* What a client has in hand.                                              *)
(***************************************************************************)
\* A client wants something; on its way to an object it has its name; what it was promised
\* is nothing flagged, and what it has accepted is what it was promised.
Safe(r) ==
    /\ r.pc # "idle" => r.want \in Versions
    /\ r.pc \in {"check", "stream"} => r.link.file \in FileNames
    /\ Scanning /\ ~ScansMayFail /\ r.want \in Providers =>
          /\ r.promise.sum \notin Flagged
          /\ r.pc = "accepted" => r.body = r.promise.sum

SafeInv == RegistryTypeOK /\ \A c \in Clients : Safe(req[c])

LEMMA EntryTypes ==
    /\ NoEntry \in Entry /\ NoEntry.sum = None
    /\ TypeOK => \A v \in Versions :
          /\ EntryOf(v) \in Entry
          /\ EntryOf(v).file = api[v].file /\ EntryOf(v).sum = api[v].sum
BY ObjectFields DEF NoEntry, Entry, EntryOf, TypeOK

LEMMA ConversationFields ==
    ASSUME NEW r \in Conversation
    PROVE  /\ r.want \in Versions \cup {None}
           /\ r.promise \in Entry /\ r.line \in Entry /\ r.link \in Entry
           /\ r.body \in Archives \cup {Torn, None}
BY DEF Conversation

LEMMA OpeningFields ==
    ASSUME NEW w \in Versions \cup {None},
           NEW p \in {"idle", "metadata", "url", "refused"}, p # "idle" => w \in Versions
    PROVE  /\ Opening(p, w) \in Conversation /\ Safe(Opening(p, w))
           /\ Opening(p, w).pc = p /\ Opening(p, w).want = w
<1> DEFINE e == NoEntry
<1>1. e \in Entry /\ e.sum \notin Flagged
  BY EntryTypes, NothingIsFlagged
<1> HIDE DEF e
<1>2. Opening(p, w) = [pc |-> p, want |-> w, promise |-> e, line |-> e, link |-> e, body |-> None]
  BY DEF Opening, e
<1>3. Opening(p, w) \in Conversation
  BY <1>1, <1>2 DEF Conversation
<1> QED BY <1>1, <1>2, <1>3 DEF Safe

LEMMA AnswerKeeps ==
    ASSUME SafeInv, NEW c \in Clients, NEW r \in Conversation, Safe(r), Answer(c, r)
    PROVE  SafeInv'
BY DEF SafeInv, RegistryTypeOK, Answer

LEMMA RefuseKeeps ==
    ASSUME SafeInv, NEW c \in Clients, req[c].pc # "idle", Refuse(c)
    PROVE  SafeInv'
<1> DEFINE w == req[c].want
           r == Opening("refused", w)
<1>1. w \in Versions
  BY DEF SafeInv, Safe
<1>2. Answer(c, r)
  BY DEF Refuse
<1> HIDE DEF w
<1>3. r \in Conversation /\ Safe(r)
  BY <1>1, OpeningFields
<1> HIDE DEF r
<1> QED BY <1>2, <1>3, AnswerKeeps

LEMMA AskKeeps ==
    ASSUME SafeInv, NEW c \in Clients, NEW v \in Versions, NEW p \in {"metadata", "url"},
           Ask(c, v, p)
    PROVE  SafeInv'
<1> DEFINE r == Opening(p, v)
<1>1. req' = [req EXCEPT ![c] = r] /\ calm' \in {calm \cup {c}, calm \ {c}}
  BY DEF Ask
<1>2. r \in Conversation /\ Safe(r)
  BY OpeningFields
<1> HIDE DEF r
<1> QED BY <1>1, <1>2 DEF SafeInv, RegistryTypeOK

\* A Version the server finds for a provider's client: no checksum it tells is
\* that of something flagged.
LEMMA FoundVersions ==
    ASSUME IInv, GuardInv, NEW v, NEW w \in Lookup(v)
    PROVE  /\ w \in Providers /\ w \in Versions
           /\ EntryOf(w) \in Entry
           /\ EntryOf(w).file = api[w].file /\ EntryOf(w).sum = api[w].sum
           /\ Scanning /\ ~ScansMayFail => EntryOf(w).sum \notin Flagged
<1>1. w \in Providers /\ w \in Versions
  BY DEF Lookup, Versions
<1> QED BY <1>1, EntryTypes DEF IInv, GuardInv, GateInv, Gated, Scanned

(***************************************************************************)
(* The answers.                                                            *)
(***************************************************************************)
Promised(r, e) == [r EXCEPT !.pc = "sums", !.promise = e]
Enrolled(r, e) == [r EXCEPT !.pc = "signature", !.line = e]
Linked(r, e) == [r EXCEPT !.pc = "check", !.link = e]
Satisfied(r, b) == [r EXCEPT !.pc = "accepted", !.body = b]

LEMMA PromisedFields ==
    ASSUME NEW r \in Conversation, NEW e \in Entry, Safe(r), r.pc # "idle",
           Scanning /\ ~ScansMayFail => e.sum \notin Flagged,
           NEW q, q = Promised(r, e)
    PROVE  /\ q \in Conversation /\ Safe(q)
           /\ q.pc = "sums" /\ q.want = r.want /\ q.promise = e
<1>1. /\ q \in Conversation
      /\ q.pc = "sums" /\ q.want = r.want /\ q.promise = e
  BY DEF Conversation, Promised
<1> QED BY <1>1 DEF Safe

LEMMA ListedFields ==
    ASSUME NEW r \in Conversation, NEW e \in Entry, Safe(r), r.pc # "idle",
           NEW q, q = Enrolled(r, e)
    PROVE  /\ q \in Conversation /\ Safe(q)
           /\ q.pc = "signature" /\ q.want = r.want /\ q.promise = r.promise
           /\ q.line = e
<1>1. /\ q \in Conversation
      /\ q.pc = "signature" /\ q.want = r.want /\ q.promise = r.promise
      /\ q.line = e
  BY DEF Conversation, Enrolled
<1> QED BY <1>1 DEF Safe

LEMMA LinkedFields ==
    ASSUME NEW r \in Conversation, NEW e \in Entry, e.file # None, Safe(r),
           r.pc # "idle", NEW q, q = Linked(r, e)
    PROVE  /\ q \in Conversation /\ Safe(q)
           /\ q.pc = "check" /\ q.want = r.want /\ q.promise = r.promise /\ q.link = e
<1>1. /\ q \in Conversation
      /\ q.pc = "check" /\ q.want = r.want /\ q.promise = r.promise /\ q.link = e
  BY DEF Conversation, Linked
<1>2. e.file \in FileNames
  BY DEF Entry
<1> QED BY <1>1, <1>2 DEF Safe

LEMMA AdvancedFields ==
    ASSUME NEW r \in Conversation, Safe(r), r.pc # "idle", NEW p \in {"redirect", "stream"},
           p = "stream" => r.pc = "check",
           NEW q, q = [r EXCEPT !.pc = p]
    PROVE  /\ q \in Conversation /\ Safe(q)
           /\ q.pc = p /\ q.want = r.want /\ q.promise = r.promise /\ q.link = r.link
<1>1. /\ q \in Conversation
      /\ q.pc = p /\ q.want = r.want /\ q.promise = r.promise /\ q.link = r.link
  BY DEF Conversation
<1> QED BY <1>1 DEF Safe

LEMMA AcceptedFields ==
    ASSUME NEW r \in Conversation, Safe(r), r.pc # "idle", NEW b \in Archives \cup {Torn, None},
           r.want \in Providers => b = r.promise.sum,
           NEW q, q = Satisfied(r, b)
    PROVE  /\ q \in Conversation /\ Safe(q)
           /\ q.pc = "accepted" /\ q.want = r.want /\ q.body = b
<1>1. /\ q \in Conversation
      /\ q.pc = "accepted" /\ q.want = r.want /\ q.promise = r.promise /\ q.body = b
  BY DEF Conversation, Satisfied
<1> QED BY <1>1 DEF Safe

LEMMA ServerKeepsSafe ==
    ASSUME IInv, GuardInv, SafeInv, NEW c \in Clients, ServerStep(c)
    PROVE  SafeInv'
<1>0. req[c] \in Conversation /\ Safe(req[c])
  BY DEF SafeInv, RegistryTypeOK
<1>1. CASE AskModule(c) \/ AskProvider(c)
  BY <1>1, AskKeeps DEF AskModule, AskProvider, Versions
<1>2. CASE Leave(c)
  <2>1. Silence \in Conversation /\ Safe(Silence)
    BY OpeningFields DEF Silence
  <2> QED BY <1>2, <2>1, AnswerKeeps DEF Leave
<1>3. CASE GetDownloadModuleUrl(c)
  <2> DEFINE v == req[c].want
             e == EntryOf(v)
             r == Linked(req[c], e)
  <2>1. CASE Refuse(c)
    BY <1>3, <2>1, RefuseKeeps DEF GetDownloadModuleUrl
  <2>2. CASE Exists(v) /\ CanLink(v) /\ Answer(c, r)
    <3>1. v \in Versions
      BY <1>0, <1>3 DEF GetDownloadModuleUrl, Safe
    <3>2. e \in Entry /\ e.file # None
      BY <2>2, <3>1, EntryTypes DEF IInv, CanLink, Told
    <3>3. req[c].pc # "idle"
      BY <1>3 DEF GetDownloadModuleUrl
    <3> HIDE DEF e, v
    <3>4. r \in Conversation /\ Safe(r)
      BY <1>0, <3>2, <3>3, LinkedFields
    <3>5. Answer(c, r)
      BY <2>2 DEF e, v, Linked
    <3> HIDE DEF r
    <3> QED BY <3>4, <3>5, AnswerKeeps
  <2> QED BY <1>3, <2>1, <2>2 DEF GetDownloadModuleUrl, Linked
<1>4. CASE GetProviderPackageMetadata(c)
  <2>1. CASE Refuse(c)
    BY <1>4, <2>1, RefuseKeeps DEF GetProviderPackageMetadata
  <2>2. ASSUME NEW w \in Lookup(req[c].want),
               Answer(c, [req[c] EXCEPT !.pc = "sums", !.promise = EntryOf(w)])
        PROVE  SafeInv'
    <3> DEFINE e == EntryOf(w)
               r == Promised(req[c], e)
    <3>1. e \in Entry /\ (Scanning /\ ~ScansMayFail => e.sum \notin Flagged)
      BY FoundVersions
    <3> HIDE DEF e
    <3>2. r \in Conversation /\ Safe(r)
      BY <1>0, <1>4, <3>1, PromisedFields DEF GetProviderPackageMetadata
    <3>3. Answer(c, r)
      BY <2>2 DEF e, Promised
    <3> HIDE DEF r
    <3> QED BY <3>2, <3>3, AnswerKeeps
  <2> QED BY <1>4, <2>1, <2>2 DEF GetProviderPackageMetadata
<1>5. CASE GetProviderPackageSHA256SUMS(c)
  <2>1. CASE Refuse(c)
    BY <1>5, <2>1, RefuseKeeps DEF GetProviderPackageSHA256SUMS
  <2>2. ASSUME NEW w \in Lookup(req[c].want),
               Answer(c, [req[c] EXCEPT !.pc = "signature", !.line = EntryOf(w)])
        PROVE  SafeInv'
    <3> DEFINE e == EntryOf(w)
               r == Enrolled(req[c], e)
    <3>1. e \in Entry
      BY FoundVersions
    <3> HIDE DEF e
    <3>2. r \in Conversation /\ Safe(r)
      BY <1>0, <1>5, <3>1, ListedFields DEF GetProviderPackageSHA256SUMS
    <3>3. Answer(c, r)
      BY <2>2 DEF e, Enrolled
    <3> HIDE DEF r
    <3> QED BY <3>2, <3>3, AnswerKeeps
  <2> QED BY <1>5, <2>1, <2>2 DEF GetProviderPackageSHA256SUMS
<1>6. CASE GetProviderPackageSHA256SUMSSignature(c)
  <2> DEFINE r == [req[c] EXCEPT !.pc = "redirect"]
  <2>1. CASE Refuse(c)
    BY <1>6, <2>1, RefuseKeeps DEF GetProviderPackageSHA256SUMSSignature
  <2>2. CASE Answer(c, r)
    <3>1. r \in Conversation /\ Safe(r)
      BY <1>0, <1>6, AdvancedFields DEF GetProviderPackageSHA256SUMSSignature
    <3> HIDE DEF r
    <3> QED BY <2>2, <3>1, AnswerKeeps
  <2> QED BY <1>6, <2>1, <2>2 DEF GetProviderPackageSHA256SUMSSignature
<1>7. CASE ServeProviderPackageDownload(c)
  <2>1. CASE Refuse(c)
    BY <1>7, <2>1, RefuseKeeps DEF ServeProviderPackageDownload
  <2>2. ASSUME NEW w \in Lookup(req[c].want), CanLink(w),
               Answer(c, [req[c] EXCEPT !.pc = "check", !.link = EntryOf(w)])
        PROVE  SafeInv'
    <3> DEFINE e == EntryOf(w)
               r == Linked(req[c], e)
    <3>1. e \in Entry /\ e.file # None
      BY <2>2, FoundVersions DEF CanLink, Told
    <3> HIDE DEF e
    <3>2. r \in Conversation /\ Safe(r)
      BY <1>0, <1>7, <3>1, LinkedFields DEF ServeProviderPackageDownload
    <3>3. Answer(c, r)
      BY <2>2 DEF e, Linked
    <3> HIDE DEF r
    <3> QED BY <3>2, <3>3, AnswerKeeps
  <2> QED BY <1>7, <2>1, <2>2 DEF ServeProviderPackageDownload
<1>8. CASE CheckObject(c)
  <2> DEFINE r == [req[c] EXCEPT !.pc = "stream"]
  <2>1. CASE Refuse(c)
    BY <1>8, <2>1, RefuseKeeps DEF CheckObject
  <2>2. CASE Answer(c, r)
    <3>1. r \in Conversation /\ Safe(r)
      BY <1>0, <1>8, AdvancedFields DEF CheckObject
    <3> HIDE DEF r
    <3> QED BY <2>2, <3>1, AnswerKeeps
  <2> QED BY <1>8, <2>1, <2>2 DEF CheckObject
<1>9. CASE StreamObject(c)
  <2> DEFINE b == store[req[c].link.file]
             r == Satisfied(req[c], b)
  <2>1. CASE Refuse(c)
    BY <1>9, <2>1, RefuseKeeps DEF StreamObject
  <2>2. CASE b # Absent /\ Accepts(c, b) /\ Answer(c, r)
    <3>1. req[c].link.file \in FileNames
      BY <1>0, <1>9 DEF StreamObject, Safe
    <3>2. b \in Archives \cup {Torn, None}
      BY <2>2, <3>1 DEF IInv, TypeOK
    <3>3. req[c].want \in Providers => b = req[c].promise.sum
      BY <2>2 DEF Accepts
    <3> HIDE DEF b
    <3>4. r \in Conversation /\ Safe(r)
      BY <1>0, <1>9, <3>2, <3>3, AcceptedFields DEF StreamObject
    <3> HIDE DEF r
    <3> QED BY <2>2, <3>4, AnswerKeeps
  <2> QED BY <1>9, <2>1, <2>2 DEF StreamObject, Satisfied
<1> QED BY <1>1, <1>2, <1>3, <1>4, <1>5, <1>6, <1>7, <1>8, <1>9 DEF ServerStep

LEMMA SafeHolds == RegistrySpec => []SafeInv
<1>1. RegistryInit => SafeInv
  <2>1. Silence \in Conversation /\ Safe(Silence)
    BY OpeningFields DEF Silence
  <2> QED BY <2>1 DEF RegistryInit, SafeInv, RegistryTypeOK
<1>2. ASSUME IInv, GuardInv, SafeInv, [RegistryNext]_<<vars, serverVars>>
      PROVE  SafeInv'
  <2>1. CASE Next /\ Disturbs
    BY <1>2, <2>1 DEF Disturbs, SafeInv, RegistryTypeOK
  <2>2. CASE UNCHANGED <<vars, serverVars>>
    BY <1>2, <2>2 DEF serverVars, SafeInv, RegistryTypeOK
  <2> QED BY <1>2, <2>1, <2>2, ServerKeepsSafe DEF RegistryNext
<1> QED BY <1>1, <1>2, ServerOnlyReads, Invariant, GuardHolds, PTL DEF RegistrySpec

\* What a conversation carries keeps its type: an answer is a file name and a checksum, and the
\* bytes it ends with, if any, are an archive or a torn one, never those of no object.
THEOREM ConversationsTyped == RegistrySpec => []RegistryTypeOK
<1>1. SafeInv => RegistryTypeOK
  BY DEF SafeInv
<1> QED BY <1>1, SafeHolds, PTL

\* Whatever the Version controller is doing, and although no handler looks at
\* status.synced: with scans that complete no client installs a provider binary
\* with blocking findings.
THEOREM ServesScanned == RegistrySpec => []ScannedDownloads
<1>1. SafeInv => ScannedDownloads
  BY DEF SafeInv, Safe, ScannedDownloads
<1> QED BY <1>1, SafeHolds, PTL

----------------------------------------------------------------------------
(***************************************************************************)
(* Undisturbed downloads.                                                  *)
(***************************************************************************)
\* While the controller is at rest before and after it, no step changes a Version
\* or the storage.
LEMMA RestIsStill ==
    ASSUME IInv, Next, AllAtRest, AllAtRest'
    PROVE  api' = api /\ store' = store
<1>0. TypeOK
  BY DEF IInv
<1>1. ASSUME NEW v \in Versions
      PROVE  ~ControllerStep(v) /\ ~Abort(v) /\ ~Deliver(v) /\ ~Resync(v)
  <2>1. run[v].pc = "idle" /\ v \notin queued /\ v \notin news /\ v \notin queued'
    BY DEF AllAtRest, AtRest
  <2> QED BY <2>1 DEF ControllerStep, MayStart, StartGone, AddFinalizer, StartDelete, StartSync,
         Prepare, RejectDual, FetchModule, RejectReplaced, FastPathHit, FastPathMiss,
         AcquireDownload, DownloadProvider, Verify, BeginPut, EndPut, Persist, BeginScan,
         EndScan, ScanFails, BlockScan, MissSource, SkipSource, BeginSource, NoGoMod, EndSource,
         SourceFails, BlockSource, Finish, RemoveArtifact, RemoveFinalizer, Abort, Deliver,
         Resync, Requeue
<1>2. ASSUME NEW v \in Versions, OwnerStep(v)
      PROVE  api' = api /\ store' = store
  <2>1. /\ store' = store /\ api'[v] = api[v]
        /\ \A w \in Versions \ {v} : api'[w] = api[w]
        /\ api' \in [Versions -> VersionObject]
    BY <1>0, <1>2, OwnerEffect DEF Owned, Wrote, ObjectsType, AllAtRest, AtRest
  <2> QED BY <1>0, <2>1 DEF TypeOK
<1>3. CASE \E v \in Versions : Retag(v)
  BY <1>3 DEF Retag, objects
<1>4. CASE RecordRefs \/ ForgetNames \/ DeliverRefs \/ Crash
  BY <1>4 DEF RecordRefs, WriteRefs, ForgetNames, DeliverRefs, Crash, objects
<1> QED BY <1>1, <1>2, <1>3, <1>4 DEF Next

\* What the controller rests on can be linked, and the link leads to it.
LEMMA RestedIsServable ==
    ASSUME IInv, ConfigInv, AllAtRest, Backend \in Addressable, NEW v \in Versions, Served(v)
    PROVE  /\ CanLink(v) /\ Exists(v) /\ Told(v)
           /\ store[api[v].file] = api[v].sum /\ api[v].sum \in Archives
<1>1. /\ api[v].cfg
      /\ api[v].file # None /\ store[api[v].file] = api[v].sum
  BY DEF IInv, VersionInv, RestsConsistent, ConsistentAtRest, ConfigInv, ConfigKept,
         AllAtRest, Addressable
<1>2. api[v].file \in FileNames /\ api[v].sum \in Archives \cup {None}
  BY <1>1, ObjectFields DEF IInv, TypeOK
<1>3. api[v].sum # None /\ api[v].sum \in Archives
  BY <1>1, <1>2, MarkersAreDistinct DEF IInv, TypeOK
<1> QED BY <1>1, <1>3 DEF CanLink, HasPath, Told, Exists, Served

\* The lookup finds one Version.
LEMMA LookupIsOne ==
    ASSUME NEW u, NEW v \in Lookup(u), NEW w \in Lookup(u)
    PROVE  v = w
<1>1. /\ v \in Providers /\ w \in Providers
      /\ Rank[v] <= Rank[w] /\ Rank[w] <= Rank[v]
  BY DEF Lookup
<1>2. Rank[v] \in Nat /\ Rank[w] \in Nat
  BY <1>1, RankType
<1>3. Rank[v] = Rank[w]
  BY <1>1, <1>2
<1> QED BY <1>1, <1>3, RankIsOrder

\* What a client that is not disturbed knows is what is recorded.
ProviderPaths == {"metadata", "sums", "signature", "redirect"}
AfterMetadata == {"sums", "signature", "redirect", "check", "stream"}

Agrees(r, v) ==
    /\ r.pc # "refused"
    /\ r.pc \in AfterMetadata /\ r.want \in Providers => r.promise = EntryOf(v)
    /\ r.pc = "signature" => r.line = EntryOf(v)
    /\ r.pc \in {"check", "stream"} => r.link = EntryOf(v)
    /\ r.pc = "accepted" => r.body = api[v].sum

Undisturbed(r) ==
    /\ r.pc = "url" => r.want \in Modules
    /\ r.pc \in ProviderPaths => r.want \in Providers
    /\ Backend \in Addressable /\ r.pc # "idle" =>
          \A v \in Addressed(r.want) : Served(v) => Agrees(r, v)

CalmInv ==
    /\ calm # {} => AllAtRest
    /\ \A c \in calm : Undisturbed(req[c])

LEMMA AddressedVersions ==
    ASSUME NEW u \in Versions, NEW v \in Addressed(u)
    PROVE  /\ v \in Versions
           /\ u \in Providers => v \in Lookup(u)
           /\ u \in Modules => v = u
BY KindsAreDisjoint DEF Addressed, Lookup, Versions

LEMMA AnswerAgrees ==
    ASSUME CalmInv, RegistryTypeOK, NEW c \in Clients, NEW r, Answer(c, r),
           c \in calm => Undisturbed(r)
    PROVE  CalmInv'
<1>1. /\ UNCHANGED <<api, run, queued, news, calm>>
      /\ req'[c] = r /\ \A d \in Clients : d # c => req'[d] = req[d]
  BY DEF Answer, vars, RegistryTypeOK
<1>2. AllAtRest' = AllAtRest
  BY <1>1 DEF AllAtRest, AtRest
<1>3. ASSUME NEW d \in calm
      PROVE  Undisturbed(req'[d])
  BY <1>1, <1>3 DEF CalmInv, RegistryTypeOK
<1>4. ASSUME NEW d \in calm
      PROVE  Undisturbed(req[d])'
  BY <1>1, <1>3 DEF Undisturbed, Addressed, Lookup, Exists, Served, Agrees, EntryOf
<1> QED BY <1>1, <1>2, <1>4 DEF CalmInv

\* A handler that refuses an undisturbed client refuses it a Version not served.
LEMMA RefusalAgrees ==
    ASSUME CalmInv, SafeInv, NEW c \in Clients, req[c].pc # "idle", Refuse(c),
           c \in calm /\ Backend \in Addressable =>
                \A v \in Addressed(req[c].want) : ~Served(v)
    PROVE  CalmInv'
<1> DEFINE w == req[c].want
           r == Opening("refused", w)
<1>1. Answer(c, r)
  BY DEF Refuse
<1>2. w \in Versions
  BY DEF SafeInv, Safe
<1>3. r.pc = "refused" /\ r.want = w
  BY <1>2, OpeningFields
<1>4. c \in calm /\ Backend \in Addressable => \A v \in Addressed(w) : ~Served(v)
  OBVIOUS
<1> HIDE DEF r, w
<1>5. c \in calm => Undisturbed(r)
  BY <1>3, <1>4 DEF Undisturbed, ProviderPaths
<1> QED BY <1>1, <1>5, AnswerAgrees DEF SafeInv

LEMMA AskAgrees ==
    ASSUME CalmInv, RegistryTypeOK, NEW c \in Clients, NEW v \in Versions,
           NEW p \in {"metadata", "url"}, Ask(c, v, p),
           p = "url" => v \in Modules, p = "metadata" => v \in Providers
    PROVE  CalmInv'
<1> DEFINE r == Opening(p, v)
<1>1. /\ UNCHANGED <<api, run, queued, news>>
      /\ req' = [req EXCEPT ![c] = r]
      /\ calm' = IF AllAtRest THEN calm \cup {c} ELSE calm \ {c}
  BY DEF Ask, vars
<1>2. r.pc = p /\ r.want = v
  BY OpeningFields
<1> HIDE DEF r
<1>3. Undisturbed(r)
  BY <1>2 DEF Undisturbed, Agrees, ProviderPaths, AfterMetadata
<1>4. AllAtRest' = AllAtRest
  BY <1>1 DEF AllAtRest, AtRest
<1>5. ASSUME NEW d \in calm'
      PROVE  Undisturbed(req'[d])
  BY <1>1, <1>3, <1>5 DEF CalmInv, RegistryTypeOK
<1>6. ASSUME NEW d \in calm'
      PROVE  Undisturbed(req[d])'
  BY <1>1, <1>5 DEF Undisturbed, Addressed, Lookup, Exists, Served, Agrees, EntryOf
<1> QED BY <1>1, <1>4, <1>6 DEF CalmInv

(***************************************************************************)
(* A back end other than Azure answers with the checksum of what it holds. *)
(***************************************************************************)
LEMMA AnswersFound ==
    ASSUME NEW stored, stored # Absent, Backend # "azure"
    PROVE  Store!Found(stored) \in Store!GetObjectChecksum(Backend, "module", stored)
BY DEF Store!GetObjectChecksum, Store!DereferencesNil

LEMMA ServerAgrees ==
    ASSUME IInv, GuardInv, ConfigInv, SafeInv, CalmInv, NEW c \in Clients, ServerStep(c)
    PROVE  CalmInv'
<1> DEFINE u == req[c].want
<1>0. /\ req[c] \in Conversation /\ Safe(req[c]) /\ RegistryTypeOK
      /\ req[c].pc # "idle" => u \in Versions
  BY DEF SafeInv, RegistryTypeOK, Safe
\* Of a Version that is served to an undisturbed client everything is known.
<1>1. ASSUME c \in calm, Backend \in Addressable, req[c].pc # "idle",
             NEW v \in Addressed(u), Served(v)
      PROVE  /\ v \in Versions /\ CanLink(v) /\ Exists(v) /\ Told(v) /\ Agrees(req[c], v)
             /\ store[api[v].file] = api[v].sum /\ api[v].sum \in Archives
             /\ EntryOf(v).file = api[v].file /\ EntryOf(v).sum = api[v].sum
  <2>1. v \in Versions /\ AllAtRest /\ Agrees(req[c], v)
    BY <1>0, <1>1, AddressedVersions DEF CalmInv, Undisturbed
  <2> QED BY <1>1, <2>1, RestedIsServable, EntryTypes DEF IInv
\* A provider's client is served the one Version its requests find.
<1>2. ASSUME u \in Providers, NEW v \in Addressed(u), NEW w \in Lookup(u)
      PROVE  v = w
  BY <1>2, AddressedVersions, LookupIsOne DEF Versions
<1>3. c \in calm /\ req[c].pc \in ProviderPaths => u \in Providers
  BY DEF CalmInv, Undisturbed
<1>4. CASE AskModule(c) \/ AskProvider(c)
  BY <1>0, <1>4, AskAgrees DEF AskModule, AskProvider, Versions
<1>5. CASE Leave(c)
  <2>1. Silence.pc = "idle"
    BY OpeningFields DEF Silence
  <2>2. Undisturbed(Silence)
    BY <2>1 DEF Undisturbed, ProviderPaths
  <2> QED BY <1>0, <1>5, <2>2, AnswerAgrees DEF Leave
<1>6. CASE GetDownloadModuleUrl(c)
  <2>0. req[c].pc = "url" /\ (c \in calm => u \in Modules) /\ u \in Versions
    BY <1>0, <1>6 DEF GetDownloadModuleUrl, CalmInv, Undisturbed
  <2>1. CASE Refuse(c) /\ ~(Exists(u) /\ CanLink(u))
    <3>1. c \in calm /\ Backend \in Addressable => \A v \in Addressed(u) : ~Served(v)
      BY <1>1, <2>0, <2>1, AddressedVersions
    <3> QED BY <2>0, <2>1, <3>1, RefusalAgrees
  <2>2. CASE Exists(u) /\ CanLink(u) /\ Answer(c, [req[c] EXCEPT !.pc = "check",
                                                                !.link = EntryOf(u)])
    <3> DEFINE e == EntryOf(u)
               r == Linked(req[c], e)
    <3>1. e \in Entry /\ e.file # None
      BY <2>0, <2>2, EntryTypes DEF IInv, CanLink, Told
    <3>2. e = EntryOf(u) /\ Answer(c, r)
      BY <2>2 DEF Linked
    <3> HIDE DEF e
    <3>3. r.pc = "check" /\ r.want = u /\ r.promise = req[c].promise /\ r.link = e
      BY <1>0, <2>0, <3>1, LinkedFields
    <3> HIDE DEF r, u
    <3>4. ASSUME c \in calm, NEW v \in Addressed(u)
          PROVE  v = u /\ u \notin Providers
      BY <2>0, <3>4, AddressedVersions, KindsAreDisjoint
    <3>5. c \in calm => Undisturbed(r)
      BY <3>2, <3>3, <3>4 DEF Undisturbed, Agrees, ProviderPaths
    <3> QED BY <1>0, <3>2, <3>5, AnswerAgrees
  <2> QED BY <1>6, <2>1, <2>2 DEF GetDownloadModuleUrl
<1>7. CASE GetProviderPackageMetadata(c)
  <2>0. req[c].pc = "metadata"
    BY <1>7 DEF GetProviderPackageMetadata
  <2>1. CASE Refuse(c) /\ \A w \in Lookup(u) : ~Told(w)
    <3>1. c \in calm /\ Backend \in Addressable => \A v \in Addressed(u) : ~Served(v)
      BY <1>0, <1>1, <1>3, <2>0, <2>1, AddressedVersions DEF ProviderPaths
    <3> QED BY <2>0, <2>1, <3>1, RefusalAgrees
  <2>2. ASSUME NEW w \in Lookup(u),
               Answer(c, [req[c] EXCEPT !.pc = "sums", !.promise = EntryOf(w)])
        PROVE  CalmInv'
    <3> DEFINE e == EntryOf(w)
               r == Promised(req[c], e)
    <3>1. e \in Entry /\ (Scanning /\ ~ScansMayFail => e.sum \notin Flagged)
      BY FoundVersions
    <3>2. e = EntryOf(w) /\ Answer(c, r)
      BY <2>2 DEF Promised
    <3> HIDE DEF e
    <3>3. r.pc = "sums" /\ r.want = u /\ r.promise = e
      BY <1>0, <2>0, <3>1, PromisedFields
    <3>4. ASSUME c \in calm, NEW v \in Addressed(u)
          PROVE  v = w
      BY <1>2, <1>3, <2>0, <3>4 DEF ProviderPaths
    <3>5. c \in calm => u \in Providers
      BY <1>3, <2>0 DEF ProviderPaths
    <3> HIDE DEF r, u
    <3>6. c \in calm => Undisturbed(r)
      BY <3>2, <3>3, <3>4, <3>5 DEF Undisturbed, Agrees, AfterMetadata
    <3> QED BY <1>0, <3>2, <3>6, AnswerAgrees
  <2> QED BY <1>7, <2>1, <2>2 DEF GetProviderPackageMetadata
<1>8. CASE GetProviderPackageSHA256SUMS(c)
  <2>0. req[c].pc = "sums"
    BY <1>8 DEF GetProviderPackageSHA256SUMS
  <2>1. CASE Refuse(c) /\ \A w \in Lookup(u) : ~Told(w)
    <3>1. c \in calm /\ Backend \in Addressable => \A v \in Addressed(u) : ~Served(v)
      BY <1>0, <1>1, <1>3, <2>0, <2>1, AddressedVersions DEF ProviderPaths
    <3> QED BY <2>0, <2>1, <3>1, RefusalAgrees
  <2>2. ASSUME NEW w \in Lookup(u),
               Answer(c, [req[c] EXCEPT !.pc = "signature", !.line = EntryOf(w)])
        PROVE  CalmInv'
    <3> DEFINE e == EntryOf(w)
               r == Enrolled(req[c], e)
    <3>1. e \in Entry
      BY FoundVersions
    <3>2. e = EntryOf(w) /\ Answer(c, r)
      BY <2>2 DEF Enrolled
    <3> HIDE DEF e
    <3>3. r.pc = "signature" /\ r.want = u /\ r.promise = req[c].promise /\ r.line = e
      BY <1>0, <2>0, <3>1, ListedFields
    <3>4. ASSUME c \in calm, NEW v \in Addressed(u)
          PROVE  v = w
      BY <1>2, <1>3, <2>0, <3>4 DEF ProviderPaths
    <3>5. c \in calm => u \in Providers
      BY <1>3, <2>0 DEF ProviderPaths
    <3>6. ASSUME c \in calm, Backend \in Addressable, NEW v \in Addressed(u), Served(v)
          PROVE  req[c].promise = EntryOf(v)
      BY <1>1, <2>0, <3>5, <3>6 DEF Agrees, AfterMetadata
    <3> HIDE DEF r, u
    <3>7. c \in calm => Undisturbed(r)
      BY <3>2, <3>3, <3>4, <3>5, <3>6 DEF Undisturbed, Agrees
    <3> QED BY <1>0, <3>2, <3>7, AnswerAgrees
  <2> QED BY <1>8, <2>1, <2>2 DEF GetProviderPackageSHA256SUMS
<1>9. CASE GetProviderPackageSHA256SUMSSignature(c)
  <2>0. req[c].pc = "signature"
    BY <1>9 DEF GetProviderPackageSHA256SUMSSignature
  <2>1. CASE Refuse(c) /\ \A w \in Lookup(u) : ~Signed(c, w)
    <3>1. ASSUME c \in calm, Backend \in Addressable, NEW v \in Addressed(u), Served(v)
          PROVE  FALSE
      <4>1. Told(v) /\ Agrees(req[c], v) /\ u \in Providers /\ v \in Lookup(u)
        BY <1>0, <1>1, <1>3, <2>0, <3>1, AddressedVersions DEF ProviderPaths
      <4> QED BY <2>0, <2>1, <4>1 DEF Agrees, AfterMetadata, Signed
    <3> QED BY <2>0, <2>1, <3>1, RefusalAgrees
  <2>2. CASE Answer(c, [req[c] EXCEPT !.pc = "redirect"])
    <3> DEFINE r == [req[c] EXCEPT !.pc = "redirect"]
    <3>1. r.pc = "redirect" /\ r.want = u /\ r.promise = req[c].promise
      BY <1>0, <2>0, AdvancedFields
    <3>2. c \in calm => u \in Providers
      BY <1>3, <2>0 DEF ProviderPaths
    <3>3. ASSUME c \in calm, Backend \in Addressable, NEW v \in Addressed(u), Served(v)
          PROVE  req[c].promise = EntryOf(v)
      BY <1>1, <2>0, <3>2, <3>3 DEF Agrees, AfterMetadata
    <3>4. Answer(c, r)
      BY <2>2
    <3> HIDE DEF r, u
    <3>5. c \in calm => Undisturbed(r)
      BY <3>1, <3>2, <3>3 DEF Undisturbed, Agrees
    <3> QED BY <1>0, <3>4, <3>5, AnswerAgrees
  <2> QED BY <1>9, <2>1, <2>2 DEF GetProviderPackageSHA256SUMSSignature
<1>10. CASE ServeProviderPackageDownload(c)
  <2>0. req[c].pc = "redirect"
    BY <1>10 DEF ServeProviderPackageDownload
  <2>1. CASE Refuse(c) /\ \A w \in Lookup(u) : ~CanLink(w)
    <3>1. c \in calm /\ Backend \in Addressable => \A v \in Addressed(u) : ~Served(v)
      BY <1>0, <1>1, <1>3, <2>0, <2>1, AddressedVersions DEF ProviderPaths
    <3> QED BY <2>0, <2>1, <3>1, RefusalAgrees
  <2>2. ASSUME NEW w \in Lookup(u), CanLink(w),
               Answer(c, [req[c] EXCEPT !.pc = "check", !.link = EntryOf(w)])
        PROVE  CalmInv'
    <3> DEFINE e == EntryOf(w)
               r == Linked(req[c], e)
    <3>1. e \in Entry /\ e.file # None
      BY <2>2, FoundVersions DEF CanLink, Told
    <3>2. e = EntryOf(w) /\ Answer(c, r)
      BY <2>2 DEF Linked
    <3> HIDE DEF e
    <3>3. r.pc = "check" /\ r.want = u /\ r.promise = req[c].promise /\ r.link = e
      BY <1>0, <2>0, <3>1, LinkedFields
    <3>4. ASSUME c \in calm, NEW v \in Addressed(u)
          PROVE  v = w
      BY <1>2, <1>3, <2>0, <3>4 DEF ProviderPaths
    <3>5. ASSUME c \in calm, Backend \in Addressable, NEW v \in Addressed(u), Served(v)
          PROVE  u \in Providers => req[c].promise = EntryOf(v)
      BY <1>1, <2>0, <3>5 DEF Agrees, AfterMetadata
    <3> HIDE DEF r, u
    <3>6. c \in calm => Undisturbed(r)
      BY <3>2, <3>3, <3>4, <3>5 DEF Undisturbed, Agrees, ProviderPaths
    <3> QED BY <1>0, <3>2, <3>6, AnswerAgrees
  <2> QED BY <1>10, <2>1, <2>2 DEF ServeProviderPackageDownload
<1>11. CASE CheckObject(c)
  <2>0. req[c].pc = "check"
    BY <1>11 DEF CheckObject
  <2>1. CASE Refuse(c) /\ \A got \in Checksums(c) : ~Valid(c, got)
    <3>1. ASSUME c \in calm, Backend \in Addressable, NEW v \in Addressed(u), Served(v)
          PROVE  FALSE
      <4>1. /\ req[c].link = EntryOf(v) /\ store[api[v].file] = api[v].sum
            /\ api[v].sum \in Archives
            /\ EntryOf(v).file = api[v].file /\ EntryOf(v).sum = api[v].sum
        BY <1>1, <2>0, <3>1 DEF Agrees
      <4>2. Store!Found(api[v].sum) \in Checksums(c)
        <5>1. Checksums(c) = Store!GetObjectChecksum(Backend, "module", api[v].sum)
          BY <4>1 DEF Checksums
        <5>2. api[v].sum # Absent /\ Backend # "azure"
          BY <3>1, <4>1, MarkersAreDistinct DEF Addressable
        <5> QED BY <5>1, <5>2, AnswersFound
      <4>3. Valid(c, Store!Found(api[v].sum))
        BY <4>1 DEF Valid, Store!Found
      <4> QED BY <2>1, <4>2, <4>3
    <3> QED BY <2>0, <2>1, <3>1, RefusalAgrees
  <2>2. CASE Answer(c, [req[c] EXCEPT !.pc = "stream"])
    <3> DEFINE r == [req[c] EXCEPT !.pc = "stream"]
    <3>1. r.pc = "stream" /\ r.want = u /\ r.promise = req[c].promise /\ r.link = req[c].link
      BY <1>0, <2>0, AdvancedFields
    <3>2. ASSUME c \in calm, Backend \in Addressable, NEW v \in Addressed(u), Served(v)
          PROVE  /\ u \in Providers => req[c].promise = EntryOf(v)
                 /\ req[c].link = EntryOf(v)
      BY <1>1, <2>0, <3>2 DEF Agrees, AfterMetadata
    <3>3. Answer(c, r)
      BY <2>2
    <3> HIDE DEF r, u
    <3>4. c \in calm => Undisturbed(r)
      BY <3>1, <3>2 DEF Undisturbed, Agrees, ProviderPaths
    <3> QED BY <1>0, <3>3, <3>4, AnswerAgrees
  <2> QED BY <1>11, <2>1, <2>2 DEF CheckObject
<1>12. CASE StreamObject(c)
  <2> DEFINE b == store[req[c].link.file]
  <2>0. req[c].pc = "stream"
    BY <1>12 DEF StreamObject
  <2>1. ASSUME c \in calm, Backend \in Addressable, NEW v \in Addressed(u), Served(v)
        PROVE  b = api[v].sum /\ b # Absent /\ Accepts(c, b)
    <3>1. /\ req[c].link = EntryOf(v) /\ (u \in Providers => req[c].promise = EntryOf(v))
          /\ store[api[v].file] = api[v].sum /\ api[v].sum \in Archives
          /\ EntryOf(v).file = api[v].file /\ EntryOf(v).sum = api[v].sum
      BY <1>1, <2>0, <2>1 DEF Agrees, AfterMetadata
    <3> QED BY <3>1, MarkersAreDistinct DEF Accepts
  <2>2. CASE Refuse(c) /\ ~(b # Absent /\ Accepts(c, b))
    <3>1. c \in calm /\ Backend \in Addressable => \A v \in Addressed(u) : ~Served(v)
      BY <2>1, <2>2
    <3> QED BY <2>0, <2>2, <3>1, RefusalAgrees
  <2>3. CASE b # Absent /\ Accepts(c, b)
               /\ Answer(c, [req[c] EXCEPT !.pc = "accepted", !.body = b])
    <3> DEFINE r == Satisfied(req[c], b)
    <3>1. req[c].link.file \in FileNames
      BY <1>0, <2>0 DEF Safe
    <3>2. b \in Archives \cup {Torn, None}
      BY <2>3, <3>1 DEF IInv, TypeOK
    <3>3. u \in Providers => b = req[c].promise.sum
      BY <2>3 DEF Accepts
    <3>4. Answer(c, r)
      BY <2>3 DEF Satisfied
    <3> HIDE DEF b
    <3>5. r.pc = "accepted" /\ r.want = u /\ r.body = b
      BY <1>0, <2>0, <3>2, <3>3, AcceptedFields
    <3> HIDE DEF r, u
    <3>6. c \in calm => Undisturbed(r)
      BY <2>1, <3>5 DEF Undisturbed, Agrees, ProviderPaths, AfterMetadata
    <3> QED BY <1>0, <3>4, <3>6, AnswerAgrees
  <2> QED BY <1>12, <2>2, <2>3 DEF StreamObject
<1> QED BY <1>4, <1>5, <1>6, <1>7, <1>8, <1>9, <1>10, <1>11, <1>12 DEF ServerStep

LEMMA CalmHolds == RegistrySpec => []CalmInv
<1>1. RegistryInit => CalmInv
  BY DEF RegistryInit, CalmInv
<1>2. ASSUME IInv, GuardInv, ConfigInv, SafeInv, CalmInv, [RegistryNext]_<<vars, serverVars>>
      PROVE  CalmInv'
  <2>1. CASE Next /\ Disturbs
    <3>1. /\ req' = req /\ calm' = (IF AllAtRest' THEN calm ELSE {})
      BY <2>1 DEF Disturbs
    <3>2. CASE calm' = {}
      BY <3>2 DEF CalmInv
    <3>3. CASE calm' # {}
      <4>1. AllAtRest' /\ AllAtRest /\ calm' = calm
        BY <1>2, <3>1, <3>3 DEF CalmInv
      <4>2. api' = api
        BY <1>2, <2>1, <4>1, RestIsStill
      <4>3. ASSUME NEW d \in calm
            PROVE  Undisturbed(req[d])'
        BY <1>2, <3>1, <4>2, <4>3 DEF CalmInv, Undisturbed, Addressed, Lookup, Exists,
             Served, Agrees, EntryOf
      <4> QED BY <4>1, <4>3 DEF CalmInv
    <3> QED BY <3>2, <3>3
  <2>2. CASE UNCHANGED <<vars, serverVars>>
    <3>1. UNCHANGED <<api, run, queued, news, req, calm>>
      BY <2>2 DEF vars, serverVars
    <3>2. AllAtRest' = AllAtRest
      BY <3>1 DEF AllAtRest, AtRest
    <3> QED BY <1>2, <3>1, <3>2 DEF CalmInv, Undisturbed, Addressed, Lookup, Exists, Served,
           Agrees, EntryOf
  <2> QED BY <1>2, <2>1, <2>2, ServerAgrees DEF RegistryNext
<1> QED BY <1>1, <1>2, ServerOnlyReads, Invariant, GuardHolds, ConfigHolds, SafeHolds, PTL
       DEF RegistrySpec

\* Five answers, each read anew from the API server or the storage, agree as long
\* as the Version controller is at rest: the client gets the recorded archive.
THEOREM UndisturbedIsServed == RegistrySpec => []UndisturbedDownloads
<1>1. CalmInv => UndisturbedDownloads
  BY DEF CalmInv, Undisturbed, Agrees, UndisturbedDownloads
<1> QED BY <1>1, CalmHolds, PTL
=============================================================================
