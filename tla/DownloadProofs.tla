--------------------------- MODULE DownloadProofs ---------------------------
(***************************************************************************)
(* The refinement of RegistryRefinement: the registry server beside the    *)
(* Version controller implements AtomicDownload.                           *)
(*                                                                         *)
(* A step of the controller changes the checksum of one Version at most,   *)
(* and to a clean one: a Publish.  An answer of the server is a step of    *)
(* one download, or a stutter; the one that needs an argument is the last  *)
(* of them, where the bytes sent are those the first one promised because  *)
(* the client compares them.                                               *)
(***************************************************************************)
EXTENDS RegistryProofs, RegistryRefinement

\* Only a module's client waits for a URL, who is silent wants nothing, and nobody
\* has bytes before the end.
Waiting(r) ==
    /\ r.pc = "idle" => r.want = None
    /\ r.pc = "url" => r.want \in Modules
    /\ r.pc # "accepted" => r.body = None

WaitingInv == \A c \in Clients : Waiting(req[c])

----------------------------------------------------------------------------
(***************************************************************************)
(* The controller's steps.                                                 *)
(***************************************************************************)
\* Of the Versions a step changes one at most.
LEMMA OneVersionChanges ==
    ASSUME IInv, Next
    PROVE  \/ api' = api
           \/ \E v \in Versions : \A w \in Versions \ {v} : api'[w] = api[w]
<1>1. ASSUME NEW v \in Versions,
             ControllerStep(v) \/ Abort(v) \/ Deliver(v) \/ Resync(v) \/ OwnerStep(v) \/
                  Retag(v)
      PROVE  \A w \in Versions \ {v} : api'[w] = api[w]
  BY <1>1, ControllerIsLocal, EnvironmentIsLocal DEF IInv, Local, OnlyActsOn, Untouched
<1>2. CASE RecordRefs \/ ForgetNames \/ DeliverRefs \/ Crash
  BY <1>2 DEF RecordRefs, WriteRefs, ForgetNames, DeliverRefs, Crash, objects
<1> QED BY <1>1, <1>2 DEF Next

\* What a step records is clean.
LEMMA RecordsClean ==
    ASSUME IInv', GuardInv', NEW v \in Providers
    PROVE  api'[v].sum \in MayBeRecorded \cup {None}
<1>1. v \in Versions /\ api'[v].sum \in Archives \cup {None}
  BY ObjectFields DEF Versions, IInv, TypeOK
<1>2. Scanning /\ ~ScansMayFail => api'[v].sum \notin Flagged
  BY <1>1 DEF GuardInv, GateInv, Gated, Scanned
<1> QED BY <1>1, <1>2 DEF MayBeRecorded

LEMMA ControllerPublishes ==
    ASSUME IInv, IInv', GuardInv', Next, req' = req
    PROVE  [Atomic!Next]_<<recordedBar, downloadBar>>
<1>1. downloadBar' = downloadBar
  BY DEF downloadBar, DownloadOf, PhaseOf
<1>2. CASE \A v \in Providers : api'[v].sum = api[v].sum
  BY <1>1, <1>2 DEF recordedBar
<1>3. CASE \E v \in Providers : api'[v].sum # api[v].sum
  <2>1. PICK v \in Providers : api'[v].sum # api[v].sum
    BY <1>3
  <2>2. \A w \in Providers \ {v} : api'[w] = api[w]
    BY <2>1, OneVersionChanges DEF Versions
  <2>3. recordedBar' = [recordedBar EXCEPT ![v] = api'[v].sum]
    <3>1. \A w \in Providers : recordedBar'[w] = api'[w].sum /\ recordedBar[w] = api[w].sum
      BY DEF recordedBar
    <3>2. \A w \in Providers \ {v} : recordedBar'[w] = recordedBar[w]
      BY <2>2, <3>1
    <3>3. DOMAIN recordedBar = Providers /\ recordedBar = [w \in Providers |-> recordedBar[w]]
      BY DEF recordedBar
    <3>4. recordedBar' = [w \in Providers |-> recordedBar'[w]]
      BY DEF recordedBar
    <3>5. recordedBar' = [w \in Providers |-> IF w = v THEN api'[v].sum ELSE recordedBar[w]]
      BY <3>1, <3>2, <3>4, Zenon
    <3> QED BY <3>3, <3>5, Zenon
  <2>4. api'[v].sum \in MayBeRecorded \cup {None}
    BY RecordsClean
  <2>5. Atomic!Publish(v)
    BY <1>1, <2>3, <2>4 DEF Atomic!Publish
  <2> QED BY <2>1, <2>5 DEF Atomic!Next
<1> QED BY <1>2, <1>3

----------------------------------------------------------------------------
(***************************************************************************)
(* The server's steps.                                                     *)
(***************************************************************************)
\* An answer is a step of one download.
LEMMA AnswerMoves ==
    ASSUME RegistryTypeOK, NEW c \in Clients, NEW r, NEW q, req' = [req EXCEPT ![c] = r],
           api' = api, DownloadOf(r) = q
    PROVE  /\ downloadBar' = [downloadBar EXCEPT ![c] = q]
           /\ recordedBar' = recordedBar
           /\ downloadBar[c] = DownloadOf(req[c])
           /\ downloadBar'[c] = q
           /\ q = downloadBar[c] => downloadBar' = downloadBar
BY DEF RegistryTypeOK, downloadBar, recordedBar

LEMMA WaitingKept ==
    ASSUME RegistryTypeOK, WaitingInv, NEW c \in Clients, NEW r, req' = [req EXCEPT ![c] = r],
           Waiting(r)
    PROVE  WaitingInv'
BY DEF RegistryTypeOK, WaitingInv

LEMMA BareFields ==
    ASSUME NEW w, NEW p \in {"idle", "metadata", "url", "refused"}
    PROVE  /\ Opening(p, w).pc = p /\ Opening(p, w).want = w /\ Opening(p, w).body = None
           /\ Opening(p, w).promise.sum = None
BY DEF Opening, NoEntry

\* The record updates of the answers, field by field.
LEMMA AnsweredFields ==
    ASSUME NEW r \in Conversation, NEW e, NEW b, NEW p
    PROVE  /\ Promised(r, e).pc = "sums" /\ Promised(r, e).promise = e
           /\ Promised(r, e).want = r.want /\ Promised(r, e).body = r.body
           /\ Linked(r, e).pc = "check" /\ Linked(r, e).promise = r.promise
           /\ Linked(r, e).want = r.want /\ Linked(r, e).body = r.body
           /\ Satisfied(r, b).pc = "accepted" /\ Satisfied(r, b).promise = r.promise
           /\ Satisfied(r, b).want = r.want /\ Satisfied(r, b).body = b
           /\ [r EXCEPT !.pc = p].pc = p /\ [r EXCEPT !.pc = p].promise = r.promise
           /\ [r EXCEPT !.pc = p].want = r.want /\ [r EXCEPT !.pc = p].body = r.body
BY DEF Conversation, Promised, Linked, Satisfied

LEMMA EnrolledKeeps ==
    ASSUME NEW r \in Conversation, NEW e
    PROVE  /\ Enrolled(r, e).pc = "signature" /\ Enrolled(r, e).promise = r.promise
           /\ Enrolled(r, e).want = r.want /\ Enrolled(r, e).body = r.body
BY DEF Conversation, Enrolled

\* A refusal ends a download that was under way, or concerns a module.
LEMMA RefusalRefuses ==
    ASSUME RegistryTypeOK, WaitingInv, NEW c \in Clients, Refuse(c),
           req[c].pc \in {"metadata", "sums", "signature", "redirect", "url", "check", "stream"}
    PROVE  WaitingInv' /\ [Atomic!Next]_<<recordedBar, downloadBar>>
<1> DEFINE w == req[c].want
           r == Opening("refused", w)
           q == DownloadOf(r)
<1>1. req' = [req EXCEPT ![c] = r] /\ api' = api
  BY DEF Refuse, Answer, vars
<1>2. /\ r.pc = "refused" /\ r.want = w /\ r.body = None
      /\ r.promise.sum = None
  BY BareFields
<1>3. w = req[c].want
  OBVIOUS
<1> HIDE DEF r, w
<1>4. WaitingInv'
  BY <1>1, <1>2, WaitingKept DEF Waiting
<1>5. /\ downloadBar' = [downloadBar EXCEPT ![c] = q] /\ recordedBar' = recordedBar
      /\ downloadBar[c] = DownloadOf(req[c])
      /\ q = downloadBar[c] => downloadBar' = downloadBar
  BY <1>1, AnswerMoves
<1>6. CASE w \in Providers
  <2>1. /\ downloadBar[c].pc \in {"asked", "chosen"}
        /\ downloadBar[c].want = w
    BY <1>3, <1>5, <1>6, KindsAreDisjoint DEF DownloadOf, PhaseOf, WaitingInv, Waiting
  <2>2. q = Atomic!Phase("refused", downloadBar[c].want, None, None)
    BY <1>2, <1>6, <2>1 DEF DownloadOf, PhaseOf, Atomic!Phase
  <2> HIDE DEF q
  <2>3. Atomic!Refuse(c)
    BY <1>5, <2>1, <2>2 DEF Atomic!Refuse, Atomic!Step
  <2> QED BY <1>4, <2>3 DEF Atomic!Next
<1>7. CASE w \notin Providers
  BY <1>2, <1>3, <1>4, <1>5, <1>7 DEF DownloadOf
<1> QED BY <1>6, <1>7

\* An answer that leaves the download where it is.
LEMMA AnswerStutters ==
    ASSUME RegistryTypeOK, WaitingInv, NEW c \in Clients, NEW r, Answer(c, r),
           Waiting(r), DownloadOf(r) = DownloadOf(req[c])
    PROVE  WaitingInv' /\ [Atomic!Next]_<<recordedBar, downloadBar>>
<1>1. req' = [req EXCEPT ![c] = r] /\ api' = api
  BY DEF Answer, vars
<1>2. WaitingInv'
  BY <1>1, WaitingKept
<1> QED BY <1>1, <1>2, AnswerMoves

LEMMA NoneIsNoProvider == None \notin Providers
BY MarkersAreDistinct DEF Versions

LEMMA AskRefines ==
    ASSUME RegistryTypeOK, WaitingInv, NEW c \in Clients, NEW v \in Versions,
           NEW p \in {"metadata", "url"}, Ask(c, v, p),
           p = "url" => v \in Modules, p = "metadata" => v \in Providers
    PROVE  WaitingInv' /\ [Atomic!Next]_<<recordedBar, downloadBar>>
<1> DEFINE r == Opening(p, v)
           q == DownloadOf(r)
<1>0. req[c].pc = "idle"
  BY DEF Ask
<1>1. req' = [req EXCEPT ![c] = r] /\ api' = api
  BY DEF Ask, vars
<1>2. r.pc = p /\ r.want = v /\ r.body = None /\ r.promise.sum = None
  BY BareFields
<1> HIDE DEF r
<1>3. WaitingInv'
  BY <1>1, <1>2, WaitingKept DEF Waiting
<1>4. /\ downloadBar' = [downloadBar EXCEPT ![c] = q] /\ recordedBar' = recordedBar
      /\ downloadBar[c] = DownloadOf(req[c])
      /\ q = downloadBar[c] => downloadBar' = downloadBar
  BY <1>1, AnswerMoves
<1>5. downloadBar[c] = Atomic!NoDownload
  BY <1>0, <1>1, <1>4, NoneIsNoProvider DEF DownloadOf, WaitingInv, Waiting, Atomic!NoDownload,
       Atomic!Phase
<1>6. CASE p = "metadata"
  <2>1. q = Atomic!Phase("asked", v, None, None) /\ v \in Providers
    BY <1>2, <1>6 DEF DownloadOf, PhaseOf, Atomic!Phase
  <2>2. downloadBar[c].pc = "idle"
    BY <1>5 DEF Atomic!NoDownload, Atomic!Phase
  <2> HIDE DEF q
  <2>3. Atomic!Ask(c)
    BY <1>4, <2>1, <2>2 DEF Atomic!Ask, Atomic!Step
  <2> QED BY <1>3, <2>3 DEF Atomic!Next
<1>7. CASE p = "url"
  <2>1. q = Atomic!NoDownload
    BY <1>2, <1>7, KindsAreDisjoint DEF DownloadOf, Atomic!NoDownload, Atomic!Phase
  <2> HIDE DEF q
  <2> QED BY <1>3, <1>4, <1>5, <2>1
<1> QED BY <1>6, <1>7

LEMMA LeaveRefines ==
    ASSUME RegistryTypeOK, WaitingInv, NEW c \in Clients, Leave(c)
    PROVE  WaitingInv' /\ [Atomic!Next]_<<recordedBar, downloadBar>>
<1> DEFINE q == DownloadOf(Silence)
<1>1. req' = [req EXCEPT ![c] = Silence] /\ api' = api
  BY DEF Leave, Answer, vars
<1>2. Silence.pc = "idle" /\ Silence.want = None /\ Silence.body = None
  BY BareFields DEF Silence
<1>3. WaitingInv'
  BY <1>1, <1>2, WaitingKept DEF Waiting
<1>4. q = Atomic!NoDownload
  BY <1>2, NoneIsNoProvider DEF DownloadOf, Atomic!NoDownload, Atomic!Phase
<1>5. /\ downloadBar' = [downloadBar EXCEPT ![c] = q] /\ recordedBar' = recordedBar
      /\ downloadBar[c] = DownloadOf(req[c])
      /\ q = downloadBar[c] => downloadBar' = downloadBar
  BY <1>1, AnswerMoves
<1> HIDE DEF q
<1>6. CASE req[c].want \in Providers
  <2>1. downloadBar[c].pc # "idle"
    BY <1>5, <1>6 DEF DownloadOf, PhaseOf
  <2>2. Atomic!Leave(c)
    BY <1>4, <1>5, <2>1 DEF Atomic!Leave, Atomic!Step
  <2> QED BY <1>3, <2>2 DEF Atomic!Next
<1>7. CASE req[c].want \notin Providers
  <2>1. q = downloadBar[c]
    BY <1>4, <1>5, <1>7 DEF DownloadOf, Atomic!NoDownload, Atomic!Phase
  <2> QED BY <1>3, <1>5, <2>1
<1> QED BY <1>6, <1>7

\* The two steps with content.
LEMMA MetadataRefines ==
    ASSUME RegistryTypeOK, WaitingInv, NEW c \in Clients, req[c].pc = "metadata",
           NEW w \in Lookup(req[c].want), Told(w),
           Answer(c, Promised(req[c], EntryOf(w)))
    PROVE  WaitingInv' /\ [Atomic!Next]_<<recordedBar, downloadBar>>
<1> DEFINE e == EntryOf(w)
           r == Promised(req[c], e)
           q == DownloadOf(r)
<1>1. req' = [req EXCEPT ![c] = r] /\ api' = api
  BY DEF Answer, vars
<1>2. e.sum = api[w].sum /\ api[w].sum # None /\ w \in Providers
      /\ Release[w] = Release[req[c].want]
  BY DEF EntryOf, Told, Lookup
<1> HIDE DEF e
<1>3. r.pc = "sums" /\ r.want = req[c].want /\ r.body = None /\ r.promise = e
  BY AnsweredFields DEF RegistryTypeOK, WaitingInv, Waiting
<1> HIDE DEF r
<1>4. WaitingInv'
  BY <1>1, <1>3, WaitingKept DEF Waiting
<1>5. /\ downloadBar' = [downloadBar EXCEPT ![c] = q] /\ recordedBar' = recordedBar
      /\ downloadBar[c] = DownloadOf(req[c])
      /\ q = downloadBar[c] => downloadBar' = downloadBar
  BY <1>1, AnswerMoves
<1>6. CASE req[c].want \in Providers
  <2>1. downloadBar[c].pc = "asked" /\ downloadBar[c].want = req[c].want
    BY <1>5, <1>6 DEF DownloadOf, PhaseOf
  <2>2. recordedBar[w] = api[w].sum
    BY <1>2 DEF recordedBar
  <2>3. q = Atomic!Phase("chosen", downloadBar[c].want, recordedBar[w], None)
    BY <1>2, <1>3, <1>6, <2>1, <2>2 DEF DownloadOf, PhaseOf, Atomic!Phase
  <2> HIDE DEF q
  <2>4. Atomic!Choose(c)
    BY <1>2, <1>5, <2>1, <2>2, <2>3 DEF Atomic!Choose, Atomic!Step
  <2> QED BY <1>4, <2>4 DEF Atomic!Next
<1>7. CASE req[c].want \notin Providers
  BY <1>3, <1>4, <1>5, <1>7 DEF DownloadOf
<1> QED BY <1>6, <1>7

LEMMA StreamRefines ==
    ASSUME RegistryTypeOK, WaitingInv, NEW c \in Clients, NEW b, req[c].pc = "stream",
           Accepts(c, b), Answer(c, Satisfied(req[c], b))
    PROVE  WaitingInv' /\ [Atomic!Next]_<<recordedBar, downloadBar>>
<1> DEFINE r == Satisfied(req[c], b)
           q == DownloadOf(r)
<1>1. req' = [req EXCEPT ![c] = r] /\ api' = api
  BY DEF Answer, vars
<1>2. /\ r.pc = "accepted" /\ r.want = req[c].want /\ r.body = b
      /\ r.promise = req[c].promise
  BY AnsweredFields DEF RegistryTypeOK
<1> HIDE DEF r
<1>3. WaitingInv'
  BY <1>1, <1>2, WaitingKept DEF Waiting
<1>4. /\ downloadBar' = [downloadBar EXCEPT ![c] = q] /\ recordedBar' = recordedBar
      /\ downloadBar[c] = DownloadOf(req[c])
      /\ q = downloadBar[c] => downloadBar' = downloadBar
  BY <1>1, AnswerMoves
<1>5. CASE req[c].want \in Providers
  <2>1. /\ downloadBar[c].pc = "chosen" /\ downloadBar[c].want = req[c].want
        /\ downloadBar[c].choice = req[c].promise.sum
    BY <1>4, <1>5 DEF DownloadOf, PhaseOf
  <2>2. b = req[c].promise.sum
    BY <1>5 DEF Accepts
  <2>3. q = Atomic!Phase("done", downloadBar[c].want, downloadBar[c].choice,
                         downloadBar[c].choice)
    BY <1>2, <1>5, <2>1, <2>2 DEF DownloadOf, PhaseOf, Atomic!Phase
  <2> HIDE DEF q
  <2>4. Atomic!Deliver(c)
    BY <1>4, <2>1, <2>3 DEF Atomic!Deliver, Atomic!Step
  <2> QED BY <1>3, <2>4 DEF Atomic!Next
<1>6. CASE req[c].want \notin Providers
  BY <1>2, <1>3, <1>4, <1>6 DEF DownloadOf
<1> QED BY <1>5, <1>6

\* The answers between the promise and the bytes.
LEMMA ServerRefines ==
    ASSUME SafeInv, WaitingInv, NEW c \in Clients, ServerStep(c)
    PROVE  WaitingInv' /\ [Atomic!Next]_<<recordedBar, downloadBar>>
<1> DEFINE u == req[c].want
<1>0. /\ RegistryTypeOK /\ req[c] \in Conversation /\ Waiting(req[c])
  BY DEF SafeInv, RegistryTypeOK, WaitingInv
<1>1. CASE AskModule(c) \/ AskProvider(c)
  BY <1>0, <1>1, AskRefines DEF AskModule, AskProvider, Versions
<1>2. CASE Leave(c)
  BY <1>0, <1>2, LeaveRefines
<1>3. CASE GetDownloadModuleUrl(c)
  <2>1. req[c].pc = "url" /\ u \in Modules
    BY <1>0, <1>3 DEF GetDownloadModuleUrl, Waiting
  <2>2. CASE Answer(c, Linked(req[c], EntryOf(u)))
    <3>1. /\ Linked(req[c], EntryOf(u)).pc = "check" /\ Linked(req[c], EntryOf(u)).body = None
          /\ Linked(req[c], EntryOf(u)).want = u
      BY <1>0, <2>1, AnsweredFields DEF Waiting
    <3>2. DownloadOf(Linked(req[c], EntryOf(u))) = DownloadOf(req[c])
      BY <2>1, <3>1, KindsAreDisjoint DEF DownloadOf
    <3> QED BY <1>0, <2>2, <3>1, <3>2, AnswerStutters DEF Waiting
  <2> QED BY <1>0, <1>3, <2>1, <2>2, RefusalRefuses DEF GetDownloadModuleUrl, Linked
<1>4. CASE GetProviderPackageMetadata(c)
  BY <1>0, <1>4, RefusalRefuses, MetadataRefines DEF GetProviderPackageMetadata, Promised
<1>5. CASE GetProviderPackageSHA256SUMS(c)
  <2>1. ASSUME NEW e, Answer(c, Enrolled(req[c], e))
        PROVE  WaitingInv' /\ [Atomic!Next]_<<recordedBar, downloadBar>>
    <3>0. req[c].pc = "sums" /\ req[c].body = None
      BY <1>0, <1>5 DEF Waiting, GetProviderPackageSHA256SUMS
    <3> DEFINE r == Enrolled(req[c], e)
    <3>1. /\ r.pc = "signature" /\ r.body = None /\ r.want = u /\ r.promise = req[c].promise
      BY <1>0, <3>0, EnrolledKeeps
    <3> HIDE DEF r
    <3>2. DownloadOf(r) = DownloadOf(req[c])
      BY <3>0, <3>1 DEF DownloadOf, PhaseOf
    <3> QED BY <1>0, <2>1, <3>1, <3>2, AnswerStutters DEF Waiting, r
  <2> QED BY <1>0, <1>5, <2>1, RefusalRefuses DEF GetProviderPackageSHA256SUMS, Enrolled
<1>6. ASSUME NEW p \in {"redirect", "stream"}, Answer(c, [req[c] EXCEPT !.pc = p]),
             req[c].pc \in {"signature", "check"}
      PROVE  WaitingInv' /\ [Atomic!Next]_<<recordedBar, downloadBar>>
  <2> DEFINE r == [req[c] EXCEPT !.pc = p]
  <2>1. /\ r.pc = p /\ r.body = None /\ r.want = u /\ r.promise = req[c].promise
        /\ req[c].body = None
    BY <1>0, <1>6, AnsweredFields DEF Waiting
  <2> HIDE DEF r
  <2>2. DownloadOf(r) = DownloadOf(req[c])
    BY <1>6, <2>1 DEF DownloadOf, PhaseOf
  <2> QED BY <1>0, <1>6, <2>1, <2>2, AnswerStutters DEF Waiting, r
<1>7. CASE GetProviderPackageSHA256SUMSSignature(c)
  BY <1>0, <1>6, <1>7, RefusalRefuses DEF GetProviderPackageSHA256SUMSSignature
<1>8. CASE ServeProviderPackageDownload(c)
  <2>1. ASSUME NEW e, Answer(c, Linked(req[c], e))
        PROVE  WaitingInv' /\ [Atomic!Next]_<<recordedBar, downloadBar>>
    <3>0. req[c].pc = "redirect" /\ req[c].body = None
      BY <1>0, <1>8 DEF Waiting, ServeProviderPackageDownload
    <3> DEFINE r == Linked(req[c], e)
    <3>1. /\ r.pc = "check" /\ r.body = None /\ r.want = u /\ r.promise = req[c].promise
      BY <1>0, <3>0, AnsweredFields
    <3> HIDE DEF r
    <3>2. DownloadOf(r) = DownloadOf(req[c])
      BY <3>0, <3>1 DEF DownloadOf, PhaseOf
    <3> QED BY <1>0, <2>1, <3>1, <3>2, AnswerStutters DEF Waiting, r
  <2> QED BY <1>0, <1>8, <2>1, RefusalRefuses DEF ServeProviderPackageDownload, Linked
<1>9. CASE CheckObject(c)
  BY <1>0, <1>6, <1>9, RefusalRefuses DEF CheckObject
<1>10. CASE StreamObject(c)
  BY <1>0, <1>10, RefusalRefuses, StreamRefines DEF StreamObject, Satisfied
<1> QED BY <1>1, <1>2, <1>3, <1>4, <1>5, <1>7, <1>8, <1>9, <1>10 DEF ServerStep

----------------------------------------------------------------------------
LEMMA WaitingHolds == RegistrySpec => []WaitingInv
<1>1. RegistryInit => WaitingInv
  BY BareFields DEF RegistryInit, WaitingInv, Waiting, Silence
<1>2. ASSUME SafeInv, WaitingInv, [RegistryNext]_<<vars, serverVars>>
      PROVE  WaitingInv'
  BY <1>2, ServerRefines DEF RegistryNext, Disturbs, serverVars, WaitingInv
<1> QED BY <1>1, <1>2, SafeHolds, PTL DEF RegistrySpec

\* Seen from its clients the registry is AtomicDownload: whatever the Version
\* controller, its owners, upstream and crashes do between the five requests, a
\* provider's client gets the one clean archive that was recorded under the
\* release asked for when it was promised, or nothing.
THEOREM ImplementsAtomicDownload == RegistrySpec => DownloadsAreAtomic
<1>1. RegistryInit => Atomic!Init
  <2>1. ASSUME RegistryInit
        PROVE  recordedBar = [v \in Providers |-> None]
    BY <2>1 DEF RegistryInit, Init, recordedBar, NoVersion, Versions
  <2>2. ASSUME RegistryInit
        PROVE  downloadBar = [c \in Clients |-> Atomic!NoDownload]
    BY <2>2, BareFields, NoneIsNoProvider DEF RegistryInit, downloadBar, DownloadOf, Silence,
         Atomic!NoDownload, Atomic!Phase
  <2> QED BY <2>1, <2>2 DEF Atomic!Init
<1>2. ASSUME IInv, IInv', GuardInv', SafeInv, WaitingInv,
             [RegistryNext]_<<vars, serverVars>>
      PROVE  [Atomic!Next]_<<recordedBar, downloadBar>>
  <2>1. CASE Next /\ Disturbs
    BY <1>2, <2>1, ControllerPublishes DEF Disturbs
  <2>2. CASE UNCHANGED <<vars, serverVars>>
    <3>1. api' = api /\ req' = req
      BY <2>2 DEF vars, serverVars
    <3> QED BY <3>1 DEF recordedBar, downloadBar
  <2> QED BY <1>2, <2>1, <2>2, ServerRefines DEF RegistryNext
<1> QED BY <1>1, <1>2, ServerOnlyReads, Invariant, GuardHolds, SafeHolds, WaitingHolds, PTL
       DEF RegistrySpec, DownloadsAreAtomic, Atomic!Spec, Atomic!atomicVars
=============================================================================
