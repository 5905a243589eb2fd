--------------------------- MODULE AtomicDownload ---------------------------
(***************************************************************************)
(* What a registry of provider binaries promises its clients, with all the *)
(* requests and all the controllers left out.                              *)
(*                                                                         *)
(* A binary becomes available in one step, and only if it is clean.  A     *)
(* client asks for a release; at one moment the registry chooses a binary  *)
(* that is available under this release at that moment; the client gets    *)
(* exactly this one, or nothing.  What happens to the release after the    *)
(* moment of choice does not mix with the answer.                          *)
(***************************************************************************)
CONSTANTS
    Clients,
    Providers,    \* the binaries there can be, one for each release, os and arch
    Release,      \* Release[v]: the release v is a binary of
    Clean,        \* the archives that may be made available
    None

VARIABLES
    recorded,     \* recorded[v]: the archive available as v, or None
    download      \* download[c]: the download of client c

atomicVars == <<recorded, download>>

Phase(pc, v, choice, body) == [pc |-> pc, want |-> v, choice |-> choice, body |-> body]

NoDownload == Phase("idle", None, None, None)

Publish(v) ==
    /\ \E a \in Clean \cup {None} : recorded' = [recorded EXCEPT ![v] = a]
    /\ UNCHANGED download

Step(c, d) ==
    /\ download' = [download EXCEPT ![c] = d]
    /\ UNCHANGED recorded

Ask(c) ==
    /\ download[c].pc = "idle"
    /\ \E v \in Providers : Step(c, Phase("asked", v, None, None))

Choose(c) ==
    /\ download[c].pc = "asked"
    /\ \E w \in Providers :
          /\ Release[w] = Release[download[c].want]
          /\ recorded[w] # None
          /\ Step(c, Phase("chosen", download[c].want, recorded[w], None))

Deliver(c) ==
    /\ download[c].pc = "chosen"
    /\ Step(c, Phase("done", download[c].want, download[c].choice, download[c].choice))

Refuse(c) ==
    /\ download[c].pc \in {"asked", "chosen"}
    /\ Step(c, Phase("refused", download[c].want, None, None))

Leave(c) ==
    /\ download[c].pc # "idle"
    /\ Step(c, NoDownload)

Init ==
    /\ recorded = [v \in Providers |-> None]
    /\ download = [c \in Clients |-> NoDownload]

Next ==
    \/ \E v \in Providers : Publish(v)
    \/ \E c \in Clients : Ask(c) \/ Choose(c) \/ Deliver(c) \/ Refuse(c) \/ Leave(c)

Spec == Init /\ [][Next]_atomicVars
=============================================================================
