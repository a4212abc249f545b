----------------------------- MODULE NoticeMesh -----------------------------
(***************************************************************************)
(* Secret-write notices between daemons: the hub and the deduplication     *)
(* table of internal/events, the relay's handle in internal/peer/events.go *)
(* and their wiring in cmd/dotvault/secretevents.go.                       *)
(*                                                                         *)
(* A daemon that writes a secret announces the version on its hub.  A      *)
(* daemon listening to it acts on a notice it has not seen: it syncs, asks *)
(* its other peers to sync, and announces the notice again.  A stream      *)
(* holds what its subscriber has not read; a full one drops.               *)
(***************************************************************************)
EXTENDS Naturals, Sequences, FiniteSets

CONSTANTS
    Nodes, Keys,
    Writers,        \* the nodes with an enrolment that writes secrets
    Streams,        \* <<a, b>>: b is subscribed to the hub of a
    Window,         \* seenPerKey
    MaxSeenKeys,
    Buffer,         \* subscriberBuffer, and what the connection holds
    MaxWrites,      \* bound: the versions of a key in one life
    MaxUpsets       \* bound: wiped secrets and broken streams

ASSUME StreamsAssumption ==
    Streams \subseteq {s \in Nodes \X Nodes : s[1] # s[2]}
ASSUME WritersAssumption == Writers \subseteq Nodes
ASSUME SizesAssumption == {Window, MaxSeenKeys, Buffer} \subseteq Nat \ {0}
ASSUME BoundsAssumption == {MaxWrites, MaxUpsets} \subseteq Nat

VARIABLES
    vault,      \* per key: its life (a wiped secret starts another), version
    seen,       \* per node and key: the recent versions
    up, stream, \* the connected streams and what they hold
    asked,      \* nodes a relay is about to ask for a sync
    due,        \* nodes whose sync was triggered
    stale,      \* <<n, k>>: the last sync of n read an older value of k
    told,       \* history: how often a node announced a write, up to 3
    upsets

meshVars == <<vault, seen, up, stream, asked, due, stale, told, upsets>>

Events == [key: Keys, life: 0..MaxUpsets, version: 1..MaxWrites]
Times == 0..3

MeshTypes ==
    /\ vault \in [Keys -> [life: 0..MaxUpsets, version: 0..MaxWrites]]
    /\ seen \in [Nodes -> [Keys -> Seq(1..MaxWrites)]]
    /\ \A n \in Nodes, k \in Keys : Len(seen[n][k]) <= Window
    /\ \A n \in Nodes :
           Cardinality({k \in Keys : seen[n][k] # <<>>}) <= MaxSeenKeys
    /\ up \subseteq Streams
    /\ stream \in [Streams -> Seq(Events)]
    /\ \A s \in Streams : /\ Len(stream[s]) <= Buffer
                         /\ s \notin up => stream[s] = <<>>
    /\ asked \subseteq Nodes /\ due \subseteq Nodes
    /\ stale \subseteq Nodes \X Keys
    /\ told \in [Nodes -> [Events -> Times]]
    /\ upsets \in 0..MaxUpsets

MeshInit ==
    /\ vault = [k \in Keys |-> [life |-> 0, version |-> 0]]
    /\ seen = [n \in Nodes |-> [k \in Keys |-> <<>>]]
    /\ up = Streams
    /\ stream = [s \in Streams |-> <<>>]
    /\ asked = {} /\ due = {}
    /\ stale = {}
    /\ told = [n \in Nodes |-> [e \in Events |-> 0]]
    /\ upsets = 0

-----------------------------------------------------------------------------
(* Seen.                                                                   *)

Recent(w) == {w[i] : i \in 1..Len(w)}

\* Mutant: nothing is recognised.
NewAlways(w, v) == TRUE

\* Admit lets a version in that is not among the recent ones.
New(w, v) == v \notin Recent(w)

Newest(w) == IF Len(w) > Window THEN SubSeq(w, Len(w) - Window + 1, Len(w))
             ELSE w

\* A version below all of the window begins a new life.
Recorded(w, v) == IF w # <<>> /\ \A u \in Recent(w) : v < u THEN <<v>>
                  ELSE Newest(Append(w, v))

\* The table after Admit let e in: reset first when it is full of keys.
Full(tbl) == Cardinality({k \in Keys : tbl[k] # <<>>}) >= MaxSeenKeys
Admitted(tbl, e) ==
    LET base == IF tbl[e.key] = <<>> /\ Full(tbl)
                THEN [k \in Keys |-> <<>>] ELSE tbl
    IN [base EXCEPT ![e.key] = Recorded(tbl[e.key], e.version)]

-----------------------------------------------------------------------------
(* Hub.                                                                    *)

\* A notice that finds its subscriber's buffer full is dropped.
Offer(q, e) == IF Len(q) < Buffer THEN Append(q, e) ELSE q

\* Publish: every subscriber of n gets e, without waiting for any.
Published(n, e, held) ==
    [s \in Streams |-> IF s[1] = n /\ s \in up THEN Offer(held[s], e)
                       ELSE held[s]]

Tell(n, e) == told' = [told EXCEPT ![n][e] = IF @ < 3 THEN @ + 1 ELSE @]

\* Node n acts on a notice: it syncs and announces it.
Act(n, e, held) ==
    /\ seen' = [seen EXCEPT ![n] = Admitted(seen[n], e)]
    /\ stream' = Published(n, e, held)
    /\ Tell(n, e)
    /\ due' = due \cup {n}

-----------------------------------------------------------------------------
\* A local write: secretChangeHook syncs, and announces what Seen admits.
Write(n, k) ==
    /\ vault[k].version < MaxWrites
    /\ vault' = [vault EXCEPT ![k].version = @ + 1]
    /\ LET e == [key |-> k, life |-> vault[k].life,
                 version |-> vault[k].version + 1] IN
       IF New(seen[n][k], e.version)
       THEN Act(n, e, stream)
       ELSE /\ due' = due \cup {n}
            /\ UNCHANGED <<seen, stream, told>>
    /\ stale' = stale \cup (Nodes \X {k})
    /\ UNCHANGED <<up, asked, upsets>>

\* A revoked secret is wiped; its next write is version 1 of a new life.
Wipe(k) ==
    /\ upsets < MaxUpsets /\ vault[k].version > 0
    /\ upsets' = upsets + 1
    /\ vault' = [vault EXCEPT ![k] = [life |-> @.life + 1, version |-> 0]]
    /\ stale' = stale \cup (Nodes \X {k})
    /\ UNCHANGED <<seen, up, stream, asked, due, told>>

\* Mutant: only the daemon itself syncs.
FanOutNone(b, source) == {}

\* The other members of b's pool, to be asked for a sync.
FanOut(b, source) == {m \in Nodes \ {source} : <<m, b>> \in Streams}

\* The relay of s[2] handles the next notice of its stream from s[1].
Handle(s) ==
    /\ s \in up /\ stream[s] # <<>>
    /\ LET e == Head(stream[s])
           b == s[2]
           held == [stream EXCEPT ![s] = Tail(@)] IN
       IF New(seen[b][e.key], e.version)
       THEN /\ Act(b, e, held)
            /\ asked' = asked \cup FanOut(b, s[1])
       ELSE /\ stream' = held
            /\ UNCHANGED <<seen, told, due, asked>>
    /\ UNCHANGED <<vault, up, stale, upsets>>

\* PostSync reaches its peer, which syncs and announces nothing.
PostSync(m) ==
    /\ m \in asked
    /\ asked' = asked \ {m} /\ due' = due \cup {m}
    /\ UNCHANGED <<vault, seen, up, stream, stale, told, upsets>>

\* A sync reads Vault.
Sync(n) ==
    /\ n \in due
    /\ due' = due \ {n}
    /\ stale' = stale \ ({n} \X Keys)
    /\ UNCHANGED <<vault, seen, up, stream, asked, told, upsets>>

\* A stream ends, with what it held, and is opened again.
Break(s) ==
    /\ s \in up /\ upsets < MaxUpsets
    /\ upsets' = upsets + 1
    /\ up' = up \ {s} /\ stream' = [stream EXCEPT ![s] = <<>>]
    /\ UNCHANGED <<vault, seen, asked, due, stale, told>>

Subscribe(s) ==
    /\ s \in Streams \ up
    /\ up' = up \cup {s}
    /\ UNCHANGED <<vault, seen, stream, asked, due, stale, told, upsets>>

MeshNext ==
    \/ \E n \in Writers, k \in Keys : Write(n, k)
    \/ \E n \in Nodes : PostSync(n) \/ Sync(n)
    \/ \E k \in Keys : Wipe(k)
    \/ \E s \in Streams : Handle(s) \/ Break(s) \/ Subscribe(s)

MeshSafety == MeshInit /\ [][MeshNext]_meshVars

\* Streams are read, requests and syncs run, ended streams are reopened;
\* nobody has to write or to break anything.
MeshFairness ==
    /\ \A s \in Streams : WF_meshVars(Handle(s)) /\ WF_meshVars(Subscribe(s))
    /\ \A n \in Nodes : WF_meshVars(PostSync(n)) /\ WF_meshVars(Sync(n))

MeshSpec == MeshSafety /\ MeshFairness

-----------------------------------------------------------------------------
(* Properties.                                                             *)

\* A daemon announces a write of its own or of a peer at most once more than
\* it has to, when an older notice overtaken by it clears the window.
FewEchoes == \A n \in Nodes, e \in Events : told[n][e] <= 2

\* A write anywhere is in the end synced by everyone the relays can reach, as
\* long as no buffer overflows.  A broken stream loses notices, and a wiped
\* secret's first versions pass for old ones; then the poll has to catch up.
Informed == \A n \in Nodes, k \in Keys :
    []<>(upsets = 0 => <<n, k>> \notin stale)

\* The mesh of daemons: a write is announced at most once too often and reaches
\* everyone the relays lead to.
MeshInforms == [](MeshTypes /\ FewEchoes) /\ (MeshFairness => Informed)
=============================================================================
