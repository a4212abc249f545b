------------------------------ MODULE PeerPool ------------------------------
(***************************************************************************)
(* The pool of peer sockets a daemon borrows its token from and broadcasts *)
(* to: internal/peer/pool.go over internal/peer/transport.go.              *)
(*                                                                         *)
(* A caller resolves the socket patterns and takes a snapshot of the       *)
(* active members under the lock, then dials without it.  A dial reaches   *)
(* whatever socket is at the path by then, may hang until its timeout, and *)
(* when it has failed the pool, under the lock again, evicts the member.   *)
(* In between the socket may be removed and created anew, other callers    *)
(* may resolve, and the watcher may note a change.  The caller brings a    *)
(* context of its own: once that is done, every further request fails      *)
(* without reaching its socket, and evicts all the same.                   *)
(*                                                                         *)
(* Time is discrete.  What needs no answer from a peer takes no time: the  *)
(* clock stands while a step of a caller is pending.                       *)
(***************************************************************************)
EXTENDS Naturals

CONSTANTS
    Paths,          \* numbers: the order of pattern, then name
    Callers,
    Ops,            \* what callers do: "borrow", "broadcast" or both
    Grace,          \* ReadinessGrace
    Probe,          \* EvictProbeInterval
    FetchTimeout, PostTimeout,
    Patience,       \* how long the contexts last that callers bring
    Watched,        \* the paths in directories that inotify watches
    ReuseIds,       \* the file system gives a freed inode to a new socket
    MaxTime, MaxIncs, MaxChanges    \* bounds: the clock, the sockets ever
                                    \* created, the changes of a peer's mode

ASSUME PathsAssumption == Paths \subseteq Nat
ASSUME OpsAssumption == Ops \subseteq {"borrow", "broadcast"}
ASSUME TimesAssumption ==
    {Grace, Probe, FetchTimeout, PostTimeout} \subseteq Nat \ {0}
ASSUME PatienceAssumption == Patience \subseteq Nat
ASSUME BoundsAssumption == {MaxTime, MaxIncs, MaxChanges} \subseteq Nat
ASSUME WatchedAssumption == Watched \subseteq Paths
ASSUME ReuseAssumption == ReuseIds \in BOOLEAN

VARIABLES
    sock,       \* what is at each path; inc 0: nothing
    incs,       \* how many sockets were ever created
    changes,    \* how often a peer changed its mode
    members,    \* the pool; id 0: no member
    events,     \* paths with an undelivered watch event
    call,       \* what each caller does
    now

world == <<sock, incs, changes>>
poolVars == <<world, members, events, call, now>>

Up == {"unauth", "serving"}
Modes == Up \cup {"bound", "hung", "dead"}
Answers == {"token", "ok", "rejected", "refused"}
Failures == {"fail", "cut"}     \* cut: the caller's own time was up
Steps == Answers \cup Failures \cup {"dial", "wait"}
Timeout == [borrow |-> FetchTimeout, broadcast |-> PostTimeout]
Slowest == IF FetchTimeout < PostTimeout THEN PostTimeout ELSE FetchTimeout

NoSocket == [inc |-> 0, id |-> 0, mtime |-> 0, mode |-> "dead",
             since |-> 0, faulty |-> FALSE, cut |-> FALSE]
NoMember == [id |-> 0, seen |-> 0, out |-> FALSE, at |-> 0]
Idle == [op |-> "idle", start |-> 0, ends |-> 0, todo |-> {}, flights |-> {},
         got |-> {}]

\* inc tells every socket from every other, id is what stat shows of it.
\* The rest is history: since when it is what it is and nobody took it dark for
\* want of time, whether it ever gave a caller reason to call it unreachable,
\* and whether a caller that was out of time took it dark.
Socket == [inc: Nat, id: Nat, mtime: Nat, mode: Modes, since: Nat,
           faulty: BOOLEAN, cut: BOOLEAN]
Member == [id: Nat, seen: Nat, out: BOOLEAN, at: Nat]
Ref == [path: Paths, id: Nat, seen: Nat]
Flight == [path: Paths, id: Nat, step: Steps, inc: Nat, until: Nat]
Call == [op: Ops \cup {"idle"}, start: Nat, ends: Nat, todo: SUBSET Ref,
         flights: SUBSET Flight, got: SUBSET (Answers \cup Failures)]

PoolTypes ==
    /\ sock \in [Paths -> Socket]
    /\ incs \in Nat /\ changes \in Nat
    /\ members \in [Paths -> Member]
    /\ events \in SUBSET Paths
    /\ call \in [Callers -> Call]
    /\ now \in Nat
    /\ \A p \in Paths : members[p].at <= now /\ sock[p].mtime <= now

PoolInit ==
    /\ sock = [p \in Paths |-> NoSocket]
    /\ incs = 0 /\ changes = 0
    /\ members = [p \in Paths |-> NoMember]
    /\ events = {}
    /\ call = [c \in Callers |-> Idle]
    /\ now = 0

There(p) == sock[p].inc # 0

-----------------------------------------------------------------------------
(* The file system and the peers behind the sockets.                       *)

LiveIds == {sock[p].id : p \in Paths}
NewIds == {incs + 1} \cup (IF ReuseIds THEN (1..incs) \ LiveIds ELSE {})

\* A forward binds its socket: created, watched, not yet connectable.
Bind(p, id) ==
    /\ ~There(p) /\ incs < MaxIncs
    /\ incs' = incs + 1
    /\ sock' = [sock EXCEPT ![p] = [inc |-> incs + 1, id |-> id,
                                    mtime |-> now, mode |-> "bound",
                                    since |-> now, faulty |-> FALSE,
                                    cut |-> FALSE]]
    /\ events' = events \cup (Watched \cap {p})
    /\ UNCHANGED <<changes, members, call, now>>

Unbind(p) ==
    /\ There(p)
    /\ sock' = [sock EXCEPT ![p] = NoSocket]
    /\ UNCHANGED <<incs, changes, members, events, call, now>>

\* listen() follows bind() within the grace in a healthy forward.
LateListen(p, mode) == /\ sock[p].mode = "bound" /\ mode \in Up
                       /\ now - sock[p].mtime >= Grace

Moves == ({"bound", "hung"} \X Up) \cup (Up \X (Up \cup {"hung"}))
             \cup ((Modes \ {"dead"}) \X {"dead"})

\* The peer starts listening, logs in or out, stalls, recovers or exits.
Change(p, mode) ==
    /\ There(p) /\ <<sock[p].mode, mode>> \in Moves /\ mode # sock[p].mode
    /\ changes < MaxChanges /\ changes' = changes + 1
    /\ sock' = [sock EXCEPT ![p].mode = mode, ![p].since = now,
                            ![p].faulty = @ \/ mode \in {"hung", "dead"}
                                            \/ LateListen(p, mode)]
    /\ UNCHANGED <<incs, members, events, call, now>>

-----------------------------------------------------------------------------
(* The pool, under its lock.                                               *)

Admitted(id, seen) == [id |-> id, seen |-> seen, out |-> FALSE, at |-> 0]
Later(t, u) == IF t > u THEN t ELSE u

\* Mutant: an eviction is for ever.
ProbeNever(m) == FALSE

ProbeDue(m) == m.out /\ now - m.at >= Probe

\* One path of resolveLocked: dropped, admitted, readmitted because it is
\* another socket, readmitted to be probed, or left alone.
ResolvedAt(p) ==
    LET s == sock[p]
        m == members[p] IN
    CASE ~There(p) -> NoMember
      [] There(p) /\ m.id = 0 -> Admitted(s.id, s.mtime)
      [] There(p) /\ m.id # 0 /\ m.id # s.id
             -> Admitted(s.id, Later(s.mtime, m.seen))
      [] There(p) /\ m.id = s.id
             -> IF ProbeDue(m) THEN Admitted(m.id, m.seen) ELSE m

Resolved == [p \in Paths |-> ResolvedAt(p)]

Active(ms) == {[path |-> p, id |-> ms[p].id, seen |-> ms[p].seen] :
                   p \in {q \in Paths : ms[q].id # 0 /\ ~ms[q].out}}

\* The order of activeLocked: most recently seen first, then pattern, name.
Before(r, q) == \/ r.seen > q.seen
                \/ r.seen = q.seen /\ r.path <= q.path

\* Mutant: the failure is believed of whatever is under the name by now.
EvictByName(m, id) == m.id # 0 /\ ~m.out /\ now - m.seen >= Grace

\* What evict requires of a member before it believes the failure.
Evictable(m, id) == /\ m.id # 0 /\ ~m.out
                    /\ m.id = id
                    /\ now - m.seen >= Grace

Evicted(p, id) ==
    IF Evictable(members[p], id)
    THEN [members EXCEPT ![p].out = TRUE, ![p].at = now]
    ELSE members

-----------------------------------------------------------------------------
(* Callers.                                                                *)

\* The context the caller brought is done.
Spent(k) == now >= k.ends

Launch(r) == [path |-> r.path, id |-> r.id, step |-> "dial", inc |-> 0,
              until |-> 0]

\* Resolve and take the snapshot.  Borrow works through it one by one,
\* Broadcast posts to all of it at once.
Start(c, op, patience) ==
    /\ call[c].op = "idle"
    /\ members' = Resolved
    /\ call' = [call EXCEPT ![c] =
           [op |-> op, start |-> now, ends |-> now + patience, got |-> {},
            todo |-> IF op = "borrow" THEN Active(Resolved) ELSE {},
            flights |-> IF op = "borrow" THEN {}
                        ELSE {Launch(r) : r \in Active(Resolved)}]]
    /\ UNCHANGED <<world, events, now>>

\* Resolve and Status leave only their resolution behind.
Report ==
    /\ members' = Resolved
    /\ UNCHANGED <<world, events, call, now>>

BorrowNext(c, r) ==
    /\ call[c].op = "borrow" /\ call[c].flights = {}
    /\ "token" \notin call[c].got
    /\ r \in call[c].todo /\ \A q \in call[c].todo : Before(r, q)
    /\ call' = [call EXCEPT ![c].todo = @ \ {r}, ![c].flights = {Launch(r)}]
    /\ UNCHANGED <<world, members, events, now>>

AnswersOf(p, op) ==
    IF op = "broadcast" THEN {"ok", "rejected", "refused"}
    ELSE IF sock[p].mode = "serving" THEN {"token"} ELSE {"refused"}

Becomes(c, f, g) ==
    /\ call' = [call EXCEPT ![c].flights = (@ \ {f}) \cup {g}]
    /\ UNCHANGED <<world, members, events, now>>

\* Client's stat and the dial: refused without a listener, answered by a
\* peer that is up, otherwise it hangs.
Dial(c, f) ==
    /\ f.step = "dial" /\ ~Spent(call[c])
    /\ LET s == sock[f.path] IN
       \/ /\ ~There(f.path) \/ s.mode \in {"bound", "dead"}
          /\ Becomes(c, f, [f EXCEPT !.step = "fail"])
       \/ /\ There(f.path) /\ s.mode \in Up
          /\ \E a \in AnswersOf(f.path, call[c].op) :
                 Becomes(c, f, [f EXCEPT !.step = a])
       \/ /\ There(f.path) /\ s.mode = "hung"
          /\ Becomes(c, f, [f EXCEPT !.step = "wait", !.inc = s.inc,
                                     !.until = now + Timeout[call[c].op]])

\* The next member of a Borrow whose context the members before it used up:
\* the request fails with the context's error, whoever listens.
CutShort(c, f) ==
    /\ f.step = "dial" /\ Spent(call[c])
    /\ Becomes(c, f, [f EXCEPT !.step = "cut"])

\* A hung request is answered late, reset when its peer goes, or times out:
\* the earlier of the pool's deadline and the caller's.
Hang(c, f) ==
    /\ f.step = "wait"
    /\ LET s == sock[f.path] IN
       \/ /\ s.inc = f.inc /\ s.mode \in Up
          /\ \E a \in AnswersOf(f.path, call[c].op) :
                 Becomes(c, f, [f EXCEPT !.step = a])
       \/ /\ now = f.until \/ Spent(call[c]) \/ s.inc # f.inc \/ s.mode = "dead"
          /\ Becomes(c, f, [f EXCEPT !.step = "fail"])

\* What the history keeps of an eviction for want of time.
TakenDark(p, id) ==
    IF Evictable(members[p], id) /\ sock[p].id = id
    THEN [sock EXCEPT ![p].cut = TRUE, ![p].since = now] ELSE sock

\* The caller has the outcome; a transport failure evicts, also one that is
\* only the end of the caller's own context.
Collect(c, f) ==
    /\ f.step \in Answers \cup Failures
    /\ members' = IF f.step \in Failures THEN Evicted(f.path, f.id) ELSE members
    /\ sock' = IF f.step = "cut" THEN TakenDark(f.path, f.id) ELSE sock
    /\ call' = [call EXCEPT ![c].flights = @ \ {f},
                            ![c].got = @ \cup {f.step}]
    /\ UNCHANGED <<incs, changes, events, now>>

Finished(c) == /\ call[c].op # "idle" /\ call[c].flights = {}
               /\ call[c].todo = {} \/ "token" \in call[c].got

Return(c) ==
    /\ Finished(c)
    /\ call' = [call EXCEPT ![c] = Idle]
    /\ UNCHANGED <<world, members, events, now>>

-----------------------------------------------------------------------------
\* The watcher's callback: admit or refresh, and clear any eviction.
NoteSeen(p) ==
    /\ p \in events
    /\ events' = events \ {p}
    /\ members' = IF There(p)
                  THEN [members EXCEPT ![p] = Admitted(sock[p].id, now)]
                  ELSE members
    /\ UNCHANGED <<world, call, now>>

\* No caller has a step to take but to wait for an answer.
Quiet == \A c \in Callers :
    /\ ~Finished(c)
    /\ call[c].op = "borrow" => call[c].flights # {}
    /\ \A f \in call[c].flights :
           f.step = "wait" /\ now < f.until /\ ~Spent(call[c])

Advance ==
    /\ now < MaxTime /\ Quiet
    /\ now' = now + 1
    /\ UNCHANGED <<world, members, events, call>>

Step(c) ==
    \/ \E op \in Ops, patience \in Patience : Start(c, op, patience)
    \/ \E r \in call[c].todo : BorrowNext(c, r)
    \/ \E f \in call[c].flights :
           Dial(c, f) \/ CutShort(c, f) \/ Hang(c, f) \/ Collect(c, f)
    \/ Return(c)

World(p) ==
    \/ \E id \in NewIds : Bind(p, id)
    \/ Unbind(p)
    \/ \E mode \in Modes : Change(p, mode)
    \/ NoteSeen(p)

PoolNext == (\E c \in Callers : Step(c)) \/ (\E p \in Paths : World(p))
            \/ Report \/ Advance

PoolSpec == PoolInit /\ [][PoolNext]_poolVars

-----------------------------------------------------------------------------
(* Properties.                                                             *)

Dark(p) == /\ There(p) /\ sock[p].mode \in Up
           /\ members[p].id = sock[p].id /\ members[p].out

\* A socket that has answered ever since it began to listen is out of rotation
\* for one reason only, a Borrow or Broadcast whose own context was done before
\* its request: neither the dial that met it between bind() and listen(), nor
\* one that hung on the socket it replaced, takes it dark (evict).
HealthyStays == \A p \in Paths : Dark(p) => sock[p].faulty \/ sock[p].cut

\* The pool "evicts the unreachable and readmits them when they come back"
\* (pool.go's comment on Pool): nobody who is reachable, and always was.  False
\* where hung members use up the context of a Borrow.
OnlyUnreachable == \A p \in Paths : Dark(p) => sock[p].faulty

\* What a call that heard nothing had to hear: a peer that could have
\* answered since the longest eviction before the call began had run out.
LongUp(p, modes, start) == /\ There(p) /\ sock[p].mode \in modes
                           /\ sock[p].since + Slowest + Probe <= start

\* An eviction is "a re-probe window, not a verdict": a borrow that found no
\* token, or a broadcast that got no answer, although its caller still had
\* time, missed no peer that had been ready, and not taken dark for want of
\* time, for a timeout and a probe interval before it started.
ServingFound == \A c \in Callers : Finished(c) /\ ~Spent(call[c]) =>
    /\ call[c].op = "borrow" /\ "token" \notin call[c].got
           => \A p \in Paths : ~LongUp(p, {"serving"}, call[c].start)
    /\ call[c].op = "broadcast" /\ call[c].got \cap Answers = {}
           => \A p \in Paths : ~LongUp(p, Up, call[c].start)

\* What the pool owes callers and peers: nobody healthy is kept dark and nobody
\* who serves is missed.
PoolSound == PoolTypes /\ HealthyStays /\ ServingFound
=============================================================================
