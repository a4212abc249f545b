----------------------------- MODULE SSHForward -----------------------------
(***************************************************************************)
(* The managed SSH forwards of one remote host (internal/sshfwd): the      *)
(* Registry that owns ssh.yaml and verifies host keys, the Manager that    *)
(* reconciles the running set with the file, the goroutine of each         *)
(* ManagedRemote, and the socket it binds on the remote, which other       *)
(* sessions bind too.  Host names are case-folded into one key, so hosts   *)
(* do not interact except through the transaction lock; one host shows     *)
(* every interleaving of the operations on it.                             *)
(***************************************************************************)
EXTENDS Naturals

CONSTANTS
    Keys,          \* host keys a server may present
    Trusted,       \* those of them a user confirms or supplies
    Requests,      \* the bodies of POST /ssh/remotes: [port, force, key, accept]
    Callers,       \* concurrent HTTP handlers in Add
    Ports,         \* stands for the fields of a Remote that need no trust
    Policies,      \* sshd set-ups: "full", "nodirect", "noexec"
    HostCAs,       \* whether certificate_authorities is configured
    MaxDisturbances \* requests, edits, faults and shutdowns of a behaviour

ASSUME KeysAssumption ==
    /\ Trusted \subseteq Keys
    /\ Keys \cap {"none", "cert"} = {}

ASSUME RequestsAssumption ==
    Requests \subseteq [port: Ports, force: BOOLEAN, key: Trusted \cup {"none"},
                        accept: Trusted \cup {"none"}]

ASSUME StartAssumption == Trusted # {} /\ Ports # {}

ASSUME PoliciesAssumption ==
    /\ Policies \subseteq {"full", "nodirect", "noexec"}
    /\ HostCAs \in BOOLEAN
    /\ MaxDisturbances \in Nat

NoPin == "none"

Absent == [port |-> 0, pin |-> NoPin, on |-> FALSE]

Entries == [port: Ports, pin: Keys \cup {NoPin}, on: BOOLEAN]

VARIABLES
    file,       \* the entry of the host in ssh.yaml, or Absent
    dirty,      \* ssh.yaml was edited by hand since a transaction read or wrote it
    tx,         \* the holder of Registry.txMu and how far it is
    call,       \* what each concurrent Add has read and decided
    deferred,   \* deferReconcile goroutines still waiting
    remote,     \* Manager.remotes[host]: its cfg and the number of its runner
    closed,     \* Manager.closed
    closing,    \* how far Close is, and the runner it waits for
    runner,     \* the goroutines of ManagedRemote, by number
    relay,      \* one forwarded connection of the serving runner
    socket,     \* what is at the socket path on the remote
    server,     \* the key the remote presents, its sshd set-up
    insecure,   \* insecure_ignore_host_key
    base,       \* the daemon's context is cancelled
    left        \* disturbances that remain

regVars == <<file, dirty, tx, call, deferred>>

mgrVars == <<remote, closed, closing>>

runVars == <<runner, relay, socket>>

envVars == <<server, insecure, base>>

vars == <<regVars, mgrVars, runVars, envVars, left>>

Ids == {1, 2}

Unmanaged == [cfg |-> Absent, id |-> 0]

Idle == [pc |-> "idle", base |-> Absent, want |-> Absent, save |-> FALSE,
         later |-> FALSE, repin |-> FALSE, victim |-> 0]

NoRequest == [port |-> 0, force |-> FALSE, key |-> NoPin, accept |-> NoPin]

NoCall == [pc |-> "idle", req |-> NoRequest, seen |-> NoPin, pin |-> NoPin]

Exited == [cfg |-> Absent, pc |-> "exited", cancelled |-> FALSE]

NoRelay == [pc |-> "none", cut |-> FALSE, drained |-> FALSE]

RunnerPcs == {"exited", "connect", "bind", "probe", "unlink", "rebind", "serve",
              "drain", "sleep"}

Maybe(S) == S \cup {Absent}

RegTypes ==
    /\ file \in Maybe(Entries)
    /\ dirty \in BOOLEAN
    /\ tx \in [pc: {"idle", "loaded", "stop", "stopping"}, base: Maybe(Entries),
               want: Maybe(Entries), save: BOOLEAN, later: BOOLEAN,
               repin: BOOLEAN, victim: {0} \cup Ids]
    /\ call \in [Callers -> [pc: {"idle", "verify", "proof", "commit"},
                             req: Requests \cup {NoRequest},
                             seen: Keys \cup {NoPin}, pin: Keys \cup {NoPin}]]
    /\ \A c \in Callers : call[c].pc # "idle" => call[c].req \in Requests
    /\ deferred \in Nat

MgrTypes ==
    /\ remote \in [cfg: Maybe(Entries), id: {0} \cup Ids]
    /\ closed \in BOOLEAN
    /\ closing \in [pc: {"no", "wait", "done"}, id: {0} \cup Ids]

RunTypes ==
    /\ runner \in [Ids -> [cfg: Maybe(Entries), pc: RunnerPcs, cancelled: BOOLEAN]]
    /\ relay \in [pc: {"none", "accepted", "dialing", "pumping"}, cut: BOOLEAN, drained: BOOLEAN]
    /\ socket \in [at: {"free", "stale", "foreign", "ghost", "proof", "own"}, id: {0} \cup Ids]

EnvTypes ==
    /\ server \in [key: Keys \cup {"cert"}, policy: Policies]
    /\ insecure \in BOOLEAN
    /\ base \in BOOLEAN
    /\ left \in Nat

TypeOK == RegTypes /\ MgrTypes /\ RunTypes /\ EnvTypes

Disturb ==
    /\ left > 0
    /\ left' = left - 1

-----------------------------------------------------------------------------
(***************************************************************************)
(* Host keys.  HostKeyPolicy.Callback with the pin it was built from: it   *)
(* accepts, or reports the key as unknown (the only outcome a user may     *)
(* confirm), or rejects.                                                   *)
(***************************************************************************)
Accepts(pin) ==
    \/ insecure
    \/ server.key = "cert" /\ HostCAs
    \/ server.key # "cert" /\ server.key = pin

Unknown(pin) == ~insecure /\ server.key # "cert" /\ pin = NoPin

Connected(i) == runner[i].pc \in {"bind", "probe", "unlink", "rebind", "serve"}

\* Registry.alreadyConnected: Status of the remote the manager has now.
AlreadyConnected == remote.id # 0 /\ Connected(remote.id)

Socket(at) == [at |-> at, id |-> 0]

Owned(i) == [at |-> "own", id |-> i]

-----------------------------------------------------------------------------
(***************************************************************************)
(* Registry.Add.  The stored pin is read and the host verified with no     *)
(* lock held; the commit takes txMu, reloads the file and compares the pin *)
(* with the one that was read.                                             *)
(***************************************************************************)
AddStart(c) ==
    /\ call[c].pc = "idle"
    /\ Disturb
    /\ \E r \in Requests :
        call' = [call EXCEPT ![c] =
            [pc   |-> IF r.force THEN "commit" ELSE "verify",
             req  |-> r,
             seen |-> file.pin,
             pin  |-> IF r.key = NoPin THEN file.pin ELSE r.key]]
    /\ UNCHANGED <<file, dirty, tx, deferred, mgrVars, runVars, envVars>>

Refused(c) == call' = [call EXCEPT ![c] = NoCall]

\* Verify is done; pin is the key this Add will store.
Verified(c, pin) == call' = [call EXCEPT ![c] = [@ EXCEPT !.pc = "commit", !.pin = pin]]

\* Mutant: any confirmation will do, whichever key it was about.
AddConfirmAny(c) ==
    /\ Unknown(call[c].pin)
    /\ IF call[c].req.accept # NoPin
          THEN Verified(c, server.key)
          ELSE Refused(c)
    /\ UNCHANGED socket

\* An unpinned host: the fingerprint the user sends must be the key's own.
AddConfirm(c) ==
    /\ Unknown(call[c].pin)
    /\ IF call[c].req.accept = server.key
          THEN Verified(c, server.key)
          ELSE Refused(c)
    /\ UNCHANGED socket

\* A host that checks out, or that an insecure policy lets through: bind the
\* socket and release it, unless this daemon holds it already.
AddProve(c) ==
    /\ Accepts(call[c].pin)
    /\ CASE AlreadyConnected ->
                Verified(c, call[c].seen) /\ UNCHANGED socket
         [] ~AlreadyConnected /\ socket.at = "free" ->
                /\ call' = [call EXCEPT ![c] = [@ EXCEPT !.pc = "proof", !.pin = call[c].seen]]
                /\ socket' = Socket("proof")
         [] OTHER ->
                Refused(c) /\ UNCHANGED socket

\* A key that does not match, a host that is offline, a failed login.
AddReject(c) ==
    /\ Refused(c)
    /\ UNCHANGED socket

AddVerify(c) ==
    /\ call[c].pc = "verify"
    /\ AddConfirm(c) \/ AddProve(c) \/ AddReject(c)
    /\ UNCHANGED <<file, dirty, tx, deferred, mgrVars, runner, relay, envVars, left>>

\* The proof's listener closes, and its client with it.
AddRelease(c) ==
    /\ call[c].pc = "proof"
    /\ socket' = Socket("free")
    /\ call' = [call EXCEPT ![c].pc = "commit"]
    /\ UNCHANGED <<file, dirty, tx, deferred, mgrVars, runner, relay, envVars, left>>

\* The transaction of an operation that writes entry e.
Write(e, later, repin) ==
    [Idle EXCEPT !.pc = "loaded", !.base = file, !.want = e, !.save = TRUE,
                 !.later = later, !.repin = repin]

\* Mutant: the pin read before the dial is not compared with the file's.
AddCommitBlind(c) ==
    /\ call[c].pc = "commit"
    /\ tx.pc = "idle"
    /\ call' = [call EXCEPT ![c] = NoCall]
    /\ tx' = Write([port |-> call[c].req.port, pin |-> call[c].pin, on |-> TRUE],
                   FALSE, call[c].req.force /\ call[c].req.key # NoPin)
    /\ UNCHANGED <<file, dirty, deferred, mgrVars, runVars, envVars, left>>

AddCommit(c) ==
    /\ call[c].pc = "commit"
    /\ tx.pc = "idle"
    /\ call' = [call EXCEPT ![c] = NoCall]
    /\ tx' = IF file # Absent /\ file.pin # call[c].seen
                THEN tx
                ELSE Write([port |-> call[c].req.port, pin |-> call[c].pin, on |-> TRUE],
                           FALSE, call[c].req.force /\ call[c].req.key # NoPin)
    /\ UNCHANGED <<file, dirty, deferred, mgrVars, runVars, envVars, left>>

-----------------------------------------------------------------------------
(***************************************************************************)
(* The operations that need no verification.                               *)
(***************************************************************************)
Patch ==
    /\ tx.pc = "idle"
    /\ file # Absent
    /\ Disturb
    /\ \E e \in {[file EXCEPT !.on = ~@]} \cup {[file EXCEPT !.port = p] : p \in Ports},
          later \in BOOLEAN :
            tx' = Write(e, later, FALSE)
    /\ UNCHANGED <<file, dirty, call, deferred, mgrVars, runVars, envVars>>

Remove ==
    /\ tx.pc = "idle"
    /\ file # Absent
    /\ Disturb
    /\ tx' = Write(Absent, FALSE, FALSE)
    /\ UNCHANGED <<file, dirty, call, deferred, mgrVars, runVars, envVars>>

\* A transaction that only reads the file, and reconciles with what it read.
Reread ==
    /\ tx.pc = "idle"
    /\ tx' = [Idle EXCEPT !.pc = "loaded", !.base = file, !.want = file]
    /\ dirty' = FALSE

\* Mutant: the tick reconciles with the set it last applied, not with the file.
ResyncCached ==
    /\ tx.pc = "idle"
    /\ tx' = [Idle EXCEPT !.pc = "loaded", !.base = file, !.want = remote.cfg]
    /\ dirty
    /\ UNCHANGED <<file, dirty, call, deferred, mgrVars, runVars, envVars, left>>

\* The refresh loop's tick, left out where it would find nothing to do.
Resync ==
    /\ Reread
    /\ dirty \/ deferred > 0
    /\ UNCHANGED <<file, call, deferred, mgrVars, runVars, envVars, left>>

\* Mutant: the delayed reconcile fires once more than it was armed.
DeferredTwice ==
    /\ deferred' = deferred - 1
    /\ Reread
    /\ UNCHANGED <<file, call, mgrVars, runVars, envVars, left>>

DeferredReconcile ==
    /\ deferred > 0
    /\ deferred' = deferred - 1
    /\ Reread
    /\ UNCHANGED <<file, call, mgrVars, runVars, envVars, left>>

HandEdit ==
    /\ Disturb
    /\ file' \in IF file = Absent
                    THEN [port: Ports, pin: Trusted \cup {NoPin}, on: {TRUE}]
                    ELSE {Absent, [file EXCEPT !.on = ~@]}
                            \cup {[file EXCEPT !.pin = k] : k \in Trusted \cup {NoPin}}
    /\ file' # file
    /\ dirty' = TRUE
    /\ UNCHANGED <<tx, call, deferred, mgrVars, runVars, envVars>>

-----------------------------------------------------------------------------
(***************************************************************************)
(* Manager.Reconcile, in the three phases of its comment, and Close.       *)
(***************************************************************************)

\* Mutant: the comparison forgets the host key.
VictimSameKey(want) ==
    /\ remote # Unmanaged
    /\ \/ want = Absent
       \/ remote.cfg.port # want.port
       \/ remote.cfg.on # want.on

\* Which managed remotes phase 1 takes out of the map.
Victim(want) ==
    /\ remote # Unmanaged
    /\ \/ want = Absent
       \/ ~want.on /\ (remote.id # 0 \/ remote.cfg # want)
       \/ want.on /\ remote.cfg # want

\* Save the file if the operation writes, then phase 1 of Reconcile.
Decide ==
    /\ tx.pc = "loaded"
    /\ tx.save => file' = tx.want /\ dirty' = FALSE
    /\ ~tx.save => UNCHANGED <<file, dirty>>
    /\ deferred' = IF tx.later THEN deferred + 1 ELSE deferred
    /\ IF closed \/ tx.later
          THEN tx' = Idle /\ UNCHANGED remote
          ELSE /\ tx' = [tx EXCEPT !.pc = "stop",
                                   !.victim = IF Victim(tx.want) THEN remote.id ELSE 0]
               /\ remote' = IF Victim(tx.want) THEN Unmanaged ELSE remote
    /\ UNCHANGED <<call, closed, closing, runVars, envVars, left>>

\* Save fails: nothing was written, nothing is applied.
SaveFails ==
    /\ tx.pc = "loaded"
    /\ tx.save
    /\ Disturb
    /\ tx' = Idle
    /\ UNCHANGED <<file, dirty, call, deferred, mgrVars, runVars, envVars>>

Cancel(i) ==
    runner' = IF i # 0 /\ runner[i].pc # "exited"
                 THEN [runner EXCEPT ![i].cancelled = TRUE]
                 ELSE runner

Live(i) == runner[i].pc # "exited"

Gone(i) == i # 0 => runner[i].pc = "exited"

\* Phase 2: cancel the victims, outside the lock.
StopVictims ==
    /\ tx.pc = "stop"
    /\ Cancel(tx.victim)
    /\ tx' = [tx EXCEPT !.pc = "stopping"]
    /\ UNCHANGED <<file, dirty, call, deferred, mgrVars, relay, socket, envVars, left>>

\* start: a goroutine under the manager's base context.
Launch(e) ==
    \E i \in Ids :
        /\ runner[i].pc = "exited"
        /\ runner' = [runner EXCEPT ![i] = [cfg |-> e, pc |-> "connect", cancelled |-> FALSE]]
        /\ remote' = [cfg |-> e, id |-> i]

\* Mutant: start the replacement while the old connection is still going down.
StartAtOnce ==
    /\ tx.pc = "stopping"
    /\ tx' = Idle
    /\ IF closed \/ remote # Unmanaged \/ tx.want = Absent
          THEN UNCHANGED <<remote, runner>>
          ELSE IF tx.want.on
                  THEN Launch(tx.want)
                  ELSE remote' = [cfg |-> tx.want, id |-> 0] /\ UNCHANGED runner
    /\ UNCHANGED <<file, dirty, call, deferred, closed, closing, relay, socket, envVars, left>>

\* Phase 3: the victims have finished; start what is missing, unless Close ran.
StartAdditions ==
    /\ tx.pc = "stopping"
    /\ Gone(tx.victim)
    /\ tx' = Idle
    /\ IF closed \/ remote # Unmanaged \/ tx.want = Absent
          THEN UNCHANGED <<remote, runner>>
          ELSE IF tx.want.on
                  THEN Launch(tx.want)
                  ELSE remote' = [cfg |-> tx.want, id |-> 0] /\ UNCHANGED runner
    /\ UNCHANGED <<file, dirty, call, deferred, closed, closing, relay, socket, envVars, left>>

\* Mutant: the map is emptied before its remotes are collected.
CloseEmpty ==
    /\ ~closed
    /\ Disturb
    /\ closed' = TRUE
    /\ closing' = [pc |-> "wait", id |-> 0]
    /\ remote' = Unmanaged
    /\ UNCHANGED <<regVars, runVars, envVars>>

CloseBegin ==
    /\ ~closed
    /\ Disturb
    /\ closed' = TRUE
    /\ closing' = [pc |-> "wait", id |-> remote.id]
    /\ remote' = Unmanaged
    /\ Cancel(remote.id)
    /\ UNCHANGED <<regVars, relay, socket, envVars>>

CloseEnd ==
    /\ closing.pc = "wait"
    /\ Gone(closing.id)
    /\ closing' = [pc |-> "done", id |-> 0]
    /\ UNCHANGED <<regVars, remote, closed, runVars, envVars, left>>

-----------------------------------------------------------------------------
(***************************************************************************)
(* ManagedRemote.run: dial, bind, serve, tear down, back off, dial again.  *)
(***************************************************************************)
Dying(i) == runner[i].cancelled \/ base

Goto(i, pc) == runner' = [runner EXCEPT ![i].pc = pc]

Leave(i, pc) == runner' = [runner EXCEPT ![i] = IF Dying(i) THEN Exited ELSE [@ EXCEPT !.pc = pc]]

runFrame == <<regVars, mgrVars, envVars>>

\* Resolve the identity and dial; the key is checked against this config's pin.
Connect(i) ==
    /\ runner[i].pc = "connect"
    /\ Leave(i, IF Accepts(runner[i].cfg.pin) THEN "bind" ELSE "sleep")
    /\ UNCHANGED <<runFrame, relay, socket, left>>

DialFails(i) ==
    /\ runner[i].pc = "connect"
    /\ Disturb
    /\ Leave(i, "sleep")
    /\ UNCHANGED <<runFrame, relay, socket>>

Wake(i) ==
    /\ runner[i].pc = "sleep"
    /\ Leave(i, "connect")
    /\ UNCHANGED <<runFrame, relay, socket, left>>

\* ListenUnix fails on any existing path.  The first failure is looked into,
\* the second is final.
Bind(i) ==
    /\ runner[i].pc \in {"bind", "rebind"}
    /\ IF socket.at = "free"
          THEN Goto(i, "serve") /\ socket' = Owned(i) /\ relay' = NoRelay
          ELSE /\ IF runner[i].pc = "bind" THEN Goto(i, "probe") ELSE Leave(i, "sleep")
               /\ UNCHANGED <<socket, relay>>
    /\ UNCHANGED <<runFrame, left>>

\* Mutants: a refused dial is taken at its word; a stale socket for a live one.
TakenForStale == server.policy = "nodirect" \/ socket.at \in {"free", "stale"}

TakenForLive == server.policy # "nodirect" /\ socket.at = "free"

\* liveListenerAt: a dial that fails proves the path stale only where sshd
\* lets a client dial a socket at all, which a scratch socket finds out.
ProvenStale == server.policy # "nodirect" /\ socket.at \in {"free", "stale"}

Probe(i) ==
    /\ runner[i].pc = "probe"
    /\ Leave(i, IF ProvenStale THEN "unlink" ELSE "sleep")
    /\ UNCHANGED <<runFrame, relay, socket, left>>

\* removeRemoteFile needs an exec channel.
Unlink(i) ==
    /\ runner[i].pc = "unlink"
    /\ IF Dying(i) \/ server.policy = "noexec"
          THEN Leave(i, "sleep") /\ UNCHANGED socket
          ELSE Goto(i, "rebind") /\ socket' = Socket("free")
    /\ UNCHANGED <<runFrame, relay, left>>

\* Cancellation reaches serveListener's watcher: it closes the listener and
\* every connection the tracker holds.
StopServe(i) ==
    /\ runner[i].pc = "serve"
    /\ Dying(i)
    /\ Goto(i, "drain")
    /\ socket' = IF socket = Owned(i) THEN Socket("free") ELSE socket
    /\ relay' = [relay EXCEPT !.drained = TRUE, !.cut = @ \/ relay.pc \in {"dialing", "pumping"}]
    /\ UNCHANGED <<runFrame, left>>

\* serveListener returns once its relays have, and the connection is torn down.
Drain(i) ==
    /\ runner[i].pc = "drain"
    /\ relay.pc = "none"
    /\ Leave(i, "sleep")
    /\ UNCHANGED <<runFrame, relay, socket, left>>

\* The transport dies: keepalives strike out or Accept fails.  sshd notices
\* later and keeps a dead session's listener until then.
Drop(i) ==
    /\ Connected(i)
    /\ Disturb
    /\ IF runner[i].pc = "serve" THEN Goto(i, "drain") ELSE Leave(i, "sleep")
    /\ socket' = IF socket = Owned(i) THEN Socket("ghost") ELSE socket
    /\ relay' = [relay EXCEPT !.cut = relay.pc # "none"]
    /\ UNCHANGED runFrame

-----------------------------------------------------------------------------
(***************************************************************************)
(* One relayed connection: accepted, tracked, its target dialled and       *)
(* tracked, pumped until one of the two is closed.                         *)
(***************************************************************************)
Accept ==
    /\ \E i \in Ids : runner[i].pc = "serve"
    /\ relay.pc = "none"
    /\ Disturb
    /\ relay' = [relay EXCEPT !.pc = "accepted", !.cut = FALSE]
    /\ UNCHANGED <<runFrame, runner, socket>>

\* Mutant: closeAll only closes what it finds.
TrackOpen(pc) == relay' = [relay EXCEPT !.pc = pc]

\* connTracker.add closes what arrives after closeAll.
Track(pc) == relay' = [relay EXCEPT !.pc = pc, !.cut = @ \/ relay.drained]

RelayTrack ==
    /\ relay.pc = "accepted"
    /\ Track("dialing")
    /\ UNCHANGED <<runFrame, runner, socket, left>>

RelayDial ==
    /\ relay.pc = "dialing"
    /\ Track("pumping") \/ relay' = [relay EXCEPT !.pc = "none"]
    /\ UNCHANGED <<runFrame, runner, socket, left>>

RelayEnd ==
    /\ relay.pc = "pumping"
    /\ relay.cut
    /\ relay' = [relay EXCEPT !.pc = "none"]
    /\ UNCHANGED <<runFrame, runner, socket, left>>

-----------------------------------------------------------------------------
(***************************************************************************)
(* The remote host and the daemon's surroundings.                          *)
(***************************************************************************)

\* sshd gives up on the dead session; it removes the socket, or is killed.
GhostEnds ==
    /\ socket.at = "ghost"
    /\ socket' \in {Socket("free"), Socket("stale")}
    /\ UNCHANGED <<runFrame, runner, relay, left>>

\* Somebody's own ssh -R on the same path; it never removes what is there.
ForeignBinds ==
    /\ socket.at = "free"
    /\ Disturb
    /\ socket' = Socket("foreign")
    /\ UNCHANGED <<runFrame, runner, relay>>

ForeignEnds ==
    /\ socket.at = "foreign"
    /\ socket' \in {Socket("free"), Socket("stale")}
    /\ UNCHANGED <<runFrame, runner, relay, left>>

Rekey ==
    /\ Disturb
    /\ \E k \in Keys \ {server.key} : server' = [server EXCEPT !.key = k]
    /\ UNCHANGED <<regVars, mgrVars, runVars, insecure, base>>

SetPolicy ==
    /\ Disturb
    /\ insecure' = ~insecure
    /\ UNCHANGED <<regVars, mgrVars, runVars, server, base>>

Shutdown ==
    /\ ~base
    /\ Disturb
    /\ base' = TRUE
    /\ UNCHANGED <<regVars, mgrVars, runVars, server, insecure>>

-----------------------------------------------------------------------------
\* startSSHForwards has loaded the file and reconciled once.
Init ==
    /\ file \in {Absent, [port |-> CHOOSE p \in Ports : TRUE, pin |-> CHOOSE k \in Trusted : TRUE,
                          on |-> TRUE]}
    /\ dirty = FALSE
    /\ tx = Idle
    /\ call = [c \in Callers |-> NoCall]
    /\ deferred = 0
    /\ remote = [cfg |-> file, id |-> IF file = Absent THEN 0 ELSE 1]
    /\ closed = FALSE
    /\ closing = [pc |-> "no", id |-> 0]
    /\ runner = [i \in Ids |-> IF i = remote.id
                                 THEN [cfg |-> file, pc |-> "connect", cancelled |-> FALSE]
                                 ELSE Exited]
    /\ relay = NoRelay
    /\ socket \in {Socket("free"), Socket("stale"), Socket("foreign")}
    /\ server \in [key: Trusted \cup (IF HostCAs THEN {"cert"} ELSE {}), policy: Policies]
    /\ insecure = FALSE
    /\ base = FALSE
    /\ left = MaxDisturbances

CallerStep(c) == AddVerify(c) \/ AddRelease(c) \/ AddCommit(c)

TxStep == Decide \/ StopVictims \/ StartAdditions

RunnerStep(i) ==
    \/ Connect(i) \/ Wake(i) \/ Bind(i) \/ Probe(i) \/ Unlink(i)
    \/ StopServe(i) \/ Drain(i)

RelayStep == RelayTrack \/ RelayDial \/ RelayEnd

Disturbance ==
    \/ \E c \in Callers : AddStart(c)
    \/ Patch \/ Remove \/ HandEdit \/ SaveFails
    \/ CloseBegin \/ Shutdown
    \/ \E i \in Ids : DialFails(i) \/ Drop(i)
    \/ Accept \/ ForeignBinds \/ ForeignEnds \/ Rekey \/ SetPolicy

Next ==
    \/ \E c \in Callers : CallerStep(c)
    \/ TxStep \/ Resync \/ DeferredReconcile \/ CloseEnd
    \/ \E i \in Ids : RunnerStep(i)
    \/ RelayStep \/ GhostEnds
    \/ Disturbance

Spec == Init /\ [][Next]_vars

\* Every goroutine that can run does, ticks and timers go on, and sshd ends a
\* dead session; a request, a fault or a foreign session need not happen.
ForwardFairness ==
    /\ \A c \in Callers : WF_vars(CallerStep(c))
    /\ WF_vars(TxStep) /\ WF_vars(Resync) /\ WF_vars(DeferredReconcile) /\ WF_vars(CloseEnd)
    /\ \A i \in Ids : WF_vars(RunnerStep(i))
    /\ WF_vars(RelayStep) /\ WF_vars(GhostEnds)

-----------------------------------------------------------------------------
(***************************************************************************)
(* Properties.                                                             *)
(***************************************************************************)

\* The three phases of Manager.Reconcile exist so that a changed remote's
\* outgoing connection has fully stopped before its replacement dials: the
\* host never has two live goroutines, whatever edits, requests and ticks meet.
OneRunner == \A i, j \in Ids : Live(i) /\ Live(j) => i = j

\* Once Manager.Close has returned, no goroutine is left that nobody stops:
\* a Reconcile that was stopping a victim meanwhile must not start another.
NoneAfterClose ==
    closing.pc = "done" =>
        \A i \in Ids : Live(i) => runner[i].cancelled \/ tx.victim = i

\* Between transactions the running set is what ssh.yaml says, unless the file
\* was edited by hand or a deferred reconcile is still to come: every Registry
\* operation holds txMu from its load to the end of its Reconcile.
Synced ==
    tx.pc = "idle" /\ ~dirty /\ deferred = 0 /\ ~closed =>
        remote = [cfg |-> file, id |-> remote.id] /\ (remote.id # 0 <=> file.on)

\* A key is stored only if a user supplied or confirmed that very key, whatever
\* the remote presents, and when, while Registry.Add verifies it.
PinTrusted == file.pin \in Trusted \cup {NoPin}

\* A stored pin is replaced only by a forced Add that names the new key, by
\* hand, or by a save that overwrites a hand edit it never read: an Add whose
\* verification looked at an older pin does not bring that pin back.
PinKept ==
    [][(file # Absent /\ file' # Absent /\ file.pin # NoPin /\ file'.pin # file.pin) =>
          \/ tx.pc = "loaded" /\ tx' # tx /\ (tx.repin \/ tx.base # file)
          \/ tx' = tx]_vars

\* liveListenerAt never calls a path stale while a session listens on it, the
\* user's own ssh -R above all, and an sshd that refuses every direct dial does
\* not mislead it.
ProbeSpares ==
    [][\A i \in Ids : runner[i].pc = "probe" /\ runner'[i].pc = "unlink" =>
          socket.at \in {"free", "stale"}]_vars

\* Hand edits are picked up by the refresh tick: the running set ends up as the
\* file says and stays so.
Applied == <>[](closed \/ (remote.cfg = file /\ (remote.id # 0 <=> file.on)))

Reachable ==
    /\ ~closed /\ ~base
    /\ file.on
    /\ Accepts(file.pin)
    /\ server.policy = "full"
    /\ socket.at # "foreign"

Serving == remote.id # 0 /\ runner[remote.id].pc = "serve"

\* A remote that can be reached ends up served, through drops, failed dials,
\* stale sockets, dead sessions and Adds that try to bind the same path.
EndsServing == <>[](Reachable => Serving)

\* Manager.Close returns: a relay that was accepted or dialling its target when
\* everything tracked was closed is closed as it arrives.
CloseReturns == closing.pc = "wait" ~> closing.pc = "done"

\* What the registry and the manager keep in every state.
ForwardSound == TypeOK /\ OneRunner /\ NoneAfterClose /\ PinTrusted /\ Synced

\* What a step may never do to a stored pin and to another session's socket.
ForwardKeeps == PinKept /\ ProbeSpares

\* What a forward and its manager must get done.
ForwardServes == ForwardFairness => Applied /\ EndsServing /\ CloseReturns
=============================================================================
