-------------------------- MODULE SSHForwardProofs --------------------------
(***************************************************************************)
(* Proofs about the managed SSH forwards: types, that a host never has two *)
(* live connections, that none outlives Close unattended, that only keys a *)
(* user confirmed or supplied are pinned and stay pinned, and that the     *)
(* running set follows ssh.yaml.                                           *)
(***************************************************************************)
EXTENDS SSHForward, TLAPS

-----------------------------------------------------------------------------
(* Types.                                                                  *)

\* What a runner's step does to the goroutines keeps them goroutines.
LEMMA LeaveType ==
    ASSUME RunTypes, NEW i \in Ids, NEW pc \in RunnerPcs, Leave(i, pc)
    PROVE  runner' \in [Ids -> [cfg: Maybe(Entries), pc: RunnerPcs, cancelled: BOOLEAN]]
BY DEF RunTypes, Leave, Exited, Maybe, RunnerPcs

LEMMA GotoType ==
    ASSUME RunTypes, NEW i \in Ids, NEW pc \in RunnerPcs, Goto(i, pc)
    PROVE  runner' \in [Ids -> [cfg: Maybe(Entries), pc: RunnerPcs, cancelled: BOOLEAN]]
BY DEF RunTypes, Goto

LEMMA CancelType ==
    ASSUME RunTypes, NEW i \in {0} \cup Ids, Cancel(i)
    PROVE  runner' \in [Ids -> [cfg: Maybe(Entries), pc: RunnerPcs, cancelled: BOOLEAN]]
BY ZenonT(40) DEF RunTypes, Cancel

LEMMA SocketType ==
    /\ \A at \in {"free", "stale", "foreign", "ghost", "proof"} :
           Socket(at) \in [at: {"free", "stale", "foreign", "ghost", "proof", "own"}, id: {0} \cup Ids]
    /\ \A i \in Ids :
           Owned(i) \in [at: {"free", "stale", "foreign", "ghost", "proof", "own"}, id: {0} \cup Ids]
BY DEF Socket, Owned

\* A step of a runner: the registry, the manager and the surroundings stay.
LEMMA RunnerTypes ==
    ASSUME TypeOK, NEW i \in Ids, RunnerStep(i)
    PROVE  TypeOK'
<1> USE DEF TypeOK
<1>f. UNCHANGED <<runFrame, left>> => RegTypes' /\ MgrTypes' /\ EnvTypes'
  BY DEF runFrame, regVars, mgrVars, envVars, RegTypes, MgrTypes, EnvTypes
<1>1. CASE Connect(i)
  BY <1>1, <1>f, LeaveType DEF Connect, RunTypes, RunnerPcs
<1>2. CASE Wake(i)
  BY <1>2, <1>f, LeaveType DEF Wake, RunTypes, RunnerPcs
<1>3. CASE Bind(i)
  <2>1. CASE socket.at = "free"
    <3>1. Goto(i, "serve") /\ socket' = Owned(i) /\ relay' = NoRelay
      BY <1>3, <2>1 DEF Bind
    <3>2. relay' \in [pc: {"none", "accepted", "dialing", "pumping"}, cut: BOOLEAN, drained: BOOLEAN]
      BY <3>1 DEF NoRelay
    <3>3. RunTypes'
      BY <3>1, <3>2, GotoType, SocketType DEF RunTypes, RunnerPcs
    <3> QED BY <1>3, <1>f, <3>3 DEF Bind
  <2>2. CASE socket.at # "free" /\ runner[i].pc = "bind"
    BY <1>3, <2>2, <1>f, GotoType DEF Bind, RunTypes, RunnerPcs
  <2>3. CASE socket.at # "free" /\ runner[i].pc # "bind"
    BY <1>3, <2>3, <1>f, LeaveType DEF Bind, RunTypes, RunnerPcs
  <2> QED BY <2>1, <2>2, <2>3
<1>4. CASE Probe(i)
  BY <1>4, <1>f, LeaveType DEF Probe, RunTypes, RunnerPcs
<1>5. CASE Unlink(i)
  <2>1. CASE Dying(i) \/ server.policy = "noexec"
    BY <1>5, <2>1, <1>f, LeaveType DEF Unlink, RunTypes, RunnerPcs
  <2>2. CASE ~(Dying(i) \/ server.policy = "noexec")
    BY <1>5, <2>2, <1>f, GotoType, SocketType DEF Unlink, RunTypes, RunnerPcs
  <2> QED BY <2>1, <2>2
<1>6. CASE StopServe(i)
  BY <1>6, <1>f, GotoType, SocketType DEF StopServe, RunTypes, RunnerPcs
<1>7. CASE Drain(i)
  BY <1>7, <1>f, LeaveType DEF Drain, RunTypes, RunnerPcs
<1> QED BY <1>1, <1>2, <1>3, <1>4, <1>5, <1>6, <1>7 DEF RunnerStep

LEMMA RelayTypes ==
    ASSUME TypeOK, RelayStep \/ GhostEnds \/ Accept \/ ForeignBinds \/ ForeignEnds
    PROVE  TypeOK'
<1> USE DEF TypeOK
<1>f. UNCHANGED runFrame /\ left' \in Nat => RegTypes' /\ MgrTypes' /\ EnvTypes'
  BY DEF runFrame, regVars, mgrVars, envVars, RegTypes, MgrTypes, EnvTypes
<1>1. CASE RelayStep
  <2>1. UNCHANGED <<runFrame, runner, socket, left>>
    BY <1>1 DEF RelayStep, RelayTrack, RelayDial, RelayEnd
  <2>2. relay' \in [pc: {"none", "accepted", "dialing", "pumping"}, cut: BOOLEAN, drained: BOOLEAN]
    <3>1. CASE RelayTrack
      BY <3>1 DEF RelayTrack, Track, RunTypes
    <3>2. CASE RelayDial
      BY <3>2 DEF RelayDial, Track, RunTypes
    <3>3. CASE RelayEnd
      BY <3>3 DEF RelayEnd, RunTypes
    <3> QED BY <1>1, <3>1, <3>2, <3>3 DEF RelayStep
  <2> QED BY <1>f, <2>1, <2>2 DEF RunTypes, EnvTypes
<1>2. CASE GhostEnds
  BY <1>2, <1>f, SocketType DEF GhostEnds, RunTypes, EnvTypes
<1>3. CASE Accept
  <2>1. UNCHANGED <<runFrame, runner, socket>> /\ left' \in Nat
    BY <1>3 DEF Accept, Disturb, EnvTypes
  <2>2. relay' \in [pc: {"none", "accepted", "dialing", "pumping"}, cut: BOOLEAN, drained: BOOLEAN]
    BY <1>3 DEF Accept, RunTypes
  <2> QED BY <1>f, <2>1, <2>2 DEF RunTypes
<1>4. CASE ForeignBinds
  BY <1>4, <1>f, SocketType DEF ForeignBinds, Disturb, RunTypes, EnvTypes
<1>5. CASE ForeignEnds
  BY <1>5, <1>f, SocketType DEF ForeignEnds, RunTypes, EnvTypes
<1> QED BY <1>1, <1>2, <1>3, <1>4, <1>5

LEMMA FaultTypes ==
    ASSUME TypeOK, NEW i \in Ids, DialFails(i) \/ Drop(i)
    PROVE  TypeOK'
<1> USE DEF TypeOK
<1>f. UNCHANGED runFrame /\ Disturb => RegTypes' /\ MgrTypes' /\ EnvTypes'
  BY DEF runFrame, regVars, mgrVars, envVars, RegTypes, MgrTypes, EnvTypes, Disturb
<1>1. CASE DialFails(i)
  BY <1>1, <1>f, LeaveType DEF DialFails, RunTypes, RunnerPcs
<1>2. CASE Drop(i)
  <2>1. runner' \in [Ids -> [cfg: Maybe(Entries), pc: RunnerPcs, cancelled: BOOLEAN]]
    BY <1>2, GotoType, LeaveType DEF Drop, RunnerPcs
  <2> QED BY <1>2, <1>f, <2>1, SocketType DEF Drop, RunTypes
<1> QED BY <1>1, <1>2

\* Edits and shutdowns around the daemon.
LEMMA WorldTypes ==
    ASSUME TypeOK, Rekey \/ SetPolicy \/ Shutdown \/ HandEdit
    PROVE  TypeOK'
<1> USE DEF TypeOK
<1>1. CASE Rekey
  BY <1>1 DEF Rekey, Disturb, regVars, mgrVars, runVars, RegTypes, MgrTypes, RunTypes, EnvTypes
<1>2. CASE SetPolicy
  BY <1>2 DEF SetPolicy, Disturb, regVars, mgrVars, runVars, RegTypes, MgrTypes, RunTypes, EnvTypes
<1>3. CASE Shutdown
  BY <1>3 DEF Shutdown, Disturb, regVars, mgrVars, runVars, RegTypes, MgrTypes, RunTypes, EnvTypes
<1>4. CASE HandEdit
  <2>1. file' \in Maybe(Entries)
    <3>1. CASE file = Absent
      BY <1>4, <3>1, KeysAssumption DEF HandEdit, Maybe, Entries
    <3>2. CASE file # Absent
      <4>1. file \in Entries
        BY <3>2 DEF RegTypes, Maybe
      <4>2. [file EXCEPT !.on = ~@] \in Entries
        BY <4>1 DEF Entries
      <4>3. \A k \in Trusted \cup {NoPin} : [file EXCEPT !.pin = k] \in Entries
        BY <4>1, KeysAssumption DEF Entries
      <4> QED BY <1>4, <3>2, <4>2, <4>3 DEF HandEdit, Maybe
    <3> QED BY <3>1, <3>2
  <2> QED BY <1>4, <2>1 DEF HandEdit, Disturb, mgrVars, runVars, envVars, RegTypes, MgrTypes, RunTypes, EnvTypes
<1> QED BY <1>1, <1>2, <1>3, <1>4

LEMMA WriteType ==
    ASSUME RegTypes, NEW e \in Maybe(Entries), NEW later \in BOOLEAN, NEW repin \in BOOLEAN
    PROVE  Write(e, later, repin) \in [pc: {"idle", "loaded", "stop", "stopping"},
               base: Maybe(Entries), want: Maybe(Entries), save: BOOLEAN,
               later: BOOLEAN, repin: BOOLEAN, victim: {0} \cup Ids]
BY DEF RegTypes, Write, Idle

LEMMA IdleType ==
    Idle \in [pc: {"idle", "loaded", "stop", "stopping"},
              base: Maybe(Entries), want: Maybe(Entries), save: BOOLEAN,
              later: BOOLEAN, repin: BOOLEAN, victim: {0} \cup Ids]
BY DEF Idle, Maybe

\* The entry in the file, if there is one, has a pin.
LEMMA PinType ==
    ASSUME NEW e \in Maybe(Entries)
    PROVE  e.pin \in Keys \cup {NoPin}
BY DEF Maybe, Entries, Absent

\* The Registry's operations up to the point where they hold a loaded file.
LEMMA CallerTypes ==
    ASSUME TypeOK, NEW c \in Callers, AddStart(c) \/ CallerStep(c)
    PROVE  TypeOK'
<1> USE DEF TypeOK
<1> DEFINE Calls == [Callers -> [pc: {"idle", "verify", "proof", "commit"},
                                 req: Requests \cup {NoRequest},
                                 seen: Keys \cup {NoPin}, pin: Keys \cup {NoPin}]]
<1> DEFINE Busy == \A d \in Callers : call[d].pc # "idle" => call[d].req \in Requests
<1>f. call' \in Calls /\ Busy' /\ UNCHANGED <<file, dirty, tx, deferred, mgrVars, envVars>>
          /\ RunTypes' /\ left' \in Nat => TypeOK'
  BY DEF mgrVars, envVars, RegTypes, MgrTypes, EnvTypes
<1>n. NoCall \in [pc: {"idle", "verify", "proof", "commit"},
                  req: Requests \cup {NoRequest},
                  seen: Keys \cup {NoPin}, pin: Keys \cup {NoPin}]
  BY DEF NoCall
<1>1. CASE AddStart(c)
  <2>1. PICK r \in Requests : call' = [call EXCEPT ![c] =
            [pc   |-> IF r.force THEN "commit" ELSE "verify",
             req  |-> r,
             seen |-> file.pin,
             pin  |-> IF r.key = NoPin THEN file.pin ELSE r.key]]
    BY <1>1 DEF AddStart
  <2>2. r.key \in Keys \cup {NoPin} /\ file.pin \in Keys \cup {NoPin}
    BY KeysAssumption, RequestsAssumption, PinType DEF RegTypes, NoPin
  <2>3. call' \in Calls /\ Busy'
    BY <2>1, <2>2 DEF RegTypes
  <2> QED BY <1>1, <1>f, <2>3 DEF AddStart, Disturb, runVars, RunTypes, EnvTypes
<1>2. CASE AddVerify(c)
  <2>0. UNCHANGED <<file, dirty, tx, deferred, mgrVars, runner, relay, envVars, left>>
    BY <1>2 DEF AddVerify
  <2>c. call \in Calls /\ Busy /\ call[c].req \in Requests /\ call[c].seen \in Keys \cup {NoPin}
    BY <1>2 DEF RegTypes, AddVerify
  <2>r. Refused(c) => call' \in Calls /\ Busy'
    BY <2>c, <1>n DEF Refused, NoCall
  <2>v. ASSUME NEW pin \in Keys \cup {NoPin}, Verified(c, pin) PROVE call' \in Calls /\ Busy'
    <3>1. call' = [call EXCEPT ![c] = [call[c] EXCEPT !.pc = "commit", !.pin = pin]]
      BY <2>v DEF Verified
    <3>2. call' \in Calls
      BY <2>c, <3>1, ZenonT(40)
    <3>3. Busy'
      BY <2>c, <3>1
    <3> QED BY <3>2, <3>3
  <2>1. CASE AddConfirm(c)
    <3>1. Unknown(call[c].pin) => server.key \in Keys
      BY DEF Unknown, EnvTypes
    <3>2. call' \in Calls /\ Busy' /\ UNCHANGED socket
      BY <2>1, <2>r, <2>v, <3>1 DEF AddConfirm
    <3> QED BY <1>f, <2>0, <3>2 DEF RunTypes, EnvTypes
  <2>2. CASE AddProve(c)
    <3>1. CASE AlreadyConnected
      BY <2>2, <3>1, <1>f, <2>0, <2>v, <2>c DEF AddProve, RunTypes, EnvTypes
    <3>2. CASE ~AlreadyConnected /\ socket.at = "free"
      <4>1. /\ call' = [call EXCEPT ![c] = [@ EXCEPT !.pc = "proof", !.pin = call[c].seen]]
            /\ socket' = Socket("proof")
        BY <2>2, <3>2 DEF AddProve
      <4>2. call' \in Calls /\ Busy'
        BY <4>1, <2>c, ZenonT(40)
      <4> QED BY <1>f, <2>0, <4>1, <4>2, SocketType DEF RunTypes, EnvTypes
    <3>3. CASE ~AlreadyConnected /\ socket.at # "free"
      BY <2>2, <3>3, <1>f, <2>0, <2>r DEF AddProve, RunTypes, EnvTypes
    <3> QED BY <3>1, <3>2, <3>3
  <2>3. CASE AddReject(c)
    BY <2>3, <1>f, <2>0, <2>r DEF AddReject, RunTypes, EnvTypes
  <2> QED BY <1>2, <2>1, <2>2, <2>3 DEF AddVerify
<1>3. CASE AddRelease(c)
  <2>1. call' \in Calls /\ Busy'
    BY <1>3 DEF AddRelease, RegTypes
  <2> QED BY <1>3, <1>f, <2>1, SocketType DEF AddRelease, RunTypes, EnvTypes
<1>4. CASE AddCommit(c)
  <2>1. call' \in Calls /\ Busy'
    BY <1>4, <1>n DEF AddCommit, RegTypes, NoCall
  <2>2. CASE file # Absent /\ file.pin # call[c].seen
    BY <1>4, <1>f, <2>1, <2>2 DEF AddCommit, runVars, RunTypes, EnvTypes
  <2>3. CASE ~(file # Absent /\ file.pin # call[c].seen)
    <3> DEFINE e == [port |-> call[c].req.port, pin |-> call[c].pin, on |-> TRUE]
               again == call[c].req.force /\ call[c].req.key # NoPin
    <3>1. call[c].req \in Requests /\ call[c].pin \in Keys \cup {NoPin}
      BY <1>4 DEF AddCommit, RegTypes
    <3>2. call[c].req.port \in Ports /\ again \in BOOLEAN
      BY <3>1, RequestsAssumption
    <3>3. e \in Maybe(Entries)
      BY <3>1, <3>2 DEF Maybe, Entries
    <3>4. tx' = Write(e, FALSE, again)
      BY <1>4, <2>3 DEF AddCommit
    <3>5. Write(e, FALSE, again) \in [pc: {"idle", "loaded", "stop", "stopping"},
              base: Maybe(Entries), want: Maybe(Entries), save: BOOLEAN,
              later: BOOLEAN, repin: BOOLEAN, victim: {0} \cup Ids]
      <4> HIDE DEF e, again
      <4> QED BY <3>2, <3>3, WriteType
    <3>6. RegTypes'
      <4> HIDE DEF e, again
      <4> QED BY <1>4, <2>1, <3>4, <3>5 DEF AddCommit, RegTypes
    <3> QED
      BY <1>4, <3>6 DEF AddCommit, mgrVars, runVars, envVars, MgrTypes, RunTypes, EnvTypes
  <2> QED BY <2>2, <2>3
<1> QED BY <1>1, <1>2, <1>3, <1>4 DEF CallerStep

LEMMA OperationTypes ==
    ASSUME TypeOK, Patch \/ Remove \/ Resync \/ DeferredReconcile
    PROVE  TypeOK'
<1> USE DEF TypeOK
<1> DEFINE Txs == [pc: {"idle", "loaded", "stop", "stopping"}, base: Maybe(Entries),
                   want: Maybe(Entries), save: BOOLEAN, later: BOOLEAN,
                   repin: BOOLEAN, victim: {0} \cup Ids]
<1>f. tx' \in Txs /\ dirty' \in BOOLEAN /\ deferred' \in Nat /\ left' \in Nat
          /\ UNCHANGED <<file, call, mgrVars, runVars, envVars>> => TypeOK'
  BY DEF mgrVars, runVars, envVars, RegTypes, MgrTypes, RunTypes, EnvTypes
<1>1. CASE Patch
  <2>1. PICK e \in {[file EXCEPT !.on = ~@]} \cup {[file EXCEPT !.port = p] : p \in Ports},
             later \in BOOLEAN : tx' = Write(e, later, FALSE)
    BY <1>1 DEF Patch
  <2>2. file \in Entries
    BY <1>1 DEF Patch, RegTypes, Maybe
  <2>3. e \in Maybe(Entries)
    BY <2>1, <2>2, ZenonT(40) DEF Maybe, Entries
  <2>4. tx' \in Txs
    <3>1. Write(e, later, FALSE) \in Txs
      BY <2>3, WriteType
    <3> QED BY <2>1, <3>1
  <2>5. left' \in Nat /\ UNCHANGED <<file, dirty, call, deferred, mgrVars, runVars, envVars>>
    BY <1>1 DEF Patch, Disturb, EnvTypes
  <2> HIDE DEF Txs
  <2> QED BY <1>f, <2>4, <2>5 DEF RegTypes
<1>2. CASE Remove
  <2>1. tx' \in Txs
    BY <1>2, WriteType DEF Remove, Maybe
  <2>2. left' \in Nat /\ UNCHANGED <<file, dirty, call, deferred, mgrVars, runVars, envVars>>
    BY <1>2 DEF Remove, Disturb, EnvTypes
  <2> HIDE DEF Txs
  <2> QED BY <1>f, <2>1, <2>2 DEF RegTypes
<1>r. Reread => tx' \in Txs /\ dirty' \in BOOLEAN
  BY DEF Reread, RegTypes, Idle
<1>3. CASE Resync
  BY <1>3, <1>f, <1>r DEF Resync, RegTypes, EnvTypes
<1>4. CASE DeferredReconcile
  BY <1>4, <1>f, <1>r DEF DeferredReconcile, RegTypes, EnvTypes
<1> QED BY <1>1, <1>2, <1>3, <1>4

\* The manager: the three phases of Reconcile, and Close.
LEMMA ManagerTypes ==
    ASSUME TypeOK, TxStep \/ SaveFails \/ CloseBegin \/ CloseEnd
    PROVE  TypeOK'
<1> USE DEF TypeOK
<1> DEFINE Remotes == [cfg: Maybe(Entries), id: {0} \cup Ids]
<1>u. Unmanaged \in Remotes
  BY DEF Unmanaged, Maybe
<1>1. CASE Decide
  <2>1. file' \in Maybe(Entries) /\ dirty' \in BOOLEAN
    BY <1>1 DEF Decide, RegTypes
  <2>2. deferred' \in Nat
    BY <1>1 DEF Decide, RegTypes
  <2>3. tx' \in [pc: {"idle", "loaded", "stop", "stopping"}, base: Maybe(Entries),
                 want: Maybe(Entries), save: BOOLEAN, later: BOOLEAN,
                 repin: BOOLEAN, victim: {0} \cup Ids]
    <3>1. CASE closed \/ tx.later
      BY <1>1, <3>1, IdleType DEF Decide
    <3>2. CASE ~(closed \/ tx.later)
      <4>1. PICK v \in {0} \cup Ids : tx' = [tx EXCEPT !.pc = "stop", !.victim = v]
        BY <1>1, <3>2 DEF Decide, MgrTypes
      <4> QED BY <4>1 DEF RegTypes
    <3> QED BY <3>1, <3>2
  <2>4. remote' \in Remotes
    BY <1>1, <1>u DEF Decide, MgrTypes
  <2>5. UNCHANGED <<call, closed, closing, runVars, envVars, left>>
    BY <1>1 DEF Decide
  <2>6. RegTypes'
    BY <2>1, <2>2, <2>3, <2>5 DEF RegTypes
  <2> QED BY <2>4, <2>5, <2>6 DEF MgrTypes, runVars, envVars, RunTypes, EnvTypes
<1>2. CASE StopVictims
  <2>1. runner' \in [Ids -> [cfg: Maybe(Entries), pc: RunnerPcs, cancelled: BOOLEAN]]
    BY <1>2, CancelType DEF StopVictims, RegTypes
  <2>2. RegTypes'
    BY <1>2 DEF StopVictims, RegTypes
  <2> QED BY <1>2, <2>1, <2>2 DEF StopVictims, mgrVars, envVars, MgrTypes, RunTypes, EnvTypes
<1>3. CASE StartAdditions
  <2>0. RegTypes'
    BY <1>3, IdleType DEF StartAdditions, RegTypes
  <2>1. remote' \in Remotes
        /\ runner' \in [Ids -> [cfg: Maybe(Entries), pc: RunnerPcs, cancelled: BOOLEAN]]
    <3>1. CASE closed \/ remote # Unmanaged \/ tx.want = Absent
      BY <1>3, <3>1 DEF StartAdditions, MgrTypes, RunTypes
    <3>2. CASE ~(closed \/ remote # Unmanaged \/ tx.want = Absent) /\ tx.want.on
      <4>1. tx.want \in Maybe(Entries)
        BY DEF RegTypes
      <4>2. PICK i \in Ids :
              /\ runner' = [runner EXCEPT ![i] = [cfg |-> tx.want, pc |-> "connect", cancelled |-> FALSE]]
              /\ remote' = [cfg |-> tx.want, id |-> i]
        BY <1>3, <3>2 DEF StartAdditions, Launch
      <4> QED BY <4>1, <4>2 DEF RunTypes, RunnerPcs
    <3>3. CASE ~(closed \/ remote # Unmanaged \/ tx.want = Absent) /\ ~tx.want.on
      BY <1>3, <3>3 DEF StartAdditions, RegTypes, RunTypes
    <3> QED BY <3>1, <3>2, <3>3
  <2> QED BY <1>3, <2>0, <2>1 DEF StartAdditions, envVars, MgrTypes, RunTypes, EnvTypes
<1>4. CASE SaveFails
  BY <1>4, IdleType
  DEF SaveFails, Disturb, mgrVars, runVars, envVars, RegTypes, MgrTypes, RunTypes, EnvTypes
<1>5. CASE CloseBegin
  <2>1. runner' \in [Ids -> [cfg: Maybe(Entries), pc: RunnerPcs, cancelled: BOOLEAN]]
    BY <1>5, CancelType DEF CloseBegin, MgrTypes
  <2>2. MgrTypes'
    BY <1>5, <1>u DEF CloseBegin, MgrTypes
  <2> QED
    BY <1>5, <2>1, <2>2 DEF CloseBegin, Disturb, regVars, envVars, RegTypes, RunTypes, EnvTypes
<1>6. CASE CloseEnd
  BY <1>6 DEF CloseEnd, regVars, runVars, envVars, RegTypes, MgrTypes, RunTypes, EnvTypes
<1> QED BY <1>1, <1>2, <1>3, <1>4, <1>5, <1>6 DEF TxStep

LEMMA TypeInit == Init => TypeOK
<1> SUFFICES ASSUME Init PROVE TypeOK
  OBVIOUS
<1> DEFINE p0 == CHOOSE p \in Ports : TRUE
           k0 == CHOOSE k \in Trusted : TRUE
<1>0. p0 \in Ports /\ k0 \in Trusted
  BY StartAssumption, Zenon
<1>1. file \in Maybe(Entries)
  <2>1. file \in {Absent, [port |-> p0, pin |-> k0, on |-> TRUE]}
    BY DEF Init
  <2> HIDE DEF p0, k0
  <2>2. [port |-> p0, pin |-> k0, on |-> TRUE] \in Entries
    BY <1>0, KeysAssumption DEF Entries
  <2> QED BY <2>1, <2>2 DEF Maybe
<1>2. RegTypes
  BY <1>1, IdleType DEF Init, RegTypes, NoCall
<1>3. MgrTypes
  <2>1. PICK i \in {0, 1} : remote = [cfg |-> file, id |-> i]
    BY DEF Init
  <2>2. closed = FALSE /\ closing = [pc |-> "no", id |-> 0]
    BY DEF Init
  <2> QED BY <1>1, <2>1, <2>2 DEF MgrTypes, Ids
<1>4. RunTypes
  BY <1>1, SocketType DEF Init, RunTypes, NoRelay, Exited, RunnerPcs, Maybe
<1>5. EnvTypes
  BY KeysAssumption, PoliciesAssumption DEF Init, EnvTypes
<1> QED BY <1>2, <1>3, <1>4, <1>5 DEF TypeOK

LEMMA TypeStep == TypeOK /\ [Next]_vars => TypeOK'
<1> SUFFICES ASSUME TypeOK, [Next]_vars PROVE TypeOK'
  OBVIOUS
<1>1. CASE UNCHANGED vars
  BY <1>1 DEF vars, regVars, mgrVars, runVars, envVars, TypeOK, RegTypes, MgrTypes, RunTypes, EnvTypes
<1>2. CASE Next
  BY <1>2, CallerTypes, ManagerTypes, OperationTypes, RunnerTypes, RelayTypes, FaultTypes, WorldTypes
  DEF Next, Disturbance
<1> QED BY <1>1, <1>2

\* Every variable keeps its type (SSHForward's state, for all constants).
THEOREM TypeCorrect == Spec => []TypeOK
BY TypeInit, TypeStep, PTL DEF Spec

-----------------------------------------------------------------------------
(* One connection at a time, and none that nobody stops.                   *)

\* The inductive invariant.  Somebody is responsible for every live goroutine:
\* the manager's map, the transaction that took it out, or Close.
Accounted ==
    /\ \A i \in Ids : Live(i) => i \in {remote.id, tx.victim, closing.id}
    /\ OneRunner
    /\ tx.pc \in {"idle", "loaded"} => tx.victim = 0
    /\ closing.pc # "wait" => closing.id = 0
    /\ closed <=> closing.pc # "no"
    /\ closed => remote = Unmanaged

\* No step of a goroutine, and no cancellation, brings one back to life.
NoRevival == \A i \in Ids : Live(i)' => Live(i)

LEMMA StepsNoRevival ==
    ASSUME RunTypes, NEW i \in Ids, Live(i),
           \/ \E pc \in RunnerPcs : Leave(i, pc)
           \/ \E pc \in RunnerPcs : Goto(i, pc)
    PROVE  NoRevival
BY DEF RunTypes, Live, Leave, Goto, Exited, NoRevival

LEMMA CancelNoRevival ==
    ASSUME RunTypes, NEW i \in {0} \cup Ids, Cancel(i)
    PROVE  NoRevival
BY DEF RunTypes, Live, Cancel, NoRevival

LEMMA AccountedFrame ==
    ASSUME Accounted, NoRevival, UNCHANGED <<remote, closed, closing>>,
           tx'.victim = tx.victim,
           tx'.pc \in {"idle", "loaded"} => tx.victim = 0
    PROVE  Accounted'
BY DEF Accounted, NoRevival, OneRunner

LEMMA RunnerAccounted ==
    ASSUME TypeOK, Accounted, NEW i \in Ids, RunnerStep(i) \/ DialFails(i) \/ Drop(i)
    PROVE  Accounted'
<1>1. Live(i)
  BY DEF RunnerStep, Connect, Wake, Bind, Probe, Unlink, StopServe, Drain, DialFails,
         Drop, Connected, Live
<1>2. \/ \E pc \in RunnerPcs : Leave(i, pc)
      \/ \E pc \in RunnerPcs : Goto(i, pc)
  <2>1. CASE Connect(i) \/ Wake(i) \/ Probe(i) \/ Drain(i) \/ DialFails(i)
    BY <2>1 DEF Connect, Wake, Probe, Drain, DialFails, RunnerPcs
  <2>2. CASE Bind(i)
    BY <2>2 DEF Bind, RunnerPcs
  <2>3. CASE Unlink(i)
    BY <2>3 DEF Unlink, RunnerPcs
  <2>4. CASE StopServe(i)
    BY <2>4 DEF StopServe, RunnerPcs
  <2>5. CASE Drop(i)
    BY <2>5 DEF Drop, RunnerPcs
  <2> QED BY <2>1, <2>2, <2>3, <2>4, <2>5 DEF RunnerStep
<1>3. NoRevival
  BY <1>1, <1>2, StepsNoRevival DEF TypeOK
<1>4. UNCHANGED runFrame
  BY DEF RunnerStep, Connect, Wake, Bind, Probe, Unlink, StopServe, Drain, DialFails, Drop
<1> QED BY <1>3, <1>4, AccountedFrame DEF runFrame, regVars, mgrVars, Accounted

\* Whoever does not touch goroutines, the map or a transaction in progress.
LEMMA OthersAccounted ==
    ASSUME Accounted, UNCHANGED <<runner, mgrVars>>,
           tx' = tx \/ (tx.pc \in {"idle", "loaded"} /\ tx'.victim = 0)
    PROVE  Accounted'
<1>1. NoRevival
  BY DEF NoRevival, Live
<1>2. tx'.victim = tx.victim /\ (tx'.pc \in {"idle", "loaded"} => tx.victim = 0)
  BY DEF Accounted
<1> QED BY <1>1, <1>2, AccountedFrame DEF mgrVars

LEMMA ManagerAccounted ==
    ASSUME TypeOK, Accounted, TxStep \/ CloseBegin \/ CloseEnd
    PROVE  Accounted'
<1>1. CASE Decide
  <2>1. runner' = runner /\ UNCHANGED <<closed, closing>>
    BY <1>1 DEF Decide, runVars
  <2>2. tx.victim = 0
    BY <1>1 DEF Decide, Accounted
  <2>3. CASE closed \/ tx.later
    BY <1>1, <2>1, <2>2, <2>3 DEF Decide, Accounted, OneRunner, Live, Idle
  <2>4. CASE ~(closed \/ tx.later)
    <3>1. tx'.pc = "stop" /\ tx'.victim = IF Victim(tx.want) THEN remote.id ELSE 0
      BY <1>1, <2>4 DEF Decide, TypeOK, RegTypes
    <3>2. remote' = IF Victim(tx.want) THEN Unmanaged ELSE remote
      BY <1>1, <2>4 DEF Decide
    <3> QED BY <2>1, <2>2, <2>4, <3>1, <3>2 DEF Accounted, OneRunner, Live, Unmanaged
  <2> QED BY <2>3, <2>4
<1>2. CASE StopVictims
  <2>1. NoRevival
    BY <1>2, CancelNoRevival DEF StopVictims, TypeOK, RegTypes
  <2>2. tx'.victim = tx.victim /\ tx'.pc = "stopping"
    BY <1>2 DEF StopVictims, TypeOK, RegTypes
  <2> QED BY <1>2, <2>1, <2>2, AccountedFrame DEF StopVictims, mgrVars
<1>3. CASE StartAdditions
  <2>1. \A i \in Ids : i = tx.victim => ~Live(i)
    BY <1>3 DEF StartAdditions, Gone, Live, Ids
  <2>2. tx' = Idle /\ UNCHANGED <<closed, closing>>
    BY <1>3 DEF StartAdditions
  <2>3. CASE closed \/ remote # Unmanaged \/ tx.want = Absent
    BY <1>3, <2>1, <2>2, <2>3 DEF StartAdditions, Accounted, OneRunner, Live, Idle
  <2>4. CASE ~(closed \/ remote # Unmanaged \/ tx.want = Absent)
    <3>1. \A i \in Ids : ~Live(i)
      BY <2>1, <2>4 DEF Accounted, Unmanaged, Ids
    <3>2. CASE tx.want.on
      <4>1. PICK i \in Ids :
              /\ runner' = [runner EXCEPT ![i] = [cfg |-> tx.want, pc |-> "connect", cancelled |-> FALSE]]
              /\ remote' = [cfg |-> tx.want, id |-> i]
        BY <1>3, <2>4, <3>2 DEF StartAdditions, Launch
      <4>2. \A j \in Ids : Live(j)' => j = i
        BY <3>1, <4>1 DEF Live, TypeOK, RunTypes
      <4> QED BY <2>2, <2>4, <4>1, <4>2 DEF Accounted, OneRunner, Idle
    <3>3. CASE ~tx.want.on
      BY <1>3, <2>2, <2>4, <3>1, <3>3 DEF StartAdditions, Accounted, OneRunner, Live, Idle
    <3> QED BY <3>2, <3>3
  <2> QED BY <2>3, <2>4
<1>4. CASE CloseBegin
  <2>1. NoRevival
    BY <1>4, CancelNoRevival DEF CloseBegin, TypeOK, MgrTypes
  <2> QED
    BY <1>4, <2>1 DEF CloseBegin, regVars, Accounted, OneRunner, NoRevival, Unmanaged
<1>5. CASE CloseEnd
  <2>1. \A i \in Ids : i = closing.id => ~Live(i)
    BY <1>5 DEF CloseEnd, Gone, Live, Ids
  <2> QED
    BY <1>5, <2>1 DEF CloseEnd, regVars, runVars, Accounted, OneRunner, Live
<1> QED BY <1>1, <1>2, <1>3, <1>4, <1>5 DEF TxStep

LEMMA AccountedStep == TypeOK /\ Accounted /\ [Next]_vars => Accounted'
<1> SUFFICES ASSUME TypeOK, Accounted, [Next]_vars PROVE Accounted'
  OBVIOUS
<1>1. CASE UNCHANGED vars
  BY <1>1, OthersAccounted DEF vars, regVars, mgrVars, runVars
<1>2. ASSUME NEW c \in Callers, CallerStep(c) \/ AddStart(c) PROVE Accounted'
  BY <1>2, OthersAccounted
  DEF CallerStep, AddStart, AddVerify, AddRelease, AddCommit, Write, Idle, runVars
<1>3. CASE Resync \/ DeferredReconcile \/ Patch \/ Remove \/ SaveFails
  <2>1. UNCHANGED <<runner, mgrVars>>
    BY <1>3 DEF Resync, DeferredReconcile, Patch, Remove, SaveFails, runVars
  <2>2. tx.pc \in {"idle", "loaded"} /\ tx'.victim = 0
    <3>1. CASE Resync \/ DeferredReconcile
      BY <3>1 DEF Resync, DeferredReconcile, Reread, Idle
    <3>2. CASE Patch
      BY <3>2 DEF Patch, Write, Idle
    <3>3. CASE Remove
      <4>1. tx.pc = "idle" /\ tx' = Write(Absent, FALSE, FALSE)
        BY <3>3 DEF Remove
      <4> QED BY <4>1 DEF Write, Idle
    <3>4. CASE SaveFails
      <4>1. tx.pc = "loaded" /\ tx' = Idle
        BY <3>4 DEF SaveFails
      <4> QED BY <4>1 DEF Idle
    <3> QED BY <1>3, <3>1, <3>2, <3>3, <3>4
  <2> QED BY <2>1, <2>2, OthersAccounted
<1>4. CASE RelayStep \/ GhostEnds \/ Accept \/ ForeignBinds \/ ForeignEnds
  BY <1>4, OthersAccounted
  DEF RelayStep, RelayTrack, RelayDial, RelayEnd, GhostEnds, Accept, ForeignBinds,
      ForeignEnds, runFrame, regVars
<1>5. CASE HandEdit \/ Shutdown \/ Rekey \/ SetPolicy
  BY <1>5, OthersAccounted DEF HandEdit, Shutdown, Rekey, SetPolicy, runVars, regVars
<1> QED
  BY <1>1, <1>2, <1>3, <1>4, <1>5, RunnerAccounted, ManagerAccounted DEF Next, Disturbance

LEMMA AccountedInit == Init => Accounted
BY DEF Init, Accounted, OneRunner, Live, Exited, Idle, Ids

LEMMA AlwaysAccounted == Spec => []Accounted
<1>1. TypeOK /\ Accounted /\ [Next]_vars => Accounted'
  BY AccountedStep
<1> QED BY <1>1, TypeCorrect, AccountedInit, PTL DEF Spec

\* A host never has two live connections, whatever requests, edits, ticks and
\* Close interleave (Manager.Reconcile's three phases).
THEOREM OneConnection == Spec => []OneRunner
<1>1. Accounted => OneRunner
  BY DEF Accounted
<1> QED BY <1>1, AlwaysAccounted, PTL

\* After Manager.Close has returned, every goroutine still there has been
\* cancelled or is being stopped by a Reconcile.
THEOREM NoneOutlivesClose == Spec => []NoneAfterClose
<1>1. Accounted => NoneAfterClose
  BY DEF Accounted, NoneAfterClose, Unmanaged, Ids
<1> QED BY <1>1, AlwaysAccounted, PTL

-----------------------------------------------------------------------------
(***************************************************************************)
(* Host keys.  Every copy of a pin on its way to the file, in an Add, in   *)
(* the transaction that holds txMu and in the file itself, is one that a   *)
(* user supplied or confirmed.                                             *)
(***************************************************************************)
Vouched == Trusted \cup {NoPin}

Trust ==
    /\ file.pin \in Vouched
    /\ tx.want.pin \in Vouched
    /\ \A c \in Callers : call[c].seen \in Vouched /\ call[c].pin \in Vouched

LEMMA TrustInit == Init => Trust
<1> SUFFICES ASSUME Init PROVE Trust
  OBVIOUS
<1>1. file.pin \in Vouched
  <2>1. CASE file = Absent
    BY <2>1 DEF Absent, Vouched
  <2>2. CASE file # Absent
    <3>1. (CHOOSE k \in Trusted : TRUE) \in Trusted
      BY StartAssumption, Zenon
    <3>2. file.pin = CHOOSE k \in Trusted : TRUE
      BY <2>2 DEF Init
    <3> QED BY <3>1, <3>2 DEF Vouched
  <2> QED BY <2>1, <2>2
<1>2. tx.want.pin \in Vouched
  BY DEF Init, Idle, Absent, Vouched
<1>3. \A c \in Callers : call[c].seen \in Vouched /\ call[c].pin \in Vouched
  BY DEF Init, NoCall, Vouched
<1> QED BY <1>1, <1>2, <1>3 DEF Trust

\* A key that a user's fingerprint matches is one the user vouches for.
LEMMA ConfirmedKey ==
    ASSUME EnvTypes, NEW r \in Requests, r.accept = server.key, server.key # "cert"
    PROVE  server.key \in Trusted
BY RequestsAssumption, KeysAssumption DEF EnvTypes

LEMMA AddTrust ==
    ASSUME TypeOK, Trust, NEW c \in Callers, CallerStep(c) \/ AddStart(c)
    PROVE  Trust'
<1> USE DEF NoPin
<1>1. CASE AddStart(c)
  <2>1. PICK r \in Requests :
          call' = [call EXCEPT ![c] =
              [pc   |-> IF r.force THEN "commit" ELSE "verify",
               req  |-> r,
               seen |-> file.pin,
               pin  |-> IF r.key = NoPin THEN file.pin ELSE r.key]]
    BY <1>1 DEF AddStart
  <2>2. r.key \in Vouched
    BY RequestsAssumption DEF Vouched
  <2>3. \A d \in Callers : call'[d].seen \in Vouched /\ call'[d].pin \in Vouched
    BY <2>1, <2>2 DEF Trust, TypeOK, RegTypes
  <2> QED BY <1>1, <2>3 DEF AddStart, Trust
<1>2. CASE AddVerify(c)
  <2>1. UNCHANGED <<file, tx>>
    BY <1>2 DEF AddVerify
  <2>2. \/ Refused(c)
        \/ \E pin \in Vouched : Verified(c, pin)
        \/ call' = [call EXCEPT ![c] = [@ EXCEPT !.pc = "proof", !.pin = call[c].seen]]
    <3>1. CASE AddConfirm(c)
      <4>1. CASE call[c].req.accept = server.key
        <5>1. call[c].req \in Requests /\ server.key # "cert"
          BY <1>2, <3>1 DEF AddVerify, AddConfirm, Unknown, TypeOK, RegTypes
        <5>2. server.key \in Vouched
          BY <4>1, <5>1, ConfirmedKey DEF TypeOK, Vouched
        <5> QED BY <3>1, <4>1, <5>2 DEF AddConfirm
      <4>2. CASE call[c].req.accept # server.key
        BY <3>1, <4>2 DEF AddConfirm
      <4> QED BY <4>1, <4>2
    <3>2. CASE AddProve(c)
      BY <3>2 DEF AddProve, Trust
    <3>3. CASE AddReject(c)
      BY <3>3 DEF AddReject
    <3> QED BY <1>2, <3>1, <3>2, <3>3 DEF AddVerify
  <2>3. \A d \in Callers : call'[d].seen \in Vouched /\ call'[d].pin \in Vouched
    <3>1. CASE Refused(c)
      BY <3>1 DEF Refused, NoCall, Vouched, Trust, TypeOK, RegTypes
    <3>2. CASE \E pin \in Vouched : Verified(c, pin)
      <4>1. PICK pin \in Vouched :
              call' = [call EXCEPT ![c] = [@ EXCEPT !.pc = "commit", !.pin = pin]]
        BY <3>2 DEF Verified
      <4> QED BY <4>1 DEF Trust, TypeOK, RegTypes
    <3>3. CASE call' = [call EXCEPT ![c] = [@ EXCEPT !.pc = "proof", !.pin = call[c].seen]]
      BY <3>3 DEF Trust, TypeOK, RegTypes
    <3> QED BY <2>2, <3>1, <3>2, <3>3
  <2> QED BY <2>1, <2>3 DEF Trust
<1>3. CASE AddRelease(c)
  <2>1. \A d \in Callers : call'[d].seen = call[d].seen /\ call'[d].pin = call[d].pin
    BY <1>3 DEF AddRelease, TypeOK, RegTypes
  <2> QED BY <1>3, <2>1 DEF AddRelease, Trust
<1>4. CASE AddCommit(c)
  <2>1. \A d \in Callers : call'[d].seen \in Vouched /\ call'[d].pin \in Vouched
    <3>1. call' = [call EXCEPT ![c] = NoCall]
      BY <1>4 DEF AddCommit
    <3> QED BY <3>1 DEF NoCall, Vouched, Trust, TypeOK, RegTypes
  <2>2. tx'.want.pin \in Vouched
    <3>1. CASE tx' = tx
      BY <3>1 DEF Trust
    <3>2. CASE tx' # tx
      <4> DEFINE e == [port |-> call[c].req.port, pin |-> call[c].pin, on |-> TRUE]
                 repin == call[c].req.force /\ call[c].req.key # NoPin
      <4>1. tx' = Write(e, FALSE, repin)
        BY <1>4, <3>2 DEF AddCommit
      <4>2. tx'.want = e
        BY <4>1 DEF Write, Idle
      <4> QED BY <4>2 DEF Trust
    <3> QED BY <3>1, <3>2
  <2> QED BY <1>4, <2>1, <2>2 DEF AddCommit, Trust
<1> QED BY <1>1, <1>2, <1>3, <1>4 DEF CallerStep

\* The other holders of txMu: what they will write comes from the file.
LEMMA TxTrust ==
    ASSUME TypeOK, Trust,
           TxStep \/ Resync \/ DeferredReconcile \/ Patch \/ Remove \/ SaveFails \/ HandEdit
    PROVE  Trust'
<1>1. call' = call
  BY DEF TxStep, Decide, StopVictims, StartAdditions, Resync, DeferredReconcile,
         Patch, Remove, SaveFails, HandEdit
<1>2. file'.pin \in Vouched
  <2>1. CASE HandEdit
    <3>1. CASE file = Absent
      BY <2>1, <3>1 DEF HandEdit, Vouched
    <3>2. CASE file # Absent
      <4>1. file \in Entries
        BY <3>2 DEF TypeOK, RegTypes, Maybe
      <4>2. \/ file' = Absent
            \/ file' = [file EXCEPT !.on = ~@]
            \/ \E k \in Vouched : file' = [file EXCEPT !.pin = k]
        BY <2>1, <3>2 DEF HandEdit, Vouched
      <4> QED BY <4>1, <4>2 DEF Entries, Absent, Vouched, Trust
    <3> QED BY <3>1, <3>2
  <2>2. CASE Decide
    BY <2>2 DEF Decide, Trust
  <2>3. CASE ~HandEdit /\ ~Decide
    BY <2>3 DEF TxStep, StopVictims, StartAdditions, Resync, DeferredReconcile, Patch,
                Remove, SaveFails, Trust
  <2> QED BY <2>1, <2>2, <2>3
<1>3. tx'.want.pin \in Vouched
  <2>1. Idle.want.pin \in Vouched
    BY DEF Idle, Absent, Vouched
  <2>2. CASE Resync \/ DeferredReconcile
    <3>1. tx' = [Idle EXCEPT !.pc = "loaded", !.base = file, !.want = file]
      BY <2>2 DEF Resync, DeferredReconcile, Reread
    <3> QED BY <3>1 DEF Idle, Trust
  <2>3. CASE Patch
    <3>1. file \in Entries
      BY <2>3 DEF Patch, TypeOK, RegTypes, Maybe
    <3>2. PICK e \in {[file EXCEPT !.on = ~@]} \cup {[file EXCEPT !.port = p] : p \in Ports},
               later \in BOOLEAN : tx' = Write(e, later, FALSE)
      BY <2>3 DEF Patch
    <3>3. e.pin = file.pin
      BY <3>1, <3>2 DEF Entries
    <3>4. tx'.want = e
      BY <3>2 DEF Write, Idle
    <3> QED BY <3>3, <3>4 DEF Trust
  <2>4. CASE Remove
    <3>1. tx' = Write(Absent, FALSE, FALSE)
      BY <2>4 DEF Remove
    <3> QED BY <3>1 DEF Write, Idle, Absent, Vouched
  <2>5. CASE SaveFails \/ StartAdditions
    <3>1. tx' = Idle
      BY <2>5 DEF SaveFails, StartAdditions
    <3> QED BY <2>1, <3>1
  <2>6. CASE Decide
    <3>1. tx' = Idle \/ tx'.want = tx.want
      BY <2>6 DEF Decide, TypeOK, RegTypes
    <3> QED BY <2>1, <3>1 DEF Trust
  <2>7. CASE StopVictims
    <3>1. tx'.want = tx.want
      BY <2>7 DEF StopVictims, TypeOK, RegTypes
    <3> QED BY <3>1 DEF Trust
  <2>8. CASE HandEdit
    BY <2>8 DEF HandEdit, Trust
  <2> QED BY <2>2, <2>3, <2>4, <2>5, <2>6, <2>7, <2>8 DEF TxStep
<1> QED BY <1>1, <1>2, <1>3 DEF Trust

LEMMA TrustStep == TypeOK /\ Trust /\ [Next]_vars => Trust'
<1> SUFFICES ASSUME TypeOK, Trust, [Next]_vars PROVE Trust'
  OBVIOUS
<1> DEFINE Quiet == UNCHANGED <<file, tx, call>>
<1>1. Quiet => Trust'
  BY DEF Trust
<1>2. UNCHANGED vars => Quiet
  BY DEF vars, regVars
<1>3. ASSUME NEW i \in Ids, RunnerStep(i) \/ DialFails(i) \/ Drop(i) PROVE Quiet
  BY <1>3
  DEF RunnerStep, Connect, Wake, Bind, Probe, Unlink, StopServe, Drain, DialFails, Drop,
      runFrame, regVars
<1>4. CloseBegin \/ CloseEnd \/ RelayStep \/ GhostEnds \/ Accept \/ ForeignBinds
        \/ ForeignEnds \/ Shutdown \/ Rekey \/ SetPolicy => Quiet
  BY DEF CloseBegin, CloseEnd, RelayStep, RelayTrack, RelayDial, RelayEnd, GhostEnds,
         Accept, ForeignBinds, ForeignEnds, Shutdown, Rekey, SetPolicy, runFrame, regVars
<1> HIDE DEF Quiet
<1> QED
  BY <1>1, <1>2, <1>3, <1>4, AddTrust, TxTrust DEF Next, Disturbance

\* A host key reaches ssh.yaml only if a user supplied or confirmed it: a key
\* that an unverified server presents while Registry.Add dials is never stored.
THEOREM StoredPinTrusted == Spec => []PinTrusted
<1>1. TypeOK /\ Trust /\ [Next]_vars => Trust'
  BY TrustStep
<1>2. Trust => PinTrusted
  BY DEF Trust, Vouched, PinTrusted
<1> QED BY <1>1, <1>2, TrustInit, TypeCorrect, PTL DEF Spec

-----------------------------------------------------------------------------
(***************************************************************************)
(* The running set follows ssh.yaml.  Between transactions this is Synced; *)
(* to be inductive it says what a transaction has in hand.  One that only  *)
(* reads wants what the file says; a save that may fail leaves set and     *)
(* file as they were; and while Reconcile stops and starts, the remote is  *)
(* out of the map or is already what is wanted.                            *)
(***************************************************************************)
InSync(e) == remote.cfg = e /\ (remote.id # 0 <=> e.on)

\* What holds before and after a transaction, and through one whose save fails.
SyncHeld ==
    tx.pc \in {"idle", "loaded"} /\ (tx.pc = "loaded" => tx.save)
        /\ ~dirty /\ deferred = 0 /\ ~closed => InSync(file)

ReadHeld == tx.pc = "loaded" /\ ~tx.save => ~tx.later /\ (dirty \/ tx.want = file)

ApplyHeld ==
    tx.pc \in {"stop", "stopping"} =>
        /\ ~dirty => tx.want = file
        /\ ~closed => remote = Unmanaged \/ InSync(tx.want)

Following == (remote.id # 0 <=> remote.cfg.on) /\ SyncHeld /\ ReadHeld /\ ApplyHeld

LEMMA FollowingInit == Init => Following
<1>1. Init => tx.pc = "idle" /\ remote.cfg = file
  BY DEF Init, Idle
<1>2. Init => (remote.id # 0 <=> file.on)
  BY DEF Init, Absent
<1> QED BY <1>1, <1>2 DEF Following, SyncHeld, ReadHeld, ApplyHeld, InSync

\* A transaction starts: it will write, or it has read what the file says.
LEMMA BeginsFollowing ==
    ASSUME Following, tx.pc = "idle", tx'.pc = "loaded", UNCHANGED <<file, remote, closed>>,
           \/ tx'.save /\ UNCHANGED <<dirty, deferred>>
           \/ ~tx'.save /\ ~tx'.later /\ tx'.want = file
    PROVE  Following'
BY DEF Following, SyncHeld, ReadHeld, ApplyHeld, InSync

LEMMA OperationsFollowing ==
    ASSUME Following, \/ Patch \/ Remove \/ Resync \/ DeferredReconcile
                      \/ \E c \in Callers : AddCommit(c)
    PROVE  Following'
<1>1. CASE Patch
  <2>1. PICK e \in {[file EXCEPT !.on = ~@]} \cup {[file EXCEPT !.port = p] : p \in Ports},
             later \in BOOLEAN : tx' = Write(e, later, FALSE)
    BY <1>1 DEF Patch
  <2>2. tx'.pc = "loaded" /\ tx'.save
    BY <2>1 DEF Write, Idle
  <2> QED BY <1>1, <2>2, BeginsFollowing DEF Patch, mgrVars
<1>2. CASE Remove
  <2>1. tx' = Write(Absent, FALSE, FALSE)
    BY <1>2 DEF Remove
  <2>2. tx'.pc = "loaded" /\ tx'.save
    BY <2>1 DEF Write, Idle
  <2> QED BY <1>2, <2>2, BeginsFollowing DEF Remove, mgrVars
<1>3. CASE Resync \/ DeferredReconcile
  <2>1. tx' = [Idle EXCEPT !.pc = "loaded", !.base = file, !.want = file]
    BY <1>3 DEF Resync, DeferredReconcile, Reread
  <2>2. tx'.pc = "loaded" /\ ~tx'.save /\ ~tx'.later /\ tx'.want = file
    BY <2>1 DEF Idle
  <2> QED BY <1>3, <2>2, BeginsFollowing DEF Resync, DeferredReconcile, Reread, mgrVars
<1>4. ASSUME NEW c \in Callers, AddCommit(c) PROVE Following'
  <2>1. CASE tx' = tx
    BY <1>4, <2>1 DEF AddCommit, mgrVars, Following, SyncHeld, ReadHeld, ApplyHeld, InSync
  <2>2. CASE tx' # tx
    <3> DEFINE e == [port |-> call[c].req.port, pin |-> call[c].pin, on |-> TRUE]
               repin == call[c].req.force /\ call[c].req.key # NoPin
    <3>1. tx' = Write(e, FALSE, repin)
      BY <1>4, <2>2 DEF AddCommit
    <3>2. tx'.pc = "loaded" /\ tx'.save
      BY <3>1 DEF Write, Idle
    <3> QED BY <1>4, <3>2, BeginsFollowing DEF AddCommit, mgrVars
  <2> QED BY <2>1, <2>2
<1> QED BY <1>1, <1>2, <1>3, <1>4

\* Phase 1 of Reconcile: what it does not take out of the map is as wanted.
LEMMA SparedAsWanted ==
    ASSUME Following, NEW want, ~Victim(want)
    PROVE  remote = Unmanaged \/ InSync(want)
<1>1. SUFFICES ASSUME remote # Unmanaged PROVE InSync(want)
  OBVIOUS
<1>2. want # Absent
  BY <1>1 DEF Victim
<1>3. CASE want.on
  <2>1. remote.cfg = want
    BY <1>1, <1>3 DEF Victim
  <2> QED BY <1>3, <2>1 DEF Following, InSync
<1>4. CASE ~want.on
  BY <1>1, <1>2, <1>4 DEF Victim, InSync
<1> QED BY <1>3, <1>4

LEMMA DecideFollowing ==
    ASSUME TypeOK, Following, Decide
    PROVE  Following'
<1>1. tx.pc = "loaded" /\ closed' = closed
  BY DEF Decide
<1>2. tx.save \in BOOLEAN /\ tx.later \in BOOLEAN /\ closed \in BOOLEAN /\ deferred \in Nat
  BY DEF TypeOK, RegTypes, MgrTypes
<1>3. ~dirty' => tx.want = file'
  <2>1. CASE tx.save
    BY <2>1 DEF Decide
  <2>2. CASE ~tx.save
    <3>1. file' = file /\ dirty' = dirty
      BY <2>2 DEF Decide
    <3> QED BY <1>1, <2>2, <3>1 DEF Following, ReadHeld
  <2> QED BY <2>1, <2>2
<1>4. remote'.id # 0 <=> remote'.cfg.on
  <2>1. remote' = remote \/ remote' = Unmanaged
    BY DEF Decide
  <2> QED BY <2>1 DEF Following, Unmanaged, Absent
<1>5. CASE closed \/ tx.later
  <2>1. tx' = Idle
    BY <1>5 DEF Decide
  <2>2. tx'.pc = "idle"
    BY <2>1 DEF Idle
  <2>3. closed' \/ deferred' # 0
    BY <1>2, <1>5 DEF Decide
  <2> QED BY <1>4, <2>2, <2>3 DEF Following, SyncHeld, ReadHeld, ApplyHeld
<1>6. CASE ~closed /\ ~tx.later
  <2>1. tx'.pc = "stop" /\ tx'.want = tx.want
    <3>1. tx' = [tx EXCEPT !.pc = "stop",
                           !.victim = IF Victim(tx.want) THEN remote.id ELSE 0]
      BY <1>6 DEF Decide
    <3> QED BY <3>1 DEF TypeOK, RegTypes
  <2>2. remote' = Unmanaged \/ InSync(tx.want)'
    <3>1. CASE Victim(tx.want)
      BY <1>6, <3>1 DEF Decide
    <3>2. CASE ~Victim(tx.want)
      <4>1. remote' = remote
        BY <1>6, <3>2 DEF Decide
      <4>2. remote = Unmanaged \/ InSync(tx.want)
        BY <3>2, SparedAsWanted
      <4> QED BY <2>1, <4>1, <4>2 DEF InSync
    <3> QED BY <3>1, <3>2
  <2>3. Unmanaged' = Unmanaged
    BY DEF Unmanaged, Absent
  <2> QED
    BY <1>3, <1>4, <2>1, <2>2, <2>3 DEF Following, SyncHeld, ReadHeld, ApplyHeld
<1> QED BY <1>5, <1>6

\* Phase 3: what is missing from the map is started, or listed if it is off.
LEMMA StartFollowing ==
    ASSUME TypeOK, Following, StartAdditions
    PROVE  Following'
<1>1. tx.pc = "stopping" /\ UNCHANGED <<file, dirty, deferred, closed>>
  BY DEF StartAdditions
<1>2. tx'.pc = "idle"
  BY DEF StartAdditions, Idle
<1>3. CASE closed \/ remote # Unmanaged \/ tx.want = Absent
  <2>1. remote' = remote
    BY <1>3 DEF StartAdditions
  <2>2. ~closed => InSync(tx.want)
    <3>1. remote = Unmanaged /\ tx.want = Absent => InSync(tx.want)
      BY DEF Unmanaged, Absent, InSync
    <3> QED BY <1>1, <1>3, <3>1 DEF Following, ApplyHeld
  <2> QED
    BY <1>1, <1>2, <2>1, <2>2 DEF Following, SyncHeld, ReadHeld, ApplyHeld, InSync
<1>4. CASE ~(closed \/ remote # Unmanaged \/ tx.want = Absent)
  <2>1. remote'.cfg = tx.want /\ (remote'.id # 0 <=> tx.want.on)
    <3>1. CASE tx.want.on
      <4>1. Launch(tx.want)
        BY <1>4, <3>1 DEF StartAdditions
      <4>2. PICK i \in Ids : remote' = [cfg |-> tx.want, id |-> i]
        BY <4>1 DEF Launch
      <4> QED BY <3>1, <4>2 DEF Ids
    <3>2. CASE ~tx.want.on
      BY <1>4, <3>2 DEF StartAdditions
    <3> QED BY <3>1, <3>2
  <2> QED
    BY <1>1, <1>2, <2>1 DEF Following, SyncHeld, ReadHeld, ApplyHeld, InSync
<1> QED BY <1>3, <1>4

LEMMA FollowingStep == TypeOK /\ Following /\ [Next]_vars => Following'
<1> SUFFICES ASSUME TypeOK, Following, [Next]_vars PROVE Following'
  OBVIOUS
<1> DEFINE Quiet == UNCHANGED <<file, dirty, tx, deferred, remote, closed>>
<1>1. Quiet => Following'
  BY DEF Following, SyncHeld, ReadHeld, ApplyHeld, InSync, Unmanaged, Absent
<1>2. UNCHANGED vars => Quiet
  BY DEF vars, regVars, mgrVars
<1>3. ASSUME NEW i \in Ids, RunnerStep(i) \/ DialFails(i) \/ Drop(i) PROVE Quiet
  BY <1>3
  DEF RunnerStep, Connect, Wake, Bind, Probe, Unlink, StopServe, Drain, DialFails, Drop,
      runFrame, regVars, mgrVars
<1>4. CloseEnd \/ RelayStep \/ GhostEnds \/ Accept \/ ForeignBinds
        \/ ForeignEnds \/ Shutdown \/ Rekey \/ SetPolicy => Quiet
  BY DEF CloseEnd, RelayStep, RelayTrack, RelayDial, RelayEnd, GhostEnds, Accept,
         ForeignBinds, ForeignEnds, Shutdown, Rekey, SetPolicy, runFrame, regVars, mgrVars
<1>5. ASSUME NEW c \in Callers, AddStart(c) \/ AddVerify(c) \/ AddRelease(c) PROVE Quiet
  BY <1>5 DEF AddStart, AddVerify, AddRelease, mgrVars
<1>6. CASE HandEdit
  BY <1>6 DEF HandEdit, mgrVars, Following, SyncHeld, ReadHeld, ApplyHeld, InSync, Unmanaged, Absent
<1>7. CASE SaveFails
  <2>1. tx.pc = "loaded" /\ tx.save /\ tx'.pc = "idle"
    BY <1>7 DEF SaveFails, Idle
  <2> QED
    BY <1>7, <2>1 DEF SaveFails, mgrVars, Following, SyncHeld, ReadHeld, ApplyHeld, InSync
<1>8. CASE CloseBegin
  <2>1. closed' /\ remote' = Unmanaged /\ UNCHANGED <<file, dirty, tx, deferred>>
    BY <1>8 DEF CloseBegin, regVars
  <2> QED
    BY <2>1 DEF Following, SyncHeld, ReadHeld, ApplyHeld, Unmanaged, Absent
<1>9. CASE StopVictims
  <2>1. tx.pc = "stop" /\ tx'.pc = "stopping" /\ tx'.want = tx.want
    BY <1>9 DEF StopVictims, TypeOK, RegTypes
  <2> QED
    BY <1>9, <2>1
    DEF StopVictims, mgrVars, Following, SyncHeld, ReadHeld, ApplyHeld, InSync, Unmanaged, Absent
<1> HIDE DEF Quiet
<1> QED
  BY <1>1, <1>2, <1>3, <1>4, <1>5, <1>6, <1>7, <1>8, <1>9, OperationsFollowing,
     DecideFollowing, StartFollowing DEF Next, Disturbance, CallerStep, TxStep

\* Between two Registry operations the connections that run are the ones that
\* ssh.yaml asks for, unless it was edited by hand or a reconcile is deferred:
\* a request, the refresh tick and Close may meet in any order (registry.go
\* holds txMu from load to the end of Reconcile).
THEOREM RunningFollowsFile == Spec => []Synced
<1>1. TypeOK /\ Following /\ [Next]_vars => Following'
  BY FollowingStep
<1>2. TypeOK /\ Following => Synced
  <2> SUFFICES ASSUME TypeOK, Following, tx.pc = "idle", ~dirty, deferred = 0, ~closed
               PROVE  remote = [cfg |-> file, id |-> remote.id] /\ (remote.id # 0 <=> file.on)
    BY DEF Synced
  <2>1. InSync(file)
    BY DEF Following, SyncHeld
  <2>2. remote = [cfg |-> remote.cfg, id |-> remote.id]
    BY DEF TypeOK, MgrTypes
  <2> QED BY <2>1, <2>2 DEF InSync
<1> QED BY <1>1, <1>2, FollowingInit, TypeCorrect, PTL DEF Spec

-----------------------------------------------------------------------------
(***************************************************************************)
(* A stored pin survives.  What Add read before it dialled reaches its     *)
(* commit unchanged, or the request is a forced one that names a key, or   *)
(* there was no pin to keep; and what the holder of txMu will write has    *)
(* the pin of the entry it loaded.                                         *)
(***************************************************************************)
WritesPin ==
    /\ tx.pc = "loaded" /\ tx.save /\ ~tx.repin
    /\ tx.base # Absent /\ tx.want # Absent /\ tx.base.pin # NoPin
    => tx.want.pin = tx.base.pin

AddsPin ==
    \A c \in Callers :
        /\ call[c].pc = "verify" /\ call[c].pin = NoPin => call[c].seen = NoPin
        /\ call[c].pc \in {"proof", "commit"} =>
              \/ call[c].req.force /\ call[c].req.key # NoPin
              \/ call[c].seen \in {NoPin, call[c].pin}

LEMMA PinsInit == Init => WritesPin /\ AddsPin
BY DEF Init, Idle, NoCall, WritesPin, AddsPin

LEMMA AddsPinStep ==
    ASSUME TypeOK, AddsPin, NEW c \in Callers, AddStart(c) \/ CallerStep(c)
    PROVE  AddsPin'
<1> DEFINE Keeps(x) ==
        /\ x.pc = "verify" /\ x.pin = NoPin => x.seen = NoPin
        /\ x.pc \in {"proof", "commit"} =>
              (x.req.force /\ x.req.key # NoPin) \/ x.seen \in {NoPin, x.pin}
<1>1. Keeps(call'[c]) /\ (\A d \in Callers \ {c} : call'[d] = call[d]) => AddsPin'
  BY DEF AddsPin
<1>2. call[c] = [call[c] EXCEPT !.pc = call[c].pc] /\ Keeps(call[c])
  BY DEF AddsPin, TypeOK, RegTypes
<1>3. ASSUME NEW x, call' = [call EXCEPT ![c] = x]
      PROVE  call'[c] = x /\ \A d \in Callers \ {c} : call'[d] = call[d]
  BY <1>3 DEF TypeOK, RegTypes
<1>4. Keeps(NoCall)
  BY DEF NoCall
<1>5. Refused(c) => AddsPin'
  BY <1>1, <1>3, <1>4 DEF Refused
<1>6. CASE AddStart(c)
  <2>1. PICK r \in Requests :
          call' = [call EXCEPT ![c] =
              [pc   |-> IF r.force THEN "commit" ELSE "verify",
               req  |-> r,
               seen |-> file.pin,
               pin  |-> IF r.key = NoPin THEN file.pin ELSE r.key]]
    BY <1>6 DEF AddStart
  <2> DEFINE x == [pc   |-> IF r.force THEN "commit" ELSE "verify",
                   req  |-> r,
                   seen |-> file.pin,
                   pin  |-> IF r.key = NoPin THEN file.pin ELSE r.key]
  <2>2. Keeps(x)
    OBVIOUS
  <2> QED BY <1>1, <1>3, <2>1, <2>2
<1>7. CASE AddVerify(c)
  <2>1. call[c].pc = "verify"
    BY <1>7 DEF AddVerify
  <2>2. CASE AddConfirm(c)
    <3>1. CASE call[c].req.accept = server.key
      <4> DEFINE x == [[call[c] EXCEPT !.pc = "commit"] EXCEPT !.pin = server.key]
      <4>1. call' = [call EXCEPT ![c] = x]
        BY <2>2, <3>1 DEF AddConfirm, Verified
      <4>2. call[c].pin = NoPin
        BY <2>2 DEF AddConfirm, Unknown
      <4>3. x.pc = "commit" /\ x.seen = call[c].seen
        BY DEF TypeOK, RegTypes
      <4>4. x.seen = NoPin
        BY <1>2, <2>1, <4>2, <4>3
      <4> HIDE DEF x
      <4>5. Keeps(x)
        BY <4>3, <4>4
      <4> QED BY <1>1, <1>3, <4>1, <4>5
    <3>2. CASE call[c].req.accept # server.key
      BY <1>5, <2>2, <3>2 DEF AddConfirm
    <3> QED BY <3>1, <3>2
  <2>3. CASE AddProve(c)
    <3>1. ASSUME NEW pc \in {"proof", "commit"},
                 call' = [call EXCEPT ![c] = [@ EXCEPT !.pc = pc, !.pin = call[c].seen]]
          PROVE  AddsPin'
      <4> DEFINE x == [[call[c] EXCEPT !.pc = pc] EXCEPT !.pin = call[c].seen]
      <4>1. call' = [call EXCEPT ![c] = x]
        BY <3>1
      <4>2. x.pc = pc /\ x.pin = x.seen
        BY DEF TypeOK, RegTypes
      <4> HIDE DEF x
      <4>3. Keeps(x)
        BY <4>2
      <4> QED BY <1>1, <1>3, <4>1, <4>3
    <3>2. \/ Refused(c)
          \/ \E pc \in {"proof", "commit"} :
                call' = [call EXCEPT ![c] = [@ EXCEPT !.pc = pc, !.pin = call[c].seen]]
      BY <2>3 DEF AddProve, Verified
    <3> QED BY <1>5, <3>1, <3>2
  <2>4. CASE AddReject(c)
    BY <1>5, <2>4 DEF AddReject
  <2> QED BY <1>7, <2>2, <2>3, <2>4 DEF AddVerify
<1>8. CASE AddRelease(c)
  <2> DEFINE x == [call[c] EXCEPT !.pc = "commit"]
  <2>1. call' = [call EXCEPT ![c] = x]
    BY <1>8 DEF AddRelease
  <2>2. /\ x.pc = "commit" /\ x.req = call[c].req
        /\ x.seen = call[c].seen /\ x.pin = call[c].pin
    BY DEF TypeOK, RegTypes
  <2>3. call[c].pc = "proof"
    BY <1>8 DEF AddRelease
  <2> HIDE DEF x
  <2>4. Keeps(x)
    BY <1>2, <2>2, <2>3
  <2> QED BY <1>1, <1>3, <2>1, <2>4
<1>9. CASE AddCommit(c)
  BY <1>1, <1>3, <1>4, <1>9 DEF AddCommit
<1> QED BY <1>6, <1>7, <1>8, <1>9 DEF CallerStep

\* What a transaction takes from the file it loads, and what it keeps of it.
LEMMA WritesPinStep ==
    ASSUME TypeOK, WritesPin, AddsPin,
           \/ Patch \/ Remove \/ Resync \/ DeferredReconcile \/ TxStep \/ SaveFails
           \/ \E c \in Callers : AddCommit(c)
    PROVE  WritesPin'
<1>1. ASSUME NEW e, NEW later, NEW repin, tx' = Write(e, later, repin),
             \/ e = Absent
             \/ file # Absent /\ file.pin # NoPin /\ ~repin => e.pin = file.pin
      PROVE  WritesPin'
  <2>1. tx'.base = file /\ tx'.want = e /\ tx'.repin = repin
    BY <1>1 DEF Write, Idle
  <2> QED BY <1>1, <2>1 DEF WritesPin, Absent, NoPin
<1>2. CASE Patch
  <2>1. file \in Entries
    BY <1>2 DEF Patch, TypeOK, RegTypes, Maybe
  <2>2. PICK e \in {[file EXCEPT !.on = ~@]} \cup {[file EXCEPT !.port = p] : p \in Ports},
             later \in BOOLEAN : tx' = Write(e, later, FALSE)
    BY <1>2 DEF Patch
  <2>3. e.pin = file.pin
    BY <2>1, <2>2 DEF Entries
  <2> QED BY <1>1, <2>2, <2>3
<1>3. CASE Remove
  BY <1>1, <1>3 DEF Remove
<1>4. CASE Resync \/ DeferredReconcile
  <2>1. tx' = [Idle EXCEPT !.pc = "loaded", !.base = file, !.want = file]
    BY <1>4 DEF Resync, DeferredReconcile, Reread
  <2> QED BY <2>1 DEF Idle, WritesPin
<1>5. CASE TxStep \/ SaveFails
  <2>1. \/ tx' = Idle \/ tx' = [tx EXCEPT !.pc = "stopping"]
        \/ tx' = [tx EXCEPT !.pc = "stop", !.victim = IF Victim(tx.want) THEN remote.id ELSE 0]
    BY <1>5 DEF TxStep, Decide, StopVictims, StartAdditions, SaveFails
  <2>2. CASE tx' = Idle
    BY <2>2 DEF Idle, WritesPin
  <2>3. CASE tx' = [tx EXCEPT !.pc = "stopping"]
    <3>1. tx'.pc = "stopping"
      BY <2>3 DEF TypeOK, RegTypes
    <3> QED BY <3>1 DEF WritesPin
  <2>4. CASE tx' = [tx EXCEPT !.pc = "stop",
                              !.victim = IF Victim(tx.want) THEN remote.id ELSE 0]
    <3>1. tx'.pc = "stop"
      BY <2>4 DEF TypeOK, RegTypes
    <3> QED BY <3>1 DEF WritesPin
  <2> QED BY <2>1, <2>2, <2>3, <2>4
<1>6. ASSUME NEW c \in Callers, AddCommit(c) PROVE WritesPin'
  <2>1. CASE tx' = tx
    BY <2>1 DEF WritesPin, Absent, NoPin
  <2>2. CASE tx' # tx
    <3> DEFINE e == [port |-> call[c].req.port, pin |-> call[c].pin, on |-> TRUE]
               repin == call[c].req.force /\ call[c].req.key # NoPin
    <3>1. tx' = Write(e, FALSE, repin) /\ (file = Absent \/ file.pin = call[c].seen)
      BY <1>6, <2>2 DEF AddCommit
    <3>2. file # Absent /\ file.pin # NoPin /\ ~repin => e.pin = file.pin
      BY <1>6, <3>1 DEF AddCommit, AddsPin
    <3> QED BY <1>1, <3>1, <3>2
  <2> QED BY <2>1, <2>2
<1> QED BY <1>2, <1>3, <1>4, <1>5, <1>6

LEMMA PinsStep ==
    TypeOK /\ WritesPin /\ AddsPin /\ [Next]_vars => WritesPin' /\ AddsPin'
<1> SUFFICES ASSUME TypeOK, WritesPin, AddsPin, [Next]_vars PROVE WritesPin' /\ AddsPin'
  OBVIOUS
<1>1. UNCHANGED tx => WritesPin'
  BY DEF WritesPin, Absent, NoPin
<1>2. UNCHANGED call => AddsPin'
  BY DEF AddsPin, NoPin
<1>3. UNCHANGED vars => UNCHANGED <<tx, call>>
  BY DEF vars, regVars
<1>4. ASSUME NEW i \in Ids, RunnerStep(i) \/ DialFails(i) \/ Drop(i) PROVE UNCHANGED <<tx, call>>
  BY <1>4
  DEF RunnerStep, Connect, Wake, Bind, Probe, Unlink, StopServe, Drain, DialFails, Drop,
      runFrame, regVars
<1>5. CloseBegin \/ CloseEnd \/ RelayStep \/ GhostEnds \/ Accept \/ ForeignBinds
        \/ ForeignEnds \/ Shutdown \/ Rekey \/ SetPolicy \/ HandEdit => UNCHANGED <<tx, call>>
  BY DEF CloseBegin, CloseEnd, RelayStep, RelayTrack, RelayDial, RelayEnd, GhostEnds,
         Accept, ForeignBinds, ForeignEnds, Shutdown, Rekey, SetPolicy, HandEdit, runFrame,
         regVars
<1>6. TxStep \/ SaveFails \/ Patch \/ Remove \/ Resync \/ DeferredReconcile => UNCHANGED call
  BY DEF TxStep, Decide, StopVictims, StartAdditions, SaveFails, Patch, Remove, Resync,
         DeferredReconcile
<1>7. ASSUME NEW c \in Callers, AddStart(c) \/ AddVerify(c) \/ AddRelease(c)
      PROVE  UNCHANGED tx
  BY <1>7 DEF AddStart, AddVerify, AddRelease
<1> QED
  BY <1>1, <1>2, <1>3, <1>4, <1>5, <1>6, <1>7, AddsPinStep, WritesPinStep
  DEF Next, Disturbance, CallerStep

\* The only steps that change the pin of an entry: a save, and a hand edit.
LEMMA PinStep ==
    ASSUME TypeOK, WritesPin, [Next]_vars, file # Absent, file' # Absent,
           file.pin # NoPin, file'.pin # file.pin
    PROVE  \/ tx.pc = "loaded" /\ tx' # tx /\ (tx.repin \/ tx.base # file)
           \/ tx' = tx
<1>1. HandEdit \/ Decide
  <2>1. UNCHANGED vars => file' = file
    BY DEF vars, regVars
  <2>2. ASSUME NEW i \in Ids, RunnerStep(i) \/ DialFails(i) \/ Drop(i) PROVE file' = file
    BY <2>2
    DEF RunnerStep, Connect, Wake, Bind, Probe, Unlink, StopServe, Drain, DialFails, Drop,
        runFrame, regVars
  <2>3. CloseBegin \/ CloseEnd \/ RelayStep \/ GhostEnds \/ Accept \/ ForeignBinds
          \/ ForeignEnds \/ Shutdown \/ Rekey \/ SetPolicy => file' = file
    BY DEF CloseBegin, CloseEnd, RelayStep, RelayTrack, RelayDial, RelayEnd, GhostEnds,
           Accept, ForeignBinds, ForeignEnds, Shutdown, Rekey, SetPolicy, runFrame, regVars
  <2>4. StopVictims \/ StartAdditions \/ SaveFails \/ Patch \/ Remove \/ Resync
          \/ DeferredReconcile => file' = file
    BY DEF StopVictims, StartAdditions, SaveFails, Patch, Remove, Resync, DeferredReconcile
  <2>5. ASSUME NEW c \in Callers, AddStart(c) \/ CallerStep(c) PROVE file' = file
    BY <2>5 DEF CallerStep, AddStart, AddVerify, AddRelease, AddCommit
  <2> QED BY <2>1, <2>2, <2>3, <2>4, <2>5 DEF Next, Disturbance, TxStep
<1>2. CASE HandEdit
  BY <1>2 DEF HandEdit
<1>3. CASE Decide
  <2>1. tx.pc = "loaded" /\ tx.save /\ file' = tx.want
    BY <1>3 DEF Decide
  <2>2. \/ tx' = Idle
        \/ tx' = [tx EXCEPT !.pc = "stop", !.victim = IF Victim(tx.want) THEN remote.id ELSE 0]
    BY <1>3 DEF Decide
  <2>3. tx'.pc # "loaded"
    <3>1. CASE tx' = Idle
      BY <3>1 DEF Idle
    <3>2. CASE tx' = [tx EXCEPT !.pc = "stop",
                                !.victim = IF Victim(tx.want) THEN remote.id ELSE 0]
      BY <3>2 DEF TypeOK, RegTypes
    <3> QED BY <2>2, <3>1, <3>2
  <2>4. tx.repin \/ tx.base # file
    BY <2>1 DEF WritesPin
  <2> QED BY <2>1, <2>3, <2>4
<1> QED BY <1>1, <1>2, <1>3

\* The probe's verdict is the only way to the unlink.
LEMMA ProbeStep ==
    ASSUME TypeOK, [Next]_vars, NEW i \in Ids, runner[i].pc = "probe", runner'[i].pc = "unlink"
    PROVE  socket.at \in {"free", "stale"}
<1> DEFINE Elsewhere == runner'[i] = runner[i]
<1>t. runner \in [Ids -> [cfg: Maybe(Entries), pc: RunnerPcs, cancelled: BOOLEAN]]
  BY DEF TypeOK, RunTypes
<1>1. ~Elsewhere
  OBVIOUS
<1>2. UNCHANGED vars => Elsewhere
  BY DEF vars, runVars
<1>3. ASSUME NEW j \in Ids, NEW pc, Leave(j, pc) \/ Goto(j, pc), j # i PROVE Elsewhere
  BY <1>t, <1>3 DEF Leave, Goto
<1>4. ASSUME NEW j \in Ids, NEW pc, Leave(j, pc) \/ Goto(j, pc), j = i PROVE runner'[i].pc \in {"exited", pc}
  BY <1>t, <1>4 DEF Leave, Goto, Exited
<1>5. ASSUME NEW j \in Ids, RunnerStep(j) PROVE socket.at \in {"free", "stale"}
  <2>1. CASE j # i
    <3>1. \/ \E pc \in RunnerPcs : Leave(j, pc) \/ Goto(j, pc)
          \/ Elsewhere
      BY <1>5 DEF RunnerStep, Connect, Wake, Bind, Probe, Unlink, StopServe, Drain, RunnerPcs
    <3> QED BY <1>1, <1>3, <2>1, <3>1
  <2>2. CASE j = i
    <3>1. Probe(i)
      BY <1>5, <2>2 DEF RunnerStep, Connect, Wake, Bind, Unlink, StopServe, Drain
    <3>2. Leave(i, IF ProvenStale THEN "unlink" ELSE "sleep")
      BY <3>1 DEF Probe
    <3>3. ProvenStale
      BY <1>4, <3>2
    <3> QED BY <3>3 DEF ProvenStale
  <2> QED BY <2>1, <2>2
<1>6. ASSUME NEW j \in Ids, DialFails(j) \/ Drop(j) PROVE FALSE
  <2>1. \E pc \in {"drain", "sleep"} : Leave(j, pc) \/ Goto(j, pc)
    BY <1>6 DEF DialFails, Drop
  <2> QED BY <1>1, <1>3, <1>4, <2>1
<1>7. ASSUME NEW j, Cancel(j) PROVE FALSE
  <2>1. runner'[i].pc = runner[i].pc
    BY <1>t, <1>7 DEF Cancel
  <2> QED BY <2>1
<1>8. ~StopVictims /\ ~CloseBegin
  BY <1>7 DEF StopVictims, CloseBegin
<1>9. ~StartAdditions
  <2>1. ASSUME NEW e, Launch(e) PROVE FALSE
    <3>1. PICK j \in Ids : /\ runner[j].pc = "exited"
                           /\ runner' = [runner EXCEPT ![j] = [cfg |-> e, pc |-> "connect", cancelled |-> FALSE]]
      BY <2>1 DEF Launch
    <3> QED BY <1>t, <3>1
  <2> QED BY <2>1, <1>1 DEF StartAdditions
<1>10. CloseEnd \/ RelayStep \/ GhostEnds \/ Accept \/ ForeignBinds \/ ForeignEnds
         \/ Shutdown \/ Rekey \/ SetPolicy \/ HandEdit => Elsewhere
  BY DEF CloseEnd, RelayStep, RelayTrack, RelayDial, RelayEnd, GhostEnds, Accept,
         ForeignBinds, ForeignEnds, Shutdown, Rekey, SetPolicy, HandEdit, runVars
<1>11. Decide \/ SaveFails \/ Patch \/ Remove \/ Resync \/ DeferredReconcile => Elsewhere
  BY DEF Decide, SaveFails, Patch, Remove, Resync, DeferredReconcile, runVars
<1>12. ASSUME NEW c \in Callers, AddStart(c) \/ CallerStep(c) PROVE Elsewhere
  BY <1>12 DEF CallerStep, AddStart, AddVerify, AddRelease, AddCommit, runVars
<1> HIDE DEF Elsewhere
<1> QED
  BY <1>1, <1>2, <1>5, <1>6, <1>8, <1>9, <1>10, <1>11, <1>12 DEF Next, Disturbance, TxStep

\* An Add whose verification looked at an older pin does not bring that pin
\* back (registry.go, the comparison under txMu), and a path at which a session
\* listens is never called stale (forward.go, liveListenerAt).
THEOREM PinsAndSocketsKept == Spec => ForwardKeeps
<1>1. TypeOK /\ WritesPin /\ AddsPin /\ [Next]_vars => WritesPin' /\ AddsPin'
  BY PinsStep
<1>2. TypeOK /\ WritesPin /\ [Next]_vars =>
        [(file # Absent /\ file' # Absent /\ file.pin # NoPin /\ file'.pin # file.pin) =>
            \/ tx.pc = "loaded" /\ tx' # tx /\ (tx.repin \/ tx.base # file)
            \/ tx' = tx]_vars
  BY PinStep
<1>3. TypeOK /\ [Next]_vars =>
        [\A i \in Ids : runner[i].pc = "probe" /\ runner'[i].pc = "unlink" =>
            socket.at \in {"free", "stale"}]_vars
  BY ProbeStep
<1> QED
  BY <1>1, <1>2, <1>3, PinsInit, TypeCorrect, PTL DEF Spec, ForwardKeeps, PinKept, ProbeSpares

\* What the callers of Manager and Registry rely on, for every number of
\* requests, keys, ports and disturbances: one connection per host, none after
\* Close, pins that a user vouched for, and a running set that follows the file.
THEOREM ForwardsSound == Spec => []ForwardSound
<1>1. TypeOK /\ OneRunner /\ NoneAfterClose /\ PinTrusted /\ Synced => ForwardSound
  BY DEF ForwardSound
<1> QED
  BY <1>1, TypeCorrect, OneConnection, NoneOutlivesClose, StoredPinTrusted,
     RunningFollowsFile, PTL
=============================================================================
