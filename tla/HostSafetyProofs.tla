-------------------------- MODULE HostSafetyProofs --------------------------
(***************************************************************************)
(* What the parts of a host that share no state keep, for any number of    *)
(* shells, workstations, processes and certificates: login suppression,    *)
(* the migration of shared sockets, the file system's handles and the      *)
(* rotation of the client certificate.                                     *)
(***************************************************************************)
EXTENDS LoginCheck, PeerMigration, VaultFS, CertRotation, FiniteSetTheorems, TLAPS

-----------------------------------------------------------------------------
(***************************************************************************)
(* Login suppression: the marker is the time at which the last check ended.*)
(***************************************************************************)
Times == {Never} \cup 0..MaxClock

CheckInv ==
    /\ clock \in 0..MaxClock
    /\ lastCheck \in Times /\ marker = lastCheck
    /\ DOMAIN shell = Shells

LEMMA CheckInitInv == CheckInit => CheckInv
BY LoginCheckAssumption DEF CheckInit, CheckInv, Times

LEMMA CheckStepInv == CheckInv /\ [CheckNext]_checkVars => CheckInv'
<1> SUFFICES ASSUME CheckInv, [CheckNext]_checkVars PROVE CheckInv'
  OBVIOUS
<1> USE LoginCheckAssumption DEF CheckInv, Times
<1>1. CASE UNCHANGED checkVars
  BY <1>1 DEF checkVars
<1>2. CASE Hour
  BY <1>2 DEF Hour
<1>3. CASE OtherChange
  BY <1>3 DEF OtherChange
<1>4. ASSUME NEW s \in Shells, Exit(s), UNCHANGED clock
      PROVE  CheckInv'
  BY <1>4 DEF Exit, Refresh
<1>5. ASSUME NEW s \in Shells, ShellOpens(s) \/ Ask(s) \/ Terminate(s) \/ Close(s)
      PROVE  CheckInv'
  BY <1>5 DEF ShellOpens, Ask, Terminate, Close
<1>6. ASSUME NEW s \in Shells, Silent(s) \/ Renew(s) \/ HandleReply(s) \/ Interrupt(s)
      PROVE  CheckInv'
  BY <1>4, <1>6 DEF Silent, Renew, HandleReply, Interrupt
<1> QED BY <1>1, <1>2, <1>3, <1>5, <1>6 DEF CheckNext

\* For any number of shells and any window: a shell goes past the marker exactly if
\* no check has ended within the window before it (runLoginCheck, IsFresh).
THEOREM ShellsQuiet == CheckSpec => QuietAfterCheck
<1>1. ASSUME CheckInv, CheckNext, NEW s \in Shells, shell[s] = "closed", shell'[s] # "closed"
      PROVE  shell'[s] = "quiet" <=> lastCheck # Never /\ clock - lastCheck \in 0..(Window - 1)
  <2>1. shell'[s] = IF IsFresh(marker) THEN "quiet" ELSE "checking"
    <3>1. \A t \in Shells : ShellOpens(t) => t = s
      BY <1>1 DEF ShellOpens, CheckInv
    <3>2. /\ ~Hour /\ ~OtherChange
          /\ \A t \in Shells : /\ ~Silent(t) /\ ~Renew(t) /\ ~Ask(t) /\ ~HandleReply(t)
                               /\ ~Interrupt(t) /\ ~Terminate(t) /\ ~Close(t)
      BY <1>1 DEF Hour, OtherChange, Silent, Renew, Ask, HandleReply, Interrupt, Terminate,
                  Close, Exit, CheckInv
    <3>3. ShellOpens(s)
      BY <1>1, <3>1, <3>2 DEF CheckNext
    <3>4. shell' = [shell EXCEPT ![s] = IF IsFresh(marker) THEN "quiet" ELSE "checking"]
      BY <3>3 DEF ShellOpens
    <3> QED BY <1>1, <3>4 DEF CheckInv
  <2>2. IsFresh(marker) <=> lastCheck # Never /\ clock - lastCheck \in 0..(Window - 1)
    BY <1>1, LoginCheckAssumption DEF IsFresh, CheckInv, Times, Never
  <2> QED BY <2>1, <2>2
<1>2. CheckInv /\ [CheckNext]_checkVars =>
        [\A s \in Shells :
           shell[s] = "closed" /\ shell'[s] # "closed" =>
             (shell'[s] = "quiet" <=>
                lastCheck # Never /\ clock - lastCheck \in 0..(Window - 1))]_checkVars
  BY <1>1
<1> QED BY <1>2, CheckInitInv, CheckStepInv, PTL DEF CheckSpec, QuietAfterCheck

-----------------------------------------------------------------------------
(***************************************************************************)
(* The migration of shared sockets: a job past the status knows a          *)
(* workstation whose forward may move, and a running forward is only ever  *)
(* ahead of the default if its file is.                                    *)
(***************************************************************************)
Sockets == {"legacy", "template"}

MigrationTypes ==
    /\ kind \in [Stations -> StationKinds]
    /\ entry \in [Stations -> Sockets] /\ running \in [Stations -> Sockets]
    /\ node.by \in Stations \cup {Nobody}
    /\ job \in [Inodes -> [pc : {"none", "status", "list", "patch", "confirm", "confirmed",
                                "uncertain"},
                           who : Stations \cup {Nobody}]]

RunningFollows == \A w \in Stations : running[w] = "template" => entry[w] = "template"

\* The exchange has read a status that let it go on.
AskedGood ==
    \A i \in Inodes :
        job[i].pc \notin {"none", "status"} =>
            job[i].who \in Stations /\ kind[job[i].who] = "good"

MigrationInv == MigrationTypes /\ RunningFollows /\ AskedGood /\ SourceKept /\ ConfirmedMoved

LEMMA MigrationInitInv == MigrationInit => MigrationInv
BY DEF MigrationInit, MigrationInv, MigrationTypes, Sockets, NoNode, NoJob, RunningFollows,
       AskedGood, SourceKept, ConfirmedMoved

LEMMA BehindType == MigrationTypes => Behind \in Stations \cup {Nobody}
BY DEF MigrationTypes, Behind

\* A step that leaves the jobs alone, and the files and forwards in order
LEMMA StationKeeps ==
    ASSUME MigrationInv, UNCHANGED <<kind, entry, job, swapped>>,
           running' \in [Stations -> Sockets], RunningFollows', node'.by \in Stations \cup {Nobody}
    PROVE  MigrationInv'
BY DEF MigrationInv, MigrationTypes, AskedGood, SourceKept, ConfirmedMoved

LEMMA StationStep ==
    ASSUME MigrationInv, NEW w \in Stations,
           BindForward(w) \/ DropForward(w) \/ RebindForward(w) \/ RestartStation(w)
    PROVE  MigrationInv'
<1>1. CASE BindForward(w)
  <2>1. UNCHANGED <<kind, entry, running, job, swapped>> /\ node'.by \in Stations \cup {Nobody}
    BY <1>1 DEF BindForward, MigrationInv, MigrationTypes
  <2> QED BY <2>1, StationKeeps DEF MigrationInv, MigrationTypes, RunningFollows
<1>2. CASE DropForward(w)
  BY <1>2, StationKeeps DEF DropForward, MigrationInv, MigrationTypes, RunningFollows
<1>3. CASE RebindForward(w) \/ RestartStation(w)
  <2>1. UNCHANGED <<kind, entry, node, job, swapped>> /\ running' = [running EXCEPT ![w] = entry[w]]
    BY <1>3 DEF RebindForward, RestartStation, Follow
  <2>2. running' \in [Stations -> Sockets] /\ RunningFollows'
    BY <2>1 DEF MigrationInv, MigrationTypes, RunningFollows
  <2> QED BY <2>1, <2>2, StationKeeps DEF MigrationInv, MigrationTypes
<1> QED BY <1>1, <1>2, <1>3

\* A step of the daemon's that gives one job another place
LEMMA JobMoves ==
    ASSUME MigrationInv, UNCHANGED <<kind, entry, running, node, swapped>>, NEW i \in Inodes,
           NEW pc \in {"none", "status", "list", "patch", "confirm", "confirmed", "uncertain"},
           NEW who \in Stations \cup {Nobody},
           job' = [job EXCEPT ![i] = [pc |-> pc, who |-> who]],
           pc \notin {"none", "status"} => who \in Stations /\ kind[who] = "good",
           pc = "confirmed" => entry[who] = "template"
    PROVE  MigrationInv'
<1> DEFINE j == [pc |-> pc, who |-> who]
<1>1. /\ job'[i] = j /\ \A k \in Inodes \ {i} : job'[k] = job[k]
      /\ MigrationTypes'
  BY DEF MigrationInv, MigrationTypes
<1>2. j.pc = pc /\ j.who = who
  OBVIOUS
<1> HIDE DEF j
<1>3. AskedGood' /\ ConfirmedMoved'
  BY <1>1, <1>2 DEF MigrationInv, AskedGood, ConfirmedMoved
<1> QED BY <1>1, <1>3 DEF MigrationInv, RunningFollows, SourceKept

LEMMA EndJobKeeps ==
    ASSUME MigrationInv, UNCHANGED <<kind, entry, running, node, swapped>>, NEW i \in Inodes,
           EndJob(i)
    PROVE  MigrationInv'
BY JobMoves DEF EndJob, NoJob

Exchanges == [pc : {"none", "status", "list", "patch", "confirm", "confirmed", "uncertain"},
              who : Stations \cup {Nobody}]

LEMMA ExchangeMoves ==
    ASSUME NEW j \in Exchanges, NEW pc
    PROVE  [j EXCEPT !.pc = pc] = [pc |-> pc, who |-> j.who]
<1>1. j = [pc |-> j.pc, who |-> j.who]
  BY DEF Exchanges
<1>2. ASSUME NEW p, NEW w, j = [pc |-> p, who |-> w] PROVE [j EXCEPT !.pc = pc] = [pc |-> pc, who |-> w]
  BY <1>2
<1> QED BY <1>1, <1>2

LEMMA JobRecord ==
    ASSUME MigrationInv, NEW i \in Inodes
    PROVE  /\ job[i].who \in Stations \cup {Nobody}
           /\ \A pc : [job EXCEPT ![i].pc = pc] = [job EXCEPT ![i] = [pc |-> pc, who |-> job[i].who]]
<1>1. job[i] \in Exchanges
  BY DEF MigrationInv, MigrationTypes, Exchanges
<1>2. \A pc : [job[i] EXCEPT !.pc = pc] = [pc |-> pc, who |-> job[i].who]
  BY <1>1, ExchangeMoves
<1> QED BY <1>1, <1>2 DEF Exchanges

LEMMA AskStep == ASSUME MigrationInv, NEW i \in Inodes, AskStatus(i) PROVE MigrationInv'
<1>1. UNCHANGED <<kind, entry, running, node, swapped>>
  BY DEF AskStatus, stationVars
<1>2. CASE Behind # Nobody /\ Migratable(Behind)
  <2>1. Behind \in Stations /\ kind[Behind] = "good"
    <3>1. Behind \in Stations
      BY <1>2, BehindType DEF MigrationInv
    <3>2. kind[Behind] \in StationKinds
      BY <3>1 DEF MigrationInv, MigrationTypes
    <3> QED BY <1>2, <3>1, <3>2 DEF Migratable, canFindRenamedSocket, StationKinds
  <2>2. job' = [job EXCEPT ![i] = [pc |-> "list", who |-> Behind]]
    BY <1>2 DEF AskStatus
  <2> QED BY <1>1, <2>1, <2>2, JobMoves
<1>3. CASE ~(Behind # Nobody /\ Migratable(Behind))
  BY <1>1, <1>3, EndJobKeeps DEF AskStatus
<1> QED BY <1>2, <1>3

LEMMA ListStep == ASSUME MigrationInv, NEW i \in Inodes, ListRemotes(i) PROVE MigrationInv'
<1>1. UNCHANGED <<kind, entry, running, node, swapped>> /\ job[i].pc = "list"
  BY DEF ListRemotes, stationVars
<1>2. CASE EndJob(i)
  BY <1>1, <1>2, EndJobKeeps
<1>3. CASE job' = [job EXCEPT ![i].pc = "patch"]
  <2>1. job' = [job EXCEPT ![i] = [pc |-> "patch", who |-> job[i].who]]
    BY <1>3, JobRecord
  <2>2. job[i].who \in Stations /\ kind[job[i].who] = "good"
    BY <1>1 DEF MigrationInv, AskedGood
  <2> QED BY <1>1, <2>1, <2>2, JobMoves
<1> QED BY <1>2, <1>3 DEF ListRemotes

LEMMA ConfirmStep ==
    ASSUME MigrationInv, NEW i \in Inodes, Confirm(i) \/ Report(i) PROVE MigrationInv'
<1>1. UNCHANGED <<kind, entry, running, node, swapped>>
  BY DEF Confirm, Report, stationVars
<1>2. CASE Report(i)
  BY <1>1, <1>2, EndJobKeeps DEF Report, EndJob
<1>3. CASE Confirm(i)
  <2>1. job[i].who \in Stations /\ kind[job[i].who] = "good"
    BY <1>3 DEF Confirm, MigrationInv, AskedGood
  <2>2. CASE probePeerSocket(i) /\ job' = [job EXCEPT ![i].pc = "confirmed"]
    <3>1. job' = [job EXCEPT ![i] = [pc |-> "confirmed", who |-> job[i].who]]
      BY <2>2, JobRecord
    <3>2. entry[job[i].who] = "template"
      BY <2>1, <2>2 DEF probePeerSocket, MigrationInv, RunningFollows
    <3> QED BY <1>1, <2>1, <3>1, <3>2, JobMoves
  <2>3. CASE job' = [job EXCEPT ![i].pc = "uncertain"]
    <3>1. job' = [job EXCEPT ![i] = [pc |-> "uncertain", who |-> job[i].who]]
      BY <2>3, JobRecord
    <3> QED BY <1>1, <2>1, <3>1, JobMoves
  <2> QED BY <1>3, <2>2, <2>3 DEF Confirm
<1> QED BY <1>2, <1>3

LEMMA PatchStep == ASSUME MigrationInv, NEW i \in Inodes, Patch(i) PROVE MigrationInv'
<1>1. /\ UNCHANGED <<kind, running, node>>
      /\ job[i].who \in Stations /\ kind[job[i].who] = "good"
  BY DEF Patch, MigrationInv, AskedGood
<1>2. CASE EndJob(i) /\ UNCHANGED <<entry, swapped>>
  BY <1>1, <1>2, EndJobKeeps
<1>3. CASE job' = [job EXCEPT ![i].pc = "confirm"] /\ UNCHANGED <<entry, swapped>>
  <2>1. job' = [job EXCEPT ![i] = [pc |-> "confirm", who |-> job[i].who]]
    BY <1>3, JobRecord
  <2> QED BY <1>1, <1>3, <2>1, JobMoves
<1>4. CASE /\ Behind # Nobody /\ SavePatch(Behind)
           /\ swapped' = (swapped \/ Behind # job[i].who)
           /\ job' = [job EXCEPT ![i].pc = "confirm"]
  <2> DEFINE b == Behind
  <2>1. b \in Stations /\ entry' = [entry EXCEPT ![b] = "template"]
    BY <1>4, BehindType DEF SavePatch, MigrationInv
  <2>2. job' = [job EXCEPT ![i] = [pc |-> "confirm", who |-> job[i].who]]
    BY <1>4, JobRecord
  <2>3. ~swapped' => ~swapped /\ b = job[i].who
    BY <1>4
  <2> HIDE DEF b
  <2>4. \A w \in Stations : entry'[w] = IF w = b THEN "template" ELSE entry[w]
    BY <2>1 DEF MigrationInv, MigrationTypes
  <2>5. /\ \A k \in Inodes \ {i} : job'[k] = job[k]
        /\ job'[i].pc = "confirm" /\ job'[i].who = job[i].who
    BY <2>2 DEF MigrationInv, MigrationTypes
  <2>6. MigrationTypes'
    BY <1>1, <2>1, <2>2 DEF MigrationInv, MigrationTypes, Sockets
  <2>7. RunningFollows'
    BY <1>1, <2>4 DEF MigrationInv, RunningFollows
  <2>8. AskedGood'
    BY <1>1, <2>5 DEF MigrationInv, AskedGood
  <2>9. SourceKept'
    BY <1>1, <2>3, <2>4 DEF MigrationInv, SourceKept
  <2>10. ConfirmedMoved'
    <3>1. ASSUME NEW k \in Inodes, job'[k].pc = "confirmed" PROVE entry'[job'[k].who] = "template"
      <4>1. k # i /\ job'[k] = job[k]
        BY <2>5, <3>1
      <4>2. job[k].who \in Stations /\ entry[job[k].who] = "template"
        BY <3>1, <4>1 DEF MigrationInv, AskedGood, ConfirmedMoved
      <4> QED BY <2>4, <4>1, <4>2
    <3> QED BY <3>1 DEF ConfirmedMoved
  <2> QED BY <2>6, <2>7, <2>8, <2>9, <2>10 DEF MigrationInv
<1> QED BY <1>2, <1>3, <1>4 DEF Patch

LEMMA BorrowStep == ASSUME MigrationInv, Borrowed PROVE MigrationInv'
<1>1. UNCHANGED <<kind, entry, running, node, swapped>>
  BY DEF Borrowed, stationVars
<1>2. job' = [job EXCEPT ![node.ino] = [pc |-> "status", who |-> Nobody]]
  <2>1. [NoJob EXCEPT !.pc = "status"] = [pc |-> "status", who |-> Nobody]
    BY DEF NoJob
  <2> QED BY <2>1 DEF Borrowed
<1>3. CASE node.ino \in Inodes
  BY <1>1, <1>2, <1>3, JobMoves
<1>4. CASE node.ino \notin Inodes
  <2>1. job' = job
    <3>1. DOMAIN job = Inodes /\ job = [i \in Inodes |-> job[i]]
      BY DEF MigrationInv, MigrationTypes
    <3> QED BY <1>2, <1>4, <3>1
  <2> QED BY <1>1, <2>1, StationKeeps DEF MigrationInv, MigrationTypes, RunningFollows
<1> QED BY <1>3, <1>4

LEMMA RestartHostStep == ASSUME MigrationInv, RestartHost PROVE MigrationInv'
BY DEF RestartHost, stationVars, NoJob, MigrationInv, MigrationTypes, RunningFollows, AskedGood,
       SourceKept, ConfirmedMoved

LEMMA MigrationStepInv == MigrationInv /\ [MigrationNext]_migrationVars => MigrationInv'
<1> SUFFICES ASSUME MigrationInv, [MigrationNext]_migrationVars PROVE MigrationInv'
  OBVIOUS
<1>1. CASE UNCHANGED migrationVars
  BY <1>1, StationKeeps
     DEF migrationVars, stationVars, MigrationInv, MigrationTypes, RunningFollows
<1> QED
  BY <1>1, StationStep, AskStep, ListStep, PatchStep, ConfirmStep, BorrowStep, RestartHostStep
     DEF MigrationNext

\* For any number of workstations, inode numbers, lost messages and restarts: no
\* forward is moved where this host would not find it as long as the socket stays
\* with the workstation whose status was read, and a migration reported as
\* confirmed has happened (migrate, probePeerSocket).
THEOREM MigrationsSound == MigrationSpec => []MigrationSound
<1>1. MigrationInv => MigrationSound
  BY DEF MigrationInv, MigrationSound
<1> QED BY <1>1, MigrationInitInv, MigrationStepInv, PTL DEF MigrationSpec

-----------------------------------------------------------------------------
(***************************************************************************)
(* The handles of the mounted file system: the budget is counted unit by   *)
(* unit, and only one handle's units change in a step.                     *)
(***************************************************************************)
Handles == [pc : {"closed", "lookup", "read", "store", "open", "invalidate", "released"},
            writable : BOOLEAN, dirty : BOOLEAN, len : Nat, text : Nat, got : Nat, base : Nat]

MountTypes ==
    /\ secret \in Nat /\ versions \in Nat /\ own \in Nat /\ buffered \in Int
    /\ cachedDoc \in Nat \cup {NotCached}
    /\ proc \in [Procs -> Handles]
    /\ lost \in Nat /\ resize.size \in Nat /\ resize.left \subseteq Procs

\* A handle that is not open yet has nothing in its buffer, and only a writable one
\* is truncated or has written.
Orderly(h) ==
    /\ h.pc \in {"closed", "lookup", "read", "store"} => h.len = 0 /\ ~h.dirty
    /\ h.pc = "invalidate" => h.writable
    /\ h.pc = "open" /\ ~h.writable => h.text = h.got /\ h.len = Length(h.got) /\ ~h.dirty

\* What a Setattr may have collected, even if it is released by now.
Collected(h) == h.writable /\ h.pc \in {"open", "invalidate", "released"}

MountInv ==
    /\ MountTypes /\ IsFiniteSet(Held) /\ Accounted
    /\ \A p \in Procs : Orderly(proc[p]) /\ (p \in resize.left => Collected(proc[p]))

LEMMA ClosedType == Closed \in Handles /\ Orderly(Closed) /\ Closed.len = 0
<1>1. Closed \in Handles
  BY DEF Closed, Handles
<1>2. Closed.pc = "closed" /\ Closed.len = 0 /\ ~Closed.dirty
  BY DEF Closed
<1> QED BY <1>1, <1>2 DEF Orderly

LEMMA LengthType == \A v \in Nat : Length(v) \in Nat
BY DEF Length

LEMMA UnitsSize ==
    ASSUME NEW p, NEW n \in Nat
    PROVE  IsFiniteSet({p} \X (1..n)) /\ Cardinality({p} \X (1..n)) = n
<1>1. IsFiniteSet({p}) /\ Cardinality({p}) = 1
  BY FS_Singleton
<1>2. IsFiniteSet(1..n) /\ Cardinality(1..n) = n
  BY FS_Interval
<1>3. IsFiniteSet({p} \X (1..n)) /\ Cardinality({p} \X (1..n)) = Cardinality({p}) * Cardinality(1..n)
  BY <1>1, <1>2, FS_Product
<1> QED BY <1>1, <1>2, <1>3

LEMMA HeldMoves ==
    ASSUME MountTypes, IsFiniteSet(Held), NEW p \in Procs, NEW h \in Handles, Set(p, h)
    PROVE  /\ IsFiniteSet(Held')
           /\ Cardinality(Held) \in Nat
           /\ Cardinality(Held') = Cardinality(Held) - proc[p].len + h.len
<1> DEFINE Rest == UNION {Units(q) : q \in Procs \ {p}}
           old == {p} \X (1..proc[p].len)
           new == {p} \X (1..h.len)
<1>1. proc[p].len \in Nat /\ h.len \in Nat
  BY DEF MountTypes, Handles
<1>2. proc'[p] = h /\ \A q \in Procs \ {p} : proc'[q] = proc[q]
  BY DEF MountTypes, Set
<1>3. Held = Rest \cup old
  <2>1. ASSUME NEW u PROVE u \in Held <=> u \in Rest \cup old
    <3>1. u \in Held <=> \E q \in Procs : u \in Units(q)
      BY DEF Held
    <3>2. u \in Rest <=> \E q \in Procs \ {p} : u \in Units(q)
      OBVIOUS
    <3>3. old = Units(p)
      BY DEF Units
    <3> QED BY <3>1, <3>2, <3>3
  <2> QED BY <2>1
<1>4. Held' = Rest \cup new
  <2>1. ASSUME NEW u PROVE u \in Held' <=> u \in Rest \cup new
    <3>1. u \in Held' <=> \E q \in Procs : u \in Units(q)'
      BY DEF Held
    <3>2. u \in Rest <=> \E q \in Procs \ {p} : u \in Units(q)
      OBVIOUS
    <3>3. Units(p)' = new /\ \A q \in Procs \ {p} : Units(q)' = Units(q)
      BY <1>2 DEF Units
    <3> QED BY <3>1, <3>2, <3>3
  <2> QED BY <2>1
<1>5. Rest \cap old = {} /\ Rest \cap new = {}
  BY DEF Units
<1>6. IsFiniteSet(Rest)
  BY <1>3, FS_Subset
<1> HIDE DEF Rest, old, new
<1>7. IsFiniteSet(old) /\ Cardinality(old) = proc[p].len /\ IsFiniteSet(new) /\ Cardinality(new) = h.len
  BY <1>1, UnitsSize DEF old, new
<1>8. Cardinality(Rest) \in Nat
  BY <1>6, FS_CardinalityType
<1>9. /\ Cardinality(Rest \cup old) = Cardinality(Rest) + proc[p].len - 0
      /\ IsFiniteSet(Rest \cup new)
      /\ Cardinality(Rest \cup new) = Cardinality(Rest) + h.len - 0
  <2>1. Cardinality(Rest \cup old) = Cardinality(Rest) + Cardinality(old) - Cardinality(Rest \cap old)
    BY <1>6, <1>7, FS_Union
  <2>2. /\ IsFiniteSet(Rest \cup new)
        /\ Cardinality(Rest \cup new) = Cardinality(Rest) + Cardinality(new) - Cardinality(Rest \cap new)
    BY <1>6, <1>7, FS_Union
  <2> QED BY <1>5, <1>7, <2>1, <2>2, FS_EmptySet
<1> QED BY <1>1, <1>3, <1>4, <1>8, <1>9

\* One handle moves, and what it holds more or less is booked.
LEMMA HandleMoves ==
    ASSUME MountInv, NEW p \in Procs, NEW h \in Handles, Set(p, h), Orderly(h),
           lost' \in Nat, buffered' = (buffered + h.len - proc[p].len) + (lost' - lost),
           buffered' <= buffered \/ buffered' <= MaxBuffered,
           resize'.size \in Nat, resize'.left \subseteq resize.left,
           p \in resize'.left => Collected(h),
           secret' \in Nat, versions' \in Nat, own' \in Nat, cachedDoc' \in Nat \cup {NotCached}
    PROVE  MountInv'
<1>1. /\ IsFiniteSet(Held') /\ Cardinality(Held) \in Nat
      /\ Cardinality(Held') = Cardinality(Held) - proc[p].len + h.len
  BY HeldMoves DEF MountInv
<1>2. proc[p].len \in Nat /\ h.len \in Nat /\ lost \in Nat /\ buffered \in Int
  BY DEF MountInv, MountTypes, Handles
<1>3. Accounted'
  BY <1>1, <1>2, FSAssumption DEF MountInv, Accounted
<1>4. proc'[p] = h /\ \A q \in Procs \ {p} : proc'[q] = proc[q]
  BY DEF MountInv, MountTypes, Set
<1>5. \A q \in Procs : Orderly(proc[q])' /\ (q \in resize'.left => Collected(proc[q])')
  BY <1>4 DEF MountInv, Orderly, Collected, Length
<1>6. MountTypes'
  BY <1>2 DEF MountInv, MountTypes, Set
<1> QED BY <1>1, <1>3, <1>5, <1>6 DEF MountInv, MountTypes

\* No handle moves.
LEMMA MountKeeps ==
    ASSUME MountInv, UNCHANGED <<proc, buffered, lost>>, resize'.size \in Nat,
           resize'.left \subseteq {p \in Procs : Collected(proc[p])},
           secret' \in Nat, versions' \in Nat, own' \in Nat, cachedDoc' \in Nat \cup {NotCached}
    PROVE  MountInv'
<1>1. Held' = Held
  BY DEF Held, Units
<1>2. \A p \in Procs : Orderly(proc[p])' /\ (p \in resize'.left => Collected(proc[p])')
  BY DEF MountInv, Orderly, Collected, Length
<1> QED BY <1>1, <1>2 DEF MountInv, MountTypes, Accounted

LEMMA MountInitInv == FSInit => MountInv
<1> SUFFICES ASSUME FSInit PROVE MountInv
  OBVIOUS
<1>1. \A p \in Procs : proc[p] = Closed
  BY DEF FSInit
<1>2. \A p \in Procs : Units(p) = {}
  BY <1>1, ClosedType DEF Units
<1>3. Held = {}
  BY <1>2 DEF Held
<1>4. IsFiniteSet(Held) /\ Cardinality(Held) = 0
  BY <1>3, FS_EmptySet
<1>5. \A p \in Procs : Orderly(proc[p]) /\ p \notin resize.left
  BY <1>1, ClosedType DEF FSInit, NoSetattr
<1>6. MountTypes
  BY ClosedType DEF FSInit, MountTypes, NoSetattr
<1> QED BY <1>4, <1>5, <1>6, FSAssumption DEF MountInv, Accounted, FSInit

\* An open that finds a document, or does not
LEMMA LoadedInv ==
    ASSUME MountInv, NEW p \in Procs, NEW v \in Nat, proc[p].pc \in {"lookup", "store"},
           Loaded(p, v), UNCHANGED <<secret, versions, own, resize, lost>>, cachedDoc' \in Nat \cup {NotCached}
    PROVE  MountInv'
<1>1. /\ proc[p] \in Handles /\ proc[p].len = 0 /\ ~proc[p].dirty /\ p \notin resize.left
      /\ buffered \in Int /\ secret \in Nat /\ versions \in Nat /\ own \in Nat /\ lost \in Nat
      /\ resize'.size \in Nat /\ resize'.left = resize.left
  BY DEF MountInv, MountTypes, Orderly, Collected
<1>2. Length(v) \in Nat
  BY LengthType
<1>3. CASE v # 0 /\ buffered + Length(v) <= MaxBuffered
  <2> DEFINE h == [proc[p] EXCEPT !.pc = "open", !.len = Length(v), !.text = v, !.got = v]
  <2>1. /\ h \in Handles /\ h.pc = "open" /\ h.len = Length(v) /\ h.text = v /\ h.got = v
        /\ h.dirty = proc[p].dirty
    BY <1>1, <1>2 DEF Handles
  <2>2. Set(p, h) /\ buffered' = buffered + Length(v) - 0
    BY <1>3 DEF Loaded, Reserve
  <2> HIDE DEF h
  <2>3. Orderly(h)
    BY <1>1, <2>1 DEF Orderly
  <2> QED BY <1>1, <1>2, <1>3, <2>1, <2>2, <2>3, HandleMoves
<1>4. CASE ~(v # 0 /\ buffered + Length(v) <= MaxBuffered)
  BY <1>1, <1>4, ClosedType, HandleMoves DEF Loaded
<1> QED BY <1>3, <1>4

LEMMA OpenInv ==
    ASSUME MountInv, NEW p \in Procs,
           (\E writable \in BOOLEAN : Open(p, writable)) \/ OpenEmpty(p),
           UNCHANGED <<resize, lost>>
    PROVE  MountInv'
<1>1. /\ proc[p] \in Handles /\ proc[p].len = 0 /\ buffered' = buffered /\ MountTypes
      /\ p \notin resize.left /\ UNCHANGED <<secret, versions, own, cachedDoc>>
  BY DEF MountInv, MountTypes, Orderly, Collected, Open, OpenEmpty
<1>2. ASSUME NEW h \in Handles, Set(p, h), Orderly(h), h.len = 0
      PROVE  MountInv'
  BY <1>1, <1>2, HandleMoves DEF MountTypes
<1>3. CASE OpenEmpty(p)
  <2> DEFINE h == [Closed EXCEPT !.pc = "open", !.writable = TRUE, !.dirty = TRUE]
  <2>1. h \in Handles /\ h.pc = "open" /\ h.writable /\ h.len = 0
    BY ClosedType DEF Handles
  <2>2. Set(p, h)
    BY <1>3 DEF OpenEmpty
  <2> HIDE DEF h
  <2> QED BY <1>2, <2>1, <2>2 DEF Orderly
<1>4. ASSUME NEW w \in BOOLEAN, Open(p, w)
      PROVE  MountInv'
  <2> DEFINE h == [Closed EXCEPT !.pc = "lookup", !.writable = w, !.base = own]
  <2>1. h \in Handles /\ h.pc = "lookup" /\ h.len = 0 /\ ~h.dirty
    BY <1>1 DEF MountTypes, Handles, Closed
  <2>2. Set(p, h)
    BY <1>4 DEF Open
  <2> HIDE DEF h
  <2> QED BY <1>2, <2>1, <2>2 DEF Orderly
<1> QED BY <1>3, <1>4

LEMMA ReadInv ==
    ASSUME MountInv, NEW p \in Procs, LookupDoc(p) \/ ReadSecret(p) \/ StoreDoc(p),
           UNCHANGED <<resize, lost>>
    PROVE  MountInv'
<1>1. /\ proc[p] \in Handles /\ MountTypes /\ Orderly(proc[p]) /\ proc[p].got \in Nat
      /\ UNCHANGED <<secret, versions, own>>
  BY DEF MountInv, MountTypes, Handles, LookupDoc, ReadSecret, StoreDoc
<1>2. ASSUME NEW pc \in {"read", "store"}, NEW got \in Nat,
             Set(p, [proc[p] EXCEPT !.pc = pc, !.got = got]),
             proc[p].pc \in {"lookup", "read"}, UNCHANGED <<buffered, cachedDoc>>
      PROVE  MountInv'
  <2> DEFINE h == [proc[p] EXCEPT !.pc = pc, !.got = got]
  <2>1. /\ h \in Handles /\ h.pc = pc /\ h.len = proc[p].len /\ h.dirty = proc[p].dirty
    BY <1>1 DEF Handles
  <2>2. Set(p, h)
    BY <1>2
  <2> HIDE DEF h
  <2>3. Orderly(h) /\ h.len = 0 /\ proc[p].len = 0 /\ p \notin resize.left
    BY <1>1, <1>2, <2>1 DEF Orderly, Collected, MountInv
  <2> QED BY <1>1, <1>2, <2>1, <2>2, <2>3, HandleMoves DEF MountTypes
<1>3. CASE ReadSecret(p)
  BY <1>1, <1>2, <1>3 DEF ReadSecret, MountTypes
<1>4. CASE StoreDoc(p)
  BY <1>1, <1>4, LoadedInv DEF StoreDoc
<1>5. CASE LookupDoc(p)
  <2>1. CASE cachedDoc # NotCached
    BY <1>1, <1>5, <2>1, LoadedInv DEF LookupDoc, MountTypes
  <2>2. CASE cachedDoc = NotCached
    <3>1. [proc[p] EXCEPT !.pc = "read"] = [proc[p] EXCEPT !.pc = "read", !.got = proc[p].got]
      BY <1>1 DEF Handles
    <3> QED BY <1>1, <1>2, <1>5, <2>2, <3>1 DEF LookupDoc
  <2> QED BY <2>1, <2>2
<1> QED BY <1>3, <1>4, <1>5

\* A buffer grows within the budget, or shrinks.
LEMMA WriteInv ==
    ASSUME MountInv, NEW p \in Procs, Write(p), UNCHANGED <<resize, lost>>
    PROVE  MountInv'
<1>1. /\ proc[p] \in Handles /\ MountTypes /\ proc[p].len \in Nat
      /\ proc[p].pc = "open" /\ proc[p].writable /\ UNCHANGED <<secret, versions, own, cachedDoc>>
  BY DEF MountInv, MountTypes, Handles, Write
<1>2. PICK size \in Nat, text \in Nat :
        /\ size >= proc[p].len /\ Reserve(proc[p].len, size)
        /\ Set(p, [proc[p] EXCEPT !.len = size, !.dirty = TRUE, !.text = text])
  <2>1. PICK len \in 1..MaxDocument :
          LET size == IF len > proc[p].len THEN len ELSE proc[p].len
          IN  /\ Reserve(proc[p].len, size)
              /\ Set(p, [proc[p] EXCEPT !.len = size, !.dirty = TRUE,
                           !.text = IF len = size /\ len = Length(versions + 1)
                                       THEN versions + 1 ELSE 0])
    BY DEF Write
  <2> DEFINE size == IF len > proc[p].len THEN len ELSE proc[p].len
             text == IF len = size /\ len = Length(versions + 1) THEN versions + 1 ELSE 0
  <2>2. size \in Nat /\ text \in Nat /\ size >= proc[p].len
    BY <1>1, FSAssumption DEF MountTypes
  <2>3. /\ Reserve(proc[p].len, size)
        /\ Set(p, [proc[p] EXCEPT !.len = size, !.dirty = TRUE, !.text = text])
    BY <2>1
  <2> HIDE DEF size, text
  <2> QED BY <2>2, <2>3
<1> DEFINE h == [proc[p] EXCEPT !.len = size, !.dirty = TRUE, !.text = text]
<1>3. /\ h \in Handles /\ h.pc = "open" /\ h.writable /\ h.len = size
  BY <1>1 DEF Handles
<1>4. Set(p, h) /\ buffered' = buffered + size - proc[p].len
  BY <1>2 DEF Reserve
<1>5. buffered' <= buffered \/ buffered' <= MaxBuffered
  BY <1>1, <1>2 DEF Reserve, MountTypes
<1> HIDE DEF h
<1>6. Orderly(h) /\ Collected(h)
  BY <1>3 DEF Orderly, Collected
<1> QED BY <1>1, <1>3, <1>4, <1>5, <1>6, HandleMoves DEF MountTypes

LEMMA TruncateInv ==
    ASSUME MountInv, NEW p \in Procs, NEW size \in Nat, Truncated(p, size),
           Collected(proc[p]), proc[p].pc # "invalidate", lost' = lost,
           resize'.size \in Nat, resize'.left \subseteq resize.left
    PROVE  MountInv'
<1>1. /\ proc[p] \in Handles /\ MountTypes /\ proc[p].len \in Nat /\ buffered \in Int
      /\ UNCHANGED <<secret, versions, own, cachedDoc>> /\ lost \in Nat
  BY DEF MountInv, MountTypes, Handles, Truncated
<1> DEFINE h == [proc[p] EXCEPT !.len = size, !.text = 0, !.dirty = TRUE]
<1>2. /\ h \in Handles /\ h.pc = proc[p].pc /\ h.writable = proc[p].writable /\ h.len = size
  BY <1>1 DEF Handles
<1>3. /\ Set(p, h) /\ buffered' = buffered + size - proc[p].len
      /\ size <= proc[p].len \/ buffered' <= MaxBuffered
  BY DEF Truncated, Reserve
<1> HIDE DEF h
<1>4. Orderly(h) /\ Collected(h)
  BY <1>2 DEF Orderly, Collected
<1> QED BY <1>1, <1>2, <1>3, <1>4, HandleMoves DEF MountTypes

\* A Setattr begins, goes on or gives up, or the file is truncated by its handle.
LEMMA SetattrStep ==
    ASSUME MountInv, lost' = lost,
           \/ \E size \in 0..MaxDocument : Setattr(size)
           \/ \E p \in Procs : Truncate(p) \/ TruncateFails(p)
    PROVE  MountInv'
<1>1. MountTypes
  BY DEF MountInv
<1>2. ASSUME NEW size \in 0..MaxDocument, Setattr(size) PROVE MountInv'
  <2>1. size \in Nat
    BY FSAssumption
  <2>2. UNCHANGED <<secret, versions, cachedDoc, proc, buffered, own>>
    BY <1>2 DEF Setattr, mountVars
  <2>3. /\ resize'.size = size
        /\ resize'.left = {p \in Procs : proc[p].writable /\ proc[p].pc \in {"open", "invalidate"}}
    BY <1>2 DEF Setattr
  <2> QED BY <1>1, <2>1, <2>2, <2>3, MountKeeps DEF MountTypes, Collected
<1>3. ASSUME NEW p \in Procs, Truncate(p) PROVE MountInv'
  <2>1. /\ Truncated(p, resize.size) /\ proc[p].pc # "invalidate" /\ p \in resize.left
        /\ Collected(proc[p])
    BY <1>3 DEF Truncate, MountInv
  <2>2. resize'.size \in Nat /\ resize'.left \subseteq resize.left
    BY <1>3, <1>1 DEF Truncate, NoSetattr, MountTypes
  <2> QED BY <1>1, <2>1, <2>2, TruncateInv DEF MountTypes
<1>4. ASSUME NEW p \in Procs, TruncateFails(p) PROVE MountInv'
  <2>1. UNCHANGED <<secret, versions, cachedDoc, proc, buffered, own>>
    BY <1>4 DEF TruncateFails, mountVars
  <2>2. resize'.size = 0 /\ resize'.left = {}
    BY <1>4 DEF TruncateFails, NoSetattr
  <2> QED BY <1>1, <2>1, <2>2, MountKeeps DEF MountTypes
<1> QED BY <1>2, <1>3, <1>4

\* Steps that leave the buffer as it is
LEMMA HandleStep ==
    ASSUME MountInv, NEW p \in Procs,
           \/ (FlushWrite(p) \/ FlushDone(p) \/ Release(p)) /\ UNCHANGED <<resize, lost>>
           \/ Forget(p)
    PROVE  MountInv'
<1>1. /\ proc[p] \in Handles /\ MountTypes /\ proc[p].len \in Nat /\ Orderly(proc[p])
      /\ proc[p].text \in Nat /\ buffered \in Int /\ lost \in Nat
      /\ p \in resize.left => Collected(proc[p])
  BY DEF MountInv, MountTypes, Handles
<1>3. CASE FlushWrite(p) /\ UNCHANGED <<resize, lost>>
  <2> DEFINE h == [proc[p] EXCEPT !.pc = "invalidate", !.text = versions']
  <2>1. versions' \in Nat /\ secret' \in Nat
    BY <1>1, <1>3 DEF FlushWrite, MountTypes
  <2>2. /\ h \in Handles /\ h.pc = "invalidate" /\ h.writable /\ h.len = proc[p].len
    BY <1>1, <1>3, <2>1 DEF Handles, FlushWrite
  <2>3. Set(p, h)
    BY <1>3 DEF FlushWrite
  <2> HIDE DEF h
  <2>4. Orderly(h) /\ Collected(h)
    BY <2>2 DEF Orderly, Collected
  <2> QED BY <1>1, <1>3, <2>1, <2>2, <2>3, <2>4, HandleMoves DEF FlushWrite, MountTypes
<1>4. CASE FlushDone(p) /\ UNCHANGED <<resize, lost>>
  <2> DEFINE h == [proc[p] EXCEPT !.pc = "open", !.dirty = FALSE]
  <2>1. proc[p].writable
    BY <1>1, <1>4 DEF Orderly, FlushDone
  <2>2. /\ h \in Handles /\ h.pc = "open" /\ h.writable /\ h.len = proc[p].len
    BY <1>1, <2>1 DEF Handles
  <2>3. Set(p, h)
    BY <1>4 DEF FlushDone
  <2> HIDE DEF h
  <2>4. Orderly(h) /\ Collected(h)
    BY <2>2 DEF Orderly, Collected
  <2> QED BY <1>1, <1>4, <2>2, <2>3, <2>4, HandleMoves DEF FlushDone, MountTypes
<1>5. CASE Release(p) /\ UNCHANGED <<resize, lost>>
  <2> DEFINE h == [proc[p] EXCEPT !.pc = "released", !.len = 0]
  <2>1. /\ h \in Handles /\ h.pc = "released" /\ h.len = 0
        /\ h.writable = proc[p].writable
    BY <1>1 DEF Handles
  <2>2. Set(p, h) /\ buffered' = buffered + 0 - proc[p].len
    BY <1>1, <1>5 DEF Release
  <2> HIDE DEF h
  <2>3. Orderly(h) /\ (p \in resize.left => Collected(h))
    BY <1>1, <2>1 DEF Orderly, Collected
  <2> QED BY <1>1, <1>5, <2>1, <2>2, <2>3, HandleMoves DEF Release, MountTypes
<1>6. CASE Forget(p)
  <2>1. /\ Set(p, Closed) /\ lost' = lost + proc[p].len /\ p \notin resize.left
        /\ UNCHANGED <<secret, versions, cachedDoc, buffered, own, resize>>
    BY <1>6 DEF Forget
  <2>2. buffered' = (buffered + 0 - proc[p].len) + (lost' - lost) /\ lost' \in Nat
    BY <1>1, <2>1
  <2> QED BY <1>1, <2>1, <2>2, ClosedType, HandleMoves DEF MountTypes
<1> QED BY <1>3, <1>4, <1>5, <1>6

LEMMA ServiceStep ==
    ASSUME MountInv,
           \/ /\ Expire \/ Elsewhere \/ Unlink \/ StopMount \/ Unmounted
              /\ UNCHANGED <<resize, lost>>
           \/ Mount
    PROVE  MountInv'
<1>1. MountTypes
  BY DEF MountInv
<1>2. resize.left \subseteq {p \in Procs : Collected(proc[p])}
  BY DEF MountInv, MountTypes
<1>3. CASE Mount
  <2>1. /\ \A p \in Procs : proc'[p] = Closed
        /\ resize'.size = 0 /\ resize'.left = {} /\ lost' = 0 /\ buffered' = 0
    BY <1>3 DEF Mount, NoSetattr
  <2>2. \A p \in Procs : Units(p)' = {}
    BY <2>1, ClosedType DEF Units
  <2>3. Held' = {}
    BY <2>2 DEF Held
  <2>4. IsFiniteSet(Held') /\ Cardinality(Held') = 0
    BY <2>3, FS_EmptySet
  <2>5. \A p \in Procs : Orderly(proc[p])'
    BY <2>1, ClosedType DEF Orderly, Length
  <2>6. MountTypes'
    BY <1>1, <1>3, <2>1, ClosedType DEF Mount, MountTypes
  <2>7. Accounted'
    BY <2>1, <2>4, FSAssumption DEF Accounted
  <2> QED BY <2>1, <2>4, <2>5, <2>6, <2>7 DEF MountInv
<1>4. CASE (Expire \/ StopMount \/ Unmounted) /\ UNCHANGED <<resize, lost>>
  <2>1. /\ UNCHANGED <<secret, versions, own, proc, buffered>>
        /\ cachedDoc' = cachedDoc \/ cachedDoc' = NotCached
    BY <1>4 DEF Expire, StopMount, Unmounted
  <2> QED BY <1>1, <1>2, <1>4, <2>1, MountKeeps DEF MountTypes
<1>5. CASE (Elsewhere \/ Unlink) /\ UNCHANGED <<resize, lost>>
  <2>1. /\ UNCHANGED <<own, proc, buffered>> /\ secret' \in Nat /\ versions' \in Nat
        /\ cachedDoc' = cachedDoc \/ cachedDoc' = NotCached
    BY <1>1, <1>5 DEF Elsewhere, Unlink, MountTypes
  <2> QED BY <1>1, <1>2, <1>5, <2>1, MountKeeps DEF MountTypes
<1> QED BY <1>3, <1>4, <1>5

LEMMA HandleAct ==
    ASSUME MountInv, NEW p \in Procs, Handle(p), UNCHANGED <<resize, lost>>
    PROVE  MountInv'
<1>1. ASSUME NEW size \in 0..MaxDocument, Ftruncate(p, size) PROVE MountInv'
  <2>1. size \in Nat
    BY FSAssumption
  <2>2. Collected(proc[p]) /\ proc[p].pc # "invalidate" /\ Truncated(p, size)
    BY <1>1 DEF Ftruncate, Collected
  <2>3. resize'.size \in Nat /\ resize'.left = resize.left
    BY DEF MountInv, MountTypes
  <2> QED BY <2>1, <2>2, <2>3, TruncateInv
<1>2. CASE (\E writable \in BOOLEAN : Open(p, writable)) \/ OpenEmpty(p)
  BY <1>2, OpenInv
<1>3. CASE LookupDoc(p) \/ ReadSecret(p) \/ StoreDoc(p)
  BY <1>3, ReadInv
<1>4. CASE Write(p)
  BY <1>4, WriteInv
<1>5. CASE FlushWrite(p) \/ FlushDone(p) \/ Release(p)
  BY <1>5, HandleStep
<1> QED BY <1>1, <1>2, <1>3, <1>4, <1>5 DEF Handle

LEMMA MountStepInv == MountInv /\ [FSNext]_fsVars => MountInv'
<1> SUFFICES ASSUME MountInv, [FSNext]_fsVars PROVE MountInv'
  OBVIOUS
<1>1. CASE UNCHANGED fsVars
  <2>1. resize.left \subseteq {p \in Procs : Collected(proc[p])}
    BY DEF MountInv, MountTypes
  <2>2. UNCHANGED <<secret, versions, cachedDoc, proc, buffered, own, resize, lost>>
    BY <1>1 DEF fsVars, mountVars
  <2> QED BY <2>1, <2>2, MountKeeps DEF MountInv, MountTypes
<1>2. ASSUME NEW p \in Procs, Handle(p), UNCHANGED <<resize, lost>> PROVE MountInv'
  BY <1>2, HandleAct
<1>3. CASE /\ Expire \/ Elsewhere \/ Unlink \/ StopMount \/ Unmounted
           /\ UNCHANGED <<resize, lost>>
  BY <1>3, ServiceStep
<1>4. CASE /\ \/ \E size \in 0..MaxDocument : Setattr(size)
              \/ \E p \in Procs : Truncate(p) \/ TruncateFails(p)
           /\ UNCHANGED lost
  BY <1>4, SetattrStep
<1>5. ASSUME NEW p \in Procs, Forget(p) PROVE MountInv'
  BY <1>5, HandleStep
<1>6. CASE Mount
  BY <1>6, ServiceStep
<1> QED BY <1>1, <1>2, <1>3, <1>4, <1>5, <1>6 DEF FSNext

\* For any number of processes, any budget and any sizes: what is booked is what the
\* buffers hold and what a truncation put into a buffer after its release, the limit
\* is kept, and a description opened for reading serves what it opened
\* (reserveBuffer, truncate, Release and writableHandles in mount_fuse.go).
THEOREM FilesSound == FSSpec => []FSSound
<1>1. MountInv => FSSound
  BY DEF MountInv, FSSound, Orderly, ReadersUndisturbed
<1> QED BY <1>1, MountInitInv, MountStepInv, PTL DEF FSSpec

-----------------------------------------------------------------------------
(***************************************************************************)
(* The rotation of the client certificate.  A certificate in use, which is *)
(* one on record, one that a rotation is bringing in or one that it has    *)
(* just brought in, is never among those that wait for their revocation    *)
(* and never what another rotation is about to remove.                     *)
(***************************************************************************)
Credentials == [cert : Nat, pending : SUBSET Nat]

Rotations == [pc : {"settled", "generate", "bootstrap", "try", "sign", "login", "save", "sweep",
                    "retire", "persist"},
              seed : BOOLEAN, due : BOOLEAN, old : Credentials, new : Nat, swept : BOOLEAN,
              pending : SUBSET Nat]

CertTypes ==
    /\ native \in BOOLEAN /\ ageing \in BOOLEAN /\ issued \in Nat
    /\ keys \subseteq Nat /\ leaves \subseteq Nat /\ revoked \subseteq Nat
    /\ envelope \in Credentials
    /\ rotator \in [Rotators -> Rotations]

\* A replacement exists that is not on record yet.
Ahead(r) == rotator[r].pc \in {"sign", "login", "save"}

\* The rotation will go through with what it has loaded, unless it fails.
Bound(r) ==
    \/ rotator[r].pc \in {"generate", "sign", "login", "save", "sweep", "retire", "persist"}
    \/ rotator[r].pc = "try" /\ rotator[r].due

\* The serials on record, loaded or computed that await their revocation
Awaiting ==
    envelope.pending
    \cup UNION {rotator[r].old.pending \cup rotator[r].pending : r \in Rotators}

\* What the store still has and the CA still honours, and will
Live == {c \in 1..issued : Loads(c) /\ c \notin revoked \cup Awaiting}

\* Only certificates that were issued are known anywhere.
Numbered ==
    /\ leaves \cup revoked \cup Awaiting \subseteq 0..issued
    /\ envelope.cert <= issued
    /\ \A r \in Rotators : rotator[r].old.cert <= issued

AheadFresh ==
    \A r \in Rotators : Ahead(r) =>
        /\ rotator[r].new \in Live /\ envelope.cert # rotator[r].new
        /\ \A q \in Rotators : rotator[q].old.cert # rotator[r].new

\* While a rotation has a last word to write nothing comes due.
RetiringKept ==
    \A r \in Rotators : Retiring(r) =>
        /\ rotator[r].new \in Live /\ ~ageing
        /\ \A q \in Rotators : Bound(q) => rotator[q].old.cert # rotator[r].new

NewsDiffer ==
    \A r, q \in Rotators :
        r # q /\ (Ahead(r) \/ Retiring(r)) /\ (Ahead(q) \/ Retiring(q))
            => rotator[r].new # rotator[q].new

EnvelopeLive ==
    envelope.cert # 0 =>
        /\ envelope.cert \in Live
        /\ \A r \in Rotators : Retiring(r) => rotator[r].old.cert # envelope.cert

Gone ==
    /\ leaves \cap (revoked \cup Awaiting) = {}
    /\ \A r \in Rotators :
          rotator[r].pc = "retire" /\ rotator[r].swept => rotator[r].old.cert \notin leaves

CertInv ==
    CertTypes /\ Numbered /\ AheadFresh /\ RetiringKept /\ NewsDiffer /\ EnvelopeLive /\ Gone

LEMMA AwaitingMembers ==
    \A c : c \in Awaiting <=>
             \/ c \in envelope.pending
             \/ \E r \in Rotators : c \in rotator[r].old.pending \/ c \in rotator[r].pending
BY DEF Awaiting

LEMMA NotRotatingType ==
    /\ NoCredential \in Credentials /\ NoCredential.cert = 0 /\ NoCredential.pending = {}
    /\ NotRotating \in Rotations /\ NotRotating.pc = "settled" /\ NotRotating.old = NoCredential
    /\ NotRotating.pending = {} /\ NotRotating.new = 0
<1>1. NoCredential \in Credentials /\ NoCredential.cert = 0 /\ NoCredential.pending = {}
  BY DEF NoCredential, Credentials
<1> QED BY <1>1 DEF NotRotating, Rotations

\* One process moves.
LEMMA Moved ==
    ASSUME CertTypes, NEW r \in Rotators, NEW x \in Rotations, rotator' = [rotator EXCEPT ![r] = x]
    PROVE  /\ rotator' \in [Rotators -> Rotations] /\ rotator'[r] = x
           /\ \A q \in Rotators \ {r} : rotator'[q] = rotator[q]
BY DEF CertTypes

\* What awaits its revocation is no more than before, and what the process adds.
LEMMA AwaitingGrows ==
    ASSUME CertTypes, NEW r \in Rotators, NEW x \in Rotations, NEW more,
           rotator' = [rotator EXCEPT ![r] = x],
           x.old.pending \cup x.pending \cup envelope'.pending \subseteq Awaiting \cup more
    PROVE  Awaiting' \subseteq Awaiting \cup more
<1>1. rotator'[r] = x /\ \A q \in Rotators \ {r} : rotator'[q] = rotator[q]
  BY Moved
<1>2. SUFFICES ASSUME NEW c \in Awaiting' PROVE c \in Awaiting \cup more
  OBVIOUS
<1>3. \/ c \in envelope'.pending
      \/ \E q \in Rotators : c \in rotator'[q].old.pending \/ c \in rotator'[q].pending
  BY <1>2 DEF Awaiting
<1>4. CASE c \in envelope'.pending
  BY <1>4
<1>5. ASSUME NEW q \in Rotators, c \in rotator'[q].old.pending \/ c \in rotator'[q].pending
      PROVE  c \in Awaiting \cup more
  <2>1. CASE q = r
    BY <1>1, <1>5, <2>1
  <2>2. CASE q # r
    BY <1>1, <1>5, <2>2, AwaitingMembers
  <2> QED BY <2>1, <2>2
<1> QED BY <1>3, <1>4, <1>5

LEMMA CertInitInv == CertInit => CertInv
<1> SUFFICES ASSUME CertInit PROVE CertInv
  OBVIOUS
<1>1. \A r \in Rotators : rotator[r] = NotRotating
  BY DEF CertInit
<1>2. CertTypes
  BY NotRotatingType DEF CertInit, CertTypes
<1>3. Awaiting = {}
  <2>1. \A r \in Rotators : rotator[r].old.pending \cup rotator[r].pending = {}
    BY <1>1, NotRotatingType
  <2>2. envelope.pending = {}
    BY NotRotatingType DEF CertInit
  <2> QED BY <2>1, <2>2 DEF Awaiting
<1>4. \A r \in Rotators : rotator[r].pc = "settled" /\ rotator[r].old.cert = 0
  BY <1>1, NotRotatingType
<1>5. envelope.cert = 0 /\ leaves = {} /\ revoked = {} /\ issued = 0
  BY NotRotatingType DEF CertInit
<1>6. Numbered
  BY <1>3, <1>4, <1>5 DEF Numbered
<1> QED
  BY <1>2, <1>3, <1>4, <1>5, <1>6
     DEF CertInv, AheadFresh, RetiringKept, NewsDiffer, EnvelopeLive, Gone, Ahead, Retiring

\* A process moves on, or starts over with what is on record, and leaves the store
\* and the record alone.
LEMMA ProcessMoves ==
    ASSUME CertInv, NEW r \in Rotators, NEW x \in Rotations, rotator' = [rotator EXCEPT ![r] = x],
           UNCHANGED <<native, keys, leaves, revoked, issued, ageing, envelope>>,
           x.pc \notin {"sweep", "retire", "persist"},
           x.pc \in {"sign", "login", "save"} => Ahead(r) /\ x.new = rotator[r].new,
           \/ x.pc \in {"settled", "bootstrap"} \/ (x.pc = "try" /\ ~x.due)
           \/ Bound(r) /\ x.old = rotator[r].old
           \/ \A q \in Rotators : ~Retiring(q),
           x.old.cert \in {rotator[r].old.cert, envelope.cert, 0},
           x.old.pending \cup x.pending \subseteq Awaiting
    PROVE  CertInv'
<1>1. /\ rotator' \in [Rotators -> Rotations] /\ rotator'[r] = x
      /\ \A q \in Rotators \ {r} : rotator'[q] = rotator[q]
  BY Moved DEF CertInv
<1>2. CertTypes'
  BY <1>1 DEF CertInv, CertTypes
<1>3. envelope'.pending \subseteq Awaiting
  BY AwaitingMembers
<1>4. Awaiting' \subseteq Awaiting
  BY <1>3, AwaitingGrows DEF CertInv
<1>5. Live \subseteq Live'
  BY <1>4 DEF Live, Loads
<1>6. Numbered'
  BY <1>1, <1>4 DEF CertInv, CertTypes, Numbered
<1>7. \A q \in Rotators : rotator'[q].old.cert \in {rotator[q].old.cert, envelope.cert, 0}
  BY <1>1
<1>8. \A q \in Rotators : Ahead(q)' => Ahead(q) /\ rotator'[q].new = rotator[q].new
  BY <1>1 DEF Ahead
<1>9. \A q \in Rotators : Retiring(q)' => Retiring(q) /\ rotator'[q] = rotator[q]
  BY <1>1 DEF Retiring
<1>10. AheadFresh'
  BY <1>5, <1>7, <1>8 DEF CertInv, AheadFresh, Live
<1>11. RetiringKept'
  <2>1. ASSUME NEW p \in Rotators, NEW q \in Rotators, Retiring(p)', Bound(q)'
        PROVE  rotator'[q].old.cert # rotator'[p].new
    <3>1. Retiring(p) /\ rotator'[p] = rotator[p]
      BY <1>9, <2>1
    <3>2. Bound(q) /\ rotator'[q].old = rotator[q].old
      <4>1. CASE q = r
        BY <1>1, <2>1, <3>1, <4>1 DEF Bound
      <4>2. CASE q # r
        BY <1>1, <2>1, <4>2 DEF Bound
      <4> QED BY <4>1, <4>2
    <3> QED BY <3>1, <3>2 DEF CertInv, RetiringKept
  <2> QED BY <1>5, <1>9, <2>1 DEF CertInv, RetiringKept
<1>12. NewsDiffer'
  BY <1>8, <1>9 DEF CertInv, NewsDiffer
<1>13. EnvelopeLive'
  BY <1>5, <1>9 DEF CertInv, EnvelopeLive
<1>14. Gone'
  BY <1>1, <1>4 DEF CertInv, Gone
<1> QED BY <1>2, <1>6, <1>10, <1>11, <1>12, <1>13, <1>14 DEF CertInv

\* What a process has loaded and computed awaits its revocation already.
LEMMA OwnAwaiting ==
    ASSUME CertInv, NEW r \in Rotators
    PROVE  /\ rotator[r] \in Rotations /\ rotator[r].old \in Credentials
           /\ rotator[r].old.pending \cup rotator[r].pending \subseteq Awaiting
           /\ envelope.pending \subseteq Awaiting
BY AwaitingMembers DEF CertInv, CertTypes, Rotations

LEMMA LoadStep ==
    ASSUME CertInv, NEW r \in Rotators, NEW hourly \in BOOLEAN, LoadCredential(r, hourly)
    PROVE  CertInv'
<1> DEFINE pc == IF hourly THEN "generate" ELSE IF envelope.cert = 0 THEN "bootstrap" ELSE "try"
           x == [NotRotating EXCEPT !.pc = pc, !.due = ageing, !.old = envelope]
<1>1. /\ pc \in {"generate", "bootstrap", "try"} /\ ageing \in BOOLEAN /\ envelope \in Credentials
      /\ pc = "generate" => ageing
  BY DEF CertInv, CertTypes, LoadCredential
<1>2. rotator' = [rotator EXCEPT ![r] = x]
  BY DEF LoadCredential
<1> HIDE DEF pc
<1>3. /\ x \in Rotations /\ x.pc = pc /\ x.due = ageing /\ x.old = envelope /\ x.pending = {}
  BY <1>1, NotRotatingType DEF Rotations
<1> HIDE DEF x
<1>4. ageing => \A q \in Rotators : ~Retiring(q)
  BY DEF CertInv, RetiringKept
<1>5. x.old.pending \cup x.pending \subseteq Awaiting
  BY <1>3, AwaitingMembers
<1>6. \/ x.pc \in {"settled", "bootstrap"} \/ (x.pc = "try" /\ ~x.due)
      \/ \A q \in Rotators : ~Retiring(q)
  BY <1>1, <1>3, <1>4
<1>7. x.old.cert \in {rotator[r].old.cert, envelope.cert, 0}
  BY <1>3
<1>8. UNCHANGED <<native, keys, leaves, revoked, issued, ageing, envelope>>
  BY DEF LoadCredential
<1>9. x.pc \notin {"sweep", "retire", "persist"} /\ x.pc \notin {"sign", "login", "save"}
  BY <1>1, <1>3
<1> QED BY <1>2, <1>3, <1>5, <1>6, <1>7, <1>8, <1>9, ProcessMoves

\* The place of a process alone changes.
LEMMA PlaceMoves ==
    ASSUME CertInv, NEW r \in Rotators, NEW pc \in {"settled", "bootstrap", "generate", "login", "save"},
           StepTo(r, pc),
           UNCHANGED <<native, keys, leaves, revoked, issued, ageing, envelope>>,
           pc \in {"login", "save"} => Ahead(r),
           pc = "generate" => Bound(r)
    PROVE  CertInv'
<1> DEFINE x == [rotator[r] EXCEPT !.pc = pc]
<1>1. /\ x \in Rotations /\ x.pc = pc /\ x.old = rotator[r].old /\ x.new = rotator[r].new
      /\ x.pending = rotator[r].pending
  BY OwnAwaiting DEF Rotations
<1>2. rotator' = [rotator EXCEPT ![r] = x]
  BY DEF StepTo
<1> HIDE DEF x
<1>3. Ahead(r) => Bound(r)
  BY DEF Ahead, Bound
<1> QED BY <1>1, <1>2, <1>3, OwnAwaiting, ProcessMoves

LEMMA TryStep ==
    ASSUME CertInv, NEW r \in Rotators, NEW recovering \in BOOLEAN, TryExisting(r, recovering)
    PROVE  CertInv'
<1>1. rotator[r].pc = "try" /\ UNCHANGED <<native, keys, leaves, revoked, issued, ageing, envelope>>
  BY DEF TryExisting
<1>2. \/ StepTo(r, "generate") /\ rotator[r].due
      \/ StepTo(r, "settled") \/ StepTo(r, "bootstrap")
  BY DEF TryExisting
<1>3. rotator[r].due => Bound(r)
  BY <1>1 DEF Bound
<1> QED BY <1>1, <1>2, <1>3, PlaceMoves

LEMMA BootstrapStep == ASSUME CertInv, NEW r \in Rotators, Bootstrap(r) PROVE CertInv'
<1>1. PICK pc \in {"generate", "settled"} :
        rotator' = [rotator EXCEPT ![r].pc = pc, ![r].seed = TRUE]
  BY DEF Bootstrap
<1> DEFINE x == [rotator[r] EXCEPT !.pc = pc, !.seed = TRUE]
<1>2. /\ x \in Rotations /\ x.pc = pc /\ x.old = rotator[r].old /\ x.new = rotator[r].new
      /\ x.pending = rotator[r].pending
  BY OwnAwaiting DEF Rotations
<1>3. rotator' = [rotator EXCEPT ![r] = x]
  BY <1>1
<1> HIDE DEF x
<1> QED BY <1>2, <1>3, OwnAwaiting, ProcessMoves DEF Bootstrap

LEMMA DiesStep == ASSUME CertInv, NEW r \in Rotators, Dies(r) PROVE CertInv'
BY NotRotatingType, ProcessMoves DEF Dies

LEMMA RestKeeps ==
    ASSUME CertInv, UNCHANGED <<native, keys, leaves, revoked, issued, envelope, rotator>>,
           \/ UNCHANGED ageing
           \/ ageing' \in BOOLEAN /\ \A r \in Rotators : ~Retiring(r)
    PROVE  CertInv'
BY DEF CertInv, CertTypes, Numbered, AheadFresh, RetiringKept, NewsDiffer, EnvelopeLive, Gone,
       Ahead, Retiring, Bound, Live, Awaiting, Loads

\* The number of a new certificate is nobody's yet.
LEMMA GenerateStep == ASSUME CertInv, NEW r \in Rotators, Generate(r) PROVE CertInv'
<1> DEFINE x == [rotator[r] EXCEPT !.pc = "sign", !.new = issued']
<1>1. /\ issued \in Nat /\ issued' = issued + 1 /\ keys' = keys \cup {issued + 1}
      /\ UNCHANGED <<native, leaves, revoked, ageing, envelope>>
      /\ rotator[r].pc = "generate"
  BY DEF CertInv, CertTypes, Generate
<1>2. /\ x \in Rotations /\ x.pc = "sign" /\ x.old = rotator[r].old /\ x.new = issued + 1
      /\ x.pending = rotator[r].pending
  <2>1. issued' \in Nat /\ rotator[r] \in Rotations
    BY <1>1, OwnAwaiting
  <2> QED BY <1>1, <2>1 DEF Rotations
<1>3. rotator' = [rotator EXCEPT ![r] = x]
  BY DEF Generate
<1> HIDE DEF x
<1>4. /\ rotator' \in [Rotators -> Rotations] /\ rotator'[r] = x
      /\ \A q \in Rotators \ {r} : rotator'[q] = rotator[q]
  BY <1>2, <1>3, Moved DEF CertInv
<1>5. Awaiting' \subseteq Awaiting
  BY <1>1, <1>2, <1>3, OwnAwaiting, AwaitingGrows DEF CertInv
<1>6. \A c \in leaves \cup revoked \cup Awaiting : c <= issued /\ c # issued + 1
  BY <1>1 DEF CertInv, Numbered
<1>7. Live \subseteq Live' /\ issued + 1 \in Live' /\ \A c \in Live : c # issued + 1
  BY <1>1, <1>5, <1>6 DEF Live, Loads
<1>8. /\ envelope.cert # issued + 1
      /\ \A q \in Rotators : rotator'[q].old.cert = rotator[q].old.cert
                             /\ rotator[q].old.cert # issued + 1
  <2>1. envelope.cert \in Nat /\ \A q \in Rotators : rotator[q].old.cert \in Nat
    BY DEF CertInv, CertTypes, Credentials, Rotations
  <2>2. \A q \in Rotators : rotator'[q].old.cert = rotator[q].old.cert
    BY <1>2, <1>4
  <2>3. envelope.cert <= issued /\ \A q \in Rotators : rotator[q].old.cert <= issued
    BY DEF CertInv, Numbered
  <2> QED BY <1>1, <2>1, <2>2, <2>3
<1>9. CertTypes'
  BY <1>1, <1>4 DEF CertInv, CertTypes
<1>10. Numbered'
  <2>1. leaves' \cup revoked' \cup Awaiting' \subseteq 0..issued'
    BY <1>1, <1>5 DEF CertInv, Numbered
  <2>2. envelope'.cert <= issued'
    BY <1>1 DEF CertInv, CertTypes, Credentials, Numbered
  <2>3. \A q \in Rotators : rotator'[q].old.cert <= issued'
    BY <1>1, <1>8 DEF CertInv, CertTypes, Rotations, Credentials, Numbered
  <2> QED BY <2>1, <2>2, <2>3 DEF Numbered
<1>11. \A q \in Rotators : /\ Ahead(q)' => q = r \/ (Ahead(q) /\ rotator'[q].new = rotator[q].new)
                           /\ Retiring(q)' => Retiring(q) /\ rotator'[q].new = rotator[q].new
                           /\ Bound(q)' => Bound(q)
  BY <1>1, <1>2, <1>4 DEF Ahead, Retiring, Bound
<1>12. rotator'[r].new = issued + 1
  BY <1>2, <1>4
<1>13. AheadFresh'
  BY <1>1, <1>7, <1>8, <1>11, <1>12 DEF CertInv, AheadFresh
<1>14. RetiringKept'
  BY <1>1, <1>7, <1>8, <1>11 DEF CertInv, RetiringKept
<1>15. NewsDiffer'
  <2>1. \A q \in Rotators : Ahead(q) \/ Retiring(q) => rotator[q].new # issued + 1
    BY <1>7 DEF CertInv, AheadFresh, RetiringKept
  <2>2. ~Retiring(r)'
    BY <1>2, <1>4 DEF Retiring
  <2> QED BY <1>11, <1>12, <2>1, <2>2 DEF CertInv, NewsDiffer
<1>16. EnvelopeLive'
  BY <1>1, <1>7, <1>8, <1>11 DEF CertInv, EnvelopeLive
<1>17. Gone'
  <2>1. leaves' \cap (revoked' \cup Awaiting') = {}
    BY <1>1, <1>5 DEF CertInv, Gone
  <2>2. \A q \in Rotators : rotator'[q].pc = "retire" => q # r /\ rotator'[q] = rotator[q]
    BY <1>2, <1>4
  <2> QED BY <1>1, <2>1, <2>2 DEF CertInv, Gone
<1> QED BY <1>9, <1>10, <1>13, <1>14, <1>15, <1>16, <1>17 DEF CertInv

\* The replacement goes again, and with it its key and leaf.
LEMMA RollbackStep ==
    ASSUME CertInv, NEW r \in Rotators, Ahead(r), Rollback(r),
           UNCHANGED <<native, revoked, issued, ageing>>
    PROVE  CertInv'
<1> DEFINE x == [rotator[r] EXCEPT !.pc = "settled"]
           new == rotator[r].new
<1>1. /\ keys' = keys \ {new} /\ leaves' = leaves \ {new} /\ envelope' = envelope
      /\ rotator' = [rotator EXCEPT ![r] = x]
  BY DEF Rollback, StepTo
<1>2. /\ x \in Rotations /\ x.pc = "settled" /\ x.old = rotator[r].old
      /\ x.pending = rotator[r].pending
  BY OwnAwaiting DEF Rotations
<1> HIDE DEF x
<1>3. /\ rotator' \in [Rotators -> Rotations] /\ rotator'[r] = x
      /\ \A q \in Rotators \ {r} : rotator'[q] = rotator[q]
  BY <1>1, <1>2, Moved DEF CertInv
<1>4. Awaiting' \subseteq Awaiting
  BY <1>1, <1>2, OwnAwaiting, AwaitingGrows DEF CertInv
<1>5. \A c \in Live : c # new => c \in Live'
  BY <1>1, <1>4 DEF Live, Loads
<1>6. CertTypes'
  BY <1>1, <1>3 DEF CertInv, CertTypes
<1>7. Numbered'
  BY <1>1, <1>2, <1>3, <1>4 DEF CertInv, Numbered
<1>8. \A q \in Rotators : /\ rotator'[q].old = rotator[q].old
                          /\ (Ahead(q) \/ Retiring(q))' => q # r /\ rotator'[q] = rotator[q]
                          /\ Ahead(q)' => Ahead(q)
                          /\ Retiring(q)' => Retiring(q)
                          /\ Bound(q)' => Bound(q)
  BY <1>2, <1>3 DEF Ahead, Retiring, Bound
<1>9. \A q \in Rotators : q # r /\ (Ahead(q) \/ Retiring(q)) => rotator[q].new # new
  BY DEF CertInv, NewsDiffer
<1>10. AheadFresh'
  BY <1>1, <1>5, <1>8, <1>9 DEF CertInv, AheadFresh
<1>11. RetiringKept'
  BY <1>1, <1>5, <1>8, <1>9 DEF CertInv, RetiringKept
<1>12. NewsDiffer'
  BY <1>8 DEF CertInv, NewsDiffer
<1>13. EnvelopeLive'
  <2>1. envelope.cert # new
    BY DEF CertInv, AheadFresh
  <2> QED BY <1>1, <1>5, <1>8, <2>1 DEF CertInv, EnvelopeLive
<1>14. Gone'
  BY <1>1, <1>2, <1>3, <1>4 DEF CertInv, Gone
<1> QED BY <1>6, <1>7, <1>10, <1>11, <1>12, <1>13, <1>14 DEF CertInv

LEMMA SignStep == ASSUME CertInv, NEW r \in Rotators, SignAndInstall(r) PROVE CertInv'
<1>1. Ahead(r) /\ UNCHANGED <<native, revoked, issued, ageing>>
  BY DEF SignAndInstall, Ahead
<1>2. CASE Rollback(r)
  BY <1>1, <1>2, RollbackStep
<1>3. CASE /\ leaves' = IF native THEN leaves \cup {rotator[r].new} ELSE leaves
           /\ StepTo(r, "login") /\ UNCHANGED <<keys, envelope, mishaps>>
  <2> DEFINE x == [rotator[r] EXCEPT !.pc = "login"]
             new == rotator[r].new
  <2>1. /\ x \in Rotations /\ x.pc = "login" /\ x.old = rotator[r].old /\ x.new = new
        /\ x.pending = rotator[r].pending
    BY OwnAwaiting DEF Rotations
  <2>2. rotator' = [rotator EXCEPT ![r] = x]
    BY <1>3 DEF StepTo
  <2> HIDE DEF x
  <2>3. /\ rotator' \in [Rotators -> Rotations] /\ rotator'[r] = x
        /\ \A q \in Rotators \ {r} : rotator'[q] = rotator[q]
    BY <2>1, <2>2, Moved DEF CertInv
  <2>4. Awaiting' \subseteq Awaiting
    BY <1>3, <2>1, <2>2, OwnAwaiting, AwaitingGrows DEF CertInv
  <2>5. Live \subseteq Live'
    BY <1>1, <1>3, <2>4 DEF Live, Loads
  <2>6. /\ new \in Live /\ new \in 1..issued /\ new \notin revoked \cup Awaiting
        /\ \A q \in Rotators : rotator[q].old.cert # new
    BY <1>1 DEF CertInv, AheadFresh, Live
  <2>7. leaves' \subseteq leaves \cup {new}
    BY <1>3
  <2>8. \A q \in Rotators : /\ rotator'[q].old = rotator[q].old /\ rotator'[q].new = rotator[q].new
                            /\ Ahead(q)' => Ahead(q)
                            /\ Retiring(q)' => Retiring(q)
                            /\ Bound(q)' => Bound(q)
    BY <1>1, <2>1, <2>3 DEF Ahead, Retiring, Bound
  <2>9. CertTypes'
    <3>1. leaves' \subseteq Nat
      BY <2>6, <2>7 DEF CertInv, CertTypes
    <3> QED BY <1>1, <1>3, <2>3, <3>1 DEF CertInv, CertTypes
  <2>10. Numbered'
    <3>1. leaves \cup revoked \cup Awaiting \subseteq 0..issued /\ issued \in Nat
      BY DEF CertInv, CertTypes, Numbered
    <3>2. leaves' \cup revoked' \cup Awaiting' \subseteq 0..issued'
      BY <1>1, <2>4, <2>6, <2>7, <3>1
    <3> QED BY <1>1, <1>3, <2>8, <3>2 DEF CertInv, Numbered
  <2>11. AheadFresh'
    BY <1>3, <2>5, <2>8 DEF CertInv, AheadFresh
  <2>12. RetiringKept'
    BY <1>1, <2>5, <2>8 DEF CertInv, RetiringKept
  <2>13. NewsDiffer'
    BY <2>8 DEF CertInv, NewsDiffer
  <2>14. EnvelopeLive'
    BY <1>3, <2>5, <2>8 DEF CertInv, EnvelopeLive
  <2>15. Gone'
    <3>1. leaves' \cap (revoked' \cup Awaiting') = {}
      BY <1>1, <2>4, <2>6, <2>7 DEF CertInv, Gone
    <3>2. \A q \in Rotators : rotator'[q].pc = "retire" => q # r /\ rotator'[q] = rotator[q]
      BY <2>1, <2>3
    <3> QED BY <2>6, <2>7, <3>1, <3>2 DEF CertInv, Gone
  <2> QED BY <2>9, <2>10, <2>11, <2>12, <2>13, <2>14, <2>15 DEF CertInv
<1> QED BY <1>2, <1>3 DEF SignAndInstall

LEMMA LoginStep == ASSUME CertInv, NEW r \in Rotators, LoginWithNew(r) PROVE CertInv'
<1>1. Ahead(r) /\ UNCHANGED <<native, revoked, issued, ageing>>
  BY DEF LoginWithNew, Ahead
<1>2. CASE Rollback(r)
  BY <1>1, <1>2, RollbackStep
<1>3. CASE StepTo(r, "save") /\ UNCHANGED <<keys, leaves, envelope, mishaps>>
  BY <1>1, <1>3, PlaceMoves
<1> QED BY <1>2, <1>3 DEF LoginWithNew

\* The replacement goes on record, or is rolled back.
LEMMA SaveStep == ASSUME CertInv, NEW r \in Rotators, SaveCredential(r) PROVE CertInv'
<1>1. Ahead(r) /\ UNCHANGED <<native, revoked, issued>>
  BY DEF SaveCredential, Ahead
<1>2. CASE Rollback(r) /\ UNCHANGED ageing
  BY <1>1, <1>2, RollbackStep
<1>3. CASE /\ envelope' = [cert |-> rotator[r].new, pending |-> {}] /\ ageing' = FALSE
           /\ StepTo(r, "sweep") /\ UNCHANGED <<keys, leaves, mishaps>>
  <2> DEFINE x == [rotator[r] EXCEPT !.pc = "sweep"]
             new == rotator[r].new
  <2>1. /\ x \in Rotations /\ x.pc = "sweep" /\ x.old = rotator[r].old /\ x.new = new
        /\ x.pending = rotator[r].pending
    BY OwnAwaiting DEF Rotations
  <2>2. rotator' = [rotator EXCEPT ![r] = x]
    BY <1>3 DEF StepTo
  <2> HIDE DEF x
  <2>3. /\ rotator' \in [Rotators -> Rotations] /\ rotator'[r] = x
        /\ \A q \in Rotators \ {r} : rotator'[q] = rotator[q]
    BY <2>1, <2>2, Moved DEF CertInv
  <2>4. envelope'.cert = new /\ envelope'.pending = {}
    BY <1>3
  <2>5. Awaiting' \subseteq Awaiting
    BY <2>1, <2>2, <2>4, OwnAwaiting, AwaitingGrows DEF CertInv
  <2>6. Live \subseteq Live'
    BY <1>1, <1>3, <2>5 DEF Live, Loads
  <2>7. /\ new \in Live /\ new \in 1..issued
        /\ \A q \in Rotators : rotator[q].old.cert # new
    BY <1>1 DEF CertInv, AheadFresh, Live
  <2>8. \A q \in Rotators : /\ rotator'[q].old = rotator[q].old /\ rotator'[q].new = rotator[q].new
                            /\ Ahead(q)' => Ahead(q) /\ q # r
                            /\ Retiring(q)' => Retiring(q) \/ q = r
                            /\ Bound(q)' => Bound(q)
    BY <1>1, <2>1, <2>3 DEF Ahead, Retiring, Bound
  <2>9. CertTypes'
    <3>1. envelope' \in Credentials
      BY <1>3, <2>7 DEF Credentials
    <3> QED BY <1>1, <1>3, <2>3, <3>1 DEF CertInv, CertTypes
  <2>10. Numbered'
    BY <1>1, <1>3, <2>4, <2>5, <2>7, <2>8 DEF CertInv, CertTypes, Numbered
  <2>11. AheadFresh'
    <3>1. \A q \in Rotators : Ahead(q) /\ q # r => rotator[q].new # new
      BY <1>1 DEF CertInv, NewsDiffer
    <3> QED BY <2>4, <2>6, <2>8, <3>1 DEF CertInv, AheadFresh
  <2>12. RetiringKept'
    BY <1>3, <2>6, <2>7, <2>8 DEF CertInv, RetiringKept
  <2>13. NewsDiffer'
    BY <1>1, <2>8 DEF CertInv, NewsDiffer
  <2>14. EnvelopeLive'
    BY <2>4, <2>6, <2>7, <2>8 DEF EnvelopeLive
  <2>15. Gone'
    <3>1. \A q \in Rotators : rotator'[q].pc = "retire" => q # r /\ rotator'[q] = rotator[q]
      BY <2>1, <2>3
    <3> QED BY <1>1, <1>3, <2>5, <3>1 DEF CertInv, Gone
  <2> QED BY <2>9, <2>10, <2>11, <2>12, <2>13, <2>14, <2>15 DEF CertInv
<1> QED BY <1>2, <1>3 DEF SaveCredential

\* What a bound rotation has loaded is in nobody's use.
LEMMA OldUnused ==
    ASSUME CertInv, NEW r \in Rotators, Retiring(r)
    PROVE  /\ envelope.cert # 0 => envelope.cert # rotator[r].old.cert
           /\ \A q \in Rotators : Ahead(q) \/ Retiring(q) => rotator[q].new # rotator[r].old.cert
<1>1. Bound(r)
  BY DEF Bound, Retiring
<1> QED BY <1>1 DEF CertInv, EnvelopeLive, AheadFresh, RetiringKept

LEMMA CommitStep == ASSUME CertInv, NEW r \in Rotators, CommitCert(r) PROVE CertInv'
<1> DEFINE old == rotator[r].old.cert
<1>1. /\ Retiring(r) /\ rotator[r].pc = "sweep"
      /\ UNCHANGED <<native, revoked, issued, ageing, envelope>>
  BY DEF CommitCert, Retiring
<1>2. PICK swept \in BOOLEAN :
        /\ rotator' = [rotator EXCEPT ![r].pc = "retire", ![r].swept = swept]
        /\ keys' \in {keys, keys \ {old}} /\ leaves' \in {leaves, leaves \ {old}}
        /\ swept => leaves' = leaves \ {old}
  BY DEF CommitCert
<1> DEFINE x == [rotator[r] EXCEPT !.pc = "retire", !.swept = swept]
<1>3. /\ x \in Rotations /\ x.pc = "retire" /\ x.old = rotator[r].old /\ x.new = rotator[r].new
      /\ x.pending = rotator[r].pending /\ x.swept = swept
  BY OwnAwaiting DEF Rotations
<1>4. rotator' = [rotator EXCEPT ![r] = x]
  BY <1>2
<1> HIDE DEF x
<1>5. /\ rotator' \in [Rotators -> Rotations] /\ rotator'[r] = x
      /\ \A q \in Rotators \ {r} : rotator'[q] = rotator[q]
  BY <1>3, <1>4, Moved DEF CertInv
<1>6. Awaiting' \subseteq Awaiting
  BY <1>1, <1>3, <1>4, OwnAwaiting, AwaitingGrows DEF CertInv
<1>7. \A c \in Live : c # old => c \in Live'
  BY <1>1, <1>2, <1>6 DEF Live, Loads
<1>8. \A q \in Rotators : /\ rotator'[q].old = rotator[q].old /\ rotator'[q].new = rotator[q].new
                          /\ Ahead(q)' => Ahead(q)
                          /\ Retiring(q)' => Retiring(q)
                          /\ Bound(q)' => Bound(q)
  BY <1>1, <1>3, <1>5 DEF Ahead, Retiring, Bound
<1>9. CertTypes'
  BY <1>1, <1>2, <1>5 DEF CertInv, CertTypes
<1>10. leaves' \subseteq leaves
  BY <1>2
<1>11. Numbered'
  BY <1>1, <1>6, <1>8, <1>10 DEF CertInv, Numbered
<1>12. AheadFresh'
  BY <1>1, <1>7, <1>8, OldUnused DEF CertInv, AheadFresh
<1>13. RetiringKept'
  BY <1>1, <1>7, <1>8, OldUnused DEF CertInv, RetiringKept
<1>14. NewsDiffer'
  BY <1>8 DEF CertInv, NewsDiffer
<1>15. EnvelopeLive'
  BY <1>1, <1>7, <1>8, OldUnused DEF CertInv, EnvelopeLive
<1>16. Gone'
  <2>1. leaves' \cap (revoked' \cup Awaiting') = {}
    BY <1>1, <1>6, <1>10 DEF CertInv, Gone
  <2>2. ASSUME NEW q \in Rotators, rotator'[q].pc = "retire", rotator'[q].swept
        PROVE  rotator'[q].old.cert \notin leaves'
    <3>1. CASE q = r
      BY <1>2, <1>3, <1>5, <2>2, <3>1
    <3>2. CASE q # r
      BY <1>5, <1>10, <2>2, <3>2 DEF CertInv, Gone
    <3> QED BY <3>1, <3>2
  <2> QED BY <2>1, <2>2 DEF Gone
<1> QED BY <1>9, <1>11, <1>12, <1>13, <1>14, <1>15, <1>16 DEF CertInv

\* What is revoked awaited its revocation, or has just been removed here.
LEMMA RetireStep == ASSUME CertInv, NEW r \in Rotators, Retire(r) PROVE CertInv'
<1> DEFINE old == rotator[r].old.cert
           more == IF rotator[r].swept THEN {old} ELSE {}
<1>1. /\ Retiring(r) /\ rotator[r].pc = "retire"
      /\ UNCHANGED <<native, keys, leaves, issued, ageing, envelope>>
  BY DEF Retire, Retiring
<1>2. Outstanding(r) \subseteq Awaiting \cup more
  BY OwnAwaiting DEF Outstanding, Owed, Capped
<1>3. PICK pending, done :
        /\ pending \subseteq Awaiting \cup more /\ done \subseteq Awaiting \cup more
        /\ revoked' = revoked \cup done
        /\ rotator' = [rotator EXCEPT ![r].pc = "persist", ![r].pending = pending]
  <2>1. PICK done \in SUBSET Outstanding(r) :
          /\ revoked' = revoked \cup done
          /\ rotator' = [rotator EXCEPT ![r].pc = "persist", ![r].pending = Outstanding(r) \ done]
    BY DEF Retire
  <2> QED BY <1>2, <2>1
<1> DEFINE x == [rotator[r] EXCEPT !.pc = "persist", !.pending = pending]
<1>4. /\ old \in Nat /\ old <= issued /\ issued \in Nat /\ Awaiting \subseteq 0..issued
      /\ revoked \subseteq 0..issued
  BY OwnAwaiting DEF CertInv, CertTypes, Numbered, Credentials
<1>5. pending \subseteq 0..issued /\ done \subseteq 0..issued
  BY <1>3, <1>4
<1>6. /\ x \in Rotations /\ x.pc = "persist" /\ x.old = rotator[r].old /\ x.new = rotator[r].new
      /\ x.pending = pending
  <2>1. rotator[r] \in Rotations /\ pending \subseteq Nat
    BY <1>4, <1>5, OwnAwaiting
  <2> QED BY <2>1 DEF Rotations
<1>7. rotator' = [rotator EXCEPT ![r] = x]
  BY <1>3
<1> HIDE DEF x
<1>8. /\ rotator' \in [Rotators -> Rotations] /\ rotator'[r] = x
      /\ \A q \in Rotators \ {r} : rotator'[q] = rotator[q]
  BY <1>6, <1>7, Moved DEF CertInv
<1>9. Awaiting' \subseteq Awaiting \cup more
  BY <1>1, <1>3, <1>6, <1>7, OwnAwaiting, AwaitingGrows DEF CertInv
<1>10. \A c \in Live : c # old => c \in Live'
  BY <1>1, <1>3, <1>9 DEF Live, Loads
<1>11. \A q \in Rotators : /\ rotator'[q].old = rotator[q].old /\ rotator'[q].new = rotator[q].new
                           /\ Ahead(q)' => Ahead(q)
                           /\ Retiring(q)' => Retiring(q)
                           /\ Bound(q)' => Bound(q)
  BY <1>1, <1>6, <1>8 DEF Ahead, Retiring, Bound
<1>12. CertTypes'
  BY <1>1, <1>3, <1>5, <1>8 DEF CertInv, CertTypes
<1>13. Numbered'
  <2>1. leaves' \cup revoked' \cup Awaiting' \subseteq 0..issued'
    BY <1>1, <1>3, <1>4, <1>5, <1>9 DEF CertInv, Numbered
  <2> QED BY <1>1, <1>11, <2>1 DEF CertInv, Numbered
<1>14. AheadFresh'
  BY <1>1, <1>10, <1>11, OldUnused DEF CertInv, AheadFresh
<1>15. RetiringKept'
  BY <1>1, <1>10, <1>11, OldUnused DEF CertInv, RetiringKept
<1>16. NewsDiffer'
  BY <1>11 DEF CertInv, NewsDiffer
<1>17. EnvelopeLive'
  BY <1>1, <1>10, <1>11, OldUnused DEF CertInv, EnvelopeLive
<1>18. Gone'
  <2>1. leaves \cap (revoked \cup Awaiting \cup more) = {}
    BY <1>1 DEF CertInv, Gone
  <2>2. leaves' \cap (revoked' \cup Awaiting') = {}
    BY <1>1, <1>3, <1>9, <2>1
  <2>3. \A q \in Rotators : rotator'[q].pc = "retire" => q # r /\ rotator'[q] = rotator[q]
    BY <1>6, <1>8
  <2> QED BY <1>1, <2>2, <2>3 DEF CertInv, Gone
<1> QED BY <1>12, <1>13, <1>14, <1>15, <1>16, <1>17, <1>18 DEF CertInv

\* The certificate that is put on record once more is still the rotation's own.
LEMMA PersistStep == ASSUME CertInv, NEW r \in Rotators, PersistPending(r) PROVE CertInv'
<1> DEFINE x == [rotator[r] EXCEPT !.pc = "settled"]
           new == rotator[r].new
<1>1. /\ Retiring(r) /\ rotator' = [rotator EXCEPT ![r] = x]
      /\ UNCHANGED <<native, keys, leaves, revoked, issued, ageing>>
  BY DEF PersistPending, Retiring, StepTo
<1>2. /\ x \in Rotations /\ x.pc = "settled" /\ x.old = rotator[r].old /\ x.new = new
      /\ x.pending = rotator[r].pending
  BY OwnAwaiting DEF Rotations
<1>3. CASE UNCHANGED envelope
  <2>1. StepTo(r, "settled")
    BY DEF PersistPending
  <2> QED BY <1>1, <1>3, <2>1, PlaceMoves
<1> HIDE DEF x
<1>4. CASE envelope' = [cert |-> new, pending |-> rotator[r].pending]
  <2>1. /\ rotator' \in [Rotators -> Rotations] /\ rotator'[r] = x
        /\ \A q \in Rotators \ {r} : rotator'[q] = rotator[q]
    BY <1>1, <1>2, Moved DEF CertInv
  <2>2. envelope'.cert = new /\ envelope'.pending = rotator[r].pending
    BY <1>4
  <2>3. Awaiting' \subseteq Awaiting
    BY <1>1, <1>2, <2>2, OwnAwaiting, AwaitingGrows DEF CertInv
  <2>4. Live \subseteq Live'
    BY <1>1, <2>3 DEF Live, Loads
  <2>5. /\ new \in Live /\ new \in 1..issued
        /\ \A q \in Rotators : Bound(q) => rotator[q].old.cert # new
    BY <1>1 DEF CertInv, RetiringKept, Live
  <2>6. \A q \in Rotators : /\ rotator'[q].old = rotator[q].old /\ rotator'[q].new = rotator[q].new
                            /\ Ahead(q)' => Ahead(q) /\ q # r
                            /\ Retiring(q)' => Retiring(q) /\ Bound(q)
                            /\ Bound(q)' => Bound(q)
    BY <1>2, <2>1 DEF Ahead, Retiring, Bound
  <2>7. CertTypes'
    <3>1. envelope' \in Credentials
      <4>1. new \in Nat /\ rotator[r].pending \subseteq Nat
        BY OwnAwaiting DEF Rotations
      <4> QED BY <1>4, <4>1 DEF Credentials
    <3> QED BY <1>1, <2>1, <3>1 DEF CertInv, CertTypes
  <2>8. Numbered'
    <3>1. new <= issued
      BY <2>5 DEF CertInv, CertTypes
    <3> QED BY <1>1, <2>2, <2>3, <2>6, <3>1 DEF CertInv, Numbered
  <2>9. AheadFresh'
    <3>1. \A q \in Rotators : Ahead(q) /\ q # r => rotator[q].new # new
      BY <1>1 DEF CertInv, NewsDiffer
    <3> QED BY <2>2, <2>4, <2>6, <3>1 DEF CertInv, AheadFresh
  <2>10. RetiringKept'
    BY <1>1, <2>4, <2>6 DEF CertInv, RetiringKept
  <2>11. NewsDiffer'
    BY <2>6 DEF CertInv, NewsDiffer
  <2>12. EnvelopeLive'
    BY <2>2, <2>4, <2>5, <2>6 DEF EnvelopeLive
  <2>13. Gone'
    <3>1. \A q \in Rotators : rotator'[q].pc = "retire" => q # r /\ rotator'[q] = rotator[q]
      BY <1>2, <2>1
    <3> QED BY <1>1, <2>3, <3>1 DEF CertInv, Gone
  <2> QED BY <2>7, <2>8, <2>9, <2>10, <2>11, <2>12, <2>13 DEF CertInv
<1> QED BY <1>3, <1>4 DEF PersistPending

\* A new credential leaves the backlog where it was.
LEMMA KeepStep == ASSUME CertInv, NEW r \in Rotators, KeepBacklog(r) PROVE CertInv'
BY PlaceMoves DEF KeepBacklog

LEMMA CertStepInv == CertInv /\ [CertNext]_certVars => CertInv'
<1> SUFFICES ASSUME CertInv, [CertNext]_certVars PROVE CertInv'
  OBVIOUS
<1>1. CASE UNCHANGED certVars
  BY <1>1, RestKeeps DEF certVars
<1>2. CASE ComesDue
  BY <1>2, RestKeeps DEF ComesDue, Retiring
<1> QED
  BY <1>1, <1>2, LoadStep, TryStep, BootstrapStep, GenerateStep, SignStep, LoginStep, SaveStep,
     CommitStep, RetireStep, KeepStep, PersistStep, DiesStep
     DEF CertNext, Proceed

-----------------------------------------------------------------------------
(***************************************************************************)
(* No certificate is forgotten while nothing goes wrong: each that was     *)
(* issued is on record, revoked, on the list or in the hands of a rotation.*)
(***************************************************************************)

\* The certificates a rotation still answers for
InHand(r) ==
    IF Ahead(r) THEN {rotator[r].new}
    ELSE IF rotator[r].pc \in {"sweep", "retire"} THEN rotator[r].old.pending \cup {rotator[r].old.cert}
    ELSE IF rotator[r].pc = "persist" THEN rotator[r].pending
    ELSE {}

\* Somebody knows of every certificate.
Known(c) ==
    \/ c = envelope.cert \/ c \in envelope.pending \/ c \in revoked
    \/ \E r \in Rotators : c \in InHand(r)

\* One process at a time replaces what is on record, with nothing on the list yet;
\* it has swept what it replaced, and a new credential replaces none.
Alone ==
    \A r \in Rotators : Retiring(r) =>
        /\ envelope = [cert |-> rotator[r].new, pending |-> {}]
        /\ \A q \in Rotators : Retiring(q) => q = r
        /\ rotator[r].pc = "retire" => rotator[r].swept
        /\ rotator[r].seed => rotator[r].old = NoCredential

Calm == mishaps = 0 /\ ~disturbed

Remembered == mishaps \in Nat /\ (Calm => Alone /\ \A c \in 1..issued : Known(c))

\* One process moves and holds at least what it held, or others know of it.
LEMMA KnownMoves ==
    ASSUME CertTypes, NEW r \in Rotators, NEW x \in Rotations, rotator' = [rotator EXCEPT ![r] = x],
           NEW c, Known(c),
           c = envelope.cert \/ c \in envelope.pending \/ c \in revoked \/ c \in InHand(r)
              => \/ c = envelope'.cert \/ c \in envelope'.pending \/ c \in revoked'
                 \/ c \in InHand(r)'
    PROVE  Known(c)'
<1>1. rotator'[r] = x /\ \A q \in Rotators \ {r} : rotator'[q] = rotator[q]
  BY Moved
<1>2. \A q \in Rotators \ {r} : InHand(q)' = InHand(q)
  BY <1>1 DEF InHand, Ahead
<1> QED BY <1>2 DEF Known

\* A process moves where it answers for nothing, before and after.
LEMMA PlaceRemembers ==
    ASSUME CertInv, Remembered, NEW r \in Rotators, NEW x \in Rotations,
           rotator' = [rotator EXCEPT ![r] = x], mishaps' \in Nat, mishaps' = 0 => mishaps = 0,
           UNCHANGED <<revoked, issued, envelope, disturbed>>,
           x.pc \in {"settled", "generate", "bootstrap", "try", "sign", "login", "save"},
           mishaps' = 0 => ~Retiring(r),
           mishaps' = 0 /\ Ahead(r) => x.pc \in {"sign", "login", "save"} /\ x.new = rotator[r].new
    PROVE  Remembered'
<1>1. /\ rotator'[r] = x /\ \A q \in Rotators \ {r} : rotator'[q] = rotator[q]
      /\ CertTypes
  BY Moved DEF CertInv
<1>2. SUFFICES ASSUME Calm' PROVE Alone' /\ \A c \in 1..issued' : Known(c)'
  BY DEF Remembered
<1>3. Calm /\ ~Retiring(r) /\ Alone
  BY <1>2 DEF Calm, Remembered
<1>4. \A q \in Rotators : Retiring(q)' => q # r
  BY <1>1 DEF Retiring
<1>5. Alone'
  BY <1>1, <1>3, <1>4 DEF Alone, Retiring
<1>6. \A c : c \in InHand(r) => c \in InHand(r)'
  BY <1>1, <1>2, <1>3 DEF InHand, Ahead, Retiring, Calm
<1>7. ASSUME NEW c \in 1..issued' PROVE Known(c)'
  BY <1>1, <1>3, <1>6, <1>7, KnownMoves DEF Remembered
<1> QED BY <1>5, <1>7

LEMMA PlaceStepRemembers ==
    ASSUME CertInv, Remembered, NEW r \in Rotators, UNCHANGED disturbed,
           \/ \E hourly \in BOOLEAN : LoadCredential(r, hourly)
           \/ \E recovering \in BOOLEAN : TryExisting(r, recovering)
           \/ Bootstrap(r) \/ Dies(r)
    PROVE  Remembered'
<1>1. rotator[r] \in Rotations /\ envelope \in Credentials /\ ageing \in BOOLEAN /\ mishaps \in Nat
  BY OwnAwaiting DEF CertInv, CertTypes, Remembered
<1>2. ASSUME NEW hourly \in BOOLEAN, LoadCredential(r, hourly) PROVE Remembered'
  <2> DEFINE pc == IF hourly THEN "generate" ELSE IF envelope.cert = 0 THEN "bootstrap" ELSE "try"
             x == [NotRotating EXCEPT !.pc = pc, !.due = ageing, !.old = envelope]
  <2>1. /\ rotator' = [rotator EXCEPT ![r] = x] /\ rotator[r].pc = "settled"
        /\ UNCHANGED <<revoked, issued, envelope, mishaps>>
    BY <1>2 DEF LoadCredential
  <2>2. x \in Rotations /\ x.pc = pc
    BY <1>1, NotRotatingType DEF Rotations
  <2> HIDE DEF x
  <2>3. ~Retiring(r) /\ ~Ahead(r)
    BY <2>1 DEF Retiring, Ahead
  <2> QED BY <1>1, <2>1, <2>2, <2>3, PlaceRemembers
<1>3. ASSUME NEW pc \in {"settled", "generate", "bootstrap"}, NEW seed \in BOOLEAN,
             rotator' = [rotator EXCEPT ![r] = [rotator[r] EXCEPT !.pc = pc, !.seed = seed]],
             rotator[r].pc \in {"try", "bootstrap"}, mishaps' \in {mishaps, mishaps + 1},
             UNCHANGED <<revoked, issued, envelope>>
      PROVE  Remembered'
  <2> DEFINE x == [rotator[r] EXCEPT !.pc = pc, !.seed = seed]
  <2>1. x \in Rotations /\ x.pc = pc
    BY <1>1 DEF Rotations
  <2>2. ~Retiring(r) /\ ~Ahead(r)
    BY <1>3 DEF Retiring, Ahead
  <2>3. mishaps' \in Nat /\ (mishaps' = 0 => mishaps = 0)
    BY <1>1, <1>3
  <2>4. rotator' = [rotator EXCEPT ![r] = x]
    BY <1>3
  <2> HIDE DEF x
  <2> QED BY <1>3, <2>1, <2>2, <2>3, <2>4, PlaceRemembers
<1>4. ASSUME NEW recovering \in BOOLEAN, TryExisting(r, recovering) PROVE Remembered'
  <2>1. PICK pc \in {"settled", "generate", "bootstrap"} : StepTo(r, pc)
    BY <1>4 DEF TryExisting
  <2>2. [rotator[r] EXCEPT !.pc = pc] = [rotator[r] EXCEPT !.pc = pc, !.seed = rotator[r].seed]
    BY <1>1 DEF Rotations
  <2>3. rotator' = [rotator EXCEPT ![r] = [rotator[r] EXCEPT !.pc = pc]]
    BY <2>1 DEF StepTo
  <2>4. rotator[r].seed \in BOOLEAN
    BY <1>1 DEF Rotations
  <2>5. rotator[r].pc = "try" /\ UNCHANGED <<revoked, issued, envelope>>
        /\ mishaps' \in {mishaps, mishaps + 1}
    BY <1>4 DEF TryExisting, Mishap
  <2> QED BY <1>3, <2>2, <2>3, <2>4, <2>5
<1>5. CASE Bootstrap(r)
  <2>1. PICK pc \in {"generate", "settled"} :
          rotator' = [rotator EXCEPT ![r].pc = pc, ![r].seed = TRUE]
    BY <1>5 DEF Bootstrap
  <2>2. rotator' = [rotator EXCEPT ![r] = [rotator[r] EXCEPT !.pc = pc, !.seed = TRUE]]
    BY <2>1
  <2> QED BY <1>3, <1>5, <2>2 DEF Bootstrap
<1>6. CASE Dies(r)
  <2>1. /\ rotator' = [rotator EXCEPT ![r] = NotRotating] /\ mishaps' = mishaps + 1
        /\ UNCHANGED <<revoked, issued, envelope>>
    BY <1>6 DEF Dies, Mishap
  <2>2. mishaps' \in Nat /\ mishaps' # 0
    BY <1>1, <2>1
  <2> QED BY <2>1, <2>2, NotRotatingType, PlaceRemembers
<1> QED BY <1>2, <1>4, <1>5, <1>6

\* A replacement is made, signed, logged in with, or rolled back.
LEMMA AheadRemembers ==
    ASSUME CertInv, Remembered, NEW r \in Rotators, UNCHANGED disturbed,
           \/ SignAndInstall(r) \/ LoginWithNew(r)
           \/ rotator[r].pc = "save" /\ Rollback(r) /\ UNCHANGED <<revoked, issued>>
    PROVE  Remembered'
<1>1. rotator[r] \in Rotations /\ mishaps \in Nat
  BY OwnAwaiting DEF Remembered
<1>2. /\ rotator[r].pc \in {"sign", "login", "save"}
      /\ UNCHANGED <<revoked, issued, envelope>>
  BY DEF SignAndInstall, LoginWithNew, Rollback
<1>3. PICK pc \in {"login", "save", "settled"} :
        /\ StepTo(r, pc)
        /\ \/ pc = "settled" /\ mishaps' = mishaps + 1
           \/ pc # "settled" /\ mishaps' = mishaps
  BY DEF SignAndInstall, LoginWithNew, Rollback, Mishap
<1> DEFINE x == [rotator[r] EXCEPT !.pc = pc]
<1>4. x \in Rotations /\ x.pc = pc /\ x.new = rotator[r].new
  BY <1>1 DEF Rotations
<1>5. rotator' = [rotator EXCEPT ![r] = x]
  BY <1>3 DEF StepTo
<1> HIDE DEF x
<1>6. mishaps' \in Nat /\ (mishaps' = 0 => mishaps = 0 /\ pc \in {"login", "save"})
  BY <1>1, <1>3
<1>7. ~Retiring(r)
  BY <1>2 DEF Retiring
<1> QED BY <1>2, <1>4, <1>5, <1>6, <1>7, PlaceRemembers

LEMMA GenerateRemembers ==
    ASSUME CertInv, Remembered, NEW r \in Rotators, UNCHANGED disturbed, Generate(r)
    PROVE  Remembered'
<1> DEFINE x == [rotator[r] EXCEPT !.pc = "sign", !.new = issued']
<1>1. /\ issued \in Nat /\ issued' = issued + 1 /\ UNCHANGED <<revoked, envelope, mishaps>>
      /\ rotator[r].pc = "generate" /\ CertTypes
  BY DEF CertInv, CertTypes, Generate
<1>2. x \in Rotations /\ x.pc = "sign" /\ x.new = issued'
  <2>1. issued' \in Nat /\ rotator[r] \in Rotations
    BY <1>1, OwnAwaiting
  <2> QED BY <2>1 DEF Rotations
<1>3. rotator' = [rotator EXCEPT ![r] = x]
  BY DEF Generate
<1> HIDE DEF x
<1>4. rotator'[r] = x /\ \A q \in Rotators \ {r} : rotator'[q] = rotator[q]
  BY <1>1, <1>2, <1>3, Moved
<1>5. SUFFICES ASSUME Calm' PROVE Alone' /\ \A c \in 1..issued' : Known(c)'
  BY <1>1 DEF Remembered
<1>6. Calm /\ Alone
  BY <1>1, <1>5 DEF Calm, Remembered
<1>7. \A q \in Rotators : Retiring(q)' => q # r
  BY <1>2, <1>4 DEF Retiring
<1>8. Alone'
  BY <1>1, <1>4, <1>6, <1>7 DEF Alone, Retiring
<1>9. ASSUME NEW c \in 1..issued' PROVE Known(c)'
  <2>1. CASE c \in 1..issued
    <3>1. c \notin InHand(r)
      BY <1>1 DEF InHand, Ahead
    <3> QED BY <1>1, <1>2, <1>3, <1>6, <2>1, <3>1, KnownMoves DEF Remembered
  <2>2. CASE c = issued'
    BY <1>2, <1>4, <2>2 DEF Known, InHand, Ahead
  <2> QED BY <1>1, <1>9, <2>1, <2>2
<1> QED BY <1>8, <1>9

\* The replacement goes on record: the rotation answers for what was there.
LEMMA SaveRemembers ==
    ASSUME CertInv, Remembered, NEW r \in Rotators, SaveCredential(r)
    PROVE  Remembered'
<1>1. rotator[r].pc = "save" /\ UNCHANGED <<revoked, issued>> /\ CertTypes
      /\ rotator[r] \in Rotations
  BY OwnAwaiting DEF SaveCredential, CertInv
<1>2. CASE Rollback(r) /\ UNCHANGED <<ageing, disturbed>>
  BY <1>1, <1>2, AheadRemembers
<1>3. CASE /\ envelope' = [cert |-> rotator[r].new, pending |-> {}]
           /\ disturbed' = (disturbed \/ Overtakes(r)) /\ StepTo(r, "sweep") /\ UNCHANGED mishaps
  <2> DEFINE x == [rotator[r] EXCEPT !.pc = "sweep"]
  <2>1. /\ x \in Rotations /\ x.pc = "sweep" /\ x.old = rotator[r].old /\ x.new = rotator[r].new
        /\ x.seed = rotator[r].seed
    BY <1>1 DEF Rotations
  <2>2. rotator' = [rotator EXCEPT ![r] = x]
    BY <1>3 DEF StepTo
  <2> HIDE DEF x
  <2>3. rotator'[r] = x /\ \A q \in Rotators \ {r} : rotator'[q] = rotator[q]
    BY <1>1, <2>1, <2>2, Moved
  <2>4. SUFFICES ASSUME Calm' PROVE Alone' /\ \A c \in 1..issued' : Known(c)'
    BY <1>3 DEF Remembered
  <2>5. Calm /\ ~Overtakes(r) /\ Alone
    BY <1>3, <2>4 DEF Calm, Remembered
  <2>6. /\ envelope = rotator[r].old /\ \A q \in Rotators \ {r} : ~Retiring(q)
        /\ rotator[r].seed => rotator[r].old = NoCredential
    BY <2>5 DEF Overtakes
  <2>7. \A q \in Rotators : Retiring(q)' => q = r
    BY <2>3, <2>6 DEF Retiring
  <2>8. Alone'
    BY <1>3, <2>1, <2>3, <2>6, <2>7 DEF Alone
  <2>9. ASSUME NEW c \in 1..issued' PROVE Known(c)'
    <3>1. Known(c)
      BY <1>1, <2>5, <2>9 DEF Remembered
    <3>2. InHand(r)' = rotator[r].old.pending \cup {rotator[r].old.cert}
      BY <2>1, <2>3 DEF InHand, Ahead
    <3>3. c \in InHand(r) => c = envelope'.cert
      BY <1>1, <1>3 DEF InHand, Ahead
    <3> QED BY <1>1, <2>1, <2>2, <2>6, <3>1, <3>2, <3>3, KnownMoves
  <2> QED BY <2>8, <2>9
<1> QED BY <1>2, <1>3 DEF SaveCredential

\* A rotation that has replaced what is on record goes on: what it answered for, or
\* more, it still does or has passed on.
LEMMA RetiringRemembers ==
    ASSUME CertInv, Remembered, NEW r \in Rotators, NEW x \in Rotations,
           rotator' = [rotator EXCEPT ![r] = x], mishaps' \in Nat, mishaps' = 0 => mishaps = 0,
           issued' = issued, revoked \subseteq revoked', disturbed => disturbed',
           rotator[r].pc \in {"sweep", "retire", "persist"},
           x.new = rotator[r].new, x.old = rotator[r].old, x.seed = rotator[r].seed,
           Calm' /\ Alone =>
               /\ x.pc = "settled" \/ (x.pc \in {"retire", "persist"} /\ UNCHANGED envelope)
               /\ x.pc = "retire" => x.swept
               /\ envelope'.cert = envelope.cert
               /\ InHand(r) \subseteq InHand(r)' \cup envelope'.pending \cup revoked' \cup {0}
    PROVE  Remembered'
<1>1. /\ rotator'[r] = x /\ \A q \in Rotators \ {r} : rotator'[q] = rotator[q]
      /\ CertTypes /\ Retiring(r)
  BY Moved DEF CertInv, Retiring
<1>2. SUFFICES ASSUME Calm' PROVE Alone' /\ \A c \in 1..issued' : Known(c)'
  BY DEF Remembered
<1>3. Calm /\ Alone
  BY <1>2 DEF Calm, Remembered
<1>4. envelope.pending = {}
  BY <1>1, <1>3 DEF Alone
<1>5. \A q \in Rotators : Retiring(q)' => q = r
  BY <1>1, <1>3 DEF Alone, Retiring
<1>6. Retiring(r)' => x.pc \in {"retire", "persist"} /\ UNCHANGED envelope
  BY <1>1, <1>2, <1>3 DEF Retiring
<1>7. Alone'
  BY <1>1, <1>2, <1>3, <1>5, <1>6 DEF Alone
<1>8. ASSUME NEW c \in 1..issued' PROVE Known(c)'
  <2>1. Known(c) /\ c # 0
    BY <1>3, <1>8 DEF Remembered
  <2> QED BY <1>1, <1>2, <1>3, <1>4, <2>1, KnownMoves
<1> QED BY <1>7, <1>8

LEMMA LastStepsRemember ==
    ASSUME CertInv, Remembered, NEW r \in Rotators,
           \/ (CommitCert(r) \/ KeepBacklog(r) \/ PersistPending(r)) /\ UNCHANGED disturbed
           \/ Retire(r)
    PROVE  Remembered'
<1>1. rotator[r] \in Rotations /\ mishaps \in Nat /\ envelope \in Credentials
  BY OwnAwaiting DEF CertInv, CertTypes, Remembered
<1>2. CASE CommitCert(r) /\ UNCHANGED disturbed
  <2>1. PICK swept \in BOOLEAN :
          /\ rotator' = [rotator EXCEPT ![r].pc = "retire", ![r].swept = swept]
          /\ (swept /\ mishaps' = mishaps) \/ mishaps' = mishaps + 1
    BY <1>2 DEF CommitCert, Mishap
  <2> DEFINE x == [rotator[r] EXCEPT !.pc = "retire", !.swept = swept]
  <2>2. /\ x \in Rotations /\ x.pc = "retire" /\ x.swept = swept /\ x.new = rotator[r].new
        /\ x.old = rotator[r].old /\ x.seed = rotator[r].seed
    BY <1>1 DEF Rotations
  <2>3. rotator' = [rotator EXCEPT ![r] = x]
    BY <2>1
  <2> HIDE DEF x
  <2>4. rotator'[r] = x
    BY <2>2, <2>3, Moved DEF CertInv
  <2>5. /\ rotator[r].pc = "sweep" /\ UNCHANGED <<issued, envelope, revoked>>
    BY <1>2 DEF CommitCert
  <2>6. mishaps' \in Nat /\ (mishaps' = 0 => mishaps = 0 /\ swept)
    BY <1>1, <2>1
  <2>7. InHand(r)' = InHand(r)
    BY <2>2, <2>4, <2>5 DEF InHand, Ahead
  <2> QED BY <1>2, <2>2, <2>3, <2>5, <2>6, <2>7, RetiringRemembers DEF Calm
<1>3. CASE KeepBacklog(r) /\ UNCHANGED disturbed
  <2> DEFINE x == [rotator[r] EXCEPT !.pc = "settled"]
  <2>1. /\ x \in Rotations /\ x.pc = "settled" /\ x.new = rotator[r].new
        /\ x.old = rotator[r].old /\ x.seed = rotator[r].seed
    BY <1>1 DEF Rotations
  <2>2. /\ rotator' = [rotator EXCEPT ![r] = x] /\ rotator[r].pc = "retire" /\ rotator[r].seed
        /\ UNCHANGED <<issued, envelope, revoked, mishaps>>
    BY <1>3 DEF KeepBacklog, StepTo
  <2> HIDE DEF x
  <2>3. Alone => InHand(r) \subseteq {0}
    <3>1. Alone => rotator[r].old = NoCredential
      BY <2>2 DEF Alone, Retiring
    <3> QED BY <2>2, <3>1, NotRotatingType DEF InHand, Ahead
  <2> QED BY <1>1, <1>3, <2>1, <2>2, <2>3, RetiringRemembers
<1>4. CASE PersistPending(r) /\ UNCHANGED disturbed
  <2> DEFINE x == [rotator[r] EXCEPT !.pc = "settled"]
  <2>1. /\ x \in Rotations /\ x.pc = "settled" /\ x.new = rotator[r].new
        /\ x.old = rotator[r].old /\ x.seed = rotator[r].seed
    BY <1>1 DEF Rotations
  <2>2. /\ rotator' = [rotator EXCEPT ![r] = x] /\ rotator[r].pc = "persist"
        /\ UNCHANGED <<issued, revoked>> /\ mishaps' \in {mishaps, mishaps + 1}
    BY <1>4 DEF PersistPending, StepTo, Mishap
  <2> HIDE DEF x
  <2>3. mishaps' \in Nat /\ (mishaps' = 0 => mishaps = 0)
    BY <1>1, <2>2
  <2>4. InHand(r) = rotator[r].pending
    BY <2>2 DEF InHand, Ahead
  <2>5. Alone => envelope.cert = rotator[r].new
    BY <2>2 DEF Alone, Retiring
  <2>6. Calm' => \/ rotator[r].pending = {} /\ UNCHANGED envelope
                 \/ envelope' = [cert |-> rotator[r].new, pending |-> rotator[r].pending]
    BY <1>1, <1>4 DEF PersistPending, Mishap, Calm
  <2>7. Calm' /\ Alone =>
           /\ envelope'.cert = envelope.cert
           /\ InHand(r) \subseteq InHand(r)' \cup envelope'.pending \cup revoked' \cup {0}
    BY <2>4, <2>5, <2>6
  <2>8. revoked \subseteq revoked' /\ (disturbed => disturbed')
    BY <1>4, <2>2
  <2> QED BY <2>1, <2>2, <2>3, <2>7, <2>8, RetiringRemembers
<1>5. CASE Retire(r)
  <2>1. PICK done \in SUBSET Outstanding(r) :
          /\ revoked' = revoked \cup done
          /\ rotator' = [rotator EXCEPT ![r].pc = "persist", ![r].pending = Outstanding(r) \ done]
    BY <1>5 DEF Retire
  <2> DEFINE x == [rotator[r] EXCEPT !.pc = "persist", !.pending = Outstanding(r) \ done]
  <2>2. Outstanding(r) \subseteq Owed(r) /\ Owed(r) \subseteq Nat
    BY <1>1 DEF Outstanding, Capped, Owed, Rotations, Credentials
  <2>3. /\ x \in Rotations /\ x.pc = "persist" /\ x.new = rotator[r].new
        /\ x.old = rotator[r].old /\ x.seed = rotator[r].seed
        /\ x.pending = Outstanding(r) \ done
    <3>1. Outstanding(r) \ done \in SUBSET Nat
      BY <2>2
    <3> QED BY <1>1, <3>1 DEF Rotations
  <2>4. rotator' = [rotator EXCEPT ![r] = x]
    BY <2>1
  <2> HIDE DEF x
  <2>5. /\ rotator[r].pc = "retire" /\ UNCHANGED <<issued, envelope, mishaps>>
        /\ disturbed' = (disturbed \/ Outstanding(r) # Owed(r))
    BY <1>5 DEF Retire
  <2>6. InHand(r)' = Outstanding(r) \ done
    BY <2>3, <2>4, Moved DEF InHand, Ahead, CertInv
  <2>7. Calm' /\ Alone => InHand(r) = Owed(r) /\ Owed(r) = Outstanding(r)
    <3>1. Alone => rotator[r].swept
      BY <2>5 DEF Alone, Retiring
    <3>2. Calm' => Owed(r) = Outstanding(r)
      BY <2>5 DEF Calm
    <3> QED BY <2>5, <3>1, <3>2 DEF InHand, Ahead, Owed
  <2>8. disturbed => disturbed'
    BY <2>5
  <2>9. Calm' /\ Alone =>
           /\ envelope'.cert = envelope.cert /\ UNCHANGED envelope
           /\ InHand(r) \subseteq InHand(r)' \cup envelope'.pending \cup revoked' \cup {0}
    BY <2>1, <2>5, <2>6, <2>7
  <2>10. mishaps' \in Nat /\ mishaps' = mishaps /\ revoked \subseteq revoked'
    BY <1>1, <2>1, <2>5
  <2> QED BY <2>3, <2>4, <2>5, <2>8, <2>9, <2>10, RetiringRemembers
<1> QED BY <1>2, <1>3, <1>4, <1>5

LEMMA RememberedInit == CertInit => Remembered
BY DEF CertInit, Remembered, Alone, Retiring, NotRotating

LEMMA RememberedStep == CertInv /\ Remembered /\ [CertNext]_certVars => Remembered'
<1> SUFFICES ASSUME CertInv, Remembered, [CertNext]_certVars PROVE Remembered'
  OBVIOUS
<1>1. CASE UNCHANGED <<revoked, issued, envelope, rotator, mishaps, disturbed>>
  <2>1. /\ \A q \in Rotators : (Retiring(q)' <=> Retiring(q)) /\ InHand(q)' = InHand(q)
        /\ Calm' <=> Calm
    BY <1>1 DEF Retiring, InHand, Ahead, Calm
  <2> QED BY <1>1, <2>1 DEF Remembered, Alone, Known
<1>2. CASE ComesDue /\ UNCHANGED disturbed
  BY <1>1, <1>2 DEF ComesDue
<1>3. ASSUME NEW r \in Rotators, Proceed(r), UNCHANGED disturbed PROVE Remembered'
  BY <1>3, PlaceStepRemembers, GenerateRemembers, AheadRemembers, LastStepsRemember DEF Proceed
<1>4. ASSUME NEW r \in Rotators, SaveCredential(r) \/ Retire(r) PROVE Remembered'
  BY <1>4, SaveRemembers, LastStepsRemember
<1> QED BY <1>1, <1>2, <1>3, <1>4 DEF CertNext, certVars

\* For any number of processes that rotate the credential, certificates, failures and
\* crashes: what is on record can be used, and a certificate that other software can
\* still choose is never revoked; and while nothing fails, no rotation overtakes
\* another and no list is cut, none is forgotten (reissue, authenticateMTLS,
\* retireSupersededCertificates, persistPendingRevocations).
THEOREM RotationSound == CertSpec => []CertSound
<1>1. CertInv => EnvelopeUsable /\ RevokedIsGone
  BY DEF CertInv, EnvelopeLive, EnvelopeUsable, Gone, RevokedIsGone, Live
<1>2. Remembered => NoneForgotten
  <2>1. SUFFICES ASSUME Remembered, Calm, \A r \in Rotators : rotator[r].pc = "settled",
                        NEW c \in 1..issued
                 PROVE  c = envelope.cert \/ c \in envelope.pending \/ c \in revoked
    BY DEF NoneForgotten, Calm
  <2>2. Known(c) /\ \A r \in Rotators : InHand(r) = {}
    BY <2>1 DEF Remembered, InHand, Ahead
  <2> QED BY <2>2 DEF Known
<1>3. CertInv /\ Remembered => CertSound
  BY <1>1, <1>2 DEF CertSound
<1> QED BY <1>3, CertInitInv, CertStepInv, RememberedInit, RememberedStep, PTL DEF CertSpec
=============================================================================
