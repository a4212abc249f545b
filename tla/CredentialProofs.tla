-------------------------- MODULE CredentialProofs --------------------------
(***************************************************************************)
(* The credentials of the daemon.  EnrolRefresh: for any number of hosts,  *)
(* faults and enrolments, no wipe rests on outdated evidence.              *)
(* TokenLifecycle: for any number of tokens, web requests and disturbances,*)
(* consumers that respect the gate never see a token on trial, and Vault   *)
(* is not asked again about a token it rejected.                           *)
(***************************************************************************)
EXTENDS TokenLifecycle, EnrolRefresh, SequenceTheorems, TLAPS

-----------------------------------------------------------------------------
(***************************************************************************)
(* Types.                                                                  *)
(***************************************************************************)
LEMMA AbsentType == Absent \in Secrets
BY DEF Absent, Secrets

LEMMA IdleType == Idle \in Jobs /\ Idle.pc = "idle" /\ Idle.got = Absent
BY AbsentType DEF Idle, Jobs, Configs

LEMMA NewManagerType == NewManager \in Managers /\ NewManager.mark = Unmarked
BY DEF NewManager, Managers, Unmarked, Unseen

LEMMA FinishTypes ==
    ASSUME JobTypes, NEW h \in Hosts, Finish(h)
    PROVE  JobTypes'
BY IdleType DEF JobTypes, Finish

LEMMA AdvanceTypes ==
    ASSUME JobTypes, NEW h \in Hosts, job[h].pc # "idle",
           NEW pc \in {"read", "delete", "rejected"}, Advance(h, pc)
    PROVE  JobTypes'
<1>1. [job[h] EXCEPT !.pc = pc] \in Jobs /\ [job[h] EXCEPT !.pc = pc].used = job[h].used
  BY DEF JobTypes, Jobs
<1>2. job' = [job EXCEPT ![h] = [job[h] EXCEPT !.pc = pc]]
  BY DEF Advance, JobTypes
<1> QED BY <1>1, <1>2 DEF JobTypes

LEMMA PutTypes ==
    ASSUME WorldTypes, NEW tok \in Nat, NEW exp \in Expiries, Put(tok, exp)
    PROVE  secret' \in Secrets /\ writes' \in Nat
BY DEF WorldTypes, Put, Secrets

LEMMA RotateTypes ==
    ASSUME WorldTypes, NEW tok \in Nat, Rotate(tok)
    PROVE  issued' \in Nat /\ live' \subseteq 1..issued'
BY DEF WorldTypes, Rotate

LEMMA CoolTypes ==
    ASSUME mgr \in [Hosts -> Managers], NEW h \in Hosts, Cool(h) \/ Calm(h)
    PROVE  mgr' \in [Hosts -> Managers]
<1>1. [mgr[h] EXCEPT !.cool = TRUE] \in Managers /\ [mgr[h] EXCEPT !.cool = FALSE] \in Managers
  BY DEF Managers
<1>2. CASE Cool(h)
  BY <1>1, <1>2 DEF Cool
<1>3. CASE Calm(h)
  BY <1>1, <1>3 DEF Calm
<1> QED BY <1>2, <1>3

LEMMA ForgetTypes ==
    ASSUME mgr \in [Hosts -> Managers], NEW h \in Hosts, Forget(h)
    PROVE  mgr' \in [Hosts -> Managers]
<1>1. [mgr[h] EXCEPT !.mark = Unmarked, !.seen = 0, !.cool = FALSE] \in Managers
  BY DEF Managers, Unmarked
<1> QED BY <1>1 DEF Forget

LEMMA ToldTypes ==
    ASSUME NEW m \in Managers, NEW n \in Nat
    PROVE  [m EXCEPT !.cool = FALSE, !.seen = n, !.told = n] \in Managers
BY DEF Managers

LEMMA MarkTypes ==
    ASSUME NEW m \in Managers, NEW k \in [ver: Nat, made: Nat]
    PROVE  [m EXCEPT !.mark = k] \in Managers
BY DEF Managers

LEMMA ResetTypes ==
    ASSUME NEW m \in Managers, NEW s \in Nat \cup {Unseen}
    PROVE  [m EXCEPT !.mark = Unmarked, !.cool = FALSE, !.seen = s] \in Managers
BY DEF Managers, Unmarked

LEMMA JudgeTypes ==
    ASSUME TypeOK, NEW h \in Hosts, job[h].pc # "idle", Judge(h)
    PROVE  mgr' \in [Hosts -> Managers] /\ JobTypes'
<1>1. mgr' \in [Hosts -> Managers]
  <2> DEFINE hit == Matches(mgr[h].mark, secret)
             m == [mark |-> IF hit THEN mgr[h].mark ELSE Unmarked,
                   seen |-> secret.ver,
                   told |-> IF mgr[h].seen = secret.ver THEN mgr[h].told ELSE secret.ver,
                   cool |-> mgr[h].cool \/ (~hit /\ secret.exp = "broken")]
  <2>1. m \in Managers
    BY DEF TypeOK, WorldTypes, Managers, Secrets, Unmarked
  <2>2. mgr' = [mgr EXCEPT ![h] = m]
    BY DEF Judge
  <2> QED BY <2>1, <2>2 DEF TypeOK
<1>2. JobTypes'
  <2>1. ASSUME NEW pc \in {"wipe", "present"}
        PROVE  [job[h] EXCEPT !.pc = pc, !.got = secret] \in Jobs
               /\ [job[h] EXCEPT !.pc = pc, !.got = secret].used = job[h].used
    BY DEF TypeOK, WorldTypes, JobTypes, Jobs
  <2>2. \/ job' = [job EXCEPT ![h] = [job[h] EXCEPT !.pc = "wipe", !.got = secret]]
        \/ job' = [job EXCEPT ![h] = [job[h] EXCEPT !.pc = "present", !.got = secret]]
        \/ job' = [job EXCEPT ![h] = Idle]
    BY DEF Judge
  <2> QED BY <2>1, <2>2, IdleType DEF TypeOK, JobTypes
<1> QED BY <1>1, <1>2

LEMMA InitTypes == Init => TypeOK
<1> SUFFICES ASSUME Init PROVE TypeOK
  OBVIOUS
<1>1. WorldTypes
  BY BoundAssumption DEF Init, WorldTypes, Secrets, Expiries, Configs
<1> QED BY <1>1, IdleType, NewManagerType DEF Init, TypeOK, JobTypes

LEMMA TickTypes ==
    ASSUME TypeOK, NEW h \in Hosts, TickStart(h) \/ Peek(h) \/ Read(h) \/ Wipe(h) \/ ReadFails(h)
    PROVE  TypeOK'
<1>1. WorldTypes'
  <2>1. UNCHANGED <<secret, live, issued, writes, conf, spurned, wizard>>
    BY DEF TickStart, Peek, Read, Wipe, ReadFails
  <2>2. left' \in Nat
    BY DEF TickStart, Peek, Read, Wipe, ReadFails, Disturb, TypeOK, WorldTypes
  <2> QED BY <2>1, <2>2 DEF TypeOK, WorldTypes
<1>2. mgr' \in [Hosts -> Managers] /\ JobTypes'
  <2>1. CASE TickStart(h)
    <3> DEFINE j == [pc   |-> IF mgr[h].cool THEN "peek" ELSE "read",
                     used |-> conf[h],
                     got  |-> Absent]
    <3>1. j \in Jobs /\ j.used # "none"
      BY <2>1, AbsentType DEF TickStart, TypeOK, WorldTypes, Jobs
    <3>2. job' = [job EXCEPT ![h] = j]
      BY <2>1 DEF TickStart
    <3> HIDE DEF j
    <3> QED BY <2>1, <3>1, <3>2 DEF TickStart, TypeOK, JobTypes
  <2>2. CASE Peek(h)
    <3>1. JobTypes /\ job[h].pc # "idle"
      BY <2>2 DEF Peek, TypeOK
    <3>2. CASE UNCHANGED mgr /\ Finish(h)
      BY <3>1, <3>2, FinishTypes DEF TypeOK
    <3>3. CASE mgr' = [mgr EXCEPT ![h].seen = 0] /\ Finish(h)
      BY <3>1, <3>3, FinishTypes DEF TypeOK, Managers
    <3>4. CASE /\ mgr' = [mgr EXCEPT ![h] = [@ EXCEPT !.seen = secret.ver,
                                                      !.told = secret.ver,
                                                      !.cool = FALSE]]
               /\ Advance(h, "read")
      <4>1. [mgr[h] EXCEPT !.seen = secret.ver, !.told = secret.ver, !.cool = FALSE] \in Managers
        <5>1. mgr[h] \in Managers /\ secret.ver \in Nat
          BY DEF TypeOK, WorldTypes, Secrets
        <5> QED BY <5>1 DEF Managers
      <4>2. mgr' \in [Hosts -> Managers]
        BY <3>4, <4>1 DEF TypeOK
      <4>3. JobTypes'
        BY <3>1, <3>4, AdvanceTypes
      <4> QED BY <4>2, <4>3
    <3> QED BY <2>2, <3>2, <3>3, <3>4 DEF Peek
  <2>3. CASE Read(h)
    <3>1. JobTypes /\ job[h].pc # "idle"
      BY <2>3 DEF Read, TypeOK
    <3>2. CASE secret = Absent
      BY <2>3, <3>1, <3>2, ForgetTypes, FinishTypes DEF Read, TypeOK
    <3>3. CASE secret # Absent
      BY <2>3, <3>1, <3>3, JudgeTypes DEF Read
    <3> QED BY <3>2, <3>3
  <2>4. CASE Wipe(h)
    <3>1. JobTypes /\ job[h].pc # "idle" /\ mgr' = mgr
      BY <2>4 DEF Wipe, TypeOK
    <3>2. Advance(h, "delete") \/ Finish(h)
      BY <2>4 DEF Wipe
    <3> QED BY <3>1, <3>2, AdvanceTypes, FinishTypes DEF TypeOK
  <2>5. CASE ReadFails(h)
    <3>1. JobTypes /\ Finish(h) /\ (Cool(h) \/ UNCHANGED mgr)
      BY <2>5 DEF ReadFails, TypeOK
    <3>2. JobTypes'
      BY <3>1, FinishTypes
    <3>3. mgr' \in [Hosts -> Managers]
      <4>1. CASE Cool(h)
        BY <4>1, CoolTypes DEF TypeOK
      <4>2. CASE UNCHANGED mgr
        BY <4>2 DEF TypeOK
      <4> QED BY <3>1, <4>1, <4>2
    <3> QED BY <3>2, <3>3
  <2> QED BY <2>1, <2>2, <2>3, <2>4, <2>5
<1> QED BY <1>1, <1>2 DEF TypeOK

LEMMA OutcomeTypes ==
    ASSUME TypeOK, NEW h \in Hosts,
           Delete(h) \/ DeleteFails(h) \/ Present(h) \/ PresentFails(h) \/ Arm(h)
    PROVE  TypeOK'
<1> USE DEF WorldTypes
<1>1. JobTypes /\ job[h].pc # "idle" /\ job[h].got \in Secrets /\ job[h].got.tok \in Nat
  <2>1. JobTypes /\ job[h] \in Jobs
    BY DEF TypeOK, JobTypes
  <2>2. job[h].got \in Secrets
    BY <2>1 DEF Jobs
  <2> QED BY <2>1, <2>2 DEF Delete, DeleteFails, Present, PresentFails, Arm, Secrets
<1>2. CASE Delete(h)
  <2>1. JobTypes' /\ mgr' \in [Hosts -> Managers]
    BY <1>1, <1>2, ForgetTypes, FinishTypes DEF Delete, TypeOK
  <2> QED BY <1>2, <2>1, AbsentType DEF Delete, TypeOK
<1>3. CASE DeleteFails(h)
  <2>1. JobTypes' /\ mgr' \in [Hosts -> Managers]
    BY <1>1, <1>3, CoolTypes, FinishTypes DEF DeleteFails, TypeOK
  <2>2. secret' \in Secrets
    BY <1>3, AbsentType DEF DeleteFails, TypeOK
  <2> QED BY <1>3, <2>1, <2>2 DEF DeleteFails, Disturb, TypeOK
<1>4. CASE Present(h)
  <2>1. CASE Accepts(job[h].got.tok, job[h].used)
    <3> DEFINE j == [job[h] EXCEPT !.pc = "write",
                                !.got = [job[h].got EXCEPT !.tok = issued + 1]]
    <3>1. [job[h].got EXCEPT !.tok = issued + 1] \in Secrets
      BY <1>1 DEF TypeOK, Secrets
    <3>2. j \in Jobs /\ j.used = job[h].used
      BY <1>1, <3>1 DEF JobTypes, Jobs
    <3>3. job' = [job EXCEPT ![h] = j] /\ Rotate(job[h].got.tok)
      BY <1>4, <2>1 DEF Present
    <3> HIDE DEF j
    <3>4. JobTypes'
      BY <1>1, <3>2, <3>3 DEF JobTypes
    <3>5. issued' \in Nat /\ live' \subseteq 1..issued'
      BY <1>1, <3>3, RotateTypes DEF TypeOK
    <3> QED BY <1>4, <3>4, <3>5 DEF Present, TypeOK
  <2>2. CASE ~Accepts(job[h].got.tok, job[h].used)
    <3>1. JobTypes'
      BY <1>1, <1>4, <2>2, AdvanceTypes DEF Present
    <3> QED BY <1>4, <2>2, <3>1 DEF Present, TypeOK
  <2> QED BY <2>1, <2>2
<1>5. CASE PresentFails(h)
  <2>1. issued' \in Nat /\ live' \subseteq 1..issued'
    BY <1>1, <1>5, RotateTypes DEF PresentFails, TypeOK
  <2>2. JobTypes' /\ mgr' \in [Hosts -> Managers]
    BY <1>1, <1>5, CoolTypes, FinishTypes DEF PresentFails, TypeOK
  <2> QED BY <1>5, <2>1, <2>2 DEF PresentFails, Disturb, TypeOK
<1>6. CASE Arm(h)
  <2>1. JobTypes'
    BY <1>1, <1>6, FinishTypes DEF Arm
  <2>2. mgr' \in [Hosts -> Managers]
    <3>1. [ver |-> job[h].got.ver, made |-> job[h].got.made] \in [ver: Nat, made: Nat]
      BY <1>1 DEF Secrets
    <3> DEFINE mark == [ver |-> job[h].got.ver, made |-> job[h].got.made]
    <3>2. \/ mgr' = [mgr EXCEPT ![h] = [mgr[h] EXCEPT !.mark = mark]]
          \/ UNCHANGED mgr
      BY <1>6 DEF Arm, TypeOK
    <3>3. mgr[h] \in Managers
      BY DEF TypeOK
    <3>4. [mgr[h] EXCEPT !.mark = mark] \in Managers
      BY <3>1, <3>3, MarkTypes
    <3> HIDE DEF mark
    <3> QED BY <3>2, <3>4 DEF TypeOK
  <2>3. spurned' \in [Hosts -> SUBSET Nat]
    BY <1>1, <1>6 DEF Arm, TypeOK
  <2> QED BY <1>6, <2>1, <2>2, <2>3 DEF Arm, TypeOK
<1> QED BY <1>2, <1>3, <1>4, <1>5, <1>6

LEMMA WriteTypes ==
    ASSUME TypeOK, NEW h \in Hosts, Write(h) \/ WriteFails(h)
    PROVE  TypeOK'
<1> USE DEF WorldTypes
<1>1. JobTypes /\ job[h].got \in Secrets /\ job[h].got.tok \in Nat /\ job[h].got.ver \in Nat
  <2>1. JobTypes /\ job[h] \in Jobs
    BY DEF TypeOK, JobTypes
  <2>2. job[h].got \in Secrets
    BY <2>1 DEF Jobs
  <2> QED BY <2>1, <2>2 DEF Secrets
<1>2. JobTypes'
  BY <1>1, FinishTypes DEF Write, WriteFails
<1>3. secret' \in Secrets /\ writes' \in Nat
  <2>1. UNCHANGED <<secret, writes>> \/ Put(job[h].got.tok, "young")
    BY DEF Write, WriteFails
  <2> QED BY <1>1, <2>1, PutTypes DEF TypeOK, Expiries
<1>4. mgr' \in [Hosts -> Managers]
  <2>0. mgr[h] \in Managers
    BY DEF TypeOK
  <2>1. [mgr[h] EXCEPT !.cool = FALSE, !.seen = job[h].got.ver + 1,
                       !.told = job[h].got.ver + 1] \in Managers
    <3>1. job[h].got.ver + 1 \in Nat
      BY <1>1
    <3> QED BY <2>0, <3>1, ToldTypes
  <2>2. \/ Cool(h) \/ Calm(h)
        \/ mgr' = [mgr EXCEPT ![h] = [@ EXCEPT !.cool = FALSE, !.seen = job[h].got.ver + 1,
                                               !.told = job[h].got.ver + 1]]
    BY DEF Write, WriteFails
  <2> QED BY <2>1, <2>2, CoolTypes DEF TypeOK
<1>5. left' \in Nat /\ UNCHANGED <<live, issued, conf, spurned, wizard>>
  BY DEF Write, WriteFails, Disturb, TypeOK
<1> QED BY <1>2, <1>3, <1>4, <1>5 DEF TypeOK

LEMMA ConfigTypes ==
    ASSUME TypeOK, NEW h \in Hosts, CoolEnds(h) \/ Reload(h) \/ Restart(h)
    PROVE  TypeOK'
<1> USE DEF WorldTypes
<1>1. CASE CoolEnds(h)
  <2>1. mgr' \in [Hosts -> Managers] /\ JobTypes'
    BY <1>1, CoolTypes DEF CoolEnds, TypeOK, JobTypes
  <2> QED BY <1>1, <2>1 DEF CoolEnds, TypeOK
<1>2. CASE Reload(h)
  <2>1. PICK c \in Configs :
          /\ conf' = [conf EXCEPT ![h] = c]
          /\ mgr' = [mgr EXCEPT ![h] =
                      [@ EXCEPT !.mark = Unmarked, !.cool = FALSE,
                                !.seen = IF c = "none" THEN Unseen ELSE mgr[h].seen]]
    BY <1>2 DEF Reload
  <2> DEFINE s == IF c = "none" THEN Unseen ELSE mgr[h].seen
             m == [mgr[h] EXCEPT !.mark = Unmarked, !.cool = FALSE, !.seen = s]
  <2>2. m \in Managers
    <3>1. mgr[h] \in Managers
      BY DEF TypeOK
    <3>2. s \in Nat \cup {Unseen}
      BY <3>1 DEF Managers
    <3> HIDE DEF s
    <3> QED BY <3>1, <3>2, ResetTypes
  <2>3. mgr' \in [Hosts -> Managers] /\ conf' \in [Hosts -> Configs]
    <3>1. mgr' = [mgr EXCEPT ![h] = m]
      BY <2>1
    <3> HIDE DEF m
    <3> QED BY <2>1, <2>2, <3>1 DEF TypeOK
  <2>4. JobTypes'
    <3>1. job' = job /\ JobTypes
      BY <1>2 DEF Reload, TypeOK
    <3> QED BY <3>1 DEF JobTypes
  <2>5. left' \in Nat /\ spurned' \in [Hosts -> SUBSET Nat]
    <3>1. Disturb /\ spurned' = [spurned EXCEPT ![h] = {}]
      BY <1>2 DEF Reload
    <3> QED BY <3>1 DEF Disturb, TypeOK
  <2> QED BY <1>2, <2>3, <2>4, <2>5 DEF Reload, TypeOK
<1>3. CASE Restart(h)
  <2>1. JobTypes'
    BY <1>3, FinishTypes DEF Restart, TypeOK
  <2>2. mgr' \in [Hosts -> Managers]
    BY <1>3, NewManagerType DEF Restart, TypeOK
  <2> QED BY <1>3, <2>1, <2>2 DEF Restart, Disturb, TypeOK
<1> QED BY <1>1, <1>2, <1>3

LEMMA WorldStepTypes ==
    ASSUME TypeOK, Acquire \/ Enrol \/ Age \/ Revoke \/ Tamper
    PROVE  TypeOK'
<1>0. mgr' \in [Hosts -> Managers] /\ JobTypes'
  BY DEF Acquire, Enrol, Age, Revoke, Tamper, TypeOK, JobTypes
<1> USE DEF WorldTypes
<1>1. CASE Acquire
  BY <1>0, <1>1 DEF Acquire, Disturb, TypeOK
<1>2. CASE Enrol
  <2>1. wizard.tok \in Nat
    BY DEF TypeOK
  <2>2. secret' \in Secrets /\ writes' \in Nat
    BY <1>2, <2>1, PutTypes DEF Enrol, TypeOK, Expiries
  <2> QED BY <1>0, <1>2, <2>2 DEF Enrol, TypeOK
<1>3. CASE Age
  BY <1>0, <1>3 DEF Age, Disturb, TypeOK, Secrets, Expiries
<1>4. CASE Revoke
  BY <1>0, <1>4 DEF Revoke, Disturb, TypeOK
<1>5. CASE Tamper
  <2>1. secret.tok \in Nat
    BY DEF TypeOK, Secrets
  <2>2. secret' \in Secrets /\ writes' \in Nat
    BY <1>5, <2>1, PutTypes, AbsentType DEF Tamper, TypeOK, Expiries
  <2> QED BY <1>0, <1>5, <2>2 DEF Tamper, Disturb, TypeOK
<1> QED BY <1>1, <1>2, <1>3, <1>4, <1>5

LEMMA TypeStep == TypeOK /\ [Next]_vars => TypeOK'
<1> SUFFICES ASSUME TypeOK, [Next]_vars PROVE TypeOK'
  OBVIOUS
<1>1. CASE UNCHANGED vars
  BY <1>1 DEF vars, TypeOK, WorldTypes, JobTypes
<1>2. CASE Next
  BY <1>2, TickTypes, OutcomeTypes, WriteTypes, ConfigTypes, WorldStepTypes
  DEF Next, Step, Fault
<1> QED BY <1>1, <1>2

\* Every step keeps the secret, the managers' memory and the ticks in progress
\* well formed; a tick only ever works for an enrolment that was configured.
THEOREM TypeCorrect == Spec => []TypeOK
BY InitTypes, TypeStep, PTL DEF Spec

-----------------------------------------------------------------------------
(***************************************************************************)
(* Evidence: the strengthening that makes ArmedIsDead inductive.           *)
(***************************************************************************)

\* Creation times and tokens come from counters, so what is not yet issued or
\* written cannot be confused with anything a host remembers.
WorldOK ==
    /\ secret.made <= writes
    /\ secret.made = 0 => secret = Absent
    /\ secret.tok <= issued
    /\ wizard.tok <= issued

\* Steps at which a host still rests on the secret it has read.
Holding == {"wipe", "present", "rejected"}

\* A host's mark names a version that is past or dead.
MarkOK(h) ==
    /\ mgr[h].mark.made <= writes
    /\ conf[h] = "good" /\ mgr[h].mark = [ver |-> secret.ver, made |-> secret.made] =>
           secret.tok \notin live

\* The creation time identifies the secret that was read; a rejection under a
\* good configuration means that its token is dead for ever.
HeldOK(h) ==
    job[h].pc \in Holding =>
        /\ 1 <= job[h].got.made /\ job[h].got.made <= writes
        /\ job[h].got.made = secret.made =>
               job[h].got.ver = secret.ver /\ job[h].got.tok = secret.tok
        /\ job[h].pc = "rejected" /\ job[h].used = "good" => job[h].got.tok \notin live
        /\ job[h].pc = "wipe" =>
               mgr[h].mark \in {Unmarked, [ver |-> job[h].got.ver, made |-> job[h].got.made]}

HostOK(h) == job[h].got.tok <= issued /\ MarkOK(h) /\ HeldOK(h)

Evidence == WorldOK /\ \A h \in Hosts : HostOK(h)

\* What every step does to the secret and to the provider's tokens.
Benign ==
    /\ writes <= writes' /\ issued <= issued'
    /\ \A t \in Nat : t <= issued /\ t \in live' => t \in live
    /\ \/ secret'.made = secret.made /\ secret'.ver = secret.ver /\ secret'.tok = secret.tok
       \/ secret'.made = writes + 1
       \/ secret' = Absent

LEMMA Unpack ==
    ASSUME TypeOK, NEW h \in Hosts
    PROVE  /\ secret \in Secrets /\ secret.ver \in Nat /\ secret.made \in Nat /\ secret.tok \in Nat
           /\ issued \in Nat /\ writes \in Nat /\ live \subseteq 1..issued
           /\ wizard.tok \in Nat
           /\ mgr[h] \in Managers /\ mgr[h].mark \in [ver: Nat, made: Nat]
           /\ job[h] \in Jobs /\ job[h].got \in Secrets
           /\ job[h].got.ver \in Nat /\ job[h].got.made \in Nat /\ job[h].got.tok \in Nat
<1>1. mgr[h] \in Managers /\ job[h] \in Jobs
  BY DEF TypeOK, JobTypes
<1>2. mgr[h].mark \in [ver: Nat, made: Nat] /\ job[h].got \in Secrets
  BY <1>1 DEF Managers, Jobs
<1> QED BY <1>1, <1>2 DEF TypeOK, WorldTypes, Secrets

LEMMA PutBenign ==
    ASSUME TypeOK, WorldOK, NEW tok \in Nat, tok <= issued, NEW exp, Put(tok, exp),
           UNCHANGED <<live, issued>>, wizard'.tok <= issued
    PROVE  WorldOK' /\ Benign
BY DEF TypeOK, WorldTypes, WorldOK, Put, Benign, Secrets

LEMMA RotateBenign ==
    ASSUME TypeOK, WorldOK, NEW tok \in Nat, Rotate(tok), UNCHANGED <<secret, writes, wizard>>
    PROVE  WorldOK' /\ Benign
BY DEF TypeOK, WorldTypes, WorldOK, Rotate, Benign, Secrets

LEMMA StillBenign ==
    ASSUME TypeOK, WorldOK, UNCHANGED <<live, issued, writes, wizard>>, secret' \in {secret, Absent}
    PROVE  WorldOK' /\ Benign
BY DEF TypeOK, WorldTypes, WorldOK, Benign, Secrets, Absent

\* A host keeps its evidence through any benign step that leaves what it holds,
\* its configuration and its mark alone, drops them, or moves it on.
LEMMA HostFrame ==
    ASSUME TypeOK, TypeOK', WorldOK, Benign, NEW g \in Hosts, HostOK(g),
           mgr'[g].mark = Unmarked \/ (mgr'[g].mark = mgr[g].mark /\ conf'[g] = conf[g]),
           job'[g] = job[g] \/ (job'[g].pc \notin Holding /\ job'[g].got.tok <= issued')
    PROVE  HostOK(g)'
<1>1. job'[g].got.tok <= issued'
  BY Unpack DEF HostOK, Benign, TypeOK, WorldTypes
<1>2. MarkOK(g)'
  BY Unpack DEF HostOK, MarkOK, Benign, TypeOK, WorldTypes, WorldOK, Unmarked, Absent, Secrets
<1>3. HeldOK(g)'
  BY Unpack DEF HostOK, HeldOK, Benign, TypeOK, WorldTypes, WorldOK, Unmarked, Absent, Secrets
<1> QED BY <1>1, <1>2, <1>3 DEF HostOK

LEMMA CoolMark ==
    ASSUME TypeOK, NEW h \in Hosts, Cool(h) \/ Calm(h), NEW g \in Hosts
    PROVE  mgr'[g].mark = mgr[g].mark
<1>1. mgr[h] \in Managers /\ mgr \in [Hosts -> Managers]
  BY DEF TypeOK
<1>2. CASE Cool(h)
  BY <1>1, <1>2 DEF Cool, Managers
<1>3. CASE Calm(h)
  BY <1>1, <1>3 DEF Calm, Managers
<1> QED BY <1>2, <1>3

LEMMA FinishJob ==
    ASSUME TypeOK, TypeOK', NEW h \in Hosts, Finish(h)
    PROVE  /\ \A g \in Hosts \ {h} : job'[g] = job[g]
           /\ job'[h].pc \notin Holding /\ job'[h].got.tok <= issued'
<1>1. job'[h] = Idle /\ \A g \in Hosts \ {h} : job'[g] = job[g]
  BY DEF Finish, TypeOK, JobTypes
<1> QED BY <1>1, IdleType DEF Holding, Absent, TypeOK, WorldTypes

\* The steps that change neither the secret, the provider nor the configuration.
LEMMA TickEvidence ==
    ASSUME TypeOK, TypeOK', Evidence, NEW h \in Hosts,
           TickStart(h) \/ Peek(h) \/ Wipe(h) \/ ReadFails(h) \/ CoolEnds(h)
    PROVE  Evidence'
<1>1. WorldOK' /\ Benign
  BY StillBenign DEF TickStart, Peek, Wipe, ReadFails, CoolEnds, Evidence
<1>2. conf' = conf /\ \A g \in Hosts : mgr'[g].mark = mgr[g].mark
  <2>1. conf' = conf
    BY DEF TickStart, Peek, Wipe, ReadFails, CoolEnds
  <2>2. ASSUME NEW g \in Hosts PROVE mgr'[g].mark = mgr[g].mark
    <3>1. mgr[h] \in Managers /\ mgr[g] \in Managers
      BY Unpack
    <3>2. \/ mgr' = mgr \/ Cool(h) \/ Calm(h)
          \/ mgr' = [mgr EXCEPT ![h].seen = 0]
          \/ mgr' = [mgr EXCEPT ![h] = [@ EXCEPT !.seen = secret.ver, !.told = secret.ver,
                                                 !.cool = FALSE]]
      BY DEF TickStart, Peek, Wipe, ReadFails, CoolEnds
    <3>3. CASE mgr' = mgr
      BY <3>3
    <3>4. CASE Cool(h) \/ Calm(h)
      BY <3>4, CoolMark
    <3>5. CASE mgr' = [mgr EXCEPT ![h].seen = 0]
      BY <3>1, <3>5 DEF TypeOK, Managers
    <3>6. CASE mgr' = [mgr EXCEPT ![h] = [@ EXCEPT !.seen = secret.ver, !.told = secret.ver,
                                                   !.cool = FALSE]]
      BY <3>1, <3>6 DEF TypeOK, Managers
    <3> QED BY <3>2, <3>3, <3>4, <3>5, <3>6
  <2> QED BY <2>1, <2>2
<1>3. ASSUME NEW g \in Hosts
      PROVE  job'[g] = job[g] \/ (job'[g].pc \notin Holding /\ job'[g].got.tok <= issued')
  <2>1. \/ job' = job \/ Finish(h) \/ Advance(h, "read") \/ Advance(h, "delete")
        \/ job' = [job EXCEPT ![h] = [pc   |-> IF mgr[h].cool THEN "peek" ELSE "read",
                                      used |-> conf[h], got  |-> Absent]]
    BY DEF TickStart, Peek, Wipe, ReadFails, CoolEnds
  <2>2. job[h].got.tok <= issued /\ issued' = issued /\ job[h] \in Jobs /\ issued \in Nat
    BY Unpack DEF TickStart, Peek, Wipe, ReadFails, CoolEnds, Evidence, HostOK
  <2> QED BY <2>1, <2>2, IdleType DEF Finish, Advance, Holding, TypeOK, JobTypes, Jobs, Absent
<1> QED BY <1>1, <1>2, <1>3, HostFrame DEF Evidence

\* A step of h, or of the world, that ends what h held: all hosts are framed.
LEMMA EndFrame ==
    ASSUME TypeOK, TypeOK', Evidence, WorldOK', Benign, NEW h \in Hosts,
           \A g \in Hosts \ {h} :
               mgr'[g].mark = mgr[g].mark /\ conf'[g] = conf[g] /\ job'[g] = job[g],
           mgr'[h].mark = Unmarked \/ (mgr'[h].mark = mgr[h].mark /\ conf'[h] = conf[h]),
           job'[h] = job[h] \/ (job'[h].pc \notin Holding /\ job'[h].got.tok <= issued')
    PROVE  Evidence'
<1>1. ASSUME NEW g \in Hosts PROVE HostOK(g)'
  <2>1. CASE g = h
    BY <2>1, HostFrame DEF Evidence
  <2>2. CASE g # h
    BY <2>2, HostFrame DEF Evidence
  <2> QED BY <2>1, <2>2
<1> QED BY <1>1 DEF Evidence

\* The same when what h does next is argued separately.
LEMMA OtherFrame ==
    ASSUME TypeOK, TypeOK', Evidence, WorldOK', Benign, NEW h \in Hosts,
           \A g \in Hosts \ {h} :
               mgr'[g].mark = mgr[g].mark /\ conf'[g] = conf[g] /\ job'[g] = job[g],
           HostOK(h)'
    PROVE  Evidence'
<1>1. ASSUME NEW g \in Hosts \ {h} PROVE HostOK(g)'
  BY HostFrame DEF Evidence
<1> QED BY <1>1 DEF Evidence

LEMMA ReadEvidence ==
    ASSUME TypeOK, TypeOK', Evidence, NEW h \in Hosts, Read(h)
    PROVE  Evidence'
<1>1. WorldOK' /\ Benign /\ conf' = conf
  BY StillBenign DEF Read, Evidence
<1>2. CASE secret = Absent
  <2>1. Forget(h) /\ Finish(h)
    BY <1>2 DEF Read
  <2>2. mgr'[h].mark = Unmarked /\ job'[h] = Idle
    BY <2>1, Unpack DEF Forget, Finish, TypeOK, JobTypes, Managers
  <2>3. job'[h].pc \notin Holding /\ job'[h].got.tok <= issued'
    BY <2>2, IdleType DEF Holding, Absent, TypeOK, WorldTypes
  <2>4. \A g \in Hosts \ {h} : mgr'[g].mark = mgr[g].mark /\ job'[g] = job[g]
    BY <2>1 DEF Forget, Finish, TypeOK, JobTypes
  <2> QED BY <1>1, <2>2, <2>3, <2>4, EndFrame
<1>3. CASE secret # Absent
  <2>1. Judge(h) /\ UNCHANGED <<secret, live, issued, writes, conf>>
    BY <1>3 DEF Read
  <2>2. \A g \in Hosts \ {h} : mgr'[g].mark = mgr[g].mark /\ job'[g] = job[g]
    BY <2>1 DEF Judge, TypeOK, JobTypes
  <2> DEFINE hit == Matches(mgr[h].mark, secret)
  <2>3. mgr'[h].mark = IF hit THEN mgr[h].mark ELSE Unmarked
    BY <2>1 DEF Judge, TypeOK
  <2>4. \/ hit /\ job'[h] = [job[h] EXCEPT !.pc = "wipe", !.got = secret]
        \/ ~hit /\ job'[h] = [job[h] EXCEPT !.pc = "present", !.got = secret]
        \/ job'[h] = Idle
    BY <2>1 DEF Judge, TypeOK, JobTypes
  <2>5. MarkOK(h)'
    BY <2>1, <2>3, Unpack DEF MarkOK, Evidence, HostOK, WorldOK, Unmarked, TypeOK, WorldTypes, Absent
  <2>6. 1 <= secret.made /\ secret.made <= writes
    BY <1>3, Unpack DEF Evidence, WorldOK
  <2>7. hit => mgr[h].mark = [ver |-> secret.ver, made |-> secret.made]
    BY Unpack DEF Matches
  <2>8. job'[h].got.tok <= issued' /\ HeldOK(h)'
    <3>1. CASE hit /\ job'[h] = [job[h] EXCEPT !.pc = "wipe", !.got = secret]
      <4>1. job'[h].pc = "wipe" /\ job'[h].got = secret
        BY <3>1, Unpack DEF Jobs
      <4> QED BY <2>1, <2>3, <2>6, <2>7, <3>1, <4>1 DEF HeldOK, Evidence, WorldOK
    <3>2. CASE job'[h] = [job[h] EXCEPT !.pc = "present", !.got = secret]
      <4>1. job'[h].pc = "present" /\ job'[h].got = secret
        BY <3>2, Unpack DEF Jobs
      <4> QED BY <2>1, <2>6, <4>1 DEF HeldOK, Evidence, WorldOK
    <3>3. CASE job'[h] = Idle
      BY <2>1, <3>3, IdleType, Unpack DEF HeldOK, Holding, Absent
    <3> QED BY <2>4, <3>1, <3>2, <3>3
  <2> QED BY <1>1, <2>2, <2>5, <2>8, OtherFrame DEF HostOK
<1> QED BY <1>2, <1>3

LEMMA DeleteEvidence ==
    ASSUME TypeOK, TypeOK', Evidence, NEW h \in Hosts, Delete(h) \/ DeleteFails(h)
    PROVE  Evidence'
<1>1. WorldOK' /\ Benign /\ conf' = conf
  BY StillBenign DEF Delete, DeleteFails, Evidence
<1>2. Finish(h) /\ (Forget(h) \/ Cool(h))
  BY DEF Delete, DeleteFails
<1>3. CASE Forget(h)
  <2>1. mgr'[h].mark = Unmarked /\ \A g \in Hosts \ {h} : mgr'[g].mark = mgr[g].mark
    BY <1>3, Unpack DEF Forget, TypeOK, Managers
  <2> QED BY <1>1, <1>2, <2>1, FinishJob, EndFrame
<1>4. CASE Cool(h)
  <2>1. \A g \in Hosts : mgr'[g].mark = mgr[g].mark
    BY <1>4, CoolMark
  <2> QED BY <1>1, <1>2, <2>1, FinishJob, EndFrame
<1> QED BY <1>2, <1>3, <1>4

LEMMA PresentEvidence ==
    ASSUME TypeOK, TypeOK', Evidence, NEW h \in Hosts, Present(h) \/ PresentFails(h)
    PROVE  Evidence'
<1>0. UNCHANGED <<secret, writes, conf, wizard>> /\ job[h].got.tok \in Nat
  BY Unpack DEF Present, PresentFails
<1>1. WorldOK' /\ Benign
  <2>1. UNCHANGED <<live, issued>> \/ Rotate(job[h].got.tok)
    BY DEF Present, PresentFails
  <2>2. CASE UNCHANGED <<live, issued>>
    BY <1>0, <2>2, StillBenign DEF Evidence
  <2>3. CASE Rotate(job[h].got.tok)
    BY <1>0, <2>3, RotateBenign DEF Evidence
  <2> QED BY <2>1, <2>2, <2>3
<1>2. CASE PresentFails(h)
  <2>1. Finish(h) /\ Cool(h)
    BY <1>2 DEF PresentFails
  <2>2. \A g \in Hosts : mgr'[g].mark = mgr[g].mark
    BY <2>1, CoolMark
  <2> QED BY <1>0, <1>1, <2>1, <2>2, FinishJob, EndFrame
<1>3. CASE Present(h) /\ Accepts(job[h].got.tok, job[h].used)
  <2> DEFINE j == [job[h] EXCEPT !.pc = "write",
                                 !.got = [job[h].got EXCEPT !.tok = issued + 1]]
  <2>1. job' = [job EXCEPT ![h] = j] /\ issued' = issued + 1 /\ mgr' = mgr
    BY <1>3 DEF Present, Rotate
  <2>2. j.pc = "write" /\ j.got.tok = issued + 1
    BY Unpack DEF Jobs, Secrets
  <2> HIDE DEF j
  <2>3. job'[h] = j /\ \A g \in Hosts \ {h} : job'[g] = job[g]
    BY <2>1 DEF TypeOK, JobTypes
  <2>4. job'[h].pc \notin Holding /\ job'[h].got.tok <= issued'
    BY <2>1, <2>2, <2>3, Unpack DEF Holding
  <2> QED BY <1>0, <1>1, <2>1, <2>3, <2>4, EndFrame
<1>4. CASE Present(h) /\ ~Accepts(job[h].got.tok, job[h].used)
  <2>1. Advance(h, "rejected") /\ UNCHANGED <<live, issued>> /\ mgr' = mgr /\ job[h].pc = "present"
    BY <1>4 DEF Present
  <2>2. /\ \A g \in Hosts \ {h} : job'[g] = job[g]
        /\ job'[h].pc = "rejected" /\ job'[h].got = job[h].got /\ job'[h].used = job[h].used
    BY <2>1, Unpack DEF Advance, TypeOK, JobTypes, Jobs
  <2>3. job[h].used = "good" => job[h].got.tok \notin live
    BY <1>4 DEF Accepts
  <2>4. HostOK(h)'
    BY <1>0, <2>1, <2>2, <2>3 DEF Evidence, HostOK, MarkOK, HeldOK, Holding
  <2> QED BY <1>0, <1>1, <2>1, <2>2, <2>4, OtherFrame
<1> QED BY <1>2, <1>3, <1>4

LEMMA ArmEvidence ==
    ASSUME TypeOK, TypeOK', Evidence, NEW h \in Hosts, Arm(h)
    PROVE  Evidence'
<1>1. WorldOK' /\ Benign /\ UNCHANGED <<secret, live, issued, writes, conf>> /\ Finish(h)
  BY StillBenign DEF Arm, Evidence
<1>2. CASE conf[h] # job[h].used
  <2>1. mgr' = mgr
    BY <1>2 DEF Arm
  <2> QED BY <1>1, <2>1, FinishJob, EndFrame
<1>3. CASE conf[h] = job[h].used
  <2> DEFINE mark == [ver |-> job[h].got.ver, made |-> job[h].got.made]
  <2>1. mgr' = [mgr EXCEPT ![h] = [mgr[h] EXCEPT !.mark = mark]]
    BY <1>3 DEF Arm, TypeOK
  <2>2. mgr'[h].mark = mark /\ \A g \in Hosts \ {h} : mgr'[g].mark = mgr[g].mark
    BY <2>1, Unpack DEF TypeOK, Managers
  <2>3. HeldOK(h) /\ job[h].pc = "rejected"
    BY DEF Arm, Evidence, HostOK
  <2>4. MarkOK(h)'
    BY <1>1, <1>3, <2>2, <2>3 DEF MarkOK, HeldOK, Holding
  <2>5. HostOK(h)'
    BY <1>1, <2>4, FinishJob DEF HostOK, HeldOK
  <2> QED BY <1>1, <2>2, <2>5, FinishJob, OtherFrame
<1> QED BY <1>2, <1>3

LEMMA WriteEvidence ==
    ASSUME TypeOK, TypeOK', Evidence, NEW h \in Hosts, Write(h) \/ WriteFails(h)
    PROVE  Evidence'
<1>0. job[h].got.tok \in Nat /\ job[h].got.tok <= issued /\ wizard.tok <= issued
  BY Unpack DEF Evidence, WorldOK, HostOK
<1>1. UNCHANGED <<live, issued, conf, wizard>> /\ Finish(h)
  BY DEF Write, WriteFails
<1>2. WorldOK' /\ Benign
  <2>1. UNCHANGED <<secret, writes>> \/ Put(job[h].got.tok, "young")
    BY DEF Write, WriteFails
  <2>2. CASE UNCHANGED <<secret, writes>>
    BY <1>1, <2>2, StillBenign DEF Evidence
  <2>3. CASE Put(job[h].got.tok, "young")
    BY <1>0, <1>1, <2>3, PutBenign DEF Evidence
  <2> QED BY <2>1, <2>2, <2>3
<1>3. ASSUME NEW g \in Hosts PROVE mgr'[g].mark = mgr[g].mark
  <2>1. \/ Cool(h) \/ Calm(h)
        \/ mgr' = [mgr EXCEPT ![h] = [@ EXCEPT !.cool = FALSE, !.seen = job[h].got.ver + 1,
                                               !.told = job[h].got.ver + 1]]
    BY DEF Write, WriteFails
  <2>2. CASE Cool(h) \/ Calm(h)
    BY <2>2, CoolMark
  <2>3. CASE mgr' = [mgr EXCEPT ![h] = [@ EXCEPT !.cool = FALSE, !.seen = job[h].got.ver + 1,
                                                 !.told = job[h].got.ver + 1]]
    BY <2>3, Unpack DEF TypeOK, Managers
  <2> QED BY <2>1, <2>2, <2>3
<1> QED BY <1>1, <1>2, <1>3, FinishJob, EndFrame

LEMMA ConfigEvidence ==
    ASSUME TypeOK, TypeOK', Evidence, NEW h \in Hosts, Reload(h) \/ Restart(h)
    PROVE  Evidence'
<1>1. WorldOK' /\ Benign
  BY StillBenign DEF Reload, Restart, Evidence
<1>2. CASE Reload(h)
  <2>1. PICK c \in Configs :
          /\ conf' = [conf EXCEPT ![h] = c]
          /\ mgr' = [mgr EXCEPT ![h] =
                      [@ EXCEPT !.mark = Unmarked, !.cool = FALSE,
                                !.seen = IF c = "none" THEN Unseen ELSE mgr[h].seen]]
    BY <1>2 DEF Reload
  <2>2. /\ mgr'[h].mark = Unmarked
        /\ \A g \in Hosts \ {h} : mgr'[g].mark = mgr[g].mark /\ conf'[g] = conf[g]
    BY <2>1, Unpack DEF TypeOK, WorldTypes, Managers
  <2>3. job' = job
    BY <1>2 DEF Reload
  <2> QED BY <1>1, <2>2, <2>3, EndFrame
<1>3. CASE Restart(h)
  <2>1. /\ mgr'[h].mark = Unmarked
        /\ \A g \in Hosts \ {h} : mgr'[g].mark = mgr[g].mark /\ conf'[g] = conf[g]
    BY <1>3, NewManagerType DEF Restart, TypeOK
  <2>2. Finish(h)
    BY <1>3 DEF Restart
  <2> QED BY <1>1, <2>1, <2>2, FinishJob, EndFrame
<1> QED BY <1>2, <1>3

LEMMA WorldEvidence ==
    ASSUME TypeOK, TypeOK', Evidence, Acquire \/ Enrol \/ Age \/ Revoke \/ Tamper
    PROVE  Evidence'
<1>1. UNCHANGED <<conf, mgr, job>>
  BY DEF Acquire, Enrol, Age, Revoke, Tamper
<1>2. WorldOK' /\ Benign
  <2>1. CASE Acquire
    BY <2>1 DEF Acquire, Benign, Evidence, WorldOK, TypeOK, WorldTypes, Secrets
  <2>2. CASE Enrol
    BY <2>2, PutBenign DEF Enrol, Evidence, WorldOK, TypeOK, WorldTypes
  <2>3. CASE Age
    BY <2>3 DEF Age, Benign, Evidence, WorldOK, TypeOK, WorldTypes, Secrets, Absent
  <2>4. CASE Revoke
    BY <2>4 DEF Revoke, Benign, Evidence, WorldOK, TypeOK, WorldTypes, Secrets
  <2>5. CASE Tamper
    <3>1. secret.tok \in Nat /\ secret.tok <= issued /\ wizard.tok <= issued
      BY DEF Evidence, WorldOK, TypeOK, WorldTypes, Secrets
    <3> QED BY <2>5, <3>1, PutBenign, StillBenign DEF Tamper, Evidence
  <2> QED BY <2>1, <2>2, <2>3, <2>4, <2>5
<1> QED BY <1>1, <1>2, HostFrame DEF Evidence

LEMMA InitEvidence == Init => Evidence
BY DEF Init, Evidence, WorldOK, HostOK, MarkOK, HeldOK, Holding, NewManager, Idle, Absent, Unmarked

LEMMA EvidenceStep == TypeOK /\ TypeOK' /\ Evidence /\ [Next]_vars => Evidence'
<1> SUFFICES ASSUME TypeOK, TypeOK', Evidence, [Next]_vars PROVE Evidence'
  OBVIOUS
<1>1. CASE UNCHANGED vars
  BY <1>1 DEF vars, Evidence, WorldOK, HostOK, MarkOK, HeldOK
<1>2. CASE Next
  BY <1>2, TickEvidence, ReadEvidence, DeleteEvidence, PresentEvidence, ArmEvidence,
     WriteEvidence, ConfigEvidence, WorldEvidence
  DEF Next, Step, Fault
<1> QED BY <1>1, <1>2

LEMMA EvidenceHolds == Spec => []Evidence
<1>1. Spec => []TypeOK
  BY TypeCorrect
<1> QED BY <1>1, InitEvidence, EvidenceStep, PTL DEF Spec

\* Whatever any host has marked as rejected cannot be rotated by anybody, for
\* any number of hosts sharing the secret and any faults, edits and reloads.
THEOREM MarksAreDead == Spec => []ArmedIsDead
<1>1. Evidence => ArmedIsDead
  BY DEF Evidence, HostOK, MarkOK, ArmedIsDead
<1> QED BY <1>1, EvidenceHolds, PTL

\* No host decides to delete a secret that it has read and that could still be
\* rotated under its configuration.
THEOREM WipesSpare == Spec => WipeSpares
<1>1. TypeOK /\ Evidence /\ [Next]_vars =>
        [\A h \in Hosts :
            (job[h].pc = "wipe" /\ job'[h].pc = "delete" /\ conf[h] = "good"
                /\ secret.made = job[h].got.made) => secret.tok \notin live]_vars
  <2> SUFFICES ASSUME TypeOK, Evidence, Next, NEW h \in Hosts,
                      job[h].pc = "wipe", job'[h].pc = "delete", conf[h] = "good",
                      secret.made = job[h].got.made
               PROVE  secret.tok \notin live
    BY DEF vars
  <2>1. PICK g \in Hosts : Step(g) \/ CoolEnds(g) \/ Fault(g)
    BY DEF Next, Acquire, Enrol, Age, Revoke, Tamper
  <2>2. g = h /\ Wipe(h)
    <3>1. job[g] \in Jobs /\ job \in [Hosts -> Jobs]
      BY DEF TypeOK, JobTypes
    <3>2. CASE \/ Delete(g) \/ Arm(g) \/ Write(g) \/ DeleteFails(g) \/ PresentFails(g)
               \/ WriteFails(g) \/ ReadFails(g) \/ Restart(g)
      <4>1. Finish(g)
        BY <3>2 DEF Delete, Arm, Write, DeleteFails, PresentFails, WriteFails, ReadFails, Restart
      <4> QED BY <3>1, <4>1, IdleType DEF Finish
    <3>3. CASE CoolEnds(g) \/ Reload(g)
      BY <3>3 DEF CoolEnds, Reload
    <3>4. CASE TickStart(g)
      BY <3>1, <3>4 DEF TickStart
    <3>5. CASE Peek(g)
      BY <3>1, <3>5, IdleType DEF Peek, Finish, Advance, Jobs
    <3>6. CASE Read(g)
      <4>1. \/ job' = [job EXCEPT ![g] = Idle]
            \/ job' = [job EXCEPT ![g] = [job[g] EXCEPT !.pc = "wipe", !.got = secret]]
            \/ job' = [job EXCEPT ![g] = [job[g] EXCEPT !.pc = "present", !.got = secret]]
        BY <3>6 DEF Read, Finish, Judge
      <4> QED BY <3>1, <4>1, IdleType DEF Jobs
    <3>7. CASE Present(g)
      <4>1. job[g].pc = "present"
        BY <3>7 DEF Present
      <4>2. \/ job' = [job EXCEPT ![g] = [job[g] EXCEPT !.pc = "write",
                                          !.got = [job[g].got EXCEPT !.tok = issued + 1]]]
            \/ Advance(g, "rejected")
        BY <3>7 DEF Present
      <4> QED BY <3>1, <4>1, <4>2 DEF Advance
    <3>8. CASE Wipe(g)
      BY <3>1, <3>8, IdleType DEF Wipe, Finish, Advance
    <3> QED BY <2>1, <3>2, <3>3, <3>4, <3>5, <3>6, <3>7, <3>8 DEF Step, Fault
  <2>3. mgr[h].mark # Unmarked
    <3>1. ~Finish(h)
      BY IdleType DEF Finish, TypeOK, JobTypes
    <3> QED BY <2>2, <3>1 DEF Wipe
  <2> QED BY <2>3 DEF Evidence, HostOK, HeldOK, MarkOK, Holding
<1> QED BY <1>1, TypeCorrect, EvidenceHolds, PTL DEF Spec, WipeSpares

\* What RefreshManager relies on, for every number of hosts and disturbances.
THEOREM ManagersSound == Spec => []RefreshSound
<1>1. TypeOK /\ ArmedIsDead => RefreshSound
  BY DEF RefreshSound
<1> QED BY <1>1, TypeCorrect, MarksAreDead, PTL

-----------------------------------------------------------------------------
(***************************************************************************)
(* The shared client's token.  The gate alone is not inductive: a restore  *)
(* is sound because the saved token was vouched for, a trial because the   *)
(* gate closed before it, and no suppressed token is presented because the *)
(* candidates were filtered, are all different and a new login is unseen.  *)
(***************************************************************************)
\* The tokens on the denylist, the candidates left, and every token that the
\* daemon or Vault's other users have.
Suppressed == {denied[i] : i \in 1..Len(denied)}

Candidate == {cands[i] : i \in 1..Len(cands)}

Requested == UNION {{web[h].tok, web[h].prev} : h \in Handlers}

Seen == {cur, held, saved, fileTok, sockTok, EnvToken}
            \cup vetted \cup Suppressed \cup Candidate \cup Requested

Known == vetted \cup {NoToken}

\* A token that Vault has yet to issue is nowhere.
FreshUnseen == Fresh \cap Seen = {}

\* A paste leaves the budget, so an unpasted history has no paste at work.
PasteCounted ==
    /\ budget["paste"] <= Budget["paste"]
    /\ Unpasted => \A h \in Handlers : web[h].step \in {"idle", "write"}

\* The gate is closed from before the first trial until after the last.
TrialsGated ==
    stage \in {"gather", "try", "verdict", "restore", "adopted", "failed"} => flux

\* Vault vouched for the token on the client or, while trials replace that, for
\* the one that is put back after them.
TokenKnown ==
    Unpasted => IF stage \in {"try", "verdict", "restore"} THEN saved \in Known
                ELSE cur \in Known

\* Each candidate is tried once, and none that was rejected before.
Untried ==
    stage \in {"try", "verdict"} =>
        /\ Candidate \cap Suppressed = {}
        /\ \A i, j \in 1..Len(cands) : cands[i] = cands[j] => i = j

\* What Vault is about to be asked is not on the denylist.
NotAsked ==
    /\ stage = "lookup" => held \in Tokens
    /\ Unpasted /\ stage \in {"lookup", "verdict"} => cur \notin Suppressed

TokenInv ==
    /\ TokenTypes /\ FreshUnseen /\ PasteCounted /\ TrialsGated /\ TokenKnown
    /\ Untried /\ NotAsked

\* Deny keeps the list within its capacity and adds one token at most.
LEMMA DenyKeeps ==
    ASSUME denied \in Seq(Tokens), Len(denied) <= MaxDenied, NEW t \in Tokens
    PROVE  /\ Deny(t) \in Seq(Tokens) /\ Len(Deny(t)) <= MaxDenied
           /\ \A i \in 1..Len(Deny(t)) : Deny(t)[i] \in Suppressed \cup {t}
<1> DEFINE n == Len(denied)
           at == CHOOSE i \in 1..n : denied[i] = t
           kept == IF IsDenied(t) THEN SubSeq(denied, 1, at - 1) \o SubSeq(denied, at + 1, n)
                   ELSE IF n >= MaxDenied THEN Tail(denied) ELSE denied
<1>1. n \in Nat /\ MaxDenied \in Nat \ {0}
  BY MaxDeniedAssumption
<1>2. Deny(t) = Append(kept, t)
  BY DEF Deny
<1>3. /\ kept \in Seq(Tokens) /\ Len(kept) < MaxDenied
      /\ \A i \in 1..Len(kept) : kept[i] \in Suppressed
  <2>1. CASE IsDenied(t)
    <3>1. at \in 1..n
      BY <2>1 DEF IsDenied
    <3> DEFINE front == SubSeq(denied, 1, at - 1)
               back == SubSeq(denied, at + 1, n)
    <3> HIDE DEF at
    <3>2. /\ front \in Seq(Tokens) /\ Len(front) = at - 1
          /\ \A i \in 1..Len(front) : front[i] = denied[i]
      BY <1>1, <3>1
    <3>3. /\ back \in Seq(Tokens) /\ Len(back) = n - at
          /\ \A i \in 1..Len(back) : back[i] = denied[at + i]
      BY <1>1, <3>1
    <3>4. kept = front \o back
      BY <2>1
    <3> HIDE DEF kept, front, back
    <3>5. /\ kept \in Seq(Tokens) /\ Len(kept) = n - 1
          /\ \A i \in 1..Len(kept) : kept[i] = IF i < at THEN front[i] ELSE back[i - at + 1]
      BY <1>1, <3>1, <3>2, <3>3, <3>4
    <3>6. ASSUME NEW i \in 1..Len(kept) PROVE kept[i] \in Suppressed
      <4>1. CASE i < at
        <5>1. i \in 1..Len(front) /\ i \in 1..n
          BY <1>1, <3>1, <3>2, <3>5, <4>1
        <5> QED
          BY <3>2, <3>5, <4>1, <5>1 DEF Suppressed
      <4>2. CASE ~(i < at)
        <5>1. i - at + 1 \in 1..Len(back) /\ i + 1 \in 1..n /\ at + (i - at + 1) = i + 1
          BY <1>1, <3>1, <3>3, <3>5, <4>2
        <5>2. kept[i] = denied[i + 1]
          BY <3>3, <3>5, <4>2, <5>1
        <5> QED
          BY <5>1, <5>2 DEF Suppressed
      <4> QED
        BY <4>1, <4>2
    <3> QED
      BY <1>1, <3>5, <3>6
  <2>2. CASE ~IsDenied(t) /\ n >= MaxDenied
    <3>1. kept = Tail(denied) /\ denied # <<>>
      BY <1>1, <2>2
    <3> HIDE DEF kept
    <3>2. kept \in Seq(Tokens) /\ Len(kept) = n - 1 /\ \A i \in 1..Len(kept) : kept[i] = denied[i + 1]
      BY <1>1, <3>1
    <3> QED
      BY <1>1, <3>2 DEF Suppressed
  <2>3. CASE ~IsDenied(t) /\ n < MaxDenied
    <3>1. kept = denied
      BY <1>1, <2>3
    <3> QED
      BY <1>1, <2>3, <3>1 DEF Suppressed
  <2> QED
    <3>1. IsDenied(t) \/ (~IsDenied(t) /\ n >= MaxDenied) \/ (~IsDenied(t) /\ n < MaxDenied)
      BY <1>1
    <3> HIDE DEF kept
    <3> QED
      BY <2>1, <2>2, <2>3, <3>1
<1> HIDE DEF kept
<1> QED
  BY <1>1, <1>2, <1>3

\* At most three tokens, one from each source, all different.
LEMMA SeveralPicked ==
    ASSUME NEW S, NEW p \in Seq(S), NEW q \in Seq(S), NEW r \in Seq(S),
           Len(p) <= 1, Len(q) <= 1, Len(r) <= 1,
           Len(p) = 1 /\ Len(q) = 1 => q[1] # p[1],
           Len(p) = 1 /\ Len(r) = 1 => r[1] # p[1],
           Len(q) = 1 /\ Len(r) = 1 => r[1] # q[1]
    PROVE  /\ p \o q \o r \in Seq(S)
           /\ \A i, j \in 1..Len(p \o q \o r) :
                 (p \o q \o r)[i] = (p \o q \o r)[j] => i = j
<1> DEFINE some == p \o q
           all == some \o r
<1>1. Len(p) \in {0, 1} /\ Len(q) \in {0, 1} /\ Len(r) \in {0, 1}
  <2>1. \A n \in Nat : n <= 1 => n \in {0, 1}
    OBVIOUS
  <2>2. Len(p) \in Nat /\ Len(q) \in Nat /\ Len(r) \in Nat
    BY LenProperties
  <2> QED
    BY <2>1, <2>2
<1>2. /\ some \in Seq(S) /\ Len(some) = Len(p) + Len(q)
      /\ \A i \in 1..Len(some) : some[i] = IF i <= Len(p) THEN p[i] ELSE q[i - Len(p)]
  BY <1>1
<1> HIDE DEF some
<1>3. /\ all \in Seq(S) /\ Len(all) = Len(some) + Len(r)
      /\ \A i \in 1..Len(all) : all[i] = IF i <= Len(some) THEN some[i] ELSE r[i - Len(some)]
  BY <1>1, <1>2
<1> HIDE DEF all
<1>4. \A i \in 1..Len(some) :
          \/ some[i] = p[1] /\ Len(p) = 1 /\ i = 1
          \/ some[i] = q[1] /\ Len(q) = 1 /\ i = Len(p) + 1
  BY <1>1, <1>2
<1>5. \A i \in 1..Len(all) :
          \/ all[i] = p[1] /\ Len(p) = 1 /\ i = 1
          \/ all[i] = q[1] /\ Len(q) = 1 /\ i = Len(p) + 1
          \/ all[i] = r[1] /\ Len(r) = 1 /\ i = Len(some) + 1
  BY <1>1, <1>2, <1>3, <1>4
<1>6. \A i, j \in 1..Len(all) : all[i] = all[j] => i = j
  BY <1>1, <1>2, <1>5
<1> QED
  BY <1>3, <1>6 DEF all, some

\* What tryReload tries: tokens of its three sources, each once, and none that is
\* on the denylist.
LEMMA CandidatesKeep ==
    ASSUME {fileTok, sockTok} \subseteq Maybe
    PROVE  /\ Candidates \in Seq(Tokens)
           /\ \A i \in 1..Len(Candidates) :
                 Candidates[i] \in {fileTok, sockTok, EnvToken} \ Suppressed
           /\ \A i, j \in 1..Len(Candidates) : Candidates[i] = Candidates[j] => i = j
<1> DEFINE a == fileTok
           b == EnvToken
           c == IF HasBorrower THEN sockTok ELSE NoToken
           S == {t \in Tokens : t \in {fileTok, sockTok, EnvToken} \ Suppressed}
           Is(t) == t \notin {NoToken, cur} /\ ~IsDenied(t)
           p == IF Is(a) THEN <<a>> ELSE <<>>
           q == IF Is(b) /\ a # b THEN <<b>> ELSE <<>>
           r == IF Is(c) /\ a # c /\ b # c THEN <<c>> ELSE <<>>
<1>1. Candidates = p \o q \o r
  <2> DEFINE s == <<a, b, c>>
             new(i) == /\ s[i] \notin {NoToken, cur}
                       /\ ~IsDenied(s[i])
                       /\ \A j \in 1..(i - 1) : s[j] # s[i]
             pick(i) == IF new(i) THEN <<s[i]>> ELSE <<>>
  <2>1. s[1] = a /\ s[2] = b /\ s[3] = c
    OBVIOUS
  <2>2. 1..(1 - 1) = {} /\ 1..(2 - 1) = {1} /\ 1..(3 - 1) = {1, 2}
    OBVIOUS
  <2>3. Candidates = pick(1) \o pick(2) \o pick(3)
    BY DEF Candidates
  <2> HIDE DEF s, a, b, c
  <2>4. new(1) <=> Is(a)
    BY <2>1, <2>2
  <2>5. new(2) <=> Is(b) /\ a # b
    BY <2>1, <2>2
  <2>6. new(3) <=> Is(c) /\ a # c /\ b # c
    BY <2>1, <2>2
  <2> HIDE DEF new, Is
  <2>7. pick(1) = p /\ pick(2) = q /\ pick(3) = r
    BY <2>1, <2>4, <2>5, <2>6
  <2> QED
    BY <2>3, <2>7
<1>2. \A t \in {a, b, c} : Is(t) => t \in S
  BY EnvAssumption, TokensAssumption DEF Maybe, IsDenied, Suppressed
<1>3. /\ p \in Seq(S) /\ Len(p) <= 1 /\ (Len(p) = 1 => p[1] = a)
      /\ q \in Seq(S) /\ Len(q) <= 1 /\ (Len(q) = 1 => q[1] = b /\ b # a)
      /\ r \in Seq(S) /\ Len(r) <= 1 /\ (Len(r) = 1 => r[1] = c /\ c # a /\ c # b)
  <2> HIDE DEF a, b, c, S, Is
  <2>1. p \in Seq(S) /\ Len(p) <= 1 /\ (Len(p) = 1 => p[1] = a)
    BY <1>2
  <2>2. q \in Seq(S) /\ Len(q) <= 1 /\ (Len(q) = 1 => q[1] = b /\ b # a)
    BY <1>2
  <2>3. r \in Seq(S) /\ Len(r) <= 1 /\ (Len(r) = 1 => r[1] = c /\ c # a /\ c # b)
    BY <1>2
  <2> QED
    BY <2>1, <2>2, <2>3
<1> HIDE DEF p, q, r, S, a, b, c
<1>4. /\ Candidates \in Seq(S)
      /\ \A i, j \in 1..Len(Candidates) : Candidates[i] = Candidates[j] => i = j
  BY <1>1, <1>3, SeveralPicked
<1>5. \A i \in 1..Len(Candidates) : Candidates[i] \in S
  BY <1>4
<1>6. Candidates \in Seq(Tokens)
  BY <1>4 DEF S
<1> QED
  BY <1>4, <1>5, <1>6 DEF S

\* Once the daemon has logged in.
LEMMA TokenStarts == TokenInit => TokenInv
<1> SUFFICES ASSUME TokenInit PROVE TokenInv
  OBVIOUS
<1>1. Tokens # {} /\ Issued(Tokens) \in Tokens /\ Issued(Tokens \ {EnvToken}) \in Tokens
  BY LoginAssumption DEF Issued
<1>2. cur \in Tokens /\ vetted = {cur} /\ cur # NoToken /\ status[cur] = "valid"
  BY <1>1, TokensAssumption DEF TokenInit
<1>3. TokenTypes
  <2>1. /\ setup \in Setups
        /\ status \in [Tokens -> {"new", "valid", "dead"}]
        /\ {cur, fileTok, sockTok, held, saved} \subseteq Maybe
        /\ {needsReauth, flux, reloadCh, rejectCh} \subseteq BOOLEAN
        /\ stage \in Steps /\ err \in Errors /\ cause \in {"reload", "cycle", "renew"}
        /\ stage \notin {"try", "verdict"}
        /\ vetted \subseteq Tokens /\ budget \in [Kinds -> Nat]
    BY <1>2, BudgetAssumption DEF TokenInit, Maybe, Steps, Errors
  <2>2. denied \in Seq(Tokens) /\ Len(denied) <= MaxDenied /\ cands \in Seq(Tokens)
    BY MaxDeniedAssumption DEF TokenInit
  <2>3. web \in [Handlers -> [step: {"idle", "lookup", "back", "write"},
                             tok: Maybe, prev: Maybe]]
    BY DEF TokenInit, NoRequest, Maybe
  <2> QED
    BY <2>1, <2>2, <2>3 DEF TokenTypes
<1>4. FreshUnseen
  <2>1. Suppressed = {} /\ Candidate = {}
    BY DEF TokenInit, Suppressed, Candidate
  <2>2. Requested \subseteq {NoToken}
    BY DEF TokenInit, Requested, NoRequest
  <2>3. Seen \subseteq {cur, NoToken, EnvToken}
    BY <2>1, <2>2, <1>2 DEF TokenInit, Seen
  <2>4. \A t \in Fresh : t \in Tokens /\ t # cur /\ t # EnvToken
    BY <1>2 DEF Fresh, TokenInit
  <2> QED
    BY <2>3, <2>4, TokensAssumption DEF FreshUnseen
<1>5. PasteCounted /\ TrialsGated /\ TokenKnown /\ Untried /\ NotAsked
  <2>1. budget["paste"] <= Budget["paste"]
    BY BudgetAssumption DEF TokenInit, Kinds
  <2>2. \A h \in Handlers : web[h].step = "idle"
    BY DEF TokenInit, NoRequest
  <2>3. stage = "idle" /\ cur \in Known
    BY <1>2 DEF TokenInit, Known
  <2> QED
    BY <2>1, <2>2, <2>3 DEF PasteCounted, TrialsGated, TokenKnown, Untried, NotAsked
<1> QED
  BY <1>3, <1>4, <1>5 DEF TokenInv

\* A step that issues nothing it then shows keeps unissued tokens unseen.
LEMMA FreshStays ==
    ASSUME FreshUnseen, Fresh' \subseteq Fresh,
           \A t \in Seen' : t \in Seen \/ t \notin Fresh'
    PROVE  FreshUnseen'
BY DEF FreshUnseen

\* Steps of the goroutine that ask Vault about nothing and install nothing.
LEMMA QuietKeeps ==
    ASSUME TokenInv,
           UNCHANGED <<setup, world, cands, web, vetted, saved>>,
           denied' = denied \/ denied' = <<>>,
           cur' = cur, held' \in {held, cur, NoToken},
           {needsReauth', flux', reloadCh', rejectCh'} \subseteq BOOLEAN,
           err' \in Errors, cause' \in {"reload", "cycle", "renew"},
           stage' \in {"idle", "check", "lookup", "renew", "settle", "gather"},
           budget' \in [Kinds -> Nat], budget'["paste"] = budget["paste"],
           stage \in {"idle", "check", "lookup", "renew", "settle"},
           stage' = "gather" => flux',
           stage' = "lookup" => held' # NoToken /\ cur \notin Suppressed
    PROVE  TokenInv'
<1> USE DEF world
<1>1. /\ Suppressed' \subseteq Suppressed
      /\ denied' \in Seq(Tokens) /\ Len(denied') <= MaxDenied
  <2>1. denied' = denied => Suppressed' = Suppressed
    BY DEF Suppressed
  <2>2. denied' = <<>> => Suppressed' = {}
    BY DEF Suppressed
  <2>3. <<>> \in Seq(Tokens) /\ Len(<<>>) <= MaxDenied
    BY MaxDeniedAssumption
  <2> QED
    BY <2>1, <2>2, <2>3 DEF TokenInv, TokenTypes
<1>2. Candidate' = Candidate /\ Requested' = Requested /\ Fresh' = Fresh
  BY DEF Candidate, Requested, Fresh
<1>3. TokenTypes'
  BY <1>1 DEF TokenInv, TokenTypes, Maybe, Steps
<1>4. FreshUnseen'
  <2>1. NoToken \notin Fresh'
    BY TokensAssumption DEF Fresh
  <2>2. \A t \in Seen' : t \in Seen \/ t \notin Fresh'
    BY <1>1, <1>2, <2>1 DEF Seen
  <2> QED
    BY <1>2, <2>2, FreshStays DEF TokenInv
<1>5. PasteCounted' /\ TrialsGated'
  BY DEF TokenInv, PasteCounted, TrialsGated, Unpasted
<1>6. TokenKnown' /\ Untried'
  BY DEF TokenInv, TokenKnown, Unpasted, Known, Untried
<1>7. NotAsked'
  BY <1>1, <1>3 DEF TokenTypes, Maybe, NotAsked
<1> QED
  BY <1>3, <1>4, <1>5, <1>6, <1>7 DEF TokenInv

LEMMA SelectKeeps ==
    ASSUME TokenInv, setup' = setup, TakeReload \/ Tick \/ TakeReject
    PROVE  TokenInv'
<1> USE DEF TokenInv, TokenTypes, world, gate, chans
<1>1. CASE TakeReload
  BY <1>1, QuietKeeps DEF TakeReload
<1>2. CASE Tick
  BY <1>2, QuietKeeps DEF Tick
<1>3. CASE TakeReject
  BY <1>3, QuietKeeps DEF TakeReject
<1> QED
  BY <1>1, <1>2, <1>3

LEMMA CheckKeeps ==
    ASSUME TokenInv, setup' = setup, Check
    PROVE  TokenInv'
<1>1. err' \in Errors /\ stage' \in {"lookup", "settle"}
  BY DEF Check, Errors
<1>2. stage' = "lookup" => held' # NoToken /\ cur \notin Suppressed
  BY DEF Check, IsDenied, Suppressed
<1> QED
  BY <1>1, <1>2, QuietKeeps DEF TokenInv, TokenTypes, Check, world, gate, chans

LEMMA RenewKeeps ==
    ASSUME TokenInv, setup' = setup, Renew
    PROVE  TokenInv'
<1>1. err' \in Errors /\ budget' \in [Kinds -> Nat] /\ budget'["paste"] = budget["paste"]
  BY DEF Renew, Spend, Kinds, Errors, TokenInv, TokenTypes
<1> QED
  BY <1>1, QuietKeeps DEF TokenInv, TokenTypes, Renew, world, gate, chans

\* Steps that end in the goroutine's select, logging the client out at most.
LEMMA WaitKeeps ==
    ASSUME TokenInv, Wait,
           UNCHANGED <<setup, world, denied, web, vetted>>,
           cur' \in {cur, NoToken},
           {needsReauth', flux', reloadCh', rejectCh'} \subseteq BOOLEAN,
           budget' \in [Kinds -> Nat], budget'["paste"] = budget["paste"],
           stage \notin {"try", "verdict", "restore"}
    PROVE  TokenInv'
<1> USE DEF world, Wait
<1>1. Suppressed' = Suppressed /\ Requested' = Requested /\ Fresh' = Fresh
  BY DEF Suppressed, Requested, Fresh
<1>2. cands' = <<>> /\ <<>> \in Seq(Tokens) /\ Candidate' = {}
  BY DEF Candidate
<1>3. TokenTypes'
  BY <1>2 DEF TokenInv, TokenTypes, Maybe, Steps, Errors
<1>4. FreshUnseen'
  <2>1. NoToken \notin Fresh'
    BY TokensAssumption DEF Fresh
  <2>2. \A t \in Seen' : t \in Seen \/ t \notin Fresh'
    BY <1>1, <1>2, <2>1 DEF Seen
  <2> QED
    BY <1>1, <2>2, FreshStays DEF TokenInv
<1>5. PasteCounted' /\ TrialsGated' /\ TokenKnown' /\ Untried' /\ NotAsked'
  BY DEF TokenInv, PasteCounted, TrialsGated, Unpasted, TokenKnown, Known,
         Untried, NotAsked
<1> QED
  BY <1>3, <1>4, <1>5 DEF TokenInv

LEMMA SettleKeeps ==
    ASSUME TokenInv, setup' = setup, Settle
    PROVE  TokenInv'
<1> USE DEF TokenInv, TokenTypes, world, gate, chans
<1>1. CASE Healthy
  BY <1>1, WaitKeeps DEF Settle, Healthy
<1>2. CASE Replace("cycle") \/ Replace("renew")
  BY <1>2, QuietKeeps DEF Settle, Replace
<1>3. CASE Wait /\ UNCHANGED <<gate, rejectCh>>
  BY <1>3, WaitKeeps DEF Settle
<1> QED
  BY <1>1, <1>2, <1>3 DEF Settle

LEMMA AdoptedKeeps ==
    ASSUME TokenInv, setup' = setup, Adopted
    PROVE  TokenInv'
<1>1. rejectCh' \in BOOLEAN
  BY DEF Adopted
<1> QED
  BY <1>1, WaitKeeps DEF Adopted, TokenInv, TokenTypes, world

LEMMA GiveUpKeeps ==
    ASSUME TokenInv, setup' = setup, GiveUp
    PROVE  TokenInv'
<1>1. budget' \in [Kinds -> Nat] /\ budget'["paste"] = budget["paste"]
  BY DEF GiveUp, Spend, Kinds, TokenInv, TokenTypes
<1>2. needsReauth' \in BOOLEAN /\ cur' \in {cur, NoToken}
  BY DEF GiveUp
<1> QED
  BY <1>1, <1>2, WaitKeeps DEF GiveUp, TokenInv, TokenTypes, world, chans

\* A rejected lookup notes the token that was read before the request.
LEMMA LookupKeeps ==
    ASSUME TokenInv, setup' = setup, Lookup
    PROVE  TokenInv'
<1> USE DEF world, gate, chans
<1>1. stage' \in {"settle", "renew"} /\ err' \in Errors
  BY DEF Lookup, TokenInv, TokenTypes, Errors
<1>2. budget' \in [Kinds -> Nat] /\ budget'["paste"] = budget["paste"]
  BY DEF Lookup, Spend, Kinds, TokenInv, TokenTypes
<1>3. /\ denied' \in Seq(Tokens) /\ Len(denied') <= MaxDenied
      /\ Suppressed' \subseteq Suppressed \cup {held}
  <2>1. CASE denied' = denied
    BY <2>1 DEF Suppressed, TokenInv, TokenTypes
  <2>2. CASE denied' = Deny(held)
    <3>1. held \in Tokens
      BY DEF Lookup, TokenInv, NotAsked
    <3>2. /\ Deny(held) \in Seq(Tokens) /\ Len(Deny(held)) <= MaxDenied
          /\ \A i \in 1..Len(Deny(held)) : Deny(held)[i] \in Suppressed \cup {held}
      BY <3>1, DenyKeeps DEF TokenInv, TokenTypes
    <3> HIDE DEF Suppressed
    <3>3. Suppressed' = {denied'[i] : i \in 1..Len(denied')}
      BY DEF Suppressed
    <3> QED
      BY <2>2, <3>2, <3>3
  <2> QED
    BY <2>1, <2>2 DEF Lookup
<1>4. vetted' \in {vetted, vetted \cup {cur}} /\ vetted' \subseteq Tokens
  BY DEF Lookup, Accepted, TokenInv, TokenTypes, Maybe
<1>5. Candidate' = Candidate /\ Requested' = Requested /\ Fresh' = Fresh
  BY DEF Lookup, Candidate, Requested, Fresh
<1>6. TokenTypes'
  BY <1>1, <1>2, <1>3, <1>4 DEF Lookup, TokenInv, TokenTypes, Steps
<1>7. FreshUnseen'
  <2>1. Seen' \subseteq Seen
    BY <1>3, <1>4, <1>5 DEF Lookup, Seen
  <2> QED
    BY <1>5, <2>1, FreshStays DEF TokenInv
<1>8. PasteCounted' /\ TrialsGated'
  BY <1>1, <1>2 DEF Lookup, TokenInv, PasteCounted, TrialsGated, Unpasted
<1>9. TokenKnown' /\ Untried' /\ NotAsked'
  BY <1>1, <1>2, <1>4 DEF Lookup, TokenInv, TokenKnown, Unpasted, Known, Untried, NotAsked
<1> QED
  BY <1>6, <1>7, <1>8, <1>9 DEF TokenInv

\* tryReload starts from candidates that Vault has not rejected.
LEMMA GatherKeeps ==
    ASSUME TokenInv, setup' = setup, Gather
    PROVE  TokenInv'
<1> USE DEF world, gate, chans
<1>1. /\ Candidates \in Seq(Tokens)
      /\ \A i \in 1..Len(Candidates) :
            Candidates[i] \in {fileTok, sockTok, EnvToken} \ Suppressed
      /\ \A i, j \in 1..Len(Candidates) : Candidates[i] = Candidates[j] => i = j
  BY CandidatesKeep DEF TokenInv, TokenTypes
<1>2. cands' \in {Candidates, <<>>} /\ stage' = IF cands' = <<>> THEN "failed" ELSE "try"
  BY DEF Gather
<1>3. /\ cands' \in Seq(Tokens)
      /\ \A i \in 1..Len(cands') : cands'[i] \in {fileTok, sockTok, EnvToken} \ Suppressed
      /\ \A i, j \in 1..Len(cands') : cands'[i] = cands'[j] => i = j
  <2>1. CASE cands' = Candidates
    BY <1>1, <2>1
  <2>2. CASE cands' = <<>>
    BY <2>2
  <2> QED
    BY <1>2, <2>1, <2>2
<1>4. Candidate' \subseteq {fileTok, sockTok, EnvToken} \ Suppressed
  BY <1>3 DEF Candidate
<1>5. Suppressed' = Suppressed /\ Requested' = Requested /\ Fresh' = Fresh
  BY DEF Gather, Suppressed, Requested, Fresh
<1>6. TokenTypes'
  BY <1>2, <1>3 DEF Gather, cycle, TokenInv, TokenTypes, Steps
<1>7. FreshUnseen'
  <2>1. Seen' \subseteq Seen
    BY <1>4, <1>5 DEF Gather, Seen
  <2> QED
    BY <1>5, <2>1, FreshStays DEF TokenInv
<1>8. PasteCounted' /\ TrialsGated' /\ TokenKnown' /\ NotAsked'
  BY <1>2 DEF Gather, TokenInv, PasteCounted, TrialsGated, Unpasted, TokenKnown,
              Known, NotAsked
<1>9. Untried'
  BY <1>3, <1>4, <1>5 DEF Untried
<1> QED
  BY <1>6, <1>7, <1>8, <1>9 DEF TokenInv

LEMMA TryKeeps ==
    ASSUME TokenInv, setup' = setup, Try
    PROVE  TokenInv'
<1> USE DEF world, gate, chans
<1>1. /\ cands \in Seq(Tokens) /\ cands # <<>> /\ cur' = cands[1]
      /\ cur' \in Tokens /\ cur' \in Candidate
  BY DEF Try, TokenInv, TokenTypes, Candidate
<1>2. /\ Suppressed' = Suppressed /\ Candidate' = Candidate
      /\ Requested' = Requested /\ Fresh' = Fresh
  BY DEF Try, Suppressed, Candidate, Requested, Fresh
<1>3. TokenTypes'
  BY <1>1 DEF Try, TokenInv, TokenTypes, Steps, Maybe
<1>4. FreshUnseen'
  <2>1. Seen' \subseteq Seen
    BY <1>1, <1>2 DEF Try, Seen
  <2> QED
    BY <1>2, <2>1, FreshStays DEF TokenInv
<1>5. PasteCounted' /\ TrialsGated' /\ TokenKnown'
  BY DEF Try, TokenInv, PasteCounted, TrialsGated, Unpasted, TokenKnown, Known
<1>6. Untried' /\ NotAsked'
  BY <1>1, <1>2 DEF Try, TokenInv, Untried, NotAsked
<1> QED
  BY <1>3, <1>4, <1>5, <1>6 DEF TokenInv

LEMMA RestoreKeeps ==
    ASSUME TokenInv, setup' = setup, Restore
    PROVE  TokenInv'
<1> USE DEF world, gate, chans, Restore
<1>1. /\ Suppressed' = Suppressed /\ Candidate' = Candidate
      /\ Requested' = Requested /\ Fresh' = Fresh
  BY DEF Suppressed, Candidate, Requested, Fresh
<1>2. TokenTypes'
  BY DEF TokenInv, TokenTypes, Steps
<1>3. FreshUnseen'
  <2>1. Seen' \subseteq Seen
    BY <1>1 DEF Seen
  <2> QED
    BY <1>1, <2>1, FreshStays DEF TokenInv
<1>4. PasteCounted' /\ TrialsGated' /\ TokenKnown' /\ Untried' /\ NotAsked'
  BY DEF TokenInv, PasteCounted, TrialsGated, Unpasted, TokenKnown, Known,
         Untried, NotAsked
<1> QED
  BY <1>2, <1>3, <1>4 DEF TokenInv

\* A rejected trial is noted and its successor is another token.
LEMMA VerdictKeeps ==
    ASSUME TokenInv, setup' = setup, Verdict
    PROVE  TokenInv'
<1> USE DEF world, gate, chans
<1>1. /\ cands \in Seq(Tokens) /\ cands # <<>> /\ Head(cands) = cands[1]
      /\ cands[1] \in Tokens /\ cands[1] \in Candidate
      /\ stage = "verdict"
  BY DEF Verdict, TokenInv, TokenTypes, Candidate
<1>2. Requested' = Requested /\ Fresh' = Fresh
  BY DEF Verdict, Requested, Fresh
<1>3. CASE cands' = cands
  <2>1. stage' = "adopted" /\ vetted' = vetted \cup {cur} /\ UNCHANGED <<denied, budget>>
        /\ cur \in Tokens
    <3>1. Tail(cands) # cands
      <4>1. Len(Tail(cands)) = Len(cands) - 1 /\ Len(cands) \in Nat
        BY <1>1
      <4> QED
        BY <4>1
    <3> QED
      BY <1>3, <3>1 DEF Verdict, Accepted, TokenInv, TokenTypes, Maybe
  <2>2. Suppressed' = Suppressed /\ Candidate' = Candidate
    BY <1>3, <2>1 DEF Suppressed, Candidate
  <2>3. TokenTypes'
    BY <1>3, <2>1 DEF Verdict, TokenInv, TokenTypes, Steps
  <2>4. FreshUnseen'
    <3>1. Seen' \subseteq Seen
      BY <1>2, <2>1, <2>2 DEF Verdict, Seen
    <3> QED
      BY <1>2, <3>1, FreshStays DEF TokenInv
  <2>5. PasteCounted' /\ TrialsGated' /\ TokenKnown' /\ Untried' /\ NotAsked'
    BY <2>1 DEF Verdict, TokenInv, PasteCounted, TrialsGated, Unpasted, TokenKnown,
                Known, Untried, NotAsked
  <2> QED
    BY <2>3, <2>4, <2>5 DEF TokenInv
<1>4. CASE cands' = Tail(cands) /\ cands' # cands
  <2>1. /\ cands' \in Seq(Tokens) /\ Len(cands') = Len(cands) - 1 /\ Len(cands) \in Nat
        /\ \A i \in 1..Len(cands') : i + 1 \in 1..Len(cands) /\ cands'[i] = cands[i + 1]
    BY <1>1, <1>4
  <2>2. Candidate' \subseteq Candidate \ {cands[1]}
    <3>1. ASSUME NEW i \in 1..Len(cands') PROVE cands'[i] \in Candidate \ {cands[1]}
      <4>1. i + 1 \in 1..Len(cands) /\ i + 1 # 1 /\ 1 \in 1..Len(cands)
        BY <2>1
      <4>2. cands[i + 1] # cands[1]
        BY <1>1, <4>1 DEF TokenInv, Untried
      <4> QED
        BY <2>1, <4>1, <4>2 DEF Candidate
    <3> HIDE DEF Candidate
    <3>2. Candidate' = {cands'[i] : i \in 1..Len(cands')}
      BY DEF Candidate
    <3> QED
      BY <3>1, <3>2
  <2>3. /\ stage' = IF cands' = <<>> THEN "restore" ELSE "try"
        /\ vetted' = vetted
        /\ denied' = denied \/ denied' = Deny(cands[1])
        /\ budget' = budget \/ Spend("fault")
    BY <1>1, <1>4 DEF Verdict
  <2>4. budget' \in [Kinds -> Nat] /\ budget'["paste"] = budget["paste"]
    BY <2>3 DEF Spend, Kinds, TokenInv, TokenTypes
  <2>5. /\ denied' \in Seq(Tokens) /\ Len(denied') <= MaxDenied
        /\ Suppressed' \subseteq Suppressed \cup {cands[1]}
    <3>1. CASE denied' = denied
      BY <3>1 DEF Suppressed, TokenInv, TokenTypes
    <3>2. CASE denied' = Deny(cands[1])
      <4>1. /\ Deny(cands[1]) \in Seq(Tokens) /\ Len(Deny(cands[1])) <= MaxDenied
            /\ \A i \in 1..Len(Deny(cands[1])) :
                  Deny(cands[1])[i] \in Suppressed \cup {cands[1]}
        BY <1>1, DenyKeeps DEF TokenInv, TokenTypes
      <4> HIDE DEF Suppressed
      <4>2. Suppressed' = {denied'[i] : i \in 1..Len(denied')}
        BY DEF Suppressed
      <4> QED
        BY <3>2, <4>1, <4>2
    <3> QED
      BY <2>3, <3>1, <3>2
  <2>6. TokenTypes'
    BY <2>1, <2>3, <2>4, <2>5 DEF Verdict, TokenInv, TokenTypes, Steps
  <2>7. FreshUnseen'
    <3>1. Seen' \subseteq Seen
      BY <1>1, <1>2, <2>2, <2>3, <2>5 DEF Verdict, Seen
    <3> QED
      BY <1>2, <3>1, FreshStays DEF TokenInv
  <2>8. PasteCounted' /\ TrialsGated' /\ TokenKnown' /\ NotAsked'
    BY <2>3, <2>4 DEF Verdict, TokenInv, PasteCounted, TrialsGated, Unpasted, TokenKnown,
                Known, NotAsked
  <2>9. Untried'
    <3>1. Candidate' \cap Suppressed' = {}
      BY <1>1, <2>2, <2>5 DEF TokenInv, Untried
    <3>2. ASSUME NEW i \in 1..Len(cands'), NEW j \in 1..Len(cands'), cands'[i] = cands'[j]
          PROVE  i = j
      <4>1. i + 1 = j + 1
        BY <1>1, <2>1, <3>2 DEF TokenInv, Untried
      <4> QED
        BY <2>1, <4>1
    <3> QED
      BY <3>1, <3>2 DEF Untried
  <2> QED
    BY <2>6, <2>7, <2>8, <2>9 DEF TokenInv
<1> QED
  BY <1>3, <1>4 DEF Verdict

\* Vault issues a token that it has not issued before.
LEMMA MintIssues ==
    ASSUME status \in [Tokens -> {"new", "valid", "dead"}], NEW t, Mint(t)
    PROVE  /\ t \in Fresh /\ t \in Tokens
           /\ status' \in [Tokens -> {"new", "valid", "dead"}]
           /\ Fresh' = Fresh \ {t}
BY DEF Mint, Issued, Fresh

\* What a token that Vault issues, or has issued, leaves sound wherever it goes.
LEMMA NewsKeep ==
    ASSUME TokenInv,
           UNCHANGED <<setup, denied, cands, saved, held>>,
           NEW t \in Maybe, t \notin Fresh', Fresh' \subseteq Fresh,
           cur' = cur \/ t \notin Suppressed,
           status' \in [Tokens -> {"new", "valid", "dead"}],
           cur' \in {cur, t}, fileTok' \in {fileTok, t}, sockTok' \in {sockTok, t, NoToken},
           vetted' \in {vetted, vetted \cup {t}}, vetted' \subseteq Tokens, cur' \in {cur} \cup vetted',
           {needsReauth', flux', reloadCh', rejectCh'} \subseteq BOOLEAN,
           flux' = flux,
           stage' = stage \/ (stage' = "adopted" /\ flux /\ cur' \in vetted'),
           err' = err, cause' = cause,
           budget' \in [Kinds -> Nat], budget'["paste"] = budget["paste"],
           web' \in [Handlers -> [step: {"idle", "lookup", "back", "write"},
                                  tok: Maybe, prev: Maybe]],
           Requested' \subseteq Requested \cup {t, NoToken},
           \A h \in Handlers : web'[h].step \in {web[h].step, "idle", "write"}
    PROVE  TokenInv'
<1>1. Suppressed' = Suppressed /\ Candidate' = Candidate
  BY DEF Suppressed, Candidate
<1>2. TokenTypes'
  BY DEF TokenInv, TokenTypes, Steps, Maybe
<1>3. FreshUnseen'
  <2>1. NoToken \notin Fresh'
    BY TokensAssumption DEF Fresh
  <2>2. Seen' \subseteq Seen \cup {t, NoToken}
    BY <1>1 DEF Seen
  <2> QED
    BY <2>1, <2>2, FreshStays DEF TokenInv
<1>4. PasteCounted' /\ TrialsGated'
  BY DEF TokenInv, PasteCounted, TrialsGated, Unpasted
<1>5. TokenKnown'
  BY DEF TokenInv, TokenKnown, Known, Unpasted
<1>6. Untried' /\ NotAsked'
  BY <1>1 DEF TokenInv, Untried, NotAsked, Unpasted
<1> QED
  BY <1>2, <1>3, <1>4, <1>5, <1>6 DEF TokenInv

LEMMA RecoverKeeps ==
    ASSUME TokenInv, setup' = setup, TryRecover
    PROVE  TokenInv'
<1> USE DEF gate, chans
<1>1. PICK t \in Tokens : Mint(t) /\ cur' = t /\ vetted' = vetted \cup {t}
  BY DEF TryRecover
<1>2. /\ t \in Fresh /\ Fresh' = Fresh \ {t}
      /\ status' \in [Tokens -> {"new", "valid", "dead"}]
  BY <1>1, MintIssues DEF TokenInv, TokenTypes
<1>3. t \notin Suppressed /\ t \notin Fresh' /\ Fresh' \subseteq Fresh /\ t \in Maybe
  BY <1>2 DEF TokenInv, FreshUnseen, Seen, Maybe
<1>4. Requested' = Requested
  BY DEF TryRecover, Requested
<1>5. stage' = "adopted" /\ flux /\ flux' = flux
  BY DEF TryRecover, TokenInv, TrialsGated
<1> QED
  BY <1>1, <1>2, <1>3, <1>4, <1>5, NewsKeep DEF TryRecover, TokenInv, TokenTypes

\* A web handler moves on with a token, and the one before it.
LEMMA HandlerWrites ==
    ASSUME web \in [Handlers -> [step: {"idle", "lookup", "back", "write"},
                                 tok: Maybe, prev: Maybe]],
           NEW h \in Handlers, NEW step \in {"idle", "lookup", "back", "write"},
           NEW t \in Maybe, NEW prev \in Maybe, Handler(h, step, t, prev)
    PROVE  /\ web' \in [Handlers -> [step: {"idle", "lookup", "back", "write"},
                                     tok: Maybe, prev: Maybe]]
           /\ Requested' \subseteq Requested \cup {t, prev}
           /\ \A k \in Handlers : web'[k].step = IF k = h THEN step ELSE web[k].step
<1> DEFINE new == [step |-> step, tok |-> t, prev |-> prev]
<1>1. /\ new \in [step: {"idle", "lookup", "back", "write"}, tok: Maybe, prev: Maybe]
      /\ new.step = step /\ new.tok = t /\ new.prev = prev
  OBVIOUS
<1>2. web' = [web EXCEPT ![h] = new]
  BY DEF Handler
<1> HIDE DEF new
<1>3. \A k \in Handlers : web'[k] = IF k = h THEN new ELSE web[k]
  BY <1>2
<1>4. ASSUME NEW x \in Requested' PROVE x \in Requested \cup {t, prev}
  <2>1. PICK k \in Handlers : x \in {web'[k].tok, web'[k].prev}
    BY <1>4 DEF Requested
  <2>2. CASE k = h
    BY <1>1, <1>3, <2>1, <2>2
  <2>3. CASE k # h
    <3>1. x \in {web[k].tok, web[k].prev}
      BY <1>3, <2>1, <2>3
    <3> QED
      BY <3>1 DEF Requested
  <2> QED
    BY <2>2, <2>3
<1>5. /\ web' \in [Handlers -> [step: {"idle", "lookup", "back", "write"},
                                tok: Maybe, prev: Maybe]]
      /\ \A k \in Handlers : web'[k].step = IF k = h THEN step ELSE web[k].step
  BY <1>1, <1>2, <1>3
<1> QED
  BY <1>4, <1>5

LEMMA LoginKeeps ==
    ASSUME TokenInv, setup' = setup, NEW h \in Handlers, WebLogin(h) \/ WebWrite(h)
    PROVE  TokenInv'
<1> USE DEF gate, chans, cycle, TokenInv, TokenTypes
<1>1. budget' \in [Kinds -> Nat] /\ budget'["paste"] = budget["paste"]
  BY DEF WebLogin, WebWrite, Spend, Kinds
<1>2. CASE WebLogin(h)
  <2>1. PICK t \in Tokens : /\ Mint(t) /\ cur' = t /\ vetted' = vetted \cup {t}
                            /\ Handler(h, "write", t, NoToken)
    BY <1>2 DEF WebLogin
  <2>2. /\ t \in Fresh /\ Fresh' = Fresh \ {t} /\ t \in Maybe /\ NoToken \in Maybe
        /\ status' \in [Tokens -> {"new", "valid", "dead"}]
    BY <2>1, MintIssues DEF Maybe
  <2>3. t \notin Suppressed
    BY <2>2 DEF FreshUnseen, Seen
  <2>4. /\ web' \in [Handlers -> [step: {"idle", "lookup", "back", "write"},
                                  tok: Maybe, prev: Maybe]]
        /\ Requested' \subseteq Requested \cup {t, NoToken}
        /\ \A k \in Handlers : web'[k].step = IF k = h THEN "write" ELSE web[k].step
    BY <2>1, <2>2, HandlerWrites
  <2>5. /\ fileTok' = fileTok /\ sockTok' = sockTok /\ stage' = stage /\ flux' = flux
        /\ UNCHANGED <<denied, cands, saved, held, err, cause, needsReauth, reloadCh, rejectCh>>
    BY <1>2 DEF WebLogin
  <2>6. \A k \in Handlers : web'[k].step \in {web[k].step, "idle", "write"}
    BY <2>4
  <2> QED
    BY <1>1, <2>1, <2>2, <2>3, <2>4, <2>5, <2>6, NewsKeep
<1>3. CASE WebWrite(h)
  <2> DEFINE t == web[h].tok
  <2>1. t \in Maybe /\ NoToken \in Maybe /\ t \in Requested
    BY DEF Maybe, Requested
  <2>2. t \notin Fresh
    BY <2>1 DEF FreshUnseen, Seen
  <2>3. /\ Handler(h, "idle", NoToken, NoToken)
        /\ fileTok' \in {fileTok, t} /\ reloadCh' \in BOOLEAN
        /\ UNCHANGED <<status, sockTok, cur, denied, gate, rejectCh, cycle, vetted>>
    BY <1>3 DEF WebWrite, Nudged
  <2> HIDE DEF t
  <2>4. /\ web' \in [Handlers -> [step: {"idle", "lookup", "back", "write"},
                                  tok: Maybe, prev: Maybe]]
        /\ Requested' \subseteq Requested \cup {NoToken}
        /\ \A k \in Handlers : web'[k].step = IF k = h THEN "idle" ELSE web[k].step
    BY <2>1, <2>3, HandlerWrites
  <2>5. Fresh' = Fresh
    BY <2>3 DEF Fresh
  <2>6. \A k \in Handlers : web'[k].step \in {web[k].step, "idle", "write"}
    BY <2>4
  <2> QED
    BY <1>1, <2>1, <2>2, <2>3, <2>4, <2>5, <2>6, NewsKeep
<1> QED
  BY <1>2, <1>3

\* A request that has pasted a token: no promise about gate or vetting is left.
LEMMA PasteKeeps ==
    ASSUME TokenInv,
           UNCHANGED <<setup, world, denied, gate, chans, cycle>>,
           cur' \in Maybe, cur' \in Seen \/ cur' \notin Fresh,
           vetted' \in {vetted, vetted \cup {cur}}, vetted' \subseteq Tokens,
           web' \in [Handlers -> [step: {"idle", "lookup", "back", "write"},
                                  tok: Maybe, prev: Maybe]],
           \A x \in Requested' : x \in Seen \/ x \notin Fresh,
           budget' \in [Kinds -> Nat], budget'["paste"] < Budget["paste"]
    PROVE  TokenInv'
<1> USE DEF world, gate, chans, cycle
<1>1. Suppressed' = Suppressed /\ Candidate' = Candidate /\ Fresh' = Fresh
  BY DEF Suppressed, Candidate, Fresh
<1>2. TokenTypes'
  BY DEF TokenInv, TokenTypes
<1>3. FreshUnseen'
  <2>1. \A x \in Seen' : x \in Seen \/ x \notin Fresh'
    BY <1>1 DEF Seen
  <2> QED
    BY <1>1, <2>1, FreshStays DEF TokenInv
<1>4. PasteCounted' /\ ~Unpasted'
  BY BudgetAssumption DEF PasteCounted, Unpasted, Kinds
<1>5. TrialsGated' /\ TokenKnown' /\ Untried' /\ NotAsked'
  BY <1>1, <1>4 DEF TokenInv, TrialsGated, TokenKnown, Untried, NotAsked
<1> QED
  BY <1>2, <1>3, <1>4, <1>5 DEF TokenInv

LEMMA PastesKeep ==
    ASSUME TokenInv, setup' = setup, NEW h \in Handlers,
           WebPaste(h) \/ WebPasteLookup(h) \/ WebPasteBack(h)
    PROVE  TokenInv'
<1> USE DEF TokenInv, TokenTypes
<1>1. budget["paste"] \in Nat /\ Budget["paste"] \in Nat
  BY BudgetAssumption DEF Kinds
<1>2. NoToken \in Maybe /\ NoToken \notin Fresh /\ Tokens \subseteq Maybe
  BY TokensAssumption DEF Maybe, Fresh
<1>3. web[h].tok \in Seen /\ web[h].prev \in Seen /\ cur \in Seen /\ Requested \subseteq Seen
  BY DEF Seen, Requested
<1>4. CASE WebPaste(h)
  <2>1. PICK t \in Tokens \ Fresh : cur' = t /\ Handler(h, "lookup", t, cur)
    BY <1>4 DEF WebPaste
  <2>2. budget' \in [Kinds -> Nat] /\ budget'["paste"] < Budget["paste"]
    BY <1>1, <1>4 DEF WebPaste, Spend, Kinds, PasteCounted
  <2>3. /\ web' \in [Handlers -> [step: {"idle", "lookup", "back", "write"},
                                  tok: Maybe, prev: Maybe]]
        /\ Requested' \subseteq Requested \cup {t, cur}
    BY <1>2, <2>1, HandlerWrites
  <2>4. \A x \in Requested' : x \in Seen \/ x \notin Fresh
    BY <1>3, <2>1, <2>3
  <2> QED
    BY <1>2, <1>4, <2>1, <2>2, <2>3, <2>4, PasteKeeps DEF WebPaste
<1>5. CASE WebPasteLookup(h) \/ WebPasteBack(h)
  <2>1. web[h].step \in {"lookup", "back"}
    BY <1>5 DEF WebPasteLookup, WebPasteBack
  <2>2. budget["paste"] < Budget["paste"]
    BY <1>1, <2>1 DEF PasteCounted, Unpasted
  <2>3. budget' \in [Kinds -> Nat] /\ budget'["paste"] = budget["paste"]
    BY <1>5 DEF WebPasteLookup, WebPasteBack, Spend, Kinds
  <2>4. \/ Handler(h, "write", web[h].tok, web[h].prev)
        \/ Handler(h, "back", web[h].tok, web[h].prev)
        \/ Handler(h, "idle", NoToken, NoToken)
    BY <1>5 DEF WebPasteLookup, WebPasteBack
  <2>5. /\ web' \in [Handlers -> [step: {"idle", "lookup", "back", "write"},
                                  tok: Maybe, prev: Maybe]]
        /\ Requested' \subseteq Requested \cup {web[h].tok, web[h].prev, NoToken}
    <3>1. CASE Handler(h, "write", web[h].tok, web[h].prev)
      BY <3>1, HandlerWrites
    <3>2. CASE Handler(h, "back", web[h].tok, web[h].prev)
      BY <3>2, HandlerWrites
    <3>3. CASE Handler(h, "idle", NoToken, NoToken)
      BY <1>2, <3>3, HandlerWrites
    <3> QED
      BY <2>4, <3>1, <3>2, <3>3
  <2>6. \A x \in Requested' : x \in Seen \/ x \notin Fresh
    BY <1>2, <1>3, <2>5
  <2>7. cur' \in {cur, web[h].prev}
    BY <1>5 DEF WebPasteLookup, WebPasteBack
  <2>8. /\ vetted' \in {vetted, vetted \cup {cur}} /\ vetted' \subseteq Tokens
        /\ UNCHANGED <<world, denied, gate, chans, cycle>>
    BY <1>5 DEF WebPasteLookup, WebPasteBack, Accepted, Maybe
  <2>9. cur' \in Maybe /\ cur' \in Seen
    BY <1>3, <2>7
  <2> QED
    BY <2>2, <2>3, <2>5, <2>6, <2>8, <2>9, PasteKeeps
<1> QED
  BY <1>4, <1>5

\* Suppressions only become fewer.
LEMMA LapseKeeps ==
    ASSUME TokenInv, setup' = setup, Lapse
    PROVE  TokenInv'
<1> USE DEF Lapse, world, gate, chans, cycle
<1>1. /\ denied' \in Seq(Tokens) /\ Len(denied') = Len(denied) - 1
      /\ Len(denied) \in Nat
      /\ \A i \in 1..Len(denied') : i + 1 \in 1..Len(denied) /\ denied'[i] = denied[i + 1]
  BY DEF TokenInv, TokenTypes
<1>2. Suppressed' \subseteq Suppressed
  <2>1. \A i \in 1..Len(denied') : denied'[i] \in Suppressed
    BY <1>1 DEF Suppressed
  <2> HIDE DEF Suppressed
  <2>2. Suppressed' = {denied'[i] : i \in 1..Len(denied')}
    BY DEF Suppressed
  <2> QED
    BY <2>1, <2>2
<1>3. Candidate' = Candidate /\ Requested' = Requested /\ Fresh' = Fresh
  BY DEF Candidate, Requested, Fresh
<1>4. TokenTypes'
  BY <1>1, MaxDeniedAssumption DEF TokenInv, TokenTypes
<1>5. FreshUnseen'
  <2>1. Seen' \subseteq Seen
    BY <1>2, <1>3 DEF Seen
  <2> QED
    BY <1>3, <2>1, FreshStays DEF TokenInv
<1>6. PasteCounted' /\ TrialsGated' /\ TokenKnown'
  BY DEF TokenInv, PasteCounted, TrialsGated, TokenKnown, Known, Unpasted
<1>7. Untried' /\ NotAsked'
  BY <1>2, <1>3 DEF TokenInv, Untried, NotAsked, Unpasted
<1> QED
  BY <1>4, <1>5, <1>6, <1>7 DEF TokenInv

LEMMA WorldKeeps ==
    ASSUME TokenInv, setup' = setup,
           \/ \E t \in Tokens : ExpireToken(t) \/ Unrevoke(t) \/ ExternalLogin(t)
           \/ \E t \in Maybe : SockChange(t)
           \/ NotifyRejected \/ Sighup
    PROVE  TokenInv'
<1> USE DEF TokenInv, TokenTypes, world, gate, chans, cycle
<1>1. budget' \in [Kinds -> Nat] /\ budget'["paste"] = budget["paste"]
  BY DEF ExpireToken, Unrevoke, ExternalLogin, SockChange, NotifyRejected, Sighup,
         Spend, Kinds
<1>2. NoToken \in Maybe /\ NoToken \notin Fresh /\ Tokens \subseteq Maybe
  BY TokensAssumption DEF Maybe, Fresh
<1>3. UNCHANGED web => Requested' = Requested /\ \A h \in Handlers : web'[h].step = web[h].step
  BY DEF Requested
<1>4. ASSUME NEW t \in Tokens, ExpireToken(t) \/ Unrevoke(t) PROVE TokenInv'
  <2>1. Fresh' = Fresh /\ status' \in [Tokens -> {"new", "valid", "dead"}]
    BY <1>4 DEF ExpireToken, Unrevoke, Fresh
  <2> QED
    BY <1>1, <1>2, <1>3, <1>4, <2>1, NewsKeep DEF ExpireToken, Unrevoke
<1>5. ASSUME NEW t \in Tokens, ExternalLogin(t) PROVE TokenInv'
  <2>1. /\ Fresh' = Fresh \ {t} /\ status' \in [Tokens -> {"new", "valid", "dead"}]
        /\ reloadCh' \in BOOLEAN
    BY <1>5, MintIssues DEF ExternalLogin, Nudged
  <2> QED
    BY <1>1, <1>2, <1>3, <1>5, <2>1, NewsKeep DEF ExternalLogin
<1>6. ASSUME NEW t \in Maybe, SockChange(t) PROVE TokenInv'
  <2>1. /\ Fresh' \subseteq Fresh /\ t \notin Fresh'
        /\ status' \in [Tokens -> {"new", "valid", "dead"}]
    <3>1. CASE t \in Fresh
      BY <1>6, <3>1, MintIssues DEF SockChange
    <3>2. CASE t \notin Fresh
      BY <1>6, <3>2 DEF SockChange, Fresh
    <3> QED
      BY <3>1, <3>2
  <2>2. reloadCh' \in BOOLEAN
    BY <1>6 DEF SockChange, Nudged
  <2> QED
    BY <1>1, <1>2, <1>3, <1>6, <2>1, <2>2, NewsKeep DEF SockChange
<1>7. CASE NotifyRejected \/ Sighup
  <2>1. Fresh' = Fresh
    BY <1>7 DEF NotifyRejected, Sighup, Fresh
  <2> QED
    BY <1>1, <1>2, <1>3, <1>7, <2>1, NewsKeep DEF NotifyRejected, Sighup
<1> QED
  BY <1>4, <1>5, <1>6, <1>7

\* Every step keeps the invariant.
LEMMA TokenInvKept == TokenInv /\ [TokenNext]_tokenVars => TokenInv'
<1> SUFFICES ASSUME TokenInv, [TokenNext]_tokenVars PROVE TokenInv'
  OBVIOUS
<1>1. CASE UNCHANGED tokenVars
  <2> USE <1>1 DEF tokenVars, state, world, gate, chans, cycle
  <2>1. /\ Suppressed' = Suppressed /\ Candidate' = Candidate
        /\ Requested' = Requested /\ Fresh' = Fresh
    BY DEF Suppressed, Candidate, Requested, Fresh
  <2>2. Seen' = Seen
    BY <2>1 DEF Seen
  <2>3. TokenTypes'
    BY DEF TokenInv, TokenTypes
  <2>4. FreshUnseen' /\ PasteCounted' /\ TrialsGated'
    BY <2>1, <2>2 DEF TokenInv, FreshUnseen, PasteCounted, Unpasted, TrialsGated
  <2>5. TokenKnown' /\ Untried' /\ NotAsked'
    BY <2>1 DEF TokenInv, TokenKnown, Known, Unpasted, Untried, NotAsked
  <2> QED
    BY <2>3, <2>4, <2>5 DEF TokenInv
<1>2. CASE Manager /\ setup' = setup
  BY <1>2, SelectKeeps, CheckKeeps, LookupKeeps, RenewKeeps, SettleKeeps, GatherKeeps,
     TryKeeps, VerdictKeeps, RestoreKeeps, AdoptedKeeps, RecoverKeeps, GiveUpKeeps
     DEF Manager
<1>3. CASE Lapse /\ setup' = setup
  BY <1>3, LapseKeeps
<1>4. ASSUME NEW h \in Handlers, Web(h), setup' = setup PROVE TokenInv'
  BY <1>4, LoginKeeps, PastesKeep DEF Web, FinishRequest
<1>5. CASE /\ setup' = setup
           /\ \/ \E t \in Tokens : ExpireToken(t) \/ Unrevoke(t) \/ ExternalLogin(t)
              \/ \E t \in Maybe : SockChange(t)
              \/ NotifyRejected \/ Sighup
  BY <1>5, WorldKeeps
<1> QED
  BY <1>1, <1>2, <1>3, <1>4, <1>5 DEF TokenNext

\* Consumers that respect the NeedsReauth gate never use a token on trial
\* (checkAndRenew, tryReload and the web login handlers).
THEOREM TokenStaysSound == TokenSpec => []TokenSound
<1>1. TokenInv => TokenSound
  BY DEF TokenInv, TokenSound, TrialGated, TokenKnown, TrialsGated, Known
<1> QED
  BY <1>1, TokenStarts, TokenInvKept, PTL DEF TokenSpec, TokenSafety

\* The manager sends Vault no lookup for a token on its denylist, although the
\* handlers replace the client's token between its reads and its requests.
THEOREM NeverAskedAgain == TokenSpec => NoRepeatedLookup
<1>1. TokenInv /\ [TokenNext]_tokenVars
        => [Unpasted /\ (Lookup \/ Verdict) => ~IsDenied(cur)]_tokenVars
  <2> SUFFICES ASSUME TokenInv, Unpasted, Lookup \/ Verdict PROVE ~IsDenied(cur)
    OBVIOUS
  <2>1. cur \notin Suppressed
    BY DEF TokenInv, NotAsked, Lookup, Verdict
  <2> QED
    BY <2>1 DEF IsDenied, Suppressed
<1> QED
  BY <1>1, TokenStarts, TokenInvKept, PTL DEF TokenSpec, TokenSafety, NoRepeatedLookup
=============================================================================
