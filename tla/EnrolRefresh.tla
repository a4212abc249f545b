---------------------------- MODULE EnrolRefresh ----------------------------
(***************************************************************************)
(* The refresh managers (internal/enrol/refresh.go) of several daemons     *)
(* that share one enrolment's secret in Vault, the enrolments that write   *)
(* it, and the provider whose refresh tokens are good for one rotation     *)
(* only.  Enrolments of other keys do not interact with this one.          *)
(***************************************************************************)
EXTENDS Integers

CONSTANTS
    Hosts,          \* daemons that share the secret
    MaxDisturbances \* faults, edits, user actions and expiries of a behaviour

ASSUME BoundAssumption == MaxDisturbances \in Nat

VARIABLES
    secret,   \* the KVv2 secret: version, creation time, refresh token, expiry
    live,     \* refresh tokens the provider would accept
    issued,   \* tokens issued so far; a token is its number
    writes,   \* writes so far; the creation time of a version is its number
    conf,     \* how each host has the enrolment configured
    mgr,      \* each RefreshManager: mark, seen, backoff, and the versions it announced
    job,      \* how far each host's tick is, and what it has read
    spurned,  \* tokens each host was told are rejected, since its last reload
    wizard,   \* an enrolment in progress, with the credential it acquired
    left      \* disturbances that remain

vars == <<secret, live, issued, writes, conf, mgr, job, spurned, wizard, left>>

Absent == [ver |-> 0, made |-> 0, tok |-> 0, exp |-> "none"]

Unmarked == [ver |-> 0, made |-> 0]

Unseen == -1

NewManager == [mark |-> Unmarked, seen |-> Unseen, cool |-> FALSE, told |-> Unseen]

Idle == [pc |-> "idle", used |-> "none", got |-> Absent]

Expiries == {"young", "old", "legacy", "broken"}

Secrets == [ver: Nat, made: Nat, tok: Nat, exp: Expiries \cup {"none"}]

Configs == {"good", "bad", "none"}

Managers == [mark: [ver: Nat, made: Nat], seen: Nat \cup {Unseen}, cool: BOOLEAN,
             told: Nat \cup {Unseen}]

Jobs == [pc: {"idle", "peek", "read", "wipe", "delete", "present", "rejected", "write"},
         used: Configs, got: Secrets]

WorldTypes ==
    /\ secret \in Secrets
    /\ issued \in Nat /\ writes \in Nat
    /\ live \subseteq 1..issued
    /\ conf \in [Hosts -> Configs]
    /\ spurned \in [Hosts -> SUBSET Nat]
    /\ wizard \in [pc: {"idle", "holding"}, tok: Nat]
    /\ left \in Nat

\* A tick only ever works for an enrolment that was configured.
JobTypes ==
    /\ job \in [Hosts -> Jobs]
    /\ \A h \in Hosts : job[h].pc # "idle" => job[h].used # "none"

TypeOK ==
    /\ WorldTypes
    /\ mgr \in [Hosts -> Managers]
    /\ JobTypes

Disturb ==
    /\ left > 0
    /\ left' = left - 1

-----------------------------------------------------------------------------
(***************************************************************************)
(* Vault and the provider.                                                 *)
(***************************************************************************)

\* A write makes the next version; deleting the metadata starts again at 1.
Put(tok, exp) ==
    /\ secret' = [ver |-> secret.ver + 1, made |-> writes + 1, tok |-> tok, exp |-> exp]
    /\ writes' = writes + 1

\* The provider rotates a live refresh token, if the client is configured well.
Accepts(tok, used) == used = "good" /\ tok \in live

Rotate(tok) ==
    /\ live' = (live \ {tok}) \cup {issued + 1}
    /\ issued' = issued + 1

-----------------------------------------------------------------------------
(***************************************************************************)
(* One tick of RefreshManager on host h.                                   *)
(***************************************************************************)
Finish(h) == job' = [job EXCEPT ![h] = Idle]

Advance(h, pc) == job' = [job EXCEPT ![h].pc = pc]

Cool(h) == mgr' = [mgr EXCEPT ![h].cool = TRUE]

Calm(h) == mgr' = [mgr EXCEPT ![h].cool = FALSE]

\* Mutant: the tick does not look whether the enrolment is configured.
TickStartAny(h) ==
    /\ job[h].pc = "idle"
    /\ job' = [job EXCEPT ![h] = [pc |-> "read", used |-> conf[h], got |-> Absent]]
    /\ UNCHANGED <<secret, live, issued, writes, conf, mgr, spurned, wizard, left>>

\* The snapshot of the configuration the whole tick works from.
TickStart(h) ==
    /\ job[h].pc = "idle"
    /\ conf[h] # "none"
    /\ job' = [job EXCEPT ![h] = [pc   |-> IF mgr[h].cool THEN "peek" ELSE "read",
                                  used |-> conf[h],
                                  got  |-> Absent]]
    /\ UNCHANGED <<secret, live, issued, writes, conf, mgr, spurned, wizard, left>>

\* changedDuringBackoff
Peek(h) ==
    /\ job[h].pc = "peek"
    /\ IF mgr[h].seen \in {Unseen, secret.ver}
          THEN UNCHANGED mgr /\ Finish(h)
          ELSE IF secret = Absent
                  THEN mgr' = [mgr EXCEPT ![h].seen = 0] /\ Finish(h)
                  ELSE /\ mgr' = [mgr EXCEPT ![h] = [@ EXCEPT !.seen = secret.ver,
                                                              !.told = secret.ver,
                                                              !.cool = FALSE]]
                       /\ Advance(h, "read")
    /\ UNCHANGED <<secret, live, issued, writes, conf, spurned, wizard, left>>

\* The secret is gone: nothing to retry, nothing to wipe, and a secret that
\* appears later is a change.
Forget(h) ==
    mgr' = [mgr EXCEPT ![h] = [@ EXCEPT !.mark = Unmarked, !.seen = 0, !.cool = FALSE]]

\* Mutant: a version number is taken for an identity.
MatchesNumber(mark, s) == mark.ver = s.ver

\* revokedMark.matches
Matches(mark, s) == mark.ver = s.ver /\ mark.made = s.made

\* The version is announced if it is news (a first sighting counts as told: the
\* initial sync rendered it), then the mark decides, then the half-life.
Judge(h) ==
    LET hit == Matches(mgr[h].mark, secret)
    IN  /\ mgr' = [mgr EXCEPT ![h] =
                     [mark |-> IF hit THEN @.mark ELSE Unmarked,
                      seen |-> secret.ver,
                      told |-> IF @.seen = secret.ver THEN @.told ELSE secret.ver,
                      cool |-> @.cool \/ (~hit /\ secret.exp = "broken")]]
        /\ job' = [job EXCEPT ![h] =
                     CASE hit                        -> [@ EXCEPT !.pc = "wipe", !.got = secret]
                       [] ~hit /\ secret.exp = "old" -> [@ EXCEPT !.pc = "present", !.got = secret]
                       [] OTHER                      -> Idle]

\* Mutant: a rejected credential is left for somebody else to clean up.
ReadNoWipe(h) ==
    /\ job[h].pc = "read"
    /\ IF secret = Absent
          THEN Forget(h) /\ Finish(h)
          ELSE IF Matches(mgr[h].mark, secret)
                  THEN Finish(h) /\ UNCHANGED mgr
                  ELSE Judge(h)
    /\ UNCHANGED <<secret, live, issued, writes, conf, spurned, wizard, left>>

\* refreshOne up to its next call.
Read(h) ==
    /\ job[h].pc = "read"
    /\ IF secret = Absent
          THEN Forget(h) /\ Finish(h)
          ELSE Judge(h)
    /\ UNCHANGED <<secret, live, issued, writes, conf, spurned, wizard, left>>

\* stillArmed: a reload since the mark was read takes the wipe back.
Wipe(h) ==
    /\ job[h].pc = "wipe"
    /\ IF mgr[h].mark # Unmarked /\ conf[h] = job[h].used
          THEN Advance(h, "delete")
          ELSE Finish(h)
    /\ UNCHANGED <<secret, live, issued, writes, conf, mgr, spurned, wizard, left>>

\* DeleteKVv2 removes whatever is there.
Delete(h) ==
    /\ job[h].pc = "delete"
    /\ secret' = Absent
    /\ Forget(h)
    /\ Finish(h)
    /\ UNCHANGED <<live, issued, writes, conf, spurned, wizard, left>>

\* Mutant: a failed delete disarms the wipe.
DeleteFailsDisarmed(h) ==
    /\ job[h].pc = "delete"
    /\ Disturb
    /\ mgr' = [mgr EXCEPT ![h] = [@ EXCEPT !.cool = TRUE, !.mark = Unmarked]]
    /\ Finish(h)
    /\ UNCHANGED <<secret, live, issued, writes, conf, spurned, wizard>>

\* The delete's answer is an error, whether or not it was carried out.
DeleteFails(h) ==
    /\ job[h].pc = "delete"
    /\ Disturb
    /\ secret' \in {secret, Absent}
    /\ Cool(h)
    /\ Finish(h)
    /\ UNCHANGED <<live, issued, writes, conf, spurned, wizard>>

\* Engine.Refresh reaches the provider, which rotates or rejects.
Present(h) ==
    /\ job[h].pc = "present"
    /\ IF Accepts(job[h].got.tok, job[h].used)
          THEN /\ Rotate(job[h].got.tok)
               /\ job' = [job EXCEPT ![h] = [@ EXCEPT !.pc = "write",
                                                      !.got = [job[h].got EXCEPT !.tok = issued + 1]]]
          ELSE Advance(h, "rejected") /\ UNCHANGED <<live, issued>>
    /\ UNCHANGED <<secret, writes, conf, mgr, spurned, wizard, left>>

\* The call fails, before or after the provider rotated.
PresentFails(h) ==
    /\ job[h].pc = "present"
    /\ Disturb
    /\ \/ UNCHANGED <<live, issued>>
       \/ Accepts(job[h].got.tok, job[h].used) /\ Rotate(job[h].got.tok)
    /\ Cool(h)
    /\ Finish(h)
    /\ UNCHANGED <<secret, writes, conf, spurned, wizard>>

\* setRevoked
Arm(h) ==
    /\ job[h].pc = "rejected"
    /\ IF conf[h] = job[h].used
          THEN /\ mgr' = [mgr EXCEPT ![h].mark = [ver  |-> job[h].got.ver,
                                                  made |-> job[h].got.made]]
               /\ spurned' = [spurned EXCEPT ![h] = @ \cup {job[h].got.tok}]
          ELSE UNCHANGED <<mgr, spurned>>
    /\ Finish(h)
    /\ UNCHANGED <<secret, live, issued, writes, conf, wizard, left>>

\* Mutant: what this host wrote is recorded and not announced.
WriteSilent(h) ==
    /\ job[h].pc = "write"
    /\ IF secret.ver = job[h].got.ver
          THEN /\ Put(job[h].got.tok, "young")
               /\ mgr' = [mgr EXCEPT ![h] = [@ EXCEPT !.cool = FALSE, !.seen = job[h].got.ver + 1]]
          ELSE Calm(h) /\ UNCHANGED <<secret, writes>>
    /\ Finish(h)
    /\ UNCHANGED <<live, issued, conf, spurned, wizard, left>>

\* WriteKVv2CAS against the version the token came from; a mismatch is taken
\* for a newer version, and the rotated token is dropped.
Write(h) ==
    /\ job[h].pc = "write"
    /\ IF secret.ver = job[h].got.ver
          THEN /\ Put(job[h].got.tok, "young")
               /\ mgr' = [mgr EXCEPT ![h] = [@ EXCEPT !.cool = FALSE,
                                                      !.seen = job[h].got.ver + 1,
                                                      !.told = job[h].got.ver + 1]]
          ELSE Calm(h) /\ UNCHANGED <<secret, writes>>
    /\ Finish(h)
    /\ UNCHANGED <<live, issued, conf, spurned, wizard, left>>

\* The write's answer is an error, whether or not it was carried out.
WriteFails(h) ==
    /\ job[h].pc = "write"
    /\ Disturb
    /\ \/ UNCHANGED <<secret, writes>>
       \/ secret.ver = job[h].got.ver /\ Put(job[h].got.tok, "young")
    /\ Cool(h)
    /\ Finish(h)
    /\ UNCHANGED <<live, issued, conf, spurned, wizard>>

\* A read fails, in a tick or while it looks for a change during backoff.
ReadFails(h) ==
    /\ job[h].pc \in {"peek", "read"}
    /\ Disturb
    /\ IF job[h].pc = "read" THEN Cool(h) ELSE UNCHANGED mgr
    /\ Finish(h)
    /\ UNCHANGED <<secret, live, issued, writes, conf, spurned, wizard>>

\* The backoff deadline passes.
CoolEnds(h) ==
    /\ mgr[h].cool
    /\ Calm(h)
    /\ UNCHANGED <<secret, live, issued, writes, conf, job, spurned, wizard, left>>

\* Mutant: a reload keeps what it had learnt under the old configuration.
ReloadKeeps(h) ==
    /\ Disturb
    /\ \E c \in Configs \ {conf[h]} : conf' = [conf EXCEPT ![h] = c]
    /\ spurned' = [spurned EXCEPT ![h] = {}]
    /\ UNCHANGED <<secret, live, issued, writes, mgr, job, wizard>>

\* UpdateConfig with the enrolment changed, removed or added.
Reload(h) ==
    /\ Disturb
    /\ \E c \in Configs \ {conf[h]} :
        /\ conf' = [conf EXCEPT ![h] = c]
        /\ mgr' = [mgr EXCEPT ![h] =
                    [@ EXCEPT !.mark = Unmarked, !.cool = FALSE,
                              !.seen = IF c = "none" THEN Unseen ELSE mgr[h].seen]]
    /\ spurned' = [spurned EXCEPT ![h] = {}]
    /\ UNCHANGED <<secret, live, issued, writes, job, wizard>>

\* The daemon dies and starts again: marks and a rotation in flight are lost.
Restart(h) ==
    /\ Disturb
    /\ mgr' = [mgr EXCEPT ![h] = NewManager]
    /\ spurned' = [spurned EXCEPT ![h] = {}]
    /\ Finish(h)
    /\ UNCHANGED <<secret, live, issued, writes, conf, wizard>>

-----------------------------------------------------------------------------
(***************************************************************************)
(* Enrolments (Manager.CheckAll and RunOne, EnrolmentRunner.Start): the    *)
(* engine acquires a new grant, which is then written over what is there.  *)
(***************************************************************************)
Acquire ==
    /\ wizard.pc = "idle"
    /\ Disturb
    /\ wizard' = [pc |-> "holding", tok |-> issued + 1]
    /\ live' = live \cup {issued + 1}
    /\ issued' = issued + 1
    /\ UNCHANGED <<secret, writes, conf, mgr, job, spurned>>

Enrol ==
    /\ wizard.pc = "holding"
    /\ wizard' = [pc |-> "idle", tok |-> 0]
    /\ \E exp \in {"young", "legacy"} : Put(wizard.tok, exp)
    /\ UNCHANGED <<live, issued, conf, mgr, job, spurned, left>>

-----------------------------------------------------------------------------
(***************************************************************************)
(* Time, the provider and people with access to the secret.                *)
(***************************************************************************)
Age ==
    /\ secret.exp = "young"
    /\ Disturb
    /\ secret' = [secret EXCEPT !.exp = "old"]
    /\ UNCHANGED <<live, issued, writes, conf, mgr, job, spurned, wizard>>

Revoke ==
    /\ Disturb
    /\ \E t \in live : live' = live \ {t}
    /\ UNCHANGED <<secret, issued, writes, conf, mgr, job, spurned, wizard>>

\* Somebody deletes the secret, or spoils its expiry fields.
Tamper ==
    /\ secret # Absent
    /\ Disturb
    /\ \/ secret' = Absent /\ UNCHANGED writes
       \/ Put(secret.tok, "broken")
    /\ UNCHANGED <<live, issued, conf, mgr, job, spurned, wizard>>

-----------------------------------------------------------------------------
Init ==
    /\ secret = [ver |-> 1, made |-> 1, tok |-> 1, exp |-> "old"]
    /\ live = {1}
    /\ issued = 1
    /\ writes = 1
    /\ conf = [h \in Hosts |-> "good"]
    /\ mgr = [h \in Hosts |-> NewManager]
    /\ job = [h \in Hosts |-> Idle]
    /\ spurned = [h \in Hosts |-> {}]
    /\ wizard = [pc |-> "idle", tok |-> 0]
    /\ left = MaxDisturbances

Step(h) ==
    \/ TickStart(h) \/ Peek(h) \/ Read(h) \/ Wipe(h) \/ Delete(h)
    \/ Present(h) \/ Arm(h) \/ Write(h)

Fault(h) ==
    \/ DeleteFails(h) \/ PresentFails(h) \/ WriteFails(h) \/ ReadFails(h)
    \/ Reload(h) \/ Restart(h)

Next ==
    \/ \E h \in Hosts : Step(h) \/ CoolEnds(h) \/ Fault(h)
    \/ Acquire \/ Enrol
    \/ Age \/ Revoke \/ Tamper

Spec == Init /\ [][Next]_vars

\* A started tick goes on, the ticker fires for ever, backoffs run out.
RefreshFairness == \A h \in Hosts : WF_vars(Step(h)) /\ WF_vars(CoolEnds(h))

FairSpec == Spec /\ RefreshFairness

-----------------------------------------------------------------------------
(***************************************************************************)
(* Properties.                                                             *)
(***************************************************************************)

\* Whatever a host's mark names is dead: if the secret still is the version
\* whose refresh token was rejected, under the configuration the host has now,
\* then nobody can rotate it any more.  A rejection that a wrong configuration
\* caused leaves no mark behind once a reload has put that right.
ArmedIsDead ==
    \A h \in Hosts :
        conf[h] = "good" /\ mgr[h].mark = [ver |-> secret.ver, made |-> secret.made] =>
            secret.tok \notin live

\* A host that goes on to delete the secret it has just read deletes nothing
\* that could still be rotated: not what another host rotated meanwhile, nor a
\* re-enrolment that restarted the version numbers, nor what a reload has just
\* made usable again.
WipeSpares ==
    [][\A h \in Hosts :
        (job[h].pc = "wipe" /\ job'[h].pc = "delete" /\ conf[h] = "good"
            /\ secret.made = job[h].got.made) => secret.tok \notin live]_vars

\* A refresh token that the provider has rejected is not presented again by
\* the same host, through failed wipes, backoffs and other hosts' writes,
\* until its configuration changes.
NotAgain ==
    [][\A h \in Hosts :
        job[h].pc = "present" /\ job'[h].pc \in {"write", "rejected"} =>
            job[h].got.tok \notin spurned[h]]_vars

\* A credential past its half-life is rotated or, if that is hopeless, wiped,
\* so that the user is asked to enrol again; it never lingers.
Settles == <>[](secret.exp = "old" => \A h \in Hosts : conf[h] = "none")

\* Every host whose enrolment stays configured hears of the version that stays,
\* in backoff or not, whoever wrote it.
Heard == <>[](\A h \in Hosts :
                conf[h] # "none" /\ secret # Absent => mgr[h].told = secret.ver)

\* What a manager may rely on: well-formed state and marks of dead tokens only.
RefreshSound == TypeOK /\ ArmedIsDead

\* What the managers owe the provider and the user.
RefreshSettles == NotAgain /\ (RefreshFairness => Settles /\ Heard)
=============================================================================
