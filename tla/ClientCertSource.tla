-------------------------- MODULE ClientCertSource --------------------------
(***************************************************************************)
(* The client certificate dotvault serves to other software                *)
(* (internal/clientcert): the one this host logs in with, re-exported when *)
(* its file changes, or, if there is none, a short-lived one that Vault    *)
(* signs on demand, once for all callers, paced, and never with a token    *)
(* that is being replaced (internal/tokengate).                            *)
(***************************************************************************)
EXTENDS Integers

CONSTANTS
    Readers,      \* concurrent calls of Current
    SignInterval, \* minSignInterval and signBackoffBase, in ticks
    BackoffLimit, \* signBackoffMax
    MaxTokens,    \* Vault tokens of the daemon
    MaxRotations, \* versions of the held credential
    MaxTicks      \* time that passes

ASSUME SourceAssumption ==
    /\ SignInterval \in Nat /\ BackoffLimit \in Nat
    /\ MaxTokens \in Nat /\ MaxRotations \in Nat /\ MaxTicks \in Nat

VARIABLES
    file,    \* version of the credential file; 0 if there is none
    heldc,   \* the held source: whether it has loaded, version and content
    token,   \* the daemon's token; 0 if it has none
    gate,    \* of the token's replacement
    fresh,   \* ticks until the signed certificate is due for a successor
    flight,  \* the sign in progress
    pace,    \* lastAttempt (as its age), lastToken, failures, retryAt, failedToken
    asked,   \* the last request since the token changed: token, age, refusals in a row
    reader,  \* progress and answer of each call
    ticks

sourceVars == <<file, heldc, token, gate, fresh, flight, pace, asked, reader, ticks>>

NoFlight == [pc |-> "none", token |-> 0, filed |-> 0, ok |-> FALSE]

Asleep == [pc |-> "asleep", version |-> 0]

SourceInit ==
    /\ file \in {0, 1}
    /\ heldc = [loaded |-> FALSE, version |-> 0, content |-> 0]
    /\ token = 1 /\ gate = "clear"
    /\ fresh = 0 /\ flight = NoFlight
    /\ pace = [since |-> SignInterval, token |-> 0, failures |-> 0, wait |-> 0, failed |-> 0]
    /\ asked = [token |-> 0, ago |-> BackoffLimit, refused |-> 0]
    /\ reader = [r \in Readers |-> Asleep]
    /\ ticks = 0

Reads(r, pc) == reader' = [reader EXCEPT ![r].pc = pc]

\* The call returns: the certificate in memory while it is valid, or an error.
Answers(r) == reader' = [reader EXCEPT ![r] = Asleep]

-----------------------------------------------------------------------------
(***************************************************************************)
(* The held certificate.                                                   *)
(***************************************************************************)

\* held.Current: the file has not changed since it was exported.
HeldCurrent(r) ==
    /\ reader[r].pc = "asleep"
    /\ \A q \in Readers : reader[q].pc \notin {"export", "content"}
    /\ IF heldc.loaded /\ heldc.version = file
          THEN Answers(r) ELSE Reads(r, "export")
    /\ UNCHANGED <<file, heldc, token, gate, fresh, flight, pace, asked, ticks>>

\* ExportHeldCertificate: first the version of the file ...
StatCredential(r) ==
    /\ reader[r].pc = "export"
    /\ IF file = 0
          THEN heldc' = [heldc EXCEPT !.loaded = FALSE] /\ Reads(r, "sign")
          ELSE /\ reader' = [reader EXCEPT ![r].pc = "content", ![r].version = file]
               /\ UNCHANGED heldc
    /\ UNCHANGED <<file, token, gate, fresh, flight, pace, asked, ticks>>

\* Mutant: the version that goes with the content is read once more.
ExportFresh(r) ==
    /\ reader[r].pc = "content"
    /\ \E now \in {file, reader[r].version} :
          heldc' = [loaded |-> TRUE, version |-> file, content |-> now]
    /\ Answers(r)
    /\ UNCHANGED <<file, token, gate, fresh, flight, pace, asked, ticks>>

\* ... then what is in it, which may be newer, or cannot be exported; there is
\* no role to fall back to then.
ExportHeld(r) ==
    /\ reader[r].pc = "content"
    /\ \/ /\ heldc' = [loaded |-> TRUE, version |-> reader[r].version, content |-> file]
          /\ Answers(r)
       \/ /\ heldc' = [heldc EXCEPT !.loaded = FALSE]
          /\ Answers(r)
    /\ UNCHANGED <<file, token, gate, fresh, flight, pace, asked, ticks>>

\* The daemon rotates the credential.
FileChanges ==
    /\ file \in 1..(MaxRotations - 1)
    /\ file' = file + 1
    /\ UNCHANGED <<heldc, token, gate, fresh, flight, pace, asked, reader, ticks>>

-----------------------------------------------------------------------------
(***************************************************************************)
(* The signed certificate.                                                 *)
(***************************************************************************)

\* resetBackoffLocked, when the token is not the one that failed
Backoff(t) ==
    IF pace.failures > 0 /\ t # pace.failed THEN [pace EXCEPT !.failures = 0, !.wait = 0, !.failed = 0]
    ELSE pace

\* nextSignLocked
Paced(t) ==
    \/ t = pace.token /\ pace.since < SignInterval
    \/ Backoff(t).failures > 0 /\ Backoff(t).wait > 0

\* ephemeral.Current: from memory, or with the sign in progress, or with one
\* that this call starts.
EphemeralCurrent(r) ==
    /\ reader[r].pc = "sign"
    /\ IF fresh > 0 THEN Answers(r) /\ UNCHANGED <<flight, pace>>
       ELSE IF flight.pc # "none" THEN Reads(r, "await") /\ UNCHANGED <<flight, pace>>
       ELSE IF token = 0 THEN Answers(r) /\ UNCHANGED <<flight, pace>>
       ELSE IF Paced(token)
            THEN Answers(r) /\ pace' = Backoff(token) /\ UNCHANGED flight
       ELSE /\ pace' = [Backoff(token) EXCEPT !.since = 0, !.token = token]
            /\ flight' = [pc |-> "gate", token |-> token, filed |-> token, ok |-> FALSE]
            /\ Reads(r, "await")
    /\ UNCHANGED <<file, heldc, token, gate, fresh, asked, ticks>>

\* The flight ends and everybody who waits for it gets its answer.
Land ==
    /\ flight' = NoFlight
    /\ reader' = [r \in Readers |-> IF reader[r].pc = "await" THEN Asleep ELSE reader[r]]

\* backoffFor
backoffFor(n) == LET d == SignInterval * (2 ^ (n - 1)) IN IF d < BackoffLimit THEN d ELSE BackoffLimit

\* Failures are counted up to where the backoff stops growing.
Another(n) == IF n > 0 /\ backoffFor(n) = BackoffLimit THEN n ELSE n + 1

Fail(t) ==
    LET n == Another(pace.failures)
    IN  pace' = [pace EXCEPT !.failures = n, !.wait = backoffFor(n), !.failed = t]

\* Mutant: the flight stays filed under the token it began with.
Unfiled(t) == flight' = [flight EXCEPT !.pc = "send", !.token = t] /\ UNCHANGED pace

\* The flight is filed under the token it will present.
Refile(t) ==
    /\ flight' = [flight EXCEPT !.pc = "send", !.token = t, !.filed = t]
    /\ pace' = IF t # flight.token THEN [pace EXCEPT !.token = t] ELSE pace

\* Mutant: a wait that times out forgets the flight.
AwaitLost ==
    /\ flight.pc = "gate"
    /\ IF gate = "clear" /\ token # 0 THEN Refile(token) /\ UNCHANGED reader
       ELSE flight' = [flight EXCEPT !.pc = "stuck"] /\ UNCHANGED <<pace, reader>>
    /\ UNCHANGED <<file, heldc, token, gate, fresh, asked, ticks>>

\* awaitReplacement: a replacement in flight is waited for, not for ever; one
\* that needs a person is not; then the token is read again.
AwaitReplacement ==
    /\ flight.pc = "gate"
    /\ IF gate = "replacing" THEN Land /\ UNCHANGED pace
       ELSE IF gate = "signalled" \/ token = 0 THEN Land /\ Fail(flight.filed)
       ELSE Refile(token) /\ UNCHANGED reader
    /\ UNCHANGED <<file, heldc, token, gate, fresh, asked, ticks>>

\* commonName and SignCSRWithToken with that token
Send ==
    /\ flight.pc = "send"
    /\ \E ok \in BOOLEAN :
          /\ flight' = [flight EXCEPT !.pc = "sent", !.ok = ok]
          /\ asked' = [token |-> flight.token, ago |-> 0,
                       refused |-> IF ok THEN 0
                                   ELSE IF asked.token = flight.token THEN Another(asked.refused)
                                   ELSE 1]
    /\ UNCHANGED <<file, heldc, token, gate, fresh, pace, reader, ticks>>

\* run: the certificate may be due for its successor when it arrives.  A
\* rejection is reported and starts a replacement.
Sign ==
    /\ flight.pc = "sent"
    /\ IF flight.ok
          THEN /\ Land
               /\ fresh' \in 0..1
               /\ pace' = [pace EXCEPT !.failures = 0, !.wait = 0, !.failed = 0]
               /\ UNCHANGED gate
          ELSE /\ Land /\ Fail(flight.filed)
               /\ gate' \in {gate, "replacing"}
               /\ UNCHANGED fresh
    /\ UNCHANGED <<file, heldc, token, asked, ticks>>

\* The caller gives up; the sign goes on.
GivesUp(r) ==
    /\ reader[r].pc = "await"
    /\ Answers(r)
    /\ UNCHANGED <<file, heldc, token, gate, fresh, flight, pace, asked, ticks>>

-----------------------------------------------------------------------------
\* The token lifecycle, as far as the gate shows it: a candidate is on trial
\* while the gate is closed, and gives way to the token before it if it fails; a
\* person may be needed.
ReplaceToken ==
    \/ /\ gate = "clear" /\ token < MaxTokens
       /\ gate' = "replacing" /\ token' \in {token, token + 1}
    \/ /\ gate = "replacing"
       /\ gate' \in {"clear", "signalled"}
       /\ token' \in {t \in {0, token - 1, token, token + 1} : t \in 0..MaxTokens}
    \/ /\ gate = "signalled"
       /\ gate' = "clear" /\ token' = MaxTokens

LifecycleStep ==
    /\ ReplaceToken
    /\ asked' = IF token' # token THEN [asked EXCEPT !.token = 0, !.refused = 0] ELSE asked
    /\ UNCHANGED <<file, heldc, fresh, flight, pace, reader, ticks>>

SecondPasses ==
    /\ ticks < MaxTicks
    /\ ticks' = ticks + 1
    /\ fresh' = IF fresh > 0 THEN fresh - 1 ELSE 0
    /\ pace' = [pace EXCEPT !.since = IF @ < SignInterval THEN @ + 1 ELSE @,
                            !.wait = IF @ > 0 THEN @ - 1 ELSE 0]
    /\ asked' = [asked EXCEPT !.ago = IF @ < BackoffLimit THEN @ + 1 ELSE @]
    /\ UNCHANGED <<file, heldc, token, gate, flight, reader>>

SourceNext ==
    \/ \E r \in Readers :
          \/ HeldCurrent(r) \/ StatCredential(r) \/ ExportHeld(r)
          \/ EphemeralCurrent(r) \/ GivesUp(r)
    \/ FileChanges \/ AwaitReplacement \/ Send \/ Sign
    \/ LifecycleStep \/ SecondPasses

\* A call and the sign run on; every wait of theirs is bounded.
SourceFairness ==
    /\ WF_sourceVars(AwaitReplacement) /\ WF_sourceVars(Send) /\ WF_sourceVars(Sign)
    /\ \A r \in Readers :
          /\ WF_sourceVars(StatCredential(r)) /\ WF_sourceVars(ExportHeld(r))
          /\ WF_sourceVars(EphemeralCurrent(r))

SourceSpec == SourceInit /\ [][SourceNext]_sourceVars /\ SourceFairness

-----------------------------------------------------------------------------
\* A rotation of the held certificate is never hidden: what is taken for the
\* file's present version has its present content (ExportHeldCertificate).
RotationSeen == heldc.loaded /\ heldc.version = file => heldc.content = file

\* A token that Vault has refused, and that is still the daemon's, is not presented
\* again before the backoff has passed that doubles with each refusal, also when the
\* flight changed its token on the way (awaitReplacement, nextSignLocked).
NoStorm ==
    [][flight.pc = "send" /\ flight'.pc = "sent" /\ asked.refused > 0
         /\ asked.token = flight.token
           => asked.ago >= backoffFor(asked.refused)]_sourceVars

\* Every call is answered, whatever becomes of the token (run, awaitReplacement).
Answered == \A r \in Readers : reader[r].pc # "asleep" ~> reader[r].pc = "asleep"

\* The version handed out with a certificate is that of its content, requests for
\* one are spaced, and every reader is answered.
SourceServes == []RotationSeen /\ NoStorm /\ (SourceFairness => Answered)
=============================================================================
