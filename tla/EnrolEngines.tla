---------------------------- MODULE EnrolEngines ----------------------------
(***************************************************************************)
(* One enrolment with an engine that talks to a provider: the attempt that *)
(* acquires a credential and the rotations of the one that is stored.      *)
(* (internal/enrol/github.go, ghp.go, jfrog.go, databricks.go and          *)
(* Manager.RunOne in manager.go)                                           *)
(***************************************************************************)
EXTENDS Naturals, FiniteSets

CONSTANTS
    MaxWait,       \* ticks until an attempt times out
    Bump,          \* what "slow down" adds to the interval of the polls
    MaxBackoff,    \* the longest interval that a plain 429 leads to
    RetryAfters,   \* the Retry-After headers of a 429, in ticks
    MaxRefreshes,  \* refresh tokens the provider hands out
    MaxFailures      \* failures of the network, Vault or the browser, and strays

VARIABLES
    using, secure, wants,     \* the engine; its host is https; token_lifetime: expiring
    stdin,                    \* the device flow reads a terminal, not the runner's newline
    phase,                    \* where the attempt is; "idle" without one
    outcome,                  \* how the last one ended
    elapsed,                  \* the age of the attempt
    interval, pollDue,        \* the gap between polls; the ticks until the next one
    grant,                    \* the provider's side of the attempt
    heard,                    \* the answer being looked at
    early,                    \* the user approved while a poll was still to come, and it
                              \* was not turned away
    flow, channel, handlers,  \* device flow goroutine ("off", at "enter" or "polls"),
                              \* result channel, callbacks served
    reply,                    \* the credential the provider handed out
    kept,                     \* what Vault stores
    provider,                 \* the refresh token it takes; whether access expires
    ruling, lost,             \* the last Refresh; a rotated token was lost on the way
    faults

attemptVars == <<phase, outcome, elapsed, interval, pollDue, grant, heard, early, flow,
                 channel, handlers, reply>>
storedVars == <<kept, provider, ruling, lost>>
settings == <<using, secure, wants, stdin>>
engineVars == <<settings, attemptVars, storedVars, faults>>

Engines == {"github", "ghp", "jfrog", "databricks"}

Polling == {"ghp", "jfrog"}

Refreshers == {"github", "jfrog", "databricks"}

NoReply == [refresh |-> 0, lasts |-> FALSE]

\* refresh: the refresh_token field, 0 without one; expires: expires_at is there
NoSecret == [stored |-> FALSE, refresh |-> 0, expires |-> FALSE]

Secret(refresh, expires) == [stored |-> TRUE, refresh |-> refresh, expires |-> expires]

EngineInit ==
    /\ using \in Engines /\ secure \in BOOLEAN /\ wants \in BOOLEAN /\ stdin \in BOOLEAN
    /\ (using # "github" => secure /\ ~wants /\ ~stdin)
    /\ phase = "idle" /\ outcome = "none" /\ elapsed = 0 /\ interval = 1 /\ pollDue = 0
    /\ grant = "none" /\ heard = "none" /\ early = FALSE
    /\ flow = "off" /\ channel = "none" /\ handlers = {} /\ reply = NoReply
    /\ kept = NoSecret /\ provider = [refresh |-> 0, expires |-> FALSE]
    /\ ruling = "none" /\ lost = FALSE /\ faults = 0

Fault == faults < MaxFailures /\ faults' = faults + 1

Quit(how) == phase' = "idle" /\ outcome' = how /\ heard' = "none"

\* Refresh tokens are numbered; the provider's next one.
Fresh == provider.refresh + 1

-----------------------------------------------------------------------------
(***************************************************************************)
(* The attempt.                                                            *)
(***************************************************************************)

\* token_lifetime asks for a token that Refresh could not keep alive over this host.
Unsafe == wants /\ ~secure

\* What the engine waits in: polls of its own, or a select for a result.
FirstPhase == IF using \in Polling THEN "poll" ELSE "select"

\* Run up to the wait: the settings, the provider's side of it, the code or the
\* address that the user is shown.  An expiring token over a host that Refresh
\* refuses is not asked for.  The goroutine and the channel are the attempt's own;
\* here the next one waits until those of the last are gone.
Run ==
    /\ phase = "idle" /\ flow = "off" /\ handlers = {}
    /\ elapsed' = 0 /\ pollDue' = 0 /\ early' = FALSE
    /\ channel' = "none" /\ reply' = NoReply
    /\ \/ /\ ~Unsafe
          /\ grant' = "pending" /\ interval' = 1
          /\ flow' = IF using # "github" THEN "off" ELSE IF stdin THEN "enter" ELSE "polls"
          /\ phase' = FirstPhase
          /\ outcome' = "none" /\ heard' = "none"
          /\ UNCHANGED faults
       \/ /\ IF Unsafe THEN UNCHANGED faults ELSE Fault
          /\ Quit("error")
          /\ UNCHANGED <<grant, interval, flow>>
    /\ UNCHANGED <<settings, handlers, storedVars>>

\* A poll that the provider's rate limit turned away
TurnedAway == {"slow", "limited"}

\* What the provider answers to a poll; a token is handed out once.  JFrog's poll
\* knows no rate limit, GHP's heeds one whatever the user has done.
Replies ==
    (CASE grant = "approved" -> {"token"} [] OTHER -> {grant})
       \cup (IF using = "jfrog" THEN {} ELSE TurnedAway)

AskProvider ==
    /\ phase = "poll"
    /\ \/ /\ heard' \in Replies
          /\ UNCHANGED faults
       \/ /\ heard' = "lost" /\ Fault
    /\ phase' = "heard"
    /\ grant' = IF grant = "approved" /\ heard' \notin TurnedAway THEN "taken" ELSE grant
    /\ early' = (grant = "approved" /\ heard' \notin TurnedAway)
    /\ UNCHANGED <<settings, outcome, elapsed, interval, pollDue, flow, channel, handlers,
                   reply, storedVars>>

\* The interval after an answer that is not final: "slow down" adds to it, and a
\* 429 doubles it or says what it is to be.
NextIntervals ==
    CASE heard = "slow" -> {interval + Bump}
      [] heard = "limited" -> RetryAfters \cup
            {IF 2 * interval > MaxBackoff THEN MaxBackoff ELSE 2 * interval}
      [] OTHER -> {interval}

\* ghpPollForToken and jfrogPollForToken after an answer: the deadline counts
\* only after a poll that found nothing.
Evaluate ==
    /\ phase = "heard"
    /\ IF heard = "token"
          THEN /\ phase' = IF using = "jfrog" THEN "mint" ELSE "settle"
               /\ UNCHANGED <<outcome, interval, pollDue>> /\ heard' = "none"
       ELSE IF heard \in {"lost", "denied", "lapsed", "taken"}
          THEN Quit("error") /\ UNCHANGED <<interval, pollDue>>
       ELSE IF elapsed > MaxWait
          THEN Quit("timeout") /\ UNCHANGED <<interval, pollDue>>
       ELSE /\ phase' = "wait" /\ interval' \in NextIntervals /\ pollDue' = interval'
            /\ heard' = "none"
            /\ UNCHANGED outcome
    /\ UNCHANGED <<settings, elapsed, grant, early, flow, channel, handlers, reply,
                   storedVars, faults>>

\* Mutant: the deadline is looked at before the poll.
WaitUntilDeadline ==
    /\ phase = "wait" /\ pollDue = 0
    /\ IF elapsed > MaxWait THEN Quit("timeout")
       ELSE phase' = "poll" /\ UNCHANGED <<outcome, heard>>
    /\ UNCHANGED <<settings, elapsed, interval, pollDue, grant, early, flow, channel,
                   handlers, reply, storedVars, faults>>

\* The timer of the poll loop fires.
Wait ==
    /\ phase = "wait" /\ pollDue = 0
    /\ phase' = "poll"
    /\ UNCHANGED <<settings, outcome, elapsed, interval, pollDue, grant, heard, early,
                   flow, channel, handlers, reply, storedVars, faults>>

\* DisplayCode of the GitHub engine: before the first poll the flow reads a line,
\* without a deadline.  In the browser's enrolments it is there from the start.
PressEnter ==
    /\ flow = "enter"
    /\ flow' = "polls"
    /\ UNCHANGED <<settings, phase, outcome, elapsed, interval, pollDue, grant, heard, early,
                   channel, handlers, reply, storedVars, faults>>

\* The device flow of the GitHub library, in a goroutine of its own: it cannot be
\* cancelled and ends with the grant.  The channel has room for its result.
FlowEnds ==
    /\ flow = "polls" /\ grant \in {"approved", "denied", "lapsed"}
    /\ flow' = "off"
    /\ channel' = IF grant = "approved" THEN "token" ELSE "error"
    /\ grant' = IF grant = "approved" THEN "taken" ELSE grant
    /\ UNCHANGED <<settings, phase, outcome, elapsed, interval, pollDue, heard, early,
                   handlers, reply, storedVars, faults>>

\* A request reaches the redirect listener: the browser with the code or the
\* provider's error, or a stray one, whose state is wrong.
Callback ==
    /\ using = "databricks" /\ phase = "select"
    /\ \/ /\ grant = "approved" /\ grant' = "taken"
          /\ handlers' = handlers \cup {"token"} /\ UNCHANGED faults
       \/ /\ grant = "denied" /\ grant' = "taken"
          /\ handlers' = handlers \cup {"error"} /\ UNCHANGED faults
       \/ /\ Fault /\ handlers' = handlers \cup {"stray"} /\ UNCHANGED grant
    /\ UNCHANGED <<settings, phase, outcome, elapsed, interval, pollDue, heard, early,
                   flow, channel, reply, storedVars>>

\* Mutant: the handler waits for room.
HandBlocking(h) ==
    /\ h \in handlers /\ channel = "none" /\ phase = "select"
    /\ handlers' = handlers \ {h}
    /\ channel' = IF h = "token" THEN "token" ELSE "error"
    /\ UNCHANGED <<settings, phase, outcome, elapsed, interval, pollDue, grant, heard,
                   early, flow, reply, storedVars, faults>>

\* The handler answers and hands its result over if there is room: the first wins.
Hand(h) ==
    /\ h \in handlers
    /\ handlers' = handlers \ {h}
    /\ channel' = IF channel # "none" \/ phase # "select" THEN channel
                 ELSE IF h = "token" THEN "token" ELSE "error"
    /\ UNCHANGED <<settings, phase, outcome, elapsed, interval, pollDue, grant, heard,
                   early, flow, reply, storedVars, faults>>

\* The select of the GitHub and Databricks engines.
Receive ==
    /\ phase = "select" /\ channel # "none"
    /\ channel' = "none"
    /\ IF channel = "error" THEN Quit("error")
       ELSE /\ phase' = IF using = "databricks" THEN "mint" ELSE "settle"
            /\ UNCHANGED <<outcome, heard>>
    /\ UNCHANGED <<settings, elapsed, interval, pollDue, grant, early, flow, handlers,
                   reply, storedVars, faults>>

\* waitCtx of the Databricks engine: with a result there as well, either is taken.
TimesOut ==
    /\ using = "databricks" /\ phase = "select" /\ elapsed > MaxWait
    /\ Quit("timeout")
    /\ UNCHANGED <<settings, elapsed, interval, pollDue, grant, early, flow, channel,
                   handlers, reply, storedVars, faults>>

\* The second request: JFrog's bootstrap token for a token of dotvault's own,
\* Databricks' code for a pair of tokens.
Mint ==
    /\ phase = "mint"
    /\ \/ phase' = "settle" /\ UNCHANGED <<outcome, heard, faults>>
       \/ Fault /\ Quit("error")
    /\ UNCHANGED <<settings, elapsed, interval, pollDue, grant, early, flow, channel,
                   handlers, reply, storedVars>>

\* What a provider may put into a token response: a refresh token, a lifetime.
\* GHP's sessions have neither, JFrog's lifetime is the one asked for.
Credentials ==
    IF using = "ghp" THEN {NoReply}
    ELSE [refresh : {0} \cup (IF provider.refresh < MaxRefreshes THEN {Fresh} ELSE {}),
          lasts : IF using = "github" THEN BOOLEAN ELSE {TRUE}]

\* The tokens arrive, and the engine takes them or not: a pair without its refresh
\* token (JFrog, Databricks), an expiring token that could not be refreshed.
Takes(r) ==
    CASE using = "github" -> r.lasts => r.refresh # 0 /\ secure
      [] using = "ghp" -> TRUE
      [] OTHER -> r.refresh # 0

\* githubCredential and its likes: what is stored of a response.  Databricks and
\* JFrog always record an expiry.
Rendered(r) ==
    CASE using = "github" -> IF r.refresh = 0 \/ ~r.lasts THEN Secret(0, FALSE)
                              ELSE Secret(r.refresh, TRUE)
      [] using = "ghp" -> Secret(0, FALSE)
      [] OTHER -> Secret(r.refresh, TRUE)

Settle ==
    /\ phase = "settle"
    /\ reply' \in Credentials
    /\ IF Takes(reply') THEN phase' = "write" /\ UNCHANGED <<outcome, heard>>
       ELSE Quit("error")
    /\ UNCHANGED <<settings, elapsed, interval, pollDue, grant, early, flow, channel,
                   handlers, storedVars, faults>>

\* RunOne: one write; the credential is gone if it fails.
WriteCredential ==
    /\ phase = "write"
    /\ \/ /\ kept' = Rendered(reply)
          /\ provider' = [refresh |-> reply.refresh, expires |-> reply.lasts]
          /\ Quit("stored") /\ lost' = FALSE /\ ruling' = "none"
          /\ UNCHANGED faults
       \/ /\ Fault /\ Quit("error")
          /\ UNCHANGED <<kept, provider, lost, ruling>>
    /\ UNCHANGED <<settings, elapsed, interval, pollDue, grant, early, flow, channel,
                   handlers, reply>>

\* ctx is done: every wait looks at it, and a request that is out fails.
Cancelled ==
    /\ phase \in {"wait", "select", "heard", "mint"} /\ Fault
    /\ Quit("cancelled")
    /\ UNCHANGED <<settings, elapsed, interval, pollDue, grant, early, flow, channel,
                   handlers, reply, storedVars>>

-----------------------------------------------------------------------------
(***************************************************************************)
(* The user, the provider and time.                                        *)
(***************************************************************************)
Approve ==
    /\ grant = "pending" /\ phase # "idle"
    /\ grant' = "approved"
    /\ early' = (phase \in {"poll", "wait"})
    /\ UNCHANGED <<settings, phase, outcome, elapsed, interval, pollDue, heard, flow,
                   channel, handlers, reply, storedVars, faults>>

Deny ==
    /\ grant = "pending" /\ using # "jfrog"
    /\ grant' = "denied"
    /\ UNCHANGED <<settings, phase, outcome, elapsed, interval, pollDue, heard, early,
                   flow, channel, handlers, reply, storedVars, faults>>

\* The device code expires, also on an attempt that was cancelled.
Lapse ==
    /\ grant = "pending" /\ using \in {"github", "ghp"}
    /\ elapsed > MaxWait \/ phase = "idle"
    /\ grant' = "lapsed"
    /\ UNCHANGED <<settings, phase, outcome, elapsed, interval, pollDue, heard, early,
                   flow, channel, handlers, reply, storedVars, faults>>

TimePasses ==
    /\ phase # "idle" /\ (elapsed <= MaxWait \/ pollDue > 0)
    /\ elapsed' = IF elapsed <= MaxWait THEN elapsed + 1 ELSE elapsed
    /\ pollDue' = IF pollDue > 0 THEN pollDue - 1 ELSE 0
    /\ UNCHANGED <<settings, phase, outcome, interval, grant, heard, early, flow,
                   channel, handlers, reply, storedVars, faults>>

\* Somebody revokes the refresh token, or the provider drops it.
Revoke ==
    /\ provider.refresh \in 1..(MaxRefreshes - 1) /\ Fault
    /\ provider' = [provider EXCEPT !.refresh = Fresh]
    /\ lost' = TRUE
    /\ UNCHANGED <<settings, attemptVars, kept, ruling>>

-----------------------------------------------------------------------------
(***************************************************************************)
(* Refresh, called for a secret with expires_at.                           *)
(***************************************************************************)

\* Mutant: the response alone decides whether the token expires.
RotatedBare(r) ==
    CASE using = "github" -> IF r.lasts THEN Secret(r.refresh, TRUE) ELSE Secret(0, FALSE)
      [] OTHER -> Secret(r.refresh, TRUE)

\* The secret that a response turns the stored one into: a token known to expire
\* goes on expiring, whatever the response leaves out (previousLifetime).
Rotated(r) == Secret(r.refresh, TRUE)

\* What a provider that takes the token answers.  GitHub and JFrog rotate at every
\* use, Databricks may; the GitHub library carries the old token forward, and so
\* does the Databricks engine.  JFrog's pair may be incomplete, which is an error.
Rotations ==
    {r \in [refresh : {provider.refresh, Fresh}, lasts : BOOLEAN] :
        using = "jfrog" => r.refresh = Fresh}

\* A rotation that arrives
RefreshArrives ==
    /\ phase = "idle" /\ kept.stored /\ kept.expires /\ using \in Refreshers
    /\ kept.refresh = provider.refresh /\ provider.refresh < MaxRefreshes
    /\ \E r \in Rotations :
          /\ provider' = [provider EXCEPT !.refresh = r.refresh]
          /\ kept' = Rotated(r)
    /\ ruling' = "rotated"
    /\ UNCHANGED <<settings, attemptVars, lost, faults>>

\* One that is lost on its way, or arrives incomplete: the provider may have
\* rotated the token.
RefreshLost ==
    /\ phase = "idle" /\ kept.stored /\ kept.expires /\ using \in Refreshers
    /\ kept.refresh = provider.refresh /\ provider.refresh < MaxRefreshes
    /\ Fault
    /\ \E r \in Rotations :
          /\ provider' = [provider EXCEPT !.refresh = r.refresh]
          /\ lost' = (lost \/ r.refresh # kept.refresh)
    /\ ruling' = "transient"
    /\ UNCHANGED <<settings, attemptVars, kept>>

\* A provider that refuses the token says so; any other answer is taken to pass.
RefreshRefused ==
    /\ phase = "idle" /\ kept.stored /\ kept.expires /\ using \in Refreshers
    /\ \/ kept.refresh # provider.refresh /\ ruling' = "revoked" /\ UNCHANGED faults
       \/ Fault /\ ruling' = "transient"
    /\ UNCHANGED <<settings, attemptVars, kept, provider, lost>>

\* The refresh manager wipes what the engine calls revoked; a new attempt follows.
Wiped ==
    /\ ruling = "revoked" /\ kept.stored /\ phase = "idle"
    /\ kept' = NoSecret /\ provider' = [provider EXCEPT !.expires = FALSE]
    /\ outcome' = "none"
    /\ UNCHANGED <<settings, phase, elapsed, interval, pollDue, grant, heard, early,
                   flow, channel, handlers, reply, ruling, lost, faults>>

Program ==
    \/ AskProvider \/ Evaluate \/ Wait \/ Receive \/ TimesOut
    \/ Mint \/ Settle \/ WriteCredential

EngineNext ==
    \/ Run \/ Program \/ PressEnter \/ FlowEnds \/ Callback \/ Cancelled
    \/ \E h \in handlers : Hand(h)
    \/ Approve \/ Deny \/ Lapse \/ TimePasses \/ Revoke
    \/ RefreshArrives \/ RefreshLost \/ RefreshRefused \/ Wiped

\* The program goes on, time passes, and the library's device flow ends with its
\* code.  Nothing says that the user approves or presses Enter, or that a refresh is
\* made.
EngineFairness ==
    /\ WF_engineVars(Program) /\ WF_engineVars(TimePasses)
    /\ WF_engineVars(FlowEnds) /\ WF_engineVars(Lapse)
    /\ WF_engineVars(\E h \in handlers : Hand(h))

EngineSpec == EngineInit /\ [][EngineNext]_engineVars /\ EngineFairness

-----------------------------------------------------------------------------
\* A credential that its provider lets expire is never stored without what it
\* takes to rotate it, and what is stored is what the provider takes next unless
\* a rotation was lost on the way: whatever a response leaves out, across
\* enrolments and any number of rotations (checkExpiringToken, githubCredential,
\* previousLifetime, Refresh).
KeptRefreshable ==
    kept.stored /\ provider.expires =>
        kept.expires /\ kept.refresh # 0 /\ (lost \/ kept.refresh = provider.refresh)

\* A user who approves while a poll is still to come does not see the attempt time
\* out, unless the rate limit turned that poll away; also when the deadline passes
\* during the wait (ghpPollForToken, jfrogPollForToken).
ApprovalSeen == outcome = "timeout" /\ using \in Polling => ~early

\* What the engines make of their providers' answers
EnginesSound == KeptRefreshable /\ ApprovalSeen

\* An attempt comes to an end without the user, and leaves nothing behind: neither
\* the goroutine of a cancelled device flow nor a callback that found no reader
\* (the buffered channels in Run).  The one wait without an end is that of a device
\* flow for Enter at a terminal (DisplayCode).
EnginesEnd ==
    EngineFairness =>
        []<>(phase = "idle" /\ flow = "off" /\ handlers = {}) \/ <>[](flow = "enter")
=============================================================================
