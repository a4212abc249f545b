------------------------------ MODULE EventLoop ------------------------------
(***************************************************************************)
(* The hybrid event/poll loop of the sync engine: RunLoop and              *)
(* runLoopAfterInitial in internal/sync/engine.go, with the websocket      *)
(* subscription of internal/vault/events.go that feeds it.                 *)
(*                                                                         *)
(* A subscription is a pipeline of two goroutines: a reader that takes     *)
(* messages off the connection into a channel, and a filter that moves the *)
(* ones under the user's prefix into another.  The loop selects over the   *)
(* second channel, the reader's error channel, the ticker, the trigger,    *)
(* the interval nudge and the reconnect signal.  When the connection       *)
(* breaks it drops both channels and tries again after a backoff.          *)
(*                                                                         *)
(* A cycle of the engine (module SyncEngine) is two steps here: it reads   *)
(* the secret, and later it is done with it.  One secret is enough: what   *)
(* matters is which version the engine has caught up with.                 *)
(***************************************************************************)
EXTENDS Naturals, Sequences

CONSTANTS
    MaxSubs,        \* connections the Vault server accepts
    ChanCap,        \* capacity of events and of filtered (16 in the code)
    MaxBackoff,     \* doublings of the reconnect delay until its cap
    MaxDialFails,   \* failed dials
    MaxWrites,      \* versions written while the loop runs
    MaxNoise,       \* events of other users, and ones that do not parse
    MaxTriggers,    \* TriggerSync calls
    Intervals       \* sync intervals a configuration may name

ASSUME BoundsAssumption ==
    /\ {MaxSubs, MaxBackoff, MaxDialFails, MaxWrites, MaxNoise, MaxTriggers}
           \subseteq Nat
    /\ ChanCap \in Nat \ {0}
ASSUME IntervalsAssumption == Intervals # {}

Subs == 1..MaxSubs
Messages == {"mine", "other", "junk"}

VARIABLES
    alive,      \* ctx is not cancelled
    loop,       \* where RunLoop is
    fetched,    \* version the cycle in progress has read
    eventRef,   \* the subscription eventCh belongs to; 0 is nil
    errRef,     \* the subscription errCh belongs to; 0 is nil
    nsubs,      \* subscriptions opened so far
    sub,        \* the pipelines
    timers,     \* reconnect goroutines waiting out their delay
    reconnect,  \* reconnectCh holds a signal
    backoff,    \* reconnectDelay, as a power of two
    ticker,     \* interval the ticker runs at
    interval,   \* cfg.Sync.Interval
    nudge,      \* cfgCh holds a nudge
    trigger,    \* triggerCh holds a request
    ver,        \* current version of the secret
    synced,     \* version the target holds
    spent       \* how often each bounded thing has happened

chans == <<eventRef, errRef, nsubs, sub>>
retry == <<timers, reconnect, backoff>>
tempo == <<ticker, interval, nudge, trigger>>
loopVars == <<alive, loop, fetched, chans, retry, tempo, ver, synced, spent>>

Pipeline == [wire: Seq(Messages), raw: Seq(Messages), filtered: Nat,
             reading: BOOLEAN, err: BOOLEAN, filtering: BOOLEAN]
Closed == [wire |-> <<>>, raw |-> <<>>, filtered |-> 0,
           reading |-> FALSE, err |-> FALSE, filtering |-> FALSE]
Opened == [Closed EXCEPT !.reading = TRUE, !.filtering = TRUE]

Used == [dials: 0..MaxDialFails, noise: 0..MaxNoise, triggers: 0..MaxTriggers]

LoopTypes ==
    /\ alive \in BOOLEAN
    /\ loop \in {"initial", "connect", "select", "cycle", "exited"}
    /\ fetched \in Nat /\ ver \in Nat /\ synced \in Nat
    /\ eventRef \in 0..MaxSubs /\ errRef \in 0..MaxSubs
    /\ nsubs \in 0..MaxSubs
    /\ sub \in [Subs -> Pipeline]
    /\ \A s \in Subs : Len(sub[s].raw) <= ChanCap /\ sub[s].filtered <= ChanCap
    /\ timers \in Nat /\ reconnect \in BOOLEAN /\ backoff \in 0..MaxBackoff
    /\ ticker \in Intervals /\ interval \in Intervals
    /\ nudge \in BOOLEAN /\ trigger \in BOOLEAN
    /\ spent \in Used

LoopInit ==
    /\ alive = TRUE /\ loop = "initial"
    /\ fetched = 1 /\ ver = 1 /\ synced = 0
    /\ eventRef = 0 /\ errRef = 0 /\ nsubs = 0
    /\ sub = [s \in Subs |-> Closed]
    /\ timers = 0 /\ reconnect = FALSE /\ backoff = 0
    /\ ticker \in Intervals /\ interval = ticker
    /\ nudge = FALSE /\ trigger = FALSE
    /\ spent = [dials |-> 0, noise |-> 0, triggers |-> 0]

Use(what, max) == /\ spent[what] < max
                  /\ spent' = [spent EXCEPT ![what] = @ + 1]

-----------------------------------------------------------------------------
(* The loop.                                                               *)

\* The initial RunOnce is over, or a cycle is: its secret is in the target.
CycleDone ==
    /\ loop \in {"initial", "cycle"}
    /\ synced' = fetched
    /\ loop' = IF loop = "initial" THEN "connect" ELSE "select"
    /\ UNCHANGED <<alive, fetched, chans, retry, tempo, ver, spent>>

\* trySubscribeEvents succeeds: a new pipeline, of which the loop takes both
\* channels.
Subscribed ==
    /\ nsubs < MaxSubs
    /\ nsubs' = nsubs + 1
    /\ sub' = [sub EXCEPT ![nsubs'] = Opened]
    /\ eventRef' = nsubs'
    /\ errRef' = nsubs'

\* Head of runLoopAfterInitial: subscribe if the server is Enterprise.  When
\* it is not, when its health cannot be read or when the first dial fails the
\* loop only polls from then on.
Connect ==
    /\ loop = "connect"
    /\ loop' = "select"
    /\ ticker' = interval
    /\ Subscribed \/ UNCHANGED chans
    /\ UNCHANGED <<alive, fetched, retry, interval, nudge, trigger, ver, synced,
                   spent>>

\* RunOnce begins, and reads the secret.
BeginCycle == /\ loop = "select"
              /\ loop' = "cycle"
              /\ fetched' = ver
              /\ UNCHANGED <<alive, chans, retry, ver, synced, spent>>

\* Mutant: a loop that trusts its events alone.
OnTickUnsubscribed == eventRef = 0 /\ BeginCycle /\ UNCHANGED tempo

\* The poll, whether or not events are flowing.
OnTick == BeginCycle /\ UNCHANGED tempo

OnTrigger == /\ trigger
             /\ trigger' = FALSE
             /\ BeginCycle
             /\ UNCHANGED <<ticker, interval, nudge>>

\* cfgCh: the ticker is reset to the interval in force now.
OnNudge == /\ loop = "select" /\ nudge
           /\ nudge' = FALSE
           /\ ticker' = interval
           /\ UNCHANGED <<alive, loop, fetched, chans, retry, interval, trigger,
                          ver, synced, spent>>

\* An event: syncRuleByPath runs like a cycle.
OnEvent == /\ eventRef # 0
           /\ sub[eventRef].filtered > 0
           /\ sub' = [sub EXCEPT ![eventRef].filtered = @ - 1]
           /\ loop = "select"
           /\ loop' = "cycle"
           /\ fetched' = ver
           /\ UNCHANGED <<alive, eventRef, errRef, nsubs, retry, tempo, ver,
                          synced, spent>>

\* A reconnect goroutine sleeps out the current delay, and the delay doubles.
Schedule == /\ timers' = timers + 1
            /\ backoff' = IF backoff < MaxBackoff THEN backoff + 1
                          ELSE MaxBackoff

\* Mutant: a closed event channel schedules a reconnect of its own.
OnEventClosedReconnects ==
    /\ loop = "select" /\ eventRef # 0
    /\ sub[eventRef].filtered = 0 /\ ~sub[eventRef].filtering
    /\ eventRef' = 0
    /\ Schedule
    /\ UNCHANGED <<alive, loop, fetched, errRef, nsubs, sub, reconnect, tempo, ver,
                   synced, spent>>

\* The filter closed its channel: poll only.
OnEventClosed == /\ loop = "select" /\ eventRef # 0
                 /\ sub[eventRef].filtered = 0 /\ ~sub[eventRef].filtering
                 /\ eventRef' = 0
                 /\ UNCHANGED <<alive, loop, fetched, errRef, nsubs, sub, retry,
                                tempo, ver, synced, spent>>

\* Mutant: the loop keeps its error channel.
OnErrKeepsChannel ==
    /\ loop = "select" /\ errRef # 0 /\ sub[errRef].err
    /\ sub' = [sub EXCEPT ![errRef].err = FALSE]
    /\ eventRef' = 0
    /\ Schedule
    /\ UNCHANGED <<alive, loop, fetched, errRef, nsubs, reconnect, tempo, ver,
                   synced, spent>>

\* The reader reported a broken connection.  (A receive from an error channel
\* closed without one changes nothing.)
OnErr == /\ loop = "select" /\ errRef # 0 /\ sub[errRef].err
         /\ sub' = [sub EXCEPT ![errRef].err = FALSE]
         /\ eventRef' = 0 /\ errRef' = 0
         /\ Schedule
         /\ UNCHANGED <<alive, loop, fetched, nsubs, reconnect, tempo, ver, synced,
                        spent>>

\* A delay is over; the signal is dropped if one is pending.
TimerFires == /\ timers > 0
              /\ timers' = timers - 1
              /\ reconnect' = (reconnect \/ alive)
              /\ UNCHANGED <<alive, loop, fetched, chans, backoff, tempo, ver,
                             synced, spent>>

\* Mutant: a dial that fails again is not retried.
OnReconnectGivesUp ==
    /\ loop = "select" /\ reconnect
    /\ reconnect' = FALSE
    /\ \/ Subscribed /\ backoff' = 0 /\ UNCHANGED <<timers, spent>>
       \/ /\ Use("dials", MaxDialFails)
          /\ UNCHANGED <<chans, timers, backoff>>
    /\ UNCHANGED <<alive, loop, fetched, tempo, ver, synced>>

\* reconnectCh: dial on the loop's own goroutine; a failure schedules another
\* attempt, a success resets the backoff.
OnReconnect ==
    /\ loop = "select" /\ reconnect
    /\ reconnect' = FALSE
    /\ \/ Subscribed /\ backoff' = 0 /\ UNCHANGED <<timers, spent>>
       \/ Use("dials", MaxDialFails) /\ Schedule /\ UNCHANGED chans
    /\ UNCHANGED <<alive, loop, fetched, tempo, ver, synced>>

OnDone == /\ loop = "select" /\ ~alive
          /\ loop' = "exited"
          /\ UNCHANGED <<alive, fetched, chans, retry, tempo, ver, synced, spent>>

-----------------------------------------------------------------------------
(* The pipeline of subscription s, and its callers.                        *)

others == <<alive, loop, fetched, eventRef, errRef, nsubs, retry, tempo, ver,
            synced, spent>>

\* The reader takes a message; one that does not parse is skipped.
ReadMessage(s) ==
    /\ sub[s].reading /\ sub[s].wire # <<>>
    /\ LET m == Head(sub[s].wire)
           rest == [sub[s] EXCEPT !.wire = Tail(@)] IN
       \/ m = "junk" /\ sub' = [sub EXCEPT ![s] = rest]
       \/ /\ m # "junk" /\ Len(sub[s].raw) < ChanCap
          /\ sub' = [sub EXCEPT ![s] = [rest EXCEPT !.raw = Append(@, m)]]
    /\ UNCHANGED others

\* The connection breaks, or the context ends: the reader leaves an error only
\* in the first case, and closes its channels.  (The bound on connections:
\* the last one does not break.)
StreamFails(s) ==
    /\ sub[s].reading
    /\ alive => s < MaxSubs
    /\ sub' = [sub EXCEPT ![s] = [@ EXCEPT !.reading = FALSE, !.wire = <<>>,
                                           !.err = alive]]
    /\ UNCHANGED others

\* The filter goroutine: a send on a full channel blocks it.
Filter(s) ==
    /\ sub[s].filtering /\ sub[s].raw # <<>>
    /\ LET m == Head(sub[s].raw)
           rest == [sub[s] EXCEPT !.raw = Tail(@)] IN
       \/ m # "mine" /\ sub' = [sub EXCEPT ![s] = rest]
       \/ /\ m = "mine" /\ sub[s].filtered < ChanCap
          /\ sub' = [sub EXCEPT ![s] = [rest EXCEPT !.filtered = @ + 1]]
    /\ UNCHANGED others

FilterEnds(s) ==
    /\ sub[s].filtering /\ sub[s].raw = <<>> /\ ~sub[s].reading
    /\ sub' = [sub EXCEPT ![s].filtering = FALSE]
    /\ UNCHANGED others

\* Vault sends a message to every open connection.
Sent(m) == [s \in Subs |-> IF sub[s].reading
                           THEN [sub[s] EXCEPT !.wire = Append(@, m)]
                           ELSE sub[s]]

VaultWrite == /\ ver <= MaxWrites
              /\ ver' = ver + 1
              /\ sub' = Sent("mine")
              /\ UNCHANGED <<alive, loop, fetched, eventRef, errRef, nsubs, retry,
                             tempo, synced, spent>>

Noise == /\ \E m \in Messages \ {"mine"} : sub' = Sent(m)
         /\ Use("noise", MaxNoise)
         /\ UNCHANGED <<alive, loop, fetched, eventRef, errRef, nsubs, retry,
                        tempo, ver, synced>>

\* UpdateConfig changes the interval and nudges the loop.
UpdateInterval == /\ loop # "exited"
                  /\ \E i \in Intervals \ {interval} : interval' = i
                  /\ nudge' = TRUE
                  /\ Use("triggers", MaxTriggers)
                  /\ UNCHANGED <<alive, loop, fetched, chans, retry, ticker,
                                 trigger, ver, synced>>

TriggerSync == /\ loop # "exited"
               /\ trigger' = TRUE
               /\ Use("triggers", MaxTriggers)
               /\ UNCHANGED <<alive, loop, fetched, chans, retry, ticker,
                              interval, nudge, ver, synced>>

Cancel == /\ alive
          /\ alive' = FALSE
          /\ UNCHANGED <<loop, fetched, chans, retry, tempo, ver, synced, spent>>

-----------------------------------------------------------------------------

LoopNext ==
    \/ CycleDone \/ Connect
    \/ OnTick \/ OnTrigger \/ OnNudge \/ OnEvent \/ OnEventClosed \/ OnErr
    \/ OnReconnect \/ OnDone
    \/ TimerFires
    \/ \E s \in Subs : \/ ReadMessage(s) \/ StreamFails(s)
                       \/ Filter(s) \/ FilterEnds(s)
    \/ VaultWrite \/ Noise \/ UpdateInterval \/ TriggerSync \/ Cancel

LoopSafety == LoopInit /\ [][LoopNext]_loopVars

\* Go's select picks at random among the ready cases, so a case that is ready
\* again and again is taken; the goroutines are scheduled.
LoopFairness ==
    /\ WF_loopVars(CycleDone) /\ WF_loopVars(Connect) /\ WF_loopVars(TimerFires)
    /\ SF_loopVars(OnTick) /\ SF_loopVars(OnTrigger) /\ SF_loopVars(OnNudge)
    /\ SF_loopVars(OnEventClosed) /\ SF_loopVars(OnErr) /\ SF_loopVars(OnReconnect)
    /\ SF_loopVars(OnDone)
    /\ \A s \in Subs : WF_loopVars(ReadMessage(s)) /\ WF_loopVars(Filter(s))
                       /\ WF_loopVars(FilterEnds(s))

LoopSpec == LoopSafety /\ LoopFairness

-----------------------------------------------------------------------------
(* Properties.                                                             *)

\* A broken subscription is being replaced by one attempt, never by two: a
\* live one has no attempt pending, so no pipeline is leaked by a second dial.
OneAttempt ==
    /\ timers + (IF reconnect THEN 1 ELSE 0) <= 1
    /\ eventRef # 0 => timers = 0 /\ ~reconnect

\* While the daemon runs the select never finds a closed, empty error channel,
\* which would be ready for ever and spin the loop.
NoSpin == alive /\ errRef # 0 => sub[errRef].reading \/ sub[errRef].err

\* Once a subscription has worked, the daemon always gets back to one.
Resubscribes == <>[](alive /\ nsubs > 0 => eventRef = nsubs)

\* A write reaches the target although its event is lost, dropped with a
\* broken subscription or arrives while a cycle is already running.
CatchesUp == \A n \in 1..(MaxWrites + 1) :
                 ver = n ~> (synced >= n \/ ~alive)

\* What runLoopAfterInitial's select relies on: well-formed channels and timers,
\* one attempt at a time, nothing that is ready for ever.
LoopSound == LoopTypes /\ OneAttempt /\ NoSpin

\* What it owes through broken connections and lost events.
LoopRecovers == Resubscribes /\ CatchesUp
=============================================================================
