---------------------------- MODULE EventProofs -----------------------------
(***************************************************************************)
(* The invariants of the two parts that follow Vault's events over a       *)
(* connection that breaks, the sync engine's loop and a Docker volume, for *)
(* any number of connections, writes, containers and faults.               *)
(***************************************************************************)
EXTENDS EventLoop, DockerVolume, TLAPS

(***************************************************************************)
(* 1. The event/poll loop.  A subscription that the loop has, an attempt   *)
(* that sleeps and one that is signalled exclude each other.               *)
(***************************************************************************)

\* Before the loop subscribes for the first time there is nothing to lose.
NotYet == loop \in {"initial", "connect"} =>
              errRef = 0 /\ eventRef = 0 /\ timers = 0 /\ ~reconnect

\* A loop that has an error channel tries no other connection, and the events
\* it listens to come from the pipeline whose error channel it has.
Exclusive ==
    /\ ~(timers > 0 /\ reconnect) /\ timers <= 1
    /\ errRef # 0 => timers = 0 /\ ~reconnect
    /\ eventRef # 0 => eventRef = errRef

LoopInv == LoopTypes /\ NotYet /\ Exclusive /\ NoSpin

LEMMA LoopBegins == LoopInit => LoopInv
<1> SUFFICES ASSUME LoopInit PROVE LoopInv
  OBVIOUS
<1>1. Closed \in Pipeline /\ Len(Closed.raw) = 0 /\ Closed.filtered = 0
  BY DEF Closed, Pipeline
<1>2. /\ MaxSubs \in Nat /\ ChanCap \in Nat /\ MaxBackoff \in Nat
      /\ 0 \in 0..MaxDialFails /\ 0 \in 0..MaxNoise /\ 0 \in 0..MaxTriggers
  BY BoundsAssumption
<1>3. spent \in Used
  BY <1>2 DEF LoopInit, Used
<1>4. sub \in [Subs -> Pipeline] /\ \A s \in Subs : sub[s] = Closed
  BY <1>1 DEF LoopInit
<1> HIDE DEF Closed
<1>5. \A s \in Subs : Len(sub[s].raw) <= ChanCap /\ sub[s].filtered <= ChanCap
  BY <1>1, <1>2, <1>4, BoundsAssumption
<1>6. LoopTypes
  <2>1. /\ eventRef \in 0..MaxSubs /\ errRef \in 0..MaxSubs /\ nsubs \in 0..MaxSubs
        /\ backoff \in 0..MaxBackoff
    BY <1>2 DEF LoopInit
  <2>2. /\ alive \in BOOLEAN /\ loop = "initial"
        /\ fetched \in Nat /\ ver \in Nat /\ synced \in Nat
        /\ timers \in Nat /\ reconnect \in BOOLEAN
        /\ ticker \in Intervals /\ interval \in Intervals
        /\ nudge \in BOOLEAN /\ trigger \in BOOLEAN
    BY DEF LoopInit
  <2> QED
    BY <1>3, <1>4, <1>5, <2>1, <2>2 DEF LoopTypes
<1> QED
  BY <1>6 DEF LoopInit, LoopInv, NotYet, Exclusive, NoSpin

(* A counted thing stays within its bound. *)
LEMMA UseKeepsBounds ==
    ASSUME LoopTypes,
           \/ Use("dials", MaxDialFails) \/ Use("noise", MaxNoise)
           \/ Use("triggers", MaxTriggers)
    PROVE  spent' \in Used
<1>1. spent \in [dials : 0..MaxDialFails, noise : 0..MaxNoise, triggers : 0..MaxTriggers]
  BY DEF LoopTypes, Used
<1>2. MaxDialFails \in Nat /\ MaxNoise \in Nat /\ MaxTriggers \in Nat
  BY BoundsAssumption
<1>3. CASE Use("dials", MaxDialFails)
  <2>1. spent.dials + 1 \in 0..MaxDialFails
    BY <1>1, <1>2, <1>3 DEF Use
  <2> QED
    BY <1>1, <1>3, <2>1 DEF Use, Used
<1>4. CASE Use("noise", MaxNoise)
  <2>1. spent.noise + 1 \in 0..MaxNoise
    BY <1>1, <1>2, <1>4 DEF Use
  <2> QED
    BY <1>1, <1>4, <2>1 DEF Use, Used
<1>5. CASE Use("triggers", MaxTriggers)
  <2>1. spent.triggers + 1 \in 0..MaxTriggers
    BY <1>1, <1>2, <1>5 DEF Use
  <2> QED
    BY <1>1, <1>5, <2>1 DEF Use, Used
<1> QED
  BY <1>3, <1>4, <1>5

(* A new subscription is open, and the loop has both its channels. *)
LEMMA SubscribedKeeps ==
    ASSUME LoopTypes, Subscribed
    PROVE  /\ nsubs' \in 1..MaxSubs /\ eventRef' = nsubs' /\ errRef' = nsubs'
           /\ sub' \in [Subs -> Pipeline]
           /\ \A s \in Subs : Len(sub'[s].raw) <= ChanCap /\ sub'[s].filtered <= ChanCap
           /\ sub'[errRef'].reading
<1>1. nsubs \in 0..MaxSubs /\ MaxSubs \in Nat /\ ChanCap \in Nat \ {0}
  BY BoundsAssumption DEF LoopTypes
<1>2. nsubs' \in 1..MaxSubs /\ eventRef' = nsubs' /\ errRef' = nsubs'
  BY <1>1 DEF Subscribed
<1>3. /\ Opened \in Pipeline /\ Opened.reading
      /\ Len(Opened.raw) = 0 /\ Opened.filtered = 0
  <2>1. Closed \in Pipeline
    BY DEF Closed, Pipeline
  <2>2. Opened \in Pipeline
    BY <2>1 DEF Opened, Pipeline
  <2>3. Opened.reading /\ Opened.filtered = 0 /\ Opened.raw = <<>>
    BY DEF Opened, Closed
  <2> QED
    BY <2>2, <2>3
<1>4. sub' = [sub EXCEPT ![nsubs'] = Opened] /\ nsubs' \in Subs
  BY <1>2 DEF Subscribed, Subs
<1> HIDE DEF Opened
<1> QED
  BY <1>1, <1>2, <1>3, <1>4 DEF LoopTypes

(* A step of the pipelines that neither ends a reader nor takes an error. *)
LEMMA PipelinesMove ==
    ASSUME LoopInv, UNCHANGED <<alive, loop, fetched, eventRef, errRef, nsubs, retry, tempo, synced>>,
           ver' \in Nat, spent' \in Used,
           sub' \in [Subs -> Pipeline],
           \A s \in Subs : /\ Len(sub'[s].raw) <= ChanCap /\ sub'[s].filtered <= ChanCap
                           /\ \/ sub'[s].reading = sub[s].reading /\ sub'[s].err = sub[s].err
                              \/ ~sub'[s].reading /\ (alive => sub'[s].err)
    PROVE  LoopInv'
<1>1. LoopTypes'
  BY DEF LoopInv, LoopTypes, retry, tempo
<1>2. NoSpin'
  BY DEF LoopInv, LoopTypes, NoSpin, Subs
<1> QED
  BY <1>1, <1>2 DEF LoopInv, NotYet, Exclusive, retry

(* One pipeline changes. *)
LEMMA PipelineMoves ==
    ASSUME LoopInv, UNCHANGED others, NEW s \in Subs, NEW x \in Pipeline,
           sub' = [sub EXCEPT ![s] = x],
           Len(x.raw) <= ChanCap, x.filtered <= ChanCap,
           \/ x.reading = sub[s].reading /\ x.err = sub[s].err
           \/ ~x.reading /\ (alive => x.err)
    PROVE  LoopInv'
<1>1. /\ sub' \in [Subs -> Pipeline]
      /\ \A t \in Subs : sub'[t] = IF t = s THEN x ELSE sub[t]
  BY DEF LoopInv, LoopTypes
<1>2. \A t \in Subs : Len(sub[t].raw) <= ChanCap /\ sub[t].filtered <= ChanCap
  BY DEF LoopInv, LoopTypes
<1>3. ver' \in Nat /\ spent' \in Used
  BY DEF LoopInv, LoopTypes, others
<1>4. UNCHANGED <<alive, loop, fetched, eventRef, errRef, nsubs, retry, tempo, synced>>
  BY DEF others
<1> QED
  BY <1>1, <1>2, <1>3, <1>4, PipelinesMove

(* The reader and the filter goroutine of one subscription *)
LEMMA PipelineSteps ==
    ASSUME LoopInv, NEW s \in Subs,
           ReadMessage(s) \/ StreamFails(s) \/ Filter(s) \/ FilterEnds(s)
    PROVE  LoopInv'
<1>1. /\ sub[s] \in Pipeline /\ ChanCap \in Nat \ {0}
      /\ Len(sub[s].raw) <= ChanCap /\ sub[s].filtered <= ChanCap
      /\ alive \in BOOLEAN
  BY BoundsAssumption DEF LoopInv, LoopTypes
<1>2. CASE ReadMessage(s)
  <2> DEFINE m == Head(sub[s].wire)
             skipped == [sub[s] EXCEPT !.wire = Tail(@)]
             taken == [skipped EXCEPT !.raw = Append(@, m)]
  <2>1. sub[s].wire \in Seq(Messages) /\ sub[s].wire # <<>> /\ UNCHANGED others
    BY <1>1, <1>2 DEF ReadMessage, Pipeline
  <2>2. m \in Messages /\ Tail(sub[s].wire) \in Seq(Messages)
    BY <2>1
  <2>3. CASE sub' = [sub EXCEPT ![s] = skipped]
    <3>1. skipped \in Pipeline /\ skipped.raw = sub[s].raw /\ skipped.filtered = sub[s].filtered
          /\ skipped.reading = sub[s].reading /\ skipped.err = sub[s].err
      BY <1>1, <2>2 DEF Pipeline
    <3> HIDE DEF skipped
    <3> QED
      BY <1>1, <2>1, <2>3, <3>1, PipelineMoves
  <2>4. CASE Len(sub[s].raw) < ChanCap /\ sub' = [sub EXCEPT ![s] = taken]
    <3>1. /\ taken \in Pipeline /\ taken.raw = Append(sub[s].raw, m)
          /\ taken.filtered = sub[s].filtered
          /\ taken.reading = sub[s].reading /\ taken.err = sub[s].err
      <4>1. skipped \in Pipeline /\ skipped.raw = sub[s].raw /\ skipped.filtered = sub[s].filtered
            /\ skipped.reading = sub[s].reading /\ skipped.err = sub[s].err
        BY <1>1, <2>2 DEF Pipeline
      <4> HIDE DEF skipped, m
      <4>2. Append(skipped.raw, m) \in Seq(Messages)
        BY <2>2, <4>1 DEF Pipeline
      <4> QED
        BY <4>1, <4>2 DEF Pipeline
    <3>2. Len(taken.raw) <= ChanCap
      BY <1>1, <2>2, <2>4, <3>1 DEF Pipeline
    <3> HIDE DEF taken
    <3> QED
      BY <1>1, <2>1, <2>4, <3>1, <3>2, PipelineMoves
  <2> QED
    BY <1>2, <2>3, <2>4 DEF ReadMessage
<1>3. CASE StreamFails(s)
  <2> DEFINE x == [sub[s] EXCEPT !.reading = FALSE, !.wire = <<>>, !.err = alive]
  <2>1. /\ x \in Pipeline /\ x.raw = sub[s].raw /\ x.filtered = sub[s].filtered
        /\ ~x.reading /\ (alive => x.err)
    <3>1. <<>> \in Seq(Messages)
      OBVIOUS
    <3>2. x \in Pipeline
      BY <1>1, <3>1 DEF Pipeline
    <3>3. x.reading = FALSE /\ x.err = alive
      BY <1>1 DEF Pipeline
    <3>4. x.raw = sub[s].raw /\ x.filtered = sub[s].filtered
      BY <1>1 DEF Pipeline
    <3> HIDE DEF x
    <3> QED
      BY <3>2, <3>3, <3>4
  <2>2. sub' = [sub EXCEPT ![s] = x] /\ UNCHANGED others
    BY <1>3 DEF StreamFails
  <2> HIDE DEF x
  <2> QED
    BY <1>1, <2>1, <2>2, PipelineMoves
<1>4. CASE Filter(s)
  <2> DEFINE dropped == [sub[s] EXCEPT !.raw = Tail(@)]
             passed == [dropped EXCEPT !.filtered = @ + 1]
  <2>1. sub[s].raw \in Seq(Messages) /\ sub[s].raw # <<>> /\ UNCHANGED others
    BY <1>1, <1>4 DEF Filter, Pipeline
  <2>2. Tail(sub[s].raw) \in Seq(Messages) /\ Len(Tail(sub[s].raw)) <= ChanCap
    BY <1>1, <2>1
  <2>3. CASE sub' = [sub EXCEPT ![s] = dropped]
    <3>1. /\ dropped \in Pipeline /\ dropped.raw = Tail(sub[s].raw)
          /\ dropped.filtered = sub[s].filtered
          /\ dropped.reading = sub[s].reading /\ dropped.err = sub[s].err
      BY <1>1, <2>2 DEF Pipeline
    <3> HIDE DEF dropped
    <3> QED
      BY <1>1, <2>1, <2>2, <2>3, <3>1, PipelineMoves
  <2>4. CASE sub[s].filtered < ChanCap /\ sub' = [sub EXCEPT ![s] = passed]
    <3>1. /\ passed \in Pipeline /\ passed.raw = Tail(sub[s].raw)
          /\ passed.filtered = sub[s].filtered + 1
          /\ passed.reading = sub[s].reading /\ passed.err = sub[s].err
      <4>1. /\ dropped \in Pipeline /\ dropped.raw = Tail(sub[s].raw)
            /\ dropped.filtered = sub[s].filtered
            /\ dropped.reading = sub[s].reading /\ dropped.err = sub[s].err
        BY <1>1, <2>2 DEF Pipeline
      <4> HIDE DEF dropped
      <4>2. dropped.filtered + 1 \in Nat
        BY <4>1 DEF Pipeline
      <4> QED
        BY <4>1, <4>2 DEF Pipeline
    <3>2. passed.filtered <= ChanCap
      BY <1>1, <2>4, <3>1 DEF Pipeline
    <3> HIDE DEF passed
    <3> QED
      BY <1>1, <2>1, <2>2, <2>4, <3>1, <3>2, PipelineMoves
  <2> QED
    BY <1>4, <2>3, <2>4 DEF Filter
<1>5. CASE FilterEnds(s)
  <2> DEFINE x == [sub[s] EXCEPT !.filtering = FALSE]
  <2>1. /\ x \in Pipeline /\ x.raw = sub[s].raw /\ x.filtered = sub[s].filtered
        /\ x.reading = sub[s].reading /\ x.err = sub[s].err
    BY <1>1 DEF Pipeline
  <2>2. sub' = [sub EXCEPT ![s] = x] /\ UNCHANGED others
    BY <1>5 DEF FilterEnds
  <2> HIDE DEF x
  <2> QED
    BY <1>1, <2>1, <2>2, PipelineMoves
<1> QED
  BY <1>2, <1>3, <1>4, <1>5

(* A message to every open connection lengthens what is on the wire. *)
LEMMA SentKeeps ==
    ASSUME LoopInv, NEW m \in Messages, sub' = Sent(m), ver' \in Nat, spent' \in Used,
           UNCHANGED <<alive, loop, fetched, eventRef, errRef, nsubs, retry, tempo, synced>>
    PROVE  LoopInv'
<1>1. ASSUME NEW s \in Subs
      PROVE  /\ sub'[s] \in Pipeline
             /\ Len(sub'[s].raw) <= ChanCap /\ sub'[s].filtered <= ChanCap
             /\ sub'[s].reading = sub[s].reading /\ sub'[s].err = sub[s].err
  <2>1. sub[s] \in Pipeline /\ Len(sub[s].raw) <= ChanCap /\ sub[s].filtered <= ChanCap
    BY DEF LoopInv, LoopTypes
  <2>2. CASE sub[s].reading
    <3>1. sub'[s] = [sub[s] EXCEPT !.wire = Append(@, m)]
      BY <2>2 DEF Sent
    <3>2. Append(sub[s].wire, m) \in Seq(Messages)
      BY <2>1 DEF Pipeline
    <3> QED
      BY <2>1, <3>1, <3>2 DEF Pipeline
  <2>3. CASE ~sub[s].reading
    <3>1. sub'[s] = sub[s]
      BY <2>3 DEF Sent
    <3> QED
      BY <2>1, <3>1
  <2> QED
    BY <2>2, <2>3
<1>2. sub' \in [Subs -> Pipeline]
  BY <1>1 DEF Sent
<1> QED
  BY <1>1, <1>2, PipelinesMove

(* What the loop's select can take *)
LEMMA SelectSteps ==
    ASSUME LoopInv,
           \/ CycleDone \/ Connect \/ OnTick \/ OnTrigger \/ OnNudge \/ OnEvent
           \/ OnEventClosed \/ OnErr \/ OnReconnect \/ OnDone
    PROVE  LoopInv'
<1>0. /\ LoopTypes
      /\ MaxBackoff \in Nat /\ MaxSubs \in Nat /\ ChanCap \in Nat \ {0}
  BY BoundsAssumption DEF LoopInv
<1>1. CASE CycleDone \/ OnDone
  <2>1. /\ UNCHANGED <<alive, fetched, chans, retry, tempo, ver, spent>>
        /\ synced' \in Nat /\ loop' \in {"connect", "select", "exited"}
        /\ loop' = "connect" => loop = "initial"
    BY <1>0, <1>1 DEF CycleDone, OnDone, LoopTypes
  <2>2. LoopTypes'
    BY <1>0, <2>1 DEF LoopTypes, chans, retry, tempo
  <2> QED
    BY <2>1, <2>2 DEF LoopInv, NotYet, Exclusive, NoSpin, chans, retry
<1>2. CASE Connect
  <2>1. /\ loop = "connect" /\ loop' = "select" /\ ticker' = interval
        /\ UNCHANGED <<alive, fetched, retry, interval, nudge, trigger, ver, synced, spent>>
        /\ errRef = 0 /\ eventRef = 0 /\ timers = 0 /\ ~reconnect
    BY <1>2 DEF Connect, LoopInv, NotYet
  <2>2. CASE Subscribed
    <3>1. LoopTypes'
      BY <1>0, <2>1, <2>2, SubscribedKeeps DEF LoopTypes, retry
    <3> QED
      BY <1>0, <2>1, <2>2, <3>1, SubscribedKeeps DEF LoopInv, NotYet, Exclusive, NoSpin, retry
  <2>3. CASE UNCHANGED chans
    <3>1. LoopTypes'
      BY <1>0, <2>1, <2>3 DEF LoopTypes, chans, retry
    <3> QED
      BY <2>1, <2>3, <3>1 DEF LoopInv, NotYet, Exclusive, NoSpin, chans, retry
  <2> QED
    BY <1>2, <2>2, <2>3 DEF Connect
<1>3. CASE OnTick \/ OnTrigger \/ OnNudge
  <2>1. /\ UNCHANGED <<alive, chans, retry, interval, ver, synced, spent>>
        /\ loop' \in {"cycle", "select"} /\ fetched' \in Nat
        /\ trigger' \in BOOLEAN /\ nudge' \in BOOLEAN /\ ticker' \in Intervals
    BY <1>0, <1>3 DEF OnTick, OnTrigger, OnNudge, BeginCycle, tempo, LoopTypes
  <2>2. LoopTypes'
    BY <1>0, <2>1 DEF LoopTypes, chans, retry
  <2> QED
    BY <2>1, <2>2 DEF LoopInv, NotYet, Exclusive, NoSpin, chans, retry
<1>4. CASE OnEvent
  <2> DEFINE x == [sub[eventRef] EXCEPT !.filtered = @ - 1]
  <2>1. /\ eventRef \in Subs /\ sub[eventRef].filtered > 0
        /\ sub' = [sub EXCEPT ![eventRef] = x]
        /\ loop' = "cycle" /\ fetched' = ver
        /\ UNCHANGED <<alive, eventRef, errRef, nsubs, retry, tempo, ver, synced, spent>>
    BY <1>0, <1>4 DEF OnEvent, LoopTypes, Subs
  <2>2. sub[eventRef] \in Pipeline
        /\ Len(sub[eventRef].raw) <= ChanCap /\ sub[eventRef].filtered <= ChanCap
    BY <1>0, <2>1 DEF LoopTypes
  <2>3. /\ x \in Pipeline /\ x.raw = sub[eventRef].raw
        /\ x.filtered = sub[eventRef].filtered - 1
        /\ x.reading = sub[eventRef].reading /\ x.err = sub[eventRef].err
    BY <2>1, <2>2 DEF Pipeline
  <2> HIDE DEF x
  <2>4. x.filtered <= ChanCap
    BY <1>0, <2>1, <2>2, <2>3 DEF Pipeline
  <2>5. LoopTypes'
    BY <1>0, <2>1, <2>2, <2>3, <2>4 DEF LoopTypes, retry, tempo
  <2>6. NoSpin'
    BY <1>0, <2>1, <2>3 DEF LoopInv, LoopTypes, NoSpin, Subs
  <2> QED
    BY <2>1, <2>5, <2>6 DEF LoopInv, NotYet, Exclusive, retry
<1>5. CASE OnEventClosed
  <2>1. eventRef' = 0 /\ UNCHANGED <<alive, loop, fetched, errRef, nsubs, sub, retry, tempo, ver,
                                     synced, spent>>
    BY <1>5 DEF OnEventClosed
  <2>2. LoopTypes'
    BY <1>0, <2>1 DEF LoopTypes, retry, tempo
  <2> QED
    BY <2>1, <2>2 DEF LoopInv, NotYet, Exclusive, NoSpin, retry
<1>6. CASE OnErr
  <2> DEFINE x == [sub[errRef] EXCEPT !.err = FALSE]
  <2>1. /\ errRef \in Subs /\ sub' = [sub EXCEPT ![errRef] = x]
        /\ loop = "select" /\ eventRef' = 0 /\ errRef' = 0 /\ timers' = timers + 1
        /\ backoff' \in 0..MaxBackoff /\ timers = 0 /\ ~reconnect
        /\ UNCHANGED <<alive, loop, fetched, nsubs, reconnect, tempo, ver, synced, spent>>
    BY <1>0, <1>6 DEF OnErr, Schedule, LoopInv, LoopTypes, Exclusive, Subs
  <2>2. /\ sub[errRef] \in Pipeline
        /\ Len(sub[errRef].raw) <= ChanCap /\ sub[errRef].filtered <= ChanCap
    BY <1>0, <2>1 DEF LoopTypes
  <2>3. x \in Pipeline /\ x.raw = sub[errRef].raw /\ x.filtered = sub[errRef].filtered
    BY <2>2 DEF Pipeline
  <2> HIDE DEF x
  <2>4. LoopTypes'
    BY <1>0, <2>1, <2>2, <2>3 DEF LoopTypes, tempo
  <2> QED
    BY <2>1, <2>4 DEF LoopInv, NotYet, Exclusive, NoSpin
<1>7. CASE OnReconnect
  <2>1. /\ loop = "select" /\ ~reconnect' /\ timers = 0 /\ errRef = 0 /\ eventRef = 0
        /\ UNCHANGED <<alive, loop, fetched, tempo, ver, synced>>
        /\ reconnect' \in BOOLEAN
    <3>1. /\ loop = "select" /\ reconnect /\ reconnect' = FALSE
          /\ UNCHANGED <<alive, loop, fetched, tempo, ver, synced>>
      BY <1>7 DEF OnReconnect
    <3>2. errRef = 0 /\ eventRef = 0 /\ ~(timers > 0)
      BY <3>1 DEF LoopInv, Exclusive
    <3>3. timers = 0
      BY <1>0, <3>2 DEF LoopTypes
    <3> QED
      BY <3>1, <3>2, <3>3
  <2>2. CASE Subscribed /\ backoff' = 0 /\ UNCHANGED <<timers, spent>>
    <3>1. LoopTypes'
      BY <1>0, <2>1, <2>2, SubscribedKeeps DEF LoopTypes, tempo
    <3> QED
      BY <1>0, <2>1, <2>2, <3>1, SubscribedKeeps DEF LoopInv, NotYet, Exclusive, NoSpin
  <2>3. CASE Use("dials", MaxDialFails) /\ Schedule /\ UNCHANGED chans
    <3>1. spent' \in Used
      BY <1>0, <2>3, UseKeepsBounds
    <3>2. timers' = 1 /\ backoff' \in 0..MaxBackoff
      BY <1>0, <2>1, <2>3 DEF Schedule, LoopTypes
    <3>3. LoopTypes'
      BY <1>0, <2>1, <2>3, <3>1, <3>2 DEF LoopTypes, chans, tempo
    <3> QED
      BY <2>1, <2>3, <3>2, <3>3 DEF LoopInv, NotYet, Exclusive, NoSpin, chans
  <2> QED
    BY <1>7, <2>2, <2>3 DEF OnReconnect
<1> QED
  BY <1>1, <1>2, <1>3, <1>4, <1>5, <1>6, <1>7

LEMMA LoopSteps == LoopInv /\ [LoopNext]_loopVars => LoopInv'
<1> SUFFICES ASSUME LoopInv, [LoopNext]_loopVars PROVE LoopInv'
  OBVIOUS
<1>0. LoopTypes
  BY DEF LoopInv
<1>1. CASE TimerFires
  <2>1. /\ timers > 0 /\ timers' = timers - 1 /\ reconnect' \in BOOLEAN
        /\ UNCHANGED <<alive, loop, fetched, chans, backoff, tempo, ver, synced, spent>>
    BY <1>0, <1>1 DEF TimerFires, LoopTypes
  <2>2. timers' = 0 /\ errRef = 0
    BY <1>0, <2>1 DEF LoopInv, LoopTypes, Exclusive
  <2>3. LoopTypes'
    BY <1>0, <2>1, <2>2 DEF LoopTypes, chans, tempo
  <2> QED
    BY <2>1, <2>2, <2>3 DEF LoopInv, NotYet, Exclusive, NoSpin, chans
<1>2. CASE VaultWrite
  <2>1. "mine" \in Messages
    BY DEF Messages
  <2>2. ver' \in Nat /\ spent' \in Used
    BY <1>0, <1>2 DEF VaultWrite, LoopTypes
  <2> QED
    BY <1>2, <2>1, <2>2, SentKeeps DEF VaultWrite
<1>3. CASE Noise
  <2>1. spent' \in Used
    BY <1>0, <1>3, UseKeepsBounds DEF Noise
  <2>2. ver' \in Nat
    BY <1>0, <1>3 DEF Noise, LoopTypes
  <2> QED
    BY <1>3, <2>1, <2>2, SentKeeps DEF Noise
<1>4. CASE UpdateInterval \/ TriggerSync
  <2>1. spent' \in Used
    BY <1>0, <1>4, UseKeepsBounds DEF UpdateInterval, TriggerSync
  <2>2. /\ UNCHANGED <<alive, loop, fetched, chans, retry, ticker, ver, synced>>
        /\ interval' \in Intervals /\ nudge' \in BOOLEAN /\ trigger' \in BOOLEAN
    BY <1>0, <1>4 DEF UpdateInterval, TriggerSync, LoopTypes
  <2>3. LoopTypes'
    BY <1>0, <2>1, <2>2 DEF LoopTypes, chans, retry
  <2> QED
    BY <2>2, <2>3 DEF LoopInv, NotYet, Exclusive, NoSpin, chans, retry
<1>5. CASE Cancel \/ UNCHANGED loopVars
  <2>1. /\ UNCHANGED <<loop, fetched, chans, retry, tempo, ver, synced, spent>>
        /\ alive' \in BOOLEAN /\ (alive' => alive)
    <3>1. CASE Cancel
      BY <3>1 DEF Cancel
    <3>2. CASE UNCHANGED loopVars
      BY <1>0, <3>2 DEF loopVars, LoopTypes
    <3> QED
      BY <1>5, <3>1, <3>2
  <2>2. LoopTypes'
    BY <1>0, <2>1 DEF LoopTypes, chans, retry, tempo
  <2> QED
    BY <2>1, <2>2 DEF LoopInv, NotYet, Exclusive, NoSpin, chans, retry
<1> QED
  BY <1>1, <1>2, <1>3, <1>4, <1>5, SelectSteps, PipelineSteps DEF LoopNext

(* Through any number of connections, broken reads and failed dials: the   *)
(* loop works on one attempt at a time and never while it has a            *)
(* subscription, and its select has nothing that is ready for ever         *)
(* (runLoopAfterInitial, trySubscribeEvents).                              *)
THEOREM LoopStaysSound == LoopSpec => []LoopSound
<1>1. LoopInv => LoopSound
  BY DEF LoopInv, LoopSound, OneAttempt, Exclusive, LoopTypes
<1> QED
  BY <1>1, LoopBegins, LoopSteps, PTL DEF LoopSpec, LoopSafety

(***************************************************************************)
(* 2. A Docker volume.  Whatever is on disk is somebody's: of a container  *)
(* that holds the volume, of a wipe that has yet to run, or of a first     *)
(* mount that has yet to register.                                         *)
(***************************************************************************)
Held == vol.known /\ vol.mounts # {}

Wiping == remove = "wipe" \/ \E c \in Containers : request[c].pc = "wipe"

Registering == \E c \in Containers : request[c].pc = "own" /\ request[c].filled

VolumeRecord ==
    [known : BOOLEAN, spec : Specs, mounts : SUBSET Containers, loop : {"off", "wait", "due"},
     nudge : BOOLEAN, pending : BOOLEAN, err : BOOLEAN]

SavedRecord ==
    [known : BOOLEAN, spec : Specs, mounts : SUBSET Containers, loop : {"off"},
     nudge : BOOLEAN, pending : BOOLEAN, err : BOOLEAN]

CallRecord ==
    [pc : {"idle", "lock", "read", "apply", "own", "join", "wipe"}, filled : BOOLEAN]

VolumeTypes ==
    /\ vol \in VolumeRecord /\ saved \in SavedRecord
    /\ request \in [Containers -> CallRecord]
    /\ store \in [Parts -> Nat]
    /\ op \in Containers \cup {"free", "loop", "stale"}

\* A loop runs for a volume that is held, and what it renders too; a loop that
\* was cancelled while it rendered has its wipe waiting for it.
LoopsOwned ==
    /\ vol.loop # "off" => Held
    /\ op = "loop" => vol.loop # "off"
    /\ op = "stale" => Wiping

\* What is about to be written was read from Vault.
ContentRead ==
    op \in {"loop", "stale"} \/ (\E c \in Containers : request[c].pc = "apply")
        => content # NoDir

\* A daemon that is down has no state but what it saved.
DownForgets == ~Up => vol = NoVolume /\ op = "free" /\ \A c \in Containers : request[c] = Silent

DirOwned == Up => dir \in {NoDir, Broken} \/ Held \/ Wiping \/ Registering

VolumeInv == VolumeTypes /\ LoopsOwned /\ ContentRead /\ DownForgets /\ DirOwned

LEMMA NoVolumeType ==
    /\ NoVolume \in SavedRecord /\ NoVolume \in VolumeRecord
    /\ ~NoVolume.known /\ NoVolume.loop = "off" /\ NoVolume.mounts = {}
BY DEF NoVolume, SavedRecord, VolumeRecord, Specs

LEMMA SilentType == Silent \in CallRecord /\ Silent.pc = "idle" /\ ~Silent.filled
BY DEF Silent, CallRecord

LEMMA CreatedType ==
    ASSUME NEW spec \in Specs
    PROVE  /\ Created(spec) \in SavedRecord /\ Created(spec) \in VolumeRecord
           /\ Created(spec).known /\ Created(spec).loop = "off" /\ Created(spec).mounts = {}
BY NoVolumeType DEF Created, SavedRecord, VolumeRecord

(* What is saved of a volume is a volume without a loop. *)
LEMMA SaveType ==
    ASSUME NEW v \in VolumeRecord, saved \in SavedRecord, Save(v)
    PROVE  saved' \in SavedRecord
<1>1. v.spec \in Specs /\ v.known \in BOOLEAN /\ v.mounts \in SUBSET Containers
  BY DEF VolumeRecord
<1>2. [Created(v.spec) EXCEPT !.known = v.known, !.mounts = v.mounts] \in SavedRecord
  BY <1>1, CreatedType DEF SavedRecord
<1> QED
  BY <1>2 DEF Save

(* A rendering shows versions of parts, so it is no missing directory, and *)
(* neither is a directory that a failed render has emptied.                *)
LEMMA RenderIsThere == ASSUME store \in [Parts -> Nat] PROVE Render # NoDir
<1>1. "kv" \in Parts
  BY DEF Parts
<1>2. Render["kv"] \in Nat /\ NoDir["kv"] = -1
  BY <1>1 DEF Render, NoDir
<1> QED
  BY <1>2

LEMMA BrokenIsThere == Broken # NoDir
<1>1. "kv" \in Parts
  BY DEF Parts
<1>2. Broken["kv"] = 0 /\ NoDir["kv"] = -1
  BY <1>1 DEF Broken, NoDir
<1> QED
  BY <1>2

LEMMA VolumeBegins == DockerInit => VolumeInv
<1> SUFFICES ASSUME DockerInit PROVE VolumeInv
  OBVIOUS
<1>1. VolumeTypes
  BY NoVolumeType, SilentType DEF DockerInit, VolumeTypes, VolumeRecord, SavedRecord, CallRecord
<1>2. \A c \in Containers : request[c].pc = "idle"
  BY SilentType DEF DockerInit
<1> QED
  BY <1>1, <1>2, NoVolumeType
     DEF DockerInit, VolumeInv, LoopsOwned, ContentRead, DownForgets, DirOwned, Up

(* The parts of the invariant that a step has to restore, for a daemon that *)
(* runs before the step and after it, and what the step owes a container    *)
(* that holds the volume.                                                   *)
Running == VolumeTypes /\ LoopsOwned /\ ContentRead /\ DirOwned /\ Up

NeverTaken == dir # NoDir /\ dir' = NoDir => ~vol'.known \/ vol'.mounts = {}

(* The engine's calls up to the unlock of the driver's mutex *)
LEMMA RequestSteps ==
    ASSUME VolumeInv, EngineRequests
    PROVE  VolumeInv' /\ NeverTaken
<1>0. /\ Running
      /\ vol \in VolumeRecord /\ saved \in SavedRecord
      /\ request \in [Containers -> CallRecord]
  BY DEF EngineRequests, Create, RemoveVolume, MountStart, Unmount, VolumeInv, Running, VolumeTypes,
         VolumeRecord, SavedRecord, CallRecord
<1>1. ASSUME NEW spec \in Specs, Create(spec) PROVE VolumeInv' /\ NeverTaken
  <2>1. /\ vol' = Created(spec) /\ remove = "idle" /\ ~vol.known
        /\ UNCHANGED <<op, content, request, remove, dir, store, watch>>
        /\ \A c \in Containers : request[c].pc = "idle"
    BY <1>1, SilentType DEF Create
  <2>2. saved' \in SavedRecord
    BY <1>0, <1>1, <2>1, CreatedType, SaveType DEF Create
  <2>3. VolumeTypes'
    BY <1>0, <2>1, <2>2, CreatedType
       DEF Running, VolumeTypes, VolumeRecord, SavedRecord
  <2>4. dir \in {NoDir, Broken} /\ op # "loop" /\ op # "stale"
    BY <1>0, <2>1 DEF Running, DirOwned, LoopsOwned, Held, Wiping, Registering
  <2>5. Running'
    BY <1>0, <2>1, <2>3, <2>4, CreatedType
       DEF Running, LoopsOwned, ContentRead, DirOwned, Held, Up
  <2> QED
    BY <2>1, <2>5 DEF Running, VolumeInv, DownForgets, NeverTaken
<1>2. CASE RemoveVolume
  <2> DEFINE v == [vol EXCEPT !.known = FALSE]
             w == [v EXCEPT !.loop = "off"]
  <2>1. v \in VolumeRecord /\ ~v.known
    BY <1>0 DEF VolumeRecord
  <2>2. w \in VolumeRecord /\ ~w.known /\ w.loop = "off"
    BY <2>1 DEF VolumeRecord
  <2> HIDE DEF v
  <2>3. /\ vol' = w /\ remove' = "wipe"
        /\ op' = IF op = "loop" THEN "stale" ELSE op
        /\ Save(vol')
        /\ UNCHANGED <<content, request, dir, store, watch>>
    BY <1>2 DEF RemoveVolume, StopLoop, v
  <2> HIDE DEF w
  <2>4. saved' \in SavedRecord
    BY <1>0, <2>2, <2>3, SaveType
  <2>5. VolumeTypes'
    BY <1>0, <2>2, <2>3, <2>4 DEF Running, VolumeTypes, VolumeRecord, SavedRecord
  <2>6. Running'
    BY <1>0, <2>2, <2>3, <2>5
       DEF Running, LoopsOwned, ContentRead, DirOwned, Wiping, Up
  <2> QED
    BY <2>3, <2>6 DEF Running, VolumeInv, DownForgets, NeverTaken
<1>3. ASSUME NEW c \in Containers, MountStart(c) PROVE VolumeInv' /\ NeverTaken
  <2>1. PICK pc \in {"lock", "join"} :
          /\ request' = [request EXCEPT ![c].pc = pc] /\ request[c].pc = "idle"
          /\ UNCHANGED <<vol, op, content, remove, dir, saved, store, watch>>
    BY <1>3 DEF MountStart, worldVars
  <2>2. /\ request' \in [Containers -> CallRecord]
        /\ request'[c].pc = pc
        /\ \A k \in Containers \ {c} : request'[k] = request[k]
    BY <1>0, <2>1 DEF CallRecord
  <2>3. VolumeTypes'
    BY <1>0, <2>1, <2>2 DEF Running, VolumeTypes, CallRecord
  <2>4. (Wiping => Wiping') /\ (Registering => Registering')
    BY <2>1, <2>2 DEF Wiping, Registering
  <2>5. (\E k \in Containers : request'[k].pc = "apply") => \E k \in Containers : request[k].pc = "apply"
    BY <2>1, <2>2
  <2>6. Running'
    BY <1>0, <2>1, <2>3, <2>4, <2>5
       DEF Running, LoopsOwned, ContentRead, DirOwned, Held, Up
  <2> QED
    BY <2>1, <2>6 DEF Running, VolumeInv, DownForgets, NeverTaken
<1>4. ASSUME NEW c \in Containers, Unmount(c) PROVE VolumeInv' /\ NeverTaken
  <2> DEFINE v == [vol EXCEPT !.mounts = @ \ {c}]
             w == [v EXCEPT !.loop = "off"]
  <2>1. /\ v \in VolumeRecord /\ v.known = vol.known /\ v.mounts = vol.mounts \ {c}
        /\ v.loop = vol.loop
    BY <1>0 DEF VolumeRecord
  <2>2. w \in VolumeRecord /\ w.loop = "off" /\ w.known = vol.known /\ w.mounts = v.mounts
    BY <2>1 DEF VolumeRecord
  <2> HIDE DEF w
  <2>3. /\ vol.known /\ request[c].pc = "idle"
        /\ Save(vol') /\ UNCHANGED <<content, remove, dir, store, watch>>
    BY <1>4 DEF Unmount
  <2>4. CASE v.mounts # {} /\ vol' = v /\ UNCHANGED <<op, request>>
    <3> HIDE DEF v
    <3>1. saved' \in SavedRecord
      BY <1>0, <2>1, <2>3, <2>4, SaveType
    <3>2. VolumeTypes'
      BY <1>0, <2>1, <2>3, <2>4, <3>1 DEF Running, VolumeTypes, VolumeRecord, SavedRecord
    <3>3. Running'
      BY <1>0, <2>1, <2>3, <2>4, <3>2
         DEF Running, LoopsOwned, ContentRead, DirOwned, Held, Wiping, Registering, Up
    <3> QED
      BY <2>3, <3>3 DEF Running, VolumeInv, DownForgets, NeverTaken
  <2>5. CASE /\ v.mounts = {} /\ vol' = w /\ op' = IF op = "loop" THEN "stale" ELSE op
             /\ request' = [request EXCEPT ![c].pc = "wipe"]
    <3> HIDE DEF v
    <3>1. saved' \in SavedRecord
      BY <1>0, <2>2, <2>3, <2>5, SaveType
    <3>2. /\ request' \in [Containers -> CallRecord] /\ request'[c].pc = "wipe"
          /\ \A k \in Containers \ {c} : request'[k] = request[k]
      BY <1>0, <2>5 DEF CallRecord
    <3>3. VolumeTypes'
      BY <1>0, <2>2, <2>3, <2>5, <3>1, <3>2
         DEF Running, VolumeTypes, VolumeRecord, SavedRecord, CallRecord
    <3>4. Wiping'
      BY <3>2 DEF Wiping
    <3>5. ContentRead'
      BY <1>0, <2>3, <2>5, <3>2 DEF Running, ContentRead
    <3>6. Running'
      BY <1>0, <2>2, <2>3, <2>5, <3>3, <3>4, <3>5
         DEF Running, LoopsOwned, DirOwned, Up
    <3> QED
      BY <2>3, <3>6 DEF Running, VolumeInv, DownForgets, NeverTaken
  <2> QED
    BY <1>4, <2>4, <2>5 DEF Unmount, StopLoop, v, w
<1> QED
  BY <1>1, <1>2, <1>3, <1>4 DEF EngineRequests

(* One container's call moves on: what that owes the invariant. *)
LEMMA CallMoves ==
    ASSUME Running, NEW c \in Containers, NEW x \in CallRecord,
           request' = [request EXCEPT ![c] = x], request[c].pc # "wipe",
           UNCHANGED <<vol, remove, dir, saved, store, watch>>,
           op' \in Containers \cup {"free"} \/ op' = op,
           content' # NoDir \/ (content' = content /\ x.pc # "apply"),
           x.pc = "own" \/ request[c].pc # "own"
             \/ (dir \in {NoDir, Broken} \/ Held),
           x.filled = request[c].filled \/ request[c].pc # "own"
             \/ (dir \in {NoDir, Broken} \/ Held)
    PROVE  VolumeInv' /\ NeverTaken
<1>0. /\ vol \in VolumeRecord /\ request \in [Containers -> CallRecord]
  BY DEF Running, VolumeTypes, VolumeRecord, CallRecord
<1>1. /\ request' \in [Containers -> CallRecord] /\ request'[c] = x
      /\ \A k \in Containers \ {c} : request'[k] = request[k]
  BY <1>0
<1>2. op' # op => op' \notin {"loop", "stale"}
  BY MountIdsAssumption
<1>3. VolumeTypes'
  BY <1>1 DEF Running, VolumeTypes, CallRecord
<1>4. Wiping => Wiping'
  BY <1>1 DEF Wiping
<1>5. Registering => Registering' \/ dir \in {NoDir, Broken} \/ Held
  BY <1>1 DEF Registering
<1>6. LoopsOwned'
  BY <1>2, <1>4 DEF Running, LoopsOwned, Held
<1>7. ContentRead'
  BY <1>1, <1>2 DEF Running, ContentRead
<1>8. DirOwned'
  BY <1>4, <1>5 DEF Running, DirOwned, Held
<1>9. Running'
  BY <1>3, <1>6, <1>7, <1>8 DEF Running, Up
<1> QED
  BY <1>9 DEF Running, VolumeInv, DownForgets, NeverTaken

(* A daemon that is down has no call in progress. *)
LEMMA CallsRun ==
    ASSUME VolumeInv, NEW c \in Containers, request[c].pc # "idle"
    PROVE  /\ Running
           /\ vol \in VolumeRecord /\ saved \in SavedRecord
           /\ request \in [Containers -> CallRecord]
BY SilentType DEF VolumeInv, Running, VolumeTypes, DownForgets, VolumeRecord, SavedRecord,
                  CallRecord

(* Mount from its lock to the end of its render *)
LEMMA MountSteps ==
    ASSUME VolumeInv, NEW c \in Containers,
           MountLock(c) \/ MountRead(c) \/ MountApply(c) \/ MountFails(c)
    PROVE  VolumeInv' /\ NeverTaken
<1>0. /\ Running
      /\ vol \in VolumeRecord /\ saved \in SavedRecord
      /\ request \in [Containers -> CallRecord]
      /\ request[c].pc \in {"lock", "read", "apply"}
  BY CallsRun DEF MountLock, MountRead, MountApply, MountFails
<1>1. CASE MountLock(c)
  <2>1. UNCHANGED <<vol, content, remove, dir, saved, store, watch>>
    BY <1>1 DEF MountLock, worldVars
  <2>2. CASE \E pc \in {"own", "read"} : op' = c /\ request' = [request EXCEPT ![c].pc = pc]
    <3>1. PICK pc \in {"own", "read"} : op' = c /\ request' = [request EXCEPT ![c].pc = pc]
      BY <2>2
    <3> DEFINE x == [request[c] EXCEPT !.pc = pc]
    <3>2. x \in CallRecord /\ x.pc = pc /\ request' = [request EXCEPT ![c] = x]
      BY <1>0, <3>1 DEF CallRecord
    <3> HIDE DEF x
    <3> QED
      BY <1>0, <2>1, <3>1, <3>2, CallMoves
  <2>3. CASE op' = op /\ request' = [request EXCEPT ![c] = Silent]
    BY <1>0, <2>1, <2>3, SilentType, CallMoves
  <2> QED
    BY <1>1, <2>2, <2>3 DEF MountLock
<1>2. CASE MountRead(c)
  <2> DEFINE x == [request[c] EXCEPT !.pc = "apply"]
  <2>1. x \in CallRecord /\ x.pc = "apply" /\ request' = [request EXCEPT ![c] = x]
    BY <1>0, <1>2 DEF MountRead, CallRecord
  <2>2. content' # NoDir
    BY <1>0, <1>2, RenderIsThere DEF MountRead, Running, VolumeTypes
  <2>3. UNCHANGED <<vol, op, remove, dir, saved, store, watch>>
    BY <1>2 DEF MountRead, worldVars
  <2> HIDE DEF x
  <2> QED
    BY <1>0, <1>2, <2>1, <2>2, <2>3, CallMoves DEF MountRead
<1>3. CASE MountApply(c)
  <2> DEFINE x == [pc |-> "own", filled |-> TRUE]
             v == [vol EXCEPT !.err = FALSE]
  <2>1. x \in CallRecord /\ x.pc = "own" /\ x.filled
    BY DEF CallRecord
  <2>2. /\ v \in VolumeRecord /\ v.known = vol.known /\ v.mounts = vol.mounts /\ v.loop = vol.loop
    BY <1>0 DEF VolumeRecord
  <2>3. /\ request[c].pc = "apply" /\ dir' = content /\ vol' = v /\ request' = [request EXCEPT ![c] = x]
        /\ UNCHANGED <<op, content, remove, saved, store, watch>>
    BY <1>3 DEF MountApply, Apply, worldVars
  <2> HIDE DEF x, v
  <2>4. content # NoDir
    BY <1>0, <2>3 DEF Running, ContentRead
  <2>5. /\ request' \in [Containers -> CallRecord] /\ request'[c] = x
        /\ \A k \in Containers \ {c} : request'[k] = request[k]
    BY <1>0, <2>1, <2>3
  <2>6. VolumeTypes'
    BY <1>0, <2>2, <2>3, <2>5 DEF Running, VolumeTypes, VolumeRecord, CallRecord
  <2>7. Registering'
    BY <2>1, <2>5 DEF Registering
  <2>8. Wiping => Wiping'
    BY <2>3, <2>5 DEF Wiping
  <2>9. ContentRead'
    BY <2>3, <2>4 DEF ContentRead
  <2>10. Running'
    BY <1>0, <2>2, <2>3, <2>6, <2>7, <2>8, <2>9 DEF Running, LoopsOwned, DirOwned, Held, Up
  <2> QED
    BY <2>3, <2>4, <2>10 DEF Running, VolumeInv, DownForgets, NeverTaken
<1>4. CASE MountFails(c)
  <2> DEFINE v == [vol EXCEPT !.err = TRUE]
  <2>1. /\ v \in VolumeRecord /\ v.known = vol.known /\ v.mounts = vol.mounts /\ v.loop = vol.loop
    BY <1>0 DEF VolumeRecord
  <2>2. /\ dir' \in {dir, Broken} /\ vol' = v /\ op' = "free"
        /\ request' = [request EXCEPT ![c] = Silent]
        /\ UNCHANGED <<content, remove, saved, store, watch>>
    BY <1>4 DEF MountFails, ApplyPartly
  <2> HIDE DEF v
  <2>3. /\ request' \in [Containers -> CallRecord] /\ request'[c] = Silent
        /\ \A k \in Containers \ {c} : request'[k] = request[k]
    BY <1>0, <2>2, SilentType
  <2>4. VolumeTypes'
    BY <1>0, <2>1, <2>2, <2>3 DEF Running, VolumeTypes, VolumeRecord, CallRecord
  <2>5. (Wiping => Wiping') /\ (Registering => Registering')
    BY <1>0, <2>2, <2>3 DEF Wiping, Registering
  <2>6. ContentRead'
    BY <1>0, <2>2, <2>3, SilentType DEF Running, ContentRead
  <2>7. Running'
    BY <1>0, <2>1, <2>2, <2>4, <2>5, <2>6 DEF Running, LoopsOwned, DirOwned, Held, Up
  <2> QED
    BY <2>2, <2>7, BrokenIsThere DEF Running, VolumeInv, DownForgets, NeverTaken
<1> QED
  BY <1>1, <1>2, <1>3, <1>4

(* The last section of Mount: the container holds the volume, or, if that   *)
(* was removed meanwhile, what it rendered goes.                            *)
LEMMA RegisterStep ==
    ASSUME VolumeInv, NEW c \in Containers, MountRegister(c)
    PROVE  VolumeInv' /\ NeverTaken
<1>0. /\ Running
      /\ vol \in VolumeRecord /\ saved \in SavedRecord
      /\ request \in [Containers -> CallRecord]
      /\ request[c].pc \in {"join", "own"}
  BY CallsRun DEF MountRegister
<1>1. /\ request' = [request EXCEPT ![c] = Silent]
      /\ op' \in {op, "free"}
      /\ UNCHANGED <<content, remove, store, watch>>
  BY DEF MountRegister, ReleaseOpMu
<1>2. /\ request' \in [Containers -> CallRecord] /\ request'[c] = Silent
      /\ \A k \in Containers \ {c} : request'[k] = request[k]
  BY <1>0, <1>1, SilentType
<1>3. Wiping => Wiping'
  BY <1>0, <1>1, <1>2 DEF Wiping
<1>4. ContentRead'
  BY <1>0, <1>1, <1>2, SilentType DEF Running, ContentRead
<1>5. CASE vol.known
  <2> DEFINE v == [vol EXCEPT !.mounts = @ \cup {c}, !.pending = FALSE]
  <2>1. /\ v \in VolumeRecord /\ v.known = vol.known /\ v.mounts = vol.mounts \cup {c}
        /\ v.loop = vol.loop
    BY <1>0 DEF VolumeRecord
  <2>2. /\ vol' = IF v.loop = "off" THEN StartLoop(v, ~request[c].filled \/ vol.pending) ELSE v
        /\ Save(vol') /\ UNCHANGED dir
    BY <1>5 DEF MountRegister
  <2> HIDE DEF v
  <2>3. /\ vol' \in VolumeRecord /\ vol'.known /\ c \in vol'.mounts
        /\ vol.loop # "off" => vol'.loop # "off"
    <3>1. CASE v.loop = "off"
      <4>1. PICK l \in {"due", "wait"} : vol' = [v EXCEPT !.loop = l, !.nudge = FALSE]
        BY <2>2, <3>1 DEF StartLoop
      <4> QED
        BY <1>5, <2>1, <3>1, <4>1 DEF VolumeRecord
    <3>2. CASE v.loop # "off"
      BY <1>5, <2>1, <2>2, <3>2
    <3> QED
      BY <3>1, <3>2
  <2>4. saved' \in SavedRecord
    BY <1>0, <2>2, <2>3, SaveType
  <2>5. VolumeTypes'
    BY <1>0, <1>1, <1>2, <2>3, <2>4 DEF Running, VolumeTypes, VolumeRecord, SavedRecord, CallRecord
  <2>6. Held'
    BY <2>3 DEF Held
  <2>7. Running'
    BY <1>0, <1>1, <1>3, <1>4, <2>2, <2>3, <2>5, <2>6 DEF Running, LoopsOwned, DirOwned, Up
  <2> QED
    BY <2>2, <2>7 DEF Running, VolumeInv, DownForgets, NeverTaken
<1>6. CASE ~vol.known
  <2>1. /\ dir' = IF request[c].filled THEN NoDir ELSE dir
        /\ UNCHANGED <<vol, saved>>
    BY <1>6 DEF MountRegister
  <2>2. VolumeTypes'
    BY <1>0, <1>1, <1>2, <2>1 DEF Running, VolumeTypes, CallRecord
  <2>3. ~request[c].filled => (Registering => Registering')
    BY <1>2 DEF Registering
  <2>4. Running'
    BY <1>0, <1>1, <1>3, <1>4, <2>1, <2>2, <2>3 DEF Running, LoopsOwned, DirOwned, Held, Up
  <2> QED
    BY <1>6, <2>1, <2>4 DEF Running, VolumeInv, DownForgets, NeverTaken
<1> QED
  BY <1>5, <1>6

(* A wipe, with the lock: of a volume that nobody holds by now. *)
LEMMA WipeSteps ==
    ASSUME VolumeInv, RemoveWipe \/ \E c \in Containers : UnmountWipe(c)
    PROVE  VolumeInv' /\ NeverTaken
<1>1. /\ op = "free" /\ dir' = IF Held THEN dir ELSE NoDir
      /\ UNCHANGED <<vol, op, content, saved, store, watch>>
  BY DEF RemoveWipe, UnmountWipe, Stopped, WipeDir, Held, worldVars
<1>2. /\ request' = request \/ \E c \in Containers : request' = [request EXCEPT ![c] = Silent]
      /\ request \in [Containers -> CallRecord]
  BY DEF RemoveWipe, UnmountWipe, VolumeInv, VolumeTypes, CallRecord
<1>3. request' \in [Containers -> CallRecord]
      /\ \A k \in Containers : request'[k] \in {request[k], Silent}
  BY <1>2, SilentType
<1>4. VolumeTypes'
  BY <1>1, <1>3 DEF VolumeInv, VolumeTypes, CallRecord
<1>5. LoopsOwned'
  BY <1>1 DEF VolumeInv, LoopsOwned, Held
<1>6. ContentRead'
  BY <1>1, <1>3, SilentType DEF VolumeInv, ContentRead
<1>7. DownForgets' /\ DirOwned'
  BY <1>1, <1>3 DEF VolumeInv, DownForgets, DirOwned, Held, Up
<1> QED
  BY <1>1, <1>4, <1>5, <1>6, <1>7 DEF VolumeInv, NeverTaken, Held

(* The record changes, but neither who holds the volume nor whether it has *)
(* a loop; what reaches the disk was read and is somebody's.               *)
LEMMA VolumeMoves ==
    ASSUME VolumeInv, Up, watch' # "down", UNCHANGED <<request, remove, saved>>,
           store' \in [Parts -> Nat],
           vol' \in VolumeRecord, vol'.known = vol.known, vol'.mounts = vol.mounts,
           vol'.loop = "off" <=> vol.loop = "off",
           op' \in {op, "free"} \/ (op' = "loop" /\ vol.loop # "off" /\ content' # NoDir),
           content' = content \/ content' # NoDir,
           dir' = dir \/ dir' = Broken \/ (dir' # NoDir /\ (Held \/ Wiping))
    PROVE  VolumeInv' /\ NeverTaken
<1>1. Running
  BY DEF VolumeInv, Running
<1>2. (Held <=> Held') /\ (Wiping <=> Wiping') /\ (Registering <=> Registering')
  BY DEF Held, Wiping, Registering
<1>3. VolumeTypes'
  BY <1>1 DEF Running, VolumeTypes, VolumeRecord
<1>4. LoopsOwned'
  BY <1>1, <1>2 DEF Running, LoopsOwned
<1>5. ContentRead'
  BY <1>1 DEF Running, ContentRead
<1>6. DirOwned'
  BY <1>1, <1>2 DEF Running, DirOwned
<1>7. DownForgets'
  BY DEF DownForgets, Up
<1> QED
  BY <1>3, <1>4, <1>5, <1>6, <1>7, BrokenIsThere DEF VolumeInv, NeverTaken

(* The refresh loop *)
LEMMA RefreshSteps ==
    ASSUME VolumeInv, LoopWakes \/ RefreshRead \/ RefreshApply \/ RefreshFails \/ StaleEnds
    PROVE  VolumeInv' /\ NeverTaken
<1>0. /\ vol \in VolumeRecord /\ store \in [Parts -> Nat] /\ LoopsOwned /\ ContentRead
      /\ Up => watch # "down"
      /\ ~Up => vol.loop = "off" /\ op = "free"
  BY NoVolumeType DEF VolumeInv, VolumeTypes, VolumeRecord, DownForgets, Up
<1>1. CASE LoopWakes
  <2> DEFINE v == [vol EXCEPT !.loop = "due", !.nudge = FALSE]
  <2>1. /\ v \in VolumeRecord /\ v.known = vol.known /\ v.mounts = vol.mounts /\ v.loop = "due"
    BY <1>0 DEF VolumeRecord
  <2>2. /\ Up /\ vol.loop = "wait" /\ vol' = v
        /\ UNCHANGED <<op, content, request, remove, dir, saved, store, watch>>
    BY <1>1 DEF LoopWakes, worldVars
  <2> HIDE DEF v
  <2> QED
    BY <1>0, <2>1, <2>2, VolumeMoves
<1>2. CASE RefreshRead
  <2>1. /\ Up /\ vol.loop = "due"
        /\ UNCHANGED <<request, remove, dir, saved, store, watch>>
    BY <1>2 DEF RefreshRead, worldVars
  <2>2. CASE op' = "loop" /\ content' = Render /\ UNCHANGED vol
    <3>1. content' # NoDir
      BY <1>0, <2>2, RenderIsThere
    <3> QED
      BY <1>0, <2>1, <2>2, <3>1, VolumeMoves
  <2>3. CASE /\ vol' = [vol EXCEPT !.loop = "wait", !.err = TRUE]
             /\ UNCHANGED <<op, content>>
    <3> DEFINE v == [vol EXCEPT !.loop = "wait", !.err = TRUE]
    <3>1. /\ v \in VolumeRecord /\ v.known = vol.known /\ v.mounts = vol.mounts
          /\ v.loop = "wait" /\ vol' = v
      BY <1>0, <2>3 DEF VolumeRecord
    <3> HIDE DEF v
    <3> QED
      BY <1>0, <2>1, <2>3, <3>1, VolumeMoves
  <2> QED
    BY <1>2, <2>2, <2>3 DEF RefreshRead
<1>3. CASE RefreshApply \/ RefreshFails
  <2>1. PICK e \in BOOLEAN : vol' = [vol EXCEPT !.loop = "wait", !.err = e]
    BY <1>3 DEF RefreshApply, RefreshFails
  <2> DEFINE v == [vol EXCEPT !.loop = "wait", !.err = e]
  <2>2. /\ v \in VolumeRecord /\ v.known = vol.known /\ v.mounts = vol.mounts
        /\ v.loop = "wait" /\ vol' = v
    BY <1>0, <2>1 DEF VolumeRecord
  <2> HIDE DEF v
  <2>3. /\ op = "loop" /\ op' = "free" /\ dir' \in {content, dir, Broken}
        /\ UNCHANGED <<content, request, remove, saved, store, watch>>
    BY <1>3 DEF RefreshApply, RefreshFails, Apply, ApplyPartly, worldVars
  <2>4. Up /\ Held /\ vol.loop # "off" /\ content # NoDir
    BY <1>0, <2>3 DEF LoopsOwned, ContentRead
  <2> QED
    BY <1>0, <2>2, <2>3, <2>4, VolumeMoves
<1>4. CASE StaleEnds
  <2>1. /\ op = "stale" /\ op' = "free" /\ dir' \in {content, dir}
        /\ UNCHANGED <<vol, content, request, remove, saved, store, watch>>
    BY <1>4 DEF StaleEnds, worldVars
  <2>2. Up /\ Wiping /\ content # NoDir
    BY <1>0, <2>1 DEF LoopsOwned, ContentRead
  <2> QED
    BY <1>0, <2>1, <2>2, VolumeMoves
<1> QED
  BY <1>1, <1>2, <1>3, <1>4

(* What Vault, its event stream and the token do *)
LEMMA WorldSteps ==
    ASSUME VolumeInv,
           \/ \E p \in Parts : Change(p)
           \/ Dispatch \/ LearnEdition \/ StreamConnected \/ StreamLost \/ TokenLost \/ TokenBack
    PROVE  VolumeInv' /\ NeverTaken
<1>0. vol \in VolumeRecord /\ store \in [Parts -> Nat]
  BY DEF VolumeInv, VolumeTypes, VolumeRecord
<1>1. CASE Dispatch \/ StreamConnected
  <2>1. UNCHANGED <<op, content, request, remove, dir, store, saved>>
    BY <1>1 DEF Dispatch, StreamConnected
  <2>2. CASE Up
    <3>1. /\ vol' \in VolumeRecord /\ vol'.known = vol.known /\ vol'.mounts = vol.mounts
          /\ vol'.loop = vol.loop
      <4>1. CASE StreamConnected
        <5>1. (vol.nudge \/ vol.loop # "off") \in BOOLEAN
          OBVIOUS
        <5> QED
          BY <1>0, <4>1, <5>1 DEF StreamConnected, VolumeRecord
      <4>2. CASE Dispatch
        <5>1. (vol.pending \/ Populating) \in BOOLEAN
          BY DEF Populating
        <5>2. CASE vol' = vol
          BY <1>0, <5>2
        <5>3. CASE vol' = [vol EXCEPT !.nudge = TRUE]
          BY <1>0, <5>3 DEF VolumeRecord
        <5>4. CASE vol' = [vol EXCEPT !.pending = @ \/ Populating]
          BY <1>0, <5>1, <5>4 DEF VolumeRecord
        <5> QED
          BY <4>2, <5>2, <5>3, <5>4 DEF Dispatch
      <4> QED
        BY <1>1, <4>1, <4>2
    <3>2. watch' # "down"
      BY <1>1, <2>2 DEF Dispatch, StreamConnected, Up
    <3> QED
      BY <1>0, <2>1, <2>2, <3>1, <3>2, VolumeMoves
  <2>3. CASE ~Up
    <3>1. UNCHANGED <<vol, watch>>
      BY <1>1, <2>3, NoVolumeType DEF Dispatch, StreamConnected, Up, VolumeInv, DownForgets
    <3> QED
      BY <2>1, <2>3, <3>1
         DEF VolumeInv, VolumeTypes, LoopsOwned, ContentRead, DownForgets, DirOwned,
             Held, Wiping, Registering, Up, NeverTaken
  <2> QED
    BY <2>2, <2>3
<1>2. CASE \/ \E p \in Parts : Change(p)
           \/ LearnEdition \/ StreamLost \/ TokenLost \/ TokenBack
  <2>1. UNCHANGED <<vol, op, content, request, remove, dir, saved>>
    BY <1>2 DEF Change, LearnEdition, StreamLost, TokenLost, TokenBack, volumeVars
  <2>2. (watch = "down" <=> watch' = "down") /\ store' \in [Parts -> Nat]
    BY <1>0, <1>2 DEF Change, LearnEdition, StreamLost, TokenLost, TokenBack
  <2> QED
    BY <2>1, <2>2
       DEF VolumeInv, VolumeTypes, LoopsOwned, ContentRead, DownForgets, DirOwned,
           Held, Wiping, Registering, Up, NeverTaken
<1> QED
  BY <1>1, <1>2

(* The daemon ends, and its successor loads what was saved. *)
LEMMA LifeSteps ==
    ASSUME VolumeInv, Down \/ Restart
    PROVE  VolumeInv' /\ NeverTaken
<1>1. CASE Down
  <2>1. /\ watch' = "down" /\ op' = "free" /\ vol' = NoVolume
        /\ request' = [c \in Containers |-> Silent]
        /\ UNCHANGED <<store, saved>>
    BY <1>1 DEF Down
  <2>2. VolumeTypes'
    BY <2>1, NoVolumeType, SilentType
       DEF VolumeInv, VolumeTypes, VolumeRecord, CallRecord
  <2>3. \A c \in Containers : request'[c] = Silent
    BY <2>1
  <2> QED
    BY <2>1, <2>2, <2>3, NoVolumeType, SilentType
       DEF VolumeInv, LoopsOwned, ContentRead, DownForgets, DirOwned, Up, NeverTaken
<1>2. CASE Restart
  <2>1. /\ watch = "down" /\ watch' = "probing" /\ Resume(saved)
        /\ UNCHANGED <<op, content, request, remove, store, saved>>
    BY <1>2 DEF Restart
  <2>2. /\ op = "free" /\ saved \in SavedRecord /\ saved.loop = "off"
    BY <2>1 DEF VolumeInv, DownForgets, VolumeTypes, SavedRecord, Up
  <2>3. \/ vol' \in VolumeRecord /\ Held' /\ dir' = dir
        \/ vol' = saved /\ ~Held' /\ dir' = NoDir
    <3>1. CASE saved.known /\ saved.mounts # {}
      <4>1. vol' = [saved EXCEPT !.loop = "due", !.nudge = FALSE] /\ dir' = dir
        BY <2>1, <3>1 DEF Resume, StartLoop
      <4> QED
        BY <2>2, <3>1, <4>1 DEF VolumeRecord, SavedRecord, Held
    <3>2. CASE ~(saved.known /\ saved.mounts # {})
      BY <2>1, <3>2 DEF Resume, Held
    <3> QED
      BY <3>1, <3>2
  <2>4. vol' \in VolumeRecord
    BY <2>2, <2>3 DEF VolumeRecord, SavedRecord
  <2>5. VolumeTypes'
    BY <2>1, <2>4 DEF VolumeInv, VolumeTypes, VolumeRecord
  <2>6. LoopsOwned' /\ DirOwned'
    BY <2>1, <2>2, <2>3 DEF LoopsOwned, DirOwned
  <2>7. ContentRead' /\ DownForgets'
    BY <2>1 DEF VolumeInv, ContentRead, DownForgets, Up
  <2> QED
    BY <2>3, <2>5, <2>6, <2>7 DEF VolumeInv, NeverTaken, Held
<1> QED
  BY <1>1, <1>2

LEMMA VolumeSteps == VolumeInv /\ [DockerNext]_dockerVars =>
                         VolumeInv' /\ (DockerNext => NeverTaken)
<1> SUFFICES ASSUME VolumeInv, [DockerNext]_dockerVars
             PROVE  VolumeInv' /\ (DockerNext => NeverTaken)
  OBVIOUS
<1>1. CASE DockerNext
  BY <1>1, RequestSteps, MountSteps, RegisterStep, WipeSteps, RefreshSteps, WorldSteps,
     LifeSteps DEF DockerNext
<1>2. CASE UNCHANGED dockerVars
  <2>1. VolumeInv'
    BY <1>2 DEF dockerVars, VolumeInv, VolumeTypes, LoopsOwned, ContentRead, DownForgets,
                DirOwned, Held, Wiping, Registering, Up
  <2>2. NeverTaken
    BY <1>2 DEF dockerVars, NeverTaken
  <2> QED
    BY <2>1, <2>2
<1> QED
  BY <1>1, <1>2

(* No secret stays on disk for nobody: a volume without mounts that nobody  *)
(* works on has no directory, but for the remains of a first mount that     *)
(* failed halfway (Mount, Unmount, Remove and resume in driver.go).         *)
THEOREM NothingStays == DockerSpec => []NothingLeft
<1>1. VolumeInv => NothingLeft
  BY SilentType DEF VolumeInv, DirOwned, NothingLeft, Held, Wiping, Registering
<1> QED
  BY <1>1, VolumeBegins, VolumeSteps, PTL DEF DockerSpec

(* Whatever calls, refreshes, removals and restarts do meanwhile, no step   *)
(* takes the directory from a container that holds the volume (the locking  *)
(* of Mount and wipe in driver.go).                                         *)
THEOREM MountsKeep == DockerSpec => KeptWhileMounted
<1>1. VolumeInv /\ [DockerNext]_dockerVars =>
          [dir # NoDir /\ dir' = NoDir => ~vol'.known \/ vol'.mounts = {}]_dockerVars
  BY VolumeSteps DEF NeverTaken
<1> QED
  BY <1>1, VolumeBegins, VolumeSteps, PTL DEF DockerSpec, KeptWhileMounted
=============================================================================
