---------------------------- MODULE LimitProofs -----------------------------
(***************************************************************************)
(* The parts that measure time: for any number of reporters and any        *)
(* intervals the token checks keep their schedule; for any number of       *)
(* sockets, callers and changes, and any timeouts, the pool of peers keeps *)
(* nobody healthy out and misses nobody who serves.                        *)
(***************************************************************************)
EXTENDS LifecycleSchedule, PeerPool, TLAPS

(***************************************************************************)
(* 1. The schedule of the token checks.  The window of the rate limit      *)
(* belongs to the reporter that won its swap until the nudge is queued or  *)
(* the window given back; the delay can double only because half of it has *)
(* passed since the token was last healthy.                                *)
(***************************************************************************)
Holds(c) == report[c].step \in {"send", "release"}

\* A report at work was made at this instant and outside the window it read.
ReportsTimely == \A c \in Reporters : report[c].step # "idle" =>
    /\ report[c].elapsed = time
    /\ report[c].last = 0 \/ report[c].last + RecoveryInterval <= time

\* One reporter holds the window, from the swap it won.
OneHolder == \A c, d \in Reporters :
    Holds(c) => /\ lastNotify = time /\ report[c].last = sentAt
                /\ Holds(d) => c = d

\* Nobody holds it: it was closed by the latest nudge that was queued.
NobodyHolds == (\A c \in Reporters : ~Holds(c)) => lastNotify = sentAt

ReportInv ==
    /\ ReportsTimely /\ OneHolder /\ NobodyHolds
    /\ lastNotify <= time /\ time >= 1

\* The timer of an idle goroutine is ahead, that of a cycle was when it began.
TimerAhead ==
    IF run = "idle" THEN time <= due
    ELSE /\ began <= due /\ began <= time /\ time <= began + MaxCycle
         /\ run = "scheduled" => due <= time

\* The delay doubles only while half of it has passed without health.
DelayHalved ==
    /\ 1 <= currentDelay
    /\ ~needsReauth => 2 * currentDelay <= CheckInterval + (due - healthyAt)
    /\ needsReauth => currentDelay = RecoveryInterval

\* After a failed recovery: how long the next one is put off.
RecoveryAhead == triedAt # 0 =>
    /\ needsReauth
    /\ due <= triedAt + MaxDelay + RecoveryInterval
    /\ nextRecoverAt = IF RecoverBackoff(failures) > 0
                       THEN triedAt + RecoverBackoff(failures) ELSE 0

TimerInv ==
    /\ TimerAhead /\ CheckNotStarved /\ DelayEarned /\ DelayHalved /\ RecoveryAhead
    /\ {base, healthyAt, triedAt} \subseteq 0..time

ScheduleInv == ScheduleTypes /\ ReportInv /\ TimerInv

\* The backoff of the recovery hook never exceeds its maximum.
LEMMA BackoffRange ==
    ASSUME NEW n \in Nat
    PROVE  RecoverBackoff(n) \in Nat /\ RecoverBackoff(n) <= MaxDelay
<1> DEFINE d == RecoveryInterval * 2^Least(n - 1, MaxShift)
<1>1. MaxDelay \in Nat
  BY IntervalsAssumption
<1> HIDE DEF d
<1>2. (IF d \in 1..MaxDelay THEN d ELSE MaxDelay) \in 0..MaxDelay
  BY <1>1
<1>3. RecoverBackoff(n) = IF n <= 1 THEN 0 ELSE IF d \in 1..MaxDelay THEN d ELSE MaxDelay
  BY DEF RecoverBackoff, d
<1> QED
  BY <1>1, <1>2, <1>3

\* A reporter takes a step; the others do not.
LEMMA CallKeeps ==
    ASSUME report \in [Reporters -> [step: {"idle", "swap", "send", "release"},
                                     elapsed: Nat, last: Nat]],
           NEW c \in Reporters, NEW step \in {"idle", "swap", "send", "release"},
           NEW elapsed \in Nat, NEW last \in Nat, CallAt(c, step, elapsed, last)
    PROVE  /\ report' \in [Reporters -> [step: {"idle", "swap", "send", "release"},
                                         elapsed: Nat, last: Nat]]
           /\ report'[c].step = step /\ report'[c].elapsed = elapsed
           /\ report'[c].last = last
           /\ \A d \in Reporters \ {c} : report'[d] = report[d]
BY DEF CallAt

LEMMA NotifyKeeps ==
    ASSUME ScheduleTypes, ReportInv, NEW c \in Reporters, Notify(c)
    PROVE  ReportInv'
<1> USE DEF ScheduleTypes, ReportInv
<1>1. /\ report'[c].step = "swap" /\ report'[c].elapsed = time
      /\ report'[c].last = lastNotify
      /\ \A d \in Reporters \ {c} : report'[d] = report[d]
  BY CallKeeps DEF Notify
<1>2. UNCHANGED <<time, lastNotify, sentAt>> /\ report[c].step = "idle"
      /\ (lastNotify = 0 \/ lastNotify + RecoveryInterval <= time)
  BY IntervalsAssumption DEF Notify
<1>3. ReportsTimely'
  BY <1>1, <1>2 DEF ReportsTimely
<1>4. \A d \in Reporters : (report'[d].step \in {"send", "release"} <=> Holds(d)) /\
                           (Holds(d) => report'[d] = report[d])
  BY <1>1, <1>2 DEF Holds
<1>5. OneHolder' /\ NobodyHolds'
  BY <1>2, <1>4 DEF OneHolder, NobodyHolds, Holds
<1> QED
  BY <1>2, <1>3, <1>5

\* Only one reporter wins the window: whoever read it before it was closed
\* finds it changed.
LEMMA SwapKeeps ==
    ASSUME ScheduleTypes, ReportInv, NEW c \in Reporters, Swap(c)
    PROVE  ReportInv'
<1> USE DEF ScheduleTypes, ReportInv
<1>1. /\ report[c].step = "swap" /\ report[c].elapsed = time
      /\ report[c].last = 0 \/ report[c].last + RecoveryInterval <= time
  BY DEF Swap, ReportsTimely
<1>2. UNCHANGED <<time, sentAt>> /\ ~Holds(c)
  BY <1>1 DEF Swap, Holds
<1>3. CASE lastNotify = report[c].last
  <2>1. /\ lastNotify' = time
        /\ report'[c].step = "send" /\ report'[c].elapsed = time
        /\ report'[c].last = lastNotify
        /\ \A d \in Reporters \ {c} : report'[d] = report[d]
    BY <1>1, <1>3, CallKeeps DEF Swap
  <2>2. \A d \in Reporters : ~Holds(d)
    BY <1>1, <1>3, IntervalsAssumption DEF OneHolder
  <2>3. lastNotify = sentAt
    BY <2>2 DEF NobodyHolds
  <2>4. ReportsTimely'
    BY <1>1, <1>2, <1>3, <2>1 DEF ReportsTimely
  <2>5. \A d \in Reporters : report'[d].step \in {"send", "release"} <=> d = c
    BY <2>1, <2>2 DEF Holds
  <2>6. OneHolder' /\ NobodyHolds'
    BY <1>2, <2>1, <2>3, <2>5 DEF OneHolder, NobodyHolds, Holds
  <2> QED
    BY <1>2, <2>1, <2>4, <2>6
<1>4. CASE lastNotify # report[c].last
  <2>1. /\ lastNotify' = lastNotify
        /\ report'[c].step = "idle"
        /\ \A d \in Reporters \ {c} : report'[d] = report[d]
    BY <1>4, CallKeeps DEF Swap
  <2>2. ReportsTimely'
    BY <1>2, <2>1 DEF ReportsTimely
  <2>3. \A d \in Reporters : (report'[d].step \in {"send", "release"} <=> Holds(d)) /\
                             (Holds(d) => report'[d] = report[d])
    BY <1>2, <2>1 DEF Holds
  <2>4. OneHolder' /\ NobodyHolds'
    BY <1>2, <2>1, <2>3 DEF OneHolder, NobodyHolds, Holds
  <2> QED
    BY <1>2, <2>1, <2>2, <2>4
<1> QED
  BY <1>3, <1>4

\* A nudge that is queued has earned the window it closed.
LEMMA SendKeeps ==
    ASSUME ScheduleTypes, ReportInv, NEW c \in Reporters, Send(c)
    PROVE  ReportInv'
<1> USE DEF ScheduleTypes, ReportInv
<1>1. /\ report[c].step = "send" /\ report[c].elapsed = time
      /\ report[c].last = 0 \/ report[c].last + RecoveryInterval <= time
  BY DEF Send, ReportsTimely
<1>2. Holds(c) /\ lastNotify = time /\ report[c].last = sentAt
      /\ \A d \in Reporters : Holds(d) => d = c
  BY <1>1 DEF Holds, OneHolder
<1>3. UNCHANGED <<time, lastNotify>>
  BY DEF Send
<1>4. CASE rejectCh
  <2>1. /\ sentAt' = sentAt
        /\ report'[c].step = "release" /\ report'[c].elapsed = time
        /\ report'[c].last = report[c].last
        /\ \A d \in Reporters \ {c} : report'[d] = report[d]
    BY <1>1, <1>4, CallKeeps DEF Send
  <2>2. ReportsTimely'
    BY <1>1, <1>3, <2>1 DEF ReportsTimely
  <2>3. \A d \in Reporters : report'[d].step \in {"send", "release"} <=> d = c
    BY <1>2, <2>1 DEF Holds
  <2>4. OneHolder' /\ NobodyHolds'
    BY <1>2, <1>3, <2>1, <2>3 DEF OneHolder, NobodyHolds, Holds
  <2> QED
    BY <1>3, <2>2, <2>4
<1>5. CASE ~rejectCh
  <2>1. /\ sentAt' = time /\ report'[c].step = "idle"
        /\ \A d \in Reporters \ {c} : report'[d] = report[d]
    BY <1>5, CallKeeps DEF Send
  <2>2. ReportsTimely'
    BY <1>3, <2>1 DEF ReportsTimely
  <2>3. \A d \in Reporters : report'[d].step \notin {"send", "release"}
    BY <1>2, <2>1 DEF Holds
  <2>4. OneHolder' /\ NobodyHolds'
    BY <1>2, <1>3, <2>1, <2>3 DEF OneHolder, NobodyHolds, Holds
  <2> QED
    BY <1>3, <2>2, <2>4
<1> QED
  BY <1>4, <1>5

\* A window given back is the one of the latest queued nudge.
LEMMA ReleaseKeeps ==
    ASSUME ScheduleTypes, ReportInv, NEW c \in Reporters, ReleaseWindow(c)
    PROVE  ReportInv'
<1> USE DEF ScheduleTypes, ReportInv
<1>1. /\ report[c].step = "release" /\ report[c].elapsed = time
      /\ report[c].last = 0 \/ report[c].last + RecoveryInterval <= time
  BY DEF ReleaseWindow, ReportsTimely
<1>2. Holds(c) /\ lastNotify = time /\ report[c].last = sentAt
      /\ \A d \in Reporters : Holds(d) => d = c
  BY <1>1 DEF Holds, OneHolder
<1>3. /\ lastNotify' = report[c].last /\ UNCHANGED <<time, sentAt>>
      /\ report'[c].step = "idle"
      /\ \A d \in Reporters \ {c} : report'[d] = report[d]
  BY <1>1, <1>2, CallKeeps DEF ReleaseWindow
<1>4. ReportsTimely'
  BY <1>3 DEF ReportsTimely
<1>5. \A d \in Reporters : report'[d].step \notin {"send", "release"}
  BY <1>2, <1>3 DEF Holds
<1>6. OneHolder' /\ NobodyHolds'
  BY <1>2, <1>3, <1>5 DEF OneHolder, NobodyHolds, Holds
<1>7. lastNotify' <= time'
  BY <1>1, <1>3, IntervalsAssumption
<1> QED
  BY <1>3, <1>4, <1>6, <1>7

LEMMA OthersKeepReports ==
    ASSUME ScheduleTypes, ReportInv, UNCHANGED <<lastNotify, report, sentAt>>,
           \/ time' = time
           \/ time' = time + 1 /\ \A c \in Reporters : report[c].step = "idle"
    PROVE  ReportInv'
<1> USE DEF ScheduleTypes, ReportInv
<1>1. CASE time' = time
  BY <1>1 DEF ReportsTimely, OneHolder, NobodyHolds, Holds
<1>2. CASE time' = time + 1 /\ \A c \in Reporters : report[c].step = "idle"
  BY <1>2 DEF ReportsTimely, OneHolder, NobodyHolds, Holds
<1> QED
  BY <1>1, <1>2

LEMMA ReportStep ==
    ASSUME ScheduleInv, ScheduleNext
    PROVE  ReportInv'
<1> USE DEF ScheduleInv
<1>1. CASE TimerFires \/ TakeReject \/ CycleHealthy \/ CycleDead \/ CycleFailed
           \/ ReloadFound \/ ClockTicks
  BY <1>1, OthersKeepReports DEF TimerFires, TakeReject, Begin, CycleHealthy, CycleDead,
     CycleFailed, ReloadFound, ClockTicks, limit
<1> QED
  BY <1>1, NotifyKeeps, SwapKeeps, SendKeeps, ReleaseKeeps DEF ScheduleNext

LEMMA TypesStep ==
    ASSUME ScheduleInv, ScheduleNext
    PROVE  ScheduleTypes'
<1> USE DEF ScheduleInv, ScheduleTypes, timer, recovery, limit
<1>1. ASSUME NEW c \in Reporters, Notify(c) \/ Swap(c) \/ Send(c) \/ ReleaseWindow(c)
      PROVE  ScheduleTypes'
  <2>1. /\ report[c].elapsed \in Nat /\ report[c].last \in Nat /\ 0 \in Nat
    OBVIOUS
  <2>2. report' \in [Reporters -> [step: {"idle", "swap", "send", "release"},
                                   elapsed: Nat, last: Nat]]
    BY <1>1, <2>1, CallKeeps DEF Notify, Swap, Send, ReleaseWindow
  <2>3. lastNotify' \in Nat /\ sentAt' \in Nat /\ rejectCh' \in BOOLEAN
    BY <1>1, <2>1 DEF Notify, Swap, Send, ReleaseWindow
  <2> QED
    BY <1>1, <2>2, <2>3 DEF Notify, Swap, Send, ReleaseWindow
<1>2. CASE TimerFires \/ TakeReject
  BY <1>2 DEF TimerFires, TakeReject, Begin
<1>3. CASE CycleHealthy \/ ReloadFound
  <2>1. CheckInterval \in Nat /\ CheckInterval <= MaxDelay
    BY IntervalsAssumption
  <2>2. /\ currentDelay' = CheckInterval /\ due' = time + CheckInterval
        /\ healthyAt' = time /\ base' = time /\ needsReauth' = FALSE
        /\ failures' = 0 /\ nextRecoverAt' = 0 /\ triedAt' = 0
    BY <1>3 DEF CycleHealthy, ReloadFound, Restored
  <2>3. UNCHANGED <<time, lastNotify, report, sentAt>>
    BY <1>3 DEF CycleHealthy, ReloadFound
  <2>4. rejectCh' \in BOOLEAN /\ began' \in Nat /\ run' \in {"idle", "scheduled", "early"}
    <3>1. CASE CycleHealthy
      BY <3>1 DEF CycleHealthy
    <3>2. CASE ReloadFound
      BY <3>2 DEF ReloadFound
    <3> QED
      BY <1>3, <3>1, <3>2
  <2>5. /\ {time', began', due', currentDelay', failures', nextRecoverAt', lastNotify',
            sentAt', healthyAt', base', triedAt'} \subseteq Nat
        /\ currentDelay' <= MaxDelay
    BY <2>1, <2>2, <2>3, <2>4
  <2>6. {needsReauth', rejectCh'} \subseteq BOOLEAN
    BY <2>2, <2>4
  <2> QED
    BY <2>3, <2>4, <2>5, <2>6
<1>4. CASE CycleDead
  <2>1. failures' \in Nat /\ nextRecoverAt' \in Nat /\ triedAt' \in Nat
    <3>1. failures + 1 \in Nat /\ RecoverBackoff(failures + 1) \in Nat
      BY BackoffRange
    <3> QED
      BY <1>4, <3>1 DEF CycleDead, BackOffRecovery
  <2>2. currentDelay' \in Nat /\ currentDelay' <= MaxDelay
    BY <1>4, IntervalsAssumption DEF CycleDead
  <2>3. due' \in Nat /\ began' \in Nat /\ run' = "idle" /\ base' \in Nat
    BY <1>4, <2>2 DEF CycleDead, Arm, Scheduled
  <2> QED
    BY <1>4, <2>1, <2>2, <2>3 DEF CycleDead
<1>5. CASE CycleFailed
  <2>1. currentDelay' \in Nat /\ currentDelay' <= MaxDelay
    BY <1>5, IntervalsAssumption DEF CycleFailed, BackoffFrom, Least
  <2>2. due' \in Nat /\ began' \in Nat /\ run' = "idle" /\ base' \in Nat
    BY <1>5, <2>1 DEF CycleFailed, Arm, Scheduled
  <2> QED
    BY <1>5, <2>1, <2>2 DEF CycleFailed
<1>6. CASE ClockTicks
  BY <1>6 DEF ClockTicks
<1> QED
  BY <1>1, <1>2, <1>3, <1>4, <1>5, <1>6 DEF ScheduleNext

\* How armAfterCycle bounds the next tick.
LEMMA ArmRange ==
    ASSUME ScheduleTypes, TimerAhead, Arm, run # "idle",
           currentDelay' \in Nat, 1 <= currentDelay'
    PROVE  /\ run' = "idle" /\ due' \in Nat /\ time <= due' /\ due' <= time + currentDelay'
           /\ run = "scheduled" => due' = time + currentDelay'
           /\ run = "early" => \/ due' = due
                               \/ due' = time /\ due < time
                               \/ due' = time + currentDelay' /\ due' <= due
BY DEF ScheduleTypes, TimerAhead, Arm

\* The timer, the delay and the recovery backoff, cycle by cycle.
LEMMA TimerStep ==
    ASSUME ScheduleInv, ScheduleNext
    PROVE  TimerInv'
<1> USE DEF ScheduleInv, ScheduleTypes, timer, recovery, limit
<1>0. /\ CheckInterval \in Nat \ {0} /\ RecoveryInterval \in Nat \ {0}
      /\ MaxDelay \in Nat \ {0} /\ MaxCycle \in Nat
      /\ RecoveryInterval <= CheckInterval /\ CheckInterval <= MaxDelay
  BY IntervalsAssumption
<1>1. ASSUME NEW c \in Reporters, Notify(c) \/ Swap(c) \/ Send(c) \/ ReleaseWindow(c)
      PROVE  TimerInv'
  BY <1>1 DEF Notify, Swap, Send, ReleaseWindow, TimerInv, TimerAhead, CheckNotStarved,
     DelayEarned, DelayHalved, RecoveryAhead, RecoverBackoff
<1>2. CASE TimerFires \/ TakeReject
  <2>1. /\ run = "idle" /\ run' \in {"scheduled", "early"} /\ began' = time
        /\ UNCHANGED <<time, due, currentDelay, recovery, healthyAt, base>>
        /\ run' = "scheduled" => due <= time
    BY <1>2 DEF TimerFires, TakeReject, Begin
  <2>2. TimerAhead'
    BY <1>0, <2>1 DEF TimerInv, TimerAhead
  <2> QED
    BY <2>1, <2>2 DEF TimerInv, CheckNotStarved, DelayEarned, DelayHalved,
       RecoveryAhead, RecoverBackoff
<1>3. CASE CycleHealthy \/ ReloadFound
  <2>1. /\ run' = "idle" /\ Restored /\ time' = time
    BY <1>3 DEF CycleHealthy, ReloadFound
  <2> QED
    BY <1>0, <2>1 DEF Restored, TimerInv, TimerAhead, CheckNotStarved, DelayEarned,
       DelayHalved, RecoveryAhead
<1>4. CASE CycleDead
  <2>1. /\ currentDelay' = RecoveryInterval /\ run # "idle" /\ run \in {"scheduled", "early"}
        /\ UNCHANGED <<time, healthyAt>> /\ needsReauth' = TRUE
        /\ base' = IF run = "scheduled" THEN time ELSE base
    BY <1>4 DEF CycleDead, Scheduled
  <2>2. /\ run' = "idle" /\ due' \in Nat /\ time <= due' /\ due' <= time + currentDelay'
        /\ run = "scheduled" => due' = time + currentDelay'
        /\ run = "early" => \/ due' = due
                            \/ due' = time /\ due < time
                            \/ due' = time + currentDelay' /\ due' <= due
    BY <1>0, <1>4, <2>1, ArmRange DEF CycleDead, TimerInv
  <2>3. TimerAhead' /\ CheckNotStarved'
    BY <1>0, <2>1, <2>2 DEF TimerInv, TimerAhead, CheckNotStarved
  <2>4. DelayEarned' /\ DelayHalved'
    BY <1>0, <2>1 DEF TimerInv, DelayEarned, DelayHalved
  <2>5. CASE RecoverDue
    <3>1. /\ triedAt' = time
          /\ nextRecoverAt' = IF RecoverBackoff(failures') > 0
                              THEN time + RecoverBackoff(failures') ELSE 0
      BY <1>4, <2>5 DEF CycleDead, BackOffRecovery
    <3>2. due' <= time + MaxDelay + RecoveryInterval
      BY <1>0, <2>1, <2>2
    <3>3. RecoveryAhead'
      BY <2>1, <3>1, <3>2 DEF RecoveryAhead, RecoverBackoff
    <3> QED
      BY <2>1, <2>3, <2>4, <3>1, <3>3 DEF TimerInv
  <2>6. CASE ~RecoverDue
    <3>1. UNCHANGED <<failures, nextRecoverAt, triedAt>>
      BY <1>4, <2>6 DEF CycleDead
    <3>2. triedAt # 0 => time < triedAt + MaxDelay
      BY <1>0, <2>6, BackoffRange DEF RecoverDue, TimerInv, RecoveryAhead
    <3>3. triedAt # 0 => due' <= triedAt + MaxDelay + RecoveryInterval
      BY <1>0, <2>1, <2>2, <3>2
    <3>4. RecoveryAhead'
      BY <2>1, <3>1, <3>3 DEF TimerInv, RecoveryAhead, RecoverBackoff
    <3> QED
      BY <2>1, <2>3, <2>4, <3>1, <3>4 DEF TimerInv
  <2> QED
    BY <2>5, <2>6
<1>5. CASE CycleFailed
  <2>1. /\ run # "idle" /\ run \in {"scheduled", "early"} /\ ~needsReauth
        /\ UNCHANGED <<time, healthyAt, needsReauth, failures, nextRecoverAt, triedAt>>
        /\ base' = IF run = "scheduled" THEN time ELSE base
        /\ triedAt = 0
    BY <1>5 DEF CycleFailed, Scheduled, TimerInv, RecoveryAhead
  <2>2. /\ currentDelay' \in Nat /\ 1 <= currentDelay' /\ currentDelay' <= MaxDelay
        /\ currentDelay <= currentDelay' /\ currentDelay' <= 2 * currentDelay
        /\ run = "early" => currentDelay' = currentDelay
    BY <1>0, <1>5, <2>1 DEF CycleFailed, BackoffFrom, Least, TimerInv, DelayHalved
  <2>3. /\ run' = "idle" /\ due' \in Nat /\ time <= due' /\ due' <= time + currentDelay'
        /\ run = "scheduled" => due' = time + currentDelay'
        /\ run = "early" => \/ due' = due
                            \/ due' = time /\ due < time
                            \/ due' = time + currentDelay' /\ due' <= due
    BY <1>5, <2>1, <2>2, ArmRange DEF CycleFailed, TimerInv
  <2>4. TimerAhead' /\ CheckNotStarved'
    BY <1>0, <2>1, <2>2, <2>3 DEF TimerInv, TimerAhead, CheckNotStarved
  <2>5. DelayEarned'
    <3>1. CASE run = "scheduled"
      <4>1. due <= time /\ 2 * currentDelay <= CheckInterval + (due - healthyAt)
        BY <2>1, <3>1 DEF TimerInv, TimerAhead, DelayHalved
      <4> QED
        BY <1>0, <2>1, <2>2, <4>1 DEF DelayEarned
    <3>2. CASE run = "early"
      BY <2>1, <2>2, <3>2 DEF TimerInv, DelayEarned
    <3> QED
      BY <2>1, <3>1, <3>2
  <2>6. DelayHalved'
    <3>1. CASE run = "scheduled"
      BY <1>0, <2>1, <2>2, <2>3, <2>5, <3>1 DEF TimerInv, DelayEarned, DelayHalved
    <3>2. CASE run = "early"
      BY <1>0, <2>1, <2>2, <2>3, <3>2 DEF TimerInv, DelayEarned, DelayHalved
    <3> QED
      BY <2>1, <3>1, <3>2
  <2> QED
    BY <2>1, <2>4, <2>5, <2>6 DEF TimerInv, RecoveryAhead
<1>6. CASE ClockTicks
  <2>1. /\ time' = time + 1
        /\ IF run = "idle" THEN due > time ELSE time < began + MaxCycle
        /\ UNCHANGED <<timer, recovery, healthyAt, base>>
    BY <1>6 DEF ClockTicks
  <2>2. TimerAhead'
    BY <1>0, <2>1 DEF TimerInv, TimerAhead
  <2>3. CheckNotStarved' /\ DelayEarned' /\ DelayHalved'
    BY <1>0, <2>1 DEF TimerInv, CheckNotStarved, DelayEarned, DelayHalved
  <2> QED
    BY <2>1, <2>2, <2>3 DEF TimerInv, RecoveryAhead, RecoverBackoff
<1> QED
  BY <1>1, <1>2, <1>3, <1>4, <1>5, <1>6 DEF ScheduleNext

LEMMA ScheduleStarts == ScheduleInit => ScheduleInv
<1> SUFFICES ASSUME ScheduleInit PROVE ScheduleInv
  OBVIOUS
<1> USE DEF ScheduleInit, NotReporting
<1>0. /\ CheckInterval \in Nat \ {0} /\ RecoveryInterval \in Nat \ {0}
      /\ MaxDelay \in Nat \ {0} /\ CheckInterval <= MaxDelay
  BY IntervalsAssumption
<1>1. ScheduleTypes
  <2>1. report \in [Reporters -> [step: {"idle", "swap", "send", "release"},
                                  elapsed: Nat, last: Nat]]
    OBVIOUS
  <2>2. /\ {time, began, due, currentDelay, failures, nextRecoverAt, lastNotify,
            sentAt, healthyAt, base, triedAt} \subseteq Nat
        /\ currentDelay <= MaxDelay
    BY <1>0
  <2> QED
    BY <2>1, <2>2 DEF ScheduleTypes
<1>2. ReportInv
  BY DEF ReportInv, ReportsTimely, OneHolder, NobodyHolds, Holds
<1>3. TimerInv
  BY <1>0 DEF TimerInv, TimerAhead, CheckNotStarved, DelayEarned, DelayHalved, RecoveryAhead
<1> QED
  BY <1>1, <1>2, <1>3 DEF ScheduleInv

\* Every step keeps the invariant.
LEMMA ScheduleKept == ScheduleInv /\ [ScheduleNext]_scheduleVars => ScheduleInv'
<1> SUFFICES ASSUME ScheduleInv, [ScheduleNext]_scheduleVars PROVE ScheduleInv'
  OBVIOUS
<1>1. CASE ScheduleNext
  BY <1>1, TypesStep, ReportStep, TimerStep DEF ScheduleInv
<1>2. CASE UNCHANGED scheduleVars
  <2> USE <1>2 DEF scheduleVars, timer, recovery, limit, ScheduleInv
  <2>1. ScheduleTypes'
    BY DEF ScheduleTypes
  <2>2. ReportInv'
    BY OthersKeepReports
  <2>3. TimerInv'
    BY DEF TimerInv, TimerAhead, CheckNotStarved, DelayEarned, DelayHalved,
       RecoveryAhead, RecoverBackoff
  <2> QED
    BY <2>1, <2>2, <2>3
<1> QED
  BY <1>1, <1>2

\* No window is closed for nothing, no check starved, no backoff compounded and
\* no recovery put off too long (NotifyRejected, runCheckCycle, armAfterCycle).
THEOREM ScheduleStaysSound == ScheduleSpec => []ScheduleSound
<1>1. ScheduleInv => ScheduleSound
  <2> SUFFICES ASSUME ScheduleInv PROVE ScheduleSound
    OBVIOUS
  <2> USE DEF ScheduleInv
  <2>1. WindowEarned
    BY DEF WindowEarned, ReportInv, NobodyHolds, Holds
  <2>2. RecoverPrompt
    BY IntervalsAssumption DEF RecoverPrompt, TimerInv, TimerAhead, RecoveryAhead, ScheduleTypes
  <2> QED
    BY <2>1, <2>2 DEF ScheduleSound, TimerInv
<1> QED
  BY <1>1, ScheduleStarts, ScheduleKept, PTL DEF ScheduleSpec

\* Nudges and calls of the recovery hook keep their distance, however the
\* reporters' loads, swaps, sends and releases interleave.
THEOREM ScheduleStaysPaced == ScheduleSpec => SchedulePaced
<1>1. ScheduleInv /\ [ScheduleNext]_scheduleVars
        => [sentAt' # sentAt /\ sentAt # 0
              => sentAt' - sentAt >= RecoveryInterval]_scheduleVars
  <2> SUFFICES ASSUME ScheduleInv, ScheduleNext, sentAt' # sentAt, sentAt # 0
               PROVE  sentAt' - sentAt >= RecoveryInterval
    OBVIOUS
  <2>1. PICK c \in Reporters : Send(c) /\ sentAt' = time
    BY DEF ScheduleNext, Notify, Swap, Send, ReleaseWindow, TimerFires, TakeReject, Begin,
       CycleHealthy, CycleDead, CycleFailed, ReloadFound, ClockTicks, limit
  <2>2. /\ report[c].last = sentAt
        /\ report[c].last = 0 \/ report[c].last + RecoveryInterval <= time
    BY <2>1 DEF Send, ScheduleInv, ReportInv, OneHolder, Holds, ReportsTimely
  <2> QED
    BY <2>1, <2>2, IntervalsAssumption DEF ScheduleInv, ScheduleTypes
<1>2. ScheduleInv /\ [ScheduleNext]_scheduleVars
        => [triedAt' > triedAt /\ triedAt # 0
              => triedAt' - triedAt >= RecoverBackoff(failures)]_scheduleVars
  <2> SUFFICES ASSUME ScheduleInv, ScheduleNext, triedAt' > triedAt, triedAt # 0
               PROVE  triedAt' - triedAt >= RecoverBackoff(failures)
    OBVIOUS
  <2>0. triedAt \in Nat /\ triedAt <= time /\ time \in Nat /\ RecoverBackoff(failures) \in Nat
    BY BackoffRange DEF ScheduleInv, ScheduleTypes, TimerInv
  <2>1. RecoverDue /\ triedAt' = time
    BY <2>0 DEF ScheduleNext, Notify, Swap, Send, ReleaseWindow, TimerFires, TakeReject, Begin,
       CycleHealthy, CycleDead, BackOffRecovery, CycleFailed, ReloadFound, Restored,
       ClockTicks, recovery
  <2>2. nextRecoverAt = IF RecoverBackoff(failures) > 0
                        THEN triedAt + RecoverBackoff(failures) ELSE 0
    BY DEF ScheduleInv, TimerInv, RecoveryAhead
  <2> QED
    BY <2>0, <2>1, <2>2 DEF RecoverDue
<1> QED
  BY <1>1, <1>2, ScheduleStarts, ScheduleKept, PTL
     DEF ScheduleSpec, SchedulePaced, NudgesSpaced, RecoverPaced

-----------------------------------------------------------------------------
(***************************************************************************)
(* 2. The pool of peer sockets.  A failed request must carry its reason    *)
(* until it is collected, across unbinding, rebinding and the peer's mode  *)
(* changes; a member that is out must have left soon after its socket last *)
(* came up, or a call could miss a peer that was long ready.               *)
(***************************************************************************)
\* Without reuse a socket's id is its own, and a fault is on record.
SocketsSound == \A p \in Paths :
    /\ sock[p].id = sock[p].inc /\ sock[p].inc <= incs
    /\ sock[p].since <= now
    /\ There(p) /\ sock[p].mode \in {"hung", "dead"} => sock[p].faulty

\* An eviction was deserved, and was soon after the socket came up.
MemberSound(m, p) ==
    /\ m.id <= incs
    /\ m.out => m.id # 0
    /\ There(p) /\ m.id = sock[p].id =>
          /\ sock[p].mtime <= m.seen
          /\ m.out =>
                /\ \/ sock[p].faulty \/ sock[p].cut
                   \/ sock[p].mode = "bound" /\ sock[p].mtime + Grace <= now
                /\ sock[p].mode \in Up => m.at <= sock[p].since + Slowest

MembersSound == \A p \in Paths : MemberSound(members[p], p)

\* A request that waits, or has failed, has its reason: on the socket it was
\* made for, if that is still there.
WaitSound(f, s) ==
    /\ now <= f.until /\ f.until <= now + Slowest
    /\ f.id = s.id => /\ s.faulty /\ f.inc = s.inc
                      /\ s.mode \in Up => f.until <= s.since + Slowest

FailSound(f, s) == f.id = s.id =>
    /\ s.faulty \/ s.mode = "bound" \/ now < s.mtime + Grace
    /\ s.mode \in Up => now <= s.since + Slowest

FlightSound(f) ==
    /\ f.id \in 1..incs
    /\ f.step = "wait" => WaitSound(f, sock[f.path])
    /\ f.step = "fail" => FailSound(f, sock[f.path])

Awaited(op) == IF op = "borrow" THEN {"serving"} ELSE Up
Heard(op) == IF op = "borrow" THEN {"token"} ELSE Answers

\* Whoever has long been up is yet to be asked, has answered, or the call has
\* what it wants.
Covered(k) == \A p \in Paths : LongUp(p, Awaited(k.op), k.start) =>
    \/ \E r \in k.todo : r.path = p
    \/ \E f \in k.flights : f.path = p /\ f.step \in {"dial"} \cup Heard(k.op)
    \/ k.got \cap Heard(k.op) # {}

CallSound(k) ==
    /\ k.start <= now
    /\ k.op = "idle" => k.flights = {}
    /\ \A r \in k.todo : r.id \in 1..incs
    /\ \A f \in k.flights : FlightSound(f)
    /\ k.op # "idle" /\ ~Spent(k) => Covered(k)

CallsSound == \A c \in Callers : CallSound(call[c])

PoolInv == PoolTypes /\ SocketsSound /\ MembersSound /\ CallsSound

\* The pool's times.
LEMMA PoolNumbers ==
    /\ Grace \in Nat \ {0} /\ Probe \in Nat \ {0}
    /\ FetchTimeout \in Nat \ {0} /\ PostTimeout \in Nat \ {0}
    /\ Slowest \in Nat \ {0}
    /\ \A op \in Ops : Timeout[op] \in Nat /\ Timeout[op] <= Slowest
BY TimesAssumption, OpsAssumption DEF Slowest, Timeout

LEMMA PoolStarts == PoolInit => PoolInv
<1> SUFFICES ASSUME PoolInit PROVE PoolInv
  OBVIOUS
<1>1. NoSocket \in Socket /\ NoMember \in Member /\ Idle \in Call
  BY DEF NoSocket, NoMember, Idle, Socket, Member, Call, Modes, Up
<1>2. PoolTypes
  BY <1>1 DEF PoolInit, PoolTypes, NoSocket, NoMember
<1>3. SocketsSound /\ MembersSound
  BY DEF PoolInit, SocketsSound, MembersSound, MemberSound, NoSocket, NoMember, There
<1>4. CallsSound
  BY DEF PoolInit, CallsSound, CallSound, Idle
<1> QED
  BY <1>2, <1>3, <1>4 DEF PoolInv

-----------------------------------------------------------------------------
(* Sockets come, go and change.                                            *)

LEMMA BindKeeps ==
    ASSUME PoolInv, ReuseIds = FALSE, NEW p \in Paths, NEW id \in NewIds, Bind(p, id)
    PROVE  PoolInv'
<1> USE DEF PoolInv
<1> DEFINE s == [inc |-> incs + 1, id |-> id, mtime |-> now, mode |-> "bound",
                 since |-> now, faulty |-> FALSE, cut |-> FALSE]
<1>1. id = incs + 1 /\ incs \in Nat /\ now \in Nat
  BY DEF NewIds, PoolTypes
<1>2. /\ s \in Socket /\ s.id = incs + 1 /\ s.inc = incs + 1 /\ s.mtime = now
      /\ s.mode = "bound" /\ s.since = now /\ s.faulty = FALSE
  BY <1>1 DEF Socket, Modes
<1>3. /\ sock' = [sock EXCEPT ![p] = s] /\ incs' = incs + 1
      /\ UNCHANGED <<changes, members, call, now>>
      /\ events' \in SUBSET Paths
  BY DEF Bind, PoolTypes
<1> HIDE DEF s
<1>4. /\ sock'[p] = s
      /\ \A q \in Paths \ {p} : sock'[q] = sock[q]
      /\ sock' \in [Paths -> Socket]
  BY <1>2, <1>3 DEF PoolTypes
<1>5. PoolTypes'
  BY <1>1, <1>2, <1>3, <1>4 DEF PoolTypes
<1>6. SocketsSound'
  BY <1>1, <1>2, <1>3, <1>4 DEF SocketsSound, There, PoolTypes, Socket
<1>7. MembersSound'
  <2> SUFFICES ASSUME NEW q \in Paths PROVE MemberSound(members[q], q)'
    BY <1>3 DEF MembersSound
  <2>1. MemberSound(members[q], q) /\ members[q].id \in Nat
    BY DEF MembersSound, PoolTypes, Member
  <2>2. CASE q = p
    BY <1>1, <1>2, <1>3, <1>4, <2>1, <2>2 DEF MemberSound
  <2>3. CASE q # p
    BY <1>1, <1>3, <1>4, <2>1, <2>3 DEF MemberSound, There
  <2> QED
    BY <2>2, <2>3
<1>8. CallsSound'
  <2> SUFFICES ASSUME NEW c \in Callers PROVE CallSound(call[c])'
    BY <1>3 DEF CallsSound
  <2>1. CallSound(call[c]) /\ call[c] \in Call
    BY DEF CallsSound, PoolTypes
  <2>2. ASSUME NEW f \in call[c].flights PROVE FlightSound(f)'
    <3>1. FlightSound(f) /\ f.path \in Paths
      BY <2>1 DEF CallSound, Call, Flight
    <3>2. CASE f.path = p
      BY <1>1, <1>2, <1>3, <1>4, <3>1, <3>2 DEF FlightSound, WaitSound, FailSound
    <3>3. CASE f.path # p
      BY <1>1, <1>3, <1>4, <3>1, <3>3 DEF FlightSound, WaitSound, FailSound
    <3> QED
      BY <3>2, <3>3
  <2>3. ASSUME call[c].op # "idle", ~Spent(call[c]) PROVE Covered(call[c])'
    <3> SUFFICES ASSUME NEW q \in Paths, LongUp(q, Awaited(call[c].op), call[c].start)'
                 PROVE  q # p
      BY <1>3, <1>4, <2>1, <2>3 DEF CallSound, Covered, LongUp, There, Awaited, Heard
    <3> QED
      BY <1>2, <1>4 DEF LongUp, Awaited, Up
  <2> QED
    BY <1>1, <1>3, <2>1, <2>2, <2>3 DEF CallSound, Spent
<1> QED
  BY <1>5, <1>6, <1>7, <1>8

LEMMA UnbindKeeps ==
    ASSUME PoolInv, NEW p \in Paths, Unbind(p)
    PROVE  PoolInv'
<1> USE DEF PoolInv
<1>1. /\ NoSocket \in Socket /\ NoSocket.id = 0 /\ NoSocket.inc = 0 /\ NoSocket.mtime = 0
      /\ NoSocket.since = 0 /\ NoSocket.mode = "dead"
  BY DEF NoSocket, Socket, Modes
<1>2. /\ UNCHANGED <<incs, changes, members, events, call, now>>
      /\ incs \in Nat /\ now \in Nat
      /\ sock'[p] = NoSocket
      /\ \A q \in Paths \ {p} : sock'[q] = sock[q]
      /\ sock' \in [Paths -> Socket]
  BY <1>1 DEF Unbind, PoolTypes
<1>3. PoolTypes'
  BY <1>1, <1>2 DEF PoolTypes
<1>4. SocketsSound'
  BY <1>1, <1>2 DEF SocketsSound, There
<1>5. MembersSound'
  <2> SUFFICES ASSUME NEW q \in Paths PROVE MemberSound(members[q], q)'
    BY <1>2 DEF MembersSound
  <2>1. MemberSound(members[q], q)
    BY DEF MembersSound
  <2> QED
    BY <1>1, <1>2, <2>1 DEF MemberSound, There
<1>6. CallsSound'
  <2> SUFFICES ASSUME NEW c \in Callers PROVE CallSound(call[c])'
    BY <1>2 DEF CallsSound
  <2>1. CallSound(call[c]) /\ call[c] \in Call
    BY DEF CallsSound, PoolTypes
  <2>2. ASSUME NEW f \in call[c].flights PROVE FlightSound(f)'
    <3>1. FlightSound(f) /\ f.path \in Paths
      BY <2>1 DEF CallSound, Call, Flight
    <3>2. CASE f.path = p
      BY <1>1, <1>2, <3>1, <3>2 DEF FlightSound, WaitSound, FailSound
    <3>3. CASE f.path # p
      BY <1>2, <3>1, <3>3 DEF FlightSound, WaitSound, FailSound
    <3> QED
      BY <3>2, <3>3
  <2>3. ASSUME call[c].op # "idle", ~Spent(call[c]) PROVE Covered(call[c])'
    <3> SUFFICES ASSUME NEW q \in Paths, LongUp(q, Awaited(call[c].op), call[c].start)'
                 PROVE  q # p
      BY <1>2, <2>1, <2>3 DEF CallSound, Covered, LongUp, There, Awaited, Heard
    <3> QED
      BY <1>1, <1>2 DEF LongUp, There
  <2> QED
    BY <1>2, <2>1, <2>2, <2>3 DEF CallSound, Spent
<1> QED
  BY <1>3, <1>4, <1>5, <1>6

LEMMA ChangeKeeps ==
    ASSUME PoolInv, NEW p \in Paths, NEW mode \in Modes, Change(p, mode)
    PROVE  PoolInv'
<1> USE DEF PoolInv
<1> DEFINE o == sock[p]
           s == [o EXCEPT !.mode = mode, !.since = now,
                          !.faulty = @ \/ mode \in {"hung", "dead"} \/ LateListen(p, mode)]
<1>1. /\ o \in Socket /\ o.inc \in Nat /\ o.id = o.inc /\ o.inc <= incs
      /\ o.mtime \in Nat /\ There(p)
      /\ incs \in Nat /\ now \in Nat
  BY DEF Change, PoolTypes, SocketsSound, Socket
<1>2. /\ s \in Socket /\ s.id = o.id /\ s.inc = o.inc /\ s.mtime = o.mtime
      /\ s.mode = mode /\ s.since = now /\ s.cut = o.cut
      /\ (s.faulty <=> o.faulty \/ mode \in {"hung", "dead"} \/ LateListen(p, mode))
  <2> HIDE DEF LateListen
  <2>1. (o.faulty \/ mode \in {"hung", "dead"} \/ LateListen(p, mode)) \in BOOLEAN
    OBVIOUS
  <2> QED
    BY <1>1, <2>1 DEF Socket
<1>3. /\ sock' = [sock EXCEPT ![p] = s]
      /\ UNCHANGED <<incs, members, events, call, now>> /\ changes' \in Nat
      /\ <<o.mode, mode>> \in Moves
  <2>1. sock' = [sock EXCEPT ![p].mode = mode, ![p].since = now,
                             ![p].faulty = @ \/ mode \in {"hung", "dead"}
                                             \/ LateListen(p, mode)]
    BY DEF Change
  <2>2. sock' = [sock EXCEPT ![p] = s]
    <3> HIDE DEF LateListen
    <3> QED
      BY <2>1 DEF PoolTypes
  <2>3. /\ UNCHANGED <<incs, members, events, call, now>> /\ changes' \in Nat
        /\ <<o.mode, mode>> \in Moves
    BY DEF Change, PoolTypes
  <2> QED
    BY <2>2, <2>3
<1> HIDE DEF s
<1>4. /\ sock'[p] = s
      /\ \A q \in Paths \ {p} : sock'[q] = sock[q]
      /\ sock' \in [Paths -> Socket]
  BY <1>2, <1>3 DEF PoolTypes
<1>5. PoolTypes'
  BY <1>1, <1>2, <1>3, <1>4 DEF PoolTypes
<1>6. SocketsSound'
  BY <1>1, <1>2, <1>3, <1>4 DEF SocketsSound, There
<1>7. o.mode = "bound" /\ mode \in Up /\ o.mtime + Grace <= now => s.faulty
  BY <1>1, <1>2, PoolNumbers DEF LateListen
<1>8. o.mode = "bound" => mode \in Up \/ s.faulty
  BY <1>2, <1>3 DEF Moves, Modes, Up
<1>9. MembersSound'
  <2> SUFFICES ASSUME NEW q \in Paths PROVE MemberSound(members[q], q)'
    BY <1>3 DEF MembersSound
  <2>1. MemberSound(members[q], q) /\ members[q] \in Member /\ members[q].at <= now
    BY DEF MembersSound, PoolTypes
  <2>2. CASE q = p
    <3>1. members[p].at <= now + Slowest
      BY <1>1, <2>1, <2>2, PoolNumbers DEF Member
    <3> QED
      BY <1>1, <1>2, <1>3, <1>4, <1>7, <1>8, <2>1, <2>2, <3>1 DEF MemberSound, There
  <2>3. CASE q # p
    BY <1>1, <1>3, <1>4, <2>1, <2>3 DEF MemberSound, There
  <2> QED
    BY <2>2, <2>3
<1>10. CallsSound'
  <2> SUFFICES ASSUME NEW c \in Callers PROVE CallSound(call[c])'
    BY <1>3 DEF CallsSound
  <2>1. CallSound(call[c]) /\ call[c] \in Call
    BY DEF CallsSound, PoolTypes
  <2>2. ASSUME NEW f \in call[c].flights PROVE FlightSound(f)'
    <3>1. FlightSound(f) /\ f.path \in Paths
      BY <2>1 DEF CallSound, Call, Flight
    <3>2. CASE f.path = p
      <4>1. f.step = "wait" => WaitSound(f, s)
        BY <1>2, <3>1, <3>2 DEF FlightSound, WaitSound
      <4>2. f.step = "fail" => FailSound(f, s)
        <5>1. now <= now + Slowest /\ (o.mtime + Grace <= now \/ now < o.mtime + Grace)
          BY <1>1, PoolNumbers
        <5> QED
          BY <1>2, <1>7, <1>8, <3>1, <3>2, <5>1 DEF FlightSound, FailSound
      <4> QED
        BY <1>3, <1>4, <3>1, <3>2, <4>1, <4>2 DEF FlightSound, WaitSound, FailSound
    <3>3. CASE f.path # p
      BY <1>3, <1>4, <3>1, <3>3 DEF FlightSound, WaitSound, FailSound
    <3> QED
      BY <3>2, <3>3
  <2>3. ASSUME call[c].op # "idle", ~Spent(call[c]) PROVE Covered(call[c])'
    <3> SUFFICES ASSUME NEW q \in Paths, LongUp(q, Awaited(call[c].op), call[c].start)'
                 PROVE  q # p
      BY <1>3, <1>4, <2>1, <2>3 DEF CallSound, Covered, LongUp, There, Awaited, Heard
    <3>1. call[c].start <= now /\ call[c].start \in Nat
      BY <2>1 DEF CallSound, Call
    <3>2. q = p => now + Slowest + Probe <= call[c].start
      BY <1>2, <1>3, <1>4 DEF LongUp
    <3> QED
      BY <1>1, <3>1, <3>2, PoolNumbers
  <2> QED
    BY <1>3, <2>1, <2>2, <2>3 DEF CallSound, Spent
<1> QED
  BY <1>5, <1>6, <1>9, <1>10

LEMMA AdvanceKeeps ==
    ASSUME PoolInv, Advance
    PROVE  PoolInv'
<1> USE DEF PoolInv
<1>1. /\ UNCHANGED <<sock, incs, changes, members, events, call>> /\ now' = now + 1
      /\ now \in Nat /\ Quiet
  BY DEF Advance, world, PoolTypes
<1>2. PoolTypes'
  BY <1>1 DEF PoolTypes, Member, Socket
<1>3. SocketsSound'
  BY <1>1 DEF SocketsSound, There, PoolTypes, Socket
<1>4. MembersSound'
  <2> SUFFICES ASSUME NEW q \in Paths PROVE MemberSound(members[q], q)'
    BY <1>1 DEF MembersSound
  <2>1. MemberSound(members[q], q) /\ sock[q].mtime \in Nat
    BY DEF MembersSound, PoolTypes, Socket
  <2>2. sock[q].mtime + Grace <= now => sock[q].mtime + Grace <= now + 1
    BY <1>1, <2>1, PoolNumbers
  <2> QED
    BY <1>1, <2>1, <2>2 DEF MemberSound, There
<1>5. CallsSound'
  <2> SUFFICES ASSUME NEW c \in Callers PROVE CallSound(call[c])'
    BY <1>1 DEF CallsSound
  <2>1. CallSound(call[c]) /\ call[c] \in Call
    BY DEF CallsSound, PoolTypes
  <2>2. ASSUME NEW f \in call[c].flights PROVE FlightSound(f)'
    <3>1. FlightSound(f) /\ f.until \in Nat /\ f.step = "wait" /\ now < f.until
      BY <1>1, <2>1 DEF CallSound, Call, Flight, Quiet
    <3>2. now + 1 <= f.until /\ f.until <= now + 1 + Slowest
      BY <1>1, <3>1, PoolNumbers DEF FlightSound, WaitSound
    <3> QED
      BY <1>1, <3>1, <3>2 DEF FlightSound, WaitSound, FailSound
  <2>3. ASSUME call[c].op # "idle", ~Spent(call[c]) PROVE Covered(call[c])'
    BY <1>1, <2>1, <2>3 DEF CallSound, Covered, LongUp, There, Awaited, Heard
  <2>4. ~Spent(call[c])' => ~Spent(call[c])
    BY <1>1, <2>1 DEF Spent, Call
  <2> QED
    BY <1>1, <2>1, <2>2, <2>3, <2>4 DEF CallSound, Call
<1> QED
  BY <1>2, <1>3, <1>4, <1>5

-----------------------------------------------------------------------------
(* The pool resolves, and hears of new sockets.                            *)

\* Whatever was evicted longer than a probe interval ago is back.
LEMMA ResolvedSound ==
    ASSUME PoolInv, NEW p \in Paths
    PROVE  /\ ResolvedAt(p) \in Member /\ ResolvedAt(p).at <= now
           /\ MemberSound(ResolvedAt(p), p)
           /\ There(p) => ResolvedAt(p).id = sock[p].id
           /\ There(p) /\ ResolvedAt(p).out
                 => /\ members[p] = ResolvedAt(p) /\ now < members[p].at + Probe
<1> USE DEF PoolInv
<1> DEFINE s == sock[p]
           m == members[p]
           r == ResolvedAt(p)
<1>1. /\ s \in Socket /\ s.mtime \in Nat /\ s.mtime <= now /\ s.id \in Nat /\ s.inc \in Nat
      /\ s.id = s.inc /\ s.inc <= incs
      /\ m \in Member /\ m.seen \in Nat /\ m.id \in Nat /\ m.at \in Nat /\ m.at <= now
      /\ now \in Nat /\ incs \in Nat
      /\ MemberSound(m, p)
  BY DEF PoolTypes, Socket, Member, SocketsSound, MembersSound
<1>2. ASSUME NEW seen \in Nat
      PROVE  /\ Admitted(s.id, seen) \in Member /\ Admitted(s.id, seen).id = s.id
             /\ Admitted(s.id, seen).seen = seen /\ Admitted(s.id, seen).out = FALSE
             /\ Admitted(s.id, seen).at = 0
  BY <1>1 DEF Admitted, Member
<1>3. CASE ~There(p)
  <2>1. r = NoMember
    BY <1>3 DEF ResolvedAt
  <2>2. NoMember \in Member /\ NoMember.id = 0 /\ NoMember.at = 0 /\ NoMember.out = FALSE
    BY DEF NoMember, Member
  <2> HIDE DEF r
  <2> QED
    BY <1>1, <1>3, <2>1, <2>2 DEF MemberSound, r
<1>4. CASE There(p) /\ m.id # s.id
  <2>1. PICK seen \in Nat : r = Admitted(s.id, seen) /\ s.mtime <= seen
    <3>1. Later(s.mtime, m.seen) \in Nat /\ s.mtime <= Later(s.mtime, m.seen)
      BY <1>1 DEF Later
    <3>2. CASE m.id = 0
      BY <1>1, <1>4, <3>2 DEF ResolvedAt
    <3>3. CASE m.id # 0
      <4>1. r = Admitted(s.id, Later(s.mtime, m.seen))
        BY <1>4, <3>3 DEF ResolvedAt
      <4> QED
        BY <3>1, <4>1
    <3> QED
      BY <3>2, <3>3
  <2> HIDE DEF r
  <2>2. r \in Member /\ r.id = s.id /\ r.seen = seen /\ r.out = FALSE /\ r.at = 0
    BY <1>2, <2>1
  <2> QED
    BY <1>1, <1>4, <2>1, <2>2 DEF MemberSound, r
<1>5. CASE There(p) /\ m.id = s.id
  <2>1. m.id # 0
    BY <1>1, <1>5 DEF There
  <2>2. r = IF ProbeDue(m) THEN Admitted(m.id, m.seen) ELSE m
    BY <1>5, <2>1 DEF ResolvedAt
  <2>3. s.mtime <= m.seen
    BY <1>1, <1>5 DEF MemberSound
  <2>4. CASE ProbeDue(m)
    <3>1. r = Admitted(s.id, m.seen)
      BY <1>5, <2>2, <2>4
    <3> HIDE DEF r
    <3>2. r \in Member /\ r.id = s.id /\ r.seen = m.seen /\ r.out = FALSE /\ r.at = 0
      BY <1>1, <1>2, <3>1
    <3> QED
      BY <1>1, <1>5, <2>3, <3>2 DEF MemberSound, r
  <2>5. CASE ~ProbeDue(m)
    <3>1. m.out => now < m.at + Probe
      BY <1>1, <2>5, PoolNumbers DEF ProbeDue
    <3>2. r = m
      BY <2>2, <2>5
    <3> HIDE DEF r
    <3> QED
      BY <1>1, <1>5, <3>1, <3>2 DEF r
  <2> QED
    BY <2>4, <2>5
<1> QED
  BY <1>3, <1>4, <1>5

\* A call goes on: the calls stay sound if the world stands still.
LEMMA CallWrites ==
    ASSUME PoolTypes, CallsSound, UNCHANGED <<sock, incs, now>>,
           NEW c \in Callers, NEW k \in Call, CallSound(k),
           call' = [call EXCEPT ![c] = k]
    PROVE  CallsSound' /\ call' \in [Callers -> Call]
<1>1. call' \in [Callers -> Call] /\ \A d \in Callers : call'[d] = IF d = c THEN k ELSE call[d]
  BY DEF PoolTypes
<1>2. ASSUME NEW d \in Callers PROVE CallSound(call[d])'
  <2>1. CallSound(call'[d])
    BY <1>1 DEF CallsSound
  <2>2. \A f \in call'[d].flights : FlightSound(f)'
    BY <2>1 DEF CallSound, FlightSound, WaitSound, FailSound
  <2>3. call'[d].op # "idle" /\ ~Spent(call[d])' => Covered(call[d])'
    BY <2>1 DEF CallSound, Covered, LongUp, There, Awaited, Heard, Spent
  <2> QED
    BY <2>1, <2>2, <2>3 DEF CallSound, Spent
<1> QED
  BY <1>1, <1>2 DEF CallsSound

LEMMA MembersStay ==
    ASSUME PoolTypes, UNCHANGED <<sock, incs, now>>,
           members' \in [Paths -> Member],
           \A p \in Paths : MemberSound(members'[p], p) /\ members'[p].at <= now
    PROVE  MembersSound' /\ \A p \in Paths : members'[p].at <= now' /\ sock'[p].mtime <= now'
BY DEF MembersSound, MemberSound, There, PoolTypes

LEMMA SocketsStay ==
    ASSUME SocketsSound, UNCHANGED <<sock, incs, now>>
    PROVE  SocketsSound'
BY DEF SocketsSound, There

LEMMA CallsStay ==
    ASSUME CallsSound, UNCHANGED <<sock, incs, now, call>>
    PROVE  CallsSound'
BY DEF CallsSound, CallSound, FlightSound, WaitSound, FailSound, Covered, LongUp, There,
       Awaited, Heard, Spent

LEMMA ResolutionKeeps ==
    ASSUME PoolInv, members' = Resolved, UNCHANGED <<sock, incs, now>>
    PROVE  /\ members' \in [Paths -> Member] /\ MembersSound'
           /\ \A p \in Paths : members'[p].at <= now' /\ sock'[p].mtime <= now'
<1>1. \A p \in Paths : members'[p] = ResolvedAt(p)
  BY DEF Resolved
<1>2. members' \in [Paths -> Member]
  BY ResolvedSound DEF Resolved
<1>3. \A p \in Paths : MemberSound(members'[p], p) /\ members'[p].at <= now
  BY <1>1, ResolvedSound
<1> QED
  BY <1>2, <1>3, MembersStay DEF PoolInv

LEMMA ReportKeeps ==
    ASSUME PoolInv, Report
    PROVE  PoolInv'
<1>1. UNCHANGED <<sock, incs, changes, events, call, now>>
  BY DEF Report, world
<1>2. /\ members' \in [Paths -> Member] /\ MembersSound'
      /\ \A p \in Paths : members'[p].at <= now' /\ sock'[p].mtime <= now'
  BY <1>1, ResolutionKeeps DEF Report
<1> QED
  BY <1>1, <1>2, SocketsStay, CallsStay DEF PoolInv, PoolTypes

LEMMA NoteSeenKeeps ==
    ASSUME PoolInv, NEW p \in Paths, NoteSeen(p)
    PROVE  PoolInv'
<1> USE DEF PoolInv
<1>1. UNCHANGED <<sock, incs, changes, call, now>> /\ events' \in SUBSET Paths
  BY DEF NoteSeen, world, PoolTypes
<1>2. /\ members' \in [Paths -> Member]
      /\ \A q \in Paths : MemberSound(members'[q], q) /\ members'[q].at <= now
  <2>1. CASE ~There(p)
    BY <2>1 DEF NoteSeen, PoolTypes, MembersSound
  <2>2. CASE There(p)
    <3> DEFINE n == Admitted(sock[p].id, now)
    <3>1. /\ sock[p].id \in Nat /\ sock[p].id <= incs /\ sock[p].mtime <= now /\ now \in Nat
      BY DEF PoolTypes, SocketsSound, Socket
    <3>2. n \in Member /\ n.id = sock[p].id /\ n.seen = now /\ n.out = FALSE /\ n.at = 0
      BY <3>1 DEF Admitted, Member
    <3>3. members' = [members EXCEPT ![p] = n]
      BY <2>2 DEF NoteSeen
    <3> HIDE DEF n
    <3>4. MemberSound(n, p) /\ n.at <= now
      BY <3>1, <3>2 DEF MemberSound
    <3> QED
      BY <3>2, <3>3, <3>4 DEF PoolTypes, MembersSound
  <2> QED
    BY <2>1, <2>2
<1>3. MembersSound' /\ \A q \in Paths : members'[q].at <= now' /\ sock'[q].mtime <= now'
  BY <1>1, <1>2, MembersStay
<1> QED
  BY <1>1, <1>2, <1>3, SocketsStay, CallsStay DEF PoolTypes

-----------------------------------------------------------------------------
(* Calls.                                                                  *)

\* Only the call changes.
LEMMA CallKeepsPool ==
    ASSUME PoolInv, UNCHANGED <<world, members, events, now>>,
           NEW c \in Callers, NEW k \in Call, CallSound(k),
           call' = [call EXCEPT ![c] = k]
    PROVE  PoolInv'
<1>1. UNCHANGED <<sock, incs, changes, members, events, now>>
  BY DEF world
<1>2. CallsSound' /\ call' \in [Callers -> Call]
  BY <1>1, CallWrites DEF PoolInv
<1>3. MembersSound' /\ \A q \in Paths : members'[q].at <= now' /\ sock'[q].mtime <= now'
  BY <1>1, MembersStay DEF PoolInv, PoolTypes, MembersSound
<1> QED
  BY <1>1, <1>2, <1>3, SocketsStay DEF PoolInv, PoolTypes

\* A call begins with everybody who has long been up in its snapshot.
LEMMA StartKeeps ==
    ASSUME PoolInv, NEW c \in Callers, NEW op \in Ops, NEW patience \in Patience,
           Start(c, op, patience)
    PROVE  PoolInv'
<1> USE DEF PoolInv
<1> DEFINE A == Active(Resolved)
           k == [op |-> op, start |-> now, ends |-> now + patience, got |-> {},
                 todo |-> IF op = "borrow" THEN A ELSE {},
                 flights |-> IF op = "borrow" THEN {} ELSE {Launch(r) : r \in A}]
<1>1. /\ UNCHANGED <<sock, incs, changes, events, now>> /\ members' = Resolved
      /\ call' = [call EXCEPT ![c] = k]
  BY DEF Start, world
<1>2. /\ now \in Nat /\ incs \in Nat /\ op \in {"borrow", "broadcast"}
      /\ now + patience \in Nat
  BY OpsAssumption, PatienceAssumption DEF PoolTypes
<1>3. \A r \in A : r \in Ref /\ r.id \in 1..incs
  <2> SUFFICES ASSUME NEW p \in Paths, Resolved[p].id # 0, NEW r,
                      r = [path |-> p, id |-> Resolved[p].id, seen |-> Resolved[p].seen]
               PROVE  r \in Ref /\ r.id \in 1..incs
    BY DEF Active
  <2>1. Resolved[p] \in Member /\ Resolved[p].id <= incs
    BY ResolvedSound DEF Resolved, MemberSound
  <2> QED
    BY <1>2, <2>1 DEF Ref, Member
<1>4. ASSUME NEW p \in Paths, LongUp(p, Up, now)
      PROVE  \E r \in A : r.path = p
  <2>1. /\ There(p) /\ sock[p].mode \in Up /\ sock[p].since + Slowest + Probe <= now
    BY <1>4 DEF LongUp
  <2>2. /\ Resolved[p] \in Member /\ Resolved[p].id = sock[p].id
        /\ Resolved[p].out => members[p] = Resolved[p] /\ now < members[p].at + Probe
    BY <2>1, ResolvedSound DEF Resolved
  <2>3. sock[p].id # 0 /\ sock[p].since \in Nat
    BY <2>1 DEF There, SocketsSound, PoolTypes, Socket
  <2>4. ~Resolved[p].out
    <3> SUFFICES ASSUME Resolved[p].out PROVE FALSE
      OBVIOUS
    <3>1. members[p].at <= sock[p].since + Slowest /\ members[p].at \in Nat
      BY <2>1, <2>2 DEF MembersSound, MemberSound, Member
    <3> QED
      BY <1>2, <2>1, <2>2, <2>3, <3>1, PoolNumbers
  <2>5. [path |-> p, id |-> Resolved[p].id, seen |-> Resolved[p].seen] \in A
    BY <2>2, <2>3, <2>4 DEF Active
  <2> QED
    BY <2>5
<1> HIDE DEF A
<1>5. \A r \in A : /\ Launch(r) \in Flight /\ Launch(r).path = r.path
                   /\ Launch(r).id = r.id /\ Launch(r).step = "dial"
  BY <1>3 DEF Launch, Flight, Ref, Steps
<1>6. /\ k.op = op /\ k.start = now /\ k.got = {} /\ k.ends = now + patience
      /\ k.todo = IF op = "borrow" THEN A ELSE {}
      /\ k.flights = IF op = "borrow" THEN {} ELSE {Launch(r) : r \in A}
  OBVIOUS
<1>7. k \in Call
  BY <1>2, <1>3, <1>5 DEF Call
<1> HIDE DEF k
<1>8. CallSound(k)
  <2>1. \A r \in k.todo : r.id \in 1..incs
    BY <1>3, <1>6
  <2>2. \A f \in k.flights : FlightSound(f)
    BY <1>3, <1>5, <1>6 DEF FlightSound
  <2>3. Covered(k)
    <3> SUFFICES ASSUME NEW p \in Paths, LongUp(p, Awaited(op), now)
                 PROVE  \/ \E r \in k.todo : r.path = p
                        \/ \E f \in k.flights : f.path = p /\ f.step = "dial"
      BY <1>6 DEF Covered
    <3>1. PICK r \in A : r.path = p
      BY <1>4 DEF LongUp, Awaited, Up
    <3>2. CASE op = "borrow"
      BY <1>6, <3>1, <3>2
    <3>3. CASE op # "borrow"
      BY <1>5, <1>6, <3>1, <3>3
    <3> QED
      BY <3>2, <3>3
  <2> QED
    BY <1>2, <1>6, <2>1, <2>2, <2>3 DEF CallSound
<1>9. CallsSound' /\ call' \in [Callers -> Call]
  BY <1>1, <1>7, <1>8, CallWrites
<1>10. /\ members' \in [Paths -> Member] /\ MembersSound'
       /\ \A p \in Paths : members'[p].at <= now' /\ sock'[p].mtime <= now'
  BY <1>1, ResolutionKeeps
<1> QED
  BY <1>1, <1>9, <1>10, SocketsStay DEF PoolTypes

LEMMA BorrowKeeps ==
    ASSUME PoolInv, NEW c \in Callers, NEW r \in call[c].todo, BorrowNext(c, r)
    PROVE  PoolInv'
<1> USE DEF PoolInv
<1> DEFINE o == call[c]
           k == [o EXCEPT !.todo = @ \ {r}, !.flights = {Launch(r)}]
<1>1. o \in Call /\ CallSound(o) /\ o.op = "borrow" /\ o.flights = {}
  BY DEF BorrowNext, PoolTypes, CallsSound
<1>2. r \in Ref /\ r.id \in 1..incs
  BY <1>1 DEF Call, CallSound
<1>3. /\ Launch(r) \in Flight /\ Launch(r).path = r.path
      /\ Launch(r).id = r.id /\ Launch(r).step = "dial"
  BY <1>2 DEF Launch, Flight, Ref, Steps
<1>4. /\ k \in Call /\ k.op = o.op /\ k.start = o.start /\ k.ends = o.ends
      /\ k.got = o.got /\ k.todo = o.todo \ {r} /\ k.flights = {Launch(r)}
  BY <1>1, <1>3 DEF Call
<1>5. call' = [call EXCEPT ![c] = k]
  BY DEF BorrowNext, PoolTypes
<1> HIDE DEF k
<1>6. CallSound(k)
  <2>1. \A f \in k.flights : FlightSound(f)
    BY <1>2, <1>3, <1>4 DEF FlightSound
  <2>2. ~Spent(k) => Covered(k)
    BY <1>1, <1>3, <1>4 DEF CallSound, Covered, Spent
  <2> QED
    BY <1>1, <1>4, <2>1, <2>2 DEF CallSound
<1> QED
  BY <1>4, <1>5, <1>6, CallKeepsPool DEF BorrowNext

\* A request takes a step: another takes its place.
LEMMA BecomesKeeps ==
    ASSUME PoolInv, NEW c \in Callers, NEW f \in call[c].flights, NEW g \in Flight,
           Becomes(c, f, g), FlightSound(g), g.path = f.path,
           f.step \in {"dial"} \cup Heard(call[c].op) /\ ~Spent(call[c])
              /\ LongUp(f.path, Awaited(call[c].op), call[c].start)
                 => g.step \in {"dial"} \cup Heard(call[c].op)
    PROVE  PoolInv'
<1> USE DEF PoolInv
<1> DEFINE o == call[c]
           k == [o EXCEPT !.flights = (@ \ {f}) \cup {g}]
<1>1. o \in Call /\ CallSound(o) /\ o.op # "idle"
  BY DEF PoolTypes, CallsSound, CallSound
<1>2. /\ k \in Call /\ k.op = o.op /\ k.start = o.start /\ k.ends = o.ends
      /\ k.got = o.got /\ k.todo = o.todo /\ k.flights = (o.flights \ {f}) \cup {g}
  BY <1>1 DEF Call
<1>3. call' = [call EXCEPT ![c] = k]
  BY DEF Becomes, PoolTypes
<1> HIDE DEF k
<1>4. CallSound(k)
  <2>1. \A x \in k.flights : FlightSound(x)
    BY <1>1, <1>2 DEF CallSound
  <2>2. ASSUME ~Spent(k) PROVE Covered(k)
    <3>0. ~Spent(o)
      BY <1>2, <2>2 DEF Spent
    <3> SUFFICES ASSUME NEW p \in Paths, LongUp(p, Awaited(o.op), o.start),
                        NEW x \in o.flights, x.path = p, x.step \in {"dial"} \cup Heard(o.op)
                 PROVE  \E y \in k.flights : y.path = p /\ y.step \in {"dial"} \cup Heard(o.op)
      BY <1>1, <1>2, <3>0 DEF CallSound, Covered
    <3>1. CASE x = f
      BY <1>2, <3>0, <3>1
    <3>2. CASE x # f
      BY <1>2, <3>2
    <3> QED
      BY <3>1, <3>2
  <2> QED
    BY <1>1, <1>2, <2>1, <2>2 DEF CallSound
<1> QED
  BY <1>2, <1>3, <1>4, CallKeepsPool DEF Becomes

\* A peer that has long been ready answers what the call is there for.
LEMMA AnswersHeard ==
    ASSUME PoolInv, NEW c \in Callers, call[c].op # "idle", NEW p \in Paths,
           NEW a \in AnswersOf(p, call[c].op)
    PROVE  /\ a \in Answers
           /\ LongUp(p, Awaited(call[c].op), call[c].start) => a \in Heard(call[c].op)
<1>1. call[c].op \in {"borrow", "broadcast"}
  BY OpsAssumption DEF PoolInv, PoolTypes, Call
<1> QED
  BY <1>1 DEF AnswersOf, Answers, Heard, Awaited, LongUp

LEMMA DialKeeps ==
    ASSUME PoolInv, NEW c \in Callers, NEW f \in call[c].flights, Dial(c, f)
    PROVE  PoolInv'
<1> USE DEF PoolInv
<1> DEFINE s == sock[f.path]
<1>1. /\ f \in Flight /\ FlightSound(f) /\ f.path \in Paths /\ call[c].op # "idle"
      /\ call[c].op \in Ops /\ f.id \in Nat /\ f.id # 0 /\ f.id \in 1..incs
  BY DEF PoolTypes, CallsSound, CallSound, Call, Flight, FlightSound
<1>2. /\ s \in Socket /\ s.id = s.inc /\ s.inc \in Nat /\ s.mtime \in Nat /\ now \in Nat
      /\ There(f.path) /\ s.mode \in {"hung", "dead"} => s.faulty
  BY <1>1 DEF PoolTypes, SocketsSound, Socket
<1>3. CASE /\ ~There(f.path) \/ s.mode \in {"bound", "dead"}
           /\ Becomes(c, f, [f EXCEPT !.step = "fail"])
  <2> DEFINE g == [f EXCEPT !.step = "fail"]
  <2>1. g \in Flight /\ g.path = f.path /\ g.id = f.id /\ g.step = "fail"
    BY <1>1 DEF Flight, Steps, Failures
  <2>2. Becomes(c, f, g)
    BY <1>3
  <2> HIDE DEF g
  <2>3. FailSound(g, s)
    <3>1. g.id = s.id => There(f.path)
      BY <1>1, <1>2, <2>1 DEF There
    <3> QED
      BY <1>2, <1>3, <2>1, <3>1 DEF FailSound, Up
  <2>4. ~LongUp(f.path, Awaited(call[c].op), call[c].start)
    BY <1>3 DEF LongUp, Awaited, Up
  <2> QED
    BY <1>1, <2>1, <2>2, <2>3, <2>4, BecomesKeeps DEF FlightSound
<1>4. ASSUME NEW a \in AnswersOf(f.path, call[c].op), Becomes(c, f, [f EXCEPT !.step = a])
      PROVE  PoolInv'
  <2> DEFINE g == [f EXCEPT !.step = a]
  <2>1. a \in Answers /\ (LongUp(f.path, Awaited(call[c].op), call[c].start)
                            => a \in Heard(call[c].op))
    BY <1>1, AnswersHeard
  <2>2. g \in Flight /\ g.path = f.path /\ g.id = f.id /\ g.step = a
    BY <1>1, <2>1 DEF Flight, Steps
  <2>3. Becomes(c, f, g)
    BY <1>4
  <2> HIDE DEF g
  <2>4. FlightSound(g)
    BY <1>1, <2>1, <2>2 DEF FlightSound, Answers
  <2> QED
    BY <2>1, <2>2, <2>3, <2>4, BecomesKeeps
<1>5. CASE /\ There(f.path) /\ s.mode = "hung"
           /\ Becomes(c, f, [f EXCEPT !.step = "wait", !.inc = s.inc,
                                      !.until = now + Timeout[call[c].op]])
  <2> DEFINE until == now + Timeout[call[c].op]
             g == [f EXCEPT !.step = "wait", !.inc = s.inc, !.until = until]
  <2>1. until \in Nat /\ now <= until /\ until <= now + Slowest
    BY <1>1, <1>2, PoolNumbers
  <2>2. Becomes(c, f, g)
    BY <1>5
  <2> HIDE DEF until
  <2>3. /\ g \in Flight /\ g.path = f.path /\ g.id = f.id /\ g.step = "wait"
        /\ g.inc = s.inc /\ g.until = until
    BY <1>1, <1>2, <2>1 DEF Flight, Steps
  <2> HIDE DEF g
  <2>4. WaitSound(g, s)
    <3>1. now <= g.until /\ g.until <= now + Slowest
      BY <2>1, <2>3
    <3> QED
      BY <1>2, <1>5, <2>3, <3>1 DEF WaitSound, Up
  <2>5. ~LongUp(f.path, Awaited(call[c].op), call[c].start)
    BY <1>5 DEF LongUp, Awaited, Up
  <2> QED
    BY <1>1, <2>2, <2>3, <2>4, <2>5, BecomesKeeps DEF FlightSound
<1> QED
  BY <1>3, <1>4, <1>5 DEF Dial

\* A request that is not even made says nothing of the socket.
LEMMA CutShortKeeps ==
    ASSUME PoolInv, NEW c \in Callers, NEW f \in call[c].flights, CutShort(c, f)
    PROVE  PoolInv'
<1> USE DEF PoolInv
<1> DEFINE g == [f EXCEPT !.step = "cut"]
<1>1. f \in Flight /\ FlightSound(f) /\ Becomes(c, f, g) /\ Spent(call[c])
  BY DEF PoolTypes, CallsSound, CallSound, Call, CutShort
<1>2. g \in Flight /\ g.path = f.path /\ g.id = f.id /\ g.step = "cut"
  BY <1>1 DEF Flight, Steps, Failures
<1> HIDE DEF g
<1>3. FlightSound(g)
  BY <1>1, <1>2 DEF FlightSound
<1> QED
  BY <1>1, <1>2, <1>3, BecomesKeeps

LEMMA HangKeeps ==
    ASSUME PoolInv, NEW c \in Callers, NEW f \in call[c].flights, Hang(c, f)
    PROVE  PoolInv'
<1> USE DEF PoolInv
<1> DEFINE s == sock[f.path]
<1>1. /\ f \in Flight /\ FlightSound(f) /\ f.path \in Paths /\ call[c].op # "idle"
      /\ f.step = "wait" /\ WaitSound(f, s) /\ f.id \in 1..incs
  BY DEF PoolTypes, CallsSound, CallSound, Call, Flight, FlightSound, Hang
<1>2. f.step \notin {"dial"} \cup Heard(call[c].op)
  BY <1>1 DEF Heard, Answers
<1>3. ASSUME NEW a \in AnswersOf(f.path, call[c].op), Becomes(c, f, [f EXCEPT !.step = a])
      PROVE  PoolInv'
  <2> DEFINE g == [f EXCEPT !.step = a]
  <2>1. a \in Answers
    BY <1>1, AnswersHeard
  <2>2. g \in Flight /\ g.path = f.path /\ g.id = f.id /\ g.step = a
    BY <1>1, <2>1 DEF Flight, Steps
  <2>3. Becomes(c, f, g)
    BY <1>3
  <2> HIDE DEF g
  <2>4. FlightSound(g)
    BY <1>1, <2>1, <2>2 DEF FlightSound, Answers
  <2> QED
    BY <1>2, <2>2, <2>3, <2>4, BecomesKeeps
<1>4. CASE /\ now = f.until \/ Spent(call[c]) \/ s.inc # f.inc \/ s.mode = "dead"
           /\ Becomes(c, f, [f EXCEPT !.step = "fail"])
  <2> DEFINE g == [f EXCEPT !.step = "fail"]
  <2>1. g \in Flight /\ g.path = f.path /\ g.id = f.id /\ g.step = "fail"
    BY <1>1 DEF Flight, Steps, Failures
  <2>2. Becomes(c, f, g)
    BY <1>4
  <2> HIDE DEF g
  <2>3. FailSound(g, s)
    <3>1. /\ s.since \in Nat /\ f.until \in Nat /\ now \in Nat /\ now <= f.until
          /\ f.until <= s.since + Slowest => now <= s.since + Slowest
      BY <1>1, PoolNumbers DEF PoolTypes, Socket, Flight, WaitSound
    <3> QED
      BY <1>1, <1>4, <2>1, <3>1 DEF WaitSound, FailSound, Up
  <2> QED
    BY <1>1, <1>2, <2>1, <2>2, <2>3, BecomesKeeps DEF FlightSound
<1> QED
  BY <1>3, <1>4 DEF Hang

\* A collected answer, or failure, is one request less.
LEMMA CollectedSound ==
    ASSUME PoolInv, NEW c \in Callers, NEW f \in call[c].flights, Collect(c, f), NEW k,
           k = [call[c] EXCEPT !.flights = @ \ {f}, !.got = @ \cup {f.step}]
    PROVE  k \in Call /\ CallSound(k) /\ call' = [call EXCEPT ![c] = k]
<1> USE DEF PoolInv
<1> DEFINE o == call[c]
<1>1. o \in Call /\ CallSound(o) /\ o.op # "idle"
  BY DEF PoolTypes, CallsSound, CallSound
<1>2. f.step \in Answers \cup Failures /\ call' = [call EXCEPT ![c] = k]
  BY DEF Collect, PoolTypes
<1>3. /\ k \in Call /\ k.op = o.op /\ k.start = o.start /\ k.ends = o.ends
      /\ k.got = o.got \cup {f.step} /\ k.todo = o.todo /\ k.flights = o.flights \ {f}
  BY <1>1, <1>2 DEF Call
<1>4. ASSUME ~Spent(k) PROVE Covered(k)
  <2>0. ~Spent(o)
    BY <1>3, <1>4 DEF Spent
  <2> SUFFICES ASSUME NEW p \in Paths, LongUp(p, Awaited(o.op), o.start),
                      NEW x \in o.flights, x.path = p, x.step \in {"dial"} \cup Heard(o.op)
               PROVE  \/ \E y \in k.flights : y.path = p /\ y.step \in {"dial"} \cup Heard(o.op)
                      \/ k.got \cap Heard(o.op) # {}
    BY <1>1, <1>3, <2>0 DEF CallSound, Covered
  <2>1. CASE x = f
    <3>1. f.step \in Heard(o.op)
      BY <1>2, <2>1 DEF Answers, Failures
    <3> QED
      BY <1>3, <3>1
  <2>2. CASE x # f
    BY <1>3, <2>2
  <2> QED
    BY <2>1, <2>2
<1> QED
  BY <1>1, <1>2, <1>3, <1>4 DEF CallSound

\* An eviction for want of time that meets the socket it was about is on record,
\* and counts as the time from which the socket is as it is.
LEMMA TakenDarkKeeps ==
    ASSUME PoolInv, NEW c \in Callers, NEW f \in call[c].flights, Collect(c, f),
           f.step = "cut", Evictable(members[f.path], f.id), sock[f.path].id = f.id
    PROVE  PoolInv'
<1> USE DEF PoolInv
<1> DEFINE p == f.path
           o == sock[p]
           s == [o EXCEPT !.cut = TRUE, !.since = now]
           m == members[p]
           n == [m EXCEPT !.out = TRUE, !.at = now]
           k == [call[c] EXCEPT !.flights = @ \ {f}, !.got = @ \cup {f.step}]
<1>1. /\ p \in Paths /\ o \in Socket /\ m \in Member /\ MemberSound(m, p)
      /\ o.since \in Nat /\ o.since <= now /\ now \in Nat
  BY DEF PoolTypes, CallsSound, CallSound, Call, Flight, SocketsSound, MembersSound, Socket
<1>2. /\ s \in Socket /\ s.inc = o.inc /\ s.id = o.id /\ s.mtime = o.mtime
      /\ s.mode = o.mode /\ s.faulty = o.faulty /\ s.cut = TRUE /\ s.since = now
  BY <1>1 DEF Socket
<1>3. /\ n \in Member /\ n.id = m.id /\ n.seen = m.seen /\ n.out = TRUE /\ n.at = now
      /\ m.id # 0 /\ m.id = o.id
  BY <1>1 DEF Member, Evictable
<1>4. /\ UNCHANGED <<incs, changes, events, now>>
      /\ members' = [members EXCEPT ![p] = n]
  BY DEF Collect, Evicted, Failures, PoolTypes
<1>5. sock' = [sock EXCEPT ![p] = s]
  <2>1. sock' = [sock EXCEPT ![p].cut = TRUE, ![p].since = now]
    BY DEF Collect, TakenDark
  <2> QED
    BY <1>1, <2>1 DEF PoolTypes
<1>6. k \in Call /\ CallSound(k) /\ call' = [call EXCEPT ![c] = k]
  BY CollectedSound
<1> HIDE DEF s, n, k
<1>7. /\ sock'[p] = s /\ \A q \in Paths \ {p} : sock'[q] = sock[q]
      /\ sock' \in [Paths -> Socket]
  BY <1>1, <1>2, <1>5 DEF PoolTypes
<1>8. /\ members'[p] = n /\ \A q \in Paths \ {p} : members'[q] = members[q]
      /\ members' \in [Paths -> Member]
  BY <1>1, <1>3, <1>4 DEF PoolTypes
<1>9. /\ call' \in [Callers -> Call]
      /\ \A d \in Callers : call'[d] \in Call /\ CallSound(call'[d])
  BY <1>6 DEF PoolTypes, CallsSound
<1>10. PoolTypes'
  BY <1>1, <1>2, <1>3, <1>4, <1>7, <1>8, <1>9 DEF PoolTypes
<1>11. SocketsSound'
  BY <1>1, <1>2, <1>4, <1>7 DEF SocketsSound, There
<1>12. MembersSound'
  <2> SUFFICES ASSUME NEW q \in Paths PROVE MemberSound(members[q], q)'
    BY DEF MembersSound
  <2>1. CASE q = p
    <3>1. n.at <= s.since + Slowest
      BY <1>1, <1>2, <1>3, PoolNumbers
    <3>2. n.id <= incs
      BY <1>1, <1>3 DEF MemberSound
    <3>3. There(p) => s.mtime <= n.seen
      BY <1>1, <1>2, <1>3 DEF MemberSound
    <3> QED
      BY <1>2, <1>3, <1>4, <1>7, <1>8, <2>1, <3>1, <3>2, <3>3 DEF MemberSound, There
  <2>2. CASE q # p
    <3>1. MemberSound(members[q], q)
      BY DEF MembersSound
    <3> QED
      BY <1>4, <1>7, <1>8, <2>2, <3>1 DEF MemberSound, There
  <2> QED
    BY <2>1, <2>2
<1>13. CallsSound'
  <2> SUFFICES ASSUME NEW d \in Callers PROVE CallSound(call[d])'
    BY DEF CallsSound
  <2>1. CallSound(call'[d]) /\ call'[d] \in Call
    BY <1>9
  <2>2. ASSUME NEW x \in call'[d].flights PROVE FlightSound(x)'
    <3>1. FlightSound(x) /\ x.path \in Paths /\ x.until \in Nat
      BY <2>1 DEF CallSound, Call, Flight
    <3>2. CASE x.path = p
      <4>1. /\ now <= now + Slowest
            /\ x.until <= o.since + Slowest => x.until <= now + Slowest
        BY <1>1, <3>1, PoolNumbers
      <4>2. x.step = "wait" => WaitSound(x, s)
        BY <1>2, <3>1, <3>2, <4>1 DEF FlightSound, WaitSound
      <4>3. x.step = "fail" => FailSound(x, s)
        BY <1>2, <3>1, <3>2, <4>1 DEF FlightSound, FailSound
      <4> QED
        BY <1>4, <1>7, <3>1, <3>2, <4>2, <4>3 DEF FlightSound, WaitSound, FailSound
    <3>3. CASE x.path # p
      BY <1>4, <1>7, <3>1, <3>3 DEF FlightSound, WaitSound, FailSound
    <3> QED
      BY <3>2, <3>3
  <2>3. ASSUME call'[d].op # "idle", ~Spent(call[d])' PROVE Covered(call[d])'
    <3>1. Covered(call'[d])
      BY <1>4, <2>1, <2>3 DEF CallSound, Spent
    <3>2. ASSUME NEW q \in Paths, LongUp(q, Awaited(call[d].op), call[d].start)'
          PROVE  LongUp(q, Awaited(call'[d].op), call'[d].start)
      <4>1. CASE q = p
        <5>1. /\ There(p) /\ o.mode \in Awaited(call'[d].op)
              /\ now + Slowest + Probe <= call'[d].start
          BY <1>2, <1>7, <3>2, <4>1 DEF LongUp, There, Awaited, Up
        <5> QED
          BY <1>1, <2>1, <4>1, <5>1, PoolNumbers DEF LongUp, Call
      <4>2. CASE q # p
        BY <1>7, <3>2, <4>2 DEF LongUp, There, Awaited, Up
      <4> QED
        BY <4>1, <4>2
    <3> QED
      BY <3>1, <3>2 DEF Covered, Awaited, Heard, Answers, Up
  <2> QED
    BY <1>4, <2>1, <2>2, <2>3 DEF CallSound, Spent
<1> QED
  BY <1>10, <1>11, <1>12, <1>13

\* A failure evicts only the member whose socket it was met on, after its grace.
LEMMA CollectKeeps ==
    ASSUME PoolInv, NEW c \in Callers, NEW f \in call[c].flights, Collect(c, f)
    PROVE  PoolInv'
<1> USE DEF PoolInv
<1> DEFINE k == [call[c] EXCEPT !.flights = @ \ {f}, !.got = @ \cup {f.step}]
           s == sock[f.path]
           m == members[f.path]
<1>1. f \in Flight /\ f.path \in Paths /\ FlightSound(f)
  BY DEF PoolTypes, CallsSound, CallSound, Call, Flight
<1>2. CASE f.step = "cut" /\ Evictable(m, f.id) /\ s.id = f.id
  BY <1>2, TakenDarkKeeps
<1>3. CASE ~(f.step = "cut" /\ Evictable(m, f.id) /\ s.id = f.id)
  <2>1. UNCHANGED <<sock, incs, changes, events, now>>
    BY <1>3 DEF Collect, TakenDark
  <2>2. k \in Call /\ CallSound(k) /\ call' = [call EXCEPT ![c] = k]
    BY CollectedSound
  <2> HIDE DEF k
  <2>3. CallsSound' /\ call' \in [Callers -> Call]
    BY <2>1, <2>2, CallWrites
  <2>4. /\ members' \in [Paths -> Member]
        /\ \A q \in Paths : MemberSound(members'[q], q) /\ members'[q].at <= now
    <3>1. CASE members' = members
      BY <3>1 DEF PoolTypes, MembersSound
    <3>2. CASE f.step \in Failures /\ Evictable(m, f.id)
      <4> DEFINE n == [m EXCEPT !.out = TRUE, !.at = now]
      <4>1. /\ m \in Member /\ MemberSound(m, f.path) /\ now \in Nat
            /\ m.seen \in Nat /\ s \in Socket /\ s.mtime \in Nat
        BY <1>1 DEF PoolTypes, MembersSound, Member, Socket
      <4>2. n \in Member /\ n.id = m.id /\ n.seen = m.seen /\ n.out = TRUE /\ n.at = now
        BY <4>1 DEF Member
      <4>3. members' = [members EXCEPT ![f.path] = n]
        BY <1>1, <3>2 DEF Collect, Evicted, PoolTypes
      <4>4. m.id # 0 /\ m.id = f.id /\ m.seen + Grace <= now
        BY <3>2, <4>1, PoolNumbers DEF Evictable
      <4>5. m.id = s.id => f.step = "fail"
        BY <1>3, <3>2, <4>4 DEF Failures
      <4> HIDE DEF n
      <4>6. MemberSound(n, f.path)
        <5>1. There(f.path) /\ m.id = s.id => s.mtime + Grace <= now
          BY <4>1, <4>4, PoolNumbers DEF MemberSound
        <5>2. m.id = s.id => /\ s.faulty \/ s.mode = "bound" \/ now < s.mtime + Grace
                             /\ s.mode \in Up => now <= s.since + Slowest
          BY <1>1, <4>4, <4>5 DEF FlightSound, FailSound
        <5>3. There(f.path) /\ m.id = s.id =>
                  s.faulty \/ (s.mode = "bound" /\ s.mtime + Grace <= now)
          BY <4>1, <5>1, <5>2, PoolNumbers
        <5>4. n.id <= incs /\ n.id # 0
          BY <4>1, <4>2, <4>4 DEF MemberSound
        <5>5. There(f.path) /\ n.id = s.id =>
                  /\ s.mtime <= n.seen
                  /\ s.faulty \/ (s.mode = "bound" /\ s.mtime + Grace <= now)
                  /\ s.mode \in Up => n.at <= s.since + Slowest
          BY <4>1, <4>2, <5>2, <5>3 DEF MemberSound
        <5> QED
          BY <5>4, <5>5 DEF MemberSound
      <4>7. members' \in [Paths -> Member]
        BY <1>1, <4>2, <4>3 DEF PoolTypes
      <4>8. \A q \in Paths : members'[q] = IF q = f.path THEN n ELSE members[q]
        BY <1>1, <4>3 DEF PoolTypes
      <4>9. \A q \in Paths : MemberSound(members[q], q) /\ members[q].at <= now
        BY DEF PoolTypes, MembersSound
      <4>10. n.at <= now
        BY <4>1, <4>2
      <4> QED
        BY <4>6, <4>7, <4>8, <4>9, <4>10
    <3> QED
      BY <3>1, <3>2 DEF Collect, Evicted
  <2>5. MembersSound' /\ \A q \in Paths : members'[q].at <= now' /\ sock'[q].mtime <= now'
    BY <2>1, <2>4, MembersStay
  <2> QED
    BY <2>1, <2>3, <2>4, <2>5, SocketsStay DEF PoolTypes
<1> QED
  BY <1>2, <1>3

LEMMA ReturnKeeps ==
    ASSUME PoolInv, NEW c \in Callers, Return(c)
    PROVE  PoolInv'
<1>1. Idle \in Call /\ CallSound(Idle)
  BY DEF Idle, Call, CallSound, PoolInv, PoolTypes
<1> QED
  BY <1>1, CallKeepsPool DEF Return

\* Every step keeps the invariant, as long as no inode is given out twice.
LEMMA PoolKept ==
    ASSUME ReuseIds = FALSE
    PROVE  PoolInv /\ [PoolNext]_poolVars => PoolInv'
<1> SUFFICES ASSUME PoolInv, [PoolNext]_poolVars PROVE PoolInv'
  OBVIOUS
<1>1. CASE UNCHANGED poolVars
  <2>1. UNCHANGED <<sock, incs, changes, members, events, call, now>>
    BY <1>1 DEF poolVars, world
  <2>2. MembersSound'
    BY <2>1 DEF PoolInv, MembersSound, MemberSound, There
  <2> QED
    BY <2>1, <2>2, SocketsStay, CallsStay DEF PoolInv, PoolTypes
<1>2. ASSUME NEW c \in Callers, Step(c) PROVE PoolInv'
  BY <1>2, StartKeeps, BorrowKeeps, DialKeeps, CutShortKeeps, HangKeeps, CollectKeeps, ReturnKeeps DEF Step
<1>3. ASSUME NEW p \in Paths, World(p) PROVE PoolInv'
  BY <1>3, BindKeeps, UnbindKeeps, ChangeKeeps, NoteSeenKeeps DEF World
<1> QED
  BY <1>1, <1>2, <1>3, ReportKeeps, AdvanceKeeps DEF PoolNext

\* Only a caller that is out of time takes a healthy peer out of rotation, and a
\* call that is not misses none that was ready and left alone, if no freed inode
\* is given to a new socket: evict tells sockets apart by inode.
THEOREM PoolStaysSound ==
    ASSUME ReuseIds = FALSE
    PROVE  PoolSpec => []PoolSound
<1>1. PoolInv => PoolSound
  <2> SUFFICES ASSUME PoolInv PROVE PoolSound
    OBVIOUS
  <2> USE DEF PoolInv
  <2>1. HealthyStays
    BY DEF HealthyStays, Dark, MembersSound, MemberSound, Up
  <2>2. ServingFound
    <3> SUFFICES ASSUME NEW c \in Callers, Finished(c), ~Spent(call[c]),
                        call[c].got \cap Heard(call[c].op) = {}, NEW p \in Paths,
                        LongUp(p, Awaited(call[c].op), call[c].start)
                 PROVE  FALSE
      BY DEF ServingFound, Heard, Awaited
    <3>1. call[c].op # "idle" /\ call[c].flights = {} /\ Covered(call[c])
      BY DEF Finished, CallsSound, CallSound
    <3>2. call[c].op \in {"borrow", "broadcast"}
      BY <3>1, OpsAssumption DEF PoolTypes, Call
    <3>3. call[c].todo = {}
      BY <3>2 DEF Finished, Heard, Answers
    <3> QED
      BY <3>1, <3>3 DEF Covered
  <2> QED
    BY <2>1, <2>2 DEF PoolSound
<1> QED
  BY <1>1, PoolStarts, PoolKept, PTL DEF PoolSpec
=============================================================================
