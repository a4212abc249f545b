------------------------- MODULE LifecycleSchedule -------------------------
(***************************************************************************)
(* When the lifecycle goroutine of internal/auth/lifecycle.go acts: its    *)
(* timer, the out-of-cycle checks that rejection reports ask for, the rate *)
(* limit on those reports, and the two backoffs.                           *)
(*                                                                         *)
(* Time is a counter.  It does not pass while the idle goroutine has       *)
(* something to do, nor inside NotifyRejected (an atomic load, a           *)
(* compare-and-swap and a non-blocking send), whose callers may interleave *)
(* at one instant in any order; a check cycle takes up to MaxCycle.  What  *)
(* a cycle finds is arbitrary: TokenLifecycle says how it comes about.     *)
(***************************************************************************)
EXTENDS Integers, FiniteSets

CONSTANTS
    Reporters,            \* goroutines that report rejections
    CheckInterval,      \* 5 minutes
    RecoveryInterval,   \* 10 seconds; also the window of the rate limit
    MaxDelay,           \* 5 minutes
    MaxCycle,           \* longest check cycle
    Horizon             \* bound: the horizon of the model

ASSUME IntervalsAssumption ==
    /\ {CheckInterval, RecoveryInterval, MaxDelay} \subseteq Nat \ {0}
    /\ RecoveryInterval <= CheckInterval /\ CheckInterval <= MaxDelay
    /\ MaxCycle \in Nat /\ Horizon \in Nat

VARIABLES
    time,
    run,            \* "idle", or the cycle: "scheduled" or "early"
    began,          \* when the cycle began
    due,            \* when the timer fires (nextTickAt)
    currentDelay,
    needsReauth,
    failures, nextRecoverAt,    \* recoverFailures; 0 is the zero time
    rejectCh,
    lastNotify,     \* lastRejectNotifyAt; 0 is "never"
    report,           \* per caller: its step, and the elapsed and last it read
    sentAt,         \* history: when the latest nudge was queued
    healthyAt,      \* history: the latest return to a working token
    base,           \* history: the latest scheduled cycle or return to health
    triedAt         \* history: the latest failed recovery of this episode

timer == <<run, began, due, currentDelay>>
recovery == <<needsReauth, failures, nextRecoverAt, triedAt>>
limit == <<lastNotify, report, sentAt>>
scheduleVars == <<time, timer, recovery, rejectCh, limit, healthyAt, base>>

NotReporting == [step |-> "idle", elapsed |-> 0, last |-> 0]

ScheduleTypes ==
    /\ {time, began, due, currentDelay, failures, nextRecoverAt, lastNotify,
        sentAt, healthyAt, base, triedAt} \subseteq Nat
    /\ run \in {"idle", "scheduled", "early"}
    /\ {needsReauth, rejectCh} \subseteq BOOLEAN
    /\ report \in [Reporters -> [step: {"idle", "swap", "send", "release"},
                             elapsed: Nat, last: Nat]]
    /\ currentDelay <= MaxDelay

\* Time begins at 1: 0 is reserved.
ScheduleInit ==
    /\ time = 1 /\ run = "idle" /\ began = 0
    /\ due = 1 + CheckInterval /\ currentDelay = CheckInterval
    /\ needsReauth = FALSE /\ failures = 0 /\ nextRecoverAt = 0
    /\ rejectCh = FALSE /\ lastNotify = 0
    /\ report = [c \in Reporters |-> NotReporting]
    /\ sentAt = 0 /\ healthyAt = 1 /\ base = 1 /\ triedAt = 0

Least(a, b) == IF a < b THEN a ELSE b

-----------------------------------------------------------------------------
(* NotifyRejected, by caller c.                                            *)

CallAt(c, step, elapsed, last) ==
    report' = [report EXCEPT ![c] = [step |-> step, elapsed |-> elapsed,
                                 last |-> last]]

\* Load the latest report's time; inside the window the report is dropped.
Notify(c) ==
    /\ report[c].step = "idle"
    /\ lastNotify = 0 \/ time - lastNotify >= RecoveryInterval
    /\ CallAt(c, "swap", time, lastNotify)
    /\ UNCHANGED <<time, timer, recovery, rejectCh, lastNotify, sentAt,
                   healthyAt, base>>

\* Mutant: a plain store.
SwapAlways(c) ==
    /\ report[c].step = "swap"
    /\ lastNotify' = report[c].elapsed
    /\ CallAt(c, "send", report[c].elapsed, report[c].last)
    /\ UNCHANGED <<time, timer, recovery, rejectCh, sentAt, healthyAt, base>>

\* Compare and swap: the loser's report is covered by the winner's.
Swap(c) ==
    /\ report[c].step = "swap"
    /\ IF lastNotify = report[c].last
       THEN /\ lastNotify' = report[c].elapsed
            /\ CallAt(c, "send", report[c].elapsed, report[c].last)
       ELSE CallAt(c, "idle", 0, 0) /\ UNCHANGED lastNotify
    /\ UNCHANGED <<time, timer, recovery, rejectCh, sentAt, healthyAt, base>>

\* Queue the nudge; if one is queued already, give the window back.
Send(c) ==
    /\ report[c].step = "send"
    /\ IF rejectCh
       THEN /\ CallAt(c, "release", report[c].elapsed, report[c].last)
            /\ UNCHANGED <<rejectCh, sentAt>>
       ELSE /\ rejectCh' = TRUE /\ sentAt' = time
            /\ CallAt(c, "idle", 0, 0)
    /\ UNCHANGED <<time, timer, recovery, lastNotify, healthyAt, base>>

\* Mutant: the window is kept.
ReleaseNothing(c) ==
    /\ report[c].step = "release"
    /\ CallAt(c, "idle", 0, 0)
    /\ UNCHANGED <<time, timer, recovery, rejectCh, lastNotify, sentAt,
                   healthyAt, base>>

ReleaseWindow(c) ==
    /\ report[c].step = "release"
    /\ lastNotify' = IF lastNotify = report[c].elapsed THEN report[c].last
                     ELSE lastNotify
    /\ CallAt(c, "idle", 0, 0)
    /\ UNCHANGED <<time, timer, recovery, rejectCh, sentAt, healthyAt, base>>

-----------------------------------------------------------------------------
(* The goroutine.                                                          *)

Begin(kind) == /\ run = "idle"
               /\ run' = kind
               /\ began' = time
               /\ UNCHANGED <<time, due, currentDelay, recovery, limit,
                              healthyAt, base>>

TimerFires == due <= time /\ Begin("scheduled") /\ UNCHANGED rejectCh

TakeReject == rejectCh /\ rejectCh' = FALSE /\ Begin("early")

\* Mutant: every cycle arms the full delay.
ArmFull == run' = "idle" /\ began' = 0 /\ due' = time + currentDelay'

\* armAfterCycle of a cycle that did not restore health: an early one never
\* pushes out the tick it pre-empted.
Arm == /\ run' = "idle" /\ began' = 0
       /\ due' = IF run = "early" /\ due - time < currentDelay'
                 THEN IF due < time THEN time ELSE due
                 ELSE time + currentDelay'

Scheduled == base' = IF run = "scheduled" THEN time ELSE base

\* clearReauth and the full interval.
Restored == /\ needsReauth' = FALSE
            /\ failures' = 0 /\ nextRecoverAt' = 0 /\ triedAt' = 0
            /\ currentDelay' = CheckInterval
            /\ due' = time + CheckInterval
            /\ healthyAt' = time /\ base' = time

\* The hook may be called: no backoff is running.
RecoverDue == nextRecoverAt = 0 \/ time >= nextRecoverAt

\* The token is healthy, or was replaced or recovered: drainReject.
CycleHealthy ==
    /\ run # "idle"
    /\ Restored
    /\ rejectCh' = FALSE
    /\ run' = "idle" /\ began' = 0
    /\ UNCHANGED <<time, limit>>

\* Mutant: no upper limit.
RecoverBackoffUnclamped(n) ==
    IF n <= 1 THEN 0 ELSE RecoveryInterval * 2^(n - 1)

\* recoverBackoff after n failures in a row: doubled at most MaxShift times, and
\* clamped.
MaxShift == 16
RecoverBackoff(n) ==
    LET d == RecoveryInterval * 2^Least(n - 1, MaxShift) IN
    IF n <= 1 THEN 0 ELSE IF d \in 1..MaxDelay THEN d ELSE MaxDelay

\* Mutant: the failure is counted, the next attempt is not put off.
BackOffRecoveryCounts ==
    /\ failures' = failures + 1
    /\ nextRecoverAt' = 0
    /\ triedAt' = time

\* tryRecover was called and failed.
BackOffRecovery ==
    /\ failures' = failures + 1
    /\ nextRecoverAt' = IF RecoverBackoff(failures') > 0
                        THEN time + RecoverBackoff(failures') ELSE 0
    /\ triedAt' = time

\* No replacement: signal re-authentication and poll fast.
CycleDead ==
    /\ run # "idle"
    /\ IF RecoverDue THEN BackOffRecovery
       ELSE UNCHANGED <<failures, nextRecoverAt, triedAt>>
    /\ needsReauth' = TRUE
    /\ currentDelay' = RecoveryInterval
    /\ Arm /\ Scheduled
    /\ UNCHANGED <<time, rejectCh, limit, healthyAt>>

\* Mutant: an early cycle doubles the delay too.
BackoffAlways == Least(2 * currentDelay, MaxDelay)

\* backoffFrom: only a scheduled tick doubles the delay.
BackoffFrom == IF run = "early" THEN currentDelay
               ELSE Least(2 * currentDelay, MaxDelay)

\* A transient fault, or a renewal that failed.
CycleFailed ==
    /\ run # "idle" /\ ~needsReauth
    /\ currentDelay' = BackoffFrom
    /\ Arm /\ Scheduled
    /\ UNCHANGED <<time, recovery, rejectCh, limit, healthyAt>>

\* A reload nudge found a working token (one that did not changes nothing).
ReloadFound ==
    /\ run = "idle"
    /\ Restored
    /\ UNCHANGED <<time, run, began, rejectCh, limit>>

\* Time passes.
ClockTicks ==
    /\ time < Horizon
    /\ \A c \in Reporters : report[c].step = "idle"
    /\ IF run = "idle" THEN due > time /\ ~rejectCh ELSE time < began + MaxCycle
    /\ time' = time + 1
    /\ UNCHANGED <<timer, recovery, rejectCh, limit, healthyAt, base>>

-----------------------------------------------------------------------------

ScheduleNext == \/ \E c \in Reporters : Notify(c) \/ Swap(c) \/ Send(c) \/ ReleaseWindow(c)
        \/ TimerFires \/ TakeReject
        \/ CycleHealthy \/ CycleDead \/ CycleFailed
        \/ ReloadFound \/ ClockTicks

ScheduleSpec == ScheduleInit /\ [][ScheduleNext]_scheduleVars

-----------------------------------------------------------------------------
(* Properties.                                                             *)

\* Nudges are queued at most once per window, however the callers' loads,
\* swaps, sends and releases interleave with the goroutine taking them.
NudgesSpaced ==
    [][sentAt' # sentAt /\ sentAt # 0
           => sentAt' - sentAt >= RecoveryInterval]_scheduleVars

\* A report is lost only to the window of a nudge that was really queued: the
\* limiter is never closed by a report that did nothing.
WindowEarned ==
    lastNotify # 0 /\ (\A c \in Reporters : report[c].step = "idle")
        => lastNotify = sentAt

\* Reports cannot starve the scheduled check: unless it is due already its
\* time stays within the longest delay of the latest scheduled cycle or return
\* to health.
CheckNotStarved == due <= base + MaxDelay \/ due <= time

\* The delay between checks grows only with time spent without a healthy one,
\* never with the number of reports.
DelayEarned == currentDelay <= CheckInterval + (time - healthyAt)

\* The recovery hook, which opens the TPM, is called no sooner than its backoff
\* after a failure, however many cycles the reports cause ...
RecoverPaced ==
    [][triedAt' > triedAt /\ triedAt # 0
           => triedAt' - triedAt >= RecoverBackoff(failures)]_scheduleVars

\* ... and no later than the longest backoff and a poll after it.
RecoverPrompt ==
    triedAt # 0 => time <= triedAt + MaxDelay + RecoveryInterval + MaxCycle

\* What the schedule owes in every state: no window closed for nothing, no check
\* starved, no backoff compounded, no recovery put off too long.
ScheduleSound ==
    ScheduleTypes /\ WindowEarned /\ CheckNotStarved /\ DelayEarned /\ RecoverPrompt

\* What limits its steps: the spacing of nudges and of recoveries.
SchedulePaced == NudgesSpaced /\ RecoverPaced
=============================================================================
