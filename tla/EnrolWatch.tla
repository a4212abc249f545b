----------------------------- MODULE EnrolWatch -----------------------------
(***************************************************************************)
(* Enrolments that mirror another secret: the watch manager, which runs    *)
(* the copy engine on a timer and on Vault's events (internal/enrol/       *)
(* watch.go, copy.go), and the enrolment manager of a terminal, which runs *)
(* the same engine for what is missing (manager.go, wizard.go).  Every     *)
(* enrolment has a source and a target; the target also has a field that   *)
(* somebody else writes.                                                   *)
(***************************************************************************)
EXTENDS Integers, Sequences, SequencesExt, FiniteSets

CONSTANTS
    Mirrors,    \* copy enrolments
    Room,       \* slots of triggerCh
    MaxSources, \* writes of the sources
    MaxOthers,  \* writes of the other field
    MaxUpsets   \* engine runs that fail, subscriptions that break, reloads

ASSUME WatchAssumption ==
    /\ Room \in Nat \ {0}
    /\ MaxSources \in Nat /\ MaxOthers \in Nat /\ MaxUpsets \in Nat

VARIABLES
    source,     \* version of each source
    target,     \* each target: the source version it mirrors (0: none) and the other field
    configured, \* the enrolments of the watch manager
    pending, triggers, \* its dedup marks and its channel
    backedOff,  \* enrolments whose backoff has not passed
    stream,     \* Vault's events: "none" (not Enterprise), "down" or "up"
    arriving,   \* events of the subscription not read yet
    dispatch,   \* the event being dispatched: its enrolment and step
    watcher,    \* the run loop: step, enrolments to do, what was read
    terminal,   \* CheckAll of a terminal: step, enrolment, what was read
    noticed, begun, \* newest source version an event promises to be read (0: none); that was read
    upsets

watchVars == <<source, target, configured, pending, triggers, backedOff, stream, arriving, dispatch,
               watcher, terminal, noticed, begun, upsets>>

NoKey == "nobody"

NoDispatch == [pc |-> "idle", key |-> NoKey]

AtRest == [pc |-> "idle", key |-> NoKey, todo |-> {}, src |-> 0, tgt |-> [copied |-> 0, other |-> 0]]

WatchInit ==
    /\ source = [k \in Mirrors |-> 1]
    /\ target = [k \in Mirrors |-> [copied |-> 0, other |-> 0]]
    /\ configured = Mirrors
    /\ pending = {} /\ triggers = <<>> /\ backedOff = {}
    /\ stream \in {"none", "down"} /\ arriving = {}
    /\ dispatch = NoDispatch
    /\ watcher = [AtRest EXCEPT !.pc = "off"] /\ terminal = AtRest
    /\ noticed = [k \in Mirrors |-> 0] /\ begun = [k \in Mirrors |-> 0]
    /\ upsets = 0

Upset == upsets < MaxUpsets /\ upsets' = upsets + 1

-----------------------------------------------------------------------------
(***************************************************************************)
(* Events.                                                                 *)
(***************************************************************************)

\* runEventLoop connects, after a delay.
Subscribe ==
    /\ watcher.pc # "off" /\ stream = "down"
    /\ stream' = "up"
    /\ UNCHANGED <<source, target, configured, pending, triggers, backedOff, arriving, dispatch,
                   watcher, terminal, noticed, begun, upsets>>

\* The subscription breaks with what it had not delivered.
StreamBreaks ==
    /\ stream = "up" /\ Upset
    /\ stream' = "down" /\ arriving' = {}
    /\ UNCHANGED <<source, target, configured, pending, triggers, backedOff, dispatch, watcher,
                   terminal, noticed, begun>>

\* dispatchEvent: an enrolment that is not configured is nobody's.
DispatchEvent(k) ==
    /\ dispatch = NoDispatch /\ k \in arriving
    /\ arriving' = arriving \ {k}
    /\ dispatch' = IF k \in configured THEN [pc |-> "mark", key |-> k] ELSE NoDispatch
    /\ UNCHANGED <<source, target, configured, pending, triggers, backedOff, stream, watcher,
                   terminal, noticed, begun, upsets>>

\* enqueueTrigger: one that is marked is on its way already,
MarkPending ==
    /\ dispatch.pc = "mark"
    /\ IF dispatch.key \in pending
          THEN dispatch' = NoDispatch /\ UNCHANGED pending
               /\ noticed' = [noticed EXCEPT ![dispatch.key] = source[dispatch.key]]
          ELSE dispatch' = [dispatch EXCEPT !.pc = "send"] /\ pending' = pending \cup {dispatch.key}
               /\ UNCHANGED noticed
    /\ UNCHANGED <<source, target, configured, triggers, backedOff, stream, arriving, watcher,
                   terminal, begun, upsets>>

\* and a full channel drops it, mark included.
SendTrigger ==
    /\ dispatch.pc = "send"
    /\ IF Len(triggers) < Room
          THEN /\ triggers' = Append(triggers, dispatch.key)
               /\ noticed' = [noticed EXCEPT ![dispatch.key] = source[dispatch.key]]
               /\ UNCHANGED pending
          ELSE /\ pending' = pending \ {dispatch.key}
               /\ noticed' = [noticed EXCEPT ![dispatch.key] = 0]
               /\ UNCHANGED triggers
    /\ dispatch' = NoDispatch
    /\ UNCHANGED <<source, target, configured, backedOff, stream, arriving, watcher, terminal,
                   begun, upsets>>

-----------------------------------------------------------------------------
(***************************************************************************)
(* The run loop.                                                           *)
(***************************************************************************)

\* tickAll, at the start and on the ticker
Poll ==
    /\ watcher.pc \in {"off", "idle"}
    /\ watcher' = [AtRest EXCEPT !.pc = "tick", !.todo = configured]
    /\ UNCHANGED <<source, target, configured, pending, triggers, backedOff, stream, arriving,
                   dispatch, terminal, noticed, begun, upsets>>

TakeTrigger ==
    /\ watcher.pc = "idle" /\ triggers # <<>>
    /\ triggers' = Tail(triggers)
    /\ watcher' = [AtRest EXCEPT !.pc = "clear", !.key = Head(triggers)]
    /\ UNCHANGED <<source, target, configured, pending, backedOff, stream, arriving, dispatch,
                   terminal, noticed, begun, upsets>>

\* Mutant: the mark outlives the trigger.
ClearLate ==
    /\ watcher.pc = "clear"
    /\ watcher' = [AtRest EXCEPT !.pc = "tick", !.todo = configured \cap {watcher.key}]
    /\ UNCHANGED pending
    /\ UNCHANGED <<source, target, configured, triggers, backedOff, stream, arriving, dispatch,
                   terminal, noticed, begun, upsets>>

\* The mark goes before the engine runs, so that an event during the run counts.
ClearPending ==
    /\ watcher.pc = "clear"
    /\ pending' = pending \ {watcher.key}
    /\ watcher' = [AtRest EXCEPT !.pc = "tick", !.todo = configured \cap {watcher.key}]
    /\ UNCHANGED <<source, target, configured, triggers, backedOff, stream, arriving, dispatch,
                   terminal, noticed, begun, upsets>>

\* tickOneWithEnrolment of the next one; one that backs off is skipped.
NextOne ==
    /\ watcher.pc = "tick"
    /\ IF watcher.todo = {} THEN watcher' = AtRest /\ UNCHANGED noticed
       ELSE \E k \in watcher.todo :
               /\ watcher' = [watcher EXCEPT !.todo = @ \ {k}, !.key = k,
                                             !.pc = IF k \in backedOff THEN "tick" ELSE "source"]
               /\ noticed' = [noticed EXCEPT ![k] = IF k \in backedOff THEN 0 ELSE @]
    /\ UNCHANGED <<source, target, configured, pending, triggers, backedOff, stream, arriving,
                   dispatch, terminal, begun, upsets>>

\* Any of the calls fails: bumpBackoff.
RunFails ==
    /\ watcher.pc \in {"source", "merge", "diff", "put"} /\ Upset
    /\ backedOff' = backedOff \cup {watcher.key}
    /\ noticed' = [noticed EXCEPT ![watcher.key] = 0]
    /\ watcher' = [watcher EXCEPT !.pc = "tick"]
    /\ UNCHANGED <<source, target, configured, pending, triggers, stream, arriving, dispatch,
                   terminal, begun>>

\* CopyEngine.Run: the source, then the target to merge into.
ReadSource ==
    /\ watcher.pc = "source"
    /\ watcher' = [watcher EXCEPT !.pc = "merge", !.src = source[watcher.key]]
    /\ begun' = [begun EXCEPT ![watcher.key] = source[watcher.key]]
    /\ UNCHANGED <<source, target, configured, pending, triggers, backedOff, stream, arriving,
                   dispatch, terminal, noticed, upsets>>

MergeTarget ==
    /\ watcher.pc = "merge"
    /\ watcher' = [watcher EXCEPT !.pc = "diff",
                                  !.tgt = [target[watcher.key] EXCEPT !.copied = watcher.src]]
    /\ UNCHANGED <<source, target, configured, pending, triggers, backedOff, stream, arriving,
                   dispatch, terminal, noticed, begun, upsets>>

\* Mutant: a target that has the fields has the values.
KeysPresent(existing, desired) == existing.copied # 0

targetMatches(existing, desired) == existing = desired

\* The target is read again, and written only if it differs.
DiffTarget ==
    /\ watcher.pc = "diff"
    /\ LET same == targetMatches(target[watcher.key], watcher.tgt)
       IN  /\ watcher' = [watcher EXCEPT !.pc = IF same THEN "tick" ELSE "put"]
           /\ backedOff' = IF same THEN backedOff \ {watcher.key} ELSE backedOff
    /\ UNCHANGED <<source, target, configured, pending, triggers, stream, arriving, dispatch,
                   terminal, noticed, begun, upsets>>

\* PutKVv2 replaces the secret, whatever it is by now.
PutTarget ==
    /\ watcher.pc = "put"
    /\ target' = [target EXCEPT ![watcher.key] = watcher.tgt]
    /\ backedOff' = backedOff \ {watcher.key}
    /\ watcher' = [watcher EXCEPT !.pc = "tick"]
    /\ UNCHANGED <<source, configured, pending, triggers, stream, arriving, dispatch, terminal,
                   noticed, begun, upsets>>

BackoffPasses(k) ==
    /\ k \in backedOff
    /\ backedOff' = backedOff \ {k}
    /\ UNCHANGED <<source, target, configured, pending, triggers, stream, arriving, dispatch,
                   watcher, terminal, noticed, begun, upsets>>

\* UpdateConfig drops the bookkeeping of what is gone.  A trigger in the channel
\* stays there.
UpdateConfig(chosen) ==
    /\ chosen # configured /\ Upset
    /\ configured' = chosen
    /\ backedOff' = backedOff \cap chosen /\ pending' = pending \cap chosen
    /\ noticed' = [k \in Mirrors |-> IF k \in chosen \cap configured THEN noticed[k] ELSE 0]
    /\ UNCHANGED <<source, target, triggers, stream, arriving, dispatch, watcher, terminal, begun>>

-----------------------------------------------------------------------------
(***************************************************************************)
(* CheckAll and RunOne of the enrolment manager.                           *)
(***************************************************************************)

\* findPending: what is complete is skipped; `dotvault enrol` is forced.
FindPending(k, forced) ==
    /\ terminal.pc = "idle" /\ upsets < MaxUpsets
    /\ forced \/ target[k].copied = 0
    /\ upsets' = upsets + 1
    /\ terminal' = [AtRest EXCEPT !.pc = "source", !.key = k]
    /\ UNCHANGED <<source, target, configured, pending, triggers, backedOff, stream, arriving,
                   dispatch, watcher, noticed, begun>>

\* runWizard: the engine, which fails or is skipped, or reads source and target,
WizardReads ==
    /\ terminal.pc \in {"source", "merge"}
    /\ \/ terminal' = AtRest
       \/ terminal' = IF terminal.pc = "source"
                         THEN [terminal EXCEPT !.pc = "merge", !.src = source[terminal.key]]
                         ELSE [terminal EXCEPT !.pc = "write",
                                 !.tgt = [target[terminal.key] EXCEPT !.copied = terminal.src]]
    /\ UNCHANGED <<source, target, configured, pending, triggers, backedOff, stream, arriving,
                   dispatch, watcher, noticed, begun, upsets>>

\* and WriteKVv2, which may fail.
WriteEnrolment ==
    /\ terminal.pc = "write"
    /\ terminal' = AtRest
    /\ target' \in {target, [target EXCEPT ![terminal.key] = terminal.tgt]}
    /\ UNCHANGED <<source, configured, pending, triggers, backedOff, stream, arriving, dispatch,
                   watcher, noticed, begun, upsets>>

-----------------------------------------------------------------------------
SourceChanges(k) ==
    /\ source[k] <= MaxSources
    /\ source' = [source EXCEPT ![k] = @ + 1]
    /\ arriving' = IF stream = "up" THEN arriving \cup {k} ELSE arriving
    /\ UNCHANGED <<target, configured, pending, triggers, backedOff, stream, dispatch, watcher,
                   terminal, noticed, begun, upsets>>

OtherWrites(k) ==
    /\ target[k].copied # 0 /\ target[k].other < MaxOthers
    /\ target' = [target EXCEPT ![k].other = @ + 1]
    /\ UNCHANGED <<source, configured, pending, triggers, backedOff, stream, arriving, dispatch,
                   watcher, terminal, noticed, begun, upsets>>

WatchNext ==
    \/ Subscribe \/ StreamBreaks \/ MarkPending \/ SendTrigger
    \/ Poll \/ TakeTrigger \/ ClearPending \/ NextOne \/ RunFails \/ ReadSource \/ MergeTarget
    \/ DiffTarget \/ PutTarget \/ WizardReads \/ WriteEnrolment
    \/ \E chosen \in SUBSET Mirrors : UpdateConfig(chosen)
    \/ \E k \in Mirrors :
          \/ DispatchEvent(k) \/ BackoffPasses(k) \/ SourceChanges(k) \/ OtherWrites(k)
          \/ \E forced \in BOOLEAN : FindPending(k, forced)

\* The ticker fires, backoffs pass and a loop that has work does it.
WatchFairness ==
    /\ WF_watchVars(watcher.pc = "idle" /\ Poll) /\ WF_watchVars(TakeTrigger)
    /\ WF_watchVars(ClearPending) /\ WF_watchVars(NextOne)
    /\ WF_watchVars(ReadSource) /\ WF_watchVars(MergeTarget) /\ WF_watchVars(DiffTarget)
    /\ WF_watchVars(PutTarget)
    /\ WF_watchVars(MarkPending) /\ WF_watchVars(SendTrigger)
    /\ WF_watchVars(WriteEnrolment) /\ WF_watchVars(WizardReads)
    /\ \A k \in Mirrors : WF_watchVars(BackoffPasses(k))

WatchSpec == WatchInit /\ [][WatchNext]_watchVars /\ WatchFairness

-----------------------------------------------------------------------------
\* An event is not swallowed by the dedup mark: once it has been dispatched and
\* not dropped, the engine reads that version of the source or newer, or will
\* (enqueueTrigger, run).  What is dropped, backs off or fails is left to the poll.
EventHeeded ==
    \A k \in configured :
        noticed[k] > begun[k] =>
            \/ k \in ToSet(triggers)
            \/ watcher.pc = "clear" /\ watcher.key = k
            \/ k \in watcher.todo
            \/ watcher.key = k /\ watcher.pc = "source"

\* Every enrolment ends up a copy of its source, whatever failed, was lost, was
\* dropped or was written over on the way (tickAll, targetMatches, backoffs).
Mirrored ==
    <>[](watcher.pc # "off") => \A k \in Mirrors : <>[](k \in configured => target[k].copied = source[k])

\* No event is swallowed and, under the fairness of the watch loop, copies follow
\* their sources.
WatchServes == []EventHeeded /\ (WatchFairness => Mirrored)
=============================================================================
