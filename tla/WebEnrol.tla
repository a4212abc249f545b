------------------------------ MODULE WebEnrol ------------------------------
(***************************************************************************)
(* Enrolments driven from the browser: the runner and its engines          *)
(* (internal/web/enrol_runner.go), the prompt they share, the first-run    *)
(* wizard that the daemon waits for (ui_setup.go, ui_enrol.go) and the     *)
(* reload that replaces the runner (server.go).                            *)
(***************************************************************************)
EXTENDS Integers, FiniteSets

CONSTANTS
    Attended,    \* enrolments with a human in them
    Unattended,  \* copy enrolments
    MaxReloads, MaxWipes \* edits of the configuration, revoked credentials

VARIABLES
    wanted,   \* enrolments of the configuration file
    runner,   \* number of the current runner
    status,   \* its states; "absent" for what it does not have
    dismissed, doneSignal, \* its dismissed flag and its done channel
    engines,  \* engines that run: their runner, enrolment and step
    prompt,   \* the engine that enrolPromptCh belongs to, or NoEngine
    stored,   \* enrolments whose fields are all in Vault
    reload,   \* UpdateEnrolments: "idle", "checked" or "read", and what it read
    startup,  \* the daemon: "begin", "check", "waits" or "syncs"
    admitted, \* the user's last page of the main site: "none", "early" before there
              \* was a runner, or "in"
    reloads,  \* edits so far
    wiped     \* enrolments whose credentials were wiped

enrolVars == <<wanted, runner, status, dismissed, doneSignal, engines, prompt, stored,
               reload, startup, admitted, reloads, wiped>>

Enrolments == Attended \cup Unattended

NoEngine == [gen |-> 0, key |-> "nobody"]

Idle == [pc |-> "idle", keys |-> {}, done |-> {}]

Id(e) == [gen |-> e.gen, key |-> e.key]

EnrolInit ==
    /\ wanted = Enrolments
    /\ runner = 0 /\ status = [k \in Enrolments |-> "absent"]
    /\ dismissed = FALSE /\ doneSignal = FALSE
    /\ engines = {} /\ prompt = NoEngine
    /\ stored \in {{}, Enrolments}
    /\ reload = Idle
    /\ startup = "begin" /\ admitted = "none"
    /\ reloads = 0 /\ wiped = {}

-----------------------------------------------------------------------------
(***************************************************************************)
(* The runner.                                                             *)
(***************************************************************************)

\* NewEnrolmentRunner and MarkComplete, as InitEnrolments installs them
Install(keys, complete) ==
    /\ runner' = runner + 1
    /\ status' = [k \in Enrolments |-> IF k \notin keys THEN "absent"
                                       ELSE IF k \in complete THEN "complete" ELSE "pending"]
    /\ dismissed' = FALSE /\ doneSignal' = FALSE

\* What the runner has; without enrolments there is none.
Present == {k \in Enrolments : status[k] # "absent"}

AnyRunning == \E k \in Enrolments : status[k] = "running"

NeedsWizard ==
    /\ ~dismissed
    /\ \A k \in Attended : status[k] # "complete"
    /\ \E k \in Attended : status[k] \in {"pending", "running", "failed"}

Start(k) ==
    /\ status[k] \in {"pending", "failed"} /\ ~AnyRunning
    /\ status' = [status EXCEPT ![k] = "running"]
    /\ engines' = engines \cup {[gen |-> runner, key |-> k, pc |-> "run"]}
    /\ UNCHANGED <<wanted, runner, dismissed, doneSignal, prompt, stored, reload, startup, admitted,
                   reloads, wiped>>

Skip(k) ==
    /\ status[k] \in {"pending", "failed"}
    /\ status' = [status EXCEPT ![k] = "skipped"]
    /\ UNCHANGED <<wanted, runner, dismissed, doneSignal, engines, prompt, stored, reload, startup,
                   admitted, reloads, wiped>>

Reset(k) ==
    /\ status[k] \in {"complete", "skipped"}
    /\ status' = [status EXCEPT ![k] = "pending"]
    /\ UNCHANGED <<wanted, runner, dismissed, doneSignal, engines, prompt, stored, reload, startup,
                   admitted, reloads, wiped>>

\* An engine reports to the state it was started with; that of a replaced runner
\* is seen by nobody.
Report(e, result) ==
    /\ status' = IF e.gen = runner THEN [status EXCEPT ![e.key] = result] ELSE status
    /\ engines' = engines \ {e}

\* EnrolPromptSecret: there is one prompt, and a second one is refused.
AskPrompt(e) ==
    /\ e \in engines /\ e.pc = "run" /\ e.key \in Attended
    /\ IF prompt = NoEngine
          THEN /\ prompt' = Id(e)
               /\ engines' = (engines \ {e}) \cup {[e EXCEPT !.pc = "prompt"]}
               /\ UNCHANGED status
          ELSE Report(e, "failed") /\ UNCHANGED prompt
    /\ UNCHANGED <<wanted, runner, dismissed, doneSignal, stored, reload, startup, admitted,
                   reloads, wiped>>

\* buildUIEnrolCard: the card of an enrolment that runs shows the form for the
\* prompt that is pending, whichever engine asks.
ShowsForm(k) == status[k] = "running" /\ prompt # NoEngine

\* enrolSecret, deliverEnrolPrompt: the form of card k is posted, from a page as it
\* is now or as it was.  The key it carries only names the page to go back to; the
\* answer goes to the engine that waits.
AnswerPrompt(k, e) ==
    /\ k \in Enrolments /\ e \in engines
    /\ e.pc = "prompt" /\ prompt = Id(e)
    /\ prompt' = NoEngine
    /\ engines' = (engines \ {e}) \cup {[e EXCEPT !.pc = "write"]}
    /\ UNCHANGED <<wanted, runner, status, dismissed, doneSignal, stored, reload, startup, admitted,
                   reloads, wiped>>

\* The engine's own flow ends, with all its fields or without.
EngineEnds(e) ==
    /\ e \in engines /\ e.pc = "run"
    /\ \/ Report(e, "failed")
       \/ /\ engines' = (engines \ {e}) \cup {[e EXCEPT !.pc = "write"]}
          /\ UNCHANGED status
    /\ UNCHANGED <<wanted, runner, dismissed, doneSignal, prompt, stored, reload, startup, admitted,
                   reloads, wiped>>

\* Mutant: the enrolment is complete whether Vault took it or not.
WriteHoped(e) ==
    /\ e \in engines /\ e.pc = "write"
    /\ Report(e, "complete")
    /\ stored' \in {stored, stored \cup {e.key}}
    /\ UNCHANGED <<wanted, runner, dismissed, doneSignal, prompt, reload, startup, admitted,
                   reloads, wiped>>

WriteCredentials(e) ==
    /\ e \in engines /\ e.pc = "write"
    /\ \/ Report(e, "failed") /\ UNCHANGED stored
       \/ Report(e, "complete") /\ stored' = stored \cup {e.key}
    /\ UNCHANGED <<wanted, runner, dismissed, doneSignal, prompt, reload, startup, admitted,
                   reloads, wiped>>

-----------------------------------------------------------------------------
(***************************************************************************)
(* The wizard and the daemon that waits for it.                            *)
(***************************************************************************)
InitEnrolments ==
    /\ startup = "begin"
    /\ Install(wanted, stored \cap wanted)
    /\ startup' = "check"
    /\ UNCHANGED <<wanted, engines, prompt, stored, reload, admitted, reloads, wiped>>

\* WaitForEnrolments asks once whether there is anything to wait for.
WaitForEnrolments ==
    /\ startup = "check"
    /\ startup' = IF NeedsWizard THEN "waits" ELSE "syncs"
    /\ UNCHANGED <<wanted, runner, status, dismissed, doneSignal, engines, prompt, stored, reload,
                   admitted, reloads, wiped>>

\* completeEnrolments, which does nothing without a runner
Complete ==
    IF Present # {} THEN dismissed' = TRUE /\ doneSignal' = TRUE
                    ELSE UNCHANGED <<dismissed, doneSignal>>

\* The routes answer before InitEnrolments has run.
Admit ==
    /\ admitted' = IF startup = "begin" THEN "early" ELSE "in"
    /\ Complete
    /\ UNCHANGED <<wanted, runner, status, engines, prompt, stored, reload, startup, reloads,
                   wiped>>

\* handleRoot and handleSetup, when no wizard is called for or there is no runner
EnterSite == ~NeedsWizard /\ Admit

\* handleSetupComplete, and any page of the main site (requireUIPage): the rest
\* is left for later.
LeaveWizard == NeedsWizard /\ Admit

StopWaiting ==
    /\ startup = "waits" /\ doneSignal
    /\ startup' = "syncs" /\ doneSignal' = FALSE
    /\ UNCHANGED <<wanted, runner, status, dismissed, engines, prompt, stored, reload, admitted,
                   reloads, wiped>>

-----------------------------------------------------------------------------
(***************************************************************************)
(* Reload.                                                                 *)
(***************************************************************************)
EditConfig ==
    /\ startup = "syncs" /\ reloads < MaxReloads
    /\ reloads' = reloads + 1
    /\ wanted' \in {Attended, {}}
    /\ UNCHANGED <<runner, status, dismissed, doneSignal, engines, prompt, stored, reload, startup,
                   admitted, wiped>>

\* UpdateEnrolments: an engine that runs defers the whole update.
CheckRunning ==
    /\ startup = "syncs" /\ reload = Idle /\ Present # wanted
    /\ ~AnyRunning
    /\ reload' = [pc |-> "checked", keys |-> wanted, done |-> {}]
    /\ UNCHANGED <<wanted, runner, status, dismissed, doneSignal, engines, prompt, stored, startup,
                   admitted, reloads, wiped>>

\* InitEnrolments reads Vault, where a read may fail, and then swaps.
ReadStored ==
    /\ reload.pc = "checked"
    /\ reload' \in {[reload EXCEPT !.pc = "read", !.done = stored \cap reload.keys],
                    [reload EXCEPT !.pc = "read", !.done = {}]}
    /\ UNCHANGED <<wanted, runner, status, dismissed, doneSignal, engines, prompt, stored, startup,
                   admitted, reloads, wiped>>

SwapRunner ==
    /\ reload.pc = "read"
    /\ Install(reload.keys, reload.done)
    /\ reload' = Idle
    /\ UNCHANGED <<wanted, engines, prompt, stored, startup, admitted, reloads, wiped>>

\* The refresh manager wiped a credential that its issuer has revoked.
WipeCredential(k) ==
    /\ k \in stored /\ Cardinality(wiped) < MaxWipes
    /\ wiped' = wiped \cup {k}
    /\ stored' = stored \ {k}
    /\ UNCHANGED <<wanted, runner, status, dismissed, doneSignal, engines, prompt, reload, startup,
                   admitted, reloads>>

EnrolNext ==
    \/ \E k \in Enrolments : Start(k) \/ Skip(k) \/ Reset(k) \/ WipeCredential(k)
    \/ \E e \in engines : AskPrompt(e) \/ EngineEnds(e) \/ WriteCredentials(e)
    \/ \E k \in Enrolments, e \in engines : AnswerPrompt(k, e)
    \/ InitEnrolments \/ WaitForEnrolments \/ EnterSite \/ LeaveWizard \/ StopWaiting
    \/ EditConfig \/ CheckRunning \/ ReadStored \/ SwapRunner

\* The daemon's startup runs on, as far as a signed-in user has brought it; engines
\* and users owe nothing.
EnrolFairness ==
    /\ WF_enrolVars(admitted # "none" /\ InitEnrolments)
    /\ WF_enrolVars(WaitForEnrolments) /\ WF_enrolVars(StopWaiting)

EnrolSpec == EnrolInit /\ [][EnrolNext]_enrolVars /\ EnrolFairness

-----------------------------------------------------------------------------
\* An enrolment shown as complete had its credentials in Vault, also across a
\* reload that reads Vault while an engine writes (Start, InitEnrolments).
CompleteIsStored == \A k \in Enrolments : status[k] = "complete" => k \in stored \cup wiped

\* The prompt belongs to the engine that waits for it: none waits for an answer
\* that cannot come, also one that a reload left behind, and an answer reaches an
\* engine that asked (EnrolPromptSecret, deliverEnrolPrompt).  Which card the
\* answer was typed on is another matter: see PromptShown and AnswersOwnCard.
PromptOwned ==
    /\ \A e \in engines : e.pc = "prompt" => prompt = Id(e)
    /\ prompt # NoEngine => \E e \in engines : Id(e) = prompt /\ e.pc = "prompt"

\* A card shows the prompt of its own engine, or of one that a reload left behind
\* (buildUIEnrolCard, EnrolmentRunner.Start).
PromptShown ==
    \A k \in Enrolments :
       ShowsForm(k) => prompt = [gen |-> runner, key |-> k] \/ prompt.gen < runner

\* A reload that meets a start is to cost "a re-runnable enrolment, not
\* corruption" (UpdateEnrolments): the passphrase typed on the card that runs does
\* not go into the credential of another.  False after such a reload.
AnswersOwnCard ==
    [][\A k \in Enrolments, e \in engines :
          ShowsForm(k) /\ AnswerPrompt(k, e) => e.key = k]_enrolVars

\* The user who has reached the main site since there is a runner has let the
\* daemon go (completeEnrolments, Wait).
SiteMeansSync == (admitted = "in") ~> (startup = "syncs")

\* "Reaching any main-site page also dismisses the first-run wizard, releasing a
\* daemon parked in EnrolmentRunner.Wait()" (requireUIPage).  False for a page
\* opened before there is a runner.
PageReleases == (admitted # "none") ~> (startup = "syncs")

\* What the wizard shows is so.
EnrolSound == CompleteIsStored /\ PromptOwned /\ PromptShown

\* Under the fairness of the daemon's startup, the site means a sync.
EnrolServes == EnrolFairness => SiteMeansSync
=============================================================================
