----------------------------- MODULE WebProofs ------------------------------
(***************************************************************************)
(* The invariants of signing in and of enrolling through the browser, for  *)
(* any number of pages, token forms, logins, enrolments and reloads; and,  *)
(* for any number of tabs, fields, texts and writes, that the secret       *)
(* editor implements AtomicSecret and keeps what is not edited.            *)
(***************************************************************************)
EXTENDS WebLogin, WebEnrol, SecretEditor, TLAPS

(***************************************************************************)
(* 1. The login.  Under certificate auth no request ever gets as far as    *)
(* the shared client: each page goes from the consumed login straight to   *)
(* the end, and no token form is open.                                     *)
(***************************************************************************)
LoginTypes ==
    /\ page \in [Pages -> {"idle", "consume", "downscope", "child", "raw", "clear"}]
    /\ paste \in [Pastes -> [pc : {"idle", "lookup"}, token : LoginTokens \cup {NoToken},
                             prev : LoginTokens \cup {NoToken}]]
    /\ shared \in LoginTokens \cup {NoToken}

\* Nothing that could carry the bootstrap's token to the shared client is on its way.
Diverted ==
    /\ \A p \in Pages : page[p] \in {"idle", "consume", "clear"}
    /\ \A p \in Pastes : paste[p].pc = "idle"

LoginInv ==
    /\ LoginTypes
    /\ BootstrapStaysOut
    /\ mode = "certificate" => Diverted

LEMMA LoginBegins == LoginInit => LoginInv
BY DEF LoginInit, LoginInv, LoginTypes, BootstrapStaysOut, Diverted, LoginTokens, NoToken

(* The progress page: what its requests do to the pages and the client. *)
LEMMA PageSteps ==
    ASSUME LoginInv, NEW p \in Pages,
           \/ Progress(p) \/ ConsumeLoginToken(p) \/ Downscope(p) \/ Adopt(p) \/ ClearSession(p)
           \/ AuthCallback(p)
    PROVE  LoginInv'
<1> USE DEF LoginInv, LoginTypes, BootstrapStaysOut, Diverted
<1>1. CASE Progress(p)
  BY <1>1 DEF Progress
<1>2. CASE ConsumeLoginToken(p)
  BY <1>2 DEF ConsumeLoginToken
<1>3. CASE Downscope(p)
  <2>1. mode # "certificate"
    BY <1>3 DEF Downscope
  <2>2. CASE page' = [page EXCEPT ![p] = "clear"] /\ UNCHANGED shared
    BY <1>3, <2>1, <2>2 DEF Downscope
  <2>3. CASE shared' \in {"child", "raw"} /\ page' = [page EXCEPT ![p] = shared']
    BY <1>3, <2>1, <2>3 DEF Downscope, LoginTokens
  <2> QED
    BY <1>3, <2>2, <2>3 DEF Downscope
<1>4. CASE Adopt(p)
  BY <1>4 DEF Adopt
<1>5. CASE ClearSession(p)
  BY <1>5 DEF ClearSession
<1>6. CASE AuthCallback(p)
  BY <1>6 DEF AuthCallback
<1> QED
  BY <1>1, <1>2, <1>3, <1>4, <1>5, <1>6

(* The token form, which certificate auth does not serve. *)
LEMMA PasteSteps ==
    ASSUME LoginInv, NEW p \in Pastes,
           TryPasted(p) \/ \E token \in {"valid", "invalid"} : PasteToken(p, token)
    PROVE  LoginInv'
<1> USE DEF LoginInv, LoginTypes, BootstrapStaysOut, Diverted
<1>1. CASE TryPasted(p)
  <2>1. mode # "certificate" /\ UNCHANGED <<mode, page>>
    BY <1>1 DEF TryPasted
  <2>2. shared' \in LoginTokens \cup {NoToken}
    BY <1>1 DEF TryPasted
  <2>3. paste' = [paste EXCEPT ![p] = [pc |-> "idle", token |-> NoToken, prev |-> NoToken]]
    BY <1>1 DEF TryPasted
  <2> QED
    BY <2>1, <2>2, <2>3
<1>2. ASSUME NEW token \in {"valid", "invalid"}, PasteToken(p, token) PROVE LoginInv'
  <2>1. mode # "certificate" /\ UNCHANGED <<mode, page>>
    BY <1>2 DEF PasteToken
  <2>2. token \in LoginTokens
    BY DEF LoginTokens
  <2>3. /\ paste' = [paste EXCEPT ![p] = [pc |-> "lookup", token |-> token, prev |-> shared]]
        /\ shared' = token
    BY <1>2 DEF PasteToken
  <2> QED
    BY <2>1, <2>2, <2>3
<1> QED
  BY <1>1, <1>2

LEMMA LoginSteps == LoginInv /\ [LoginNext]_loginVars => LoginInv'
<1> SUFFICES ASSUME LoginInv, [LoginNext]_loginVars PROVE LoginInv'
  OBVIOUS
<1>1. ASSUME UNCHANGED <<mode, page, paste, file>>,
             shared' \in {shared, NoToken, "valid"}
      PROVE  LoginInv'
  <2>1. "valid" \in LoginTokens
    BY DEF LoginTokens
  <2> QED
    BY <1>1, <2>1 DEF LoginInv, LoginTypes, BootstrapStaysOut, Diverted
<1>2. CASE \/ StartLogin \/ RunLogin \/ ApprovePush \/ SubmitTOTP \/ WaitForTOTP \/ LoginTimesOut
           \/ PurgeSession
  BY <1>1, <1>2 DEF StartLogin, RunLogin, ApprovePush, SubmitTOTP, WaitForTOTP, LoginTimesOut,
     PurgeSession
<1>3. CASE \/ WaitForAuth \/ AuthWaited \/ Bootstrapped \/ BootstrapFails \/ ForceReauth
           \/ UNCHANGED loginVars
  BY <1>1, <1>3 DEF WaitForAuth, AuthWaited, Bootstrapped, BootstrapFails, ForceReauth, loginVars
<1> QED
  BY <1>2, <1>3, PageSteps, PasteSteps DEF LoginNext

(* Whatever two tabs of a browser, a token form and the daemon do in which *)
(* order: under certificate auth the token of the bootstrap's login        *)
(* reaches neither the shared client nor the token file                    *)
(* (consumeLoginToken, operationalAdoptionAllowed).                        *)
THEOREM BootstrapConfined == LoginSpec => []BootstrapStaysOut
<1>1. LoginInv => BootstrapStaysOut
  BY DEF LoginInv
<1> QED
  BY <1>1, LoginBegins, LoginSteps, PTL DEF LoginSpec

(***************************************************************************)
(* 2. The enrolments.                                                      *)
(***************************************************************************)
EngineTypes == [gen : Nat, key : Enrolments, pc : {"run", "prompt", "write"}]

Statuses == {"absent", "pending", "running", "complete", "failed", "skipped"}

EnrolTypes ==
    /\ wanted \subseteq Enrolments
    /\ runner \in Nat
    /\ status \in [Enrolments -> Statuses]
    /\ engines \subseteq EngineTypes
    /\ reload \in [pc : {"idle", "checked", "read"}, keys : SUBSET Enrolments,
                   done : SUBSET Enrolments]

\* An engine belongs to a runner that was installed; one of the present runner
\* is shown as running.
EnginesShown ==
    /\ runner = 0 => \A k \in Enrolments : status[k] = "absent"
    /\ \A e \in engines : /\ e.gen \in 1..runner
                          /\ e.gen = runner => status[e.key] = "running"

\* No two engines run for one enrolment of one runner.
EnginesApart == \A e, f \in engines : Id(e) = Id(f) => e = f

\* One enrolment at most is shown as running.
OneRunning ==
    \A j, k \in Enrolments : status[j] = "running" /\ status[k] = "running" => j = k

\* What the reload read is in Vault, or was until it was wiped.
ReloadRead == reload.done \subseteq stored \cup wiped

EnrolInv ==
    /\ EnrolTypes
    /\ EnginesShown
    /\ EnginesApart
    /\ OneRunning
    /\ ReloadRead
    /\ CompleteIsStored
    /\ PromptOwned

LEMMA EnrolBegins == EnrolInit => EnrolInv
<1> SUFFICES ASSUME EnrolInit PROVE EnrolInv
  OBVIOUS
<1>1. EnrolTypes
  BY DEF EnrolInit, EnrolTypes, Statuses, Idle, EngineTypes
<1>2. CompleteIsStored /\ EnginesShown
  BY DEF EnrolInit, CompleteIsStored, EnginesShown
<1> QED
  BY <1>1, <1>2 DEF EnrolInit, EnrolInv, EnginesApart, OneRunning, ReloadRead, PromptOwned, Idle

(* Engines have an identity that is not the empty prompt's. *)
LEMMA EngineIds ==
    ASSUME EnrolInv, NEW e \in engines
    PROVE  Id(e) # NoEngine /\ e.key \in Enrolments /\ e \in EngineTypes
BY DEF EnrolInv, EnrolTypes, EnginesShown, EngineTypes, Id, NoEngine

(* An engine that moves on to another step is still itself. *)
LEMMA EngineMoves ==
    ASSUME EnrolInv, NEW e \in engines, NEW pc \in {"run", "prompt", "write"},
           engines' = (engines \ {e}) \cup {[e EXCEPT !.pc = pc]},
           UNCHANGED <<runner, status>>
    PROVE  /\ engines' \subseteq EngineTypes
           /\ EnginesShown' /\ EnginesApart'
<1> DEFINE x == [e EXCEPT !.pc = pc]
<1>1. /\ x \in EngineTypes /\ x.pc = pc
      /\ x.gen = e.gen /\ x.key = e.key /\ Id(x) = Id(e)
  BY EngineIds DEF EngineTypes, Id
<1> HIDE DEF x
<1>2. engines' = (engines \ {e}) \cup {x}
  BY DEF x
<1>3. engines' \subseteq EngineTypes
  BY <1>1, <1>2 DEF EnrolInv, EnrolTypes
<1>4. EnginesShown'
  BY <1>1, <1>2 DEF EnrolInv, EnginesShown
<1>5. EnginesApart'
  <2> SUFFICES ASSUME NEW f \in engines', NEW g \in engines', Id(f) = Id(g) PROVE f = g
    BY DEF EnginesApart, Id
  <2> QED
    BY <1>1, <1>2 DEF EnrolInv, EnginesApart
<1> QED
  BY <1>3, <1>4, <1>5

(* An engine that reports is gone, and its state is its own to write. *)
LEMMA EngineReports ==
    ASSUME EnrolInv, NEW e \in engines, NEW result \in Statuses \ {"absent"},
           Report(e, result), UNCHANGED runner
    PROVE  /\ status' \in [Enrolments -> Statuses]
           /\ engines' = engines \ {e}
           /\ EnginesShown' /\ EnginesApart'
<1>1. status' \in [Enrolments -> Statuses] /\ engines' = engines \ {e}
  BY EngineIds DEF Report, EnrolInv, EnrolTypes
<1>2. EnginesApart'
  BY <1>1 DEF EnrolInv, EnginesApart, Id
<1>3. EnginesShown'
  <2>1. runner # 0
    BY DEF EnrolInv, EnginesShown
  <2>2. ASSUME NEW f \in engines' PROVE f.gen \in 1..runner /\ (f.gen = runner => status'[f.key] = "running")
    <3>1. f \in engines /\ f # e
      BY <1>1
    <3>2. f.gen \in 1..runner /\ (f.gen = runner => status[f.key] = "running")
      BY <3>1 DEF EnrolInv, EnginesShown
    <3>3. CASE e.gen # runner
      BY <3>2, <3>3 DEF Report
    <3>4. CASE e.gen = runner
      <4>1. f.gen = runner => f.key # e.key
        BY <3>1, <3>4 DEF EnrolInv, EnginesApart, Id
      <4>2. status' = [status EXCEPT ![e.key] = result]
        BY <3>4 DEF Report
      <4> QED
        BY <3>1, <3>2, <4>1, <4>2, EngineIds DEF EnrolInv, EnrolTypes
    <3> QED
      BY <3>3, <3>4
  <2> QED
    BY <2>1, <2>2 DEF EnginesShown
<1> QED
  BY <1>1, <1>2, <1>3

(* An engine that was not at the prompt leaves the prompt to whose it is. *)
LEMMA PromptLeft ==
    ASSUME EnrolInv, NEW e \in engines, e.pc # "prompt", UNCHANGED prompt,
           \/ engines' = engines \ {e}
           \/ engines' = (engines \ {e}) \cup {[e EXCEPT !.pc = "write"]}
    PROVE  PromptOwned'
<1>1. ASSUME NEW f \in engines, f.pc = "prompt" PROVE f \in engines'
  BY <1>1
<1>2. ASSUME NEW f \in engines', f.pc = "prompt" PROVE f \in engines
  BY <1>2, EngineIds DEF EngineTypes
<1> QED
  BY <1>1, <1>2 DEF EnrolInv, PromptOwned, Id

(* What an engine does by itself or with the user's answer *)
LEMMA EngineActs ==
    ASSUME EnrolInv, NEW e \in engines,
           \/ AskPrompt(e) \/ EngineEnds(e) \/ WriteCredentials(e)
           \/ \E k \in Enrolments : AnswerPrompt(k, e)
    PROVE  EnrolInv'
<1>1. ASSUME NEW result \in {"failed", "complete"}, Report(e, result), e.pc # "prompt",
             UNCHANGED <<wanted, runner, prompt, reload, wiped>>, stored \subseteq stored',
             result = "complete" => e.key \in stored'
      PROVE  EnrolInv'
  <2>1. /\ status' \in [Enrolments -> Statuses]
        /\ engines' = engines \ {e}
        /\ EnginesShown' /\ EnginesApart'
    BY <1>1, EngineReports DEF Statuses
  <2>2. EnrolTypes'
    BY <1>1, <2>1 DEF EnrolInv, EnrolTypes
  <2>3. CompleteIsStored'
    BY <1>1, EngineIds DEF EnrolInv, EnrolTypes, CompleteIsStored, Report
  <2>4. PromptOwned'
    BY <1>1, <2>1, PromptLeft
  <2>5. ReloadRead'
    BY <1>1 DEF EnrolInv, ReloadRead
  <2>6. OneRunning'
    BY <1>1, EngineIds DEF EnrolInv, EnrolTypes, OneRunning, Report
  <2> QED
    BY <2>1, <2>2, <2>3, <2>4, <2>5, <2>6 DEF EnrolInv
<1>2. ASSUME NEW pc \in {"prompt", "write"},
             engines' = (engines \ {e}) \cup {[e EXCEPT !.pc = pc]},
             UNCHANGED <<wanted, runner, status, stored, reload, wiped>>,
             PromptOwned'
      PROVE  EnrolInv'
  <2>1. engines' \subseteq EngineTypes /\ EnginesShown' /\ EnginesApart'
    BY <1>2, EngineMoves
  <2>2. EnrolTypes'
    BY <1>2, <2>1 DEF EnrolInv, EnrolTypes
  <2> QED
    BY <1>2, <2>1, <2>2 DEF EnrolInv, CompleteIsStored, ReloadRead, OneRunning
<1> DEFINE asking == [e EXCEPT !.pc = "prompt"]
           writing == [e EXCEPT !.pc = "write"]
<1>3. /\ asking.pc = "prompt" /\ Id(asking) = Id(e)
      /\ writing.pc = "write" /\ Id(writing) = Id(e)
  BY EngineIds DEF EngineTypes, Id
<1> HIDE DEF asking, writing
<1>4. CASE AskPrompt(e)
  <2>1. CASE prompt = NoEngine
    <3>1. prompt' = Id(e) /\ engines' = (engines \ {e}) \cup {asking}
      BY <1>4, <2>1 DEF AskPrompt, asking
    <3>2. \A f \in engines : f.pc # "prompt"
      BY <2>1, EngineIds DEF EnrolInv, PromptOwned
    <3>3. PromptOwned'
      BY <1>3, <3>1, <3>2 DEF PromptOwned, Id
    <3> QED
      BY <1>2, <1>4, <2>1, <3>3 DEF AskPrompt
  <2>2. CASE prompt # NoEngine
    BY <1>1, <1>4, <2>2 DEF AskPrompt
  <2> QED
    BY <2>1, <2>2
<1>5. ASSUME NEW k \in Enrolments, AnswerPrompt(k, e) PROVE EnrolInv'
  <2>1. /\ prompt = Id(e) /\ prompt' = NoEngine
        /\ engines' = (engines \ {e}) \cup {writing}
    BY <1>5 DEF AnswerPrompt, writing
  <2>2. \A f \in engines : f.pc = "prompt" => f = e
    BY <2>1 DEF EnrolInv, PromptOwned, EnginesApart
  <2>3. PromptOwned'
    BY <1>3, <2>1, <2>2 DEF PromptOwned
  <2> QED
    BY <1>2, <1>5, <2>3 DEF AnswerPrompt
<1>6. CASE EngineEnds(e)
  <2>1. CASE Report(e, "failed")
    BY <1>1, <1>6, <2>1 DEF EngineEnds
  <2>2. CASE engines' = (engines \ {e}) \cup {[e EXCEPT !.pc = "write"]} /\ UNCHANGED status
    <3>1. PromptOwned'
      BY <1>6, <2>2, PromptLeft DEF EngineEnds
    <3> QED
      BY <1>2, <1>6, <2>2, <3>1 DEF EngineEnds
  <2> QED
    BY <1>6, <2>1, <2>2 DEF EngineEnds
<1>7. CASE WriteCredentials(e)
  BY <1>1, <1>7 DEF WriteCredentials
<1> QED
  BY <1>4, <1>5, <1>6, <1>7

(* A new runner shows as complete what was read from Vault, and the engines *)
(* of the last one are not its own.                                         *)
LEMMA Installed ==
    ASSUME EnrolInv, NEW keys \in SUBSET Enrolments, NEW complete \in SUBSET (stored \cup wiped),
           Install(keys, complete),
           UNCHANGED <<wanted, engines, prompt, stored, wiped>>,
           reload' \in {reload, Idle}
    PROVE  EnrolInv'
<1>1. EnrolTypes'
  BY DEF EnrolInv, EnrolTypes, Install, Statuses, Idle
<1>2. EnginesShown'
  <2>1. runner \in Nat /\ runner' = runner + 1
    BY DEF EnrolInv, EnrolTypes, Install
  <2>2. \A e \in engines : e.gen \in 1..runner
    BY DEF EnrolInv, EnginesShown
  <2> QED
    BY <2>1, <2>2 DEF EnginesShown
<1>3. CompleteIsStored' /\ OneRunning'
  BY DEF Install, CompleteIsStored, OneRunning
<1> QED
  BY <1>1, <1>2, <1>3 DEF EnrolInv, EnginesApart, ReloadRead, PromptOwned, Idle, Id

LEMMA EnrolSteps == EnrolInv /\ [EnrolNext]_enrolVars => EnrolInv'
<1> SUFFICES ASSUME EnrolInv, [EnrolNext]_enrolVars PROVE EnrolInv'
  OBVIOUS
<1>1. ASSUME NEW k \in Enrolments, Start(k) PROVE EnrolInv'
  <2> DEFINE x == [gen |-> runner, key |-> k, pc |-> "run"]
  <2>1. /\ status[k] \in {"pending", "failed"} /\ ~AnyRunning
        /\ status' = [status EXCEPT ![k] = "running"]
        /\ engines' = engines \cup {x}
        /\ UNCHANGED <<wanted, runner, prompt, stored, reload, wiped>>
    BY <1>1 DEF Start
  <2>2. \A e \in engines : e.gen # runner
    BY <2>1, EngineIds DEF EnrolInv, EnginesShown, AnyRunning
  <2>3. runner \in Nat \ {0}
    BY <2>1 DEF EnrolInv, EnrolTypes, EnginesShown
  <2>4. x \in EngineTypes /\ x.gen = runner /\ x.key = k /\ x.pc = "run"
    BY <2>3 DEF EngineTypes
  <2> HIDE DEF x
  <2>5. EnrolTypes'
    BY <2>1, <2>4 DEF EnrolInv, EnrolTypes, Statuses
  <2>6. EnginesShown'
    BY <2>1, <2>2, <2>3, <2>4 DEF EnrolInv, EnrolTypes, EnginesShown
  <2>7. EnginesApart'
    <3> SUFFICES ASSUME NEW f \in engines', NEW g \in engines', Id(f) = Id(g) PROVE f = g
      BY DEF EnginesApart, Id
    <3>1. f.gen = g.gen
      BY DEF Id
    <3> QED
      BY <2>1, <2>2, <2>4, <3>1 DEF EnrolInv, EnginesApart
  <2>8. PromptOwned'
    BY <2>1, <2>4 DEF EnrolInv, PromptOwned, Id
  <2>9. CompleteIsStored' /\ ReloadRead'
    BY <2>1 DEF EnrolInv, EnrolTypes, CompleteIsStored, ReloadRead
  <2>10. OneRunning'
    BY <2>1 DEF EnrolInv, EnrolTypes, OneRunning, AnyRunning
  <2> QED
    BY <2>5, <2>6, <2>7, <2>8, <2>9, <2>10 DEF EnrolInv
<1>2. ASSUME NEW k \in Enrolments, Skip(k) \/ Reset(k) PROVE EnrolInv'
  <2>1. PICK shown \in {"skipped", "pending"} :
          /\ status[k] \notin {"running", "absent"}
          /\ status' = [status EXCEPT ![k] = shown]
          /\ UNCHANGED <<wanted, runner, engines, prompt, stored, reload, wiped>>
    BY <1>2 DEF Skip, Reset
  <2>2. EnrolTypes'
    BY <2>1 DEF EnrolInv, EnrolTypes, Statuses
  <2>3. EnginesShown'
    BY <2>1, EngineIds DEF EnrolInv, EnrolTypes, EnginesShown
  <2> QED
    BY <2>1, <2>2, <2>3
       DEF EnrolInv, EnrolTypes, EnginesApart, OneRunning, ReloadRead, CompleteIsStored,
           PromptOwned, Id
<1>3. ASSUME NEW k \in Enrolments, WipeCredential(k) PROVE EnrolInv'
  BY <1>3 DEF WipeCredential, EnrolInv, EnrolTypes, EnginesShown, EnginesApart, OneRunning, ReloadRead,
     CompleteIsStored, PromptOwned, Id
<1>4. CASE InitEnrolments
  <2>1. wanted \in SUBSET Enrolments
    BY DEF EnrolInv, EnrolTypes
  <2> QED
    BY <1>4, <2>1, Installed DEF InitEnrolments
<1>5. CASE SwapRunner
  <2>1. reload.keys \in SUBSET Enrolments /\ reload.done \in SUBSET (stored \cup wiped)
    BY DEF EnrolInv, EnrolTypes, ReloadRead
  <2> QED
    BY <1>5, <2>1, Installed DEF SwapRunner
<1>6. CASE CheckRunning \/ ReadStored \/ EditConfig
  <2>1. UNCHANGED <<runner, status, engines, prompt, stored, wiped>>
    BY <1>6 DEF CheckRunning, ReadStored, EditConfig
  <2>2. /\ wanted' \subseteq Enrolments
        /\ reload' \in [pc : {"idle", "checked", "read"}, keys : SUBSET Enrolments,
                        done : SUBSET Enrolments]
        /\ reload'.done \subseteq stored \cup wiped
    <3>1. /\ wanted \subseteq Enrolments
          /\ reload \in [pc : {"idle", "checked", "read"}, keys : SUBSET Enrolments,
                         done : SUBSET Enrolments]
          /\ reload.done \subseteq stored \cup wiped
      BY DEF EnrolInv, EnrolTypes, ReloadRead
    <3>2. CASE CheckRunning
      BY <3>1, <3>2 DEF CheckRunning
    <3>3. CASE ReadStored
      <4>1. PICK done \in {stored \cap reload.keys, {}} :
              reload' = [reload EXCEPT !.pc = "read", !.done = done]
        BY <3>3 DEF ReadStored
      <4> QED
        BY <3>1, <3>3, <4>1 DEF ReadStored
    <3>4. CASE EditConfig
      BY <3>1, <3>4 DEF EditConfig, Enrolments
    <3> QED
      BY <1>6, <3>2, <3>3, <3>4
  <2> QED
    BY <2>1, <2>2
       DEF EnrolInv, EnrolTypes, EnginesShown, EnginesApart, OneRunning, ReloadRead,
           CompleteIsStored, PromptOwned, Id
<1>7. CASE WaitForEnrolments \/ EnterSite \/ LeaveWizard \/ StopWaiting \/ UNCHANGED enrolVars
  <2>1. UNCHANGED <<wanted, runner, status, engines, prompt, stored, reload, wiped>>
    BY <1>7 DEF WaitForEnrolments, EnterSite, LeaveWizard, Admit, StopWaiting,
       enrolVars
  <2> QED
    BY <2>1
       DEF EnrolInv, EnrolTypes, EnginesShown, EnginesApart, OneRunning, ReloadRead,
           CompleteIsStored, PromptOwned, Id
<1> QED
  BY <1>1, <1>2, <1>3, <1>4, <1>5, <1>6, <1>7, EngineActs DEF EnrolNext

(* The card that runs shows the prompt of its own engine, as long as the *)
(* present runner's engine is the one that asks.                         *)
LEMMA RightCard == EnrolInv => PromptShown
<1> SUFFICES ASSUME EnrolInv, NEW k \in Enrolments, ShowsForm(k), ~(prompt.gen < runner)
             PROVE  prompt = [gen |-> runner, key |-> k]
  BY DEF PromptShown
<1>1. PICK e \in engines : Id(e) = prompt
  BY DEF EnrolInv, PromptOwned, ShowsForm
<1>2. e.gen \in 1..runner /\ runner \in Nat /\ e.key \in Enrolments /\ prompt.gen = e.gen
  BY <1>1, EngineIds DEF EnrolInv, EnrolTypes, EnginesShown, Id
<1>3. e.gen = runner
  BY <1>2
<1>4. status[e.key] = "running"
  BY <1>3 DEF EnrolInv, EnginesShown
<1>5. e.key = k
  BY <1>2, <1>4 DEF EnrolInv, OneRunning, ShowsForm
<1> QED
  BY <1>1, <1>3, <1>5 DEF Id

(* Also with a reload that reads Vault while an engine writes, or replaces *)
(* the runner of an engine that still asks: what is shown as complete had  *)
(* its credentials in Vault, the prompt belongs to the engine that waits   *)
(* for it, and the card that shows it is that engine's own or the engine   *)
(* is one that a reload left behind (EnrolPromptSecret, buildUIEnrolCard,  *)
(* InitEnrolments).                                                        *)
THEOREM EnrolmentsSound == EnrolSpec => []EnrolSound
<1>1. EnrolInv => EnrolSound
  BY RightCard DEF EnrolInv, EnrolSound
<1> QED
  BY <1>1, EnrolBegins, EnrolSteps, PTL DEF EnrolSpec

-----------------------------------------------------------------------------
(***************************************************************************)
(* 3. The secret editor.  Versions count up from a removal to the next     *)
(* one and life counts the removals, so the pair dates the document: what  *)
(* was read at the current pair is the document.                           *)
(***************************************************************************)
Rows == [was : Names \cup {NoName}, name : Names \cup {NoName}, text : Texts \cup {"none"},
         delete : BOOLEAN]

PageRecords == [pc : {"page", "write", "delete", "replace", "refused"}, doc : Document,
          version : Nat, life : Nat, edit : Rows, read : Document, whole : Document]

Commands == [pc : {"none", "read", "write", "ended"},
             patch : [set : Document, remove : SUBSET Names],
             merged : Document, version : Nat, life : Nat, tries : Nat]

WorldTypes == fields \in Document /\ version \in Nat /\ life \in Nat /\ writes \in Nat

EditTypes == WorldTypes /\ tab \in [Tabs -> PageRecords] /\ cli \in Commands

\* Before the first version there is nothing.
NothingAtZero == version = 0 => fields = Empty

\* The pair is not of the future.
Past(v, l) == l <= life /\ (l = life => v <= version)

Current(v, l) == l = life /\ v = version

\* What page t shows, and what the row it saves was read from, is the document as
\* long as the pair it was read at is current.
PageDated(t) ==
    /\ Past(tab[t].version, tab[t].life)
    /\ Current(tab[t].version, tab[t].life) => tab[t].doc = fields
    /\ tab[t].pc = "write" =>
          /\ tab[t].edit \in Edits(tab[t].doc)
          /\ Current(tab[t].version, tab[t].life) => tab[t].read = fields

PagesDated == \A t \in Tabs : PageDated(t)

\* So is what a command has merged with its patch.
CommandDated ==
    cli.pc = "write" =>
        Past(cli.version, cli.life) /\ (Current(cli.version, cli.life) => cli.merged = Patched)

EditInv == EditTypes /\ NothingAtZero /\ PagesDated /\ CommandDated

-----------------------------------------------------------------------------
(***************************************************************************)
(* Documents, rows and patches.                                            *)
(***************************************************************************)
LEMMA EmptyType == Empty \in Document
BY DEF Empty, Document

LEMMA DocumentsType == Documents \subseteq Document
<1>1. {None} \cup {Typed(text) : text \in Texts} \subseteq Values \cup {None}
  <2>1. \A text \in Texts : Typed(text) \in Values
    BY DEF Values, Typed
  <2> QED BY <2>1
<1>2. [Names -> {None} \cup {Typed(text) : text \in Texts}] \subseteq [Names -> Values \cup {None}]
  BY <1>1
<1> QED BY <1>2 DEF Documents, Document

LEMMA NoEditType == NoEdit \in Rows
BY DEF NoEdit, Rows

LEMMA EditsType == ASSUME NEW doc, NEW e \in Edits(doc)
                   PROVE  /\ e \in Rows /\ e.name \in Names /\ e.text \in Texts
                          /\ e.delete => e.was # NoName
BY MarksAssumption DEF Edits, Rows

LEMMA ShownType == ASSUME WorldTypes PROVE Shown(fields, version, life) \in PageRecords
BY EmptyType, NoEditType DEF WorldTypes, Shown, PageRecords

LEMMA PatchesType == ASSUME NEW p \in Patches
                     PROVE  p \in [set : Document, remove : SUBSET Names]
BY EmptyType, DocumentsType DEF Patches

LEMMA NoCommandType == NoCommand \in Commands /\ NoCommand.pc = "none"
BY EmptyType DEF NoCommand, Commands

LEMMA EndedType == Ended \in Commands /\ Ended.pc = "ended"
BY NoCommandType DEF Ended, Commands

LEMMA PatchedType == ASSUME EditTypes PROVE Patched \in Document
<1>1. cli.patch.set \in Document /\ fields \in Document
  BY DEF EditTypes, WorldTypes, Commands
<1> QED BY <1>1 DEF Patched, Document

\* A row that lands gives a document that differs in that row alone.
LEMMA FoldType ==
    ASSUME NEW doc, NEW e \in Edits(doc), NEW current \in Document
    PROVE  applyFieldEdit(current, e) \in Document
<1>1. e.was \in Names \cup {NoName} /\ e.name \in Names /\ e.text \in Texts
  BY EditsType DEF Rows
<1>2. Plain(e.text) \in Values
  BY <1>1 DEF Plain, Values
<1> QED BY <1>1, <1>2 DEF applyFieldEdit, Document

LEMMA FoldRow ==
    ASSUME NEW doc, NEW e \in Edits(doc), NEW current \in Document,
           ~(~e.delete /\ e.was # e.name /\ current[e.name] # None)
    PROVE  Promise!RowChange(current, applyFieldEdit(current, e))
<1> DEFINE subject == IF e.was = NoName THEN e.name ELSE e.was
           after == applyFieldEdit(current, e)
<1>1. e.was \in Names \cup {NoName} /\ e.name \in Names /\ subject \in Names
  BY EditsType DEF Rows
<1>2. CASE e.delete
  <2>1. after = [current EXCEPT ![subject] = None]
    BY <1>2 DEF applyFieldEdit
  <2>2. \A n \in Names \ {subject, subject} : after[n] = current[n]
    BY <2>1 DEF Document
  <2> HIDE DEF subject, after
  <2>3. Promise!RowChange(current, after)
    BY <1>1, <2>2 DEF Promise!RowChange
  <2> QED BY <2>3 DEF after
<1>3. CASE ~e.delete
  <2>1. PICK value : after = [[current EXCEPT ![subject] = None] EXCEPT ![e.name] = value]
    BY <1>3 DEF applyFieldEdit
  <2>2. \A n \in Names \ {subject, e.name} : after[n] = current[n]
    BY <2>1 DEF Document
  <2>3. subject # e.name => current[e.name] = None /\ after[subject] = None
    <3>1. SUFFICES ASSUME subject # e.name PROVE current[e.name] = None /\ after[subject] = None
      OBVIOUS
    <3>2. e.was # e.name
      BY <3>1
    <3>3. after[subject] = None
      BY <1>1, <2>1, <3>1 DEF Document
    <3> QED BY <1>3, <3>2, <3>3
  <2> HIDE DEF subject, after
  <2>4. Promise!RowChange(current, after)
    BY <1>1, <2>2, <2>3 DEF Promise!RowChange, Promise!None, None
  <2> QED BY <2>4 DEF after
<1> QED BY <1>2, <1>3

-----------------------------------------------------------------------------
(***************************************************************************)
(* The document: it stays, is written, which counts the version up, or is  *)
(* removed, which counts the life up.                                      *)
(***************************************************************************)
Stays == UNCHANGED <<fields, version, life, writes, writer>>

Written == /\ fields' \in Document /\ version' = version + 1 /\ writes' = writes + 1
           /\ UNCHANGED life

Removed == /\ fields' = Empty /\ version' \in Nat /\ life' = life + 1
           /\ writes' = writes + 1 /\ writer' = "other"

Moves == Stays \/ Written \/ Removed

LEMMA MovesTypes ==
    ASSUME WorldTypes, NothingAtZero, Moves
    PROVE  WorldTypes' /\ NothingAtZero'
BY EmptyType DEF WorldTypes, NothingAtZero, Moves, Stays, Written, Removed

\* A pair of the past stays of the past, and a current one has become current by
\* no step but one that leaves the document alone.
LEMMA PastKept ==
    ASSUME WorldTypes, Moves, NEW v \in Nat, NEW l \in Nat, Past(v, l)
    PROVE  Past(v, l)' /\ (Current(v, l)' => Current(v, l) /\ Stays)
BY DEF WorldTypes, Past, Current, Moves, Stays, Written, Removed

LEMMA PageKept ==
    ASSUME EditTypes, Moves, NEW t \in Tabs, PageDated(t), tab'[t] = tab[t]
    PROVE  PageDated(t)'
<1>1. tab[t].version \in Nat /\ tab[t].life \in Nat
  BY DEF EditTypes, PageRecords
<1>2. /\ Past(tab[t].version, tab[t].life)'
      /\ Current(tab[t].version, tab[t].life)' => Current(tab[t].version, tab[t].life) /\ Stays
  <2>1. Past(tab[t].version, tab[t].life)
    BY DEF PageDated
  <2>2. WorldTypes
    BY DEF EditTypes
  <2> QED BY <1>1, <2>1, <2>2, PastKept DEF Past, Current
<1> QED BY <1>2 DEF PageDated, Stays, Edits

LEMMA PagesKept ==
    ASSUME EditTypes, PagesDated, Moves, UNCHANGED tab
    PROVE  tab' \in [Tabs -> PageRecords] /\ PagesDated'
BY PageKept DEF EditTypes, PagesDated

LEMMA PageMoves ==
    ASSUME EditTypes, PagesDated, Moves, NEW t \in Tabs, NEW p \in PageRecords,
           tab' = [tab EXCEPT ![t] = p], PageDated(t)'
    PROVE  tab' \in [Tabs -> PageRecords] /\ PagesDated'
<1>1. tab' \in [Tabs -> PageRecords] /\ \A u \in Tabs \ {t} : tab'[u] = tab[u]
  BY DEF EditTypes
<1> QED BY <1>1, PageKept DEF PagesDated

LEMMA CommandKept ==
    ASSUME EditTypes, CommandDated, Moves, UNCHANGED cli
    PROVE  cli' \in Commands /\ CommandDated'
<1>1. cli' \in Commands
  BY DEF EditTypes
<1>2. CASE cli.pc # "write"
  BY <1>1, <1>2 DEF CommandDated
<1>3. cli.version \in Nat /\ cli.life \in Nat
  BY DEF EditTypes, Commands
<1>4. ASSUME cli.pc = "write"
      PROVE  /\ Past(cli.version, cli.life)'
             /\ Current(cli.version, cli.life)' => Current(cli.version, cli.life) /\ Stays
  <2>1. Past(cli.version, cli.life) /\ cli' = cli
    BY <1>4 DEF CommandDated
  <2>2. WorldTypes
    BY DEF EditTypes
  <2> QED BY <1>3, <2>1, <2>2, PastKept DEF Past, Current
<1>5. Stays => Patched' = Patched
  BY DEF Stays, Patched
<1>6. CASE cli.pc = "write"
  BY <1>1, <1>4, <1>5, <1>6 DEF CommandDated
<1> QED BY <1>2, <1>6

-----------------------------------------------------------------------------
(***************************************************************************)
(* The steps.  A page that has posted or asked for something is left with  *)
(* the pair and the document it was opened at.                             *)
(***************************************************************************)
LEMMA PutMoves ==
    ASSUME NEW doc \in Document, NEW who, Put(doc, who), UNCHANGED life
    PROVE  Written /\ fields' = doc /\ writer' = who
BY DEF Put, Written

LEMMA CASMoves ==
    ASSUME NEW doc \in Document, NEW cas, NEW who, WriteKVv2CAS(doc, cas, who), UNCHANGED life
    PROVE  \/ Stays
           \/ Written /\ fields' = doc /\ writer' = who /\ cas = version
BY PutMoves DEF WriteKVv2CAS, Stays

LEMMA DeleteMoves == DeleteKVv2 => Removed
BY DEF DeleteKVv2, Removed

LEMMA InitInv == EditInit => EditInv
<1> SUFFICES ASSUME EditInit PROVE EditInv
  OBVIOUS
<1>1. WorldTypes /\ NothingAtZero
  <2>1. fields \in Document /\ ((fields = Empty /\ version = 0) \/ version = 1)
    BY EmptyType DEF EditInit
  <2>2. life = 0 /\ writes = 0
    BY DEF EditInit
  <2> QED BY <2>1, <2>2 DEF WorldTypes, NothingAtZero
<1>2. cli \in Commands /\ cli.pc # "write"
  <2>1. CASE cli = NoCommand
    BY <2>1, NoCommandType
  <2>2. ASSUME NEW p \in Patches, cli = [NoCommand EXCEPT !.pc = "read", !.patch = p]
        PROVE  cli \in Commands /\ cli.pc # "write"
    BY <2>2, PatchesType, NoCommandType DEF Commands
  <2> QED BY <2>1, <2>2 DEF EditInit
<1>3. \A t \in Tabs : tab[t] = Shown(Empty, 0, 0)
  BY DEF EditInit
<1>4. Shown(Empty, 0, 0) \in PageRecords
  BY EmptyType, NoEditType DEF Shown, PageRecords
<1>5. PagesDated
  <2>1. \A t \in Tabs : /\ tab[t].pc = "page" /\ tab[t].doc = Empty
                       /\ tab[t].version = 0 /\ tab[t].life = 0
    <3> SUFFICES ASSUME NEW t \in Tabs
                 PROVE  /\ tab[t].pc = "page" /\ tab[t].doc = Empty
                        /\ tab[t].version = 0 /\ tab[t].life = 0
      OBVIOUS
    <3>1. tab[t] = Shown(Empty, 0, 0)
      BY <1>3
    <3> QED BY <3>1 DEF Shown
  <2>2. life = 0
    BY DEF EditInit
  <2>3. ASSUME NEW t \in Tabs PROVE PageDated(t)
    <3>1. version \in Nat /\ (version = 0 => fields = Empty)
      BY <1>1 DEF WorldTypes, NothingAtZero
    <3>2. /\ tab[t].pc = "page" /\ tab[t].doc = Empty /\ tab[t].version = 0 /\ tab[t].life = 0
      BY <2>1
    <3>3. tab[t].pc # "write"
      BY <3>2
    <3> QED BY <2>2, <3>1, <3>2, <3>3 DEF PageDated, Past, Current
  <2> QED BY <2>3 DEF PagesDated
<1> QED BY <1>1, <1>2, <1>4, <1>5 DEF EditInit, EditInv, EditTypes, CommandDated

LEMMA FrameInv ==
    ASSUME EditInv, Moves, UNCHANGED <<tab, cli>>
    PROVE  EditInv'
BY MovesTypes, PagesKept, CommandKept DEF EditInv, EditTypes

LEMMA PageInv ==
    ASSUME EditInv, Moves, UNCHANGED cli, NEW t \in Tabs, NEW p \in PageRecords,
           tab' = [tab EXCEPT ![t] = p], PageDated(t)'
    PROVE  EditInv'
BY MovesTypes, PageMoves, CommandKept DEF EditInv, EditTypes

\* A page that goes on with the document, the pair and the row it has, or that
\* has nothing to write any more
LEMMA PageGoesOn ==
    ASSUME EditInv, Moves, UNCHANGED cli, NEW t \in Tabs, NEW p \in PageRecords,
           tab' = [tab EXCEPT ![t] = p], p.doc = tab[t].doc, p.version = tab[t].version,
           p.life = tab[t].life, p.pc # "write"
    PROVE  EditInv'
<1>1. tab'[t] = p
  BY DEF EditInv, EditTypes
<1>2. tab[t].version \in Nat /\ tab[t].life \in Nat /\ PageDated(t) /\ WorldTypes
  BY DEF EditInv, EditTypes, PagesDated, PageRecords
<1>3. Past(tab[t].version, tab[t].life)
  BY <1>2 DEF PageDated
<1>4. /\ Past(p.version, p.life)'
      /\ Current(p.version, p.life)' => Current(p.version, p.life) /\ Stays
  BY <1>2, <1>3, PastKept DEF Past, Current
<1>5. PageDated(t)'
  BY <1>1, <1>2, <1>4 DEF PageDated, Past, Current, Stays
<1> QED BY <1>5, PageInv

LEMMA ViewInv == ASSUME EditInv, UNCHANGED cli, NEW t \in Tabs, View(t) PROVE EditInv'
<1> DEFINE p == Shown(fields, version, life)
<1>1. p \in PageRecords /\ Stays /\ tab' = [tab EXCEPT ![t] = p]
  BY ShownType DEF View, Stays, EditInv, EditTypes
<1>2. tab'[t] = p
  BY <1>1 DEF EditInv, EditTypes
<1>3. p.pc = "page" /\ p.doc = fields /\ p.version = version /\ p.life = life
  BY DEF Shown
<1> HIDE DEF p
<1>4. PageDated(t)'
  BY <1>1, <1>2, <1>3 DEF PageDated, Past, Current, Stays, EditInv, EditTypes, WorldTypes
<1> QED BY <1>1, <1>4, PageInv DEF Moves

LEMMA SaveFieldInv ==
    ASSUME EditInv, UNCHANGED cli, NEW t \in Tabs, NEW e \in Edits(tab[t].doc), SaveField(t, e)
    PROVE  EditInv'
<1> DEFINE pc == IF ~Allow \/ (tab[t].version > 0 /\ version = 0) THEN "refused" ELSE "write"
           read == IF tab[t].version > 0 THEN fields ELSE Empty
           p == [tab[t] EXCEPT !.edit = e, !.pc = pc, !.read = read]
<1>1. tab[t] \in PageRecords /\ PageDated(t) /\ WorldTypes /\ NothingAtZero
  BY DEF EditInv, EditTypes, PagesDated
<1>2. e \in Rows /\ read \in Document /\ pc \in {"refused", "write"}
  BY <1>1, EditsType, EmptyType DEF WorldTypes
<1>3. Stays /\ tab' = [tab EXCEPT ![t] = p]
  BY DEF SaveField, Stays
<1>4. Current(tab[t].version, tab[t].life) => read = fields
  BY <1>1 DEF Current, NothingAtZero, WorldTypes
<1> HIDE DEF pc, read
<1>5. /\ p \in PageRecords /\ p.doc = tab[t].doc /\ p.version = tab[t].version
      /\ p.life = tab[t].life /\ p.edit = e /\ p.read = read
  BY <1>1, <1>2 DEF PageRecords
<1> HIDE DEF p
<1>6. tab'[t] = p
  BY <1>3 DEF EditInv, EditTypes
<1>7. PageDated(t)'
  BY <1>1, <1>3, <1>4, <1>5, <1>6 DEF PageDated, Past, Current, Stays, Edits
<1> QED BY <1>3, <1>5, <1>7, PageInv DEF Moves

LEMMA ReplaceInv ==
    ASSUME EditInv, UNCHANGED cli, NEW t \in Tabs, NEW doc \in Documents, Replace(t, doc)
    PROVE  EditInv'
<1> DEFINE p == [tab[t] EXCEPT !.pc = "replace", !.whole = doc, !.version = version,
                               !.doc = fields, !.life = life]
<1>1. tab[t] \in PageRecords /\ WorldTypes /\ doc \in Document
  BY DocumentsType DEF EditInv, EditTypes
<1>2. Stays /\ tab' = [tab EXCEPT ![t] = p]
  BY DEF Replace, Stays
<1>3. /\ p \in PageRecords /\ p.pc = "replace" /\ p.doc = fields /\ p.version = version
      /\ p.life = life
  BY <1>1 DEF PageRecords, WorldTypes
<1> HIDE DEF p
<1>4. tab'[t] = p
  BY <1>2 DEF EditInv, EditTypes
<1>5. PageDated(t)'
  BY <1>1, <1>2, <1>3, <1>4 DEF PageDated, Past, Current, Stays, WorldTypes
<1> QED BY <1>2, <1>3, <1>5, PageInv DEF Moves

\* What a row writes, and that it writes only what it was asked to
LEMMA RowWritten ==
    ASSUME EditInv, NEW t \in Tabs, WriteField(t)
    PROVE  \/ Stays
           \/ /\ Written /\ writer' = t /\ tab[t].version = version
              /\ fields' = applyFieldEdit(tab[t].read, tab[t].edit)
              /\ ~(/\ ~tab[t].edit.delete /\ tab[t].edit.was # tab[t].edit.name
                   /\ tab[t].read[tab[t].edit.name] # None)
<1> DEFINE e == tab[t].edit
           result == applyFieldEdit(tab[t].read, e)
           taken == ~e.delete /\ e.was # e.name /\ tab[t].read[e.name] # None
<1>1. tab[t].read \in Document /\ e \in Edits(tab[t].doc)
  BY DEF EditInv, EditTypes, PagesDated, PageDated, PageRecords, WriteField
<1>2. result \in Document
  BY <1>1, FoldType
<1>3. CASE taken \/ result = Empty
  BY <1>3 DEF WriteField, Stays
<1>4. CASE ~taken /\ result # Empty
  <2>1. WriteKVv2CAS(result, tab[t].version, t) /\ UNCHANGED life
    BY <1>4 DEF WriteField
  <2> HIDE DEF result, taken
  <2>2. \/ Stays
        \/ Written /\ fields' = result /\ writer' = t /\ tab[t].version = version
    BY <1>2, <2>1, CASMoves
  <2> QED BY <1>4, <2>2 DEF result, taken
<1> QED BY <1>3, <1>4

LEMMA WriteFieldInv == ASSUME EditInv, UNCHANGED cli, NEW t \in Tabs, WriteField(t) PROVE EditInv'
<1> DEFINE p == [tab[t] EXCEPT !.pc = "refused", !.edit = NoEdit, !.read = Empty]
<1>1. tab[t] \in PageRecords
  BY DEF EditInv, EditTypes
<1>2. /\ p \in PageRecords /\ p.doc = tab[t].doc /\ p.version = tab[t].version
      /\ p.life = tab[t].life /\ p.pc # "write"
  BY <1>1, NoEditType, EmptyType DEF PageRecords
<1>3. Moves /\ tab' = [tab EXCEPT ![t] = p]
  BY RowWritten DEF Moves, WriteField
<1> QED BY <1>2, <1>3, PageGoesOn

LEMMA DeletePageInv ==
    ASSUME EditInv, UNCHANGED cli, NEW t \in Tabs, ProbeDelete(t) \/ Delete(t)
    PROVE  EditInv'
<1>1. tab[t] \in PageRecords
  BY DEF EditInv, EditTypes
<1>2. ASSUME NEW pc \in {"delete", "refused"}, tab' = [tab EXCEPT ![t].pc = pc], Moves
      PROVE  EditInv'
  <2> DEFINE p == [tab[t] EXCEPT !.pc = pc]
  <2>1. /\ p \in PageRecords /\ p.doc = tab[t].doc /\ p.version = tab[t].version
        /\ p.life = tab[t].life /\ p.pc # "write"
    BY <1>1 DEF PageRecords
  <2>2. tab' = [tab EXCEPT ![t] = p]
    BY <1>2
  <2> QED BY <1>2, <2>1, <2>2, PageGoesOn
<1>3. CASE ProbeDelete(t)
  BY <1>2, <1>3 DEF ProbeDelete, Moves, Stays
<1>4. CASE Delete(t)
  BY <1>2, <1>4, DeleteMoves DEF Delete, Moves
<1> QED BY <1>3, <1>4

LEMMA ReplacementWritten ==
    ASSUME EditInv, NEW t \in Tabs, WriteReplacement(t)
    PROVE  Stays \/ (Written /\ writer' = "other")
<1>1. tab[t].whole \in Document
  BY DEF EditInv, EditTypes, PageRecords
<1> QED BY <1>1, CASMoves DEF WriteReplacement

LEMMA WriteReplacementInv ==
    ASSUME EditInv, UNCHANGED cli, NEW t \in Tabs, WriteReplacement(t)
    PROVE  EditInv'
<1> DEFINE p == [tab[t] EXCEPT !.pc = "refused", !.whole = Empty]
<1>1. tab[t] \in PageRecords
  BY DEF EditInv, EditTypes
<1>2. /\ p \in PageRecords /\ p.doc = tab[t].doc /\ p.version = tab[t].version
      /\ p.life = tab[t].life /\ p.pc # "write"
  BY <1>1, EmptyType DEF PageRecords
<1>3. Moves /\ tab' = [tab EXCEPT ![t] = p]
  BY ReplacementWritten DEF Moves, WriteReplacement
<1> QED BY <1>2, <1>3, PageGoesOn

\* Writers beside the pages
LEMMA OthersWrite ==
    ASSUME NEW doc \in Documents, CreateWhole(doc) \/ WriteElsewhere(doc)
    PROVE  (Stays \/ (Written /\ writer' = "other")) /\ UNCHANGED tab
BY DocumentsType, CASMoves, PutMoves DEF CreateWhole, WriteElsewhere

LEMMA OthersRemove ==
    ASSUME EditInv, kvDelete \/ SoftDelete
    PROVE  Removed /\ UNCHANGED tab
BY DeleteMoves DEF kvDelete, SoftDelete, Removed, EditInv, EditTypes, WorldTypes

LEMMA ReloadStays == Reload => Stays /\ UNCHANGED tab
BY DEF Reload, Stays

LEMMA CommandWrites ==
    ASSUME EditInv, PatchWrite
    PROVE  /\ \/ Stays
              \/ /\ Written /\ fields' = cli.merged /\ writer' = "cli"
                 /\ cli.version = version
           /\ UNCHANGED tab /\ cli' \in Commands /\ cli'.pc # "write"
<1>1. cli.merged \in Document /\ cli \in Commands
  BY DEF EditInv, EditTypes, Commands
<1>2. cli' \in Commands /\ cli'.pc # "write"
  <2>1. [cli EXCEPT !.pc = "read"] \in Commands /\ [cli EXCEPT !.pc = "read"].pc # "write"
    BY <1>1 DEF Commands
  <2> QED BY <2>1, EndedType DEF PatchWrite
<1> QED BY <1>1, <1>2, CASMoves DEF PatchWrite

LEMMA PatchWriteInv == ASSUME EditInv, PatchWrite PROVE EditInv'
BY CommandWrites, MovesTypes, PagesKept DEF EditInv, EditTypes, Moves, CommandDated

LEMMA kvPatchInv == ASSUME EditInv, kvPatch PROVE EditInv'
<1> DEFINE c == [cli EXCEPT !.pc = "write", !.merged = Patched, !.version = version,
                            !.life = life, !.tries = @ + 1]
<1>1. Stays /\ UNCHANGED tab /\ WorldTypes /\ cli \in Commands
  BY DEF kvPatch, Stays, EditInv, EditTypes
<1>2. WorldTypes' /\ NothingAtZero' /\ tab' \in [Tabs -> PageRecords] /\ PagesDated'
  BY <1>1, MovesTypes, PagesKept DEF EditInv, EditTypes, Moves
<1>3. CASE cli' = Ended
  BY <1>2, <1>3, EndedType DEF EditInv, EditTypes, CommandDated
<1>4. CASE cli' = c
  <2>1. /\ c \in Commands /\ c.patch = cli.patch /\ c.merged = Patched
        /\ c.version = version /\ c.life = life
    <3>1. Patched \in Document
      BY PatchedType DEF EditInv
    <3>2. cli.tries + 1 \in Nat
      BY <1>1 DEF Commands
    <3>3. version \in Nat /\ life \in Nat /\ cli \in Commands
      BY <1>1 DEF WorldTypes
    <3> QED BY <3>1, <3>2, <3>3 DEF Commands
  <2> HIDE DEF c
  <2>2. Patched' = Patched
    BY <1>1, <1>4, <2>1 DEF Patched, Stays
  <2>3. CommandDated'
    BY <1>1, <1>4, <2>1, <2>2 DEF CommandDated, Past, Current, Stays, WorldTypes
  <2> QED BY <1>2, <1>4, <2>1, <2>3 DEF EditInv, EditTypes
<1> QED BY <1>3, <1>4 DEF kvPatch

LEMMA StepInv == EditInv /\ [EditNext]_editVars => EditInv'
<1> SUFFICES ASSUME EditInv, [EditNext]_editVars PROVE EditInv'
  OBVIOUS
<1>1. CASE UNCHANGED editVars
  BY <1>1, FrameInv DEF editVars, Moves, Stays
<1>2. ASSUME NEW t \in Tabs, UNCHANGED cli,
             View(t) \/ WriteField(t) \/ ProbeDelete(t) \/ Delete(t) \/ WriteReplacement(t)
      PROVE  EditInv'
  BY <1>2, ViewInv, WriteFieldInv, DeletePageInv, WriteReplacementInv
<1>3. ASSUME NEW t \in Tabs, UNCHANGED cli, NEW e \in Edits(tab[t].doc), SaveField(t, e)
      PROVE  EditInv'
  BY <1>3, SaveFieldInv
<1>4. ASSUME NEW t \in Tabs, UNCHANGED cli, NEW doc \in Documents, Replace(t, doc)
      PROVE  EditInv'
  BY <1>4, ReplaceInv
<1>5. ASSUME UNCHANGED cli, NEW doc \in Documents, CreateWhole(doc) \/ WriteElsewhere(doc)
      PROVE  EditInv'
  BY <1>5, OthersWrite, FrameInv DEF Moves
<1>6. CASE UNCHANGED cli /\ (kvDelete \/ SoftDelete)
  BY <1>6, OthersRemove, FrameInv DEF Moves
<1>7. CASE UNCHANGED cli /\ Reload
  BY <1>7, ReloadStays, FrameInv DEF Moves
<1> QED
  BY <1>1, <1>2, <1>3, <1>4, <1>5, <1>6, <1>7, kvPatchInv, PatchWriteInv DEF EditNext

LEMMA Invariance == EditSpec => []EditInv
BY InitInv, StepInv, PTL DEF EditSpec

-----------------------------------------------------------------------------
(***************************************************************************)
(* What is not edited is kept.                                             *)
(***************************************************************************)

\* A value that was not a string stays what it is unless its text is edited, also
\* through a rename: for any fields, texts and pages (applyFieldEdit in
\* secretedit.go).
THEOREM TypesStay == EditSpec => TypesKept
<1> DEFINE Kept(t) ==
        LET e == tab[t].edit
        IN  \A was \in Names :
               e.was = was /\ ~e.delete /\ tab[t].read[was] # None
               /\ displayFieldValue(tab[t].read[was]) = e.text
                   => fields'[e.name] = tab[t].read[was]
<1>1. ASSUME EditInv, EditNext, NEW t \in Tabs, writer' = t, writes' # writes
      PROVE  Kept(t)
  <2>1. WriteField(t)
    <3>1. ~Stays /\ ~(writer' = "other") /\ ~(writer' = "cli")
      BY <1>1, MarksAssumption DEF Stays
    <3>2. \A u \in Tabs : ~WriteReplacement(u) /\ ~View(u) /\ ~ProbeDelete(u) /\ ~Delete(u)
      BY <1>1, <3>1, ReplacementWritten, DeleteMoves DEF View, ProbeDelete, Delete, Removed
    <3>3. \A u \in Tabs : /\ \A e \in Edits(tab[u].doc) : ~SaveField(u, e)
                          /\ \A doc \in Documents : ~Replace(u, doc)
      BY <1>1 DEF SaveField, Replace
    <3>4. \A doc \in Documents : ~CreateWhole(doc) /\ ~WriteElsewhere(doc)
      BY <3>1, OthersWrite
    <3>5. ~kvDelete /\ ~SoftDelete /\ ~Reload
      BY <1>1, <3>1, OthersRemove, ReloadStays DEF Removed
    <3>6. ~kvPatch /\ ~PatchWrite
      BY <1>1, <3>1, CommandWrites DEF kvPatch
    <3>7. \A u \in Tabs : WriteField(u) => u = t
      BY <1>1, <3>1, RowWritten
    <3> QED BY <1>1, <3>2, <3>3, <3>4, <3>5, <3>6, <3>7 DEF EditNext
  <2> DEFINE e == tab[t].edit
             read == tab[t].read
  <2>2. /\ fields' = applyFieldEdit(read, e)
        /\ ~(~e.delete /\ e.was # e.name /\ read[e.name] # None)
    BY <1>1, <2>1, RowWritten DEF Stays
  <2>3. read \in Document /\ e.name \in Names
    BY <1>1, <2>1, EditsType DEF EditInv, EditTypes, PagesDated, PageDated, PageRecords, WriteField
  <2> HIDE DEF e, read
  <2>4. ASSUME NEW was \in Names, e.was = was, ~e.delete, read[was] # None,
               displayFieldValue(read[was]) = e.text
        PROVE  fields'[e.name] = read[was]
    <3>1. was # NoName
      BY MarksAssumption
    <3>2. fields' = [[read EXCEPT ![was] = None] EXCEPT ![e.name] = read[was]]
      BY <2>2, <2>4, <3>1 DEF applyFieldEdit
    <3> QED BY <2>3, <3>2 DEF Document
  <2> QED BY <2>4 DEF e, read
<1>2. EditInv /\ [EditNext]_editVars =>
        [\A t \in Tabs : writer' = t /\ writes' # writes => Kept(t)]_editVars
  BY <1>1
<1> QED BY <1>2, Invariance, PTL DEF EditSpec, TypesKept

\* A patch leaves the fields it does not name as they are when it lands, after any
\* number of lost races, as long as the secret was not removed since its read
\* (kvPatch in kv.go).
THEOREM PatchesSpare == EditSpec => PatchSpares
<1>1. ASSUME EditInv, EditNext, cli.pc = "write", writes' # writes, writer' = "cli",
             cli.life = life, NEW n \in Names, n \notin cli.patch.remove,
             cli.patch.set[n] = None
      PROVE  fields'[n] = fields[n]
  <2>1. PatchWrite
    <3>1. ~Stays /\ ~(writer' = "other")
      BY <1>1 DEF Stays
    <3>2. \A u \in Tabs : /\ ~WriteReplacement(u) /\ ~View(u) /\ ~ProbeDelete(u) /\ ~Delete(u)
                          /\ ~WriteField(u)
      BY <1>1, <3>1, MarksAssumption, RowWritten, ReplacementWritten, DeleteMoves
         DEF View, ProbeDelete, Delete, Removed
    <3>3. \A u \in Tabs : /\ \A e \in Edits(tab[u].doc) : ~SaveField(u, e)
                          /\ \A doc \in Documents : ~Replace(u, doc)
      BY <1>1 DEF SaveField, Replace
    <3>4. \A doc \in Documents : ~CreateWhole(doc) /\ ~WriteElsewhere(doc)
      BY <3>1, OthersWrite
    <3>5. ~kvDelete /\ ~SoftDelete /\ ~Reload /\ ~kvPatch
      BY <1>1, <3>1, OthersRemove, ReloadStays DEF Removed, kvPatch
    <3> QED BY <1>1, <3>2, <3>3, <3>4, <3>5 DEF EditNext
  <2>2. fields' = cli.merged /\ cli.version = version
    BY <1>1, <2>1, CommandWrites DEF Stays
  <2>3. fields' = Patched
    BY <1>1, <2>2 DEF EditInv, CommandDated, Current
  <2> QED BY <1>1, <2>3 DEF Patched
<1>2. EditInv /\ [EditNext]_editVars =>
        [cli.pc = "write" /\ writes' # writes /\ writer' = "cli" /\ cli.life = life =>
           \A n \in Names :
               n \notin cli.patch.remove /\ cli.patch.set[n] = None
                   => fields'[n] = fields[n]]_editVars
  BY <1>1
<1> QED BY <1>2, Invariance, PTL DEF EditSpec, PatchSpares

\* Both together: what the run checks of the editor beside the refinement.
THEOREM RestStays == EditSpec => RestKept
BY TypesStay, PatchesSpare DEF RestKept

-----------------------------------------------------------------------------
(***************************************************************************)
(* The refinement: a page is opened, or a replacement reads, as a See; a   *)
(* row lands as a SaveRow; whole documents land as WriteWhole; a removal   *)
(* is an Erase; every other step is a stutter.                             *)
(***************************************************************************)
Lapse == [n \in Names |-> [typed |-> FALSE, text |-> "lapsed"]]

seen == [t \in Tabs |-> IF tab[t].life = life THEN tab[t].doc ELSE Lapse]

LEMMA SameTerms ==
    /\ Promise!Document = Document /\ Promise!Empty = Empty
    /\ Promise!Lapsed = Lapse /\ Promise!None = None
BY DEF Promise!Document, Document, Promise!Empty, Empty, Promise!Lapsed, Lapse, Promise!None, None

\* No document looks lapsed, unless there are no fields at all.
LEMMA LapseIsNoDocument == ASSUME NEW n \in Names, NEW doc \in Document PROVE Lapse # doc
<1>1. doc[n].text # "lapsed"
  <2>1. doc[n] \in Values \cup {None}
    BY DEF Document
  <2>2. CASE doc[n] \in Values
    <3>1. doc[n].text \in Texts
      BY <2>2 DEF Values
    <3> QED BY <3>1, MarksAssumption
  <2>3. CASE doc[n] = None
    BY <2>3 DEF None
  <2> QED BY <2>1, <2>2, <2>3
<1>2. Lapse[n].text = "lapsed"
  BY DEF Lapse
<1> QED BY <1>1, <1>2

\* What the pages show is left alone by a step that leaves them and the life alone.
LEMMA SeenKept ==
    ASSUME UNCHANGED life, \A t \in Tabs : tab'[t].doc = tab[t].doc /\ tab'[t].life = tab[t].life
    PROVE  seen' = seen
BY DEF seen

LEMMA SeenLapses ==
    ASSUME EditInv, Removed, \A t \in Tabs : tab'[t].life = tab[t].life
    PROVE  seen' = [t \in Tabs |-> Lapse]
<1>1. ASSUME NEW t \in Tabs PROVE tab'[t].life # life'
  <2>1. tab[t].life \in Nat /\ life \in Nat /\ life' = life + 1
    BY DEF EditInv, EditTypes, WorldTypes, PageRecords, Removed
  <2>2. tab[t].life <= life
    BY DEF EditInv, PagesDated, PageDated, Past
  <2>3. tab'[t].life = tab[t].life
    OBVIOUS
  <2> QED BY <2>1, <2>2, <2>3
<1> QED BY <1>1 DEF seen

LEMMA Stutters ==
    ASSUME Stays, seen' = seen
    PROVE  UNCHANGED Promise!atomicVars
BY DEF Promise!atomicVars, Stays, seen, Lapse

LEMMA Sees ==
    ASSUME EditInv, Stays, NEW t \in Tabs, NEW p \in PageRecords, tab' = [tab EXCEPT ![t] = p],
           p.doc = fields, p.life = life
    PROVE  Promise!See(t)
<1>1. tab'[t] = p /\ \A u \in Tabs \ {t} : tab'[u] = tab[u]
  BY DEF EditInv, EditTypes
<1>2. UNCHANGED <<fields, life, writes, writer>>
  BY DEF Stays
<1>3. seen' = [seen EXCEPT ![t] = fields]
  <2>1. life' = life /\ tab'[t].life = life /\ tab'[t].doc = fields
    BY <1>1, <1>2
  <2>2. \A u \in Tabs : seen'[u] = [seen EXCEPT ![t] = fields][u]
    BY <1>1, <2>1 DEF seen
  <2> QED BY <2>2 DEF seen
<1> QED BY <1>2, <1>3 DEF Promise!See, seen, Lapse

LEMMA WritesWhole ==
    ASSUME Written, writer' \in {"other", "cli"}, seen' = seen
    PROVE  Promise!WriteWhole
BY SameTerms DEF Promise!WriteWhole, Written, seen, Lapse

LEMMA Erases ==
    ASSUME EditInv, Removed, \A t \in Tabs : tab'[t].life = tab[t].life
    PROVE  Promise!Erase
BY SeenLapses, SameTerms DEF Promise!Erase, Removed, seen, Lapse

LEMMA RowSaved ==
    ASSUME EditInv, NEW t \in Tabs, WriteField(t)
    PROVE  UNCHANGED Promise!atomicVars \/ Promise!SaveRow(t)
<1> DEFINE e == tab[t].edit
           read == tab[t].read
<1>1. seen' = seen
  <2>1. \A u \in Tabs : tab'[u].doc = tab[u].doc /\ tab'[u].life = tab[u].life
    BY DEF WriteField, EditInv, EditTypes, PageRecords
  <2> QED BY <2>1, SeenKept DEF WriteField
<1>2. CASE Stays
  BY <1>1, <1>2, Stutters
<1>3. CASE ~Stays
  <2>1. /\ Written /\ writer' = t /\ tab[t].version = version
        /\ fields' = applyFieldEdit(read, e)
        /\ ~(~e.delete /\ e.was # e.name /\ read[e.name] # None)
    BY <1>3, RowWritten
  <2>2. /\ PageDated(t) /\ tab[t].pc = "write" /\ read \in Document /\ fields \in Document
        /\ e \in Edits(tab[t].doc) /\ e.name \in Names
    BY EditsType DEF EditInv, EditTypes, WorldTypes, PagesDated, PageDated, PageRecords, WriteField
  <2>3. CASE tab[t].life = life
    <3>1. tab[t].doc = fields /\ read = fields
      BY <2>1, <2>2, <2>3 DEF PageDated, Current
    <3>2. seen[t] = fields
      BY <2>3, <3>1 DEF seen
    <3>3. Promise!RowChange(fields, fields')
      BY <2>1, <2>2, <3>1, FoldRow
    <3> QED
      BY <1>1, <2>1, <3>2, <3>3, SameTerms DEF Promise!SaveRow, Written, seen, Lapse
  <2>4. CASE tab[t].life # life
    <3>1. seen[t] = Lapse
      BY <2>4 DEF seen
    <3>2. Lapse # fields
      BY <2>2, LapseIsNoDocument
    <3> QED
      BY <1>1, <2>1, <3>1, <3>2, SameTerms DEF Promise!SaveRow, Written, seen, Lapse
  <2> QED BY <2>3, <2>4
<1> QED BY <1>2, <1>3

LEMMA PageStepRefines ==
    ASSUME EditInv, NEW t \in Tabs,
           \/ View(t) \/ WriteField(t) \/ ProbeDelete(t) \/ Delete(t) \/ WriteReplacement(t)
           \/ \E e \in Edits(tab[t].doc) : SaveField(t, e)
           \/ \E doc \in Documents : Replace(t, doc)
    PROVE  Promise!AtomicNext \/ UNCHANGED Promise!atomicVars
<1>0. tab \in [Tabs -> PageRecords] /\ tab[t] \in PageRecords /\ WorldTypes
  BY DEF EditInv, EditTypes
<1> DEFINE Alike == \A u \in Tabs : tab'[u].doc = tab[u].doc /\ tab'[u].life = tab[u].life
<1>1. CASE View(t)
  <2>1. Stays /\ tab' = [tab EXCEPT ![t] = Shown(fields, version, life)]
    BY <1>1 DEF View, Stays
  <2>2. Promise!See(t)
    BY <1>0, <2>1, ShownType, Sees DEF Shown
  <2> QED BY <2>2 DEF Promise!AtomicNext
<1>2. CASE WriteField(t)
  BY <1>2, RowSaved DEF Promise!AtomicNext
<1>3. CASE ProbeDelete(t)
  <2>1. Alike /\ Stays
    BY <1>0, <1>3 DEF ProbeDelete, Stays, PageRecords
  <2> QED BY <2>1, SeenKept, Stutters DEF Stays
<1>4. CASE Delete(t)
  <2>1. Alike /\ Removed
    BY <1>0, <1>4, DeleteMoves DEF Delete, PageRecords
  <2>2. Promise!Erase
    BY <2>1, Erases
  <2> QED BY <2>2 DEF Promise!AtomicNext
<1>5. CASE WriteReplacement(t)
  <2>1. Alike /\ life' = life
    BY <1>0, <1>5 DEF WriteReplacement, PageRecords
  <2>2. seen' = seen
    BY <2>1, SeenKept
  <2>3. UNCHANGED Promise!atomicVars \/ Promise!WriteWhole
    BY <1>5, <2>2, ReplacementWritten, Stutters, WritesWhole
  <2> QED BY <2>3 DEF Promise!AtomicNext
<1>6. ASSUME NEW e \in Edits(tab[t].doc), SaveField(t, e)
      PROVE  UNCHANGED Promise!atomicVars
  <2>1. Alike /\ Stays
    BY <1>0, <1>6 DEF SaveField, Stays, PageRecords
  <2> QED BY <2>1, SeenKept, Stutters DEF Stays
<1>7. ASSUME NEW doc \in Documents, Replace(t, doc)
      PROVE  Promise!AtomicNext
  <2> DEFINE p == [tab[t] EXCEPT !.pc = "replace", !.whole = doc, !.version = version,
                                 !.doc = fields, !.life = life]
  <2>1. p \in PageRecords /\ p.doc = fields /\ p.life = life
    BY <1>0, DocumentsType DEF PageRecords, WorldTypes
  <2>2. Stays
    BY <1>7 DEF Replace, Stays
  <2>3. tab' = [tab EXCEPT ![t] = p]
    BY <1>7 DEF Replace
  <2>4. Promise!See(t)
    BY <2>1, <2>2, <2>3, Sees
  <2> QED BY <2>4 DEF Promise!AtomicNext
<1> QED BY <1>1, <1>2, <1>3, <1>4, <1>5, <1>6, <1>7

LEMMA StepRefines ==
    ASSUME EditInv, [EditNext]_editVars
    PROVE  Promise!AtomicNext \/ UNCHANGED Promise!atomicVars
<1> DEFINE Goal == Promise!AtomicNext \/ UNCHANGED Promise!atomicVars
<1>1. CASE UNCHANGED editVars
  BY <1>1, Stutters, SeenKept DEF editVars, Stays
<1>2. ASSUME NEW doc \in Documents, CreateWhole(doc) \/ WriteElsewhere(doc)
      PROVE  Goal
  <2>1. (Stays \/ (Written /\ writer' = "other")) /\ UNCHANGED tab
    BY <1>2, OthersWrite
  <2>2. seen' = seen
    BY <2>1, SeenKept DEF Stays, Written
  <2>3. UNCHANGED Promise!atomicVars \/ Promise!WriteWhole
    BY <2>1, <2>2, Stutters, WritesWhole
  <2> QED BY <2>3 DEF Promise!AtomicNext
<1>3. CASE kvDelete \/ SoftDelete
  <2>1. Promise!Erase
    BY <1>3, OthersRemove, Erases
  <2> QED BY <2>1 DEF Promise!AtomicNext
<1>4. CASE Reload
  BY <1>4, ReloadStays, SeenKept, Stutters DEF Stays
<1>5. CASE kvPatch
  <2>1. Stays /\ UNCHANGED tab
    BY <1>5 DEF kvPatch, Stays
  <2> QED BY <2>1, SeenKept, Stutters DEF Stays
<1>6. CASE PatchWrite
  <2>1. (Stays \/ (Written /\ writer' = "cli")) /\ UNCHANGED tab
    BY <1>6, CommandWrites
  <2>2. seen' = seen
    BY <2>1, SeenKept DEF Stays, Written
  <2>3. UNCHANGED Promise!atomicVars \/ Promise!WriteWhole
    BY <2>1, <2>2, Stutters, WritesWhole
  <2> QED BY <2>3 DEF Promise!AtomicNext
<1> QED
  BY <1>1, <1>2, <1>3, <1>4, <1>5, <1>6, PageStepRefines DEF EditNext

\* The editor implements the atomic secret, for any number of pages, fields, texts
\* and writes: a row is saved onto exactly what its page showed and touches nothing
\* else, whatever other pages, the JSON interface, `dotvault kv` and other writers
\* do between the page, its read and its write (writeSecretField,
\* replaceEditableSecret in secretedit.go).
THEOREM EditorRefines == EditSpec => ImplementsAtomic
<1>1. EditInit => Promise!AtomicInit
  <2> SUFFICES ASSUME EditInit PROVE Promise!AtomicInit
    OBVIOUS
  <2>1. EditTypes /\ writes = 0 /\ writer = "other" /\ life = 0
    BY InitInv DEF EditInv, EditInit
  <2>2. \A t \in Tabs : tab[t].doc = Empty /\ tab[t].life = 0
    BY DEF EditInit, Shown
  <2>3. seen = [t \in Tabs |-> Empty]
    BY <2>1, <2>2 DEF seen
  <2> QED BY <2>1, <2>3, SameTerms DEF Promise!AtomicInit, seen, Lapse, EditTypes, WorldTypes
<1>2. EditInv /\ [EditNext]_editVars => [Promise!AtomicNext]_Promise!atomicVars
  BY StepRefines
<1> QED BY <1>1, <1>2, Invariance, PTL DEF EditSpec, ImplementsAtomic, Promise!AtomicSpec

\* The editor is an atomic cell to its tabs, and a save or a patch leaves what it
\* does not name as it was (secretedit.go, kv.go).
THEOREM EditorStaysSound == EditSpec => EditorSound
BY EditorRefines, RestStays DEF EditorSound
=============================================================================
