--------------------------- MODULE TokenLifecycle ---------------------------
(***************************************************************************)
(* The token of the daemon's shared Vault client: internal/auth/lifecycle  *)
(* .go and denylist.go, and the web handlers that replace the token beside *)
(* them (internal/web/ui_login.go, ForceReauth in internal/web/server.go). *)
(*                                                                         *)
(* The lifecycle goroutine checks the token on a timer, on a rejection     *)
(* report and on a reload nudge.  When the token is dead it tries the      *)
(* token file, the environment and a peer's socket in turn, by installing  *)
(* each on the shared client and asking Vault about it, then the recovery  *)
(* hook, and at last signals re-authentication.  A lookup presents the     *)
(* token that is on the client at that moment, which a web handler may     *)
(* have replaced since the goroutine last read it: read, request and       *)
(* consequence are separate steps.                                         *)
(*                                                                         *)
(* Left to LifecycleSchedule: when the timer fires, the rate limit on      *)
(* reports and the backoff of the recovery hook.  A report or a watcher    *)
(* nudge may therefore be lost here at any time.                           *)
(***************************************************************************)
EXTENDS Naturals, Sequences, FiniteSets

CONSTANTS
    Tokens, NoToken,
    EnvToken,       \* DOTVAULT_TOKEN
    Handlers,       \* web requests that replace the token
    Setups,         \* deployments: which sources and hooks are configured
    MaxDenied,      \* capacity of the denylist (16 in the code)
    Budget          \* how often each environment action may happen

Kinds == {"revoke", "fault", "news", "paste"}

ASSUME TokensAssumption == NoToken \notin Tokens
ASSUME EnvAssumption == EnvToken \in Tokens \cup {NoToken}
\* The daemon can log in with another token than DOTVAULT_TOKEN.
ASSUME LoginAssumption == Tokens \ {EnvToken} # {}
ASSUME SetupsAssumption ==
    Setups \subseteq [file: BOOLEAN, borrower: BOOLEAN, recover: BOOLEAN,
                      web: BOOLEAN]
ASSUME MaxDeniedAssumption == MaxDenied \in Nat \ {0}
ASSUME BudgetAssumption == Budget \in [Kinds -> Nat]

Maybe == Tokens \cup {NoToken}

VARIABLES
    setup,          \* the deployment, fixed at start
    status,         \* Vault's view: "new" (not issued), "valid" or "dead"
    cur,            \* the token on the shared client
    fileTok, sockTok,
    denied,         \* the denylist, soonest to lapse first
    needsReauth, flux,      \* the two halves of the NeedsReauth gate
    reloadCh, rejectCh,     \* one-slot channels into the goroutine
    stage,          \* the goroutine: what it does next
    held, err,      \* checkAndRenew: the token it read, its result
    cause,          \* why tryReload runs: "reload", "cycle" or "renew"
    saved, cands,   \* tryReload: the token to restore, the candidates left
    web,            \* per handler: its step, its token, the one before
    vetted,         \* history: tokens Vault issued to us or vouched for
    budget

gate == <<needsReauth, flux>>
chans == <<reloadCh, rejectCh>>
cycle == <<stage, held, err, cause, saved, cands>>
world == <<status, fileTok, sockTok>>
state == <<world, cur, denied, gate, chans, cycle, web, vetted, budget>>
tokenVars == <<setup, state>>

HasFile == setup.file           \* a token file is configured
HasBorrower == setup.borrower   \* peer sockets are configured
HasRecover == setup.recover     \* a certificate: a token without a human
WebMode == setup.web            \* the OnReauth hook clears the client's token

Steps == {"idle", "check", "lookup", "renew", "settle", "gather", "try",
          "verdict", "restore", "adopted", "failed"}
Errors == {"ok", "none", "denied", "rejected", "renewal", "transient"}
NoRequest == [step |-> "idle", tok |-> NoToken, prev |-> NoToken]

TokenTypes ==
    /\ setup \in Setups
    /\ status \in [Tokens -> {"new", "valid", "dead"}]
    /\ {cur, fileTok, sockTok, held, saved} \subseteq Maybe
    /\ denied \in Seq(Tokens) /\ Len(denied) <= MaxDenied
    /\ {needsReauth, flux, reloadCh, rejectCh} \subseteq BOOLEAN
    /\ stage \in Steps /\ err \in Errors /\ cause \in {"reload", "cycle", "renew"}
    /\ cands \in Seq(Tokens)
    /\ stage \in {"try", "verdict"} => cands # <<>>
    /\ web \in [Handlers -> [step: {"idle", "lookup", "back", "write"},
                             tok: Maybe, prev: Maybe]]
    /\ vetted \subseteq Tokens
    /\ budget \in [Kinds -> Nat]

Accepted(t) == t # NoToken /\ status[t] = "valid"

\* Tokens not issued yet, the one Vault issues next, and its issue.
Fresh == {t \in Tokens : status[t] = "new"}
Issued(S) == CHOOSE t \in S : TRUE
Mint(t) == Fresh # {} /\ t = Issued(Fresh)
           /\ status' = [status EXCEPT ![t] = "valid"]

\* The daemon starts its lifecycle goroutine once it has logged in.
TokenInit ==
    /\ setup \in Setups
    /\ cur \in {Issued(Tokens), Issued(Tokens \ {EnvToken})}
    /\ status = [t \in Tokens |-> IF t = cur THEN "valid"
                                  ELSE IF t = EnvToken THEN "dead" ELSE "new"]
    /\ fileTok = IF HasFile THEN cur ELSE NoToken
    /\ vetted = {cur}
    /\ sockTok = NoToken
    /\ denied = <<>>
    /\ needsReauth = FALSE /\ flux = FALSE
    /\ reloadCh = FALSE /\ rejectCh = FALSE
    /\ stage = "idle" /\ held = NoToken /\ err = "ok" /\ cause = "cycle"
    /\ saved = NoToken /\ cands = <<>>
    /\ web = [h \in Handlers |-> NoRequest]
    /\ budget = Budget

\* The goroutine waits again; what its functions had on their stacks is gone.
Wait == /\ stage' = "idle"
        /\ held' = NoToken /\ err' = "ok" /\ cause' = "cycle"
        /\ saved' = NoToken /\ cands' = <<>>

Spend(kind) == /\ budget[kind] > 0
               /\ budget' = [budget EXCEPT ![kind] = @ - 1]

-----------------------------------------------------------------------------
(* The denylist.                                                           *)

IsDenied(t) == \E i \in 1..Len(denied) : denied[i] = t

\* Mutant: the list grows without bound.
DenyUnbounded(t) == Append(denied, t)

\* Deny: refresh an entry, or add one and evict the soonest to lapse when the
\* list is full.
Deny(t) ==
    LET at == CHOOSE i \in 1..Len(denied) : denied[i] = t
        kept == IF IsDenied(t)
                THEN SubSeq(denied, 1, at - 1)
                         \o SubSeq(denied, at + 1, Len(denied))
                ELSE IF Len(denied) >= MaxDenied THEN Tail(denied)
                ELSE denied
    IN Append(kept, t)

\* A suppression lapses with time.
Lapse == /\ denied # <<>>
         /\ denied' = Tail(denied)
         /\ UNCHANGED <<world, cur, gate, chans, cycle, web, vetted, budget>>

-----------------------------------------------------------------------------
(* The goroutine's select.                                                 *)

\* reloadCh: drop every suppression, then tryReload with the gate held.
TakeReload ==
    /\ stage = "idle" /\ reloadCh
    /\ reloadCh' = FALSE
    /\ denied' = <<>>
    /\ flux' = TRUE
    /\ stage' = "gather" /\ cause' = "reload"
    /\ UNCHANGED <<world, cur, needsReauth, rejectCh, held, err, saved, cands,
                   web, vetted, budget>>

Tick == /\ stage = "idle"
        /\ stage' = "check"
        /\ UNCHANGED <<world, cur, denied, gate, chans, held, err, cause, saved,
                       cands, web, vetted, budget>>

TakeReject == /\ rejectCh
              /\ rejectCh' = FALSE
              /\ stage = "idle"
              /\ stage' = "check"
              /\ UNCHANGED <<world, cur, denied, gate, reloadCh, held, err,
                             cause, saved, cands, web, vetted, budget>>

-----------------------------------------------------------------------------
(* checkAndRenew.                                                          *)

\* What the manager can say of its token without asking Vault.
Check ==
    /\ stage = "check"
    /\ held' = cur
    /\ err' = IF cur = NoToken THEN "none"
              ELSE IF IsDenied(cur) THEN "denied" ELSE "ok"
    /\ stage' = IF err' = "ok" THEN "lookup" ELSE "settle"
    /\ UNCHANGED <<world, cur, denied, gate, chans, cause, saved, cands, web,
                   vetted, budget>>

\* lookup-self with the client's token; a rejection is noted against the token
\* read before.  An accepted token may be due for renewal.
Lookup ==
    /\ stage = "lookup"
    /\ \/ /\ Accepted(cur)
          /\ vetted' = vetted \cup {cur}
          /\ stage' \in {"settle", "renew"}
          /\ UNCHANGED <<denied, err, budget>>
       \/ /\ cur # NoToken /\ ~Accepted(cur)
          /\ denied' = Deny(held)
          /\ err' = "rejected" /\ stage' = "settle"
          /\ UNCHANGED <<vetted, budget>>
       \/ /\ \/ cur = NoToken /\ UNCHANGED budget
             \/ Spend("fault")
          /\ err' = "transient" /\ stage' = "settle"
          /\ UNCHANGED <<denied, vetted>>
    /\ UNCHANGED <<world, cur, gate, chans, held, cause, saved, cands, web>>

\* RenewSelf: extended, refused because the token died meanwhile (a 403 that
\* is not noted), or failed for another reason.
Renew ==
    /\ stage = "renew"
    /\ stage' = "settle"
    /\ \/ Accepted(cur) /\ UNCHANGED <<err, budget>>
       \/ ~Accepted(cur) /\ err' = "rejected" /\ UNCHANGED budget
       \/ Spend("fault") /\ err' = "renewal"
    /\ UNCHANGED <<world, cur, denied, gate, chans, held, cause, saved, cands,
                   web, vetted>>

-----------------------------------------------------------------------------
(* runCheckCycle.                                                          *)

Healthy ==
    /\ err = "ok"
    /\ needsReauth' = FALSE /\ rejectCh' = FALSE
    /\ Wait
    /\ UNCHANGED flux

\* Mutant: only a live 403 is worth a replacement.
DeadLiveOnly == err = "rejected"

\* The failures a replacement token can fix.
Dead == \/ err \in {"none", "denied", "rejected"}
        \/ err # "ok" /\ (needsReauth \/ cur = NoToken)

\* Mutant: a token that could not be renewed is replaced with the gate open.
ReplaceUngated(why) == /\ stage' = "gather" /\ cause' = why
                       /\ flux' = (why # "renew")
                       /\ UNCHANGED <<needsReauth, rejectCh, held, err, saved,
                                      cands>>

\* Enter tryReload with the gate held.
Replace(why) == /\ stage' = "gather" /\ cause' = why
                /\ flux' = TRUE
                /\ UNCHANGED <<needsReauth, rejectCh, held, err, saved, cands>>

Settle ==
    /\ stage = "settle"
    /\ \/ Healthy
       \/ Dead /\ Replace("cycle")
       \/ ~Dead /\ err = "renewal" /\ Replace("renew")
       \/ /\ ~Dead /\ err \notin {"ok", "renewal"}
          /\ Wait
          /\ UNCHANGED <<gate, rejectCh>>
    /\ UNCHANGED <<world, cur, denied, reloadCh, web, vetted, budget>>

-----------------------------------------------------------------------------
(* tryReload.                                                              *)

\* Mutant: candidates Vault has already rejected are tried again.
CandidatesUnfiltered ==
    LET sources == <<fileTok, EnvToken, IF HasBorrower THEN sockTok
                                        ELSE NoToken>>
        new(i) == /\ sources[i] \notin {NoToken, cur}
                  /\ \A j \in 1..(i - 1) : sources[j] # sources[i]
        pick(i) == IF new(i) THEN <<sources[i]>> ELSE <<>>
    IN pick(1) \o pick(2) \o pick(3)

\* The file's token, the environment's and a peer's, in this order: each that
\* differs from the current one and that Vault has not rejected.
Candidates ==
    LET sources == <<fileTok, EnvToken, IF HasBorrower THEN sockTok
                                        ELSE NoToken>>
        new(i) == /\ sources[i] \notin {NoToken, cur}
                  /\ ~IsDenied(sources[i])
                  /\ \A j \in 1..(i - 1) : sources[j] # sources[i]
        pick(i) == IF new(i) THEN <<sources[i]>> ELSE <<>>
    IN pick(1) \o pick(2) \o pick(3)

Gather ==
    /\ stage = "gather"
    /\ saved' = cur
    /\ cands' = IF HasFile \/ HasBorrower THEN Candidates ELSE <<>>
    /\ stage' = IF cands' = <<>> THEN "failed" ELSE "try"
    /\ UNCHANGED <<world, cur, denied, gate, chans, held, err, cause, web,
                   vetted, budget>>

Try ==
    /\ stage = "try"
    /\ cur' = Head(cands)
    /\ stage' = "verdict"
    /\ UNCHANGED <<world, denied, gate, chans, held, err, cause, saved, cands,
                   web, vetted, budget>>

\* lookup-self on the trial: adopt it, or note the rejection and move on.
Verdict ==
    /\ stage = "verdict"
    /\ \/ /\ Accepted(cur)
          /\ vetted' = vetted \cup {cur}
          /\ stage' = "adopted"
          /\ UNCHANGED <<denied, cands, budget>>
       \/ /\ \/ cur # NoToken /\ ~Accepted(cur)
                /\ denied' = Deny(Head(cands)) /\ UNCHANGED budget
             \/ cur = NoToken /\ UNCHANGED <<denied, budget>>
             \/ Spend("fault") /\ UNCHANGED denied
          /\ cands' = Tail(cands)
          /\ stage' = IF cands' = <<>> THEN "restore" ELSE "try"
          /\ UNCHANGED vetted
    /\ UNCHANGED <<world, cur, gate, chans, held, err, cause, saved, web>>

Restore ==
    /\ stage = "restore"
    /\ cur' = saved
    /\ stage' = "failed"
    /\ UNCHANGED <<world, denied, gate, chans, held, err, cause, saved, cands,
                   web, vetted, budget>>

\* A replacement worked: open the gate, clearReauth and, after a cycle,
\* drainReject.
Adopted ==
    /\ stage = "adopted"
    /\ flux' = FALSE /\ needsReauth' = FALSE
    /\ rejectCh' = (rejectCh /\ cause = "reload")
    /\ Wait
    /\ UNCHANGED <<world, cur, denied, reloadCh, web, vetted, budget>>

\* tryRecover: the hook logs in with the host's certificate.
TryRecover ==
    /\ stage = "failed" /\ cause = "cycle" /\ HasRecover
    /\ \E t \in Tokens : /\ Mint(t)
                        /\ cur' = t
                        /\ vetted' = vetted \cup {t}
    /\ stage' = "adopted"
    /\ UNCHANGED <<fileTok, sockTok, denied, gate, chans, held, err, cause,
                   saved, cands, web, budget>>

\* No replacement.  A dead token signals re-authentication, and the web
\* server's hook logs the client out, once per transition.
GiveUp ==
    /\ stage = "failed"
    /\ \/ ~(HasRecover /\ cause = "cycle" /\ Fresh # {}) /\ UNCHANGED budget
       \/ HasRecover /\ cause = "cycle" /\ Spend("fault")
    /\ flux' = FALSE
    /\ needsReauth' = (needsReauth \/ cause = "cycle")
    /\ cur' = IF WebMode /\ needsReauth' /\ ~needsReauth THEN NoToken ELSE cur
    /\ Wait
    /\ UNCHANGED <<world, denied, chans, web, vetted>>

Manager == \/ TakeReload \/ Tick \/ TakeReject
           \/ Check \/ Lookup \/ Renew \/ Settle
           \/ Gather \/ Try \/ Verdict \/ Restore \/ Adopted
           \/ TryRecover \/ GiveUp

-----------------------------------------------------------------------------
(* The web handlers.                                                       *)

Handler(h, step, t, prev) ==
    web' = [web EXCEPT ![h] = [step |-> step, tok |-> t, prev |-> prev]]

\* consumeLoginToken: a completed OIDC or LDAP login.
WebLogin(h) ==
    /\ web[h].step = "idle" /\ Spend("news")
    /\ \E t \in Tokens : /\ Mint(t)
                        /\ cur' = t
                        /\ vetted' = vetted \cup {t}
                        /\ Handler(h, "write", t, NoToken)
    /\ UNCHANGED <<fileTok, sockTok, denied, gate, chans, cycle>>

\* handleLoginToken: install the pasted token to have it looked up ...
WebPaste(h) ==
    /\ web[h].step = "idle" /\ Spend("paste")
    /\ \E t \in Tokens \ Fresh : /\ cur' = t
                                 /\ Handler(h, "lookup", t, cur)
    /\ UNCHANGED <<world, denied, gate, chans, cycle, vetted>>

\* ... keep it if the lookup succeeds ...
WebPasteLookup(h) ==
    /\ web[h].step = "lookup"
    /\ \/ /\ Accepted(cur)
          /\ vetted' = vetted \cup {cur}
          /\ Handler(h, "write", web[h].tok, web[h].prev)
          /\ UNCHANGED budget
       \/ /\ IF Accepted(cur) THEN Spend("fault") ELSE UNCHANGED budget
          /\ Handler(h, "back", web[h].tok, web[h].prev)
          /\ UNCHANGED vetted
    /\ UNCHANGED <<world, cur, denied, gate, chans, cycle>>

\* ... and otherwise put back the one it replaced.
WebPasteBack(h) ==
    /\ web[h].step = "back"
    /\ cur' = web[h].prev
    /\ Handler(h, "idle", NoToken, NoToken)
    /\ UNCHANGED <<world, denied, gate, chans, cycle, vetted, budget>>

\* A file-watcher nudge, where there is a watcher and it is not lost.
Nudged == reloadCh' \in {TRUE, reloadCh}

\* WriteTokenFile; its failure is only logged.
WebWrite(h) ==
    /\ web[h].step = "write"
    /\ \/ HasFile /\ fileTok' = web[h].tok /\ Nudged /\ UNCHANGED budget
       \/ UNCHANGED <<fileTok, reloadCh>>
          /\ IF HasFile THEN Spend("fault") ELSE UNCHANGED budget
    /\ Handler(h, "idle", NoToken, NoToken)
    /\ UNCHANGED <<status, sockTok, cur, denied, gate, rejectCh, cycle, vetted>>

FinishRequest(h) == WebPasteLookup(h) \/ WebPasteBack(h) \/ WebWrite(h)
Web(h) == WebLogin(h) \/ WebPaste(h) \/ FinishRequest(h)

-----------------------------------------------------------------------------
(* The surroundings.                                                       *)

\* A token expires or is revoked.
ExpireToken(t) == /\ status[t] = "valid" /\ Spend("revoke")
             /\ status' = [status EXCEPT ![t] = "dead"]
             /\ UNCHANGED <<fileTok, sockTok, cur, denied, gate, chans, cycle,
                            web, vetted>>

\* The server-side cause of a rejection goes away.
Unrevoke(t) == /\ status[t] = "dead" /\ Spend("revoke")
               /\ status' = [status EXCEPT ![t] = "valid"]
               /\ UNCHANGED <<fileTok, sockTok, cur, denied, gate, chans,
                              cycle, web, vetted>>

\* `dotvault login` in another terminal.
ExternalLogin(t) == /\ HasFile /\ Spend("news")
                    /\ Mint(t)
                    /\ fileTok' = t
                    /\ Nudged
                    /\ UNCHANGED <<sockTok, cur, denied, gate, rejectCh, cycle,
                                   web, vetted>>

\* A peer's socket appears, goes away or serves another token; the daemon is
\* nudged only while re-authentication is signalled.
SockChange(t) == /\ HasBorrower /\ Spend("news")
                 /\ t # sockTok
                 /\ sockTok' = t
                 /\ IF t \in Fresh THEN Mint(t) ELSE UNCHANGED status
                 /\ IF needsReauth THEN Nudged ELSE UNCHANGED reloadCh
                 /\ UNCHANGED <<fileTok, cur, denied, gate, rejectCh, cycle,
                                web, vetted>>

\* A consumer of the client reports a 403, about the token or about a path.
NotifyRejected == /\ ~rejectCh /\ Spend("news")
                  /\ rejectCh' = TRUE
                  /\ UNCHANGED <<world, cur, denied, gate, reloadCh, cycle,
                                 web, vetted>>

\* Reload from SIGHUP.
Sighup == /\ ~reloadCh /\ Spend("news")
          /\ reloadCh' = TRUE
          /\ UNCHANGED <<world, cur, denied, gate, rejectCh, cycle, web,
                         vetted>>

-----------------------------------------------------------------------------

TokenNext ==
    /\ \/ Manager \/ Lapse
       \/ \E h \in Handlers : Web(h)
       \/ \E t \in Tokens : ExpireToken(t) \/ Unrevoke(t) \/ ExternalLogin(t)
       \/ \E t \in Maybe : SockChange(t)
       \/ NotifyRejected \/ Sighup
    /\ UNCHANGED setup

TokenSafety == TokenInit /\ [][TokenNext]_tokenVars

\* The goroutine and the handlers run, and suppressions lapse.
TokenFairness == /\ WF_state(Manager)
                 /\ WF_state(Lapse)
                 /\ \A h \in Handlers : WF_state(FinishRequest(h))

TokenSpec == TokenSafety /\ TokenFairness

-----------------------------------------------------------------------------
(* Properties.                                                             *)

\* Nobody has pasted a token: the manager and completed logins are the only
\* writers of the client's token.
Unpasted == budget["paste"] = Budget["paste"]

\* A consumer that finds the NeedsReauth gate open never sees a trial: the
\* token on the client is one Vault has vouched for.
TrialGated == Unpasted /\ ~needsReauth /\ ~flux => cur \in vetted \cup {NoToken}

\* The manager does not ask Vault again about a token on its denylist.
NoRepeatedLookup ==
    [][Unpasted /\ (Lookup \/ Verdict) => ~IsDenied(cur)]_tokenVars

\* A working token in the file, the environment or a peer's socket, or a
\* recovery hook, brings the daemon back, whatever was rejected before and
\* although every nudge may be lost.
Obtainable == \/ HasRecover /\ Fresh # {}
              \/ HasFile /\ Accepted(fileTok)
              \/ HasFile /\ Accepted(EnvToken)
              \/ HasBorrower /\ Accepted(sockTok)

Recovers == <>[](Obtainable => Accepted(cur) /\ ~needsReauth)

\* What consumers of the client's token rely on while the manager works.
TokenSound == TokenTypes /\ TrialGated

\* What the manager owes the user.
TokenRegained == TokenFairness => Recovers
=============================================================================
