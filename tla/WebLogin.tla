------------------------------ MODULE WebLogin ------------------------------
(***************************************************************************)
(* Signing in through the browser: the login tracker (internal/auth/       *)
(* login.go), the handlers that adopt its token, the pasted token and the  *)
(* certificate bootstrap (internal/web/ui_login.go, auth.go, bootstrap.go, *)
(* oauth.go), and the daemon that waits for either.                        *)
(***************************************************************************)
EXTENDS Integers, FiniteSets

CONSTANTS
    Pages,   \* requests in progress: two tabs of one browser share its session
    Pastes,  \* token forms in progress
    MaxLogins, MaxReauths

VARIABLES
    mode,      \* configuration: "operational", "certificate" or "borrow"
    logins,    \* sessions started
    session,   \* the session the cookie names: state of the login and its token
    passcode,  \* totpCh holds a passcode
    page,      \* each request of the progress page
    paste,     \* each request of the token form
    shared,    \* token on the shared Vault client
    file,      \* token in the token file
    authDone,  \* the signal to WaitForAuth
    bootstrap, \* BootstrapLogin: "off", "waits", "sent" or "got"
    daemon,    \* the daemon: "start", "waits", "runs" or "stops"
    reauths    \* re-authentications forced so far

loginVars == <<mode, logins, session, passcode, page, paste, shared, file, authDone, bootstrap,
               daemon, reauths>>

NoToken == "none"

\* Tokens: what Vault issued for a login, the child it is exchanged for, one
\* that Vault knows and one that it does not.
LoginTokens == {"raw", "child", "valid", "invalid"}

Accepted(token) == token \in {"raw", "child", "valid"}

LoginInit ==
    /\ mode \in {"operational", "certificate", "borrow"}
    /\ logins = 0 /\ session = "none" /\ passcode = FALSE
    /\ page = [p \in Pages |-> "idle"]
    /\ paste = [p \in Pastes |-> [pc |-> "idle", token |-> NoToken, prev |-> NoToken]]
    /\ shared = NoToken /\ file = NoToken /\ authDone = FALSE
    /\ bootstrap = "off" /\ daemon = "start" /\ reauths = 0

-----------------------------------------------------------------------------
(***************************************************************************)
(* The login tracker: one goroutine per session, which ends with it.       *)
(***************************************************************************)
\* handleLoginLDAP, StartLogin.  Under certificate auth the card is only shown
\* while a bootstrap waits, but its handler does not ask.
StartLogin ==
    /\ mode # "borrow" /\ logins < MaxLogins
    /\ logins' = logins + 1
    /\ session' = "pending" /\ passcode' = FALSE
    /\ UNCHANGED <<mode, page, paste, shared, file, authDone, bootstrap, daemon, reauths>>

\* runLogin up to the second factor
RunLogin ==
    /\ session = "pending"
    /\ session' \in {"authenticated", "failed", "totp", "push"}
    /\ UNCHANGED <<mode, logins, passcode, page, paste, shared, file, authDone, bootstrap, daemon,
                   reauths>>

ApprovePush ==
    /\ session = "push"
    /\ session' \in {"authenticated", "failed"}
    /\ UNCHANGED <<mode, logins, passcode, page, paste, shared, file, authDone, bootstrap, daemon,
                   reauths>>

\* SubmitTOTP: a passcode that is still waiting is not replaced.
SubmitTOTP ==
    /\ session = "totp" /\ ~passcode
    /\ passcode' = TRUE
    /\ UNCHANGED <<mode, logins, session, page, paste, shared, file, authDone, bootstrap, daemon,
                   reauths>>

\* Mutant: a wrong passcode ends the goroutine.
TOTPOnce ==
    /\ session = "totp" /\ passcode
    /\ passcode' = FALSE
    /\ session' \in {"authenticated", "stuck"}
    /\ UNCHANGED <<mode, logins, page, paste, shared, file, authDone, bootstrap, daemon, reauths>>

\* waitForTOTP: a wrong passcode asks for another one.
WaitForTOTP ==
    /\ session = "totp" /\ passcode
    /\ passcode' = FALSE
    /\ session' \in {"authenticated", "totp"}
    /\ UNCHANGED <<mode, logins, page, paste, shared, file, authDone, bootstrap, daemon, reauths>>

\* The five minutes are over.
LoginTimesOut ==
    /\ session \in {"pending", "totp", "push"}
    /\ session' = "failed"
    /\ UNCHANGED <<mode, logins, passcode, page, paste, shared, file, authDone, bootstrap, daemon,
                   reauths>>

\* gcLoop, ten minutes after the end
PurgeSession ==
    /\ session \in {"authenticated", "failed"}
    /\ session' = "none"
    /\ UNCHANGED <<mode, logins, passcode, page, paste, shared, file, authDone, bootstrap, daemon,
                   reauths>>

-----------------------------------------------------------------------------
(***************************************************************************)
(* The progress page adopts the token of the session.                      *)
(***************************************************************************)

\* GetStatus returns a copy: two pages can see the same authenticated session.
Progress(p) ==
    /\ page[p] = "idle" /\ shared = NoToken
    /\ session \in {"authenticated", "failed"}
    /\ IF session = "failed"
          THEN session' = "none" /\ UNCHANGED page
          ELSE page' = [page EXCEPT ![p] = "consume"] /\ UNCHANGED session
    /\ UNCHANGED <<mode, logins, passcode, paste, shared, file, authDone, bootstrap, daemon, reauths>>

\* Mutant: a login that no bootstrap waits for is adopted, whatever the method.
ConsumeAny(p) ==
    /\ page[p] = "consume"
    /\ IF bootstrap = "waits"
          THEN bootstrap' = "sent" /\ page' = [page EXCEPT ![p] = "clear"]
          ELSE page' = [page EXCEPT ![p] = "downscope"] /\ UNCHANGED bootstrap
    /\ UNCHANGED <<mode, logins, session, passcode, paste, shared, file, authDone, daemon, reauths>>

\* consumeLoginToken: a waiting bootstrap gets it; otherwise it is adopted,
\* but never under certificate auth.
ConsumeLoginToken(p) ==
    /\ page[p] = "consume"
    /\ IF bootstrap = "waits"
          THEN bootstrap' = "sent" /\ page' = [page EXCEPT ![p] = "clear"]
          ELSE /\ page' = [page EXCEPT ![p] = IF mode = "certificate" THEN "clear" ELSE "downscope"]
               /\ UNCHANGED bootstrap
    /\ UNCHANGED <<mode, logins, session, passcode, paste, shared, file, authDone, daemon, reauths>>

\* Downscope fails, or the shared client gets a token: the child, or the login's
\* own where no policy is configured.
Downscope(p) ==
    /\ page[p] = "downscope"
    /\ \/ page' = [page EXCEPT ![p] = "clear"] /\ UNCHANGED shared
       \/ shared' \in {"child", "raw"} /\ page' = [page EXCEPT ![p] = shared']
    /\ UNCHANGED <<mode, logins, session, passcode, paste, file, authDone, bootstrap, daemon, reauths>>

\* Mutant: the daemon is not told.
AdoptQuietly(p) ==
    /\ page[p] \in {"child", "raw"}
    /\ file' = page[p]
    /\ page' = [page EXCEPT ![p] = "clear"]
    /\ UNCHANGED <<mode, logins, session, passcode, paste, shared, authDone, bootstrap, daemon, reauths>>

Adopt(p) ==
    /\ page[p] \in {"child", "raw"}
    /\ file' = page[p]
    /\ authDone' = TRUE
    /\ page' = [page EXCEPT ![p] = "clear"]
    /\ UNCHANGED <<mode, logins, session, passcode, paste, shared, bootstrap, daemon, reauths>>

\* Clear; the goroutine of a session that still runs is cancelled.
ClearSession(p) ==
    /\ page[p] = "clear"
    /\ session' = "none"
    /\ page' = [page EXCEPT ![p] = "idle"]
    /\ UNCHANGED <<mode, logins, passcode, paste, shared, file, authDone, bootstrap, daemon, reauths>>

\* handleAuthCallback: the provider's answer is consumed as well.
AuthCallback(p) ==
    /\ mode # "borrow" /\ page[p] = "idle" /\ logins < MaxLogins
    /\ logins' = logins + 1
    /\ page' = [page EXCEPT ![p] = "consume"]
    /\ UNCHANGED <<mode, session, passcode, paste, shared, file, authDone, bootstrap, daemon, reauths>>

-----------------------------------------------------------------------------
(***************************************************************************)
(* A pasted token is tried on the shared client.                           *)
(***************************************************************************)
PasteToken(p, token) ==
    /\ mode = "operational" /\ paste[p].pc = "idle" /\ logins < MaxLogins
    /\ logins' = logins + 1
    /\ paste' = [paste EXCEPT ![p] = [pc |-> "lookup", token |-> token, prev |-> shared]]
    /\ shared' = token
    /\ UNCHANGED <<mode, session, passcode, page, file, authDone, bootstrap, daemon, reauths>>

\* LookupSelf asks about whatever token the client has by now.
TryPasted(p) ==
    /\ paste[p].pc = "lookup"
    /\ IF Accepted(shared)
          THEN /\ file' = paste[p].token /\ authDone' = TRUE
               /\ UNCHANGED shared
          ELSE /\ shared' = paste[p].prev
               /\ UNCHANGED <<file, authDone>>
    /\ paste' = [paste EXCEPT ![p] = [pc |-> "idle", token |-> NoToken, prev |-> NoToken]]
    /\ UNCHANGED <<mode, logins, session, passcode, page, bootstrap, daemon, reauths>>

-----------------------------------------------------------------------------
(***************************************************************************)
(* The daemon: WaitForAuth, or a certificate that BootstrapLogin pays for. *)
(***************************************************************************)
WaitForAuth ==
    /\ daemon = "start"
    /\ daemon' = "waits"
    /\ bootstrap' = IF mode = "certificate" THEN "waits" ELSE bootstrap
    /\ UNCHANGED <<mode, logins, session, passcode, page, paste, shared, file, authDone, reauths>>

AuthWaited ==
    /\ daemon = "waits" /\ authDone /\ mode # "certificate"
    /\ authDone' = FALSE
    /\ daemon' = "runs"
    /\ UNCHANGED <<mode, logins, session, passcode, page, paste, shared, file, bootstrap, reauths>>

\* The certificate login that follows gives the operational token.
Bootstrapped ==
    /\ bootstrap = "sent"
    /\ bootstrap' = "got" /\ daemon' = "runs"
    /\ shared' = "valid"
    /\ UNCHANGED <<mode, logins, session, passcode, page, paste, file, authDone, reauths>>

\* The daemon is told to stop while it waits, or the certificate is neither signed nor
\* accepted.  It leaves, and its pages answer a little longer; nothing starts a second
\* bootstrap in the same process.
BootstrapFails ==
    /\ bootstrap \in {"waits", "sent"}
    /\ bootstrap' = "off" /\ daemon' = "stops"
    /\ UNCHANGED <<mode, logins, session, passcode, page, paste, shared, file, authDone, reauths>>

\* The lifecycle manager clears a dead token: ForceReauth drains the signal.
ForceReauth ==
    /\ daemon = "runs" /\ reauths < MaxReauths
    /\ reauths' = reauths + 1
    /\ shared' = NoToken /\ authDone' = FALSE
    /\ UNCHANGED <<mode, logins, session, passcode, page, paste, file, bootstrap, daemon>>

LoginNext ==
    \/ StartLogin \/ RunLogin \/ ApprovePush \/ SubmitTOTP \/ WaitForTOTP \/ LoginTimesOut
    \/ PurgeSession
    \/ \E p \in Pages :
          \/ Progress(p) \/ ConsumeLoginToken(p) \/ Downscope(p) \/ Adopt(p) \/ ClearSession(p)
          \/ AuthCallback(p)
    \/ \E p \in Pastes : TryPasted(p) \/ (\E token \in {"valid", "invalid"} : PasteToken(p, token))
    \/ WaitForAuth \/ AuthWaited \/ Bootstrapped \/ BootstrapFails \/ ForceReauth

\* Handlers and goroutines that have begun run on; users owe nothing.
LoginFairness ==
    /\ WF_loginVars(RunLogin) /\ WF_loginVars(LoginTimesOut) /\ WF_loginVars(PurgeSession)
    /\ WF_loginVars(AuthWaited) /\ WF_loginVars(Bootstrapped)
    /\ \A p \in Pages :
          /\ WF_loginVars(ConsumeLoginToken(p)) /\ WF_loginVars(Downscope(p))
          /\ WF_loginVars(Adopt(p)) /\ WF_loginVars(ClearSession(p))
    /\ \A p \in Pastes : WF_loginVars(TryPasted(p))

LoginSpec == LoginInit /\ [][LoginNext]_loginVars /\ LoginFairness

-----------------------------------------------------------------------------
\* Under certificate auth the bootstrap's token, which may sign certificates,
\* reaches neither the shared client nor the token file, although two pages can
\* hold the same login and only one of them is diverted (consumeLoginToken in
\* ui_login.go, operationalAdoptionAllowed in bootstrap.go).
BootstrapStaysOut == mode = "certificate" => shared \in {NoToken, "valid"} /\ file = NoToken

\* A waiting daemon goes on once a token has been adopted or the bootstrap's
\* login delivered, or leaves when that login buys no certificate (signalAuthDone,
\* deliverBootstrapToken).
SignInReleases ==
    (daemon = "waits" /\ (file # NoToken \/ bootstrap = "sent")) ~> (daemon \in {"runs", "stops"})

\* No session outlives its login: it ends by itself and is purged, also one with
\* a second factor that nobody answers (runLogin, waitForTOTP, gcLoop in login.go).
SessionsEnd == session # "none" ~> session = "none"

\* What the login pages owe: a sign-in lets the daemon go on, and no session
\* stays for ever.
LoginServes == LoginFairness => SignInReleases /\ SessionsEnd
=============================================================================
