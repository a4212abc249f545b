----------------------------- MODULE LoginCheck -----------------------------
(***************************************************************************)
(* `dotvault login-check`, run by every shell that starts: the marker that *)
(* keeps shells quiet after one has checked, and the check itself          *)
(* (runLoginCheck in cmd/dotvault/main.go, internal/loginsuppress).        *)
(***************************************************************************)
EXTENDS Integers

CONSTANTS
    Shells,
    Window,   \* hours a marker keeps shells quiet
    MaxClock, \* the wall clock's range
    MaxSteps  \* clock settings and token changes by others

ASSUME LoginCheckAssumption == Window \in Nat \ {0} /\ MaxClock \in Nat /\ MaxSteps \in Nat

VARIABLES
    clock,   \* wall clock, which can be set back
    marker,  \* mtime of the marker, or Never
    shell,   \* what each login-check does
    cachedToken, \* the token file: "none", "fresh", "aging", "expired", "revoked"
    lastCheck,   \* when the last check ended that a later shell should rely on
    steps

checkVars == <<clock, marker, shell, cachedToken, lastCheck, steps>>

Never == -1

TokenKinds == {"none", "fresh", "aging", "expired", "revoked"}

CheckInit ==
    /\ clock = 0 /\ marker = Never /\ lastCheck = Never
    /\ shell = [s \in Shells |-> "closed"]
    /\ cachedToken \in TokenKinds
    /\ steps = 0

\* IsFresh: a marker of the future is stale.
IsFresh(m) == m # Never /\ m <= clock /\ clock - m < Window

\* The shell starts its check, or stops at the marker and leaves it alone.
ShellOpens(s) ==
    /\ shell[s] = "closed"
    /\ shell' = [shell EXCEPT ![s] = IF IsFresh(marker) THEN "quiet" ELSE "checking"]
    /\ UNCHANGED <<clock, marker, cachedToken, lastCheck, steps>>

\* Every exit past the marker refreshes it: the deferred call, or the handler of
\* Ctrl-C, which ends the process before deferred calls run.
Refresh == marker' = clock

Exit(s) ==
    /\ shell' = [shell EXCEPT ![s] = "done"]
    /\ Refresh
    /\ lastCheck' = clock

\* A machine account, a configuration that does not load, a certificate that is
\* valid, a token that is fresh, cannot be renewed or cannot be looked up, a
\* Vault that does not answer: nothing to ask the user.
Silent(s) ==
    /\ shell[s] = "checking"
    /\ Exit(s)
    /\ UNCHANGED <<clock, cachedToken, steps>>

\* handleValidToken: past half its life it is renewed.
Renew(s) ==
    /\ shell[s] = "checking" /\ cachedToken = "aging"
    /\ cachedToken' = "fresh"
    /\ Exit(s)
    /\ UNCHANGED <<clock, steps>>

\* No usable token, and Vault is there: a login.
Ask(s) ==
    /\ shell[s] = "checking" /\ cachedToken \in {"none", "expired", "revoked"}
    /\ shell' = [shell EXCEPT ![s] = "asking"]
    /\ UNCHANGED <<clock, marker, cachedToken, lastCheck, steps>>

\* Manager.Login: borrowed, granted and written, or declined and failed.
HandleReply(s) ==
    /\ shell[s] = "asking"
    /\ cachedToken' \in {cachedToken, "fresh"}
    /\ Exit(s)
    /\ UNCHANGED <<clock, steps>>

\* Mutant: the process ends as any other does on a signal.
InterruptBare(s) ==
    /\ shell[s] \in {"checking", "asking"}
    /\ shell' = [shell EXCEPT ![s] = "done"]
    /\ lastCheck' = clock
    /\ UNCHANGED <<clock, marker, cachedToken, steps>>

\* Ctrl-C
Interrupt(s) ==
    /\ shell[s] \in {"checking", "asking"}
    /\ Exit(s)
    /\ UNCHANGED <<clock, cachedToken, steps>>

\* SIGTERM is not the user's choice and leaves the marker alone.
Terminate(s) ==
    /\ shell[s] \in {"checking", "asking"}
    /\ shell' = [shell EXCEPT ![s] = "done"]
    /\ UNCHANGED <<clock, marker, cachedToken, lastCheck, steps>>

\* A shell closed and opened anew
Close(s) ==
    /\ shell[s] \in {"quiet", "done"}
    /\ shell' = [shell EXCEPT ![s] = "closed"]
    /\ UNCHANGED <<clock, marker, cachedToken, lastCheck, steps>>

Hour ==
    /\ clock < MaxClock
    /\ clock' = clock + 1
    /\ UNCHANGED <<marker, shell, cachedToken, lastCheck, steps>>

\* The clock is set, or the token expires, is revoked or is replaced.
OtherChange ==
    /\ steps < MaxSteps
    /\ steps' = steps + 1
    /\ \/ clock' \in 0..MaxClock /\ UNCHANGED cachedToken
       \/ cachedToken' \in TokenKinds /\ UNCHANGED clock
    /\ UNCHANGED <<marker, shell, lastCheck>>

CheckNext ==
    \/ Hour \/ OtherChange
    \/ \E s \in Shells : \/ ShellOpens(s) \/ Silent(s) \/ Renew(s) \/ Ask(s) \/ HandleReply(s)
                         \/ Interrupt(s) \/ Terminate(s) \/ Close(s)

CheckSpec == CheckInit /\ [][CheckNext]_checkVars

-----------------------------------------------------------------------------
\* A shell goes past the marker exactly if no check has ended within the window
\* before it: however a check ends, declined, failed or interrupted, the next
\* shells are quiet, and they do not keep each other quiet any longer than the
\* window, nor does a clock that was set back (runLoginCheck, IsFresh).
QuietAfterCheck ==
    [][\A s \in Shells :
         shell[s] = "closed" /\ shell'[s] # "closed" =>
             (shell'[s] = "quiet" <=> lastCheck # Never /\ clock - lastCheck \in 0..(Window - 1))]_checkVars
=============================================================================
