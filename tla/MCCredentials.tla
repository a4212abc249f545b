--------------------------- MODULE MCCredentials ----------------------------
(***************************************************************************)
(* One run for the daemon's own token and for the credentials it keeps     *)
(* fresh.  They share no state: an initial state picks the one that moves, *)
(* focus; the other stays in a fixed initial state.  Each has its liveness *)
(* under its own fairness.                                                 *)
(***************************************************************************)
EXTENDS TokenLifecycle, EnrolRefresh

CONSTANTS t1, t2, t3, none

\* A desktop with the web UI and a peer to borrow from; a host that has only
\* its certificate to log in with.
Desktop == [file |-> TRUE, borrower |-> TRUE, recover |-> FALSE, web |-> TRUE]
Host == [file |-> FALSE, borrower |-> FALSE, recover |-> TRUE, web |-> FALSE]
MCSetups == {Desktop, Host}

OnceEach == [k \in Kinds |-> 1]

VARIABLE focus  \* the part that moves

TokenRests == TokenInit /\ setup = Host /\ cur = Issued(Tokens)

MCInit ==
    /\ focus \in {"token", "refresh"}
    /\ IF focus = "token" THEN TokenInit ELSE TokenRests
    /\ Init

MCNext ==
    /\ UNCHANGED focus
    /\ \/ /\ focus = "token" /\ TokenNext
          /\ UNCHANGED vars
       \/ /\ focus = "refresh" /\ Next
          /\ UNCHANGED tokenVars

mcVars == <<focus, tokenVars, vars>>

MCSpec == MCInit /\ [][MCNext]_mcVars
=============================================================================
