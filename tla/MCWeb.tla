------------------------------- MODULE MCWeb --------------------------------
(***************************************************************************)
(* One run for parts of the web server that share no state.  An initial    *)
(* state picks the part that moves, focus; the others stay in a fixed      *)
(* initial state.  Each part's liveness is stated under its own fairness.  *)
(***************************************************************************)
EXTENDS WebLogin, WebEnrol, NoticeMesh

CONSTANTS d1, d2, h

\* A host that borrows from two desktops, one of which borrows from it.
Mixed == {<<d1, h>>, <<d2, h>>, <<h, d1>>}

VARIABLE focus  \* the part that moves

LoginRests == mode = "operational" /\ LoginInit

EnrolRests == stored = {} /\ EnrolInit

Init ==
    /\ focus \in {"login", "enrol", "mesh"}
    /\ IF focus = "login" THEN LoginInit ELSE LoginRests
    /\ IF focus = "enrol" THEN EnrolInit ELSE EnrolRests
    /\ MeshInit

Next ==
    /\ UNCHANGED focus
    /\ \/ /\ focus = "login" /\ LoginNext
          /\ UNCHANGED <<enrolVars, meshVars>>
       \/ /\ focus = "enrol" /\ EnrolNext
          /\ UNCHANGED <<loginVars, meshVars>>
       \/ /\ focus = "mesh" /\ MeshNext
          /\ UNCHANGED <<loginVars, enrolVars>>

vars == <<focus, loginVars, enrolVars, meshVars>>

Spec == Init /\ [][Next]_vars

\* Signing in lets a waiting daemon go on and leaves no session behind (login.go),
\* and a user who is let through from the wizard to the site finds a daemon that
\* syncs (enrol_runner.go).
WebServes == LoginServes /\ EnrolServes
=============================================================================
