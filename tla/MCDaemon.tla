------------------------------ MODULE MCDaemon ------------------------------
(***************************************************************************)
(* One run for the loops of a daemon that share no state.  An initial      *)
(* state picks the part that moves, focus; the others stay in a fixed      *)
(* initial state.  Each part's liveness is stated under its own fairness.  *)
(***************************************************************************)
EXTENDS SSHAgent, ConfigReload, ClientCertSource, DaemonStartup, EnrolWatch,
        SocketBind, EnrolEngines

VARIABLE focus  \* the part that moves

ConfigRests == base = [sound |-> TRUE, url |-> Nothing, static |-> 0] /\ ConfigInit

SourceRests == file = 0 /\ SourceInit

StartupRests ==
    /\ mode = "idle" /\ tokenFile = NoToken /\ offered = NoToken /\ accepted = {}
    /\ StartupInit

WatchRests == stream = "none" /\ WatchInit

BindRests == surface = "api" /\ unit = "none" /\ wanted = TRUE /\ BindInit

EngineRests == using = "ghp" /\ EngineInit

Init ==
    /\ focus \in {"agent", "config", "source", "startup", "watch", "bind", "engine"}
    /\ AgentInit
    /\ IF focus = "config" THEN ConfigInit ELSE ConfigRests
    /\ IF focus = "source" THEN SourceInit ELSE SourceRests
    /\ IF focus = "startup" THEN StartupInit ELSE StartupRests
    /\ IF focus = "watch" THEN WatchInit ELSE WatchRests
    /\ IF focus = "bind" THEN BindInit ELSE BindRests
    /\ IF focus = "engine" THEN EngineInit ELSE EngineRests

Next ==
    /\ UNCHANGED focus
    /\ \/ /\ focus = "agent" /\ AgentNext
          /\ UNCHANGED <<configVars, sourceVars, startupVars, watchVars, bindVars,
                         engineVars>>
       \/ /\ focus = "config" /\ ConfigNext
          /\ UNCHANGED <<agentVars, sourceVars, startupVars, watchVars, bindVars,
                         engineVars>>
       \/ /\ focus = "source" /\ SourceNext
          /\ UNCHANGED <<agentVars, configVars, startupVars, watchVars, bindVars,
                         engineVars>>
       \/ /\ focus = "startup" /\ StartupNext
          /\ UNCHANGED <<agentVars, configVars, sourceVars, watchVars, bindVars,
                         engineVars>>
       \/ /\ focus = "watch" /\ WatchNext
          /\ UNCHANGED <<agentVars, configVars, sourceVars, startupVars, bindVars,
                         engineVars>>
       \/ /\ focus = "bind" /\ BindNext
          /\ UNCHANGED <<agentVars, configVars, sourceVars, startupVars, watchVars,
                         engineVars>>
       \/ /\ focus = "engine" /\ EngineNext
          /\ UNCHANGED <<agentVars, configVars, sourceVars, startupVars, watchVars,
                         bindVars>>

vars == <<focus, agentVars, configVars, sourceVars, startupVars, watchVars, bindVars,
          engineVars>>

Spec == Init /\ [][Next]_vars
=============================================================================
