------------------------------ MODULE MCHosts ------------------------------
(***************************************************************************)
(* One run for a forward to a remote host and for a Docker volume.  They   *)
(* share no state: an initial state picks the one that moves, focus; the   *)
(* other stays in a fixed initial state.  Each has its liveness under its  *)
(* own fairness.                                                           *)
(***************************************************************************)
EXTENDS SSHForward, DockerVolume

\* Two keys a user trusts and one nobody does; an ordinary Add, one that
\* confirms a fingerprint and a forced one that replaces the pin.
MCRequests ==
    {[port |-> 1, force |-> FALSE, key |-> "none", accept |-> "k1"],
     [port |-> 2, force |-> FALSE, key |-> "none", accept |-> "none"],
     [port |-> 1, force |-> TRUE,  key |-> "k2",   accept |-> "none"]}

VARIABLE focus  \* the part that moves

ForwardRests ==
    file = Absent /\ socket = Socket("free") /\ server = [key |-> "k1", policy |-> "full"]

MCInit ==
    /\ focus \in {"forward", "volume"}
    /\ Init /\ (focus = "volume" => ForwardRests)
    /\ DockerInit

MCNext ==
    /\ UNCHANGED focus
    /\ \/ /\ focus = "forward" /\ Next
          /\ UNCHANGED dockerVars
       \/ /\ focus = "volume" /\ DockerNext
          /\ UNCHANGED vars

MCSpec == MCInit /\ [][MCNext]_<<focus, vars, dockerVars>>
=============================================================================
