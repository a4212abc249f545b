------------------------------ MODULE MCLimits ------------------------------
(***************************************************************************)
(* One run for the two parts that measure time.  They share no state: an   *)
(* initial state picks the one that moves, focus; the other stays in its   *)
(* initial state.                                                          *)
(***************************************************************************)
EXTENDS LifecycleSchedule, PeerPool, TLC

VARIABLE focus  \* the part that moves

Init ==
    /\ focus \in {"schedule", "pool"}
    /\ ScheduleInit
    /\ PoolInit

Next ==
    /\ UNCHANGED focus
    /\ \/ /\ focus = "schedule" /\ ScheduleNext
          /\ UNCHANGED poolVars
       \/ /\ focus = "pool" /\ PoolNext
          /\ UNCHANGED scheduleVars

vars == <<focus, scheduleVars, poolVars>>

Spec == Init /\ [][Next]_vars

\* The goroutines that report rejections differ in nothing but their name.
Interchangeable == Permutations(Reporters)
=============================================================================
