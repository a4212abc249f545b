------------------------------ MODULE MCSafety ------------------------------
(***************************************************************************)
(* One run for the parts that share no state and are checked for safety    *)
(* alone.  An initial state picks the part that moves, focus; the others   *)
(* stay in a fixed initial state.                                          *)
(***************************************************************************)
EXTENDS SecretEditor, VaultFS, CertRotation, LoginCheck, FileMerge,
        PeerMigration

VARIABLE focus  \* the part that moves

\* Processes of the file system, and of a rotation, are interchangeable.
Processes == Permutations(Procs) \cup Permutations(Rotators)

EditorRests == cli = NoCommand /\ EditInit

CertRests == native = FALSE /\ CertInit

CheckRests == cachedToken = "none" /\ CheckInit

MergeRests ==
    /\ format = "json" /\ deleteNulls = FALSE /\ disk = NoKeys /\ rendered = NoKeys
    /\ MergeInit

MigrationRests ==
    /\ kind = [w \in Stations |-> "old"]
    /\ MigrationInit

Init ==
    /\ focus \in {"editor", "fs", "cert", "check", "merge", "migration"}
    /\ IF focus = "editor" THEN EditInit ELSE EditorRests
    /\ FSInit
    /\ IF focus = "cert" THEN CertInit ELSE CertRests
    /\ IF focus = "check" THEN CheckInit ELSE CheckRests
    /\ IF focus = "merge" THEN MergeInit ELSE MergeRests
    /\ IF focus = "migration" THEN MigrationInit ELSE MigrationRests

Next ==
    /\ UNCHANGED focus
    /\ \/ /\ focus = "editor" /\ EditNext
          /\ UNCHANGED <<fsVars, certVars, checkVars, mergeVars, migrationVars>>
       \/ /\ focus = "fs" /\ FSNext
          /\ UNCHANGED <<editVars, certVars, checkVars, mergeVars, migrationVars>>
       \/ /\ focus = "cert" /\ CertNext
          /\ UNCHANGED <<editVars, fsVars, checkVars, mergeVars, migrationVars>>
       \/ /\ focus = "check" /\ CheckNext
          /\ UNCHANGED <<editVars, fsVars, certVars, mergeVars, migrationVars>>
       \/ /\ focus = "merge" /\ MergeNext
          /\ UNCHANGED <<editVars, fsVars, certVars, checkVars, migrationVars>>
       \/ /\ focus = "migration" /\ MigrationNext
          /\ UNCHANGED <<editVars, fsVars, certVars, checkVars, mergeVars>>

vars == <<focus, editVars, fsVars, certVars, checkVars, mergeVars, migrationVars>>

Spec == Init /\ [][Next]_vars
=============================================================================
