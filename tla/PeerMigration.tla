---------------------------- MODULE PeerMigration ----------------------------
(***************************************************************************)
(* Moving the forwards of workstations off the old default socket that     *)
(* they share on this host: the daemon here asks the workstation behind    *)
(* the socket, over that socket, to rename its forward.                    *)
(* (cmd/dotvault/peermigrate.go; internal/web/ssh.go on the workstation)   *)
(***************************************************************************)
EXTENDS Naturals, Sequences, SequencesExt

CONSTANTS
    Stations,       \* the workstations whose forwards end on this host
    Nobody,         \* none of them
    Inodes,         \* inode numbers; the kernel uses them again
    MaxIdentities,  \* maxMigratedIdentities
    MaxTroubles     \* lost connections and messages, and restarts

VARIABLES
    kind,      \* what each workstation reports, and what this host could find
    entry,     \* remote_socket in each workstation's file
    running,   \* the socket its running forward binds
    deferred,  \* it has a reconcile deferred
    bound,     \* its forward is bound
    node,      \* the node at the old default path
    handled,   \* identities that were handled, the oldest first
    job,       \* the exchange each identity has started
    swapped,   \* a request reached another workstation than the status came from
    troubles

stationVars == <<entry, running, deferred, bound, node>>
migrationVars == <<kind, stationVars, handled, job, swapped, troubles>>

\* What the status response leads to: "good", a version before the template, no
\* usable hostname label, a label that no pattern of this host matches
StationKinds == {"good", "old", "unnamed", "unfindable"}

NoJob == [pc |-> "none", who |-> Nobody]

NoNode == [ino |-> 0, by |-> Nobody]

MigrationInit ==
    /\ kind \in [Stations -> StationKinds]
    /\ entry = [w \in Stations |-> "legacy"] /\ running = entry
    /\ deferred = [w \in Stations |-> FALSE] /\ bound = deferred
    /\ node = NoNode
    /\ handled = <<>> /\ job = [i \in Inodes |-> NoJob]
    /\ swapped = FALSE /\ troubles = 0

Trouble == troubles < MaxTroubles /\ troubles' = troubles + 1

\* Who answers on the old default path: a node outlives its forward.
Behind ==
    IF node.by # Nobody /\ bound[node.by] /\ running[node.by] = "legacy"
    THEN node.by ELSE Nobody

-----------------------------------------------------------------------------
(***************************************************************************)
(* The workstations.                                                       *)
(***************************************************************************)

\* A forward binds; on the old path only if nobody answers there, in place of a
\* stale node, whose inode number may come back.
BindForward(w) ==
    /\ ~bound[w]
    /\ \/ /\ running[w] = "legacy" /\ Behind = Nobody
          /\ \E i \in Inodes : node' = [ino |-> i, by |-> w]
       \/ running[w] = "template" /\ UNCHANGED node
    /\ bound' = [bound EXCEPT ![w] = TRUE]
    /\ UNCHANGED <<kind, entry, running, deferred, handled, job, swapped, troubles>>

DropForward(w) ==
    /\ bound[w] /\ Trouble
    /\ bound' = [bound EXCEPT ![w] = FALSE]
    /\ UNCHANGED <<kind, entry, running, deferred, node, handled, job, swapped>>

\* The running forward follows the file; a renamed one is bound anew.
Follow(w) ==
    /\ running' = [running EXCEPT ![w] = entry[w]]
    /\ deferred' = [deferred EXCEPT ![w] = FALSE]
    /\ bound' = [bound EXCEPT ![w] = @ /\ running[w] = entry[w]]

\* reconcile_delay passes.
RebindForward(w) ==
    /\ deferred[w] /\ Follow(w)
    /\ UNCHANGED <<kind, entry, node, handled, job, swapped, troubles>>

\* A workstation that restarts before that starts from its file.
RestartStation(w) ==
    /\ Trouble
    /\ running' = [running EXCEPT ![w] = entry[w]]
    /\ deferred' = [deferred EXCEPT ![w] = FALSE]
    /\ bound' = [bound EXCEPT ![w] = FALSE]
    /\ UNCHANGED <<kind, entry, node, handled, job, swapped>>

\* handleSSHPatch: the entry is saved and the reconcile deferred.
SavePatch(w) ==
    /\ entry' = [entry EXCEPT ![w] = "template"]
    /\ deferred' = [deferred EXCEPT ![w] = TRUE]

-----------------------------------------------------------------------------
(***************************************************************************)
(* The daemon on this host.                                                *)
(***************************************************************************)

\* claim: an identity is marked before its attempt; the bookkeeping is bounded.
claim(i) ==
    /\ i \notin ToSet(handled)
    /\ handled' = Append(IF Len(handled) = MaxIdentities THEN Tail(handled) ELSE handled, i)

\* A borrow through the old default socket: the identity is that of the node found
\* there afterwards.  One exchange per inode number is followed at a time.
Borrowed ==
    /\ Behind # Nobody
    /\ job[node.ino].pc = "none"
    /\ claim(node.ino)
    /\ job' = [job EXCEPT ![node.ino] = [NoJob EXCEPT !.pc = "status"]]
    /\ UNCHANGED <<kind, stationVars, swapped, troubles>>

EndJob(i) == job' = [job EXCEPT ![i] = NoJob]

\* Mutant: any pattern of the right shape will do.
FindAnything(w) == w \in Stations

\* canFindRenamedSocket, with the label that the status has given
canFindRenamedSocket(w) == kind[w] # "unfindable"

\* A workstation that is too old, has no label, or would move out of sight is left
\* alone.
Migratable(w) == kind[w] \notin {"old", "unnamed"} /\ canFindRenamedSocket(w)

\* Every request dials the old path, so each may reach another workstation.
AskStatus(i) ==
    /\ job[i].pc = "status"
    /\ IF Behind # Nobody /\ Migratable(Behind)
          THEN job' = [job EXCEPT ![i] = [pc |-> "list", who |-> Behind]]
          ELSE EndJob(i)
    /\ UNCHANGED <<kind, stationVars, handled, swapped, troubles>>

\* The remotes: only an entry with the untouched default counts.
ListRemotes(i) ==
    /\ job[i].pc = "list"
    /\ IF Behind # Nobody /\ entry[Behind] = "legacy"
          THEN job' = [job EXCEPT ![i].pc = "patch"]
          ELSE EndJob(i)
    /\ UNCHANGED <<kind, stationVars, handled, swapped, troubles>>

\* patch: a refusal ends the exchange, and so does a token request that fails; a
\* response that does not come back leaves it to the renamed socket to tell.
Patch(i) ==
    /\ job[i].pc = "patch"
    /\ \/ /\ Behind # Nobody
          /\ SavePatch(Behind)
          /\ swapped' = (swapped \/ Behind # job[i].who)
          /\ job' = [job EXCEPT ![i].pc = "confirm"]
          /\ UNCHANGED troubles
       \/ /\ Behind # Nobody /\ Trouble
          /\ job' = [job EXCEPT ![i].pc = "confirm"]
          /\ UNCHANGED <<entry, deferred, swapped>>
       \/ /\ IF Behind = Nobody THEN UNCHANGED troubles ELSE Trouble
          /\ EndJob(i)
          /\ UNCHANGED <<entry, deferred, swapped>>
    /\ UNCHANGED <<kind, running, bound, node, handled>>

\* Mutant: a node that answers will do.
ProbeAny(i) == \E w \in Stations : bound[w] /\ running[w] = "template"

\* probePeerSocket: the renamed path answers, with the label of the status.
probePeerSocket(i) == bound[job[i].who] /\ running[job[i].who] = "template"

\* awaitSocket: polled until it answers or the wait expires.
Confirm(i) ==
    /\ job[i].pc = "confirm"
    /\ \/ probePeerSocket(i) /\ job' = [job EXCEPT ![i].pc = "confirmed"]
       \/ job' = [job EXCEPT ![i].pc = "uncertain"]
    /\ UNCHANGED <<kind, stationVars, handled, swapped, troubles>>

\* The outcome has been reported, and the goroutine is gone.
Report(i) ==
    /\ job[i].pc \in {"confirmed", "uncertain"}
    /\ job' = [job EXCEPT ![i] = NoJob]
    /\ UNCHANGED <<kind, stationVars, handled, swapped, troubles>>

\* The daemon here restarts and has forgotten all of it.
RestartHost ==
    /\ Trouble
    /\ handled' = <<>> /\ job' = [i \in Inodes |-> NoJob]
    /\ UNCHANGED <<kind, stationVars, swapped>>

MigrationNext ==
    \/ \E w \in Stations :
          BindForward(w) \/ DropForward(w) \/ RebindForward(w) \/ RestartStation(w)
    \/ \E i \in Inodes :
          AskStatus(i) \/ ListRemotes(i) \/ Patch(i) \/ Confirm(i) \/ Report(i)
    \/ Borrowed \/ RestartHost

MigrationSpec == MigrationInit /\ [][MigrationNext]_migrationVars

-----------------------------------------------------------------------------
\* No forward is moved where this host would not find it, and none of a
\* workstation that does not know the template, as long as the socket stays with
\* the workstation whose status was read: whatever is lost, restarted or patched
\* at the same time (migrate, canFindRenamedSocket).
SourceKept == ~swapped => \A w \in Stations : entry[w] = "template" => kind[w] = "good"

\* A migration reported as confirmed has happened, on the workstation that was
\* asked and in its file, also when the patch was lost and while a neighbour's
\* renamed socket answers (probePeerSocket).
ConfirmedMoved ==
    \A i \in Inodes : job[i].pc = "confirmed" => entry[job[i].who] = "template"

\* What a migration does and reports is right.
MigrationSound == SourceKept /\ ConfirmedMoved
=============================================================================
