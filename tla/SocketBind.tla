----------------------------- MODULE SocketBind -----------------------------
(***************************************************************************)
(* The Unix sockets of the daemon: the bind sequence that must not take a  *)
(* path from a live process (internal/uds), the file descriptors systemd   *)
(* passes, and how the three surfaces, the local API (internal/web/        *)
(* server.go), the SSH agent (internal/agent) and the Docker volume plugin *)
(* (internal/dockervol/server.go), take, lose and give up their listener.  *)
(* One path, and daemons that come and go.  A socket is an inode; the path *)
(* names one of them or none.                                              *)
(***************************************************************************)
EXTENDS Integers, FiniteSets

CONSTANTS
    Daemons,
    Main,       \* the one systemd passes its descriptors to
    MaxStarts,  \* daemon starts
    MaxMishaps  \* crashes, accept errors and other failures

ASSUME BindAssumption ==
    /\ Main \in Daemons
    /\ MaxStarts \in Nat /\ MaxMishaps \in Nat

VARIABLES
    surface,    \* "api", "agent" or "docker"
    unit,       \* what systemd passes: "none", a "good" socket or one to "refuse"
    wanted,     \* whether the surface is enabled
    node,       \* inode the path names (0: none)
    inodes,     \* inodes so far
    flock,      \* holder of the lock file
    life,       \* each daemon: step, inode it listens on (0: none), whether systemd passed it
    leaked,     \* each daemon's listeners that nothing refers to any more
    drained,    \* daemons that drain what systemd passed
    robbed,     \* inodes whose name a Cleanup of somebody else removed
    starts, slips

bindVars == <<surface, unit, wanted, node, inodes, flock, life, leaked, drained, robbed, starts, slips>>

Unheld == "unheld"

NoDaemon == [pc |-> "down", inode |-> 0, passed |-> FALSE]

\* systemd bound its socket before any daemon started.
BindInit ==
    /\ surface \in {"api", "agent", "docker"}
    /\ unit \in {"none", "good", "refuse"} /\ wanted \in BOOLEAN
    /\ unit = "none" => wanted
    /\ inodes = IF unit = "none" THEN 0 ELSE 1
    /\ node = inodes
    /\ flock = Unheld
    /\ life = [d \in Daemons |-> NoDaemon] /\ leaked = [d \in Daemons |-> {}]
    /\ drained = {} /\ robbed = {} /\ starts = 0 /\ slips = 0

Slip == slips < MaxMishaps /\ slips' = slips + 1

Goto(d, pc) == life' = [life EXCEPT ![d].pc = pc]

\* The inode systemd holds
UnitInode == IF unit = "none" THEN 0 ELSE 1

\* A connect succeeds on any socket that still listens, accepted from or not.
Accepting(i) ==
    \/ i = UnitInode
    \/ \E d \in Daemons : life[d].inode = i \/ i \in leaked[d]

\* adoptActivated: a passed socket whose node or directory others could replace is
\* refused.
Adoptable == unit # "refuse"

\* Whoever cannot serve: the API is fatal to the daemon, the agent tries again,
\* the plugin stays down while the daemon goes on.
GiveUp(d) ==
    [NoDaemon EXCEPT !.pc = CASE surface = "api" -> "down" [] surface = "agent" -> "retry"
                              [] OTHER -> "without"]

-----------------------------------------------------------------------------
\* runDaemon: DrainUnclaimedActivation first, then the surfaces.
StartDaemon(d) ==
    /\ life[d].pc = "down" /\ starts < MaxStarts
    /\ starts' = starts + 1
    /\ life' = [life EXCEPT ![d].pc = IF wanted THEN "claim" ELSE "without"]
    /\ drained' = IF d = Main /\ unit # "none" /\ ~wanted THEN drained \cup {d} ELSE drained
    /\ UNCHANGED <<surface, unit, wanted, node, inodes, flock, leaked, robbed, slips>>

\* ActivatedListener: a fresh duplicate of the descriptor every time, a refusal
\* that is final, or nothing, and then the path is bound.
Claim(d) ==
    /\ life[d].pc = "claim"
    /\ life' = [life EXCEPT ![d] =
                  IF d # Main \/ unit = "none"
                     THEN [@ EXCEPT !.pc = IF surface = "docker" THEN "root" ELSE "lock"]
                  ELSE IF ~Adoptable THEN GiveUp(d)
                  ELSE [pc |-> IF surface = "docker" THEN "root" ELSE "serve",
                        inode |-> UnitInode, passed |-> TRUE]]
    /\ UNCHANGED <<surface, unit, wanted, node, inodes, flock, leaked, drained, robbed, starts, slips>>

\* Mutant: a plugin that cannot start drops what it claimed.
RootQuits(d) ==
    /\ life[d].pc = "root"
    /\ \/ /\ Goto(d, IF life[d].passed THEN "serve" ELSE "lock")
          /\ UNCHANGED <<drained, slips>>
       \/ /\ Slip
          /\ life' = [life EXCEPT ![d] = GiveUp(d)]
          /\ UNCHANGED drained
    /\ UNCHANGED <<surface, unit, wanted, node, inodes, flock, leaked, robbed, starts>>

\* Run: the volume directory cannot be prepared, or startDockerVolumes could not
\* build the driver: what was passed is drained.
PrepareRoot(d) ==
    /\ life[d].pc = "root"
    /\ \/ /\ Goto(d, IF life[d].passed THEN "serve" ELSE "lock")
          /\ UNCHANGED <<drained, slips>>
       \/ /\ Slip
          /\ life' = [life EXCEPT ![d] = GiveUp(d)]
          /\ drained' = IF life[d].passed THEN drained \cup {d} ELSE drained
    /\ UNCHANGED <<surface, unit, wanted, node, inodes, flock, leaked, robbed, starts>>

-----------------------------------------------------------------------------
(***************************************************************************)
(* Listen                                                                  *)
(***************************************************************************)

\* Mutant: nobody waits for the lock.
LockFreely(d) ==
    /\ life[d].pc = "lock"
    /\ Goto(d, "probe")
    /\ UNCHANGED <<surface, unit, wanted, node, inodes, flock, leaked, drained, robbed, starts, slips>>

withBindLock(d) ==
    /\ life[d].pc = "lock" /\ flock = Unheld
    /\ flock' = d
    /\ Goto(d, "probe")
    /\ UNCHANGED <<surface, unit, wanted, node, inodes, leaked, drained, robbed, starts, slips>>

Unlock(d) == flock' = IF flock = d THEN Unheld ELSE flock

\* Something at the path that answers is a live instance; what does not is stale.
Probe(d) ==
    /\ life[d].pc = "probe"
    /\ IF node # 0 /\ Accepting(node)
          THEN life' = [life EXCEPT ![d] = GiveUp(d)] /\ Unlock(d)
          ELSE Goto(d, IF node = 0 THEN "bind" ELSE "stale") /\ UNCHANGED flock
    /\ UNCHANGED <<surface, unit, wanted, node, inodes, leaked, drained, robbed, starts, slips>>

\* Whatever the path names by now; gone already is as good.
removeStale(d) ==
    /\ life[d].pc = "stale"
    /\ node' = 0
    /\ Goto(d, "bind")
    /\ UNCHANGED <<surface, unit, wanted, inodes, flock, leaked, drained, robbed, starts, slips>>

Bind(d) ==
    /\ life[d].pc = "bind"
    /\ IF node # 0
          THEN life' = [life EXCEPT ![d] = GiveUp(d)] /\ Unlock(d) /\ UNCHANGED <<node, inodes>>
          ELSE /\ node' = inodes + 1 /\ inodes' = inodes + 1
               /\ life' = [life EXCEPT ![d].pc = "chmod", ![d].inode = inodes + 1]
               /\ UNCHANGED flock
    /\ UNCHANGED <<surface, unit, wanted, leaked, drained, robbed, starts, slips>>

\* The mode is set by path: it fails when the name is gone.
Chmod(d) ==
    /\ life[d].pc = "chmod"
    /\ Unlock(d)
    /\ IF node = 0
          THEN life' = [life EXCEPT ![d] = GiveUp(d)]
          ELSE Goto(d, "serve")
    /\ UNCHANGED <<surface, unit, wanted, node, inodes, leaked, drained, robbed, starts, slips>>

-----------------------------------------------------------------------------
(***************************************************************************)
(* Serving and stopping                                                    *)
(***************************************************************************)

\* Listener.Serve of the agent returns on an accept error and leaves its
\* listener open, for the garbage collector to close.
AcceptFails(d) ==
    /\ surface = "agent" /\ life[d].pc = "serve" /\ Slip
    /\ leaked' = [leaked EXCEPT ![d] = @ \cup {life[d].inode}]
    /\ life' = [life EXCEPT ![d] = GiveUp(d)]
    /\ UNCHANGED <<surface, unit, wanted, node, inodes, flock, drained, robbed, starts>>

\* The finalizer closes the descriptor and leaves the name.
Collect(d) ==
    /\ leaked[d] # {}
    /\ leaked' = [leaked EXCEPT ![d] = {}]
    /\ UNCHANGED <<surface, unit, wanted, node, inodes, flock, life, drained, robbed, starts, slips>>

\* serveEndpoint, after its delay
Retry(d) ==
    /\ life[d].pc = "retry"
    /\ Goto(d, "claim")
    /\ UNCHANGED <<surface, unit, wanted, node, inodes, flock, leaked, drained, robbed, starts, slips>>

\* Shutdown, Close and the end of Run close the listener: Go unlinks the path,
\* unless systemd passed it (and whoever was robbed robs in turn),
CloseUnlinks(d) ==
    /\ life[d].pc = "serve"
    /\ node' = IF life[d].passed THEN node ELSE 0
    /\ robbed' = IF life[d].inode \in robbed THEN robbed \cup ({node} \ {0}) ELSE robbed
    /\ Goto(d, IF life[d].passed THEN "leave" ELSE "close")
    /\ UNCHANGED <<surface, unit, wanted, inodes, flock, leaked, drained, starts, slips>>

\* then closes the descriptor,
CloseListener(d) ==
    /\ life[d].pc = "close"
    /\ life' = [life EXCEPT ![d].pc = "cleanup", ![d].inode = 0]
    /\ UNCHANGED <<surface, unit, wanted, node, inodes, flock, leaked, drained, robbed, starts, slips>>

\* and once the connections are done the path is removed again, as a backstop.
\* By then it may be somebody else's.
Cleanup(d) ==
    /\ life[d].pc = "cleanup"
    /\ robbed' = robbed \cup ({node} \ {0})
    /\ node' = 0
    /\ Goto(d, "leave")
    /\ UNCHANGED <<surface, unit, wanted, inodes, flock, leaked, drained, starts, slips>>

\* The process ends, as it also does with a surface that is not served.
Leave(d) ==
    /\ life[d].pc \in {"leave", "without", "retry"}
    /\ life' = [life EXCEPT ![d] = NoDaemon]
    /\ leaked' = [leaked EXCEPT ![d] = {}]
    /\ drained' = drained \ {d}
    /\ UNCHANGED <<surface, unit, wanted, node, inodes, flock, robbed, starts, slips>>

\* The kernel closes what a killed process had and releases its lock; the name
\* stays.
CrashDaemon(d) ==
    /\ life[d].pc # "down" /\ Slip
    /\ life' = [life EXCEPT ![d] = NoDaemon]
    /\ leaked' = [leaked EXCEPT ![d] = {}]
    /\ drained' = drained \ {d}
    /\ Unlock(d)
    /\ UNCHANGED <<surface, unit, wanted, node, inodes, robbed, starts>>

BindStep(d) ==
    \/ Claim(d) \/ PrepareRoot(d)
    \/ withBindLock(d) \/ Probe(d) \/ removeStale(d) \/ Bind(d) \/ Chmod(d) \/ Retry(d)

BindNext ==
    \E d \in Daemons :
        \/ BindStep(d) \/ StartDaemon(d) \/ AcceptFails(d) \/ Collect(d)
        \/ CloseUnlinks(d) \/ CloseListener(d) \/ Cleanup(d) \/ Leave(d) \/ CrashDaemon(d)

\* A daemon that is starting goes on, the backoff passes, and garbage is
\* collected at least every two minutes.
BindFairness ==
    /\ \A d \in Daemons : WF_bindVars(BindStep(d)) /\ WF_bindVars(Collect(d))
                          /\ WF_bindVars(CloseListener(d)) /\ WF_bindVars(Cleanup(d))

BindSpec == BindInit /\ [][BindNext]_bindVars /\ BindFairness

-----------------------------------------------------------------------------
\* Nobody binds over a live daemon, and nobody removes the socket unit's node:
\* who serves is whom the path names.  The one exception is the Cleanup of a
\* predecessor that is still stopping (withBindLock, Probe, Cleanup).
PathKept ==
    /\ \A d \in Daemons :
          life[d].pc = "serve" /\ life[d].inode \notin robbed => node = life[d].inode
    /\ unit # "none" => node = UnitInode

\* No client is left hanging in a backlog: once a daemon is up, what systemd
\* passed it is accepted from or drained, and an agent gets its socket back after
\* an accept error or the end of the instance that had it
\* (DrainUnclaimedActivation, ActivatedListener, drainOnFail, serveEndpoint).
Attended ==
    /\ unit = "good" =>
          (life[Main].pc # "down" ~>
              \/ life[Main].pc \in {"serve", "leave", "down"}
              \/ Main \in drained)
    /\ surface = "agent" /\ wanted /\ unit # "refuse" =>
          \A d \in Daemons :
              (unit = "none" \/ d = Main) /\ <>[](life[d].pc # "down") =>
                  []<>(\E e \in Daemons : life[e].pc \in {"serve", "leave"})

\* No daemon takes the path of another and, under the fairness of the daemons that
\* run, sockets are attended.
BindServes == []PathKept /\ (BindFairness => Attended)
=============================================================================
