---------------------------- MODULE DockerVolume ----------------------------
(***************************************************************************)
(* One volume of the Docker volume plugin (internal/dockervol): the        *)
(* engine's calls, the refresh loop, the Vault event watcher, the saved    *)
(* registry and daemon restarts.  Volumes share no state but the watcher.  *)
(* A Create waits for every earlier call on the name: the engine, outside  *)
(* this repository, creates and removes a name under one lock.             *)
(***************************************************************************)
EXTENDS Integers

CONSTANTS
    Containers, \* mount IDs the engine uses
    MaxChanges, \* changes of what the volume shows
    MaxFaults   \* failed renders and saves, lost tokens, lost streams, restarts

ASSUME DockerAssumption ==
    MaxChanges \in Nat /\ MaxFaults \in Nat

\* A mount ID is no state of the lock.
ASSUME MountIdsAssumption == Containers \cap {"free", "loop", "stale"} = {}

VARIABLES
    vol,     \* the driver's record of the volume
    op,      \* who holds opMu: nobody, a call, the loop, or a cancelled loop
    content, \* what the holder of opMu has read
    request, \* each container's call in progress
    remove,  \* the Remove call in progress
    dir,     \* the volume's directory
    store,   \* current version of the KV secrets and of the certificate
    saved,   \* the persisted registry
    watch,   \* the event watcher
    heard,   \* an event is on its way
    vaultToken,   \* the daemon has a Vault token
    missed,  \* a first mount at work was not told of a change (for the properties)
    changes, faults \* changes and faults so far

volumeVars == <<vol, op, content, request, remove, dir, saved>>

worldVars == <<store, watch, heard, vaultToken, missed, changes, faults>>

dockerVars == <<vol, op, content, request, remove, dir, store, saved, watch, heard, vaultToken,
                missed, changes, faults>>

\* What a volume can show: KV secrets, which make events, and the client
\* certificate, which ages without Vault saying anything.
Parts == {"kv", "cert"}

Specs == {{"kv"}, {"cert"}, Parts}

\* No directory; otherwise a directory has a version of each part, 0 for none.
NoDir == [p \in Parts |-> -1]

Broken == [p \in Parts |-> 0]

NoVolume == [known |-> FALSE, spec |-> {"kv"}, mounts |-> {}, loop |-> "off",
            nudge |-> FALSE, pending |-> FALSE, err |-> FALSE]

Created(spec) == [NoVolume EXCEPT !.known = TRUE, !.spec = spec]

Silent == [pc |-> "idle", filled |-> FALSE]

DockerInit ==
    /\ vol = NoVolume /\ saved = NoVolume
    /\ op = "free" /\ content = NoDir
    /\ request = [c \in Containers |-> Silent]
    /\ remove = "idle"
    /\ dir = NoDir
    /\ store = [p \in Parts |-> 1]
    /\ watch = "probing" /\ heard = FALSE
    /\ vaultToken = TRUE /\ missed = FALSE
    /\ changes = 0 /\ faults = 0

Up == watch # "down"

Fault ==
    /\ faults < MaxFaults
    /\ faults' = faults + 1

\* saveLocked: what a restart will load, unless the write fails.
Save(v) ==
    \/ saved' = [Created(v.spec) EXCEPT !.known = v.known, !.mounts = v.mounts]
       /\ UNCHANGED faults
    \/ Fault /\ UNCHANGED saved

\* Whether an unmounted volume is being populated by a first mount.
Populating == \E c \in Containers : request[c].pc \in {"lock", "read", "apply", "own"}

-----------------------------------------------------------------------------
(***************************************************************************)
(* Rendering.  A volume of the certificate alone reads no KV secret.       *)
(***************************************************************************)
Allowed == vaultToken \/ "kv" \notin vol.spec

Render == [p \in Parts |-> IF p \in vol.spec THEN store[p] ELSE 0]

Shown == dir = Render

\* apply: directories, changed files, then what is no longer selected goes.
Apply == dir' = content

\* apply gives up between two of its writes, or before the first.
ApplyPartly == dir' \in {dir, Broken}

\* startLoopLocked
StartLoop(v, first) == [v EXCEPT !.loop = IF first THEN "due" ELSE "wait", !.nudge = FALSE]

\* stopLoopLocked: a render in progress runs on, cancelled.
StopLoop(v) ==
    /\ vol' = [v EXCEPT !.loop = "off"]
    /\ op' = IF op = "loop" THEN "stale" ELSE op

-----------------------------------------------------------------------------
(***************************************************************************)
(* The engine's calls.                                                     *)
(***************************************************************************)
Create(spec) ==
    /\ Up /\ remove = "idle" /\ \A c \in Containers : request[c] = Silent
    /\ ~vol.known
    /\ vol' = Created(spec)
    /\ Save(vol')
    /\ UNCHANGED <<op, content, request, remove, dir, store, watch, heard, vaultToken, missed, changes>>

RemoveVolume ==
    /\ Up /\ remove = "idle" /\ vol.known
    /\ StopLoop([vol EXCEPT !.known = FALSE])
    /\ Save(vol')
    /\ remove' = "wipe"
    /\ UNCHANGED <<content, request, dir, store, watch, heard, vaultToken, missed, changes>>

\* Mount, up to the unlock of d.mu.
MountStart(c) ==
    /\ Up /\ vol.known /\ request[c].pc = "idle" /\ c \notin vol.mounts
    /\ request' = [request EXCEPT ![c].pc = IF vol.loop = "off" THEN "lock" ELSE "join"]
    /\ UNCHANGED <<vol, op, content, remove, dir, saved>>
    /\ UNCHANGED worldVars

\* With opMu: another first mount may have been quicker, or the token is gone.
MountLock(c) ==
    /\ request[c].pc = "lock" /\ op = "free"
    /\ CASE vol.loop # "off" -> op' = c /\ request' = [request EXCEPT ![c].pc = "own"]
         [] vol.loop = "off" /\ Allowed ->
               op' = c /\ request' = [request EXCEPT ![c].pc = "read"]
         [] OTHER -> op' = op /\ request' = [request EXCEPT ![c] = Silent]
    /\ UNCHANGED <<vol, content, remove, dir, saved>>
    /\ UNCHANGED worldVars

MountRead(c) ==
    /\ request[c].pc = "read"
    /\ content' = Render
    /\ request' = [request EXCEPT ![c].pc = "apply"]
    /\ UNCHANGED <<vol, op, remove, dir, saved>>
    /\ UNCHANGED worldVars

MountApply(c) ==
    /\ request[c].pc = "apply"
    /\ Apply
    /\ vol' = [vol EXCEPT !.err = FALSE]
    /\ request' = [request EXCEPT ![c] = [pc |-> "own", filled |-> TRUE]]
    /\ UNCHANGED <<op, content, remove, saved>>
    /\ UNCHANGED worldVars

\* The render fails, before or while it writes; the caller gets an error.
MountFails(c) ==
    /\ request[c].pc \in {"read", "apply"}
    /\ Fault
    /\ IF request[c].pc = "read" THEN UNCHANGED dir ELSE ApplyPartly
    /\ vol' = [vol EXCEPT !.err = TRUE]
    /\ op' = "free"
    /\ request' = [request EXCEPT ![c] = Silent]
    /\ UNCHANGED <<content, remove, store, saved, watch, heard, vaultToken, missed, changes>>

ReleaseOpMu(c) == op' = IF op = c THEN "free" ELSE op

\* The last section of Mount: the volume may have been removed meanwhile, or its
\* loop stopped by the last Unmount.
MountRegister(c) ==
    /\ request[c].pc \in {"join", "own"}
    /\ ReleaseOpMu(c)
    /\ request' = [request EXCEPT ![c] = Silent]
    /\ IF vol.known
          THEN /\ vol' = LET v == [vol EXCEPT !.mounts = @ \cup {c}, !.pending = FALSE]
                         IN  IF v.loop = "off"
                                THEN StartLoop(v, ~request[c].filled \/ vol.pending)
                                ELSE v
               /\ Save(vol')
               /\ UNCHANGED dir
          ELSE /\ dir' = IF request[c].filled THEN NoDir ELSE dir
               /\ UNCHANGED <<vol, saved, faults>>
    /\ UNCHANGED <<content, remove, store, watch, heard, vaultToken, missed, changes>>

Unmount(c) ==
    /\ Up /\ vol.known /\ request[c].pc = "idle" /\ c \in vol.mounts
    /\ LET v == [vol EXCEPT !.mounts = @ \ {c}]
       IN  IF v.mounts # {}
              THEN vol' = v /\ UNCHANGED <<op, request, missed>>
              ELSE /\ StopLoop(v) /\ request' = [request EXCEPT ![c].pc = "wipe"]
                   /\ missed' = (missed \/ Populating)
    /\ Save(vol')
    /\ UNCHANGED <<content, remove, dir, store, watch, heard, vaultToken, changes>>

\* Mutant: the wipe trusts what the last Unmount saw.
WipeBlindly == dir' = NoDir

\* wipe, once it has both locks
WipeDir == dir' = IF vol.known /\ vol.mounts # {} THEN dir ELSE NoDir

\* Mutant: the wipe does not wait for the loop it cancelled.
Quick == op \in {"free", "stale"}

\* The cancelled loop has gone and nobody else works on the directory.
Stopped == op = "free"

UnmountWipe(c) ==
    /\ request[c].pc = "wipe" /\ Stopped
    /\ WipeDir
    /\ request' = [request EXCEPT ![c] = Silent]
    /\ UNCHANGED <<vol, op, content, remove, saved>>
    /\ UNCHANGED worldVars

RemoveWipe ==
    /\ remove = "wipe" /\ Stopped
    /\ WipeDir
    /\ remove' = "idle"
    /\ UNCHANGED <<vol, op, content, request, saved>>
    /\ UNCHANGED worldVars

-----------------------------------------------------------------------------
(***************************************************************************)
(* The refresh loop.                                                       *)
(***************************************************************************)
eventsDriving == watch = "live"

\* nextCertRefresh: the certificate's own timer, whatever drives the rest.
CertDue == "cert" \in vol.spec /\ (vol.err \/ dir["cert"] # store["cert"])

LoopWakes ==
    /\ Up /\ vol.loop = "wait"
    /\ vol.nudge \/ ~eventsDriving \/ CertDue
    /\ vol' = [vol EXCEPT !.loop = "due", !.nudge = FALSE]
    /\ UNCHANGED <<op, content, request, remove, dir, saved>>
    /\ UNCHANGED worldVars

RefreshRead ==
    /\ Up /\ vol.loop = "due" /\ op = "free"
    /\ IF Allowed
          THEN op' = "loop" /\ content' = Render /\ UNCHANGED vol
          ELSE vol' = [vol EXCEPT !.loop = "wait", !.err = TRUE] /\ UNCHANGED <<op, content>>
    /\ UNCHANGED <<request, remove, dir, saved>>
    /\ UNCHANGED worldVars

RefreshApply ==
    /\ op = "loop"
    /\ op' = "free" /\ Apply
    /\ vol' = [vol EXCEPT !.loop = "wait", !.err = FALSE]
    /\ UNCHANGED <<content, request, remove, saved>>
    /\ UNCHANGED worldVars

RefreshFails ==
    /\ op = "loop"
    /\ Fault
    /\ op' = "free"
    /\ ApplyPartly
    /\ vol' = [vol EXCEPT !.loop = "wait", !.err = TRUE]
    /\ UNCHANGED <<content, request, remove, store, saved, watch, heard, vaultToken, missed, changes>>

\* A cancelled render stops while it reads, or writes to the end.
StaleEnds ==
    /\ op = "stale"
    /\ op' = "free"
    /\ dir' \in {dir, content}
    /\ UNCHANGED <<vol, content, request, remove, saved>>
    /\ UNCHANGED worldVars

-----------------------------------------------------------------------------
(***************************************************************************)
(* Vault, its events and the daemon's life.                                *)
(***************************************************************************)
Change(p) ==
    /\ changes < MaxChanges
    /\ changes' = changes + 1
    /\ store' = [store EXCEPT ![p] = @ + 1]
    /\ heard' = (heard \/ (p = "kv" /\ watch = "live"))
    /\ UNCHANGED <<watch, vaultToken, missed, faults>>
    /\ UNCHANGED volumeVars

\* Mutant: an event that meets a first mount at work is ignored.
DispatchLoopOnly ==
    /\ heard
    /\ heard' = FALSE
    /\ vol' = [vol EXCEPT !.nudge = @ \/ (vol.loop # "off" /\ "kv" \in vol.spec)]
    /\ UNCHANGED <<op, content, request, remove, dir, store, saved, watch, vaultToken, missed, changes, faults>>

\* consume, dispatch
Dispatch ==
    /\ heard
    /\ heard' = FALSE
    /\ vol' = IF ~vol.known \/ "kv" \notin vol.spec THEN vol
              ELSE IF vol.loop # "off" THEN [vol EXCEPT !.nudge = TRUE]
              ELSE [vol EXCEPT !.pending = @ \/ Populating]
    /\ UNCHANGED <<op, content, request, remove, dir, store, saved, watch, vaultToken, missed, changes, faults>>

\* runWatcher: the edition, once there is a token and Vault answers.
LearnEdition ==
    /\ watch = "probing" /\ vaultToken
    /\ watch' \in {"community", "lost"}
    /\ UNCHANGED <<store, heard, vaultToken, missed, changes, faults>>
    /\ UNCHANGED volumeVars

\* A subscription connects: everything that has a loop renders again.
StreamConnected ==
    /\ watch = "lost" /\ vaultToken
    /\ watch' = "live"
    /\ vol' = [vol EXCEPT !.nudge = @ \/ vol.loop # "off"]
    /\ missed' = (missed \/ Populating)
    /\ UNCHANGED <<op, content, request, remove, dir, store, saved, heard, vaultToken, changes, faults>>

StreamLost ==
    /\ watch = "live"
    /\ Fault
    /\ watch' = "lost" /\ heard' = FALSE
    /\ UNCHANGED <<store, vaultToken, missed, changes>>
    /\ UNCHANGED volumeVars

TokenLost ==
    /\ vaultToken /\ Up
    /\ Fault
    /\ vaultToken' = FALSE
    /\ UNCHANGED <<store, watch, heard, missed, changes>>
    /\ UNCHANGED volumeVars

TokenBack ==
    /\ ~vaultToken
    /\ vaultToken' = TRUE
    /\ UNCHANGED <<store, watch, heard, missed, changes, faults>>
    /\ UNCHANGED volumeVars

\* The daemon stops, or dies; what it renders at that moment may be half done.
Down ==
    /\ Up
    /\ Fault
    /\ watch' = "down" /\ heard' = FALSE
    /\ IF op = "free" THEN UNCHANGED dir ELSE ApplyPartly
    /\ op' = "free" /\ vol' = NoVolume
    /\ request' = [c \in Containers |-> Silent] /\ remove' = "idle"
    /\ UNCHANGED <<content, store, saved, vaultToken, missed, changes>>

\* What is still mounted gets its loop back, everything else is deleted.
Resume(v) ==
    IF v.known /\ v.mounts # {}
       THEN vol' = StartLoop(v, TRUE) /\ UNCHANGED dir
       ELSE vol' = v /\ dir' = NoDir

\* New, load and Run of the next daemon.
Restart ==
    /\ watch = "down"
    /\ watch' = "probing"
    /\ Resume(saved)
    /\ UNCHANGED <<op, content, request, remove, store, saved, heard, vaultToken, missed, changes, faults>>

-----------------------------------------------------------------------------
\* Handler: what the engine may ask for.
EngineRequests ==
    \/ \E spec \in Specs : Create(spec)
    \/ RemoveVolume
    \/ \E c \in Containers : MountStart(c) \/ Unmount(c)

DockerNext ==
    \/ EngineRequests
    \/ RemoveWipe
    \/ \E c \in Containers :
          \/ MountLock(c) \/ MountRead(c) \/ MountApply(c)
          \/ MountFails(c) \/ MountRegister(c) \/ UnmountWipe(c)
    \/ LoopWakes \/ RefreshRead \/ RefreshApply \/ RefreshFails \/ StaleEnds
    \/ \E p \in Parts : Change(p)
    \/ Dispatch \/ LearnEdition \/ StreamConnected \/ StreamLost \/ TokenLost \/ TokenBack
    \/ Down \/ Restart

DockerFairness ==
    /\ WF_dockerVars(LoopWakes) /\ WF_dockerVars(RefreshApply) /\ WF_dockerVars(StaleEnds)
    /\ SF_dockerVars(RefreshRead)
    /\ WF_dockerVars(Dispatch) /\ WF_dockerVars(TokenBack) /\ WF_dockerVars(StreamConnected)
    /\ \A c \in Containers : WF_dockerVars(MountRead(c)) /\ WF_dockerVars(MountApply(c))
                             /\ WF_dockerVars(MountRegister(c))

DockerSpec == DockerInit /\ [][DockerNext]_dockerVars

-----------------------------------------------------------------------------
\* The directory of a container that holds the volume is never taken away
\* (Mount's and wipe's locking in driver.go).
KeptWhileMounted ==
    [][dir # NoDir /\ dir' = NoDir => ~vol'.known \/ vol'.mounts = {}]_dockerVars

\* No secret stays on disk for nobody: a volume without mounts that nobody works
\* on has no directory, unless a first mount failed halfway through its writes.
NothingLeft ==
    Up /\ vol.mounts = {} /\ op = "free" /\ remove = "idle"
       /\ (\A c \in Containers : request[c] = Silent)
    => dir \in {NoDir, Broken}

\* A mounted volume does not stay behind Vault without saying so: it shows what
\* is stored, or its status has the error of the refresh that failed.  Exempt is
\* a first mount that was rendering when the watcher connected, which nudgeAll
\* passes over, or when the last other container left.
NotSilentlyStale == DockerFairness =>
    (Up /\ vol.known /\ vol.mounts # {} /\ ~Shown)
        ~> (Shown \/ vol.err \/ vol.mounts = {} \/ ~vol.known \/ missed)
=============================================================================
