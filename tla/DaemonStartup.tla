---------------------------- MODULE DaemonStartup ----------------------------
(***************************************************************************)
(* How the daemon comes by its first token and hands the watches on the    *)
(* token file and the peer sockets to the lifecycle manager: runDaemon and *)
(* waitForHeadlessToken in cmd/dotvault/main.go, auth.Manager, the deny    *)
(* list and the token-file watcher (internal/auth, internal/tokenwatch).   *)
(* Once it runs, the manager's reload is one step here: TokenLifecycle     *)
(* takes it apart.                                                         *)
(***************************************************************************)
EXTENDS Integers

CONSTANTS
    Tokens,     \* Vault tokens
    MaxChanges, \* writes of the file, changes of the peers and of Vault's verdicts
    MaxOutages  \* lookups that fail without a verdict

ASSUME StartupAssumption == MaxChanges \in Nat /\ MaxOutages \in Nat

VARIABLES
    mode,      \* "idle": headless or borrow_only; "login": a flow of its own; "certos": mtls+os
    stage,     \* where runDaemon is
    trial,     \* the candidate on the client whose lookup is under way
    onClient,  \* the client's token
    denied,    \* the deny list
    sink,      \* where peerChanged leads: "none", "idle", "manager"
    watch,     \* who the token-file watch calls: "none", "idle", "manager"
    queued,    \* the watch holds an event that its goroutine has not read
    wake,      \* the idle loop's wake channel is full
    reload,    \* the manager's reload channel is full
    signalled, \* the manager has found its token dead
    tokenFile, offered, \* what the file holds and what a peer lends
    accepted,  \* the tokens Vault accepts
    lastRead,  \* what the last read of the file returned
    validated, \* tokens a lookup of this process has accepted
    changes, outages

startupVars == <<mode, stage, trial, onClient, denied, sink, watch, queued, wake, reload, signalled,
                 tokenFile, offered, accepted, lastRead, validated, changes, outages>>

world == <<mode, tokenFile, offered, accepted, changes, outages>>

NoToken == "none"

Candidates == Tokens \cup {NoToken}

StartupInit ==
    /\ mode \in {"idle", "login", "certos"}
    /\ stage = "down" /\ trial = NoToken /\ onClient = NoToken /\ denied = {}
    /\ sink = "none" /\ watch = "none" /\ queued = FALSE /\ wake = FALSE
    /\ reload = FALSE /\ signalled = FALSE
    /\ tokenFile \in Candidates /\ offered \in Candidates /\ accepted \in SUBSET Tokens
    /\ lastRead = NoToken /\ validated = {}
    /\ changes = 0 /\ outages = 0

\* effectivePersistTokenAtRest: whether the file is a source at all
Persisted == mode # "certos"

\* The stages in which the lifecycle manager runs.
Managed == {"register", "reconcile", "publish", "sync", "serving"}

-----------------------------------------------------------------------------
(***************************************************************************)
(* Trying a candidate: SetToken, LookupSelf, and back if it is refused.    *)
(***************************************************************************)
Present(t) ==
    /\ trial' = t /\ onClient' = t
    /\ UNCHANGED stage

\* Where a stage goes on after a lookup that failed.
AfterFailure ==
    CASE stage = "reuse" -> "borrow" [] stage = "borrow" -> "keyless"
      [] stage = "file" -> "peers" [] OTHER -> "wait"

\* NoteRejection: only a verdict on the token is remembered.
NoteRejection(t, verdict) == IF verdict = "rejected" THEN denied \cup {t} ELSE denied

\* waitForHeadlessToken returns: its deferred calls withdraw the wake and end
\* the watch.
LeaveIdle ==
    /\ sink' = "none" /\ watch' = "none" /\ queued' = FALSE /\ wake' = FALSE

\* Mutant: a refused candidate stays on the client.
Keep(t) == t

\* SetToken(previous): every stage starts its trials without a token.
Restore(t) == NoToken

LookupSelf(verdict) ==
    \/ /\ verdict = "ok" /\ trial \in accepted
       /\ UNCHANGED outages
    \/ /\ verdict = "rejected" /\ trial \notin accepted
       /\ UNCHANGED outages
    \/ /\ verdict = "error" /\ outages < MaxOutages
       /\ outages' = outages + 1

Answer ==
    /\ trial # NoToken
    /\ \E verdict \in {"ok", "rejected", "error"} :
        /\ LookupSelf(verdict)
        /\ trial' = NoToken
        /\ denied' = NoteRejection(trial, verdict)
        /\ IF verdict = "ok"
              THEN /\ validated' = validated \cup {trial}
                   /\ stage' = IF stage \in {"reuse", "borrow"} THEN "keyless" ELSE "lifecycle"
                   /\ UNCHANGED onClient
              ELSE /\ onClient' = Restore(trial)
                   /\ stage' = AfterFailure
                   /\ UNCHANGED validated
        /\ IF verdict = "ok" /\ stage \in {"file", "peers"} THEN LeaveIdle
                                                           ELSE UNCHANGED <<sink, watch, queued, wake>>
    /\ UNCHANGED <<mode, reload, signalled, tokenFile, offered, accepted, lastRead, changes>>

-----------------------------------------------------------------------------
(***************************************************************************)
(* runDaemon up to the first token.                                        *)
(***************************************************************************)
Start ==
    /\ stage = "down"
    /\ stage' = "reuse"
    /\ UNCHANGED <<trial, onClient, denied, sink, watch, queued, wake, reload, signalled, lastRead,
                   validated, world>>

\* A token of the file, unless the method keeps none there.
Reuse ==
    /\ stage = "reuse" /\ trial = NoToken
    /\ IF Persisted /\ tokenFile # NoToken THEN Present(tokenFile)
                                           ELSE stage' = "borrow" /\ UNCHANGED <<trial, onClient>>
    /\ UNCHANGED <<denied, sink, watch, queued, wake, reload, signalled, lastRead, validated, world>>

Borrow ==
    /\ stage = "borrow" /\ trial = NoToken
    /\ IF offered # NoToken THEN Present(offered)
                            ELSE stage' = "keyless" /\ UNCHANGED <<trial, onClient>>
    /\ UNCHANGED <<denied, sink, watch, queued, wake, reload, signalled, lastRead, validated, world>>

\* RunKeyless, after the listeners are up.
Keyless ==
    /\ stage = "keyless"
    /\ stage' = IF onClient = NoToken THEN "auth" ELSE "lifecycle"
    /\ UNCHANGED <<trial, onClient, denied, sink, watch, queued, wake, reload, signalled, lastRead,
                   validated, world>>

\* auth.Manager or the web login: a person or a certificate gets a token, which
\* is written to the file unless the method keeps none; or startup fails.
Login ==
    /\ stage = "auth" /\ mode # "idle"
    /\ \/ \E t \in accepted :
             /\ onClient' = t /\ validated' = validated \cup {t}
             /\ tokenFile' = IF Persisted THEN t ELSE tokenFile
             /\ stage' = "lifecycle"
       \/ stage' = "down" /\ UNCHANGED <<onClient, validated, tokenFile>>
    /\ UNCHANGED <<mode, trial, denied, sink, watch, queued, wake, reload, signalled, offered,
                   accepted, lastRead, changes, outages>>

\* waitForHeadlessToken publishes its wake,
EnterIdle ==
    /\ stage = "auth" /\ mode = "idle"
    /\ sink' = "idle"
    /\ stage' = "watch"
    /\ UNCHANGED <<trial, onClient, denied, watch, queued, wake, reload, signalled, lastRead,
                   validated, world>>

\* registers the watch, if the platform has one, and only then reads.
WatchFile ==
    /\ stage = "watch"
    /\ watch' \in {"idle", "none"}
    /\ stage' = "file"
    /\ UNCHANGED <<trial, onClient, denied, sink, queued, wake, reload, signalled, lastRead,
                   validated, world>>

\* adopt: whether a candidate is worth a lookup, given the refusals in force
Worth(t, refused) == t # NoToken /\ t # onClient /\ t \notin refused

TryFile ==
    /\ stage = "file" /\ trial = NoToken
    /\ lastRead' = tokenFile
    /\ IF Worth(tokenFile, denied) THEN Present(tokenFile)
                           ELSE stage' = "peers" /\ UNCHANGED <<trial, onClient>>
    /\ UNCHANGED <<denied, sink, watch, queued, wake, reload, signalled, validated, world>>

TryPeers ==
    /\ stage = "peers" /\ trial = NoToken
    /\ IF Worth(offered, denied) THEN Present(offered)
                         ELSE stage' = "wait" /\ UNCHANGED <<trial, onClient>>
    /\ UNCHANGED <<denied, sink, watch, queued, wake, reload, signalled, lastRead, validated, world>>

Woken ==
    /\ stage = "wait" /\ wake
    /\ wake' = FALSE
    /\ stage' = "file"
    /\ UNCHANGED <<trial, onClient, denied, sink, watch, queued, reload, signalled, lastRead,
                   validated, world>>

\* Mutant: the idle waits for a wake alone.
TickOnce ==
    /\ stage = "wait" /\ wake
    /\ stage' = "file"
    /\ UNCHANGED <<trial, onClient, denied, sink, watch, queued, wake, reload, signalled, lastRead,
                   validated, world>>

\* The ten-second ticker
Tick ==
    /\ stage = "wait"
    /\ stage' = "file"
    /\ UNCHANGED <<trial, onClient, denied, sink, watch, queued, wake, reload, signalled, lastRead,
                   validated, world>>

-----------------------------------------------------------------------------
(***************************************************************************)
(* The handover to the lifecycle manager.                                  *)
(***************************************************************************)
Lifecycle ==
    /\ stage = "lifecycle"
    /\ stage' = "register"
    /\ UNCHANGED <<trial, onClient, denied, sink, watch, queued, wake, reload, signalled, lastRead,
                   validated, world>>

Register ==
    /\ stage = "register"
    /\ \/ watch' = "none" /\ stage' = "publish"
       \/ Persisted /\ watch' = "manager" /\ stage' = "reconcile"
    /\ UNCHANGED <<trial, onClient, denied, sink, queued, wake, reload, signalled, lastRead,
                   validated, world>>

\* Mutant: what came before the watch is nobody's.
NoReconcile ==
    /\ stage = "reconcile"
    /\ stage' = "publish"
    /\ UNCHANGED <<trial, onClient, denied, sink, watch, queued, wake, reload, signalled, lastRead,
                   validated, world>>

\* onTokenChange once, for a token that came during startup
Reconcile ==
    /\ stage = "reconcile"
    /\ reload' = TRUE
    /\ stage' = "publish"
    /\ UNCHANGED <<trial, onClient, denied, sink, watch, queued, wake, signalled, lastRead, validated, world>>

Publish ==
    /\ stage = "publish"
    /\ sink' = "manager"
    /\ stage' = "sync"
    /\ UNCHANGED <<trial, onClient, denied, watch, queued, wake, reload, signalled, lastRead,
                   validated, world>>

\* The first cycle, after which the daemon reports that it is ready.  A daemon with a
\* browser surface and nothing enrolled first waits for its user, which WebEnrol
\* models (WaitForEnrolments); here there is none, or something is enrolled.
FirstSync ==
    /\ stage = "sync"
    /\ stage' = "serving"
    /\ UNCHANGED <<trial, onClient, denied, sink, watch, queued, wake, reload, signalled, lastRead,
                   validated, world>>

\* tryReload: the file, then the peers.
Acquire(refused) ==
    LET usable(t) == Worth(t, refused) /\ t \in accepted
        ondisk == IF Persisted THEN tokenFile ELSE NoToken
    IN /\ lastRead' = IF Persisted THEN tokenFile ELSE lastRead
       /\ onClient' = IF usable(ondisk) THEN ondisk ELSE IF usable(offered) THEN offered ELSE onClient
       /\ denied' = refused \cup {t \in {ondisk} \cup (IF usable(ondisk) THEN {} ELSE {offered}) :
                                     Worth(t, refused) /\ t \notin accepted}
       /\ validated' = validated \cup ({onClient'} \ {NoToken})
       /\ signalled' = (onClient' \notin accepted)

\* A nudge forgets the refusals first.
Reload ==
    /\ stage \in Managed /\ reload
    /\ reload' = FALSE
    /\ Acquire({})
    /\ UNCHANGED <<stage, trial, sink, watch, queued, wake, world>>

\* The manager's own check finds its token dead, and its recovery poll.
Recover ==
    /\ stage \in Managed /\ onClient \notin accepted
    /\ Acquire(denied)
    /\ UNCHANGED <<stage, trial, sink, watch, queued, wake, reload, world>>

-----------------------------------------------------------------------------
(***************************************************************************)
(* Watches, and the world they watch.                                      *)
(***************************************************************************)

\* notify of the idle loop, which forgets the refusals, or lm.Reload
Notify(who) ==
    /\ denied' = IF who = "idle" THEN {} ELSE denied
    /\ wake' = (wake \/ who = "idle")
    /\ reload' = (reload \/ who = "manager")

\* The watcher's goroutine reads the queue that the kernel has kept since the
\* watch was registered.
WatchFires ==
    /\ queued
    /\ queued' = FALSE
    /\ Notify(watch)
    /\ UNCHANGED <<stage, trial, onClient, sink, watch, signalled, lastRead, validated, world>>

\* `dotvault login` or anybody writes a token; a removal is not an event.
FileWritten ==
    /\ changes < MaxChanges /\ changes' = changes + 1
    /\ tokenFile' \in Candidates \ {tokenFile}
    /\ queued' = (queued \/ (watch # "none" /\ tokenFile' # NoToken))
    /\ UNCHANGED <<mode, stage, trial, onClient, denied, sink, watch, wake, reload, signalled,
                   offered, accepted, lastRead, validated, outages>>

\* A socket comes or goes; the pool's watcher calls what is published, and the
\* manager listens only while it needs a token.
PeerChanges ==
    /\ changes < MaxChanges /\ changes' = changes + 1
    /\ offered' \in Candidates \ {offered}
    /\ Notify(IF sink = "manager" /\ ~signalled THEN "none" ELSE sink)
    /\ UNCHANGED <<mode, stage, trial, onClient, sink, watch, queued, signalled, tokenFile,
                   accepted, lastRead, validated, outages>>

VaultChanges ==
    /\ changes < MaxChanges /\ changes' = changes + 1
    /\ \E t \in Tokens : accepted' = IF t \in accepted THEN accepted \ {t} ELSE accepted \cup {t}
    /\ UNCHANGED <<mode, stage, trial, onClient, denied, sink, watch, queued, wake, reload,
                   signalled, tokenFile, offered, lastRead, validated, outages>>

\* DenyProbeInterval passes.
DenialLapses(t) ==
    /\ t \in denied
    /\ denied' = denied \ {t}
    /\ UNCHANGED <<stage, trial, onClient, sink, watch, queued, wake, reload, signalled, lastRead,
                   validated, world>>

\* The process ends, at any moment.
Stops ==
    /\ stage # "down"
    /\ stage' = "down" /\ trial' = NoToken /\ onClient' = NoToken /\ denied' = {}
    /\ sink' = "none" /\ watch' = "none" /\ queued' = FALSE /\ wake' = FALSE
    /\ reload' = FALSE /\ signalled' = FALSE /\ lastRead' = NoToken /\ validated' = {}
    /\ UNCHANGED world

Progress ==
    \/ Answer \/ Reuse \/ Borrow \/ Keyless \/ EnterIdle \/ WatchFile \/ TryFile \/ TryPeers
    \/ Lifecycle \/ Register \/ Reconcile \/ Publish \/ FirstSync

StartupNext ==
    \/ Start \/ Login \/ Progress \/ Woken \/ Tick \/ Reload \/ Recover \/ WatchFires
    \/ FileWritten \/ PeerChanges \/ VaultChanges \/ (\E t \in Tokens : DenialLapses(t)) \/ Stops

\* A process that runs goes on, its ticker fires and time passes.  A login needs
\* somebody.
StartupFairness ==
    /\ WF_startupVars(Progress) /\ WF_startupVars(Tick)
    /\ \A t \in Tokens : WF_startupVars(DenialLapses(t))

StartupSpec == StartupInit /\ [][StartupNext]_startupVars /\ StartupFairness

-----------------------------------------------------------------------------
\* A token written while the daemon starts is not overlooked, across the two
\* watches and the gap between them: once the first read is over, a daemon that
\* watches the file has read what is there or has the news on its way
\* (tokenwatch.New before tryAcquire, onTokenChange after the second New).
WriteNoticed ==
    watch # "none" /\ stage \in {"wait", "publish", "sync", "serving"} /\ tokenFile # NoToken =>
        lastRead = tokenFile \/ queued \/ wake \/ reload

\* A candidate that was not confirmed is never what the daemon goes on with: the
\* client's token, but for a trial under way, is one that a lookup of this
\* process has accepted (adopt, the reuse check and the startup borrow).
OnlyConfirmed ==
    trial = NoToken => onClient \in validated \cup {NoToken}

\* A headless daemon does not idle beside a token it could use, also when Vault
\* refused that token before (the ticker and the lapse of a refusal).
StartsUp ==
    <>[](stage # "down" /\ mode = "idle" /\ tokenFile \in accepted) => <>(stage = "serving")

\* What startup does with tokens in every state.
StartupSound == WriteNoticed /\ OnlyConfirmed

\* Under the fairness of the process and its ticker, an idle daemon starts up.
StartupServes == StartupFairness => StartsUp
=============================================================================
