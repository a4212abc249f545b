# dotvault: TLA+ specifications and proofs

dotvault keeps files in a user's home directory in step with secrets in a
HashiCorp Vault KVv2 mount. A per-user daemon logs in, keeps its token alive,
renders each configured rule into its target file, offers a web UI, serves an
ssh-agent, forwards its sockets to remote hosts over SSH and borrows tokens from
peer daemons over those sockets. This directory models the parts of the daemon
whose correctness depends on orderings: which goroutine, process or user edit
comes first, what a crash leaves behind, and what a retry finds.

## 1. Inventory

| Component | State | Operations | What is hard |
|---|---|---|---|
| Sync engine (`internal/sync`) | rules, `state.json`, target files | a cycle over the rules, one rule by path, keyless rules, config swap and prune | users edit targets between read, write and checksum; crashes between write and save; two processes |
| Sync loop (`runLoopAfterInitial`) | subscription, backoff, ticker | tick, trigger, event, error, reconnect | stale channels, missed events, a spinning reconnect |
| Token lifecycle (`internal/auth/lifecycle.go`, `denylist.go`) | client token, denylist, re-auth flag, flux gate, two one-slot channels | check, renew, reload candidates, recover, signal re-auth | four writers of one client token; a verdict applied to another actor's token |
| Peer pool (`internal/peer`) | sockets of a watched directory, newest-first order | resolve, borrow, evict, broadcast, watch | sockets that come and go during a call |
| Change notices (`internal/events`, `internal/peer/events.go`) | hub subscribers, table of versions seen | announce, relay, fan out, re-announce | echoes round a mesh, lost and overtaken notices |
| Token watcher, gate, login suppression | pending event, gate state, marker file | watch, wait, `login-check` | lost wakeups, a gate that never clears, shells that ask again |
| SSH forwards (`internal/sshfwd`) | `ssh.yaml`, running remotes, one goroutine each, the remote socket | add with verification, patch, remove, resync, reconcile, dial, bind, serve, close | teardown racing reconnect; a pin used after it was replaced; removing somebody else's socket |
| Credential refresh (`internal/enrol/refresh.go`) | per key: backoff, version last seen, mark of a rejected version | tick, peek during backoff, rotate, wipe, reload | several hosts share single-use refresh tokens; a rejection applied to another credential or configuration |
| Enrolment (`internal/enrol`, `web/enrol_runner.go`) | per-key status, prompts, triggers, dedup marks, backoffs | start, skip, reset, answer, wait, watch, copy | a reload under a running engine; an event between a mark and a read |
| Client certificates (`internal/clientcert/source`, `auth/mtls*.go`) | sealed credential, pending revocations, single flight, cache | bootstrap, rotate, retire, issue, hold | crash between two steps of a rotation; a token replaced under a request |
| SSH agent (`internal/agent`) | identity cache, owners, certificate, endpoints | list, sign, add, remove | endpoints and tokens that go away during a call |
| Docker volume plugin (`internal/dockervol`) | volumes, mounts, refresh loops, saved state | create, mount, unmount, remove, refresh, resume | a wipe racing a mount; a restart; a loop that is not told |
| Vault file system (`internal/vaultfs`) | handles, buffers and their budget, cache | open, read, write, truncate, flush, unlink, release | accounting over every order of calls; a stale cache |
| Format handlers (`internal/handlers`) | none | read, merge, write for six formats | merging without losing the user's keys |
| Configuration (`internal/config`, `remoteconfig`, `regfile`) | layered files, last good remote copy | load, overlay, refresh | a bad remote copy replacing a good one |
| Web server (`internal/web`) | login sessions, wizard, editor, event subscribers | login, paste, edit, enrol, stream | logins that end late; concurrent edits of one secret (check-and-set) |
| Vault client (`internal/vault`) | token, addresses | KV read, write with cas, lookup, renew | shared token |
| Start-up and sockets (`cmd/dotvault/main.go`, `internal/uds`) | stages, watches, inherited and bound sockets | start, idle wait, hand-over, bind, adopt, exit | a token that appears between two watches; two daemons on one path |
| Rest: secure store, notifications, observability, clipboard, tray, paths, proxies, CLI, Go and Python clients | mostly none | I/O | not ordering-dependent |

The components meet in four places. The sync engine, the agent, the forwards and
the web server share one Vault client and its token. The lifecycle manager
replaces that token and raises a gate while it does. The watcher, the peers and
the web server nudge the manager through a one-slot channel. Target files and
`state.json` are shared with the user and with a one-shot `dotvault sync`.

What makes each component correct:

- sync engine: nothing stale is skipped, the user's own text survives, every
  rule that can be rendered ends up in its target, the daemon comes to rest;
- sync loop: one reconnect at a time, no busy loop, every write is caught up with;
- token lifecycle: an unvalidated token is never seen through the gate, Vault is
  not asked again about a token it rejected, a working token within reach is
  adopted in the end, reports speed checks up without starving or flooding;
- peer pool: a healthy socket stays in rotation unless it was asked by a caller whose
  own context was done, a ready peer is found by one that has time;
- notices: everyone who can be reached syncs, notices do not circulate;
- SSH forwards: one connection per host, none after shutdown, only confirmed
  host keys stored, the running set follows the file, a reachable host is served;
- credential refresh: nothing that still works is wiped, nothing rejected is
  presented again, what is about to expire is rotated or wiped;
- enrolment: what is written is what the engine acquired for the enrolment that
  is configured, waiting ends, copies follow their sources, no event is swallowed;
- login: a login meant for a certificate bootstrap never becomes the daemon's own
  token, and every login ends;
- client certificates: no certificate in use is revoked, rotations that succeed one
  after the other forget none that was issued, requests are spaced and answered;
- agent: every call is answered in bounded time;
- volumes: a directory in use stays, nothing is left for nobody, nothing is stale
  without an error; file system: every booked byte is in a buffer or was put there by a
  truncate that came after the release;
- secret editor: it behaves as one atomic cell, and never retypes a field;
- format handlers: the template's keys arrive, everything else stays, a second
  merge changes nothing (but for disagreements 5 and 6);
- configuration: what is loaded comes from the service named, and is applied;
- start-up: no token written meanwhile is overlooked, nothing unconfirmed is used;
- sockets: nobody binds over a live daemon, no client hangs in a backlog.

## 2. Modules

Every module models control in full (guards, early returns, error paths and
their order) and data only as far as the properties tell it apart. Steps between
which the code holds no lock, or waits for Vault, a peer, an SSH server or a
timer, are separate actions. Operations of the environment are bounded by named
budgets (`Budget`, `MaxDisturbances`, `MaxWrites`...); within a budget they
happen in any order and at any time.

**SyncEngine** (`internal/sync/engine.go`, `state.go`). A process goes through
`pc`: *idle*, *gate* (read the secret, decide whether to skip), *merge* (read and
parse the target), *write*, *record* (checksum the target, update the entry),
*save* (`state.json`). `Cycle(p)` is the sum of these steps; `RunTick`,
`RunTriggered`, `RunKeyless` and `SyncRuleByPath` start a cycle over different
sets of rules; `UpdateConfig` swaps the rules and `PruneAndTrigger` is what it
does after the lock is released. `Vault(k)` writes, soft-deletes or destroys a
secret, `User(f)` edits, deletes or changes the mode of a target, `Stop(p)` kills
a process between any two steps. A file is the value of each rule's managed
region, a revision of the user's text and whether it parses.

**EventLoop** (`RunLoop`, `runLoopAfterInitial`, `internal/vault/events.go`). The
`select` is one action per case (`OnTick`, `OnTrigger`, `OnNudge`, `OnEvent`,
`OnEventClosed`, `OnErr`, `OnReconnect`, `OnDone`); a subscription is a reader and
a filter goroutine with two bounded channels. A sync cycle is abstracted to the
version it has read.

**TokenLifecycle** (`internal/auth/lifecycle.go`, `denylist.go`,
`internal/web/ui_login.go`, `ForceReauth`). The goroutine's `pc` follows
`checkAndRenew` (*check, lookup, renew, settle*) and `tryReload` (*gather, try,
verdict, restore, adopted, failed*). A lookup presents whatever token is on the
shared client at that moment. Web handlers paste, look up, put back and write.

**LifecycleSchedule** has the same goroutine's clock: the timer, out-of-cycle
checks, the compare-and-swap limit of `NotifyRejected` step by step, both
backoffs. What a cycle finds is arbitrary there, and when a cycle comes is
arbitrary in TokenLifecycle, so each over-approximates the other.

**PeerPool** (`internal/peer/pool.go`, `transport.go`): snapshot under the lock,
dial without it, evict under it again; sockets are created, hang, die and are
replaced in between; the watcher's events are delivered late. A caller has a deadline
of its own (`Patience`: longer than one fetch, or shorter than two), which the members
asked before use up; once it has passed (`Spent`), the next member fails without being asked
(`CutShort`), and its eviction follows.

**NoticeMesh** (`internal/events`, `internal/peer/events.go`,
`cmd/dotvault/secretevents.go`): a node's deduplication table, its streams and
the three things its relay does with a notice (sync, ask other peers, announce).

**SSHForward** (`internal/sshfwd`). `Registry` operations hold `txMu` as `tx`
(load, save, reconcile in three phases); `Add` verifies outside it, so its steps
are `call[c]`. `runner[i]` is the goroutine of a `ManagedRemote` (dial, probe,
unlink, bind, serve, back off), `relay` one forwarded connection, `socket` the
path on the remote that other sessions use too. Hosts interact only through
`txMu`, so one host is modelled.

**EnrolRefresh** (`internal/enrol/refresh.go`, with the writes of
`manager.go`/`wizard.go`). One enrolment, several daemons. A tick is *read* (or
*peek* during backoff), then *wipe*, *delete* or *present*, *rejected*, *write*;
each is separated from the next by a call to Vault, to the provider or by the
lock. `secret.made` is the creation time that `revokedMark` compares beside the
version; `live` is the provider's view; `Reload` is `UpdateConfig`.

**DockerVolume** (`internal/dockervol`). `op` is who holds the volume's `opMu`
(a call, the refresh loop, a cancelled loop); `call[c]` and `remove` are requests
of the engine in progress, `dir` what is on disk, `saved` the state file that
`Restart` loads; `watch` is the event watcher.

**VaultFS** (`internal/vaultfs`). Handles of several processes on one document,
with their buffers, the mount's byte budget and the cache; a flush is a step that
writes Vault and one that answers, and anyone else may write Vault in between.
`Setattr` without a handle collects the writable ones and `Truncate` reaches them one
by one, also after `Release`; `Forget` is the end of the last reference, and `lost`
counts the bytes that nobody will return.

**SSHAgent** (`internal/agent`). A client's `List`, `Sign` or mutation as the
steps between its waits and calls: the gate, the cache, the CA certificate, the
upstream endpoints.

**SecretEditor**, **AtomicSecret** (`internal/web/secretedit.go`,
`ui_secret_edit.go`, `kvpath`, `cmd/dotvault/kv.go`). Tabs show a document, edit a
field, replace, create or delete; a save reads, applies and writes with
check-and-set. `cli` is a `dotvault kv patch`: its read, its write, and the read
it goes back to when it loses a race. A command runs in behaviours of its own,
from any document, where pages are among the other writers.
`ImplementsAtomic` is the refinement of AtomicSecret, a cell with a version whose
writes take effect at one moment or not at all; a tab's view maps to the version
it was read from.

**WebLogin** (`internal/auth/login.go`, `internal/web/ui_login.go`, `auth.go`,
`bootstrap.go`). LDAP sessions with push or TOTP, OIDC callbacks, pasted tokens,
the bootstrap that waits for a login and is served or fails with the daemon's start
(`BootstrapFails`; it has no timeout and a process begins one at most), `ForceReauth`.

**WebEnrol** (`internal/web/enrol_runner.go`, `ui_enrol.go`, `ui_setup.go`, the
wait in `runDaemon`). One runner with a goroutine per engine, reloads deferred while
one runs, the pages that open and close the wizard, also before there is a runner
(`admitted` is then *early*). There is one prompt: `ShowsForm(k)` says which cards offer
it, and `AnswerPrompt(k, e)` gives what was typed on card `k` to the engine `e` that
waits, as the handler does, which uses the form's key only to redirect.

**CertRotation** (`internal/auth/mtls.go`, `mtls_envelope.go`, `securestore`).
The steps of `authenticateMTLS` and `reissue` with a failure or a crash at each.
`SaveCredential` writes an envelope without a backlog; after a rotation `Retire` and
`PersistPending` add it, after a new credential `KeepBacklog` writes nothing, because
the code compares the list with itself. `disturbed` records that a rotation overtook
another, that a list was cut at its cap or that a new credential replaced an old one.

**ClientCertSource** (`internal/clientcert/source`, `auth/held.go`,
`tokengate`). The held cache against rotations of the file; the ephemeral
source's flight against replacements of the token and their withdrawal after a failed
trial, with the backoff that doubles with each refusal.

**ConfigReload** (`remoteconfig`, `config`, the refresh loop). A pass fetches or
falls back, overlays, validates and fans out to the consumers.

**DaemonStartup** (`runDaemon`, `waitForHeadlessToken`, `tokenwatch`). The stages
up to the first token and the hand-over of the watches to the manager.

**LoginCheck** (`runLoginCheck`, `loginsuppress`), **EnrolWatch**
(`internal/enrol/watch.go`, `copy.go`), **SocketBind** (`internal/uds` and the
listeners of the API, the agent and the volume plugin), **FileMerge**
(`internal/handlers`, pure operators over all documents of a small size, applied
by one action that merges and writes).

**EnrolEngines** (`internal/enrol/github.go`, `ghp.go`, `jfrog.go`,
`databricks.go`, `Manager.RunOne`). One attempt of one engine and what follows
it: `phase` is where the attempt is (poll, heard, wait, select, mint,
settle, write), `flow` (*enter* while the GitHub engine waits for the Enter key on a
terminal, then *polls*), `channel` and `handlers` are the goroutine of a device flow and the
callbacks that share a buffered channel with it; `kept` is what Vault stores, `provider` the refresh token
that the provider takes next, so that each shape of response (with and without a
new refresh token, with and without an expiry) is told apart over several
rotations.

**PeerMigration** (`cmd/dotvault/peermigrate.go`, with the workstation's
`internal/web/ssh.go`). `job[i]` is the exchange started for the socket with
inode `i` (status, list, patch, confirm); `entry`, `running` and `bound` are a
workstation's file and forward, `node` what lies at the old default path.

`MC*` modules give constants their values and put modules that share no state
into one run: a variable `focus`, chosen by the initial state, names the one that
moves, and the others rest in a fixed initial state. Such a run is the sum of
the runs of its parts. Liveness of a part is then stated as
`XFairness => P`, with the fairness that the part's module defines.
`*Proofs` hold the theorems.

## 3. Runs

Most properties are conjunctions of named parts, defined side by side at the end
of the module.

| Run | Module | Shows |
|---|---|---|
| `sync_safety` | MCSyncEngine | `SyncSound`: types and `SkipSound`, with two rules sharing a target, faults at any step, edits during a merge, a concurrent dry run |
| `sync_live` | MCSyncEngine | `UserTextKept`; `SyncSettles` (`Converges`, `Quiesces`, `StatePruned`) through a crash, a config swap, an edit, a destroyed secret and every way to start a pass |
| `event_loop` | EventLoop | `LoopSound` (`OneAttempt`, `NoSpin`), `LoopRecovers` (`Resubscribes`, `CatchesUp`) |
| `credentials` | MCCredentials: TokenLifecycle, EnrolRefresh | `TokenSound` (`TrialGated`), `NoRepeatedLookup`, `TokenRegained` (`Recovers`) for a desktop and a headless host; `RefreshSound` (`ArmedIsDead`), `WipeSpares`, `RefreshSettles` (`NotAgain`, `Settles`, `Heard`) |
| `limits` | MCLimits: LifecycleSchedule, PeerPool | `ScheduleSound` (`WindowEarned`, `CheckNotStarved`, `DelayEarned`, `RecoverPrompt`), `SchedulePaced` (`NudgesSpaced`, `RecoverPaced`), `PoolSound` (`HealthyStays`, `ServingFound`) |
| `hosts` | MCHosts: SSHForward, DockerVolume | `ForwardSound` (`OneRunner`, `NoneAfterClose`, `PinTrusted`, `Synced`), `ForwardKeeps` (`PinKept`, `ProbeSpares`), `ForwardServes` (`Applied`, `EndsServing`, `CloseReturns`); `NothingLeft`, `KeptWhileMounted`, `NotSilentlyStale` |
| `safety` | MCSafety: SecretEditor, VaultFS, CertRotation, LoginCheck, FileMerge, PeerMigration | `EditorSound` (`ImplementsAtomic`, the refinement, and `RestKept`: `TypesKept`, `PatchSpares`), `MigrationSound` (`SourceKept`, `ConfirmedMoved`), `CertSound` (`EnvelopeUsable`, `RevokedIsGone`, `NoneForgotten`), `FSSound` (`Accounted`, `ReadersUndisturbed`), `QuietAfterCheck`, `MergeSound` (`Surgical`, `Settled`) |
| `web` | MCWeb: WebLogin, WebEnrol, NoticeMesh | `BootstrapStaysOut`, `EnrolSound` (`CompleteIsStored`, `PromptOwned`, `PromptShown`), `WebServes` (`LoginServes`, `EnrolServes`), `MeshInforms` (`FewEchoes`, `Informed`) |
| `daemon` | MCDaemon: SSHAgent, ConfigReload, ClientCertSource, DaemonStartup, EnrolWatch, SocketBind, EnrolEngines | `AgentServes`, `ConfigSound`, `ConfigServes`, `SourceServes` (with `RotationSeen`), `StartupSound`, `StartupServes`, `WatchServes` (with `EventHeeded`), `BindServes` (with `PathKept`), `EnginesSound` (`KeptRefreshable`, `ApprovalSeen`), `EnginesEnd` |
| `fs_own_writes` | VaultFS | violated: `ReadsOwnWrites` |
| `peer_spent` | PeerPool | violated: `OnlyUnreachable` |
| `cert_backlog` | CertRotation | violated: `BacklogPreserved` |

### Findings

1. **A read can undo a write's invalidation** (`vaultfs/tree.go:307`, `fs_own_writes`).
   `Tree.Document` reads Vault and then stores the document in the cache, whether
   or not a `Put` invalidated the path meanwhile. The old document is then served
   until `cache_ttl` runs out, to the writer too.
   `docs/guide/filesystem.md:148` says "a read straight after a write always sees
   what was just written".
2. **A spent caller takes healthy peers out of rotation** (`peer/pool.go:328`,
   `peer_spent`). `Borrow` and `Broadcast` evict on any error, also on that of the
   caller's own context. `tryReload` borrows under 5 seconds with 3 for each peer, so
   after two hung peers the next one is evicted unasked for `EvictProbeInterval`.
   `pool.go:92` says the pool "evicts the unreachable".
3. **A new credential loses the revocation backlog** (`auth/mtls.go:157`,
   `cert_backlog`). The list is assigned in memory before `persistPendingRevocations`
   compares it with what is to be written, so nothing is. `mtls.go:152`: "Any backlog
   the old envelope carried is preserved".

### Further disagreements

The modules also state what the code says of itself in the following places, where
the models show that it does not hold. These properties are in no listed run; each
is checked by a configuration with the specification and constants given, and TLC
finds it violated within seconds.

4. **A truncate after the release keeps its bytes** (`vaultfs/mount_fuse.go:882`).
   `Setattr` without a handle truncates handles that it collected before; one that
   was released meanwhile books its growth for good. `mount_fuse.go:865`:
   "releaseBuffer returns a closed handle's bytes to the budget."
   *VaultFS, `FSSpec`, invariant `BudgetReturned`; two `Procs`, `MaxDocument` 2,
   `MaxBuffered` 3, `MaxVersions` 2.*
5. **A TOML file the handler cannot read back** (`handlers/toml.go:653`).
   `encodeTOML` writes a table inside an element of an array of tables under a
   plain header `[a.b]`; `ensureTable` refuses that on the next read, and every
   later sync of the rule fails, where `docs/configuration/sync-rules.md:76` promises
   "Recursive merge; supports tables, inline tables, and dotted keys".
   *FileMerge, `MergeSpec`, invariant `ReadsBack`; `Olds` {"old"}, `News` {"new"},
   `MaxLines` 3.*
6. **A YAML file the handler cannot read back** (`handlers/yaml.go:217`). A value
   that carries an anchor is replaced although another key refers to it; the alias
   dangles. The comment at `yaml.go:90` knows the corruption, but the check runs
   only for deletions. `docs/configuration/sync-rules.md:73` says "existing keys
   not in incoming data are preserved".
   *FileMerge, `MergeSpec`, invariant `SharedReadsBack`; the same constants.*
7. **A page opened early does not let the daemon go** (`web/ui_setup.go:38`). The
   routes answer before `InitEnrolments`; without a runner nothing is dismissed, and
   the daemon then waits for a wizard the user has passed until another page loads.
   `ui.go:300` says that reaching any page releases it.
   *WebEnrol, `EnrolSpec` (which states the fairness), property `PageReleases`;
   one `Attended`, one `Unattended`, no reload, no wipe.*
8. **An answer can go to another enrolment's engine** (`web/ui_enrol.go:196`).
   After a reload that met a start, the card of the engine that runs offers the
   prompt of the one left behind. `server.go:1380` says of that race that "the
   consequence is a re-runnable enrolment, not corruption".
   *WebEnrol, `EnrolSpec`, property `AnswersOwnCard`; two `Attended`, one
   `Unattended`, one reload, no wipe.*

### Bounds

- *sync*: two or three rules over two targets, so that rules share a target and
  a secret and one fails for ever; two writes, since the gate compares two
  versions; one of each disturbance. One process writes in the passing runs:
  two writers break the gate (section 6).
- *event_loop*: two subscriptions (a stale channel needs an old and a new one),
  channels of one slot (full and empty both occur), one failed dial.
- *token*: three tokens (current, candidate, environment), a denylist of one so
  that eviction happens, one paste, revocation, fault and nudge each.
- *refresh*: two hosts, two disturbances; a version number meets its own past
  self (wipe, re-enrolment, stalled host) within them. Also checked with three.
  `Evidence`, the inductive invariant of the proofs, was checked on this instance
  before it was proved.
- *schedule*: two reporters, intervals in their real order, a horizon of more
  than two recovery backoffs. Reporters are interchangeable: symmetry is used,
  and the run has no liveness property.
- *pool*: two sockets, one watched and one not; two incarnations, three changes,
  inodes that are not reused (section 6), and callers whose own time ends before or after
  the second fetch.
- *notices*: the window is 2 and at most two versions are underway, the case in
  which the table remembers enough.
- *SSH forward*: two concurrent Adds, three kinds of request, two disturbances
  of any kind (request, edit, fault, foreign session, shutdown). The safety
  properties were also checked with three.
- *peer migration*: two workstations (one may take the other's socket path), two
  inode numbers, room for one handled identity so that the table overflows, two
  lost messages or restarts.
- *engines*: an attempt of a few ticks with a deadline between two polls, three
  refresh tokens (stored, current, lost), two failures.
- *Docker volume*: two containers (a wipe must meet the mount of another), one
  change of each part of the volume, one fault.
- *file system*: two processes, documents of up to two bytes, a budget of three
  so that two full buffers exceed it, two versions, one `Setattr` at a time. Processes, and
  the rotators of the certificates, are interchangeable: symmetry is used, and the run
  has no liveness property.
- *certificates*: three certificates (in use, superseded, replacement), room for
  two pending revocations so that the cap is reached, two mishaps.
- *editor*: two tabs, two field names, two writes, two attempts of a patch
  (`kvCASAttempts` is 3): it can lose one race and land; *login check*: two shells, a
  window of two hours in a day of four, two changes of clock or token.
- *handlers*: documents of one old and one new value, nested two deep, every
  format, with and without tombstones; three directives per block; one YAML anchor
  with one alias, at the top or one level down.
- *login*: two pages, three logins, two pastes, one forced re-authentication;
  *enrolment*: two engines that prompt and one that does not, one reload, one
  credential wiped by the refresh manager.
- *daemon*: two clients and endpoints of the agent; two configuration services,
  two edits and a failure; two readers, two rotations and two tokens of the
  certificate sources; two tokens, two changes and an outage during start-up; a
  mirrored secret with a trigger channel of one; three starts of two daemons on
  one path with two mishaps.

### Fairness

Weak fairness is assumed of a goroutine's own steps: Go schedules every runnable
goroutine, and each call it makes has a timeout (the timeouts' outcomes are in
the models as failures). The cases of a `select` get strong fairness in
EventLoop, because Go chooses uniformly among the ready ones. Tickers and
backoff timers fire for ever. In SyncEngine the service manager restarts the
daemon after a crash. In SSHForward sshd ends a dead session in the end
(keepalive); the daemon's `Resync` tick goes on. In DockerVolume the refresh loop
gets strong fairness for `opMu`, because Go's mutex hands over to a waiter that
starves. In EnrolEngines time passes, a device flow that polls ends with its code and the
provider's grant lapses; that the user approves, or presses Enter on a terminal, is
not assumed, and a poll may be rate-limited whatever the user has done. In WebEnrol
the runner is installed in the end once the user has reached a page. Each module's fairness is its operator `XFairness`. Nothing is assumed of users,
the network, other sessions, Vault's contents or the provider; disturbances are
bounded, and liveness speaks of what happens once they are over.

`CHECK_DEADLOCK FALSE` is set where the modelled system may come to rest
(a cancelled daemon, an exhausted horizon, an empty mesh, a host with the
enrolment removed).

## 4. Proofs

TLAPS checks the following for all values of the constants that satisfy the
`ASSUME`s of the modules, so for any number of rules, processes, hosts, keys,
requests and disturbances.

**SyncEngineProofs.** `TypeCorrect` needs `Scope`: a process only works on rules
of the configuration it holds, or a definition might be looked up that is gone.
`UserTextSafe` assumes that no edit falls between a rule's read and its write
(`"merge" \notin RacyEdits`); its invariant `FreshBase` says the content about to
be written back holds the user's last text. `SkipGateSound` assumes one writing
process, no secret whose version counter restarts, and no edit between write and
checksum (`SafeGate`); each of these is necessary (section 6). Its invariant
`HonestState` says that every recorded entry, in memory, on disk or about to be
recorded, describes the content whose checksum it holds. `SkipSound` alone is not
inductive: it says nothing of entries that do not match at present. `EngineSound`
is the conjunction that `sync_safety` checks.

**SSHForwardProofs.** `TypeCorrect`. `OneConnection` and `NoneOutlivesClose` rest
on `Accounted`: every live goroutine is in the manager's map, is the victim of the
transaction in progress or is waited for by `Close`; `NoRevival` says no step
brings a finished goroutine back. `StoredPinTrusted` rests on `Trust`: every copy
of a pin, in an Add, in the transaction and in the file, was vouched for.
`RunningFollowsFile` (`Synced`) rests on `Following`: `Synced` only speaks of the
time between transactions, so the invariant adds what one in progress has in hand
(a read that wants what the file says, a save that has changed nothing yet, a
Reconcile whose remote is out of the map or already as wanted).
`PinsAndSocketsKept` (`ForwardKeeps`) rests on `AddsPin` and `WritesPin`: what an
Add read before it dialled reaches the commit unchanged unless the request is
forced and names a key, and what the holder of `txMu` writes has the pin of the
entry it loaded.

**CredentialProofs.** *Refresh*: `TypeCorrect`; `MarksAreDead`
(`Spec => []ArmedIsDead`) and `WipesSpare` (`Spec => WipeSpares`) rest on
`Evidence`: creation times and tokens come from counters, so what a host has read
identifies the secret (`HeldOK`); a token rejected under a good configuration is
dead and stays dead; a mark names a past or dead version (`MarkOK`). One lemma
says what any step may do to Vault and the provider (`Benign`), a frame lemma
serves the hosts that do not act, and each kind of step of the host that does has
its own. `ManagersSound` is the conjunction that `credentials` checks.
*Token*: `TokenStaysSound` and `NeverAskedAgain` rest on `TokenInv`. The gate alone
is not inductive: a restore is sound because the saved token was vouched for
(`TokenKnown`), a trial because the gate closed before it (`TrialsGated`), and no
suppressed token is presented because the candidates were filtered and all differ
(`Untried`), what is on the client before a lookup is not on the denylist
(`NotAsked`), and a token Vault has yet to issue is nowhere (`FreshUnseen`).
`PasteCounted` makes a behaviour without a paste one in which no handler pastes.

**LimitProofs.** `ScheduleStaysSound` and `ScheduleStaysPaced` rest on
`ScheduleInv`: one reporter holds the window of the rate limit, from the swap it
won until its nudge is queued or the window is given back (`ReportsTimely`,
`OneHolder`, `NobodyHolds`); the timer of an idle goroutine is ahead and that of a
cycle was when it began (`TimerAhead`); the delay doubles only while half of it has
passed without health (`DelayHalved`); and a failed recovery puts the next one off
by its backoff and no more than the maximum (`RecoveryAhead`). The clamp that
catches a shift out of range is part of `RecoverBackoff`. `PoolStaysSound` rests on
`PoolInv`: without reuse a socket's identity is its own and its faults are on
record (`SocketsSound`); a member that is out deserved it, or its caller's
time was up (`cut`), and it left soon after its socket last came up (`MembersSound`); a request that waits or has failed has its
reason on the socket it was made for (`CallsSound`); and whoever has long been up
is yet to be asked or has answered, unless the call has what it wants or no time left
(`Covered`).
Its hypothesis `ReuseIds = FALSE` is necessary (section 6).

**EventProofs.** `LoopStaysSound` rests on `LoopInv`: a subscription that the loop
has, an attempt that sleeps and one that is signalled exclude each other, and the
events it listens to come from the pipeline whose error channel it has
(`Exclusive`); before the first subscription there is nothing to lose (`NotYet`).
`NothingStays` and `MountsKeep` rest on `VolumeInv`: whatever is on disk is of a
container that holds the volume, of a wipe that has yet to run or of a first mount
that has yet to register (`DirOwned`); a loop runs for a volume that is held and a
cancelled one has its wipe waiting (`LoopsOwned`); what is about to be written was
read from Vault (`ContentRead`); a daemon that is down has only what it saved
(`DownForgets`).

**HostSafetyProofs.** `ShellsQuiet`: `CheckInv` says the marker is the time at which
the last check ended, which makes the action property follow step by step.
`MigrationsSound`: `MigrationInv` adds to the two properties that only a configured
template runs as one (`RunningFollows`) and that an exchange past its first answer
is with a station whose status allowed it (`AskedGood`). `FilesSound`: `MountInv`
says the budget in use is the number of units in the buffers of open and released
handles plus those a truncation has left for good (`Accounted`, over the cardinality of
a set, since a sum over processes is out of the provers' reach), that a handle that is
not open yet buffers nothing (`Orderly`) and that what a `Setattr` goes through is or
was writable (`Collected`).
`RotationSound`: `CertInv` says only issued certificates are known anywhere
(`Numbered`), the replacement of a rotation under way is live and nobody else's
(`AheadFresh`, `NewsDiffer`), nothing comes due while a rotation has a last word to
write (`RetiringKept`), the envelope's certificate is live and not being retired
(`EnvelopeLive`), and what was swept or revoked is gone (`Gone`).
For `NoneForgotten` a second invariant, `Remembered`, says that as long as nothing has
gone wrong one process at a time replaces what is on record (`Alone`) and that every
certificate is on record, listed, revoked or in the hands of a rotation (`Known`). Pending
revocations are a set of serials: their order is never read.

**DaemonProofs.** `ConfigKept`: the hint that a restart is needed is right in the
middle of a pass too (`HintStands`). `StartupKept`: once the read of the token file
that a wait or the service rests on is over, a newer token in the file has been
read or something is queued that will read it (`ReadOver` in `StartupInv`).
`EnginesKept`: what is about to be written passed the engine's check
(`WriteChecked`), and an approval that came before a poll which is not turned
away is there for that poll and then in its answer (`ApprovalKept`).

**WebProofs.** `BootstrapConfined`: under certificate authentication nothing that
could carry the bootstrap's token to the shared client is on its way (`Diverted`).
`EnrolmentsSound`: an engine belongs to a runner that was installed and one of the
present runner is shown as running (`EnginesShown`), no two run for one enrolment
of one runner (`EnginesApart`), at most one enrolment is shown as running
(`OneRunning`, from which a card can show no prompt of another engine of its runner), and what a reload read is in Vault or was until it
was wiped (`ReloadRead`). `TypesStay`, `PatchesSpare`, `RestStays` and the
refinement `EditorRefines` (`EditSpec => ImplementsAtomic`), together `EditorStaysSound`, rest on `EditInv`: a
pair of version and life dates the document, so no pair is of the future, and what
was read at the current pair is the document (`PagesDated`, `CommandDated`). For the
refinement, `seen` is what a page shows until a removal starts another life, after
which it counts as lapsed, and every step maps to one of AtomicSecret or a stutter.

Each inductive invariant was checked by TLC on the instance of its run, with
smaller bounds where the run has several parts, before it was proved; several
failed first and were strengthened into the form above.

Assumptions on constants are only those the modules name: bounds are natural
numbers, markers such as `"free"` or `"none"` are no member of the sets they are
kept apart from (`MountIdsAssumption`, `MarksAssumption`, `KeysAssumption`),
timeouts and intervals are positive (`TimesAssumption`, `IntervalsAssumption`, as
the Go constants are), and the initial sets are not empty.

Only model-checked: all liveness (TLAPS here has no fairness or ENABLED), with the
safety parts stated beside it in one property (`NotAgain`, `PathKept`, `FewEchoes`);
`MergeSound`, because FileMerge declares RECURSIVE operators; `NotSilentlyStale`;
and the properties of SSHAgent, ClientCertSource, EnrolWatch, SocketBind and
NoticeMesh.

## 5. Plan

All parts whose correctness depends on an order of events have a module, and every
invariant that a run checks has a theorem. Next in line, in this order:

1. theorems: `NotAgain`, `PathKept` of `BindServes`, `FewEchoes`, and the safety
   parts of SSHAgent and ClientCertSource;
2. directories of the Vault file system, and a `Create` of a volume that overlaps
   another call;
3. pure operators: `kvpath`, `urlallow`, the layering of rule lists, `regfile`.

## 6. Known limits of the code

Behaviours the models exhibit which the properties above exclude by a stated
condition:

- Sync: an edit saved between `syncRule`'s read of a target and its write is
  overwritten (`RacyEdits` with `"merge"`); one saved between the write and the
  checksum is taken for the engine's own content (`"record"`); destroying a
  secret's metadata restarts its version, which may meet a recorded one; two
  writing processes overwrite each other's `state.json`; an entry pruned around
  a restart comes back until the next refresh.
- Token: a failed paste puts the remembered token back over one that the manager
  adopted meanwhile (`ui_login.go:412`), so `TrialGated` is stated for behaviours
  without a paste; a verdict on a token that a handler replaced during the lookup is booked
  on the wrong token; the lookup that validates a paste presents whatever is on the client by
  then, so a paste can be written to the file unvalidated; a reload while the file holds the
  current token moves to a peer's token (`lifecycle.go:871`).
- Peer pool: where the file system hands a freed inode to the next socket, a dial
  that hung on the old socket evicts the new one (`ReuseIds = TRUE` breaks
  `HealthyStays`); a caller whose context ends evicts the members it has not asked
  (`cut` in `HealthyStays`, `ServingFound`; finding 2).
- Notices: with the code's own sizes, nine unread versions of one key between two
  daemons that borrow from each other are announced back and forth for ever,
  because an older version clears the window (`events.go:176`); a slow subscriber's
  full buffer drops a notice, and the poll has to catch up; after a wipe the first versions of the new secret pass for old ones; a
  host's own writes are not fanned out to its other peers.
- SSH: an unforced Add with an explicit `HostKey` that verifies keeps the old or
  blank pin, although the comment at `registry.go:352` gives the caller's key
  priority; a session that binds the path between the probe and the unlink loses
  it; `Close` does not wait for a victim that a concurrent `Reconcile` is
  stopping; a save overwrites a hand edit made after its load.
- Refresh: a host stalled between rotation and write can find version 1 again
  after another host's wipe and a re-enrolment, so that its check-and-set
  succeeds against a credential it has not read, which `refresh.go:403` takes
  for impossible; a delete takes whatever is written during its round trip
  (documented in the source); a wipe elsewhere makes a pending write miss and
  drops the rotated token; `seen` compares version numbers only.
- Volumes: a first mount that is rendering when the subscription connects is
  passed over by `nudgeAll` and stays behind Vault until the next event (`missed`
  in `NotSilentlyStale`); a first mount that fails halfway leaves its partial
  directory (`Broken` in `NothingLeft`).
- Sockets: `Cleanup` of a daemon that is stopping runs outside the bind lock and
  can remove its successor's socket (`robbed` in `PathKept`); an agent listener
  dropped after an accept error is closed only by the garbage collector.
- Peer migration: the patch may reach another workstation than the status came
  from, when the forward behind the socket changes in between (`swapped` in
  `SourceKept`); a socket that is re-created under a handled inode number is not
  asked again before a restart.
- File system: a truncate that meets a release leaks budget (`lost` in `Accounted`;
  disagreement 4).
- Certificates: a new credential that replaces one on record loses the backlog
  (finding 3); a rotation that overtakes another, and a list at its cap, lose serials
  too (`disturbed` in `NoneForgotten`).
- Engines: the provider's rate limit may turn the last poll away although the user
  has approved, and the attempt times out (`ghp.go:262`, `ghp.go:291`; `TurnedAway` in
  `ApprovalSeen`); on a terminal the GitHub engine waits for the Enter key without a
  timeout (`github.go:166`), so `EnginesEnd` allows an attempt to stay there.
- Agent: an upstream key that is added is listed once the identity cache of
  another call has expired.
- Start-up: while a headless daemon tries a candidate, another goroutine may
  present it; a pasted token is not looked up under a lock of its own. A daemon with a
  browser surface and nothing enrolled waits for its wizard before the first sync; that
  wait is in WebEnrol, not in `FirstSync`.
- Enrolment watch: a copy that another writer changes between the engine's merge
  and its write overwrites that change. Web enrolment: a prompt that nobody
  answers defers a configuration reload; an answer from a page that is no longer
  current, or typed on another card (disagreement 8), goes to whichever engine waits; a page
  opened before there is a runner dismisses nothing (`admitted = "early"`, disagreement 7).
- `kv patch`: a secret that is removed and created again between the read and the
  write has version 1 again, and the patch lands on what it has not read (`life`
  in `PatchSpares`; the editor's pages likewise, `Lapsed` in AtomicSecret).
- Handlers: the `Tidy` condition of `Surgical` and `Settled` excludes disagreement 5, and
  shared YAML nodes that the template reaches (`Entangled`): replacing an anchored
  node is disagreement 6, and merging into one changes every place that refers to it.

## 7. Not modelled

Formatting, templates, HTTP, TLS, FUSE and SSH wire protocols; platform code
(TPM, key chains, clipboard, tray, registry); logging and metrics; the wording
of the providers' responses.

Per module: DockerVolume leaves out a `Create` overlapping another call and a
second event dropped in a row; VaultFS directories; CertRotation certificates the user
brings; FileMerge YAML merge keys (`<<`), several anchors and anchors in templates,
quoted TOML keys, the lexing of scalars and comments outside ssh_config;
SocketBind surplus inherited descriptors and permission checks; LoginCheck a
refused `DOTVAULT_SUPPRESS_HOURS`; EnrolEngines the ssh engine's key generation,
the copies of other secrets and the validation of settings; PeerMigration two exchanges
for one inode number; SSHAgent lock, extension and pageant; WebLogin
OIDC's state parameter. `PROJECT.json` lists every component
with the reason.
