----------------------------- MODULE SyncEngine -----------------------------
(***************************************************************************)
(* The sync engine of dotvault: internal/sync/engine.go and state.go.      *)
(*                                                                         *)
(* A process (the daemon, or a one-shot `dotvault sync`) walks its rules   *)
(* in configuration order.  A rule reads a Vault KVv2 secret, decides from *)
(* the recorded version, rule fingerprint and file checksum whether the    *)
(* target is up to date, and otherwise merges the rendered secret into the *)
(* target file and records what it wrote in state.json.  The steps of a    *)
(* rule are separate actions, because Vault, the user's editor, a config   *)
(* refresh, a crash and a second process act between them.                 *)
(*                                                                         *)
(* Abstractions.  A file's content is the value of each rule's managed     *)
(* region, the user's own text (a revision number) and whether it parses;  *)
(* its sha256 is the content itself.  A rule's fingerprint is the rule     *)
(* definition.  A rendered value is the definition together with the       *)
(* secret it was rendered from.                                            *)
(***************************************************************************)
EXTENDS Naturals, FiniteSets

CONSTANTS
    Procs,          \* processes that run an engine
    Daemon,         \* the long-running one; the others are one-shot
    DryRunProcs,    \* processes started with --dry-run
    NRules,         \* rule names are 1..NRules, in configuration order
    Keys, NoKey,    \* vault keys; NoKey marks a keyless rule
    Paths,          \* target paths
    Defs,           \* rule definitions
    Configs,        \* the rule sets a configuration file may hold
    NoHash,         \* RuleHash of a rule never synced
    Missing,        \* content, and checksum, of a file that is not there
    Tampered,       \* a managed region the user overwrote
    NoVal,          \* a managed region that holds nothing
    Budget,         \* how often each environment action may happen
    RacyEdits       \* windows of syncRule in which the user may save the file

Rules == 1..NRules

Kinds == {"write", "destroy", "edit", "crash", "fault", "config", "nudge"}

\* Windows of syncRule: after the target was read and before it is written,
\* and after it was written and before its checksum is taken.
Windows == {"merge", "record"}

ASSUME ProcsAssumption == /\ Daemon \in Procs
                          /\ DryRunProcs \subseteq Procs \ {Daemon}
ASSUME RulesAssumption == NRules \in Nat
ASSUME KeysAssumption == NoKey \notin Keys
ASSUME DefsAssumption ==
    /\ Defs \subseteq [key: Keys \cup {NoKey}, path: Paths, tmpl: Nat,
                       whole: BOOLEAN, broken: BOOLEAN]
    /\ NoHash \notin Defs
ASSUME ConfigsAssumption ==
    \A c \in Configs : \E S \in SUBSET Rules : c \in [S -> Defs]

\* What rendering definition d from a secret yields.
Values == [def: Defs, ver: Nat, gen: Nat]

Contents == [mgd: [Rules -> Values \cup {NoVal, Tampered}],
             user: Nat, ok: BOOLEAN]

ASSUME MissingAssumption == Missing \notin Contents
ASSUME NoValAssumption == {NoVal, Tampered} \cap Values = {}
ASSUME BudgetAssumption == /\ Budget \in [Kinds -> Nat]
                           /\ RacyEdits \subseteq Windows

Secrets == [ver: Nat, gen: Nat, live: BOOLEAN]
RuleStates == [ver: Nat, cs: Contents \cup {Missing}, hash: Defs \cup {NoHash}]

\* The zero RuleState that Get returns for a rule it does not know.
ZeroState == [ver |-> 0, cs |-> Missing, hash |-> NoHash]

EmptyContent == [mgd |-> [r \in Rules |-> NoVal], user |-> 0, ok |-> TRUE]

Keyless(d) == d.key = NoKey

VARIABLES
    vault,      \* [Keys -> Secrets]: version counter, metadata generation
    file,       \* [Paths -> Contents or Missing]: the target files
    loose,      \* paths whose file is not mode 0600
    draft,      \* [Paths -> Nat]: the user text the user last saved (history)
    disk,       \* state.json: [Rules -> RuleStates]
    cfg,        \* [Procs -> Configs]: the rules each process holds
    mem,        \* [Procs -> [Rules -> RuleStates]]: its StateStore
    trigger,    \* [Procs -> BOOLEAN]: triggerCh holds a request
    pruning,    \* the daemon's UpdateConfig has swapped and not yet pruned
    pc,         \* where in syncRule each process is
    todo,       \* [Procs -> SUBSET Rules]: rules left in this cycle
    rule,       \* [Procs -> Rules \cup {0}]: the rule being synced
    sec,        \* [Procs -> [ver, gen]]: the secret that rule read
    base,       \* [Procs -> Contents]: the existing content it merges into
    budget      \* what is left of Budget

local == <<pc, todo, rule, sec, base>>
vars == <<vault, file, loose, draft, disk, cfg, mem, trigger, pruning,
          local, budget>>

PCs == {"down", "idle", "next", "gate", "merge", "write", "record", "save"}

TypeOK ==
    /\ vault \in [Keys -> Secrets]
    /\ file \in [Paths -> Contents \cup {Missing}]
    /\ loose \in SUBSET Paths
    /\ draft \in [Paths -> Nat]
    /\ disk \in [Rules -> RuleStates]
    /\ cfg \in [Procs -> Configs]
    /\ mem \in [Procs -> [Rules -> RuleStates]]
    /\ trigger \in [Procs -> BOOLEAN]
    /\ pruning \in BOOLEAN
    /\ pc \in [Procs -> PCs]
    /\ todo \in [Procs -> SUBSET Rules]
    /\ rule \in [Procs -> Rules \cup {0}]
    /\ sec \in [Procs -> [ver: Nat, gen: Nat]]
    /\ base \in [Procs -> Contents]
    /\ budget \in [Kinds -> Nat]

Init ==
    /\ vault = [k \in Keys |-> [ver |-> 0, gen |-> 0, live |-> FALSE]]
    /\ file = [f \in Paths |-> Missing]
    /\ loose = {}
    /\ draft = [f \in Paths |-> 0]
    /\ disk = [r \in Rules |-> ZeroState]
    /\ cfg \in [Procs -> Configs]
    /\ mem = [p \in Procs |-> [r \in Rules |-> ZeroState]]
    /\ trigger = [p \in Procs |-> FALSE]
    /\ pruning = FALSE
    /\ pc = [p \in Procs |-> "down"]
    /\ todo = [p \in Procs |-> {}]
    /\ rule = [p \in Procs |-> 0]
    /\ sec = [p \in Procs |-> [ver |-> 0, gen |-> 0]]
    /\ base = [p \in Procs |-> EmptyContent]
    /\ budget = Budget

Spend(kind) == /\ budget[kind] > 0
               /\ budget' = [budget EXCEPT ![kind] = @ - 1]

-----------------------------------------------------------------------------
(* Pure parts of syncRule.                                                 *)

\* The definition a process is syncing.  The engine holds e.mu for the whole
\* cycle, so cfg[p] does not change under it.
Def(p) == cfg[p][rule[p]]

\* What rule definition d renders from secret s; a keyless rule renders from
\* literals alone.
Render(d, s) == IF Keyless(d) THEN [def |-> d, ver |-> 0, gen |-> 0]
                ELSE [def |-> d, ver |-> s.ver, gen |-> s.gen]

\* Mutants: the rendered data replaces the file, or the document around it.
MergeReplaces(d, r, existing, value) == [EmptyContent EXCEPT !.mgd[r] = value]
MergeUnwraps(d, r, existing, value) == value

\* handler.Merge: a text target is replaced, every other format keeps what
\* the rendered data does not name.
Merge(d, r, existing, value) ==
    IF d.whole THEN [EmptyContent EXCEPT !.mgd[r] = value]
    ELSE [existing EXCEPT !.mgd[r] = value]

\* handler.Read: a missing file reads as empty; one that does not parse fails,
\* except for the text format.
Readable(d) == file[d.path] # Missing => (d.whole \/ file[d.path].ok)
Existing(f) == IF file[f] = Missing THEN EmptyContent ELSE file[f]

\* Mutant: a gate that forgets the version.
SkipsUnversioned(d, version, st) == st.hash = d /\ file[d.path] = st.cs

\* The skip gate of syncRule.
Skips(d, version, st) ==
    /\ Keyless(d) \/ (version = st.ver /\ st.ver > 0)
    /\ st.hash = d
    /\ file[d.path] = st.cs

\* The rule needs no secret, or its secret is there to read.
HasSecret(d) == IF Keyless(d) THEN TRUE ELSE vault[d.key].live

\* runRulesLocked walks the rules in configuration order.
First(S) == {r \in S : \A q \in S : r <= q}

-----------------------------------------------------------------------------
(* The engine.                                                             *)

\* syncRule has returned: its locals are gone and the cycle goes on with the
\* next rule.
NoSecretRead == [ver |-> 0, gen |-> 0]

\* Mutant: a rule that ends takes the rest of the cycle with it.
RuleDoneAborts(p) == /\ pc' = [pc EXCEPT ![p] = "next"]
                     /\ todo' = [todo EXCEPT ![p] = {}]
                     /\ rule' = [rule EXCEPT ![p] = 0]
                     /\ sec' = [sec EXCEPT ![p] = NoSecretRead]
                     /\ base' = [base EXCEPT ![p] = EmptyContent]

RuleDone(p) == /\ pc' = [pc EXCEPT ![p] = "next"]
               /\ todo' = [todo EXCEPT ![p] = @ \ {rule[p]}]
               /\ rule' = [rule EXCEPT ![p] = 0]
               /\ sec' = [sec EXCEPT ![p] = NoSecretRead]
               /\ base' = [base EXCEPT ![p] = EmptyContent]

\* syncRule goes on at the given step.
Goto(p, step) == /\ pc' = [pc EXCEPT ![p] = step]
                 /\ UNCHANGED <<todo, rule, sec>>

\* NewEngine: a started process loads its configuration and state.json, and
\* RunLoop (or runSync) begins with a full cycle.
Start(p) ==
    /\ pc[p] = "down"
    /\ \E c \in Configs :
        /\ cfg' = [cfg EXCEPT ![p] = c]
        /\ \/ c = cfg[p] /\ UNCHANGED budget
           \/ c # cfg[p] /\ Spend("config")
    /\ mem' = [mem EXCEPT ![p] = disk]
    /\ trigger' = [trigger EXCEPT ![p] = TRUE]
    /\ pc' = [pc EXCEPT ![p] = "idle"]
    /\ UNCHANGED <<vault, file, loose, draft, disk, pruning,
                   todo, rule, sec, base>>

\* Take e.mu and run the rules in S.
Begin(p, S) == /\ pc[p] = "idle"
               /\ pc' = [pc EXCEPT ![p] = "next"]
               /\ todo' = [todo EXCEPT ![p] = S]
               /\ UNCHANGED <<vault, file, loose, draft, disk, cfg, mem,
                              pruning, rule, sec, base>>

\* RunOnce from triggerCh, and the initial RunOnce.
RunTriggered(p) == /\ trigger[p]
                   /\ trigger' = [trigger EXCEPT ![p] = FALSE]
                   /\ Begin(p, DOMAIN cfg[p])
                   /\ UNCHANGED budget

\* RunOnce from the poll ticker, which only the daemon has.
RunTick == /\ Begin(Daemon, DOMAIN cfg[Daemon])
           /\ UNCHANGED <<trigger, budget>>

\* RunKeyless, before the daemon holds a token: still ahead of its first
\* full cycle, which trigger stands for.
RunKeyless == /\ trigger[Daemon]
              /\ Begin(Daemon, {r \in DOMAIN cfg[Daemon] :
                                    Keyless(cfg[Daemon][r])})
              /\ Spend("nudge")
              /\ UNCHANGED trigger

\* syncRuleByPath: an event for key k syncs the first rule that reads k.
SyncRuleByPath(k) ==
    /\ Begin(Daemon, First({r \in DOMAIN cfg[Daemon] :
                                cfg[Daemon][r].key = k}))
    /\ Spend("nudge")
    /\ UNCHANGED trigger

\* syncRule reads the secret of rule r, if it has one.
ReadSecret(p, r) ==
    LET d == cfg[p][r] IN
    /\ HasSecret(d)
    /\ rule' = [rule EXCEPT ![p] = r]
    /\ sec' = [sec EXCEPT ![p] =
                  IF Keyless(d) THEN NoSecretRead
                  ELSE [ver |-> vault[d.key].ver, gen |-> vault[d.key].gen]]
    /\ pc' = [pc EXCEPT ![p] = "gate"]
    /\ UNCHANGED <<todo, budget>>

\* The secret is absent or cannot be read: this rule ends, not the cycle.
NoSecret(p, r) ==
    /\ ~Keyless(cfg[p][r])
    /\ \/ ~HasSecret(cfg[p][r]) /\ UNCHANGED budget
       \/ Spend("fault")
    /\ todo' = [todo EXCEPT ![p] = @ \ {r}]
    /\ UNCHANGED <<pc, rule, sec>>

\* The loop of runRulesLocked: the next rule in configuration order.
SyncRule(p) ==
    /\ pc[p] = "next"
    /\ \E r \in First(todo[p]) : ReadSecret(p, r) \/ NoSecret(p, r)
    /\ UNCHANGED <<vault, file, loose, draft, disk, cfg, mem, trigger,
                   pruning, base>>

\* The cycle is over: e.mu is released; a one-shot process exits.
EndCycle(p) ==
    /\ pc[p] = "next"
    /\ todo[p] = {}
    /\ pc' = [pc EXCEPT ![p] = IF p = Daemon THEN "idle" ELSE "down"]
    /\ UNCHANGED <<vault, file, loose, draft, disk, cfg, mem, trigger,
                   pruning, todo, rule, sec, base, budget>>

\* os.Chmod to 0600; its failure is only logged.
Chmod(path) == \/ loose' = loose \ {path} /\ UNCHANGED budget
               \/ loose' = loose /\ Spend("fault")

\* The skip gate.  A skipped rule still has its file's mode enforced.
Gate(p) ==
    /\ pc[p] = "gate"
    /\ \/ /\ Skips(Def(p), sec[p].ver, mem[p][rule[p]])
          /\ IF p \in DryRunProcs THEN UNCHANGED <<loose, budget>>
             ELSE Chmod(Def(p).path)
          /\ RuleDone(p)
       \/ /\ ~Skips(Def(p), sec[p].ver, mem[p][rule[p]])
          /\ Goto(p, "merge")
          /\ UNCHANGED <<base, loose, budget>>
    /\ UNCHANGED <<vault, file, draft, disk, cfg, mem, trigger, pruning>>

\* Render the template and read the target: either may fail the rule.
ReadExisting(p) ==
    /\ pc[p] = "merge"
    /\ \/ /\ ~Def(p).broken /\ Readable(Def(p))
          /\ base' = [base EXCEPT ![p] = Existing(Def(p).path)]
          /\ Goto(p, "write")
          /\ UNCHANGED budget
       \/ /\ Def(p).broken \/ ~Readable(Def(p))
          /\ RuleDone(p)
          /\ UNCHANGED budget
       \/ Spend("fault") /\ RuleDone(p)
    /\ UNCHANGED <<vault, file, loose, draft, disk, cfg, mem, trigger,
                   pruning>>

\* Merge and write the target: a temporary file, chmod 0600, rename.  A dry
\* run stops short of the write.
WriteFile(p) ==
    /\ pc[p] = "write"
    /\ \/ /\ p \notin DryRunProcs
          /\ file' = [file EXCEPT ![Def(p).path] =
                         Merge(Def(p), rule[p], base[p],
                               Render(Def(p), sec[p]))]
          /\ loose' = loose \ {Def(p).path}
          /\ Goto(p, "record")
          /\ UNCHANGED <<base, budget>>
       \/ /\ \/ p \in DryRunProcs /\ UNCHANGED budget
             \/ Spend("fault")
          /\ RuleDone(p)
          /\ UNCHANGED <<file, loose>>
    /\ UNCHANGED <<vault, draft, disk, cfg, mem, trigger, pruning>>

\* Mutant: the rule's fingerprint is not recorded.
EntryUnhashed(p) ==
    [ver |-> sec[p].ver, cs |-> file[Def(p).path], hash |-> NoHash]

\* The RuleState of a rule just written: the file is read again for it.
Entry(p) ==
    [ver |-> sec[p].ver, cs |-> file[Def(p).path], hash |-> Def(p)]

\* Checksum the file that is there now, and state.Set.  The re-applied chmod
\* before it is part of the step.
Record(p) ==
    /\ pc[p] = "record"
    /\ mem' = [mem EXCEPT ![p][rule[p]] = Entry(p)]
    /\ Chmod(Def(p).path)
    /\ Goto(p, "save")
    /\ UNCHANGED <<vault, file, draft, disk, cfg, trigger, pruning, base>>

\* state.Save replaces state.json atomically; its failure is only logged.
Save(p) ==
    /\ pc[p] = "save"
    /\ \/ disk' = mem[p] /\ UNCHANGED budget
       \/ UNCHANGED disk /\ Spend("fault")
    /\ RuleDone(p)
    /\ UNCHANGED <<vault, file, loose, draft, cfg, mem, trigger, pruning>>

\* UpdateConfig under e.mu: swap the rules (its only caller is sequential).
UpdateConfig ==
    /\ pc[Daemon] = "idle"
    /\ ~pruning
    /\ \E c \in Configs \ {cfg[Daemon]} : cfg' = [cfg EXCEPT ![Daemon] = c]
    /\ pruning' = TRUE
    /\ Spend("config")
    /\ UNCHANGED <<vault, file, loose, draft, disk, mem, trigger, local>>

\* Mutant: nothing is removed.
PrunedNothing == mem[Daemon]

\* The rest of UpdateConfig, after e.mu is released: Prune, Save when it
\* removed an entry, TriggerSync.
Pruned == [r \in Rules |-> IF r \in DOMAIN cfg[Daemon] THEN mem[Daemon][r]
                           ELSE ZeroState]

PruneAndTrigger ==
    /\ pruning
    /\ pruning' = FALSE
    /\ mem' = [mem EXCEPT ![Daemon] = Pruned]
    /\ \/ /\ disk' = IF Pruned = mem[Daemon] THEN disk ELSE Pruned
          /\ UNCHANGED budget
       \/ UNCHANGED disk /\ Spend("fault")
    /\ trigger' = [trigger EXCEPT ![Daemon] = TRUE]
    /\ UNCHANGED <<vault, file, loose, draft, cfg, local>>

\* TriggerSync from the web UI or the enrolment check; triggerCh holds one.
TriggerSync ==
    /\ pc[Daemon] # "down"
    /\ trigger' = [trigger EXCEPT ![Daemon] = TRUE]
    /\ Spend("nudge")
    /\ UNCHANGED <<vault, file, loose, draft, disk, cfg, mem, pruning, local>>

\* A crash anywhere, or a shutdown: runRulesLocked sees the cancelled context
\* between two rules, RunLoop in its select.
Stop(p) ==
    /\ pc[p] # "down"
    /\ pc' = [pc EXCEPT ![p] = "down"]
    /\ trigger' = [trigger EXCEPT ![p] = FALSE]
    /\ pruning' = IF p = Daemon THEN FALSE ELSE pruning
    /\ todo' = [todo EXCEPT ![p] = {}]
    /\ rule' = [rule EXCEPT ![p] = 0]
    /\ sec' = [sec EXCEPT ![p] = NoSecretRead]
    /\ base' = [base EXCEPT ![p] = EmptyContent]
    /\ mem' = [mem EXCEPT ![p] = [r \in Rules |-> ZeroState]]
    /\ Spend("crash")
    /\ UNCHANGED <<vault, file, loose, draft, disk, cfg>>

-----------------------------------------------------------------------------
(* The environment: Vault's KVv2 engine, and the user at the target files. *)

engine == <<disk, cfg, mem, trigger, pruning, local>>

\* A new version of a secret.
VaultWrite(k) ==
    /\ vault' = [vault EXCEPT ![k] = [ver |-> @.ver + 1, gen |-> @.gen,
                                      live |-> TRUE]]
    /\ Spend("write")
    /\ UNCHANGED <<file, loose, draft, engine>>

\* A soft delete of the latest version.
VaultDelete(k) ==
    /\ vault[k].live
    /\ vault' = [vault EXCEPT ![k] = [ver |-> @.ver, gen |-> @.gen,
                                      live |-> FALSE]]
    /\ Spend("write")
    /\ UNCHANGED <<file, loose, draft, engine>>

\* A metadata delete: the version counter starts again from nothing.
VaultDestroy(k) ==
    /\ vault[k].ver > 0
    /\ vault' = [vault EXCEPT ![k] = [ver |-> 0, gen |-> @.gen + 1,
                                      live |-> FALSE]]
    /\ Spend("destroy")
    /\ UNCHANGED <<file, loose, draft, engine>>

\* The user saves a file only outside the windows RacyEdits rules out.
Undisturbed(f) ==
    \A p \in Procs :
        /\ pc[p] = "write" /\ Def(p).path = f => "merge" \in RacyEdits
        /\ pc[p] = "record" /\ Def(p).path = f => "record" \in RacyEdits

UserSaves(f, content, text) ==
    /\ Undisturbed(f)
    /\ file' = [file EXCEPT ![f] = content]
    /\ draft' = [draft EXCEPT ![f] = text]
    /\ Spend("edit")
    /\ UNCHANGED <<vault, loose, engine>>

\* The user adds to their own part of a file.
UserEdit(f) ==
    UserSaves(f, [Existing(f) EXCEPT !.user = draft[f] + 1], draft[f] + 1)

\* The user overwrites what rule r manages.
UserTamper(f, r) ==
    /\ file[f] # Missing
    /\ UserSaves(f, [file[f] EXCEPT !.mgd[r] = Tampered], draft[f])

\* The user breaks the file's syntax, or repairs it.
UserCorrupt(f) ==
    /\ file[f] # Missing
    /\ UserSaves(f, [file[f] EXCEPT !.ok = ~@], draft[f])

\* The user removes the file.
UserDelete(f) ==
    /\ file[f] # Missing
    /\ UserSaves(f, Missing, 0)

\* The user, or a umask, loosens a file's mode.
UserChmod(f) ==
    /\ file[f] # Missing
    /\ loose' = loose \cup {f}
    /\ Spend("edit")
    /\ UNCHANGED <<vault, file, draft, engine>>

User(f) == \/ UserEdit(f)
           \/ \E r \in Rules : UserTamper(f, r)
           \/ UserCorrupt(f)
           \/ UserDelete(f)
           \/ UserChmod(f)

Vault(k) == VaultWrite(k) \/ VaultDelete(k) \/ VaultDestroy(k)

-----------------------------------------------------------------------------

\* The steps a process takes inside a cycle.
Cycle(p) == \/ SyncRule(p) \/ EndCycle(p) \/ Gate(p) \/ ReadExisting(p)
            \/ WriteFile(p) \/ Record(p) \/ Save(p)

Next == \/ \E p \in Procs : Start(p) \/ RunTriggered(p) \/ Cycle(p) \/ Stop(p)
        \/ RunTick
        \/ RunKeyless
        \/ \E k \in Keys : SyncRuleByPath(k)
        \/ UpdateConfig
        \/ PruneAndTrigger
        \/ TriggerSync
        \/ \E k \in Keys : Vault(k)
        \/ \E f \in Paths : User(f)

Spec == Init /\ [][Next]_vars

\* The service manager restarts the daemon, its goroutines are scheduled, and
\* the ticker and a pending trigger keep starting cycles.
Fairness == /\ WF_vars(Start(Daemon))
            /\ WF_vars(RunTick \/ RunTriggered(Daemon))
            /\ WF_vars(Cycle(Daemon))
            /\ WF_vars(PruneAndTrigger)

FairSpec == Spec /\ Fairness

-----------------------------------------------------------------------------
(* Properties.                                                             *)

\* The value a rule definition should have in its target now.
Current(d) == Render(d, vault[d.key])

\* The skip gate of syncRule never hides work: whenever it would skip a rule,
\* the target's managed region already holds what the current secret and the
\* current definition render to.
SkipSound ==
    \A p \in Procs : pc[p] # "down" =>
        \A r \in DOMAIN cfg[p] :
            LET d == cfg[p][r] IN
            HasSecret(d) /\ Skips(d, vault[d.key].ver, mem[p][r])
                => /\ file[d.path] # Missing
                   /\ file[d.path].mgd[r] = Current(d)

\* A merged target always holds the text its user last saved: no sync, failed
\* write, crash or restart takes it away or brings an older one back.
UserTextKept ==
    \A f \in Paths :
        (\A d \in Defs : d.path = f => ~d.whole)
            => Existing(f).user = draft[f]

\* syncRule's repair, whatever went wrong before: once Vault, the user and the
\* faults are quiet, every rule that can be rendered is in its target with
\* mode 0600 and stays there - although other rules of the cycle keep failing.
InTarget(r) ==
    LET d == cfg[Daemon][r] IN
    /\ ~d.broken
    /\ HasSecret(d)
    /\ Readable(d)
    => /\ file[d.path] # Missing
       /\ file[d.path].mgd[r] = Current(d)
       /\ d.path \notin loose

Converges == <>[](\A r \in DOMAIN cfg[Daemon] : InTarget(r))

\* The loop does not fight itself: once the environment is quiet the daemon
\* stops rewriting targets, also when two rules share one.
Quiesces == <>[](pc[Daemon] # "record")

\* state.json converges with the rule set: while the daemon is not stopped
\* and its saves succeed, the entries of rules a refresh removed go away.
Undisrupted == \A kind \in {"crash", "fault"} : budget[kind] = Budget[kind]

StatePruned ==
    <>[](Undisrupted => \A r \in Rules \ DOMAIN cfg[Daemon] :
                            disk[r] = ZeroState)

\* What syncRule may rely on in every state: well-formed state and a gate that
\* hides no work.
SyncSound == TypeOK /\ SkipSound

\* What the daemon reaches once the rest of the world is quiet: targets in step
\* with Vault, no rewriting of them, no entries of removed rules.
SyncSettles == Converges /\ Quiesces /\ StatePruned
=============================================================================
