-------------------------- MODULE SyncEngineProofs --------------------------
(***************************************************************************)
(* Proofs about the sync engine: its types, the soundness of the skip gate *)
(* and the preservation of the user's text.                                *)
(***************************************************************************)
EXTENDS SyncEngine, TLAPS

-----------------------------------------------------------------------------
(* Inductive invariants, for the proofs.                                   *)

InRule == {"gate", "merge", "write", "record", "save"}

\* A process works only on rules of the configuration it holds.
Scope ==
    \A p \in Procs :
        /\ todo[p] \subseteq DOMAIN cfg[p]
        /\ pc[p] \in {"down", "idle"} => todo[p] = {}
        /\ pc[p] \in InRule => rule[p] \in todo[p]

\* A recorded entry describes the content whose checksum it holds.
Honest(r, st) ==
    st.hash # NoHash =>
        /\ st.cs # Missing
        /\ st.cs.mgd[r] = [def |-> st.hash, ver |-> st.ver, gen |-> 0]
        /\ Keyless(st.hash) => st.ver = 0

\* Entries in memory and in state.json are honest, and so is the one the
\* daemon is about to record.
HonestState ==
    /\ budget["destroy"] = 0
    /\ \A k \in Keys : vault[k].gen = 0
    /\ \A r \in Rules : Honest(r, disk[r])
    /\ \A p \in Procs : \A r \in Rules : Honest(r, mem[p][r])
    /\ \A p \in Procs : pc[p] \in InRule =>
            /\ sec[p].gen = 0
            /\ Keyless(Def(p)) => sec[p].ver = 0
    /\ \A p \in Procs : pc[p] = "record" =>
            /\ file[Def(p).path] # Missing
            /\ file[Def(p).path].mgd[rule[p]] = Render(Def(p), sec[p])
    /\ \A p \in DryRunProcs : pc[p] # "record"

\* The content a process is about to write back holds the user's last text.
FreshBase ==
    \A p \in Procs :
        /\ pc[p] = "write"
        /\ \A d \in Defs : d.path = Def(p).path => ~d.whole
        => base[p].user = draft[Def(p).path]

-----------------------------------------------------------------------------
(* Types.                                                                  *)

LEMMA DefType ==
    ASSUME TypeOK, Scope, NEW p \in Procs, NEW r \in DOMAIN cfg[p]
    PROVE  cfg[p][r] \in Defs /\ r \in Rules
BY ConfigsAssumption DEF TypeOK

LEMMA EmptyType == EmptyContent \in Contents
BY DEF EmptyContent, Contents

LEMMA RenderType ==
    ASSUME NEW d \in Defs, NEW s \in [ver: Nat, gen: Nat]
    PROVE  Render(d, s) \in Values
BY DEF Render, Values

LEMMA MergeType ==
    ASSUME NEW d \in Defs, NEW r \in Rules, NEW e \in Contents,
           NEW v \in Values
    PROVE  Merge(d, r, e, v) \in Contents
BY EmptyType DEF Merge, Contents

LEMMA ZeroType == ZeroState \in RuleStates
BY DEF ZeroState, RuleStates

LEMMA TypeInit == Init => TypeOK /\ Scope
<1> SUFFICES ASSUME Init PROVE TypeOK /\ Scope
    OBVIOUS
<1>1. vault \in [Keys -> Secrets]
    BY DEF Init, Secrets
<1>2. TypeOK
    BY <1>1, EmptyType, ZeroType, BudgetAssumption DEF Init, TypeOK, PCs
<1>3. Scope
    BY DEF Init, Scope, InRule
<1> QED BY <1>2, <1>3

LEMMA SpendType ==
    ASSUME TypeOK, NEW kind \in Kinds, Spend(kind)
    PROVE  budget' \in [Kinds -> Nat]
BY DEF TypeOK, Spend

LEMMA RuleDoneType ==
    ASSUME TypeOK, Scope, NEW p \in Procs, pc[p] \in InRule, RuleDone(p)
    PROVE  /\ pc' \in [Procs -> PCs]
           /\ todo' \in [Procs -> SUBSET Rules]
           /\ rule' \in [Procs -> Rules \cup {0}]
           /\ sec' \in [Procs -> [ver: Nat, gen: Nat]]
           /\ base' \in [Procs -> Contents]
           /\ cfg' = cfg => Scope'
<1>1. base' \in [Procs -> Contents]
    BY EmptyType DEF TypeOK, RuleDone
<1>2. sec' \in [Procs -> [ver: Nat, gen: Nat]]
    BY DEF TypeOK, RuleDone, NoSecretRead
<1>3. /\ pc' \in [Procs -> PCs]
      /\ todo' \in [Procs -> SUBSET Rules]
      /\ rule' \in [Procs -> Rules \cup {0}]
    BY DEF TypeOK, RuleDone, PCs
<1>4. cfg' = cfg => Scope'
    BY DEF TypeOK, RuleDone, Scope, InRule, PCs
<1> QED BY <1>1, <1>2, <1>3, <1>4

LEMMA GotoType ==
    ASSUME TypeOK, Scope, NEW p \in Procs, NEW step \in InRule,
           pc[p] \in InRule, Goto(p, step), cfg' = cfg
    PROVE  /\ pc' \in [Procs -> PCs]
           /\ todo' \in [Procs -> SUBSET Rules]
           /\ rule' \in [Procs -> Rules \cup {0}]
           /\ sec' \in [Procs -> [ver: Nat, gen: Nat]]
           /\ Scope'
BY DEF TypeOK, Goto, Scope, InRule, PCs

\* The steps of a cycle keep the types, and stay within the configuration.
LEMMA CycleType ==
    ASSUME TypeOK, Scope, NEW p \in Procs, Cycle(p)
    PROVE  TypeOK' /\ Scope'
<1>0. /\ \A r \in todo[p] : cfg[p][r] \in Defs /\ r \in Rules
      /\ pc[p] \in InRule => Def(p) \in Defs /\ rule[p] \in Rules
    BY DefType DEF Scope, Def
<1>1. CASE SyncRule(p)
  <2>1. PICK r \in First(todo[p]) : ReadSecret(p, r) \/ NoSecret(p, r)
      BY <1>1 DEF SyncRule
  <2>2. r \in todo[p] /\ r \in Rules /\ cfg[p][r] \in Defs
      BY <1>0 DEF First
  <2>3. CASE ReadSecret(p, r)
    <3>1. sec' \in [Procs -> [ver: Nat, gen: Nat]]
        BY <2>2, <2>3, DefsAssumption, KeysAssumption
        DEF ReadSecret, TypeOK, Secrets, NoSecretRead, Keyless
    <3>2. TypeOK'
        BY <1>1, <2>2, <2>3, <3>1 DEF SyncRule, ReadSecret, TypeOK, PCs
    <3>3. Scope'
        BY <1>1, <2>2, <2>3
        DEF SyncRule, ReadSecret, TypeOK, Scope, InRule
    <3> QED BY <3>2, <3>3
  <2>4. CASE NoSecret(p, r)
    <3>1. budget' \in [Kinds -> Nat]
        BY <2>4, SpendType DEF NoSecret, TypeOK, Kinds
    <3>2. TypeOK'
        BY <1>1, <2>2, <2>4, <3>1 DEF SyncRule, NoSecret, TypeOK, PCs
    <3>3. Scope'
        BY <1>1, <2>2, <2>4 DEF SyncRule, NoSecret, TypeOK, Scope, InRule
    <3> QED BY <3>2, <3>3
  <2> QED BY <2>1, <2>3, <2>4
<1>2. CASE EndCycle(p)
  <2>1. TypeOK'
      BY <1>2 DEF EndCycle, TypeOK, PCs
  <2>2. Scope'
      BY <1>2 DEF EndCycle, TypeOK, Scope, InRule
  <2> QED BY <2>1, <2>2
<1>3. CASE Gate(p)
  <2>1. loose' \in SUBSET Paths /\ budget' \in [Kinds -> Nat]
      BY <1>3, SpendType DEF Gate, Chmod, TypeOK, Kinds
  <2>2. CASE RuleDone(p)
      BY <1>3, <2>1, <2>2, RuleDoneType DEF Gate, TypeOK, InRule
  <2>3. CASE Goto(p, "merge") /\ UNCHANGED base
      BY <1>3, <2>1, <2>3, GotoType DEF Gate, TypeOK, InRule
  <2> QED BY <1>3, <2>2, <2>3 DEF Gate
<1>4. CASE ReadExisting(p)
  <2>1. budget' \in [Kinds -> Nat]
      BY <1>4, SpendType DEF ReadExisting, TypeOK, Kinds
  <2>2. CASE RuleDone(p)
      BY <1>4, <2>1, <2>2, RuleDoneType DEF ReadExisting, TypeOK, InRule
  <2>3. CASE /\ Goto(p, "write")
             /\ base' = [base EXCEPT ![p] = Existing(Def(p).path)]
    <3>1. Def(p).path \in Paths
        BY <1>0, <1>4, DefsAssumption DEF ReadExisting, InRule
    <3>2. Existing(Def(p).path) \in Contents
        BY <3>1, EmptyType DEF Existing, TypeOK
    <3> QED
        BY <1>4, <2>1, <2>3, <3>2, GotoType
        DEF ReadExisting, TypeOK, InRule
  <2> QED BY <1>4, <2>2, <2>3 DEF ReadExisting
<1>5. CASE WriteFile(p)
  <2>1. loose' \in SUBSET Paths /\ budget' \in [Kinds -> Nat]
      BY <1>5, SpendType DEF WriteFile, TypeOK, Kinds
  <2>2. CASE RuleDone(p) /\ UNCHANGED file
      BY <1>5, <2>1, <2>2, RuleDoneType DEF WriteFile, TypeOK, InRule
  <2>3. CASE /\ Goto(p, "record") /\ UNCHANGED base
             /\ file' = [file EXCEPT ![Def(p).path] =
                            Merge(Def(p), rule[p], base[p],
                                  Render(Def(p), sec[p]))]
    <3>1. Merge(Def(p), rule[p], base[p], Render(Def(p), sec[p]))
              \in Contents
        BY <1>0, <1>5, MergeType, RenderType DEF WriteFile, InRule, TypeOK
    <3> QED
        BY <1>5, <2>1, <2>3, <3>1, GotoType DEF WriteFile, TypeOK, InRule
  <2> QED BY <1>5, <2>2, <2>3 DEF WriteFile
<1>6. CASE Record(p)
  <2>1. loose' \in SUBSET Paths /\ budget' \in [Kinds -> Nat]
      BY <1>6, SpendType DEF Record, Chmod, TypeOK, Kinds
  <2>2. Def(p).path \in Paths
      BY <1>0, <1>6, DefsAssumption DEF Record, InRule
  <2>3. Entry(p) \in RuleStates
      BY <1>0, <1>6, <2>2 DEF Record, Entry, RuleStates, TypeOK, InRule
  <2> QED
      BY <1>0, <1>6, <2>1, <2>3, GotoType DEF Record, TypeOK, InRule
<1>7. CASE Save(p)
  <2>1. budget' \in [Kinds -> Nat] /\ disk' \in [Rules -> RuleStates]
      BY <1>7, SpendType DEF Save, TypeOK, Kinds
  <2> QED
      BY <1>7, <2>1, RuleDoneType DEF Save, TypeOK, InRule
<1> QED BY <1>1, <1>2, <1>3, <1>4, <1>5, <1>6, <1>7 DEF Cycle

LEMMA BeginType ==
    ASSUME TypeOK, Scope, NEW p \in Procs,
           NEW S \in SUBSET DOMAIN cfg[p], Begin(p, S),
           trigger' \in [Procs -> BOOLEAN], budget' \in [Kinds -> Nat]
    PROVE  TypeOK' /\ Scope'
<1>1. S \subseteq Rules
    BY DefType
<1>2. TypeOK'
    BY <1>1 DEF Begin, TypeOK, PCs
<1>3. Scope'
    BY DEF Begin, TypeOK, Scope, InRule
<1> QED BY <1>2, <1>3

LEMMA UserSavesType ==
    ASSUME TypeOK, Scope, NEW f \in Paths, NEW text \in Nat,
           NEW content \in Contents \cup {Missing},
           UserSaves(f, content, text)
    PROVE  TypeOK' /\ Scope'
<1>1. budget' \in [Kinds -> Nat]
    BY SpendType DEF UserSaves, Kinds
<1>2. TypeOK'
    BY <1>1 DEF UserSaves, engine, local, TypeOK
<1>3. Scope'
    BY DEF UserSaves, engine, local, Scope
<1> QED BY <1>2, <1>3

\* A step of the environment keeps the types.
LEMMA EnvironmentType ==
    ASSUME TypeOK, Scope,
           (\E k \in Keys : Vault(k)) \/ (\E f \in Paths : User(f))
    PROVE  TypeOK' /\ Scope'
<1>1. ASSUME NEW k \in Keys, Vault(k)
      PROVE  TypeOK' /\ Scope'
  <2>1. budget' \in [Kinds -> Nat]
      BY <1>1, SpendType
      DEF Vault, VaultWrite, VaultDelete, VaultDestroy, Kinds
  <2>2. vault' \in [Keys -> Secrets]
    <3>1. CASE VaultWrite(k)
        BY <3>1 DEF VaultWrite, TypeOK, Secrets
    <3>2. CASE VaultDelete(k)
        BY <3>2 DEF VaultDelete, TypeOK, Secrets
    <3>3. CASE VaultDestroy(k)
        BY <3>3 DEF VaultDestroy, TypeOK, Secrets
    <3> QED BY <1>1, <3>1, <3>2, <3>3 DEF Vault
  <2>3. UNCHANGED <<file, loose, draft, engine>>
      BY <1>1 DEF Vault, VaultWrite, VaultDelete, VaultDestroy
  <2>4. TypeOK'
      BY <2>1, <2>2, <2>3 DEF engine, local, TypeOK
  <2>5. Scope'
      BY <2>3 DEF engine, local, Scope
  <2> QED BY <2>4, <2>5
<1>2. ASSUME NEW f \in Paths, User(f)
      PROVE  TypeOK' /\ Scope'
  <2>0. /\ Existing(f) \in Contents
        /\ draft[f] \in Nat
        /\ file[f] # Missing => file[f] \in Contents
      BY EmptyType DEF Existing, TypeOK
  <2>1. CASE UserEdit(f)
    <3>1. [Existing(f) EXCEPT !.user = draft[f] + 1] \in Contents
        BY <2>0 DEF Contents
    <3> QED BY <2>0, <2>1, <3>1, UserSavesType DEF UserEdit
  <2>2. ASSUME NEW r \in Rules, UserTamper(f, r)
        PROVE  TypeOK' /\ Scope'
    <3>1. [file[f] EXCEPT !.mgd[r] = Tampered] \in Contents
        BY <2>0, <2>2 DEF UserTamper, Contents
    <3> QED BY <2>0, <2>2, <3>1, UserSavesType DEF UserTamper
  <2>3. CASE UserCorrupt(f)
    <3>1. [file[f] EXCEPT !.ok = ~@] \in Contents
        BY <2>0, <2>3 DEF UserCorrupt, Contents
    <3> QED BY <2>0, <2>3, <3>1, UserSavesType DEF UserCorrupt
  <2>4. CASE UserDelete(f)
      BY <2>4, UserSavesType DEF UserDelete
  <2>5. CASE UserChmod(f)
    <3>1. budget' \in [Kinds -> Nat]
        BY <2>5, SpendType DEF UserChmod, Kinds
    <3>2. TypeOK'
        BY <2>5, <3>1 DEF UserChmod, engine, local, TypeOK
    <3>3. Scope'
        BY <2>5 DEF UserChmod, engine, local, Scope
    <3> QED BY <3>2, <3>3
  <2> QED BY <1>2, <2>1, <2>2, <2>3, <2>4, <2>5 DEF User
<1> QED BY <1>1, <1>2

LEMMA TypeNext == TypeOK /\ Scope /\ [Next]_vars => TypeOK' /\ Scope'
<1> SUFFICES ASSUME TypeOK, Scope, [Next]_vars PROVE TypeOK' /\ Scope'
    OBVIOUS
<1>1. ASSUME NEW p \in Procs, Start(p)
      PROVE  TypeOK' /\ Scope'
  <2>1. budget' \in [Kinds -> Nat]
      BY <1>1, SpendType DEF Start, TypeOK, Kinds
  <2>2. TypeOK'
      BY <1>1, <2>1 DEF Start, TypeOK, PCs
  <2>3. Scope'
      BY <1>1 DEF Start, TypeOK, Scope, InRule
  <2> QED BY <2>2, <2>3
<1>2. ASSUME NEW p \in Procs, RunTriggered(p)
      PROVE  TypeOK' /\ Scope'
    BY <1>2, BeginType DEF RunTriggered, TypeOK
<1>3. ASSUME NEW p \in Procs, Stop(p)
      PROVE  TypeOK' /\ Scope'
  <2>1. budget' \in [Kinds -> Nat]
      BY <1>3, SpendType DEF Stop, Kinds
  <2>2. TypeOK'
      BY <1>3, <2>1, EmptyType, ZeroType
      DEF Stop, TypeOK, PCs, NoSecretRead
  <2>3. Scope'
      BY <1>3 DEF Stop, TypeOK, Scope, InRule
  <2> QED BY <2>2, <2>3
<1>4. CASE RunTick
    BY <1>4, BeginType, ProcsAssumption DEF RunTick, TypeOK
<1>5. CASE RunKeyless
  <2>1. budget' \in [Kinds -> Nat]
      BY <1>5, SpendType DEF RunKeyless, Kinds
  <2> QED BY <1>5, <2>1, BeginType, ProcsAssumption DEF RunKeyless, TypeOK
<1>6. ASSUME NEW k \in Keys, SyncRuleByPath(k)
      PROVE  TypeOK' /\ Scope'
  <2>1. budget' \in [Kinds -> Nat]
      BY <1>6, SpendType DEF SyncRuleByPath, Kinds
  <2> QED
      BY <1>6, <2>1, BeginType, ProcsAssumption
      DEF SyncRuleByPath, First, TypeOK
<1>7. CASE UpdateConfig
  <2>1. budget' \in [Kinds -> Nat]
      BY <1>7, SpendType DEF UpdateConfig, Kinds
  <2>2. TypeOK'
      BY <1>7, <2>1, ProcsAssumption DEF UpdateConfig, local, TypeOK
  <2>3. Scope'
      BY <1>7, ProcsAssumption DEF UpdateConfig, local, TypeOK, Scope, InRule
  <2> QED BY <2>2, <2>3
<1>8. CASE PruneAndTrigger
  <2>1. Pruned \in [Rules -> RuleStates]
      BY ZeroType, ProcsAssumption DEF Pruned, TypeOK
  <2>2. budget' \in [Kinds -> Nat] /\ disk' \in [Rules -> RuleStates]
      BY <1>8, <2>1, SpendType DEF PruneAndTrigger, TypeOK, Kinds
  <2>3. TypeOK'
      BY <1>8, <2>1, <2>2, ProcsAssumption DEF PruneAndTrigger, local, TypeOK
  <2>4. Scope'
      BY <1>8 DEF PruneAndTrigger, local, Scope
  <2> QED BY <2>3, <2>4
<1>9. CASE TriggerSync
  <2>1. budget' \in [Kinds -> Nat]
      BY <1>9, SpendType DEF TriggerSync, Kinds
  <2>2. TypeOK'
      BY <1>9, <2>1, ProcsAssumption DEF TriggerSync, local, TypeOK
  <2>3. Scope'
      BY <1>9 DEF TriggerSync, local, Scope
  <2> QED BY <2>2, <2>3
<1>10. CASE UNCHANGED vars
    BY <1>10 DEF vars, local, TypeOK, Scope
<1> QED
    BY <1>1, <1>2, <1>3, <1>4, <1>5, <1>6, <1>7, <1>8, <1>9, <1>10,
       CycleType, EnvironmentType
    DEF Next

\* Every variable of the engine keeps its type, and a process only ever works
\* on rules of the configuration it holds - whatever Vault, the user, config
\* refreshes, crashes and other processes do between its steps.
THEOREM TypeCorrect == Spec => [](TypeOK /\ Scope)
BY TypeInit, TypeNext, PTL DEF Spec

-----------------------------------------------------------------------------
(* The user's text.                                                        *)

\* A step that leaves files and drafts alone, and takes no process into the
\* window between reading and writing its target, keeps the user's text.
LEMMA TextFrame ==
    ASSUME UserTextKept, FreshBase, UNCHANGED <<file, draft>>,
           \A q \in Procs : pc'[q] = "write" =>
               /\ pc[q] = "write" /\ base'[q] = base[q]
               /\ cfg'[q] = cfg[q] /\ rule'[q] = rule[q]
    PROVE  UserTextKept' /\ FreshBase'
<1>1. UserTextKept'
    BY DEF UserTextKept, Existing
<1>2. FreshBase'
    BY DEF FreshBase, Def
<1> QED BY <1>1, <1>2

LEMMA TextSaved ==
    ASSUME TypeOK, UserTextKept, FreshBase, "merge" \notin RacyEdits,
           NEW f \in Paths, NEW content, NEW text,
           UserSaves(f, content, text),
           content = Missing => text = 0,
           content # Missing /\ Existing(f).user = draft[f]
               => content.user = text
    PROVE  UserTextKept' /\ FreshBase'
<1>1. /\ file' = [file EXCEPT ![f] = content]
      /\ draft' = [draft EXCEPT ![f] = text]
      /\ pc' = pc /\ cfg' = cfg /\ rule' = rule /\ base' = base
    BY DEF UserSaves, engine, local
<1>2. UserTextKept'
  <2> SUFFICES ASSUME NEW g \in Paths,
                      \A d \in Defs : d.path = g => ~d.whole
               PROVE  Existing(g)'.user = draft'[g]
      BY DEF UserTextKept
  <2>1. CASE g # f
      BY <1>1, <2>1 DEF UserTextKept, Existing, TypeOK
  <2>2. CASE g = f /\ content = Missing
      BY <1>1, <2>2 DEF Existing, EmptyContent, TypeOK
  <2>3. CASE g = f /\ content # Missing
    <3>1. Existing(f).user = draft[f]
        BY <2>3 DEF UserTextKept
    <3> QED BY <1>1, <2>3, <3>1 DEF Existing, TypeOK
  <2> QED BY <2>1, <2>2, <2>3
<1>3. FreshBase'
  <2> SUFFICES ASSUME NEW p \in Procs, pc[p] = "write",
                      \A d \in Defs : d.path = Def(p).path => ~d.whole
               PROVE  base[p].user = draft'[Def(p).path]
      BY <1>1 DEF FreshBase, Def
  <2>1. Def(p).path # f
      BY DEF UserSaves, Undisturbed
  <2> QED BY <1>1, <2>1 DEF FreshBase, TypeOK
<1> QED BY <1>2, <1>3

LEMMA TextNext ==
    ASSUME "merge" \notin RacyEdits, TypeOK, Scope, UserTextKept, FreshBase,
           [Next]_vars
    PROVE  UserTextKept' /\ FreshBase'
<1>1. ASSUME NEW p \in Procs,
             Start(p) \/ RunTriggered(p) \/ Stop(p) \/ SyncRule(p)
                 \/ EndCycle(p) \/ Gate(p) \/ Record(p) \/ Save(p)
      PROVE  UserTextKept' /\ FreshBase'
  <2>1. UNCHANGED <<file, draft>>
      BY <1>1
      DEF Start, RunTriggered, Begin, Stop, SyncRule, EndCycle, Gate, Record,
          Save
  <2>2. ASSUME NEW q \in Procs, pc'[q] = "write"
        PROVE  /\ pc[q] = "write" /\ base'[q] = base[q]
               /\ cfg'[q] = cfg[q] /\ rule'[q] = rule[q]
    <3>1. CASE Start(p) \/ RunTriggered(p) \/ Stop(p)
        BY <2>2, <3>1 DEF Start, RunTriggered, Begin, Stop, TypeOK
    <3>2. CASE SyncRule(p) \/ EndCycle(p)
        BY <2>2, <3>2
        DEF SyncRule, ReadSecret, NoSecret, EndCycle, TypeOK
    <3>3. CASE Gate(p) \/ Record(p) \/ Save(p)
        BY <2>2, <3>3 DEF Gate, Record, Save, RuleDone, Goto, TypeOK
    <3> QED BY <1>1, <3>1, <3>2, <3>3
  <2> QED BY <2>1, <2>2, TextFrame
<1>2. ASSUME NEW p \in Procs, ReadExisting(p)
      PROVE  UserTextKept' /\ FreshBase'
  <2>1. UNCHANGED <<file, draft, cfg>>
      BY <1>2 DEF ReadExisting
  <2>2. CASE RuleDone(p)
      BY <2>1, <2>2, TextFrame DEF RuleDone, TypeOK
  <2>3. CASE /\ Goto(p, "write")
             /\ base' = [base EXCEPT ![p] = Existing(Def(p).path)]
    <3>1. UserTextKept'
        BY <2>1 DEF UserTextKept, Existing
    <3>2. Def(p).path \in Paths
        BY <1>2, DefType, DefsAssumption DEF ReadExisting, Scope, InRule, Def
    <3>3. FreshBase'
        BY <2>1, <2>3, <3>2 DEF Goto, FreshBase, UserTextKept, Def, TypeOK
    <3> QED BY <3>1, <3>3
  <2> QED BY <1>2, <2>2, <2>3 DEF ReadExisting
<1>3. ASSUME NEW p \in Procs, WriteFile(p)
      PROVE  UserTextKept' /\ FreshBase'
  <2>1. UNCHANGED <<draft, cfg>>
      BY <1>3 DEF WriteFile
  <2>2. CASE RuleDone(p) /\ UNCHANGED file
      BY <2>1, <2>2, TextFrame DEF RuleDone, TypeOK
  <2>3. CASE /\ Goto(p, "record") /\ UNCHANGED base
             /\ file' = [file EXCEPT ![Def(p).path] =
                            Merge(Def(p), rule[p], base[p],
                                  Render(Def(p), sec[p]))]
    <3> DEFINE d == Def(p)
               new == Merge(d, rule[p], base[p], Render(d, sec[p]))
    <3>1. d \in Defs /\ d.path \in Paths /\ rule[p] \in Rules
        BY <1>3, DefType, DefsAssumption DEF WriteFile, Scope, InRule, Def
    <3>2. new # Missing
        BY <3>1, MergeType, RenderType, MissingAssumption DEF TypeOK
    <3>3. ~d.whole => new.user = base[p].user
        BY DEF Merge, TypeOK, Contents
    <3>4. ASSUME NEW g \in Paths,
                 \A e \in Defs : e.path = g => ~e.whole
          PROVE  Existing(g)'.user = draft'[g]
      <4>1. CASE g # d.path
          BY <2>1, <2>3, <3>4, <4>1 DEF UserTextKept, Existing, TypeOK
      <4>2. CASE g = d.path
        <5>1. file'[g] = new
            BY <2>3, <4>2 DEF TypeOK
        <5>2. base[p].user = draft[g]
            BY <1>3, <3>4, <4>2 DEF WriteFile, FreshBase
        <5> QED
            BY <2>1, <3>1, <3>2, <3>3, <3>4, <4>2, <5>1, <5>2 DEF Existing
      <4> QED BY <4>1, <4>2
    <3>5. UserTextKept'
        BY <3>4 DEF UserTextKept
    <3>6. FreshBase'
        BY <1>3, <2>1, <2>3 DEF Goto, FreshBase, Def, TypeOK
    <3> QED BY <3>5, <3>6
  <2> QED BY <1>3, <2>2, <2>3 DEF WriteFile
<1>4. CASE RunTick \/ RunKeyless \/ (\E k \in Keys : SyncRuleByPath(k))
    BY <1>4, TextFrame, ProcsAssumption
    DEF RunTick, RunKeyless, SyncRuleByPath, Begin, TypeOK
<1>5. CASE UpdateConfig
    BY <1>5, TextFrame, ProcsAssumption DEF UpdateConfig, local, TypeOK
<1>6. CASE PruneAndTrigger \/ TriggerSync
    BY <1>6, TextFrame DEF PruneAndTrigger, TriggerSync, local
<1>7. CASE \E k \in Keys : Vault(k)
    BY <1>7, TextFrame
    DEF Vault, VaultWrite, VaultDelete, VaultDestroy, engine, local
<1>8. ASSUME NEW f \in Paths, User(f)
      PROVE  UserTextKept' /\ FreshBase'
  <2>0. /\ Existing(f) \in Contents
        /\ file[f] # Missing => file[f] \in Contents /\ Existing(f) = file[f]
      BY EmptyType DEF Existing, TypeOK
  <2>1. CASE UserEdit(f)
    <3> DEFINE new == [Existing(f) EXCEPT !.user = draft[f] + 1]
    <3>0. draft[f] \in Nat
        BY DEF TypeOK
    <3>1. new \in Contents /\ new.user = draft[f] + 1
        BY <2>0, <3>0 DEF Contents
    <3>2. UserSaves(f, new, draft[f] + 1)
        BY <2>1 DEF UserEdit
    <3>3. new # Missing
        BY <3>1, MissingAssumption
    <3> HIDE DEF new
    <3> QED BY <3>1, <3>2, <3>3, TextSaved
  <2>2. ASSUME NEW r \in Rules, UserTamper(f, r)
        PROVE  UserTextKept' /\ FreshBase'
    <3>1. /\ [file[f] EXCEPT !.mgd[r] = Tampered] \in Contents
          /\ [file[f] EXCEPT !.mgd[r] = Tampered].user = Existing(f).user
        BY <2>0, <2>2 DEF UserTamper, Contents
    <3> QED
        BY <2>2, <3>1, TextSaved, MissingAssumption DEF UserTamper
  <2>3. CASE UserCorrupt(f)
    <3>1. /\ [file[f] EXCEPT !.ok = ~@] \in Contents
          /\ [file[f] EXCEPT !.ok = ~@].user = Existing(f).user
        BY <2>0, <2>3 DEF UserCorrupt, Contents
    <3> QED
        BY <2>3, <3>1, TextSaved, MissingAssumption DEF UserCorrupt
  <2>4. CASE UserDelete(f)
      BY <2>4, TextSaved DEF UserDelete
  <2>5. CASE UserChmod(f)
      BY <2>5, TextFrame DEF UserChmod, engine, local
  <2> QED BY <1>8, <2>1, <2>2, <2>3, <2>4, <2>5 DEF User
<1>9. CASE UNCHANGED vars
    BY <1>9, TextFrame DEF vars, local
<1> QED
    BY <1>1, <1>2, <1>3, <1>4, <1>5, <1>6, <1>7, <1>8, <1>9
    DEF Next, Cycle

\* As long as the user does not save a target between a rule's read of it and
\* its write, no run of the engine - any number of processes, crashes, failed
\* writes and config changes - loses or reverts the user's text in a merged
\* target.
THEOREM UserTextSafe ==
    ASSUME "merge" \notin RacyEdits
    PROVE  Spec => []UserTextKept
<1>1. Init => UserTextKept /\ FreshBase
    BY DEF Init, UserTextKept, FreshBase, Existing, EmptyContent
<1>2. TypeOK /\ Scope /\ UserTextKept /\ FreshBase /\ [Next]_vars
          => UserTextKept' /\ FreshBase'
    BY TextNext
<1> QED BY <1>1, <1>2, TypeCorrect, PTL DEF Spec

-----------------------------------------------------------------------------
(* The skip gate.                                                          *)

\* What the gate's soundness rests on: one process writes, nobody saves a
\* target between its write and its checksum, and no secret's version counter
\* starts again.
OneWriter == Procs \ DryRunProcs = {Daemon}
SafeGate == /\ OneWriter
            /\ "record" \notin RacyEdits
            /\ Budget["destroy"] = 0

\* The parts of HonestState that concern the rule in progress survive a step
\* that takes no process further into syncRule and leaves the target alone.
Settled ==
    /\ \A q \in Procs : pc'[q] \in InRule =>
           /\ pc[q] \in InRule /\ cfg'[q] = cfg[q]
           /\ rule'[q] = rule[q] /\ sec'[q] = sec[q]
    /\ \A q \in Procs : pc'[q] = "record" =>
           /\ pc[q] = "record"
           /\ file'[Def(q).path] = file[Def(q).path]

LEMMA SpendKeeps ==
    ASSUME TypeOK, budget["destroy"] = 0, NEW kind, Spend(kind)
    PROVE  kind # "destroy" /\ budget'["destroy"] = 0
BY DEF Spend, TypeOK, Kinds

LEMMA HonestFrame ==
    ASSUME TypeOK, HonestState, Settled,
           budget'["destroy"] = 0,
           \A k \in Keys : vault'[k].gen = 0,
           \A r \in Rules : Honest(r, disk'[r]),
           \A p \in Procs : \A r \in Rules : Honest(r, mem'[p][r])
    PROVE  HonestState'
<1>1. \A p \in Procs : pc'[p] \in InRule =>
          /\ sec'[p].gen = 0
          /\ Keyless(Def(p)') => sec'[p].ver = 0
    BY DEF HonestState, Settled, Def
<1>2. \A p \in Procs : pc'[p] = "record" =>
          /\ file'[Def(p)'.path] # Missing
          /\ file'[Def(p)'.path].mgd[rule'[p]] = Render(Def(p)', sec'[p])
    BY DEF HonestState, Settled, Def, InRule
<1>3. \A p \in DryRunProcs : pc'[p] # "record"
    BY ProcsAssumption DEF HonestState, Settled
<1> QED BY <1>1, <1>2, <1>3 DEF HonestState, Honest

LEMMA ZeroHonest == \A r : Honest(r, ZeroState)
BY DEF Honest, ZeroState

\* What WriteFile writes for a rule is what Render made of its secret.
LEMMA MergeWrites ==
    ASSUME NEW d \in Defs, NEW r \in Rules, NEW e \in Contents,
           NEW v \in Values
    PROVE  /\ Merge(d, r, e, v) # Missing
           /\ Merge(d, r, e, v).mgd[r] = v
<1>1. Merge(d, r, e, v) \in Contents
    BY MergeType
<1>2. Merge(d, r, e, v).mgd[r] = v
    BY EmptyType DEF Merge, Contents
<1> QED BY <1>1, <1>2, MissingAssumption

LEMMA HonestCycle ==
    ASSUME SafeGate, TypeOK, Scope, HonestState, NEW p \in Procs, Cycle(p)
    PROVE  HonestState'
<1>0. /\ budget'["destroy"] = 0
      /\ UNCHANGED <<vault, cfg>>
  <2>1. budget' = budget \/ Spend("fault")
      BY DEF Cycle, SyncRule, ReadSecret, NoSecret, EndCycle, Gate, Chmod,
             ReadExisting, WriteFile, Record, Save
  <2>2. UNCHANGED <<vault, cfg>>
      BY DEF Cycle, SyncRule, EndCycle, Gate, ReadExisting, WriteFile,
             Record, Save
  <2> QED BY <2>1, <2>2, SpendKeeps DEF HonestState
<1>1. pc[p] \in InRule => /\ Def(p) \in Defs /\ rule[p] \in Rules
                          /\ Def(p).path \in Paths
    BY DefType, DefsAssumption DEF Scope, Def
<1>2. CASE SyncRule(p)
  <2>1. PICK r \in First(todo[p]) : ReadSecret(p, r) \/ NoSecret(p, r)
      BY <1>2 DEF SyncRule
  <2>2. UNCHANGED <<file, disk, mem>> /\ pc[p] = "next"
      BY <1>2 DEF SyncRule
  <2>3. CASE NoSecret(p, r)
    <3>1. Settled
        BY <1>0, <2>2, <2>3 DEF NoSecret, Settled
    <3> QED BY <1>0, <2>2, <3>1, HonestFrame DEF HonestState
  <2>4. CASE ReadSecret(p, r)
    <3>1. cfg[p][r] \in Defs /\ r \in Rules
        BY DefType DEF Scope, First
    <3>2. \A q \in Procs \ {p} :
              /\ pc'[q] = pc[q] /\ rule'[q] = rule[q] /\ sec'[q] = sec[q]
              /\ Def(q)' = Def(q)
        BY <1>0, <2>4 DEF ReadSecret, Def, TypeOK
    <3>3. pc'[p] = "gate" /\ Def(p)' = cfg[p][r]
        BY <1>0, <2>4 DEF ReadSecret, Def, TypeOK
    <3>4. sec'[p].gen = 0 /\ (Keyless(cfg[p][r]) => sec'[p].ver = 0)
      <4>1. CASE Keyless(cfg[p][r])
          BY <2>4, <4>1 DEF ReadSecret, NoSecretRead, TypeOK
      <4>2. CASE ~Keyless(cfg[p][r])
        <5>1. cfg[p][r].key \in Keys
            BY <3>1, <4>2, DefsAssumption DEF Keyless
        <5> QED BY <2>4, <4>2, <5>1 DEF ReadSecret, HonestState, TypeOK
      <4> QED BY <4>1, <4>2
    <3>5. \A q \in Procs : pc'[q] \in InRule =>
              sec'[q].gen = 0 /\ (Keyless(Def(q)') => sec'[q].ver = 0)
        BY <3>2, <3>3, <3>4 DEF HonestState
    <3>6. \A q \in Procs : pc'[q] = "record" =>
              /\ file'[Def(q)'.path] # Missing
              /\ file'[Def(q)'.path].mgd[rule'[q]] = Render(Def(q)', sec'[q])
        BY <2>2, <3>2, <3>3 DEF HonestState
    <3>7. \A q \in DryRunProcs : pc'[q] # "record"
        BY <3>2, <3>3, ProcsAssumption DEF HonestState
    <3> QED
        BY <1>0, <2>2, <3>5, <3>6, <3>7 DEF HonestState, Honest
  <2> QED BY <2>1, <2>3, <2>4
<1>3. CASE EndCycle(p)
  <2>1. Settled
      BY <1>0, <1>3 DEF EndCycle, Settled, InRule, TypeOK
  <2> QED BY <1>0, <1>3, <2>1, HonestFrame DEF HonestState, EndCycle
<1>4. CASE Gate(p) \/ ReadExisting(p)
  <2>1. UNCHANGED <<file, disk, mem>> /\ pc[p] \in InRule
      BY <1>4 DEF Gate, ReadExisting, InRule
  <2>2. RuleDone(p) \/ Goto(p, "merge") \/ Goto(p, "write")
      BY <1>4 DEF Gate, ReadExisting
  <2>3. Settled
      BY <1>0, <2>1, <2>2 DEF RuleDone, Goto, Settled, InRule, TypeOK
  <2> QED BY <1>0, <2>1, <2>3, HonestFrame DEF HonestState
<1>5. CASE WriteFile(p)
  <2>1. UNCHANGED <<disk, mem>> /\ pc[p] = "write"
      BY <1>5 DEF WriteFile
  <2>2. CASE RuleDone(p) /\ UNCHANGED file
    <3>1. Settled
        BY <1>0, <2>1, <2>2 DEF RuleDone, Settled, InRule, TypeOK
    <3> QED BY <1>0, <2>1, <3>1, HonestFrame DEF HonestState
  <2>3. CASE /\ p \notin DryRunProcs /\ Goto(p, "record")
             /\ file' = [file EXCEPT ![Def(p).path] =
                            Merge(Def(p), rule[p], base[p],
                                  Render(Def(p), sec[p]))]
    <3>1. \A q \in Procs : q # p => q \in DryRunProcs
        BY <2>3 DEF SafeGate, OneWriter
    <3>2. \A q \in Procs : pc'[q] = "record" => q = p
        BY <2>3, <3>1 DEF HonestState, Goto, TypeOK
    <3>3. /\ Def(p)' = Def(p) /\ rule'[p] = rule[p] /\ sec'[p] = sec[p]
          /\ \A q \in Procs : Def(q)' = Def(q) /\ sec'[q] = sec[q]
        BY <1>0, <2>3 DEF Goto, Def
    <3>4. /\ file'[Def(p).path] # Missing
          /\ file'[Def(p).path].mgd[rule[p]] = Render(Def(p), sec[p])
      <4>1. Render(Def(p), sec[p]) \in Values
          BY <1>1, <2>1, RenderType DEF InRule, TypeOK
      <4>2. base[p] \in Contents
          BY DEF TypeOK
      <4> DEFINE new == Merge(Def(p), rule[p], base[p],
                              Render(Def(p), sec[p]))
      <4>3. new # Missing /\ new.mgd[rule[p]] = Render(Def(p), sec[p])
          BY <1>1, <2>1, <4>1, <4>2, MergeWrites DEF InRule
      <4>4. file'[Def(p).path] = new
          BY <1>1, <2>1, <2>3 DEF InRule, TypeOK
      <4> QED BY <4>3, <4>4
    <3>5. \A q \in Procs : pc'[q] \in InRule => pc[q] \in InRule
        BY <2>1, <2>3 DEF Goto, InRule, TypeOK
    <3>6. \A q \in DryRunProcs : pc'[q] # "record"
        BY <2>3, <3>2, ProcsAssumption
    <3> QED
        BY <1>0, <2>1, <3>2, <3>3, <3>4, <3>5, <3>6 DEF HonestState, Honest
  <2> QED BY <1>5, <2>2, <2>3 DEF WriteFile
<1>6. CASE Record(p)
  <2>1. /\ UNCHANGED <<file, disk>> /\ Goto(p, "save")
        /\ mem' = [mem EXCEPT ![p][rule[p]] = Entry(p)]
        /\ pc[p] = "record"
      BY <1>6 DEF Record
  <2>2. Settled
      BY <1>0, <2>1 DEF Goto, Settled, InRule, TypeOK
  <2>3. Honest(rule[p], Entry(p))
    <3>1. /\ file[Def(p).path] # Missing
          /\ file[Def(p).path].mgd[rule[p]] = Render(Def(p), sec[p])
          /\ sec[p].gen = 0 /\ (Keyless(Def(p)) => sec[p].ver = 0)
        BY <2>1 DEF HonestState, InRule
    <3>2. Render(Def(p), sec[p])
              = [def |-> Def(p), ver |-> sec[p].ver, gen |-> 0]
        BY <3>1 DEF Render
    <3> QED BY <3>1, <3>2 DEF Honest, Entry
  <2>4. \A q \in Procs : \A r \in Rules : Honest(r, mem'[q][r])
      BY <2>1, <2>3 DEF HonestState, TypeOK
  <2> QED BY <1>0, <2>1, <2>2, <2>4, HonestFrame DEF HonestState
<1>7. CASE Save(p)
  <2>1. /\ UNCHANGED <<file, mem>> /\ RuleDone(p)
        /\ disk' = mem[p] \/ disk' = disk
      BY <1>7 DEF Save
  <2>2. Settled
      BY <1>0, <2>1 DEF RuleDone, Settled, InRule, TypeOK
  <2> QED BY <1>0, <2>1, <2>2, HonestFrame DEF HonestState
<1> QED BY <1>2, <1>3, <1>4, <1>5, <1>6, <1>7 DEF Cycle

LEMMA HonestNext ==
    ASSUME SafeGate, TypeOK, Scope, HonestState, [Next]_vars
    PROVE  HonestState'
<1>1. ASSUME NEW p \in Procs, Start(p)
      PROVE  HonestState'
  <2>1. budget'["destroy"] = 0
      BY <1>1, SpendKeeps DEF Start, HonestState
  <2>2. Settled
      BY <1>1 DEF Start, Settled, InRule, TypeOK
  <2>3. \A q \in Procs : \A r \in Rules : Honest(r, mem'[q][r])
      BY <1>1 DEF Start, HonestState, TypeOK
  <2> QED BY <1>1, <2>1, <2>2, <2>3, HonestFrame DEF Start, HonestState
<1>2. ASSUME NEW p \in Procs, NEW S, Begin(p, S), budget'["destroy"] = 0
      PROVE  HonestState'
  <2>1. Settled
      BY <1>2 DEF Begin, Settled, InRule, TypeOK
  <2> QED BY <1>2, <2>1, HonestFrame DEF Begin, HonestState
<1>3. ASSUME NEW p \in Procs, RunTriggered(p)
      PROVE  HonestState'
    BY <1>2, <1>3 DEF RunTriggered, HonestState
<1>4. CASE RunTick \/ RunKeyless \/ (\E k \in Keys : SyncRuleByPath(k))
  <2>1. budget'["destroy"] = 0
      BY <1>4, SpendKeeps DEF RunTick, RunKeyless, SyncRuleByPath, HonestState
  <2> QED
      BY <1>2, <1>4, <2>1, ProcsAssumption
      DEF RunTick, RunKeyless, SyncRuleByPath
<1>5. ASSUME NEW p \in Procs, Stop(p)
      PROVE  HonestState'
  <2>1. budget'["destroy"] = 0
      BY <1>5, SpendKeeps DEF Stop, HonestState
  <2>2. Settled
      BY <1>5 DEF Stop, Settled, InRule, TypeOK
  <2>3. \A q \in Procs : \A r \in Rules : Honest(r, mem'[q][r])
      BY <1>5, ZeroHonest DEF Stop, HonestState, TypeOK
  <2> QED BY <1>5, <2>1, <2>2, <2>3, HonestFrame DEF Stop, HonestState
<1>6. CASE UpdateConfig
  <2>1. budget'["destroy"] = 0
      BY <1>6, SpendKeeps DEF UpdateConfig, HonestState
  <2>2. Settled
      BY <1>6, ProcsAssumption
      DEF UpdateConfig, local, Settled, InRule, TypeOK
  <2> QED
      BY <1>6, <2>1, <2>2, HonestFrame DEF UpdateConfig, local, HonestState
<1>7. CASE PruneAndTrigger
  <2>1. budget'["destroy"] = 0
      BY <1>7, SpendKeeps DEF PruneAndTrigger, HonestState
  <2>2. Settled
      BY <1>7 DEF PruneAndTrigger, local, Settled
  <2>3. \A r \in Rules : Honest(r, Pruned[r])
      BY ZeroHonest, ProcsAssumption DEF Pruned, HonestState
  <2>4. /\ \A r \in Rules : Honest(r, disk'[r])
        /\ \A q \in Procs : \A r \in Rules : Honest(r, mem'[q][r])
      BY <1>7, <2>3, ProcsAssumption DEF PruneAndTrigger, HonestState, TypeOK
  <2> QED
      BY <1>7, <2>1, <2>2, <2>4, HonestFrame
      DEF PruneAndTrigger, HonestState
<1>8. CASE TriggerSync
  <2>1. budget'["destroy"] = 0
      BY <1>8, SpendKeeps DEF TriggerSync, HonestState
  <2>2. Settled
      BY <1>8 DEF TriggerSync, local, Settled
  <2> QED BY <1>8, <2>1, <2>2, HonestFrame DEF TriggerSync, HonestState
<1>9. ASSUME NEW k \in Keys, Vault(k)
      PROVE  HonestState'
  <2>1. VaultWrite(k) \/ VaultDelete(k)
      BY <1>9, SpendKeeps DEF Vault, VaultDestroy, HonestState
  <2>2. budget'["destroy"] = 0
      BY <2>1, SpendKeeps DEF VaultWrite, VaultDelete, HonestState
  <2>3. \A j \in Keys : vault'[j].gen = 0
    <3>1. vault'[k].gen = vault[k].gen
        BY <2>1 DEF VaultWrite, VaultDelete, TypeOK
    <3>2. \A j \in Keys : j # k => vault'[j] = vault[j]
        BY <2>1 DEF VaultWrite, VaultDelete, TypeOK
    <3> QED BY <3>1, <3>2 DEF HonestState
  <2>4. UNCHANGED <<file, engine>>
      BY <2>1 DEF VaultWrite, VaultDelete
  <2>5. Settled
      BY <2>4 DEF engine, local, Settled
  <2> QED
      BY <2>2, <2>3, <2>4, <2>5, HonestFrame DEF engine, HonestState
<1>10. ASSUME NEW f \in Paths, User(f)
       PROVE  HonestState'
  <2>1. /\ UNCHANGED <<vault, engine>>
        /\ budget'["destroy"] = 0
      BY <1>10, SpendKeeps
      DEF User, UserEdit, UserTamper, UserCorrupt, UserDelete, UserSaves,
          UserChmod, HonestState
  <2>2. /\ \A g \in Paths : g # f => file'[g] = file[g]
        /\ UNCHANGED file \/ Undisturbed(f)
      BY <1>10
      DEF User, UserEdit, UserTamper, UserCorrupt, UserDelete, UserSaves,
          UserChmod, TypeOK
  <2>3. \A q \in Procs : pc[q] = "record" => Def(q).path \in Paths
      BY DefType, DefsAssumption DEF Scope, Def, InRule
  <2>4. Settled
      BY <2>1, <2>2, <2>3
      DEF engine, local, Settled, Undisturbed, SafeGate
  <2> QED BY <2>1, <2>4, HonestFrame DEF engine, HonestState
<1>11. CASE UNCHANGED vars
  <2>1. Settled
      BY <1>11 DEF vars, local, Settled
  <2> QED BY <1>11, <2>1, HonestFrame DEF vars, HonestState
<1> QED
    BY <1>1, <1>3, <1>4, <1>5, <1>6, <1>7, <1>8, <1>9, <1>10, <1>11,
       HonestCycle
    DEF Next

LEMMA HonestSkips ==
    ASSUME TypeOK, Scope, HonestState
    PROVE  SkipSound
<1> SUFFICES ASSUME NEW p \in Procs, NEW r \in DOMAIN cfg[p],
                    HasSecret(cfg[p][r]),
                    Skips(cfg[p][r], vault[cfg[p][r].key].ver, mem[p][r])
             PROVE  /\ file[cfg[p][r].path] # Missing
                    /\ file[cfg[p][r].path].mgd[r] = Current(cfg[p][r])
    BY DEF SkipSound
<1> DEFINE d == cfg[p][r]
           st == mem[p][r]
<1>1. d \in Defs /\ r \in Rules
    BY DefType
<1>2. st.hash = d /\ file[d.path] = st.cs
    BY DEF Skips
<1>3. /\ st.cs # Missing
      /\ st.cs.mgd[r] = [def |-> d, ver |-> st.ver, gen |-> 0]
      /\ Keyless(d) => st.ver = 0
    BY <1>1, <1>2, DefsAssumption DEF HonestState, Honest
<1>4. CASE Keyless(d)
    BY <1>2, <1>3, <1>4 DEF Current, Render
<1>5. CASE ~Keyless(d)
  <2>1. d.key \in Keys
      BY <1>1, <1>5, DefsAssumption DEF Keyless
  <2>2. vault[d.key].gen = 0 /\ st.ver = vault[d.key].ver
      BY <1>5, <2>1 DEF HonestState, Skips
  <2> QED BY <1>2, <1>3, <1>5, <2>2 DEF Current, Render
<1> QED BY <1>4, <1>5

\* With one writing process, no secret whose version counter starts again and
\* no save of a target in the instant between a write and its checksum, the
\* skip gate of syncRule is sound: through every crash, lost state.json, failed
\* step and reconfiguration it never skips a rule whose target is not current.
THEOREM SkipGateSound ==
    ASSUME SafeGate
    PROVE  Spec => []SkipSound
<1>1. Init => HonestState
    BY ZeroHonest, ProcsAssumption
    DEF Init, HonestState, SafeGate, InRule
<1>2. TypeOK /\ Scope /\ HonestState /\ [Next]_vars => HonestState'
    BY HonestNext
<1>3. TypeOK /\ Scope /\ HonestState => SkipSound
    BY HonestSkips
<1> QED BY <1>1, <1>2, <1>3, TypeCorrect, PTL DEF Spec

\* With one writer whose secrets keep their version counters, the state that
\* syncRule and saveState leave is well formed and never claims that a stale
\* target is current.
THEOREM EngineSound ==
    ASSUME SafeGate
    PROVE  Spec => []SyncSound
<1>1. TypeOK /\ SkipSound => SyncSound
    BY DEF SyncSound
<1> QED BY <1>1, TypeCorrect, SkipGateSound, PTL
=============================================================================
