---------------------------- MODULE MCSyncEngine ----------------------------
(***************************************************************************)
(* Small instances of SyncEngine.                                          *)
(***************************************************************************)
EXTENDS SyncEngine, TLC

CONSTANTS daemon, oneshot, k1, f1, f2, nokey, nohash, missing, tampered,
          noval

Def1(key, path, tmpl, whole, broken) ==
    [key |-> key, path |-> path, tmpl |-> tmpl, whole |-> whole,
     broken |-> broken]

\* A merged rule, the same with an edited template or with one that does not
\* render, a text rule reading the same secret, and a keyless rule that shares
\* the merged rule's target.
Merged == Def1(k1, f1, 0, FALSE, FALSE)
Edited == Def1(k1, f1, 1, FALSE, FALSE)
Broken == Def1(k1, f1, 2, FALSE, TRUE)
TextRule == Def1(k1, f2, 0, TRUE, FALSE)
Literal == Def1(nokey, f1, 0, FALSE, FALSE)

MCDefs == {Merged, Edited, Broken, TextRule, Literal}

OneProc == {daemon}
TwoProcs == {daemon, oneshot}

\* Rule sets for the runs.
SharedTarget == {<<Merged, Literal>>}
Reconfigured == {<<Edited, Literal, TextRule>>, <<Broken, TextRule>>}

Zero == [k \in Kinds |-> 0]

\* Budgets: what happens around the engine, and how often.
SafetyBudget == [Zero EXCEPT !["write"] = 2, !["edit"] = 1, !["fault"] = 1]
LiveBudget == [k \in Kinds |-> IF k = "fault" THEN 0 ELSE 1]

NoRace == {}
MergeRace == {"merge"}
NoDryRun == {}
OneshotDry == {oneshot}
=============================================================================
