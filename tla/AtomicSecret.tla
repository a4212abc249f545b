---------------------------- MODULE AtomicSecret ----------------------------
(***************************************************************************)
(* What the secret editor promises its user (internal/web/secretedit.go):  *)
(* saving a row is one step that changes that row, of exactly the document *)
(* the page showed.  A page whose secret was removed under it is "lapsed"  *)
(* and promises nothing.                                                   *)
(***************************************************************************)
EXTENDS Integers

CONSTANTS
    Tabs,  \* pages open on the secret
    Names, \* field names
    Values \* field values

VARIABLES
    fields, \* the document: the value of each field, None where there is none
    writes, \* writes so far
    writer, \* who made the last one: a tab, the command line or "other"
    view    \* what each page shows, or "lapsed"

atomicVars == <<fields, writes, writer, view>>

None == [typed |-> FALSE, text |-> "none"]

Lapsed == [n \in Names |-> [typed |-> FALSE, text |-> "lapsed"]]

Document == [Names -> Values \cup {None}]

Empty == [n \in Names |-> None]

\* One row: its value set, renamed, added or removed.
RowChange(before, after) ==
    \E was, now \in Names :
        /\ \A n \in Names \ {was, now} : after[n] = before[n]
        /\ was # now => before[now] = None /\ after[was] = None

AtomicInit ==
    /\ fields \in Document /\ writes = 0 /\ writer = "other"
    /\ view = [t \in Tabs |-> Empty]

See(t) ==
    /\ view' = [view EXCEPT ![t] = fields]
    /\ UNCHANGED <<fields, writes, writer>>

SaveRow(t) ==
    /\ view[t] \in {fields, Lapsed}
    /\ fields' \in Document
    /\ view[t] = fields => RowChange(fields, fields')
    /\ writes' = writes + 1 /\ writer' = t
    /\ UNCHANGED view

\* The programming interface and everybody else write whole documents.
WriteWhole ==
    /\ fields' \in Document
    /\ writes' = writes + 1 /\ writer' \in {"other", "cli"}
    /\ UNCHANGED view

\* The secret is removed, and with it what the pages rest on: its versions may
\* start again from 1, or the last one stays without data.
Erase ==
    /\ fields' = Empty
    /\ writes' = writes + 1 /\ writer' = "other"
    /\ view' = [t \in Tabs |-> Lapsed]

AtomicNext == (\E t \in Tabs : See(t) \/ SaveRow(t)) \/ WriteWhole \/ Erase

AtomicSpec == AtomicInit /\ [][AtomicNext]_atomicVars
=============================================================================
