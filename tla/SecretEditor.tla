---------------------------- MODULE SecretEditor ----------------------------
(***************************************************************************)
(* The secret editor of the web interface: one secret below an editable    *)
(* folder, the pages open on it, the JSON interface and other writers.     *)
(* (internal/web/secretedit.go, ui_secret_edit.go, ui_secrets.go;          *)
(* internal/kvpath/editable.go; internal/vault/client.go; kv.go)           *)
(***************************************************************************)
EXTENDS Integers

CONSTANTS
    Tabs,      \* pages open on the secret
    Names,     \* field names that the form can render
    Texts,     \* what a value looks like in the form
    MaxWrites, \* writes of the secret
    MaxTries   \* kvCASAttempts

VARIABLES
    fields,   \* the current data section
    version,  \* KVv2 version; 0 when there is no secret
    life,     \* times the secret was removed
    managed,  \* the path is an enrolment's target
    tab,      \* each page: what it shows and the request it has sent
    cli,      \* a `dotvault kv` command
    writes, writer  \* writes so far and who made the last one

editVars == <<fields, version, life, managed, tab, cli, writes, writer>>

\* No value, and no name
None == [typed |-> FALSE, text |-> "none"]

NoName == "noname"

\* What stands for no name, no value, a lapsed page and the other writers is
\* none of the names, texts and pages there are.
ASSUME MarksAssumption ==
    /\ NoName \notin Names
    /\ "none" \notin Texts /\ "lapsed" \notin Texts
    /\ "other" \notin Tabs /\ "cli" \notin Tabs

NoEdit == [was |-> NoName, name |-> NoName, text |-> "none", delete |-> FALSE]

\* A value is a string or another JSON value; the form shows both as text.
Values == [typed : BOOLEAN, text : Texts]

Document == [Names -> Values \cup {None}]

Empty == [n \in Names |-> None]

Typed(text) == [typed |-> TRUE, text |-> text]

Plain(text) == [typed |-> FALSE, text |-> text]

displayFieldValue(v) == v.text

\* The whole documents that are written: any fields, none of them a string.
Documents == [Names -> {None} \cup {Typed(text) : text \in Texts}] \ {Empty}

Shown(doc, v, l) == [pc |-> "page", doc |-> doc, version |-> v, life |-> l, edit |-> NoEdit,
                     read |-> Empty, whole |-> Empty]

\* What `dotvault kv patch` may be asked for: fields to set, others to remove.
Patches ==
    {p \in [set : Documents \cup {Empty}, remove : SUBSET Names] :
        /\ p.set # Empty \/ p.remove # {}
        /\ \A n \in p.remove : p.set[n] = None}

\* A command: its patch, what it has read and merged, and its attempts.
NoCommand == [pc |-> "none", patch |-> [set |-> Empty, remove |-> {}],
              merged |-> Empty, version |-> 0, life |-> 0, tries |-> 0]

Ended == [NoCommand EXCEPT !.pc = "ended"]

EditInit ==
    /\ \/ cli = NoCommand /\ fields = Empty /\ version = 0
       \/ \E p \in Patches : cli = [NoCommand EXCEPT !.pc = "read", !.patch = p]
          /\ fields \in Document /\ version = 1
    /\ life = 0 /\ managed = FALSE
    /\ tab = [t \in Tabs |-> Shown(Empty, 0, 0)]
    /\ writes = 0 /\ writer = "other"

\* EditPolicy.Allow: the folder is editable and the path is not an enrolment's.
Allow == ~managed

-----------------------------------------------------------------------------
(***************************************************************************)
(* Vault.                                                                  *)
(***************************************************************************)
Put(doc, who) ==
    /\ writes < MaxWrites
    /\ fields' = doc /\ version' = version + 1
    /\ writes' = writes + 1 /\ writer' = who

\* Mutant: any version will do.
PutAnyway(doc, cas, who) == Put(doc, who)

WriteKVv2CAS(doc, cas, who) ==
    IF cas = version THEN Put(doc, who) ELSE UNCHANGED <<fields, version, writes, writer>>

\* The metadata delete forgets the versions as well: the next one is 1 again.
DeleteKVv2 ==
    /\ writes < MaxWrites
    /\ fields' = Empty /\ version' = 0 /\ life' = life + 1
    /\ writes' = writes + 1 /\ writer' = "other"

-----------------------------------------------------------------------------
(***************************************************************************)
(* The page.                                                               *)
(***************************************************************************)

\* A page is rendered, also again after a refusal; a secret that does not exist
\* is shown as an empty one at version 0.
View(t) ==
    /\ tab[t].pc \in {"page", "refused"}
    /\ tab' = [tab EXCEPT ![t] = Shown(fields, version, life)]
    /\ UNCHANGED <<fields, version, life, managed, writes, writer>>

\* The rows a page can post: add a field, or set, rename or remove one it shows.
Edits(doc) ==
    [was : {NoName}, name : Names, text : Texts, delete : {FALSE}]
    \cup [was : {n \in Names : doc[n] # None}, name : Names, text : Texts, delete : BOOLEAN]

\* Mutant: what a renamed row showed is looked up under its new name.
ApplyByName(current, e) ==
    LET subject == IF e.was = NoName THEN e.name ELSE e.was
        value   == IF current[e.name] # None /\ displayFieldValue(current[e.name]) = e.text
                      THEN current[e.name] ELSE Plain(e.text)
    IN  IF e.delete THEN [current EXCEPT ![subject] = None]
        ELSE IF e.was # e.name /\ current[e.name] # None THEN current
        ELSE [[current EXCEPT ![subject] = None] EXCEPT ![e.name] = value]

\* The row folded onto the data; the data itself when the row may not land.
applyFieldEdit(current, e) ==
    LET subject == IF e.was = NoName THEN e.name ELSE e.was
        value   == IF current[subject] # None /\ displayFieldValue(current[subject]) = e.text
                      THEN current[subject] ELSE Plain(e.text)
    IN  IF e.delete THEN [current EXCEPT ![subject] = None]
        ELSE IF e.was # e.name /\ current[e.name] # None THEN current
        ELSE [[current EXCEPT ![subject] = None] EXCEPT ![e.name] = value]

\* writeSecretField up to its read: at version 0 there is nothing to read, and
\* a secret that is gone is a stale page.
SaveField(t, e) ==
    /\ tab[t].pc = "page" /\ e \in Edits(tab[t].doc)
    /\ tab' = [tab EXCEPT ![t].edit = e,
                          ![t].pc = IF ~Allow \/ (tab[t].version > 0 /\ version = 0)
                                       THEN "refused" ELSE "write",
                          ![t].read = IF tab[t].version > 0 THEN fields ELSE Empty]
    /\ UNCHANGED <<fields, version, life, managed, writes, writer>>

\* The rest: a row that lands on a taken name, a secret left without fields and
\* a version that has moved on are refused.
WriteField(t) ==
    /\ tab[t].pc = "write"
    /\ LET e == tab[t].edit
           result == applyFieldEdit(tab[t].read, e)
           taken == ~e.delete /\ e.was # e.name /\ tab[t].read[e.name] # None
       IN  IF taken \/ result = Empty
              THEN UNCHANGED <<fields, version, writes, writer>>
              ELSE WriteKVv2CAS(result, tab[t].version, t)
    /\ tab' = [tab EXCEPT ![t].pc = "refused", ![t].edit = NoEdit, ![t].read = Empty]
    /\ UNCHANGED <<life, managed>>

\* deleteEditableSecret: the probe, and then the delete of whatever is there.
ProbeDelete(t) ==
    /\ tab[t].pc = "page" /\ Allow /\ version > 0
    /\ tab' = [tab EXCEPT ![t].pc = "delete"]
    /\ UNCHANGED <<fields, version, life, managed, writes, writer>>

Delete(t) ==
    /\ tab[t].pc = "delete"
    /\ DeleteKVv2
    /\ tab' = [tab EXCEPT ![t].pc = "refused"]
    /\ UNCHANGED managed

\* replaceEditableSecret: a create goes straight to the write, a replacement
\* takes the version from a read of its own.
Replace(t, doc) ==
    /\ tab[t].pc = "page" /\ Allow /\ version > 0 /\ doc # Empty
    /\ tab' = [tab EXCEPT ![t].pc = "replace", ![t].whole = doc,
                          ![t].version = version, ![t].doc = fields, ![t].life = life]
    /\ UNCHANGED <<fields, version, life, managed, writes, writer>>

WriteReplacement(t) ==
    /\ tab[t].pc = "replace"
    /\ WriteKVv2CAS(tab[t].whole, tab[t].version, "other")
    /\ tab' = [tab EXCEPT ![t].pc = "refused", ![t].whole = Empty]
    /\ UNCHANGED <<life, managed>>

CreateWhole(doc) ==
    /\ Allow /\ doc # Empty /\ version = 0
    /\ WriteKVv2CAS(doc, 0, "other")
    /\ UNCHANGED <<life, managed, tab>>

-----------------------------------------------------------------------------
(***************************************************************************)
(* `dotvault kv`: with --force also on an enrolment's path.                *)
(***************************************************************************)

\* What the secret holds, with the patch laid over it
Patched ==
    [n \in Names |-> IF n \in cli.patch.remove THEN None
                     ELSE IF cli.patch.set[n] # None THEN cli.patch.set[n] ELSE fields[n]]

\* Without a secret, without a field that is to go, or with nothing left there is
\* no write.
kvPatch ==
    /\ cli.pc = "read"
    /\ cli' = IF \/ version = 0
                 \/ \E n \in cli.patch.remove : fields[n] = None
                 \/ Patched = Empty
              THEN Ended
              ELSE [cli EXCEPT !.pc = "write", !.merged = Patched, !.version = version,
                               !.life = life, !.tries = @ + 1]
    /\ UNCHANGED <<fields, version, life, managed, tab, writes, writer>>

\* Mutant: a lost race repeats the write alone.
PatchAgain ==
    /\ cli.pc = "write"
    /\ WriteKVv2CAS(cli.merged, cli.version, "cli")
    /\ cli' = IF cli.version = version \/ cli.tries >= MaxTries THEN Ended
              ELSE [cli EXCEPT !.version = version, !.tries = @ + 1]
    /\ UNCHANGED <<life, managed, tab>>

\* A write that loses a race starts over from a new read.
PatchWrite ==
    /\ cli.pc = "write"
    /\ WriteKVv2CAS(cli.merged, cli.version, "cli")
    /\ cli' = IF cli.version = version \/ cli.tries >= MaxTries THEN Ended
              ELSE [cli EXCEPT !.pc = "read"]
    /\ UNCHANGED <<life, managed, tab>>

-----------------------------------------------------------------------------
(***************************************************************************)
(* Everybody else: the mount, the command line and Vault's own tools.      *)
(***************************************************************************)
WriteElsewhere(doc) ==
    /\ doc # Empty
    /\ Put(doc, "other")
    /\ UNCHANGED <<life, managed, tab>>

\* The read tells a secret from a typing error; the delete asks nothing.
kvDelete ==
    /\ version > 0
    /\ DeleteKVv2
    /\ UNCHANGED <<managed, tab>>

\* Vault's own delete leaves the version without data: the number a page holds
\* is still current.
SoftDelete ==
    /\ version > 0 /\ fields # Empty /\ writes < MaxWrites
    /\ fields' = Empty /\ life' = life + 1
    /\ writes' = writes + 1 /\ writer' = "other"
    /\ UNCHANGED <<version, managed, tab>>

\* A reload adds an enrolment for this path, or removes it.
Reload ==
    /\ managed' = ~managed
    /\ UNCHANGED <<fields, version, life, tab, writes, writer>>

\* While the command runs the pages are among the others.
EditNext ==
    \/ /\ UNCHANGED cli
       /\ \/ /\ cli.pc = "none"
             /\ \E t \in Tabs :
                   \/ View(t) \/ WriteField(t) \/ ProbeDelete(t) \/ Delete(t) \/ WriteReplacement(t)
                   \/ \E e \in Edits(tab[t].doc) : SaveField(t, e)
                   \/ \E doc \in Documents : Replace(t, doc)
          \/ \E doc \in Documents : CreateWhole(doc) \/ WriteElsewhere(doc)
          \/ kvDelete \/ SoftDelete \/ Reload
    \/ kvPatch \/ PatchWrite

EditSpec == EditInit /\ [][EditNext]_editVars

-----------------------------------------------------------------------------
Promise == INSTANCE AtomicSecret WITH
    view <- [t \in Tabs |-> IF tab[t].life = life THEN tab[t].doc
                            ELSE [n \in Names |-> [typed |-> FALSE, text |-> "lapsed"]]]

\* The editor implements the atomic secret: a row is saved onto exactly what its
\* page showed and touches nothing else, whatever other pages, the JSON
\* interface and other writers do between the page, its read and its write
\* (writeSecretField, replaceEditableSecret in secretedit.go).
ImplementsAtomic == Promise!AtomicSpec

\* A value that was not a string stays what it is unless its text is edited,
\* also through a rename (applyFieldEdit in secretedit.go).
TypesKept ==
    [][\A t \in Tabs :
          writer' = t /\ writes' # writes =>
              LET e == tab[t].edit
              IN  \A was \in Names :
                     e.was = was /\ ~e.delete /\ tab[t].read[was] # None
                     /\ displayFieldValue(tab[t].read[was]) = e.text
                         => fields'[e.name] = tab[t].read[was]]_editVars

\* A patch leaves the fields it does not name as they are when it lands, after any
\* number of lost races, as long as the secret was not removed since its read
\* (kvPatch in kv.go).
PatchSpares ==
    [][cli.pc = "write" /\ writes' # writes /\ writer' = "cli" /\ cli.life = life =>
          \A n \in Names :
              n \notin cli.patch.remove /\ cli.patch.set[n] = None
                  => fields'[n] = fields[n]]_editVars

\* What is not edited is kept: the types of values, and the fields beside a patch.
RestKept == TypesKept /\ PatchSpares

\* What the editor promises: an atomic cell, and the rest of the document kept.
EditorSound == ImplementsAtomic /\ RestKept
=============================================================================
