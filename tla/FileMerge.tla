------------------------------ MODULE FileMerge ------------------------------
(***************************************************************************)
(* The format handlers (internal/handlers): a sync reads the target file,  *)
(* merges what the template rendered into it and writes it again, and the  *)
(* user edits the same file in between.  A document is the structure the   *)
(* handler parses: maps for JSON, TOML, INI and netrc, lists of pairs for  *)
(* YAML, blocks of lines for ssh_config.  A TOML file is its lines, which  *)
(* the code parses and encodes itself.  Spelling, quoting and comments     *)
(* within a value are left out, and so are the anchors of a YAML template. *)
(***************************************************************************)
EXTENDS Integers, Sequences, SequencesExt, FiniteSets, FiniteSetsExt, TLC

CONSTANTS
    Olds, News, \* scalars of the file and of the template
    MaxLines    \* lines of a TOML file, lines of an ssh_config block

ASSUME MergeAssumption == MaxLines \in Nat

VARIABLES
    format,     \* the rule's target.format
    deleteNulls,
    disk,       \* the file
    rendered,   \* what the template renders
    outcome     \* of the last sync: "none", "written" or "failed"

mergeVars == <<format, deleteNulls, disk, rendered, outcome>>

KeyOrder == <<"a", "b">>

KeyNames == ToSet(KeyOrder)

Scalar(x) == [t |-> "scalar", v |-> x]

Null == [t |-> "null"]

Table(f) == [t |-> "map", f |-> f]

Array(s) == [t |-> "array", a |-> s]

Pairs(p) == [t |-> "pairs", p |-> p]

\* A YAML node with the document's anchor, and a reference to it.
Anchored(v) == [t |-> "anchored", node |-> v]

Alias == [t |-> "alias"]

Absent == [t |-> "absent"]

NoKeys == [k \in {} |-> Null]

-----------------------------------------------------------------------------
(***************************************************************************)
(* JSON                                                                    *)
(***************************************************************************)

RECURSIVE pruneNullsJSON(_, _)
\* Tombstones of what is adopted rather than merged
pruneNullsJSON(v, dn) ==
    IF ~dn \/ v.t # "map" THEN v
    ELSE Table([k \in {j \in DOMAIN v.f : v.f[j] # Null} |-> pruneNullsJSON(v.f[k], dn)])

RECURSIVE deepMergeJSON(_, _, _)
deepMergeJSON(dst, src, dn) ==
    LET gone == {k \in DOMAIN src : dn /\ src[k] = Null}
        both(k) == k \in DOMAIN dst /\ dst[k].t = "map" /\ src[k].t = "map"
    IN  [k \in (DOMAIN dst \cup DOMAIN src) \ gone |->
            IF k \notin DOMAIN src THEN dst[k]
            ELSE IF both(k) THEN Table(deepMergeJSON(dst[k].f, src[k].f, dn))
            ELSE pruneNullsJSON(src[k], dn)]

-----------------------------------------------------------------------------
(***************************************************************************)
(* YAML: keys may repeat, and a node may be anchored and referred to.      *)
(***************************************************************************)

RECURSIVE pruneNullNodes(_, _)
pruneNullNodes(v, dn) ==
    IF ~dn \/ v.t # "pairs" THEN v
    ELSE LET kept == SelectSeq(v.p, LAMBDA pair : pair[2] # Null)
         IN  Pairs([i \in DOMAIN kept |-> <<kept[i][1], pruneNullNodes(kept[i][2], dn)>>])

\* Mutant: only the first pair of a key goes.
DeleteFirst(pairs, key) ==
    LET at == {i \in DOMAIN pairs : pairs[i][1] = key}
    IN  IF at = {} THEN pairs ELSE RemoveAt(pairs, Min(at))

\* Every pair of the key goes, not only the first.
DeletePairs(pairs, key) == SelectSeq(pairs, LAMBDA pair : pair[1] # key)

\* A mapping is merged into under its anchor; what is replaced loses its own.
RECURSIVE mergeNodes(_, _, _)
mergeNodes(dst, src, dn) ==
    IF dst.t = "anchored" /\ dst.node.t = "pairs" /\ src.t = "pairs"
       THEN Anchored(mergeNodes(dst.node, src, dn))
    ELSE IF dst.t # "pairs" \/ src.t # "pairs" THEN pruneNullNodes(src, dn)
    ELSE LET MergePair(pairs, pair) ==
                 LET at == {i \in DOMAIN pairs : pairs[i][1] = pair[1]}
                 IN  IF dn /\ pair[2] = Null THEN DeletePairs(pairs, pair[1])
                     ELSE IF at = {} THEN Append(pairs, <<pair[1], pruneNullNodes(pair[2], dn)>>)
                     ELSE [pairs EXCEPT ![Min(at)] = <<pair[1], mergeNodes(@[2], pair[2], dn)>>]
         IN  Pairs(FoldLeft(MergePair, dst.p, src.p))

RECURSIVE hasTombstone(_)
hasTombstone(v) == v.t = "pairs" /\ \E i \in DOMAIN v.p : v.p[i][2] = Null \/ hasTombstone(v.p[i][2])

RECURSIVE Uses(_, _)
\* Nodes of kind t: "anchored" or "alias"
Uses(v, t) ==
    \/ v.t = t
    \/ v.t = "anchored" /\ Uses(v.node, t)
    \/ v.t = "pairs" /\ \E i \in DOMAIN v.p : Uses(v.p[i][2], t)

unsafeForDeletion(v) == Uses(v, "anchored") \/ Uses(v, "alias")

\* yaml.Unmarshal refuses an alias without its anchor.
Readable(v) == Uses(v, "alias") => Uses(v, "anchored")

\* An empty file adopts the document; deleting from a shared one is refused.
YAMLMerge(doc, src, dn) ==
    IF doc = Absent THEN [ok |-> TRUE, file |-> pruneNullNodes(src, dn)]
    ELSE IF ~Readable(doc) \/ (dn /\ hasTombstone(src) /\ unsafeForDeletion(doc))
       THEN [ok |-> FALSE, file |-> doc]
    ELSE [ok |-> TRUE, file |-> mergeNodes(doc, src, dn)]

-----------------------------------------------------------------------------
(***************************************************************************)
(* TOML                                                                    *)
(***************************************************************************)

Header(path) == [h |-> "table", path |-> path, v |-> Null]

ArrayHeader(path) == [h |-> "array", path |-> path, v |-> Null]

Assign(path, v) == [h |-> "assign", path |-> path, v |-> v]

RECURSIVE ensureTable(_, _)
\* The tables on a path, created where missing; Null when one is something else.
ensureTable(m, path) ==
    IF path = <<>> THEN Table(m)
    ELSE LET k == Head(path)
             sub == IF k \notin DOMAIN m THEN ensureTable(NoKeys, Tail(path))
                    ELSE IF m[k].t = "map" THEN ensureTable(m[k].f, Tail(path))
                    ELSE Null
         IN  IF sub = Null THEN Null ELSE Table((k :> sub) @@ m)

RECURSIVE PutAt(_, _, _)
PutAt(m, path, v) ==
    IF Len(path) = 1 THEN (path[1] :> v) @@ m
    ELSE (path[1] :> Table(PutAt(m[path[1]].f, Tail(path), v))) @@ m

RECURSIVE At(_, _)
At(m, path) ==
    IF path[1] \notin DOMAIN m THEN Absent
    ELSE IF Len(path) = 1 THEN m[path[1]]
    ELSE IF m[path[1]].t = "map" THEN At(m[path[1]].f, Tail(path)) ELSE Absent

\* One line: the document so far, and the table that assignments go to, which
\* after an array header is the last element.
ParseLine(state, line) ==
    LET parents == ensureTable(state.doc, Front(line.path))
        whole == ensureTable(state.doc, line.path)
        old == At(parents.f, line.path)
        into == IF state.elem THEN Last(At(state.doc, state.at).a).f
                ELSE IF state.at = <<>> THEN state.doc ELSE At(state.doc, state.at).f
        inner == ensureTable(into, Front(line.path))
        value == Table(PutAt(inner.f, line.path, line.v))
        bad == [state EXCEPT !.ok = FALSE]
    IN  CASE ~state.ok -> state
          [] line.h = "table" -> IF whole = Null THEN bad
                                 ELSE [state EXCEPT !.doc = whole.f, !.at = line.path, !.elem = FALSE]
          [] line.h = "array" ->
                IF parents = Null THEN bad ELSE IF old.t \notin {"absent", "array"} THEN bad
                ELSE [state EXCEPT !.at = line.path, !.elem = TRUE,
                        !.doc = PutAt(parents.f, line.path,
                                      Array(Append(IF old = Absent THEN <<>> ELSE old.a, Table(NoKeys))))]
          [] OTHER ->
                IF inner = Null THEN bad
                ELSE [state EXCEPT !.doc =
                        IF state.elem
                           THEN PutAt(@, state.at, Array(Append(Front(At(@, state.at).a), value)))
                           ELSE IF state.at = <<>> THEN value.f ELSE PutAt(@, state.at, value)]

parseTOML(lines) == FoldLeft(ParseLine, [doc |-> NoKeys, at |-> <<>>, elem |-> FALSE, ok |-> TRUE], lines)

isArrayOfTables(v) == v.t = "array" /\ v.a # <<>> /\ \A i \in DOMAIN v.a : v.a[i].t = "map"

RECURSIVE encodeTOML(_, _)
\* Plain values first, then the tables and the arrays of tables with their headers.
encodeTOML(m, prefix) ==
    LET present == SelectSeq(KeyOrder, LAMBDA k : k \in DOMAIN m)
        tables == SelectSeq(present, LAMBDA k : m[k].t = "map" \/ isArrayOfTables(m[k]))
        plain == SelectSeq(present, LAMBDA k : k \notin ToSet(tables))
        Sub(k) == IF m[k].t = "map"
                     THEN <<Header(Append(prefix, k))>> \o encodeTOML(m[k].f, Append(prefix, k))
                     ELSE FlattenSeq([i \in DOMAIN m[k].a |->
                            <<ArrayHeader(Append(prefix, k))>> \o encodeTOML(m[k].a[i].f, Append(prefix, k))])
    IN  [i \in DOMAIN plain |-> Assign(<<plain[i]>>, m[plain[i]])]
        \o FlattenSeq([i \in DOMAIN tables |-> Sub(tables[i])])

deepMergeTOML(dst, src) == deepMergeJSON(dst, src, FALSE)

TOMLMerge(lines, src) ==
    LET was == parseTOML(lines)
    IN  [ok |-> was.ok, file |-> IF was.ok THEN encodeTOML(deepMergeTOML(was.doc, src), <<>>) ELSE lines]

-----------------------------------------------------------------------------
(***************************************************************************)
(* INI and netrc: sections of keys, machines of fields                     *)
(***************************************************************************)

INIMerge(dst, src) ==
    [s \in DOMAIN dst \cup DOMAIN src |->
        IF s \notin DOMAIN src THEN dst[s]
        ELSE IF s \notin DOMAIN dst THEN src[s] ELSE Table(src[s].f @@ dst[s].f)]

\* The machine called default is not dotvault's.
DefaultMachine == "a"

NetrcMerge(dst, src) == INIMerge(dst, [s \in DOMAIN src \ {DefaultMachine} |-> src[s]])

-----------------------------------------------------------------------------
(***************************************************************************)
(* ssh_config: blocks of lines; "#" is a comment or a blank line.          *)
(***************************************************************************)

multiValued == {"RemoteForward"}

directiveKey(line) == IF line.kw \in multiValued THEN <<line.kw, line.first>> ELSE <<line.kw>>

Directives(lines) == {i \in DOMAIN lines : lines[i].kw # "#"}

\* Mutant: every keyword is single-valued.
KeyByKeyword(lines, line) == {i \in Directives(lines) : lines[i].kw = line.kw}

findDirective(lines, line) == {i \in Directives(lines) : directiveKey(lines[i]) = directiveKey(line)}

\* After the last directive, or at the end of a block that has none
insertDirective(lines, line) ==
    LET at == IF Directives(lines) = {} THEN Len(lines) + 1 ELSE Max(Directives(lines)) + 1
    IN  InsertAt(lines, at, line)

mergeDirectives(lines, src) ==
    LET MergeLine(ls, line) ==
            LET found == findDirective(ls, line)
            IN  IF line.kw = "#" THEN ls
                ELSE IF found = {} THEN insertDirective(ls, line)
                ELSE [ls EXCEPT ![Min(found)] = line]
    IN  FoldLeft(MergeLine, lines, src)

findBlock(blocks, b) == {i \in DOMAIN blocks : blocks[i].header = b.header}

\* A block that is not there is cloned, comments included.
SSHMerge(dst, src) ==
    LET MergeBlock(blocks, b) ==
            LET found == findBlock(blocks, b)
            IN  IF found = {} THEN Append(blocks, b)
                ELSE [blocks EXCEPT ![Min(found)].lines = mergeDirectives(@, b.lines)]
    IN  FoldLeft(MergeBlock, dst, src)

-----------------------------------------------------------------------------
(***************************************************************************)
(* What users and templates write                                          *)
(***************************************************************************)

ValuesOf(texts) == {Scalar(x) : x \in texts}

\* Documents of maps, two levels deep
Maps(atoms) ==
    LET Fun(vals) == UNION {[ks -> vals] : ks \in SUBSET KeyNames}
    IN  Fun(atoms \cup {Table(f) : f \in Fun(atoms)})

Sections(texts) ==
    LET Fun(vals) == UNION {[ks -> vals] : ks \in SUBSET KeyNames}
    IN  Fun({Table(f) : f \in Fun(ValuesOf(texts))})

\* Documents of pairs
PairDocs(atoms) ==
    LET Lists(vals) == {Pairs(s) : s \in BoundedSeq(KeyNames \X vals, 2)}
    IN  atoms \cup Lists(atoms) \cup {Pairs(<<<<"a", inner>>>>) : inner \in Lists(atoms)}

\* A value that is anchored where it stands first, and used again, or not
SharedDocs(atoms) ==
    LET Lists(vals) == {Pairs(s) : s \in BoundedSeq(KeyNames \X vals, 1)}
        Uses1 == {Alias} \cup atoms
    IN  {Pairs(<<<<"a", Anchored(v)>>, <<"b", w>>>>) : v \in atoms \cup Lists(atoms),
                                                      w \in Uses1 \cup Lists(Uses1)}
        \cup {Pairs(<<<<"a", Pairs(<<<<"a", Anchored(v)>>, <<"b", w>>>>)>>>>) : v \in atoms, w \in Uses1}

RECURSIVE Unrepeated(_)
Unrepeated(tree) ==
    tree.t = "pairs" => \A i, j \in DOMAIN tree.p :
        Unrepeated(tree.p[i][2]) /\ (tree.p[i][1] = tree.p[j][1] => i = j)

TOMLLines(texts) ==
    {Header(<<"a">>), ArrayHeader(<<"a">>), Header(<<"a", "b">>)}
    \cup {Assign(<<"b">>, v) : v \in ValuesOf(texts)} \cup {Assign(<<"a", "b">>, v) : v \in ValuesOf(texts)}
    \cup {Assign(<<"b">>, Table([k \in {"a"} |-> v])) : v \in ValuesOf(texts)}

Directive(texts) ==
    [kw : {"User"}, first : {""}, arg : texts] \cup [kw : {"RemoteForward"}, first : KeyNames, arg : texts]

Block(header, lines) == [header |-> header, lines |-> lines]

SSHFiles(texts, others) ==
    LET Bodies(n) == BoundedSeq(Directive(texts) \cup {[kw |-> "#", first |-> "", arg |-> ""]}, n)
    IN  {<<Block("global", ls)>> : ls \in Bodies(1)}
        \cup {<<Block("global", <<>>), Block("Host", ls)>> : ls \in Bodies(MaxLines)}
        \cup {<<Block("global", <<>>), Block("Host", ls), Block(o, <<>>)>> : ls \in Bodies(1), o \in others}

UserFiles(f) ==
    CASE f = "json" -> Maps(ValuesOf(Olds))
      [] f = "yaml" -> PairDocs(ValuesOf(Olds)) \cup SharedDocs(ValuesOf(Olds)) \cup {Absent}
      [] f = "toml" -> BoundedSeq(TOMLLines(Olds), MaxLines)
      [] f \in {"ini", "netrc"} -> Sections(Olds)
      [] OTHER -> SSHFiles(Olds, {"Host"})

Templates(f) ==
    CASE f = "json" -> Maps(ValuesOf(News) \cup {Null})
      [] f = "yaml" -> {d \in PairDocs(ValuesOf(News) \cup {Null}) : Unrepeated(d)}
      [] f = "toml" -> {t.doc : t \in {parseTOML(ls) : ls \in BoundedSeq(TOMLLines(News), 2)}}
      [] f \in {"ini", "netrc"} -> Sections(News)
      [] OTHER -> SSHFiles(News, {"Match"})

Formats == {"json", "yaml", "toml", "ini", "netrc", "ssh_config"}

\* HandlerWithOptions: only JSON and YAML have a null.
MergeInit ==
    /\ format \in Formats
    /\ deleteNulls \in BOOLEAN /\ (deleteNulls => format \in {"json", "yaml"})
    /\ disk \in UserFiles(format) /\ rendered \in Templates(format)
    /\ outcome = "none"

\* Read, Merge and Write of the rule's handler
Merged(content, src) ==
    CASE format = "json" -> [ok |-> TRUE, file |-> deepMergeJSON(content, src, deleteNulls)]
      [] format = "yaml" -> YAMLMerge(content, src, deleteNulls)
      [] format = "toml" -> TOMLMerge(content, src)
      [] format = "ini" -> [ok |-> TRUE, file |-> INIMerge(content, src)]
      [] format = "netrc" -> [ok |-> TRUE, file |-> NetrcMerge(content, src)]
      [] OTHER -> [ok |-> TRUE, file |-> SSHMerge(content, src)]

SyncTarget ==
    LET new == Merged(disk, rendered)
    IN  /\ disk' = new.file
        /\ outcome' = IF new.ok THEN "written" ELSE "failed"
        /\ UNCHANGED <<format, deleteNulls, rendered>>

MergeNext == SyncTarget

MergeSpec == MergeInit /\ [][MergeNext]_mergeVars

-----------------------------------------------------------------------------
\* The reference: what a document says at a path of keys, however it is merged.
KeyPaths == {<<k>> : k \in KeyNames} \cup (KeyNames \X KeyNames)

RECURSIVE Lookup(_, _)
Lookup(v, path) ==
    IF path = <<>> THEN v
    ELSE IF v.t = "map" THEN (IF path[1] \in DOMAIN v.f THEN Lookup(v.f[path[1]], Tail(path)) ELSE Absent)
    ELSE IF v.t = "anchored" THEN Lookup(v.node, path)
    ELSE IF v.t = "pairs" THEN
            LET at == {i \in DOMAIN v.p : v.p[i][1] = path[1]}
            IN  IF at = {} THEN Absent ELSE Lookup(v.p[Min(at)][2], Tail(path))
    ELSE Absent

Parsed(content) ==
    CASE format = "toml" -> Table(parseTOML(content).doc)
      [] format = "yaml" -> content
      [] OTHER -> Table(content)

Incoming ==
    CASE format = "yaml" -> rendered
      [] format = "netrc" -> Table([s \in DOMAIN rendered \ {DefaultMachine} |-> rendered[s]])
      [] OTHER -> Table(rendered)

RECURSIVE Leaf(_)
Leaf(v) == v.t \in {"scalar", "array", "null", "alias"} \/ (v.t = "anchored" /\ Leaf(v.node))

\* Every leaf of the template arrives, every tombstone deletes, and every leaf
\* of the file that the template does not mention stays.
TreeMerged(old, new) ==
    \A path \in KeyPaths :
        LET said == Lookup(Incoming, path)
            above == Lookup(Incoming, Front(path))
        IN  /\ Leaf(said) => Lookup(new, path) = IF said = Null /\ deleteNulls THEN Absent ELSE said
            /\ said = Absent /\ ~Leaf(Incoming) /\ ~Leaf(above) /\ Leaf(Lookup(old, path)) =>
                  Lookup(new, path) = Lookup(old, path)

\* The same for lines: each directive of the template is the first of its key in
\* the first block of its header, and what it does not name keeps its order.
LinesMerged(old, new) ==
    LET Under(h) == {b \in ToSet(rendered) : b.header = h}
        Named(h) == {directiveKey(l) : l \in UNION {ToSet(b.lines) : b \in Under(h)}}
        Rest(b) == SelectSeq(b.lines, LAMBDA l : l.kw = "#" \/ directiveKey(l) \notin Named(b.header))
    IN  /\ \A i \in DOMAIN old : new[i].header = old[i].header /\ Rest(new[i]) = Rest(old[i])
        /\ \A b \in ToSet(rendered) : \A i \in Directives(b.lines) :
              LET lines == new[Min(findBlock(new, b))].lines
                  same == {j \in Directives(lines) : directiveKey(lines[j]) = directiveKey(b.lines[i])}
                  last == Max({j \in Directives(b.lines) :
                                  directiveKey(b.lines[j]) = directiveKey(b.lines[i])})
              IN  same # {} /\ lines[Min(same)] = b.lines[last]

\* A table inside an array of tables: encodeTOML writes it under a header that
\* ensureTable refuses.
Nested(tree) ==
    \E k \in DOMAIN tree : isArrayOfTables(tree[k])
        /\ \E i \in DOMAIN tree[k].a : \E j \in DOMAIN tree[k].a[i].f : tree[k].a[i].f[j].t = "map"

\* The template says something at a path, below it or, with a leaf, above it.
Reached(path) ==
    Lookup(rendered, path) # Absent \/ \E n \in 0..(Len(path) - 1) : Leaf(Lookup(rendered, SubSeq(path, 1, n)))

\* A node is used in several places and the template reaches it, which changes the
\* other places or leaves an alias without its anchor; or the template has a mapping
\* for a place that uses it, and what that place inherits goes.
Entangled ==
    /\ disk # Absent /\ Uses(disk, "alias")
    /\ \E path \in KeyPaths :
          \/ Lookup(disk, path).t = "anchored" /\ Reached(path)
          \/ Lookup(disk, path).t = "alias" /\ Lookup(rendered, path).t = "pairs"

Tidy ==
    CASE format = "toml" -> ~Nested(deepMergeTOML(parseTOML(disk).doc, rendered))
      [] format = "yaml" -> ~Entangled
      [] OTHER -> TRUE

\* A sync puts into the file what the template says and touches nothing else, but
\* for TOML tables within arrays and shared YAML nodes that the template reaches
\* (deepMergeJSON, mergeNodes, deepMergeTOML, INIHandler.Merge, mergeDirectives).
Surgical ==
    [][outcome' = "written" /\ Tidy =>
          IF format = "ssh_config" THEN LinesMerged(disk, disk')
          ELSE TreeMerged(Parsed(disk), Parsed(disk'))]_mergeVars

\* Once synced, a file can be synced again and stays as it is: the engine
\* compares checksums, and a file that keeps changing is synced for ever
\* (encodeTOML and parseTOML, pruneNullNodes, insertDirective).
Settled ==
    [][outcome' = "written" /\ Tidy =>
          Merged(disk', rendered) = [ok |-> TRUE, file |-> disk']]_mergeVars

\* "Recursive merge; supports tables, inline tables, and dotted keys", says
\* docs/configuration/sync-rules.md of TOML: what the handler writes it can read.
\* False for a table inside an array of tables.
ReadsBack == outcome = "written" /\ format = "toml" => Merged(disk, rendered).ok

\* "Existing keys not in incoming data are preserved", it says of YAML: the file can
\* at least be read again.  False once a template replaces an anchored node that
\* another key refers to.
SharedReadsBack == outcome = "written" /\ format = "yaml" => Readable(disk)

\* What every format handler owes the user's file.
MergeSound == Surgical /\ Settled
=============================================================================
