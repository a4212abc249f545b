---------------------------- MODULE ConfigReload ----------------------------
(***************************************************************************)
(* The configuration: a base file, a document fetched from a remote        *)
(* service and merged over it, the user's preferences, and the daemon's    *)
(* refresh loop, which applies what changed (internal/config,              *)
(* internal/remoteconfig, runConfigRefresh in cmd/dotvault/main.go).       *)
(* Enrolments stand for every dynamic section that has several consumers,  *)
(* static for the sections that only a restart applies.                    *)
(***************************************************************************)
EXTENDS Integers

CONSTANTS
    Urls,     \* remote services the base can name
    MaxEdits, \* changes of the files and services
    MaxFails  \* fetches and cache writes that fail

ASSUME ConfigAssumption == MaxEdits \in Nat /\ MaxFails \in Nat

VARIABLES
    base,      \* the base file: whether it is sound, its url, enrolments and static part
    doc,       \* what each service serves: version (its ETag) and kind
    envel,     \* the cache file: url, etag and kind of the document; url None if absent
    user,      \* the user's own file
    daemon,    \* "down", or what the refresh loop does
    loaded,    \* the configuration a pass has loaded
    lastApplied, \* lastEnrolments and lastStatic of the loop
    initial,   \* the static part the daemon was built from
    runner, managers, engine, \* enrolments of the web runner, of the managers, and rules
    enrolling, \* the web runner runs an enrolment
    told,      \* the last word of the log on a restart
    edits, fails

configVars == <<base, doc, envel, user, daemon, loaded, lastApplied, initial, runner, managers,
                engine, enrolling, told, edits, fails>>

Nothing == "nothing"

\* A document has an enrolment of its own, or names a section it must not
\* (ParsePartial), or makes the merged configuration invalid.
Kinds == {"good", "banned", "invalid"}

NoEnvelope == [url |-> Nothing, etag |-> 0, kind |-> "good"]

NoConfig == [enrol |-> <<"none", 0>>, static |-> 0, source |-> Nothing, url |-> Nothing]

ConfigInit ==
    /\ base \in [sound : {TRUE}, url : Urls \cup {Nothing}, static : {0}]
    /\ doc = [u \in Urls |-> [etag |-> 1, kind |-> "good"]]
    /\ envel = NoEnvelope /\ user = "none"
    /\ daemon = "down" /\ loaded = NoConfig
    /\ lastApplied = NoConfig /\ initial = 0
    /\ runner = NoConfig.enrol /\ managers = NoConfig.enrol /\ engine = NoConfig.enrol
    /\ enrolling = FALSE /\ told = "clear"
    /\ edits = 0 /\ fails = 0

-----------------------------------------------------------------------------
(***************************************************************************)
(* Loading: base, remote document, user.                                   *)
(***************************************************************************)

\* Mutant: any cached document will do.
AnyCache == envel

\* readCache: a document of another service is no cache.
ReadCache == IF envel.url = base.url THEN envel ELSE NoEnvelope

\* The document of a url as it merges over the base (ApplyPartial): its
\* enrolments replace the base's.
RemoteDocument(url, d) == [source |-> "remote", url |-> url, etag |-> d.etag, kind |-> d.kind]

BaseOnly == [source |-> "none", url |-> Nothing, etag |-> 0, kind |-> "good"]

\* fallback: the cached document, if ParsePartial still takes it, or the base
\* alone.  A fetch never fails the load.
Fallback ==
    IF ReadCache.url # Nothing /\ ReadCache.kind # "banned"
       THEN [RemoteDocument(ReadCache.url, ReadCache) EXCEPT !.source = "cache"] ELSE BaseOnly

\* Fetch: a conditional request with the cached ETag.  Not modified: the cached
\* body; otherwise the new one, which is cached, if that succeeds.
Fetch(part) ==
    \/ /\ fails < MaxFails /\ fails' = fails + 1
       /\ part = Fallback
       /\ UNCHANGED envel
    \/ LET d == doc[base.url] IN
       IF ReadCache.url # Nothing /\ ReadCache.etag = d.etag
          THEN part = RemoteDocument(ReadCache.url, ReadCache) /\ UNCHANGED <<envel, fails>>
       ELSE IF d.kind = "banned" THEN part = Fallback /\ UNCHANGED <<envel, fails>>
       ELSE /\ part = RemoteDocument(base.url, d)
            /\ \/ /\ envel' = [url |-> base.url, etag |-> d.etag, kind |-> d.kind]
                  /\ UNCHANGED fails
               \/ /\ fails < MaxFails /\ fails' = fails + 1
                  /\ UNCHANGED envel

\* The user's file may move the mount, a static section.  One that does not parse
\* or is refused is fatal at startup and only logged afterwards; ApplyUser has
\* made its changes by the time it refuses them.
UserRefused == user \in {"broken", "refused"} /\ daemon = "down"

ApplyUser == base.static + (CASE user = "good" -> 2 [] user = "refused" -> 4 [] OTHER -> 0)

\* Validate: the merged configuration
Validated(part) == base.sound /\ part.kind # "invalid"

Parts ==
    {BaseOnly, Fallback} \cup
    IF base.url = Nothing THEN {}
    ELSE {RemoteDocument(ReadCache.url, ReadCache), RemoteDocument(base.url, doc[base.url])}

\* withRemote and withUserOverlay: what part gives, or an error.
Load ==
    \E part \in Parts :
        /\ IF base.sound /\ base.url # Nothing THEN Fetch(part)
                                               ELSE part = BaseOnly /\ UNCHANGED <<envel, fails>>
        /\ loaded' = IF Validated(part) /\ ~UserRefused
                        THEN [enrol |-> <<part.url, part.etag>>, static |-> ApplyUser,
                              source |-> part.source, url |-> base.url]
                        ELSE NoConfig

\* Startup: a configuration that does not load is fatal.
Startup ==
    /\ daemon = "down"
    /\ Load
    /\ IF loaded' = NoConfig THEN UNCHANGED <<daemon, lastApplied, initial, runner, managers, engine>>
       ELSE /\ daemon' = "idle" /\ lastApplied' = loaded' /\ initial' = loaded'.static
            /\ runner' = loaded'.enrol /\ managers' = loaded'.enrol /\ engine' = loaded'.enrol
    /\ told' = "clear"
    /\ UNCHANGED <<base, doc, user, enrolling, edits>>

-----------------------------------------------------------------------------
(***************************************************************************)
(* runConfigRefresh, on a tick or on request.                              *)
(***************************************************************************)
RefreshLoad ==
    /\ daemon = "idle"
    /\ Load
    /\ daemon' = IF loaded' = NoConfig THEN "idle" ELSE "apply"
    /\ UNCHANGED <<base, doc, user, lastApplied, initial, runner, managers, engine, enrolling,
                   told, edits>>

\* Mutant: the deferred update counts as applied.
FanOutOnce ==
    /\ IF loaded.enrol = lastApplied.enrol \/ enrolling THEN UNCHANGED <<runner, managers>>
       ELSE runner' = loaded.enrol /\ managers' = loaded.enrol
    /\ lastApplied' = loaded

\* Enrolments go to every consumer or to none: the web runner refuses them while
\* it runs one, and the next pass tries again.
FanOut ==
    IF loaded.enrol = lastApplied.enrol \/ enrolling
       THEN /\ lastApplied' = [lastApplied EXCEPT !.static = loaded.static]
            /\ UNCHANGED <<runner, managers>>
       ELSE /\ runner' = loaded.enrol /\ managers' = loaded.enrol
            /\ lastApplied' = loaded

\* Mutant: the comparison is with the pass before.
WarnDiff ==
    told' = IF loaded.static # lastApplied.static THEN "restart" ELSE "clear"

\* Static sections: compared with what the daemon was built from, said once per
\* edit.
WarnStatic ==
    told' = IF loaded.static = lastApplied.static THEN told
            ELSE IF loaded.static # initial THEN "restart" ELSE "clear"

RefreshApply ==
    /\ daemon = "apply"
    /\ FanOut
    /\ engine' = loaded.enrol
    /\ WarnStatic
    /\ daemon' = "idle"
    /\ UNCHANGED <<base, doc, envel, user, loaded, initial, enrolling, edits, fails>>

-----------------------------------------------------------------------------
(***************************************************************************)
(* The world around it.                                                    *)
(***************************************************************************)
Edit ==
    /\ edits < MaxEdits
    /\ edits' = edits + 1
    /\ \/ /\ base' \in [sound : BOOLEAN, url : Urls \cup {Nothing}, static : {0, 1}]
          /\ UNCHANGED <<doc, user>>
       \/ \E u \in Urls, kind \in Kinds :
             /\ doc' = [doc EXCEPT ![u] = [etag |-> doc[u].etag + 1, kind |-> kind]]
             /\ UNCHANGED <<base, user>>
       \/ /\ user' \in {"none", "good", "broken", "refused"}
          /\ UNCHANGED <<base, doc>>
    /\ UNCHANGED <<envel, daemon, loaded, lastApplied, initial, runner, managers, engine,
                   enrolling, told, fails>>

\* Somebody uses the enrolment page; nothing says that it ends.
Enrolment ==
    /\ daemon # "down"
    /\ enrolling' = ~enrolling
    /\ UNCHANGED <<base, doc, envel, user, daemon, loaded, lastApplied, initial, runner,
                   managers, engine, told, edits, fails>>

ConfigNext == Startup \/ RefreshLoad \/ RefreshApply \/ Edit \/ Enrolment

\* The ticker keeps firing and a pass that has begun goes on.
ConfigFairness ==
    /\ WF_configVars(RefreshLoad) /\ WF_configVars(RefreshApply)

ConfigSpec == ConfigInit /\ [][ConfigNext]_configVars /\ ConfigFairness

-----------------------------------------------------------------------------
\* What a pass took for the service's own answer is a document of the service
\* the base names, not one cached from another whose ETag is the same
\* (readCache, Fetch).
OwnDocument ==
    loaded.source = "remote" => loaded.enrol[1] = loaded.url

\* The log's last word on a restart is right: it asks for one exactly if the
\* last configuration loaded differs from the running one in a static section
\* (runConfigRefresh).
RestartHint ==
    daemon = "idle" /\ lastApplied # NoConfig =>
        (told = "restart" <=> lastApplied.static # initial)

\* Once the files and services rest and nobody enrols, what the daemon runs on
\* is the last configuration loaded, with every consumer of it agreeing
\* (runConfigRefresh, UpdateEnrolments).
ConfigApplied ==
    <>[](daemon # "down" /\ ~enrolling) =>
        <>[](loaded = NoConfig \/ (runner = loaded.enrol /\ managers = loaded.enrol
                                     /\ engine = loaded.enrol))

\* What a pass loads and logs is right.
ConfigSound == OwnDocument /\ RestartHint

\* Under the fairness of the refresh loop, what is loaded is applied.
ConfigServes == ConfigFairness => ConfigApplied
=============================================================================
