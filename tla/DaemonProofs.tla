---------------------------- MODULE DaemonProofs ----------------------------
(***************************************************************************)
(* The invariants of a daemon's configuration loop, of its way to the      *)
(* first token and of its enrolment engines, for every number of services, *)
(* tokens, edits and failures.  The three share no state; each has an      *)
(* inductive invariant and its theorem.                                    *)
(***************************************************************************)
EXTENDS ConfigReload, DaemonStartup, EnrolEngines, TLAPS

(***************************************************************************)
(* 1. The configuration.                                                   *)
(***************************************************************************)

Sources == {"remote", "cache", "none", Nothing}

\* An enrolment section: the url of the document it is from and its ETag.
Sections == (Urls \cup {Nothing, "none"}) \X Nat

Configs == [enrol : Sections, static : Nat, source : Sources, url : Urls \cup {Nothing}]

Documents == [etag : Nat, kind : Kinds]

\* What a load may merge over the base.
PartTypes ==
    [source : Sources, url : Urls \cup {Nothing}, etag : Nat, kind : Kinds]

ConfigTypes ==
    /\ base \in [sound : BOOLEAN, url : Urls \cup {Nothing}, static : {0, 1}]
    /\ doc \in [Urls -> Documents]
    /\ envel \in [url : Urls \cup {Nothing}, etag : Nat, kind : Kinds]
    /\ daemon \in {"down", "idle", "apply"}
    /\ loaded \in Configs /\ lastApplied \in Configs
    /\ initial \in Nat
    /\ told \in {"clear", "restart"}

\* The hint is right in the middle of a pass too: what it is about changes in
\* the step that says it.
HintStands == daemon # "down" => (told = "restart" <=> lastApplied.static # initial)

ConfigInv ==
    /\ ConfigTypes
    /\ OwnDocument
    /\ HintStands
    /\ daemon = "down" => lastApplied = NoConfig

(* A fall back is the cached document of the service the base names, or     *)
(* nothing, and never counts as the service's answer (fallback, readCache). *)
LEMMA FallbackPart ==
    ASSUME ConfigTypes
    PROVE  /\ Fallback \in PartTypes
           /\ Fallback.source # "remote"
<1>1. CASE ReadCache.url # Nothing /\ ReadCache.kind # "banned"
  <2>1. ReadCache = envel
    BY <1>1 DEF ReadCache, NoEnvelope
  <2>2. Fallback = [source |-> "cache", url |-> envel.url, etag |-> envel.etag,
                    kind |-> envel.kind]
    BY <1>1, <2>1 DEF Fallback, RemoteDocument
  <2> QED
    BY <2>2 DEF ConfigTypes, PartTypes, Sources
<1>2. CASE ~(ReadCache.url # Nothing /\ ReadCache.kind # "banned")
  BY <1>2 DEF Fallback, BaseOnly, PartTypes, Sources, Kinds
<1> QED
  BY <1>1, <1>2

(* What Fetch hands to the merge is well formed, and a part that counts as *)
(* the service's answer carries the base's url, also when it is the cached *)
(* body of a 304 (Fetch).                                                  *)
LEMMA FetchedPart ==
    ASSUME ConfigTypes, base.url # Nothing, NEW part, Fetch(part)
    PROVE  /\ part \in PartTypes
           /\ part.source = "remote" => part.url = base.url
           /\ envel' \in [url : Urls \cup {Nothing}, etag : Nat, kind : Kinds]
<1>1. CASE part = Fallback /\ UNCHANGED envel
  BY <1>1, FallbackPart DEF ConfigTypes
<1> DEFINE d == doc[base.url]
<1>2. base.url \in Urls /\ d \in Documents
  BY DEF ConfigTypes
<1>3. CASE /\ ReadCache.url # Nothing
           /\ part = RemoteDocument(ReadCache.url, ReadCache) /\ UNCHANGED envel
  <2>1. ReadCache = envel /\ envel.url = base.url
    BY <1>3 DEF ReadCache, NoEnvelope
  <2> QED
    BY <1>3, <2>1 DEF RemoteDocument, ConfigTypes, PartTypes, Sources
<1>4. CASE /\ part = RemoteDocument(base.url, d)
           /\ \/ envel' = [url |-> base.url, etag |-> d.etag, kind |-> d.kind]
              \/ UNCHANGED envel
  <2>1. /\ part \in PartTypes
        /\ part.url = base.url
    BY <1>2, <1>4 DEF RemoteDocument, PartTypes, Sources, Documents
  <2>2. envel' \in [url : Urls \cup {Nothing}, etag : Nat, kind : Kinds]
    BY <1>2, <1>4 DEF ConfigTypes, Documents
  <2> QED
    BY <2>1, <2>2
<1> QED
  BY <1>1, <1>3, <1>4 DEF Fetch

(* A load leaves a configuration whose enrolments, if they count as the    *)
(* service's answer, are those of the service the base names               *)
(* (withRemote, withUserOverlay).                                          *)
LEMMA LoadedConfig ==
    ASSUME ConfigTypes, Load
    PROVE  /\ loaded' \in Configs
           /\ envel' \in [url : Urls \cup {Nothing}, etag : Nat, kind : Kinds]
           /\ OwnDocument'
<1>1. PICK part \in Parts :
        /\ IF base.sound /\ base.url # Nothing THEN Fetch(part)
                                               ELSE part = BaseOnly /\ UNCHANGED <<envel, fails>>
        /\ loaded' = IF Validated(part) /\ ~UserRefused
                        THEN [enrol |-> <<part.url, part.etag>>, static |-> ApplyUser,
                              source |-> part.source, url |-> base.url]
                        ELSE NoConfig
  BY DEF Load
<1>2. /\ part \in PartTypes
      /\ part.source = "remote" => part.url = base.url
      /\ envel' \in [url : Urls \cup {Nothing}, etag : Nat, kind : Kinds]
  <2>1. CASE base.sound /\ base.url # Nothing
    BY <1>1, <2>1, FetchedPart
  <2>2. CASE ~(base.sound /\ base.url # Nothing)
    BY <1>1, <2>2 DEF BaseOnly, PartTypes, Sources, Kinds, ConfigTypes
  <2> QED
    BY <2>1, <2>2
<1>3. ApplyUser \in Nat
  BY DEF ApplyUser, ConfigTypes
<1>4. CASE loaded' = NoConfig
  BY <1>2, <1>4 DEF NoConfig, Configs, Sections, Sources, OwnDocument, Nothing
<1>5. CASE loaded' = [enrol |-> <<part.url, part.etag>>, static |-> ApplyUser,
                      source |-> part.source, url |-> base.url]
  <2>1. <<part.url, part.etag>> \in Sections
    BY <1>2 DEF PartTypes, Sections
  <2>2. base.url \in Urls \cup {Nothing} /\ part.source \in Sources
    BY <1>2 DEF PartTypes, ConfigTypes
  <2>3. loaded' \in Configs
    BY <1>3, <1>5, <2>1, <2>2 DEF Configs
  <2>4. OwnDocument'
    BY <1>2, <1>5 DEF OwnDocument
  <2> QED
    BY <1>2, <2>3, <2>4
<1> QED
  BY <1>1, <1>4, <1>5

LEMMA ConfigBegins == ConfigInit => ConfigInv
<1> SUFFICES ASSUME ConfigInit PROVE ConfigInv
  OBVIOUS
<1>1. ConfigTypes
  BY DEF ConfigInit, ConfigTypes, NoEnvelope, NoConfig, Configs, Sections, Sources, Documents,
         Kinds
<1> QED
  BY <1>1 DEF ConfigInit, ConfigInv, OwnDocument, HintStands, NoConfig, Nothing

LEMMA ConfigSteps == ConfigInv /\ [ConfigNext]_configVars => ConfigInv'
<1> SUFFICES ASSUME ConfigInv, [ConfigNext]_configVars PROVE ConfigInv'
  OBVIOUS
<1>0. ConfigTypes
  BY DEF ConfigInv
<1>1. CASE Startup
  <2>1. /\ loaded' \in Configs
        /\ envel' \in [url : Urls \cup {Nothing}, etag : Nat, kind : Kinds]
        /\ OwnDocument'
    BY <1>0, <1>1, LoadedConfig DEF Startup
  <2>2. CASE loaded' = NoConfig
    <3>1. ConfigTypes'
      BY <1>0, <1>1, <2>1, <2>2 DEF Startup, ConfigTypes
    <3> QED
      BY <1>1, <2>1, <2>2, <3>1 DEF Startup, ConfigInv, HintStands
  <2>3. CASE loaded' # NoConfig
    <3>1. /\ daemon' = "idle" /\ lastApplied' = loaded' /\ initial' = loaded'.static
          /\ told' = "clear" /\ UNCHANGED <<base, doc>>
      BY <1>1, <2>3 DEF Startup
    <3>2. loaded'.static \in Nat
      BY <2>1 DEF Configs
    <3>3. ConfigTypes'
      BY <1>0, <2>1, <3>1, <3>2 DEF ConfigTypes
    <3> QED
      BY <2>1, <3>1, <3>3 DEF ConfigInv, HintStands
  <2> QED
    BY <2>2, <2>3
<1>2. CASE RefreshLoad
  <2>1. /\ loaded' \in Configs
        /\ envel' \in [url : Urls \cup {Nothing}, etag : Nat, kind : Kinds]
        /\ OwnDocument'
    BY <1>0, <1>2, LoadedConfig DEF RefreshLoad
  <2>2. ConfigTypes'
    BY <1>0, <1>2, <2>1 DEF RefreshLoad, ConfigTypes
  <2> QED
    BY <1>2, <2>1, <2>2 DEF RefreshLoad, ConfigInv, HintStands
<1>3. CASE RefreshApply
  <2>1. /\ daemon = "apply" /\ daemon' = "idle"
        /\ UNCHANGED <<base, doc, envel, loaded, initial>>
    BY <1>3 DEF RefreshApply
  <2>2. lastApplied' \in Configs /\ lastApplied'.static = loaded.static
    BY <1>0, <1>3 DEF RefreshApply, FanOut, ConfigTypes, Configs
  <2>3. told' = IF loaded.static = lastApplied.static THEN told
                ELSE IF loaded.static # initial THEN "restart" ELSE "clear"
    BY <1>3 DEF RefreshApply, WarnStatic
  <2>4. ConfigTypes'
    BY <1>0, <2>1, <2>2, <2>3 DEF ConfigTypes
  <2>5. HintStands'
    BY <1>0, <2>1, <2>2, <2>3 DEF ConfigInv, HintStands, ConfigTypes
  <2>6. OwnDocument'
    BY <2>1 DEF ConfigInv, OwnDocument
  <2> QED
    BY <2>1, <2>4, <2>5, <2>6 DEF ConfigInv
<1>4. CASE Edit
  <2>1. UNCHANGED <<envel, daemon, loaded, lastApplied, initial, told>>
    BY <1>4 DEF Edit
  <2>2. /\ base' \in [sound : BOOLEAN, url : Urls \cup {Nothing}, static : {0, 1}]
        /\ doc' \in [Urls -> Documents]
    <3>1. CASE \E u \in Urls, kind \in Kinds :
                 /\ doc' = [doc EXCEPT ![u] = [etag |-> doc[u].etag + 1, kind |-> kind]]
                 /\ UNCHANGED <<base, user>>
      <4>1. PICK u \in Urls, kind \in Kinds :
              doc' = [doc EXCEPT ![u] = [etag |-> doc[u].etag + 1, kind |-> kind]]
        BY <3>1
      <4>2. doc[u] \in Documents
        BY <1>0 DEF ConfigTypes
      <4>3. [etag |-> doc[u].etag + 1, kind |-> kind] \in Documents
        BY <4>2 DEF Documents
      <4> QED
        BY <1>0, <3>1, <4>1, <4>3 DEF ConfigTypes
    <3> QED
      BY <1>0, <1>4, <3>1 DEF Edit, ConfigTypes
  <2>3. ConfigTypes'
    BY <1>0, <2>1, <2>2 DEF ConfigTypes
  <2> QED
    BY <2>1, <2>3 DEF ConfigInv, OwnDocument, HintStands
<1>5. CASE Enrolment \/ UNCHANGED configVars
  <2>1. UNCHANGED <<base, doc, envel, daemon, loaded, lastApplied, initial, told>>
    BY <1>5 DEF Enrolment, configVars
  <2> QED
    BY <2>1 DEF ConfigInv, ConfigTypes, OwnDocument, HintStands
<1> QED
  BY <1>1, <1>2, <1>3, <1>4, <1>5 DEF ConfigNext

(* Whatever is edited, and whichever fetches and cache writes fail: what a *)
(* pass took for the service's own answer is a document of the service the *)
(* base names, and the log's last word on a restart is right              *)
(* (readCache, Fetch, runConfigRefresh).                                   *)
THEOREM ConfigKept == ConfigSpec => []ConfigSound
<1>1. ConfigInv => ConfigSound
  BY DEF ConfigInv, ConfigSound, HintStands, RestartHint
<1> QED
  BY <1>1, ConfigBegins, ConfigSteps, PTL DEF ConfigSpec

(***************************************************************************)
(* 2. Startup.                                                             *)
(***************************************************************************)

\* The read of the file that the present wait or service rests on is over.
ReadOver ==
    \/ stage = "file" /\ trial # NoToken
    \/ stage \in {"peers", "wait", "publish", "sync", "serving"}

StartupInv ==
    /\ watch \in {"none", "idle", "manager"}
    /\ OnlyConfirmed
    /\ trial # NoToken => stage \in {"reuse", "borrow", "file", "peers"} /\ onClient = trial
    /\ watch # "none" /\ stage \in {"reconcile", "publish", "sync", "serving"} => Persisted
    /\ watch # "none" /\ ReadOver /\ tokenFile # NoToken =>
          lastRead = tokenFile \/ queued \/ wake \/ reload

LEMMA StartupBegins == StartupInit => StartupInv
BY DEF StartupInit, StartupInv, OnlyConfirmed, ReadOver

(* Step by step: a read of the file makes the reports before it superfluous, *)
(* and only the loops that read consume them.                              *)
LEMMA StartupSteps == StartupInv /\ [StartupNext]_startupVars => StartupInv'
<1> SUFFICES ASSUME StartupInv, [StartupNext]_startupVars PROVE StartupInv'
  OBVIOUS
<1> USE DEF StartupInv, OnlyConfirmed, ReadOver, Persisted
<1>1. CASE Start
  BY <1>1 DEF Start, world
<1>2. CASE Login
  BY <1>2 DEF Login
<1>3. CASE Answer
  <2>1. PICK verdict \in {"ok", "rejected", "error"} :
          /\ trial' = NoToken
          /\ IF verdict = "ok"
                THEN /\ validated' = validated \cup {trial}
                     /\ stage' = IF stage \in {"reuse", "borrow"} THEN "keyless" ELSE "lifecycle"
                     /\ UNCHANGED onClient
                ELSE /\ onClient' = NoToken
                     /\ stage' = AfterFailure
                     /\ UNCHANGED validated
          /\ IF verdict = "ok" /\ stage \in {"file", "peers"} THEN LeaveIdle
                                                             ELSE UNCHANGED <<sink, watch, queued, wake>>
    BY <1>3 DEF Answer, Restore
  <2>2. /\ stage \in {"reuse", "borrow", "file", "peers"} /\ onClient = trial
        /\ UNCHANGED <<mode, reload, tokenFile, lastRead>>
    BY <1>3 DEF Answer
  <2>3. CASE verdict = "ok"
    <3>1. /\ stage' \in {"keyless", "lifecycle"}
          /\ onClient' \in validated'
      BY <2>1, <2>2, <2>3
    <3>2. watch' \in {"none", "idle", "manager"}
      BY <2>1, <2>3 DEF LeaveIdle
    <3> QED
      BY <2>1, <3>1, <3>2
  <2>4. CASE verdict # "ok"
    <3>1. UNCHANGED <<watch, queued, wake>> /\ onClient' = NoToken
      BY <2>1, <2>4
    <3>2. /\ stage' \in {"borrow", "keyless", "peers", "wait"}
          /\ ReadOver' => ReadOver
      BY <1>3, <2>1, <2>2, <2>4 DEF AfterFailure, Answer
    <3> QED
      BY <2>1, <2>2, <3>1, <3>2
  <2> QED
    BY <2>3, <2>4
<1>4. CASE Reuse \/ Borrow
  BY <1>4 DEF Reuse, Borrow, Present, world
<1>5. CASE Keyless \/ EnterIdle \/ WatchFile
  BY <1>5 DEF Keyless, EnterIdle, WatchFile, world
<1>6. CASE TryFile
  BY <1>6 DEF TryFile, Present, Worth, world
<1>7. CASE TryPeers
  BY <1>7 DEF TryPeers, Present, Worth, world
<1>8. CASE Lifecycle \/ Register \/ Reconcile \/ Publish \/ FirstSync
  BY <1>8 DEF Lifecycle, Register, Reconcile, Publish, FirstSync, world
<1>9. CASE Woken \/ Tick
  BY <1>9 DEF Woken, Tick, world
<1>10. ASSUME NEW refused, stage \in Managed, Acquire(refused),
              UNCHANGED <<stage, trial, watch, queued, wake, world>>
       PROVE  StartupInv'
  <2>1. onClient' \in validated' \cup {NoToken}
    BY <1>10 DEF Acquire
  <2>2. Persisted => lastRead' = tokenFile'
    BY <1>10 DEF Acquire, world
  <2>3. trial' = NoToken
    BY <1>10 DEF Managed
  <2>4. watch' # "none" /\ ReadOver' => Persisted
    BY <1>10, <2>3 DEF Managed
  <2> QED
    BY <1>10, <2>1, <2>2, <2>3, <2>4 DEF world
<1>11. CASE Reload
  BY <1>10, <1>11 DEF Reload
<1>12. CASE Recover
  BY <1>10, <1>12 DEF Recover
<1>13. CASE WatchFires
  BY <1>13 DEF WatchFires, Notify, world
<1>14. CASE FileWritten
  BY <1>14 DEF FileWritten
<1>15. CASE PeerChanges
  BY <1>15 DEF PeerChanges, Notify
<1>16. CASE VaultChanges \/ \E t \in Tokens : DenialLapses(t)
  BY <1>16 DEF VaultChanges, DenialLapses, world
<1>17. CASE Stops
  BY <1>17 DEF Stops, world
<1>18. CASE UNCHANGED startupVars
  BY <1>18 DEF startupVars
<1> QED
  BY <1>1, <1>2, <1>3, <1>4, <1>5, <1>6, <1>7, <1>8, <1>9, <1>11, <1>12, <1>13, <1>14, <1>15,
     <1>16, <1>17, <1>18 DEF StartupNext, Progress

(* Whoever writes the file, lends a token or revokes one, and whenever the *)
(* process stops: a token written while the daemon starts is read or on    *)
(* its way, and the client's token is, but for a trial under way, one that *)
(* a lookup of this process accepted (tokenwatch.New before tryAcquire,    *)
(* onTokenChange after the second New, adopt, the reuse check).            *)
THEOREM StartupKept == StartupSpec => []StartupSound
<1>1. StartupInv => StartupSound
  BY DEF StartupInv, StartupSound, WriteNoticed, OnlyConfirmed, ReadOver
<1> QED
  BY <1>1, StartupBegins, StartupSteps, PTL DEF StartupSpec

(***************************************************************************)
(* 3. Engines.                                                             *)
(***************************************************************************)

\* What is about to be written passed the engine's check.
WriteChecked ==
    phase = "write" => Takes(reply) /\ (using = "ghp" => ~reply.lasts)

\* An approval that came before a poll of this attempt is there for that poll,
\* and then in its answer, unless that is lost or the poll was turned away.
ApprovalKept ==
    early /\ using \in Polling =>
        /\ outcome # "timeout"
        /\ phase \in {"poll", "wait"} => grant = "approved"
        /\ phase = "heard" => heard \in {"token", "lost"}

EngineInv ==
    /\ using \in Engines
    /\ provider \in [refresh : Nat, expires : BOOLEAN]
    /\ reply \in [refresh : Nat, lasts : BOOLEAN]
    /\ flow # "off" => using = "github"
    /\ phase # "idle" => outcome # "timeout"
    /\ WriteChecked
    /\ ApprovalKept
    /\ KeptRefreshable

LEMMA EngineBegins == EngineInit => EngineInv
BY DEF EngineInit, EngineInv, WriteChecked, ApprovalKept, KeptRefreshable, NoReply, NoSecret

(* A step that ends an attempt, or moves it outside the polls and the      *)
(* write, keeps the invariant.                                             *)
LEMMA AttemptMoves ==
    ASSUME EngineInv,
           UNCHANGED <<using, secure, provider, kept, lost, reply, early>>,
           flow' # "off" => using = "github",
           phase' \notin {"write", "heard"},
           phase' # "idle" => outcome' # "timeout",
           early /\ using \in Polling => outcome' # "timeout",
           early /\ using \in Polling /\ phase' \in {"poll", "wait"} => grant' = "approved"
    PROVE  EngineInv'
BY DEF EngineInv, WriteChecked, ApprovalKept, KeptRefreshable, Takes

(* A step of the attempt that reaches neither what is stored nor the       *)
(* provider's token.                                                       *)
LEMMA PollSteps ==
    ASSUME EngineInv, AskProvider \/ Evaluate \/ Wait
    PROVE  EngineInv'
<1>1. CASE AskProvider
  <2>1. /\ phase = "poll" /\ phase' = "heard"
        /\ heard' \in Replies \/ heard' = "lost"
        /\ early' = (grant = "approved" /\ heard' \notin TurnedAway)
        /\ UNCHANGED <<using, secure, provider, kept, lost, reply, flow, outcome>>
    BY <1>1 DEF AskProvider, settings, storedVars
  <2>2. early' => heard' \in {"token", "lost"}
    BY <2>1 DEF Replies
  <2>3. outcome' # "timeout"
    BY <2>1 DEF EngineInv
  <2> QED
    BY <2>1, <2>2, <2>3 DEF EngineInv, WriteChecked, ApprovalKept, KeptRefreshable, Takes
<1>2. CASE Evaluate
  <2>1. /\ phase = "heard"
        /\ UNCHANGED <<using, secure, provider, kept, lost, reply, early, flow, grant>>
    BY <1>2 DEF Evaluate, settings, storedVars
  <2>2. outcome # "timeout"
    BY <2>1 DEF EngineInv
  <2>3. early /\ using \in Polling => heard \in {"token", "lost"}
    BY <2>1 DEF EngineInv, ApprovalKept
  <2>4. /\ phase' \in {"mint", "settle", "wait", "idle"}
        /\ phase' # "idle" => outcome' = outcome
        /\ heard \in {"token", "lost"} => phase' # "wait" /\ outcome' \in {outcome, "error"}
    BY <1>2 DEF Evaluate, Quit
  <2> QED
    BY <2>1, <2>2, <2>3, <2>4, AttemptMoves DEF EngineInv
<1>3. CASE Wait
  <2>1. /\ phase = "wait" /\ phase' = "poll"
        /\ UNCHANGED <<using, secure, provider, kept, lost, reply, early, flow, grant, outcome>>
    BY <1>3 DEF Wait, settings, storedVars
  <2> QED
    BY <2>1, AttemptMoves DEF EngineInv, ApprovalKept
<1> QED
  BY <1>1, <1>2, <1>3

(* What the provider answers to the second request is checked before it is *)
(* written, and what is written is what the provider takes next            *)
(* (checkExpiringToken, githubCredential).                                 *)
LEMMA CredentialSteps ==
    ASSUME EngineInv, Settle \/ WriteCredential
    PROVE  EngineInv'
<1>1. CASE Settle
  <2>1. /\ phase = "settle"
        /\ reply' \in Credentials
        /\ UNCHANGED <<using, secure, provider, kept, lost, early, flow, grant>>
        /\ IF Takes(reply') THEN phase' = "write" /\ UNCHANGED <<outcome, heard>>
           ELSE Quit("error")
    BY <1>1 DEF Settle, settings, storedVars
  <2>2. /\ reply' \in [refresh : Nat, lasts : BOOLEAN]
        /\ using = "ghp" => ~reply'.lasts
    <3>1. CASE using = "ghp"
      <4>1. reply' \in {NoReply}
        BY <2>1, <3>1, Zenon DEF Credentials
      <4>2. reply' = [refresh |-> 0, lasts |-> FALSE]
        BY <4>1, Zenon DEF NoReply
      <4>3. reply' \in [refresh : Nat, lasts : BOOLEAN]
        BY <4>2
      <4>4. ~reply'.lasts
        BY <4>2
      <4> QED
        BY <4>3, <4>4
    <3>2. CASE using # "ghp"
      <4>1. provider.refresh \in Nat
        BY DEF EngineInv
      <4>2. reply' \in [refresh : {0} \cup (IF provider.refresh < MaxRefreshes THEN {Fresh} ELSE {}),
                       lasts : IF using = "github" THEN BOOLEAN ELSE {TRUE}]
        BY <2>1, <3>2, Zenon DEF Credentials
      <4> DEFINE R == {0} \cup (IF provider.refresh < MaxRefreshes THEN {Fresh} ELSE {})
                 L == IF using = "github" THEN BOOLEAN ELSE {TRUE}
      <4>3. R \subseteq Nat
        <5>1. Fresh \in Nat
          BY <4>1 DEF Fresh
        <5>2. (IF provider.refresh < MaxRefreshes THEN {Fresh} ELSE {}) \subseteq Nat
          BY <5>1, Zenon
        <5> QED
          BY <5>2
      <4>4. L \subseteq BOOLEAN
        BY Zenon
      <4>5. reply' \in [refresh : R, lasts : L]
        BY <4>2
      <4> HIDE DEF R, L
      <4> QED
        BY <3>2, <4>3, <4>4, <4>5
    <3> QED
      BY <3>1, <3>2
  <2>3. Takes(reply') => Takes(reply)'
    BY <2>1 DEF Takes
  <2>4. CASE Takes(reply')
    BY <2>1, <2>2, <2>3, <2>4 DEF EngineInv, WriteChecked, ApprovalKept, KeptRefreshable
  <2>5. CASE ~Takes(reply')
    BY <2>1, <2>2, <2>5 DEF Quit, EngineInv, WriteChecked, ApprovalKept, KeptRefreshable
  <2> QED
    BY <2>4, <2>5
<1>2. CASE WriteCredential
  <2>1. /\ phase = "write" /\ phase' = "idle"
        /\ outcome' \in {"stored", "error"}
        /\ UNCHANGED <<using, secure, reply, early, flow, grant>>
    BY <1>2 DEF WriteCredential, Quit, settings
  <2>2. CASE UNCHANGED <<kept, provider, lost>>
    BY <2>1, <2>2, AttemptMoves DEF EngineInv
  <2>3. CASE /\ kept' = Rendered(reply)
             /\ provider' = [refresh |-> reply.refresh, expires |-> reply.lasts]
    <3>1. /\ Takes(reply) /\ (using = "ghp" => ~reply.lasts)
          /\ reply \in [refresh : Nat, lasts : BOOLEAN]
          /\ using \in Engines
      BY <2>1 DEF EngineInv, WriteChecked
    <3>2. KeptRefreshable'
      BY <2>3, <3>1 DEF KeptRefreshable, Rendered, Takes, Secret, Engines
    <3>3. provider' \in [refresh : Nat, expires : BOOLEAN]
      BY <2>3, <3>1
    <3> QED
      BY <2>1, <3>2, <3>3 DEF EngineInv, WriteChecked, ApprovalKept
  <2> QED
    BY <1>2, <2>2, <2>3 DEF WriteCredential
<1> QED
  BY <1>1, <1>2

(* A rotation, arriving or lost, a refusal, a revocation and a wipe leave  *)
(* what is stored fit to be rotated (Refresh, previousLifetime).           *)
LEMMA RotationSteps ==
    ASSUME EngineInv, RefreshArrives \/ RefreshLost \/ RefreshRefused \/ Wiped \/ Revoke
    PROVE  EngineInv'
<1>1. ASSUME UNCHANGED <<using, secure, phase, grant, heard, early, flow, reply>>,
             outcome' \in {outcome, "none"},
             provider' \in [refresh : Nat, expires : BOOLEAN], KeptRefreshable'
      PROVE  EngineInv'
  BY <1>1 DEF EngineInv, WriteChecked, ApprovalKept, Takes
<1>2. CASE RefreshArrives
  <2>1. PICK r \in Rotations :
          /\ provider' = [provider EXCEPT !.refresh = r.refresh]
          /\ kept' = Secret(r.refresh, TRUE)
    BY <1>2 DEF RefreshArrives, Rotated
  <2>2. /\ kept.stored /\ kept.refresh = provider.refresh
        /\ UNCHANGED <<using, secure, phase, grant, heard, early, flow, reply, outcome>>
    BY <1>2 DEF RefreshArrives, settings, attemptVars
  <2>3. r.refresh \in {provider.refresh, provider.refresh + 1}
    BY DEF Rotations, Fresh
  <2>4. provider' \in [refresh : Nat, expires : BOOLEAN] /\ provider'.refresh = r.refresh
          /\ provider'.expires = provider.expires
    BY <2>1, <2>3 DEF EngineInv
  <2>5. provider.expires => r.refresh # 0
    BY <2>2, <2>3 DEF EngineInv, KeptRefreshable
  <2>6. KeptRefreshable'
    BY <2>1, <2>4, <2>5 DEF KeptRefreshable, Secret
  <2> QED
    BY <1>1, <2>2, <2>4, <2>6
<1>3. CASE RefreshLost
  <2>1. PICK r \in Rotations :
          /\ provider' = [provider EXCEPT !.refresh = r.refresh]
          /\ lost' = (lost \/ r.refresh # kept.refresh)
    BY <1>3 DEF RefreshLost
  <2>2. UNCHANGED <<using, secure, phase, grant, heard, early, flow, reply, outcome, kept>>
    BY <1>3 DEF RefreshLost, settings, attemptVars
  <2>3. r.refresh \in {provider.refresh, provider.refresh + 1}
    BY DEF Rotations, Fresh
  <2>4. provider' \in [refresh : Nat, expires : BOOLEAN] /\ provider'.refresh = r.refresh
          /\ provider'.expires = provider.expires
    BY <2>1, <2>3 DEF EngineInv
  <2>5. KeptRefreshable'
    BY <2>1, <2>2, <2>4 DEF EngineInv, KeptRefreshable
  <2> QED
    BY <1>1, <2>2, <2>4, <2>5
<1>4. CASE RefreshRefused
  BY <1>1, <1>4 DEF RefreshRefused, settings, attemptVars, EngineInv, KeptRefreshable
<1>5. CASE Wiped
  <2>1. kept' = NoSecret /\ provider' = [provider EXCEPT !.expires = FALSE]
    BY <1>5 DEF Wiped
  <2>2. KeptRefreshable' /\ provider' \in [refresh : Nat, expires : BOOLEAN]
    BY <2>1 DEF EngineInv, KeptRefreshable, NoSecret
  <2> QED
    BY <1>1, <1>5, <2>2 DEF Wiped, settings
<1>6. CASE Revoke
  <2>1. /\ provider' = [provider EXCEPT !.refresh = provider.refresh + 1]
        /\ lost' /\ kept' = kept
    BY <1>6 DEF Revoke, Fresh
  <2>2. KeptRefreshable' /\ provider' \in [refresh : Nat, expires : BOOLEAN]
    BY <2>1 DEF EngineInv, KeptRefreshable
  <2> QED
    BY <1>1, <1>6, <2>2 DEF Revoke, settings, attemptVars
<1> QED
  BY <1>2, <1>3, <1>4, <1>5, <1>6

LEMMA EngineSteps == EngineInv /\ [EngineNext]_engineVars => EngineInv'
<1> SUFFICES ASSUME EngineInv, [EngineNext]_engineVars PROVE EngineInv'
  OBVIOUS
<1>1. CASE Run
  <2>1. /\ ~early' /\ reply' = NoReply /\ UNCHANGED <<using, secure, provider, kept, lost>>
        /\ \/ phase' = FirstPhase /\ outcome' = "none"
           \/ phase' = "idle" /\ outcome' = "error"
    BY <1>1 DEF Run, Quit, settings, storedVars
  <2>2. phase' \in {"poll", "select", "idle"}
    BY <2>1 DEF FirstPhase
  <2>3. flow' # "off" => using = "github"
    BY <1>1 DEF Run, EngineInv
  <2> QED
    BY <2>1, <2>2, <2>3 DEF EngineInv, WriteChecked, ApprovalKept, KeptRefreshable, NoReply
<1>2. CASE Receive \/ TimesOut \/ Mint
  <2>1. /\ UNCHANGED <<using, secure, provider, kept, lost, reply, early, flow, grant>>
        /\ phase \in {"select", "mint"} /\ phase' \in {"mint", "settle", "idle"}
        /\ phase' # "idle" => outcome' = outcome
        /\ using \in Polling => outcome' \in {outcome, "error"}
    BY <1>2 DEF Receive, TimesOut, Mint, Quit, settings, storedVars, Polling
  <2> QED
    BY <2>1, AttemptMoves DEF EngineInv
<1>3. CASE Cancelled
  <2>1. /\ UNCHANGED <<using, secure, provider, kept, lost, reply, early, flow, grant>>
        /\ phase' = "idle" /\ outcome' = "cancelled"
    BY <1>3 DEF Cancelled, Quit, settings, storedVars
  <2> QED
    BY <2>1, AttemptMoves DEF EngineInv
<1>4. CASE FlowEnds \/ PressEnter
  <2>1. /\ flow # "off"
        /\ UNCHANGED <<using, secure, provider, kept, lost, reply, early, phase, outcome, heard>>
    BY <1>4 DEF FlowEnds, PressEnter, settings, storedVars
  <2>2. using \notin Polling
    BY <2>1 DEF EngineInv, Polling
  <2> QED
    BY <2>1, <2>2 DEF EngineInv, WriteChecked, ApprovalKept, KeptRefreshable, Takes
<1>5. CASE Callback \/ \E h \in handlers : Hand(h)
  <2>1. /\ UNCHANGED <<using, secure, provider, kept, lost, reply, early, phase, outcome, heard,
                       flow>>
        /\ grant' = grant \/ using = "databricks"
    BY <1>5 DEF Callback, Hand, settings, storedVars
  <2> QED
    BY <2>1 DEF EngineInv, WriteChecked, ApprovalKept, KeptRefreshable, Takes, Polling
<1>6. CASE Approve \/ Deny \/ Lapse
  <2>1. /\ UNCHANGED <<using, secure, provider, kept, lost, reply, phase, outcome, heard, flow>>
        /\ grant = "pending"
        /\ \/ early' = early
           \/ /\ early' => phase \in {"poll", "wait"}
              /\ grant' = "approved" /\ phase # "idle"
    BY <1>6 DEF Approve, Deny, Lapse, settings, storedVars
  <2> QED
    BY <2>1 DEF EngineInv, WriteChecked, ApprovalKept, KeptRefreshable, Takes
<1>7. CASE TimePasses \/ UNCHANGED engineVars
  <2>1. UNCHANGED <<using, secure, provider, kept, lost, reply, phase, outcome, heard, flow,
                    grant, early>>
    BY <1>7 DEF TimePasses, engineVars, settings, attemptVars, storedVars
  <2> QED
    BY <2>1 DEF EngineInv, WriteChecked, ApprovalKept, KeptRefreshable, Takes
<1> QED
  BY <1>1, <1>2, <1>3, <1>4, <1>5, <1>6, <1>7, PollSteps, CredentialSteps, RotationSteps
     DEF EngineNext, Program

(* Across enrolments and any number of rotations, whatever a provider      *)
(* leaves out of its answers: a credential that expires is stored with     *)
(* what it takes to rotate it, and a user who approves while a poll is     *)
(* still to come sees the attempt time out only if the rate limit turned   *)
(* that poll away (checkExpiringToken, previousLifetime, ghpPollForToken,  *)
(* jfrogPollForToken).                                                     *)
THEOREM EnginesKept == EngineSpec => []EnginesSound
<1>1. EngineInv => EnginesSound
  BY DEF EngineInv, EnginesSound, ApprovalKept, ApprovalSeen
<1> QED
  BY <1>1, EngineBegins, EngineSteps, PTL DEF EngineSpec
=============================================================================
