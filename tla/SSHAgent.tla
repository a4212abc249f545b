------------------------------ MODULE SSHAgent ------------------------------
(***************************************************************************)
(* The SSH agent (internal/agent): a backend that lists and signs through  *)
(* a Vault CA source and a relay to other agents of the user, behind the   *)
(* re-authentication gate (internal/tokengate).  A kv source behaves like  *)
(* the CA source with a certificate that is never due.                     *)
(***************************************************************************)
EXTENDS Integers, FiniteSets

CONSTANTS
    Clients,     \* concurrent agent connections
    Endpoints,   \* upstream agents the relay finds
    Keys,        \* keys an upstream agent can hold
    MaxTroubles, \* failures of Vault, of an endpoint, of the token
    MaxOps       \* mutations of the upstream agents

ASSUME AgentAssumption == MaxTroubles \in Nat /\ MaxOps \in Nat

VARIABLES
    held,     \* keys each upstream agent holds
    reach,    \* endpoints that answer
    owner,    \* the relay's routing table: where it saw a key, or Nowhere
    listed,   \* the table comes from a scan that everybody answered
    cached,   \* the backend's cached listing, or Uncached
    refresh,  \* the client that holds refreshMu, or Nobody
    caCert,   \* number of the CA source's certificate
    due,      \* it is due for renewal
    bearer,   \* the daemon has a Vault token
    reauth,   \* a re-authentication is in progress
    client,   \* what each client waits for
    troubles, ops \* failures and mutations so far

agentVars == <<held, reach, owner, listed, cached, refresh, caCert, due, bearer, reauth,
               client, troubles, ops>>

Nowhere == "nowhere"

Nobody == "nobody"

Uncached == {"uncached"}

Resting == [pc |-> "rest", key |-> Nowhere, todo |-> {}, seen |-> {}, acc |-> [k \in Keys |-> Nowhere],
            whole |-> TRUE, scanned |-> TRUE, result |-> "none"]

AgentInit ==
    /\ held = [e \in Endpoints |-> {}] /\ reach = Endpoints
    /\ owner = [k \in Keys |-> Nowhere] /\ listed = FALSE
    /\ cached = Uncached /\ refresh = Nobody
    /\ caCert = 0 /\ due = TRUE
    /\ bearer = TRUE /\ reauth = FALSE
    /\ client = [c \in Clients |-> Resting]
    /\ troubles = 0 /\ ops = 0

MoveTo(c, pc) == client' = [client EXCEPT ![c].pc = pc]

ReplyTo(c, result, seen) ==
    client' = [client EXCEPT ![c] = [Resting EXCEPT !.result = result, !.seen = seen]]

Trouble ==
    /\ troubles < MaxTroubles
    /\ troubles' = troubles + 1

\* sourceNeedsToken, usableSources: only the relay works without a token.
usableSources == IF bearer THEN {"ca", "relay"} ELSE {"relay"}

-----------------------------------------------------------------------------
(***************************************************************************)
(* List.                                                                   *)
(***************************************************************************)
List(c) ==
    /\ client[c].pc = "rest"
    /\ IF cached # Uncached THEN ReplyTo(c, "keys", cached)
       ELSE client' = [client EXCEPT ![c] = [Resting EXCEPT !.pc = "gate"]]
    /\ UNCHANGED <<held, reach, owner, listed, cached, refresh, caCert, due, bearer, reauth, troubles, ops>>

\* Mutant: the gate is waited for as long as it takes.
GateForever(c) ==
    /\ client[c].pc \in {"gate", "signgate"} /\ ~reauth
    /\ MoveTo(c, IF client[c].pc = "gate" THEN "lock" ELSE "sign")
    /\ UNCHANGED <<held, reach, owner, listed, cached, refresh, caCert, due, bearer, reauth, troubles, ops>>

\* gatedContext: the wait for a re-authentication ends with it, or times out.
Gate(c) ==
    /\ client[c].pc \in {"gate", "signgate"}
    /\ IF reauth THEN ReplyTo(c, "error", {})
                 ELSE MoveTo(c, IF client[c].pc = "gate" THEN "lock" ELSE "sign")
    /\ UNCHANGED <<held, reach, owner, listed, cached, refresh, caCert, due, bearer, reauth, troubles, ops>>

\* identities: another call may have refreshed the cache while this one waited.
Refresh(c) ==
    /\ client[c].pc = "lock" /\ refresh = Nobody
    /\ IF cached # Uncached
          THEN ReplyTo(c, "keys", cached) /\ UNCHANGED refresh
          ELSE /\ client' = [client EXCEPT ![c] =
                     [@ EXCEPT !.pc = IF "ca" \in usableSources THEN "ca" ELSE "scan",
                               !.whole = "ca" \in usableSources, !.todo = Endpoints]]
               /\ refresh' = c
    /\ UNCHANGED <<held, reach, owner, listed, cached, caCert, due, bearer, reauth,
                   troubles, ops>>

\* ensureCert: the certificate in hand, or a new one.
EnsureCert ==
    /\ caCert' = IF due THEN caCert + 1 ELSE caCert
    /\ due' = FALSE

ListCA(c) ==
    /\ client[c].pc = "ca"
    /\ \/ /\ EnsureCert
          /\ client' = [client EXCEPT ![c].pc = "scan", ![c].seen = {"ca"}]
          /\ UNCHANGED troubles
       \/ /\ due /\ Trouble
          /\ client' = [client EXCEPT ![c].pc = "scan", ![c].whole = FALSE]
          /\ UNCHANGED <<caCert, due>>
    /\ UNCHANGED <<held, reach, owner, listed, cached, refresh, bearer, reauth, ops>>

\* Identities of the relay: the first endpoint that offers a key owns it.
ListEndpoint(c, e) ==
    /\ client[c].pc = "scan" /\ e \in client[c].todo
    /\ client' = [client EXCEPT ![c] =
          [@ EXCEPT !.todo = @ \ {e},
                    !.scanned = @ /\ e \in reach,
                    !.acc = [k \in Keys |-> IF @[k] = Nowhere /\ e \in reach /\ k \in held[e]
                                               THEN e ELSE @[k]]]]
    /\ UNCHANGED <<held, reach, owner, listed, cached, refresh, caCert, due, bearer, reauth, troubles, ops>>

Remember(c) ==
    /\ client[c].pc = "scan" /\ client[c].todo = {}
    /\ owner' = client[c].acc /\ listed' = client[c].scanned
    /\ client' = [client EXCEPT ![c].pc = "store",
                                ![c].seen = @ \cup {k \in Keys : client[c].acc[k] # Nowhere}]
    /\ UNCHANGED <<held, reach, cached, refresh, caCert, due, bearer, reauth, troubles,
                   ops>>

\* Mutant: whatever came together is cached.
CacheAnything(c) == cached' = client[c].seen

\* A listing that a source failed in, or had no token for, is not cached.
Cache(c) == cached' = IF client[c].whole THEN client[c].seen ELSE cached

Listed(c) ==
    /\ client[c].pc = "store"
    /\ Cache(c)
    /\ refresh' = Nobody
    /\ IF client[c].seen = {} /\ ~client[c].whole
          THEN ReplyTo(c, "error", {}) ELSE ReplyTo(c, "keys", client[c].seen)
    /\ UNCHANGED <<held, reach, owner, listed, caCert, due, bearer, reauth, troubles, ops>>

-----------------------------------------------------------------------------
(***************************************************************************)
(* Sign and the mutations that are passed on.                              *)
(***************************************************************************)
SignWithFlags(c, k) ==
    /\ client[c].pc = "rest"
    /\ client' = [client EXCEPT ![c] = [Resting EXCEPT !.pc = "signgate", !.key = k]]
    /\ UNCHANGED <<held, reach, owner, listed, cached, refresh, caCert, due, bearer, reauth, troubles, ops>>

\* mightOwn, targets: the endpoint on record, all of them before a whole scan,
\* none when a whole scan has not seen the key.
Targets(k) ==
    IF owner[k] # Nowhere THEN {owner[k]} ELSE IF listed THEN {} ELSE Endpoints

\* The CA source declines a key that is not its own; the relay asks its targets.
Signed(c) ==
    /\ client[c].pc = "sign"
    /\ LET k == client[c].key
           found == {e \in Targets(k) \cap reach : k \in held[e]}
       IN  ReplyTo(c, IF found # {} THEN "signature"
                     ELSE IF Targets(k) \subseteq reach THEN "unknown" ELSE "error", {})
    /\ UNCHANGED <<held, reach, owner, listed, cached, refresh, caCert, due, bearer, reauth, troubles, ops>>

\* Add, Remove and RemoveAll at the agents that they concern.
Mutate(c, kind, k) ==
    /\ client[c].pc = "rest" /\ ops < MaxOps
    /\ ops' = ops + 1
    /\ \E endpoint \in Endpoints \cap reach :
          held' = CASE kind = "add" -> [held EXCEPT ![endpoint] = @ \cup {k}]
                    [] kind = "remove" /\ endpoint \in Targets(k) -> [held EXCEPT ![endpoint] = @ \ {k}]
                    [] kind = "clear" -> [e \in Endpoints |-> IF e \in reach THEN {} ELSE held[e]]
                    [] OTHER -> held
    /\ client' = [client EXCEPT ![c] = [Resting EXCEPT !.pc = "forget"]]
    /\ UNCHANGED <<reach, owner, listed, cached, refresh, caCert, due, bearer, reauth, troubles>>

ForgetOwners(c) ==
    /\ client[c].pc = "forget"
    /\ owner' = [k \in Keys |-> Nowhere] /\ listed' = FALSE
    /\ MoveTo(c, "invalidate")
    /\ UNCHANGED <<held, reach, cached, refresh, caCert, due, bearer, reauth, troubles,
                   ops>>

Invalidate(c) ==
    /\ client[c].pc = "invalidate"
    /\ cached' = Uncached
    /\ client' = [client EXCEPT ![c] = Resting]
    /\ UNCHANGED <<held, reach, owner, listed, refresh, caCert, due, bearer, reauth, troubles,
                   ops>>

-----------------------------------------------------------------------------
(***************************************************************************)
(* Time, Vault and the other agents.                                       *)
(***************************************************************************)
CacheExpires ==
    /\ cached # Uncached
    /\ cached' = Uncached
    /\ UNCHANGED <<held, reach, owner, listed, refresh, caCert, due, bearer, reauth, client, troubles, ops>>

CertAges ==
    /\ ~due /\ Trouble
    /\ due' = TRUE
    /\ UNCHANGED <<held, reach, owner, listed, cached, refresh, caCert, bearer, reauth, client, ops>>

EndpointGoes(e) ==
    /\ e \in reach /\ Trouble
    /\ reach' = reach \ {e}
    /\ UNCHANGED <<held, owner, listed, cached, refresh, caCert, due, bearer, reauth, client, ops>>

EndpointReturns(e) ==
    /\ e \notin reach
    /\ reach' = reach \cup {e}
    /\ UNCHANGED <<held, owner, listed, cached, refresh, caCert, due, bearer, reauth, client, troubles, ops>>

TokenDrops ==
    /\ bearer /\ Trouble
    /\ bearer' = FALSE /\ reauth' = TRUE
    /\ UNCHANGED <<held, reach, owner, listed, cached, refresh, caCert, due, client, ops>>

\* The re-authentication succeeds, or ends for now without a token.
TokenSettles ==
    /\ reauth
    /\ reauth' = FALSE /\ bearer' \in BOOLEAN
    /\ UNCHANGED <<held, reach, owner, listed, cached, refresh, caCert, due, client,
                   troubles, ops>>

AgentNext ==
    \/ \E c \in Clients :
          \/ List(c) \/ Gate(c) \/ Refresh(c) \/ ListCA(c) \/ Remember(c) \/ Listed(c)
          \/ \E e \in Endpoints : ListEndpoint(c, e)
          \/ \E k \in Keys : SignWithFlags(c, k)
          \/ Signed(c)
          \/ \E k \in Keys, kind \in {"add", "remove", "clear"} : Mutate(c, kind, k)
          \/ ForgetOwners(c) \/ Invalidate(c)
    \/ CacheExpires \/ CertAges \/ TokenDrops \/ TokenSettles
    \/ \E e \in Endpoints : EndpointGoes(e) \/ EndpointReturns(e)

\* A call in progress runs on by itself; the environment owes nothing.
AgentFairness ==
    /\ \A c \in Clients :
          /\ WF_agentVars(Gate(c)) /\ SF_agentVars(Refresh(c)) /\ WF_agentVars(ListCA(c))
          /\ \A e \in Endpoints : WF_agentVars(ListEndpoint(c, e))
          /\ WF_agentVars(Remember(c)) /\ WF_agentVars(Listed(c)) /\ WF_agentVars(Signed(c))

AgentSpec == AgentInit /\ [][AgentNext]_agentVars /\ AgentFairness

-----------------------------------------------------------------------------
\* A listing that lacked a source is never served to a later caller: the cache
\* always has the CA's identity, although the token may go at any moment between
\* the gate and the scan (identities in backend.go).
CacheWhole == cached # Uncached => "ca" \in cached

\* Every List and Sign ends, also when a re-authentication never does
\* (gatedContext in backend.go).
CallsEnd ==
    \A c \in Clients :
        client[c].pc \in {"gate", "signgate", "lock", "ca", "scan", "store", "sign"}
            ~> client[c].pc \in {"rest", "forget"}

\* The agent answers every call, and never from a listing that lacked a source.
AgentServes == []CacheWhole /\ (AgentFairness => CallsEnd)
=============================================================================
