---------------------------- MODULE CertRotation ----------------------------
(***************************************************************************)
(* The certificate a host authenticates with (internal/auth/mtls.go) and   *)
(* the store that holds its key (internal/securestore): it is seeded,      *)
(* logged in with, rotated before it expires, and the certificate it       *)
(* replaces is removed from the store and revoked at the CA.  The daemon   *)
(* and a command run at the same time share the store and the envelope.    *)
(***************************************************************************)
EXTENDS Integers, FiniteSets

CONSTANTS
    Rotators,   \* processes that authenticate with the credential
    MaxCerts,   \* certificates issued
    MaxPending, \* maxPendingRevocations
    MaxMishaps  \* calls that fail, processes that die

ASSUME CertAssumption == MaxCerts \in Nat /\ MaxPending \in Nat /\ MaxMishaps \in Nat

VARIABLES
    native,   \* the store is the operating system's: it keeps keys and leaves itself
    keys,     \* certificates whose key container exists
    leaves,   \* certificates installed for other software to present
    revoked,  \* certificates revoked at the CA
    issued,   \* certificates issued so far
    ageing,   \* the certificate on record is inside its re-issue window
    envelope, \* credential.json: the certificate and the serials awaiting revocation
    rotator,  \* progress of each process
    mishaps,  \* failures so far
    disturbed \* history: a rotation replaced what it did not start from, or its list was cut

certVars == <<native, keys, leaves, revoked, issued, ageing, envelope, rotator, mishaps, disturbed>>

\* A certificate is known by the number of its issue.  The list of serials that
\* await revocation is in that order, since what a rotation appends to the list it
\* has loaded is younger than the list: a set of them stands for it.
NoCredential == [cert |-> 0, pending |-> {}]

NotRotating == [pc |-> "settled", seed |-> FALSE, due |-> FALSE, old |-> NoCredential, new |-> 0,
            swept |-> TRUE, pending |-> {}]

CertInit ==
    /\ native \in BOOLEAN
    /\ keys = {} /\ leaves = {} /\ revoked = {}
    /\ issued = 0 /\ ageing = FALSE
    /\ envelope = NoCredential
    /\ rotator = [r \in Rotators |-> NotRotating]
    /\ mishaps = 0 /\ disturbed = FALSE

StepTo(r, pc) == rotator' = [rotator EXCEPT ![r].pc = pc]

Mishap ==
    /\ mishaps < MaxMishaps
    /\ mishaps' = mishaps + 1

\* Load: only the operating system's store can have lost the key; the handle of
\* the others is the key itself.
Loads(cert) == native => cert \in keys

-----------------------------------------------------------------------------
(***************************************************************************)
(* authenticateMTLS and ReissueIfDue up to the replacement.                *)
(***************************************************************************)

\* loadCredential.  The hourly ReissueIfDue goes straight to the rotation, with
\* the token it has; the others log in first.
LoadCredential(r, hourly) ==
    /\ rotator[r].pc = "settled"
    /\ hourly => envelope.cert # 0 /\ ageing
    /\ rotator' = [rotator EXCEPT ![r] =
          [NotRotating EXCEPT !.pc = IF hourly THEN "generate"
                                 ELSE IF envelope.cert = 0 THEN "bootstrap" ELSE "try",
                          !.due = ageing, !.old = envelope]]
    /\ UNCHANGED <<native, keys, leaves, revoked, issued, ageing, envelope, mishaps>>

\* tryExistingCredential: log in, then rotate if it is time.  A login that fails
\* leads to a new credential.  CertLoginFromStore ends with the login.
TryExisting(r, recovering) ==
    /\ rotator[r].pc = "try"
    /\ LET usable == Loads(rotator[r].old.cert) /\ rotator[r].old.cert \notin revoked
       IN  \/ /\ usable
              /\ StepTo(r, IF rotator[r].due /\ ~recovering THEN "generate" ELSE "settled")
              /\ UNCHANGED mishaps
           \/ /\ IF usable THEN Mishap ELSE UNCHANGED mishaps
              /\ StepTo(r, IF recovering THEN "settled" ELSE "bootstrap")
    /\ UNCHANGED <<native, keys, leaves, revoked, issued, ageing, envelope>>

\* A process that is between saving an envelope and its last word about it.
Retiring(r) == rotator[r].pc \in {"sweep", "retire", "persist"}

\* seedCredential, runBootstrap: a person logs in, which takes longer than the
\* calls another process makes to finish a rotation, or does not.
Bootstrap(r) ==
    /\ rotator[r].pc = "bootstrap"
    /\ \A q \in Rotators : ~Retiring(q)
    /\ \E pc \in {"generate", "settled"} :
          rotator' = [rotator EXCEPT ![r].pc = pc, ![r].seed = TRUE]
    /\ UNCHANGED <<native, keys, leaves, revoked, issued, ageing, envelope, mishaps>>

\* Generate, always in a container of its own
Generate(r) ==
    /\ rotator[r].pc = "generate" /\ issued < MaxCerts
    /\ issued' = issued + 1
    /\ keys' = keys \cup {issued'}
    /\ rotator' = [rotator EXCEPT ![r].pc = "sign", ![r].new = issued']
    /\ UNCHANGED <<native, leaves, revoked, ageing, envelope, mishaps>>

\* rollbackCertRotation: the replacement never became operational.
Rollback(r) ==
    /\ Mishap
    /\ keys' = keys \ {rotator[r].new}
    /\ leaves' = leaves \ {rotator[r].new}
    /\ StepTo(r, "settled")
    /\ UNCHANGED envelope

\* signOrIssue, buildCredential and storeCertInNativeStore
SignAndInstall(r) ==
    /\ rotator[r].pc = "sign"
    /\ \/ /\ leaves' = IF native THEN leaves \cup {rotator[r].new} ELSE leaves
          /\ StepTo(r, "login")
          /\ UNCHANGED <<keys, envelope, mishaps>>
       \/ Rollback(r)
    /\ UNCHANGED <<native, revoked, issued, ageing>>

\* certLogin with the replacement, before anybody depends on it
LoginWithNew(r) ==
    /\ rotator[r].pc = "login"
    /\ \/ StepTo(r, "save") /\ UNCHANGED <<keys, leaves, envelope, mishaps>>
       \/ Rollback(r)
    /\ UNCHANGED <<native, revoked, issued, ageing>>

-----------------------------------------------------------------------------
(***************************************************************************)
(* The replacement takes over.                                             *)
(***************************************************************************)

\* Mutant: the superseded credential is removed before the new one is on record.
SaveLate(r) ==
    /\ rotator[r].pc = "save"
    /\ \/ /\ keys' = keys \ {rotator[r].old.cert}
          /\ StepTo(r, "sweep")
          /\ envelope' = [cert |-> rotator[r].new, pending |-> {}]
          /\ UNCHANGED <<leaves, mishaps>>
       \/ /\ keys' = keys \ {rotator[r].old.cert}
          /\ Mishap /\ StepTo(r, "settled") /\ UNCHANGED <<leaves, envelope>>
    /\ ageing' = FALSE
    /\ UNCHANGED <<native, revoked, issued, disturbed>>

\* What is on record is not what this process replaces: another one has got ahead of
\* it or is still at work, or a new credential takes the place of one on record.
Overtakes(r) ==
    \/ envelope # rotator[r].old
    \/ rotator[r].seed /\ rotator[r].old # NoCredential
    \/ \E q \in Rotators \ {r} : Retiring(q)

\* saveCredential replaces the file in one step; the backlog is not in it yet.
SaveCredential(r) ==
    /\ rotator[r].pc = "save"
    /\ \/ /\ envelope' = [cert |-> rotator[r].new, pending |-> {}]
          /\ ageing' = FALSE
          /\ disturbed' = (disturbed \/ Overtakes(r))
          /\ StepTo(r, "sweep")
          /\ UNCHANGED <<keys, leaves, mishaps>>
       \/ Rollback(r) /\ UNCHANGED <<ageing, disturbed>>
    /\ UNCHANGED <<native, revoked, issued>>

\* commitCertRotation, supersededOSArtifacts: container and leaf are removed
\* independently, and either may stay.
CommitCert(r) ==
    /\ rotator[r].pc = "sweep"
    /\ LET old == rotator[r].old.cert
       IN  \/ /\ keys' = IF native THEN keys \ {old} ELSE keys
              /\ leaves' = leaves \ {old}
              /\ rotator' = [rotator EXCEPT ![r].pc = "retire", ![r].swept = TRUE]
              /\ UNCHANGED mishaps
           \/ /\ native /\ old # 0 /\ Mishap
              /\ keys' \in {keys, keys \ {old}} /\ leaves' \in {leaves, leaves \ {old}}
              /\ ~(keys' = keys \ {old} /\ leaves' = leaves \ {old})
              /\ rotator' = [rotator EXCEPT ![r].pc = "retire", ![r].swept = FALSE]
    /\ UNCHANGED <<native, revoked, issued, ageing, envelope>>

\* capPendingRevocations keeps the last ones.
Capped(serials) == {s \in serials : Cardinality({t \in serials : t > s}) < MaxPending}

\* What a rotation has to revoke: the backlog, and what it replaced if that is
\* gone from the store.
Owed(r) == rotator[r].old.pending \cup (IF rotator[r].swept THEN {rotator[r].old.cert} ELSE {})

Outstanding(r) == Capped(Owed(r))

\* retireSupersededCertificates, after a rotation: revocation is switched off,
\* or some of the calls fail.
Retire(r) ==
    /\ rotator[r].pc = "retire" /\ ~rotator[r].seed
    /\ \E done \in SUBSET Outstanding(r) :
          /\ revoked' = revoked \cup done
          /\ rotator' = [rotator EXCEPT ![r].pc = "persist", ![r].pending = Outstanding(r) \ done]
    /\ disturbed' = (disturbed \/ Outstanding(r) # Owed(r))
    /\ UNCHANGED <<native, keys, leaves, issued, ageing, envelope, mishaps>>

\* A new credential revokes nothing.  authenticateMTLS assigns the backlog to the
\* credential it has saved before it asks persistPendingRevocations, which
\* therefore finds nothing to record and writes nothing.
KeepBacklog(r) ==
    /\ rotator[r].pc = "retire" /\ rotator[r].seed
    /\ StepTo(r, "settled")
    /\ UNCHANGED <<native, keys, leaves, revoked, issued, ageing, envelope, mishaps>>

\* persistPendingRevocations writes the envelope a second time if there is
\* anything to record; a failure is logged.
PersistPending(r) ==
    /\ rotator[r].pc = "persist"
    /\ IF rotator[r].pending = {}
          THEN UNCHANGED <<envelope, mishaps>>
          ELSE \/ /\ envelope' = [cert |-> rotator[r].new, pending |-> rotator[r].pending]
                  /\ UNCHANGED mishaps
               \/ Mishap /\ UNCHANGED envelope
    /\ StepTo(r, "settled")
    /\ UNCHANGED <<native, keys, leaves, revoked, issued, ageing>>

-----------------------------------------------------------------------------
\* A process dies; what it has done to the store stays.
Dies(r) ==
    /\ rotator[r].pc # "settled" /\ Mishap
    /\ rotator' = [rotator EXCEPT ![r] = NotRotating]
    /\ UNCHANGED <<native, keys, leaves, revoked, issued, ageing, envelope>>

\* Weeks after it was issued a certificate is due; a rotation takes minutes.
ComesDue ==
    /\ envelope.cert # 0 /\ ~ageing
    /\ \A r \in Rotators : rotator[r].pc = "settled"
    /\ ageing' = TRUE
    /\ UNCHANGED <<native, keys, leaves, revoked, issued, envelope, rotator, mishaps>>

\* Steps that cannot overtake anybody
Proceed(r) ==
    \/ \E hourly \in BOOLEAN : LoadCredential(r, hourly)
    \/ \E recovering \in BOOLEAN : TryExisting(r, recovering)
    \/ Bootstrap(r) \/ Generate(r) \/ SignAndInstall(r) \/ LoginWithNew(r)
    \/ CommitCert(r) \/ KeepBacklog(r) \/ PersistPending(r) \/ Dies(r)

CertNext ==
    \/ \E r \in Rotators : Proceed(r) /\ UNCHANGED disturbed
    \/ \E r \in Rotators : SaveCredential(r) \/ Retire(r)
    \/ ComesDue /\ UNCHANGED disturbed

CertSpec == CertInit /\ [][CertNext]_certVars

-----------------------------------------------------------------------------
\* Whatever fails, whoever dies and whoever else rotates, the envelope names a
\* certificate whose key the store still has and the CA still honours
\* (reissue, authenticateMTLS).
EnvelopeUsable ==
    envelope.cert # 0 => Loads(envelope.cert) /\ envelope.cert \notin revoked

\* A certificate other software on the host can still choose is never revoked
\* (retireSupersededCertificates).
RevokedIsGone == revoked \cap leaves = {}

\* As long as nothing fails, rotations follow one another, none seeds a new credential
\* over an old one and no list grows past its cap, no certificate is forgotten:
\* between two rotations each that was issued is on record, revoked or on the list
\* of those to revoke (retireSupersededCertificates, persistPendingRevocations).
NoneForgotten ==
    mishaps = 0 /\ ~disturbed /\ (\A r \in Rotators : rotator[r].pc = "settled") =>
        1..issued \subseteq {envelope.cert} \cup envelope.pending \cup revoked

\* What a rotation keeps through failures and crashes: a usable credential on
\* record and no revoked one in use; and, without any, a word on every certificate.
CertSound == EnvelopeUsable /\ RevokedIsGone /\ NoneForgotten

\* "Any backlog the old envelope carried is preserved" (mtls.go, the comment in
\* authenticateMTLS): when a new credential is in place, what the one before it had
\* still to be revoked is revoked or on the list.  False: that list is lost.
BacklogPreserved ==
    [][\A r \in Rotators : KeepBacklog(r) =>
          rotator[r].old.pending \subseteq envelope'.pending \cup revoked']_certVars
=============================================================================
