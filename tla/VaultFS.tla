------------------------------ MODULE VaultFS ------------------------------
(***************************************************************************)
(* The FUSE mount of the user's secrets (internal/vaultfs): one file, the  *)
(* cache that serves it, the processes that have it open and the budget of *)
(* buffered bytes they share.  Directories hold no state of their own.     *)
(***************************************************************************)
EXTENDS Integers, FiniteSets

CONSTANTS
    Procs,       \* processes that use the file, each with one open description
    MaxDocument, \* maxDocumentSize, in units of a buffer
    MaxBuffered, \* maxBufferedBytes
    MaxVersions  \* versions of the secret

ASSUME FSAssumption == MaxDocument \in Nat /\ MaxBuffered \in Nat /\ MaxVersions \in Nat

VARIABLES
    secret,   \* version in Vault; 0 if there is none
    versions, \* versions written so far
    cachedDoc,   \* version the cache serves; 0 for a cached miss, NotCached
    proc,     \* what each process does and its handle
    buffered, \* filesystem.buffered
    own,      \* newest version whose write through the mount has returned
    service,  \* state of the Service
    resize,   \* a Setattr without a handle: the size, and who is left to truncate
    lost      \* history: bytes on the books of handles that are gone

mountVars == <<secret, versions, cachedDoc, proc, buffered, own, service>>
fsVars == <<mountVars, resize, lost>>

NotCached == -1

\* A handle's buffer has a length and what it spells: a version of the document
\* or, as 0, no JSON object at all.
Closed == [pc |-> "closed", writable |-> FALSE, dirty |-> FALSE, len |-> 0, text |-> 0,
           got |-> 0, base |-> 0]

\* Documents have different lengths.
Length(v) == IF v = 0 THEN 0 ELSE 1 + (v % 2)

NoSetattr == [size |-> 0, left |-> {}]

FSInit ==
    /\ secret = 1 /\ versions = 1
    /\ cachedDoc = NotCached
    /\ proc = [p \in Procs |-> Closed]
    /\ buffered = 0 /\ own = 0
    /\ service = "stopped"
    /\ resize = NoSetattr /\ lost = 0

Serving == service \in {"mounted", "stopping"}

Set(p, h) == proc' = [proc EXCEPT ![p] = h]

\* Mutant: the growth that was refused stays on the books.
ReserveKeeps(old, size) ==
    /\ buffered + size - old <= MaxBuffered
    /\ buffered' = IF size > old THEN buffered + size - old ELSE buffered

\* reserveBuffer, when it succeeds
Reserve(old, size) ==
    /\ size <= old \/ buffered + size - old <= MaxBuffered
    /\ buffered' = buffered + size - old

-----------------------------------------------------------------------------
(***************************************************************************)
(* Tree: Document reads through the cache, Put and Remove write around it. *)
(***************************************************************************)

\* The handle of an Open that found version v, or no handle: there is no such
\* file, or too much is buffered.
Loaded(p, v) ==
    IF v # 0 /\ buffered + Length(v) <= MaxBuffered
       THEN /\ Set(p, [proc[p] EXCEPT !.pc = "open", !.len = Length(v), !.text = v,
                                      !.got = v])
            /\ Reserve(0, Length(v))
       ELSE Set(p, Closed) /\ UNCHANGED buffered

\* Open without truncation; a cached document is used as it is.
Open(p, writable) ==
    /\ Serving /\ proc[p].pc = "closed"
    /\ Set(p, [Closed EXCEPT !.pc = "lookup", !.writable = writable, !.base = own])
    /\ UNCHANGED <<secret, versions, cachedDoc, buffered, own, service>>

LookupDoc(p) ==
    /\ proc[p].pc = "lookup"
    /\ IF cachedDoc # NotCached
          THEN Loaded(p, cachedDoc)
          ELSE Set(p, [proc[p] EXCEPT !.pc = "read"]) /\ UNCHANGED buffered
    /\ UNCHANGED <<secret, versions, cachedDoc, own, service>>

\* The answer of Vault, and then, separately, storeDoc.
ReadSecret(p) ==
    /\ proc[p].pc = "read"
    /\ Set(p, [proc[p] EXCEPT !.pc = "store", !.got = secret])
    /\ UNCHANGED <<secret, versions, cachedDoc, buffered, own, service>>

StoreDoc(p) ==
    /\ proc[p].pc = "store"
    /\ cachedDoc' = proc[p].got
    /\ Loaded(p, proc[p].got)
    /\ UNCHANGED <<secret, versions, own, service>>

\* Open with O_TRUNC, and Create
OpenEmpty(p) ==
    /\ Serving /\ proc[p].pc = "closed"
    /\ Set(p, [Closed EXCEPT !.pc = "open", !.writable = TRUE, !.dirty = TRUE])
    /\ UNCHANGED <<secret, versions, cachedDoc, buffered, own, service>>

Expire ==
    /\ cachedDoc # NotCached
    /\ cachedDoc' = NotCached
    /\ UNCHANGED <<secret, versions, proc, buffered, own, service>>

\* Somebody else writes or deletes the secret.
Elsewhere ==
    /\ Serving
    /\ versions < MaxVersions
    /\ versions' = versions + 1
    /\ secret' \in {versions', 0}
    /\ UNCHANGED <<cachedDoc, proc, buffered, own, service>>

-----------------------------------------------------------------------------
(***************************************************************************)
(* Handles.                                                                *)
(***************************************************************************)

\* A whole new document replaces what the buffer held; it may be refused for
\* its size or for want of budget, and then changes nothing.
Write(p) ==
    /\ proc[p].pc = "open" /\ proc[p].writable
    /\ versions < MaxVersions
    /\ \E len \in 1..MaxDocument :
          LET size == IF len > proc[p].len THEN len ELSE proc[p].len
          IN  /\ Reserve(proc[p].len, size)
              /\ Set(p, [proc[p] EXCEPT !.len = size, !.dirty = TRUE,
                           !.text = IF len = size /\ len = Length(versions + 1)
                                       THEN versions + 1 ELSE 0])
    /\ UNCHANGED <<secret, versions, cachedDoc, own, service>>

Truncated(p, size) ==
    /\ Reserve(proc[p].len, size)
    /\ Set(p, [proc[p] EXCEPT !.len = size, !.text = 0, !.dirty = TRUE])
    /\ UNCHANGED <<secret, versions, cachedDoc, own, service>>

\* Setattr with a handle, which stays open meanwhile
Ftruncate(p, size) ==
    /\ proc[p].pc = "open" /\ proc[p].writable
    /\ Truncated(p, size)

\* Setattr without one collects the writable handles that are open...
Setattr(size) ==
    /\ Serving /\ resize = NoSetattr
    /\ LET targets == {p \in Procs : proc[p].writable /\ proc[p].pc \in {"open", "invalidate"}}
       IN  targets # {} /\ resize' = [size |-> size, left |-> targets]
    /\ UNCHANGED mountVars

\* ... and truncates them one by one, each when no flush holds its lock, also
\* one that is released by then.
Truncate(p) ==
    /\ p \in resize.left /\ proc[p].pc # "invalidate"
    /\ Truncated(p, resize.size)
    /\ resize' = IF resize.left = {p} THEN NoSetattr ELSE [resize EXCEPT !.left = @ \ {p}]

\* The first handle that may not grow ends it.
TruncateFails(p) ==
    /\ p \in resize.left /\ proc[p].pc # "invalidate"
    /\ resize.size > proc[p].len
    /\ buffered + resize.size - proc[p].len > MaxBuffered
    /\ resize' = NoSetattr
    /\ UNCHANGED mountVars

\* Flush: no JSON object, nothing is written and the close reports it.
FlushWrite(p) ==
    /\ proc[p].pc = "open" /\ proc[p].dirty /\ proc[p].writable
    /\ proc[p].text # 0 /\ versions < MaxVersions
    /\ versions' = versions + 1 /\ secret' = versions'
    /\ Set(p, [proc[p] EXCEPT !.pc = "invalidate", !.text = versions'])
    /\ UNCHANGED <<cachedDoc, buffered, own, service>>

\* Put's invalidate; the write has returned.
FlushDone(p) ==
    /\ proc[p].pc = "invalidate"
    /\ cachedDoc' = NotCached
    /\ own' = proc[p].text
    /\ Set(p, [proc[p] EXCEPT !.pc = "open", !.dirty = FALSE])
    /\ UNCHANGED <<secret, versions, buffered, service>>

\* Unlink, whose file may be open elsewhere.
Unlink ==
    /\ Serving /\ secret # 0
    /\ secret' = 0 /\ cachedDoc' = NotCached
    /\ UNCHANGED <<versions, proc, buffered, own, service>>

Release(p) ==
    /\ proc[p].pc = "open"
    /\ buffered' = buffered - proc[p].len
    /\ Set(p, [proc[p] EXCEPT !.pc = "released", !.len = 0])
    /\ UNCHANGED <<secret, versions, cachedDoc, own, service>>

\* The description is gone once no Setattr holds it.  What such a Setattr has
\* put into its buffer since the release stays on the books: nobody returns it.
Forget(p) ==
    /\ proc[p].pc = "released" /\ p \notin resize.left
    /\ Set(p, Closed)
    /\ lost' = lost + proc[p].len
    /\ UNCHANGED <<secret, versions, cachedDoc, buffered, own, service, resize>>

-----------------------------------------------------------------------------
(***************************************************************************)
(* Service: a mount left behind by a dead daemon is cleared first.         *)
(***************************************************************************)
Mount ==
    /\ service \in {"stopped", "stale"}
    /\ service' \in {"mounted", "failed"}
    /\ cachedDoc' = NotCached /\ own' = 0 /\ buffered' = 0
    /\ proc' = [p \in Procs |-> Closed]
    /\ resize' = NoSetattr /\ lost' = 0
    /\ UNCHANGED <<secret, versions>>

StopMount ==
    /\ service = "mounted"
    /\ service' = "stopping"
    /\ UNCHANGED <<secret, versions, cachedDoc, proc, buffered, own>>

\* unmount succeeds only when nothing is open, and gives up in the end; the
\* process then exits under the mount.
Unmounted ==
    /\ service = "stopping"
    /\ service' = IF \A p \in Procs : proc[p].pc \in {"closed", "released"}
                     THEN "stopped" ELSE "stale"
    /\ UNCHANGED <<secret, versions, cachedDoc, proc, buffered, own>>

-----------------------------------------------------------------------------
Handle(p) ==
    \/ \E writable \in BOOLEAN : Open(p, writable)
    \/ LookupDoc(p) \/ ReadSecret(p) \/ StoreDoc(p) \/ OpenEmpty(p)
    \/ Write(p) \/ FlushWrite(p) \/ FlushDone(p) \/ Release(p)
    \/ \E size \in 0..MaxDocument : Ftruncate(p, size)

FSNext ==
    \/ /\ \/ \E p \in Procs : Handle(p)
          \/ Expire \/ Elsewhere \/ Unlink \/ StopMount \/ Unmounted
       /\ UNCHANGED <<resize, lost>>
    \/ /\ \/ \E size \in 0..MaxDocument : Setattr(size)
          \/ \E p \in Procs : Truncate(p) \/ TruncateFails(p)
       /\ UNCHANGED lost
    \/ \E p \in Procs : Forget(p)
    \/ Mount

FSSpec == FSInit /\ [][FSNext]_fsVars

-----------------------------------------------------------------------------
\* The units of buffer that the handles hold
Units(p) == {p} \X (1..proc[p].len)

Held == UNION {Units(p) : p \in Procs}

\* Every byte on the books is in some buffer, but for those that a truncation
\* gave a handle after its release, and the limit is kept: no order of opens,
\* writes, flushes, refusals and releases books a byte twice or never returns it
\* (reserveBuffer, truncate, Release in mount_fuse.go).
Accounted ==
    /\ buffered = Cardinality(Held) + lost
    /\ buffered <= MaxBuffered

\* "releaseBuffer returns a closed handle's bytes to the budget" (mount_fuse.go,
\* the comment on it): with no handle left nothing is booked.  False where a
\* Setattr without a handle has collected a handle that is released before it
\* is truncated.
BudgetReturned == (\A p \in Procs : proc[p].pc = "closed") => buffered = 0

\* A description opened for reading serves what it opened until it is released,
\* whatever others do to the file meanwhile, so that its close has nothing to
\* write (writableHandles in mount_fuse.go).
ReadersUndisturbed ==
    \A p \in Procs :
        proc[p].pc = "open" /\ ~proc[p].writable =>
            proc[p].text = proc[p].got /\ proc[p].len = Length(proc[p].got) /\ ~proc[p].dirty

\* What docs/guide/filesystem.md says: a read straight after a write through the
\* mount sees what was just written (Tree.Document, Tree.Put).
ReadsOwnWrites ==
    \A p \in Procs : proc[p].pc = "open" /\ proc[p].got # 0 => proc[p].got >= proc[p].base

\* What the mount owes its processes: exact books, no disturbed reader.
FSSound == Accounted /\ ReadersUndisturbed
=============================================================================
