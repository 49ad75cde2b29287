---------------------------- MODULE DirectUpload ----------------------------
(***************************************************************************)
(* One direct upload: the document_uploads row and its state machine        *)
(* (services/document_upload_service, api/v2/uploads), the multipart upload *)
(* and the object at the storage provider (storage/object_store), the       *)
(* expiry janitor (tasks/upload_janitor) and the deletions that end it      *)
(* (document_service, collections_service).                                 *)
(*                                                                          *)
(* A transaction holds the lock of the collection and of the upload row     *)
(* from its first read to its commit; what it did at the provider before    *)
(* a rollback stays done.                                                   *)
(***************************************************************************)
EXTENDS Naturals, FiniteSets

CONSTANTS Requests,     \* request handlers
          Janitor,      \* the sweep of expired uploads
          None,
          PartNumbers,  \* the parts of the upload
          MaxRequests,  \* bound: requests served
          MaxPuts,      \* bound: parts put before the signed URLs run out
          MaxFaults     \* bound: transactions that die, storage failures

ASSUME UploadAssumption ==
    /\ Janitor \notin Requests /\ None \notin Requests \cup {Janitor}
    /\ PartNumbers # {}     \* ck_document_uploads_size_positive
    /\ MaxRequests \in Nat /\ MaxPuts \in Nat /\ MaxFaults \in Nat

VARIABLES row,      \* document_uploads.state; "none" before, "deleted" after
          expired,  \* expires_at has passed
          doc,      \* the documents row exists
          mp,       \* the provider's multipart upload
          parts,    \* its parts
          object,   \* the object under storage_key: its parts, "odd" or "none"
          lock,     \* who holds the row locks
          tx,       \* the transaction of each handler
          uploaded, \* document.uploaded audited, ingestion enqueued (history)
          torn,     \* a deletion erased the bytes, or left them (history)
          served, puts, faults

uploadVars == <<row, expired, doc, mp, parts, object, lock, tx, uploaded, torn, served, puts, faults>>
store == <<mp, parts, object>>
counters == <<served, puts, faults>>

Procs == Requests \cup {Janitor}
\* DocumentUploadState.
Active == {"initiated", "completing"}
Settled == {"completed", "aborted", "expired", "failed"}
\* The document_uploads row.
Uploads == {"none", "deleted"} \cup Active \cup Settled
\* A part: absent, of the expected size under one of two ETags, or too short.
PartValues == {"none", "a", "b", "short"}
Manifests == [PartNumbers -> {"a", "b"}]
Contents == [PartNumbers -> PartValues]
Empty == [n \in PartNumbers |-> "none"]
Odd == [n \in PartNumbers |-> "short"]

\* op is the request; target the state it will write; manifest the parts it
\* listed and verified.
NoTx == [pc |-> "idle", op |-> "none", manifest |-> Empty, target |-> "none"]
Pcs == {"idle", "insert", "mark", "relock", "head", "assemble", "finalize",
        "discard", "abort", "erase", "commit"}
UploadOps == {"none", "initiate", "read", "abort", "complete", "expire",
        "deleteDocument", "deleteCollection"}

UploadTypeOK ==
    /\ row \in Uploads
    /\ expired \in BOOLEAN /\ doc \in BOOLEAN
    /\ mp \in {"none", "open", "gone"} /\ parts \in Contents
    /\ object \in Contents
    /\ lock \in Procs \cup {None}
    /\ tx \in [Procs -> [pc : Pcs, op : UploadOps, manifest : Contents,
                         target : Uploads]]
    /\ \A p \in Procs : lock = p <=> tx[p].pc \notin {"idle", "relock"}
    /\ uploaded \in 0..2 /\ torn \subseteq {"erased", "kept"}
    /\ served \in 0..MaxRequests /\ puts \in 0..MaxPuts /\ faults \in 0..MaxFaults

UploadInit ==
    /\ row = "none" /\ expired = FALSE /\ doc = FALSE
    /\ mp = "none" /\ parts = Empty /\ object = Empty
    /\ lock = None /\ tx = [p \in Procs |-> NoTx]
    /\ uploaded = 0 /\ torn = {} /\ served = 0 /\ puts = 0 /\ faults = 0

Serve == served < MaxRequests /\ served' = served + 1
Fault == faults < MaxFaults /\ faults' = faults + 1

Stored == object # Empty
\* _validate_provider_part_layout: every part, each of its expected size.
RightLayout(content) == \A n \in PartNumbers : content[n] \in {"a", "b"}

Idle(p) == tx[p].pc = "idle" /\ lock = None
Proceed(p, at) == tx' = [tx EXCEPT ![p].pc = at]
Begin(p, at, op, target) ==
    /\ lock' = p
    /\ tx' = [tx EXCEPT ![p] = [NoTx EXCEPT !.pc = at, !.op = op, !.target = target]]
Release(p) == lock' = None /\ tx' = [tx EXCEPT ![p] = NoTx]
-----------------------------------------------------------------------------
(* The client and the provider.                                             *)

\* The client puts a part to a signed URL, again if it likes.
PutPart(n, value) ==
    /\ mp = "open" /\ parts[n] # value /\ puts < MaxPuts /\ puts' = puts + 1
    /\ parts' = [parts EXCEPT ![n] = value]
    /\ UNCHANGED <<row, expired, doc, mp, object, lock, tx, uploaded, torn, served, faults>>

\* The provider's rule against incomplete multipart uploads; it acts long
\* after the session's own expiry, or on an upload that has no row.
LifecycleReap ==
    /\ mp = "open" /\ \/ expired \/ row = "deleted"
                      \/ row = "none" /\ lock = None
    /\ mp' = "gone" /\ parts' = Empty
    /\ UNCHANGED <<row, expired, doc, object, lock, tx, uploaded, torn, counters>>

Lapse ==
    /\ ~expired /\ row \in Active /\ expired' = TRUE
    /\ UNCHANGED <<row, doc, store, lock, tx, uploaded, torn, counters>>

-----------------------------------------------------------------------------
(* Requests.                                                                *)

\* initiate: the provider's upload first, then the row.
Initiate(p) ==
    /\ p # Janitor /\ Idle(p) /\ Serve /\ row = "none" /\ mp = "none"
    /\ mp' = "open"
    /\ Begin(p, "insert", "initiate", "initiated")
    /\ UNCHANGED <<row, expired, doc, parts, object, uploaded, torn, puts, faults>>

\* An INITIATED session past its time.
Overdue == row = "initiated" /\ expired

\* What every request does first: a COMPLETING session is recovered, an
\* overdue one expired.  (A read of any other state changes nothing.)
Prepare(p, op) ==
    /\ p # Janitor /\ Idle(p) /\ Serve
    /\ \/ row = "completing" /\ Begin(p, "head", op, "completed")
       \/ Overdue /\ Begin(p, "abort", op, "expired")
    /\ UNCHANGED <<row, expired, doc, store, uploaded, torn, puts, faults>>

\* Reading the session and signing its parts do no more than that.
GetUpload(p) == Prepare(p, "read")
SignParts(p) == Prepare(p, "read")

\* abort of a session that is neither completed nor closed already.
Abort(p) ==
    /\ p # Janitor /\ Idle(p) /\ Serve
    /\ row = "failed" \/ (row = "initiated" /\ ~expired)
    /\ Begin(p, "abort", "abort", "aborted")
    /\ UNCHANGED <<row, expired, doc, store, uploaded, torn, puts, faults>>

AbortUpload(p) == Prepare(p, "abort") \/ Abort(p)

\* complete: the provider's parts must be the ones the client names.
Complete(p, manifest) ==
    /\ p # Janitor /\ Idle(p) /\ Serve
    /\ row = "initiated" /\ ~expired
    /\ mp = "open" /\ parts = manifest
    /\ lock' = p
    /\ tx' = [tx EXCEPT ![p] = [pc |-> "mark", op |-> "complete",
                                manifest |-> manifest, target |-> "completing"]]
    /\ UNCHANGED <<row, expired, doc, store, uploaded, torn, puts, faults>>

CompleteUpload(p) == Prepare(p, "complete") \/ \E manifest \in Manifests : Complete(p, manifest)

\* The durable boundary: COMPLETING is committed and the lock let go.
Mark(p) ==
    /\ tx[p].pc = "mark"
    /\ row' = "completing" /\ lock' = None
    /\ tx' = [tx EXCEPT ![p].pc = "relock", ![p].target = "completed"]
    /\ UNCHANGED <<expired, doc, store, uploaded, torn, counters>>

\* Mutant: the state is not read again after the lock.
RelockBlindly(p) ==
    /\ tx[p].pc = "relock" /\ lock = None
    /\ lock' = p /\ Proceed(p, "head")
    /\ UNCHANGED <<row, expired, doc, store, uploaded, torn, counters>>

\* The lock again; whoever came in between decides.
Relock(p) ==
    /\ tx[p].pc = "relock" /\ lock = None
    /\ IF row = "completing" THEN lock' = p /\ Proceed(p, "head") ELSE Release(p)
    /\ UNCHANGED <<row, expired, doc, store, uploaded, torn, counters>>

\* Mutant: the sweep leaves COMPLETING sessions to their clients.
SweepInitiated ==
    /\ Idle(Janitor) /\ row = "initiated" /\ expired
    /\ Begin(Janitor, "abort", "expire", "expired")
    /\ UNCHANGED <<row, expired, doc, store, uploaded, torn, counters>>

\* The janitor's candidate, read again under the lock.
Sweep ==
    /\ Idle(Janitor) /\ row \in Active /\ expired
    /\ IF row = "completing" THEN Begin(Janitor, "head", "expire", "completed")
                             ELSE Begin(Janitor, "abort", "expire", "expired")
    /\ UNCHANGED <<row, expired, doc, store, uploaded, torn, counters>>

-----------------------------------------------------------------------------
(* Across the provider's boundary.                                          *)

\* Recovery is impossible: a request is refused and rolls back, the janitor
\* expires the session.
Unrecoverable(p) ==
    IF p = Janitor
    THEN tx' = [tx EXCEPT ![p].pc = "abort", ![p].target = "expired"] /\ UNCHANGED lock
    ELSE Release(p)

\* HEAD finds the object, or the parts are listed and verified: against the
\* client's manifest in complete, for their layout in a recovery.
Head(p) ==
    LET own == tx[p].manifest # Empty IN
    /\ tx[p].pc = "head"
    /\ IF Stored THEN Proceed(p, "finalize") /\ UNCHANGED lock
       ELSE IF mp = "open" /\ RightLayout(parts) /\ (own => parts = tx[p].manifest)
       THEN tx' = [tx EXCEPT ![p].pc = "assemble", ![p].manifest = parts] /\ UNCHANGED lock
       ELSE Unrecoverable(p)
    /\ UNCHANGED <<row, expired, doc, store, uploaded, torn, counters>>

\* complete_multipart_upload with the verified ETags: a part put since then
\* fails it as a storage error, which rolls back; a lost answer does not
\* undo it.
Assemble(p) ==
    /\ tx[p].pc = "assemble"
    /\ IF mp = "open" /\ parts = tx[p].manifest
       THEN /\ \E content \in {parts, Odd} : /\ object' = content
                                             /\ IF content = Odd THEN Fault ELSE UNCHANGED faults
            /\ mp' = "gone" /\ parts' = Empty
            /\ Proceed(p, "finalize") /\ UNCHANGED lock
       ELSE /\ IF mp = "open" THEN Release(p) ELSE Unrecoverable(p)
            /\ UNCHANGED <<store, faults>>
    /\ UNCHANGED <<row, expired, doc, uploaded, torn, served, puts>>

\* Mutant: the stored object is taken as it is.
FinalizeUnverified(p) ==
    /\ tx[p].pc = "finalize" /\ Proceed(p, "commit")
    /\ UNCHANGED <<row, expired, doc, store, lock, uploaded, torn, counters>>

\* _finalize_verified: size and metadata of what is stored.
Finalize(p) ==
    /\ tx[p].pc = "finalize"
    /\ IF object = Odd
       THEN tx' = [tx EXCEPT ![p].pc = "discard", ![p].target = "failed"]
       ELSE Proceed(p, "commit")
    /\ UNCHANGED <<row, expired, doc, store, lock, uploaded, torn, counters>>

\* _fail_completion deletes the object under the row's FAILED.
Discard(p) ==
    /\ tx[p].pc = "discard" /\ Proceed(p, "commit")
    /\ object' = Empty
    /\ UNCHANGED <<row, expired, doc, mp, parts, lock, uploaded, torn, counters>>

AbortMultipart(p) ==
    /\ tx[p].pc = "abort" /\ Proceed(p, "erase")
    /\ mp' = "gone" /\ parts' = Empty
    /\ UNCHANGED <<row, expired, doc, object, lock, uploaded, torn, counters>>

\* Mutant: an aborted or expired session leaves the object.
EraseNothing(p) ==
    /\ tx[p].pc = "erase" /\ Proceed(p, "commit")
    /\ UNCHANGED <<row, expired, doc, store, lock, uploaded, torn, counters>>

\* The object goes before the transaction commits; the collection's deletion
\* of documents tolerates a failure here.
Erase(p) ==
    /\ tx[p].pc = "erase" /\ Proceed(p, "commit")
    /\ \/ /\ object' = Empty /\ UNCHANGED faults
          /\ torn' = IF doc THEN torn \cup {"erased"} ELSE torn
       \/ /\ tx[p].op = "deleteCollection" /\ doc /\ Fault
          /\ torn' = torn \cup {"kept"} /\ UNCHANGED object
    /\ UNCHANGED <<row, expired, doc, mp, parts, lock, uploaded, served, puts>>

\* The commit of the target state; the document is created with COMPLETED
\* unless it exists, and its ingestion enqueued after the commit.
Commit(p) ==
    LET state == tx[p].target IN
    /\ tx[p].pc = "commit"
    /\ row' = state
    /\ doc' = IF state = "completed" THEN TRUE ELSE IF state = "deleted" THEN FALSE ELSE doc
    /\ uploaded' = IF state = "completed" /\ ~doc THEN uploaded + 1 ELSE uploaded
    /\ Release(p)
    /\ UNCHANGED <<expired, store, torn, counters>>

\* The row of a new session is committed.
InsertUpload(p) ==
    /\ tx[p].pc = "insert" /\ row' = "initiated" /\ Release(p)
    /\ UNCHANGED <<expired, doc, store, uploaded, torn, counters>>

\* A failed insert or commit aborts the provider's upload again, unless the
\* process died.
InsertFails(p) ==
    /\ tx[p].pc = "insert" /\ Fault /\ Release(p)
    /\ \/ mp' = "gone" /\ parts' = Empty
       \/ UNCHANGED <<mp, parts>>
    /\ UNCHANGED <<row, expired, doc, object, uploaded, torn, served, puts>>

\* A storage or database failure, or the death of the process: rolled back.
RollBack(p) ==
    /\ tx[p].pc \notin {"idle", "insert"} /\ Fault
    /\ lock' = IF lock = p THEN None ELSE lock
    /\ tx' = [tx EXCEPT ![p] = NoTx]
    /\ UNCHANGED <<row, expired, doc, store, uploaded, torn, served, puts>>

-----------------------------------------------------------------------------
(* Deletions.                                                               *)

\* DocumentService.delete: the rows, then the bytes, then the commit.
DeleteDocument(p) ==
    /\ p # Janitor /\ Idle(p) /\ Serve /\ doc
    /\ Begin(p, "erase", "deleteDocument", "deleted")
    /\ UNCHANGED <<row, expired, doc, store, uploaded, torn, puts, faults>>

\* CollectionsService.delete: an active session is aborted first, documents
\* lose their bytes, every row goes with the collection.
DeleteCollection(p) ==
    /\ p # Janitor /\ Idle(p) /\ Serve /\ row \in Active \cup Settled
    /\ Begin(p, IF row \in Active THEN "abort" ELSE IF doc THEN "erase" ELSE "commit",
             "deleteCollection", "deleted")
    /\ UNCHANGED <<row, expired, doc, store, uploaded, torn, puts, faults>>

-----------------------------------------------------------------------------
TxStep(p) ==
    \/ InsertUpload(p) \/ Mark(p) \/ Relock(p) \/ Head(p) \/ Assemble(p) \/ Finalize(p)
    \/ Discard(p) \/ AbortMultipart(p) \/ Erase(p) \/ Commit(p)

UploadNext ==
    \/ \E p \in Procs : \/ Initiate(p) \/ GetUpload(p) \/ SignParts(p) \/ AbortUpload(p)
                        \/ CompleteUpload(p) \/ TxStep(p) \/ RollBack(p)
                        \/ InsertFails(p) \/ DeleteDocument(p) \/ DeleteCollection(p)
    \/ Sweep \/ Lapse \/ LifecycleReap
    \/ \E n \in PartNumbers, value \in PartValues \ {"none"} : PutPart(n, value)

UploadSpec == UploadInit /\ [][UploadNext]_uploadVars

\* Transactions take their steps, time passes, the sweep runs periodically.
UploadFairness ==
    /\ \A p \in Procs : WF_uploadVars(TxStep(p))
    /\ WF_uploadVars(Lapse) /\ SF_uploadVars(Sweep)

UploadFairSpec == UploadSpec /\ UploadFairness
-----------------------------------------------------------------------------
\* A document always has the bytes that were verified, in a session that is
\* COMPLETED; the exception is a deletion that erased them.
DocumentHasBytes ==
    doc => /\ row = "completed"
           /\ "erased" \in torn \/ RightLayout(object)

\* A session that ended without a document has left nothing at the provider:
\* no parts, no object, whoever crossed the boundary before.
NothingStranded ==
    (row \in {"aborted", "expired", "failed", "deleted"} /\ lock = None) =>
       mp # "open" /\ (Stored => "kept" \in torn)

\* The document is created, audited and enqueued once, however many requests
\* and sweeps complete the session.
CreatedOnce == uploaded <= 1 /\ (doc => uploaded = 1)

\* A finished session never opens again, and only FAILED still changes.
SettledStays ==
    [][(row \in Settled /\ row' # row) => \/ row' = "deleted"
                                          \/ row = "failed" /\ row' = "aborted"]_uploadVars

\* Every session ends: completed, or expired by the janitor at the latest.
SessionEnds == (row \in Active) ~> (row \notin Active)

\* An upload is whole however its requests, its deletion and the janitor
\* overlap: one document with its bytes, or nothing at all (DocumentHasBytes,
\* NothingStranded, CreatedOnce).
UploadIsWhole == UploadTypeOK /\ DocumentHasBytes /\ NothingStranded /\ CreatedOnce

=============================================================================
