---------------------------- MODULE IngestIndex ----------------------------
(***************************************************************************)
(* Ingestion of one document by at-least-once Celery deliveries             *)
(* (tasks/ingest.py) and the search index derived from its chunk rows       *)
(* (tasks/index_sync.py, search/store.py).                                  *)
(*                                                                          *)
(* Every claim of the row increments ingestion_attempts and stores a fresh  *)
(* ingestion_run_id in the same UPDATE, so a run id is represented by the   *)
(* attempt number it was stored with (0 for NULL).  Chunk rows get fresh    *)
(* ids when they are replaced: `rows` is the attempt that wrote them.  An   *)
(* index entry is a chunk (its generation and bulk batch) and the           *)
(* ingestion_attempt it is tagged with.  The database reads committed data  *)
(* statement by statement; every transaction that locks the row is a step.  *)
(***************************************************************************)
EXTENDS Integers, FiniteSets

CONSTANTS Deliveries,   \* Celery deliveries of ingest_document in flight
          Resyncs,      \* deliveries of sync_document_index / reindex passes
          Batches,      \* bulk batches of a document; spans of a recording
          MaxRetries,   \* settings.ingestion_max_retries
          MaxFaults,    \* bound: crashes, dependency and database errors
          MaxLapses,    \* bound: leases that lapse under a live worker
          MaxRequests   \* bound: deletes and operator passes

ASSUME IngestAssumption ==
    /\ MaxRetries \in Nat /\ MaxFaults \in Nat
    /\ MaxLapses \in Nat /\ MaxRequests \in Nat

VARIABLES doc,          \* the Document row
          rows,         \* attempt that wrote the chunk rows, 0 for none
          legacy,       \* rows of this attempt carry another fingerprint
          media,        \* audio or video: transcribed span by span
          spans,        \* spans with a stored TranscriptionCheckpoint
          index,        \* entries of the OpenSearch index
          task,         \* Deliveries -> state of that delivery
          sync,         \* Resyncs -> state of that pass
          cli,          \* the re-embedding command: idle or reserved
          deferred,     \* a cleanup was deferred or died with its worker, a job was lost
          faults, lapses, requests

vars == <<doc, rows, legacy, media, spans, index, task, sync, cli, deferred,
          faults, lapses, requests>>
budgets == <<faults, lapses, requests>>

Statuses == {"gone", "pending", "processing", "ready", "failed"}
Documents == [status : Statuses, attempt : Nat, run : Nat, fresh : BOOLEAN]
Entries == [gen : Nat, tag : Nat, batch : Batches]
TaskPcs == {"idle", "queued", "working", "syncDocument", "syncRows", "purge",
            "upsert", "older", "ready", "discard", "failing"}
Tasks == [pc : TaskPcs, attempt : Nat, retries : Nat, snap : Nat,
          left : SUBSET Batches, retry : BOOLEAN]
PassPcs == {"idle", "queued", "requeued", "rows", "drop", "purge", "clear",
            "upsert", "older", "check", "undo", "trim", "exhausted"}
Passes == [pc : PassPcs, attempt : Nat, snap : Nat, left : SUBSET Batches,
           retries : Nat]
NoTask == [pc |-> "idle", attempt |-> 0, retries |-> 0, snap |-> 0,
           left |-> {}, retry |-> FALSE]
NoSync == [pc |-> "idle", attempt |-> 0, snap |-> 0, left |-> {},
           retries |-> 0]

TypeOK ==
    /\ doc \in Documents
    /\ rows \in Nat /\ legacy \in Nat /\ media \in BOOLEAN
    /\ spans \subseteq Batches
    /\ index \subseteq Entries
    /\ task \in [Deliveries -> Tasks] /\ sync \in [Resyncs -> Passes]
    /\ cli \in {"idle", "reserved"} /\ deferred \in BOOLEAN
    /\ faults \in 0..MaxFaults /\ lapses \in 0..MaxLapses
    /\ requests \in 0..MaxRequests

\* An upload just committed and its delivery was published, or a ready
\* document whose rows an earlier embedding contract wrote.
Init ==
    /\ media \in BOOLEAN
    /\ \/ /\ doc = [status |-> "pending", attempt |-> 0, run |-> 0,
                    fresh |-> TRUE]
          /\ rows = 0 /\ legacy = 0
          /\ \E d \in Deliveries :
                task = [e \in Deliveries |->
                          IF e = d THEN [NoTask EXCEPT !.pc = "queued"]
                                   ELSE NoTask]
       \/ /\ doc = [status |-> "ready", attempt |-> 1, run |-> 0,
                    fresh |-> TRUE]
          /\ rows = 1 /\ legacy = 1
          /\ task = [d \in Deliveries |-> NoTask]
    /\ spans = {} /\ index = {}
    /\ sync = [r \in Resyncs |-> NoSync]
    /\ cli = "idle" /\ deferred = FALSE
    /\ faults = 0 /\ lapses = 0 /\ requests = 0

-----------------------------------------------------------------------------
(* Row fences and index requests.                                           *)

\* touch_processing / get_claimed_for_update: the lease by run id.
HoldsLease(a) == doc.status = "processing" /\ doc.run = a

\* Mutant: any claim will do.
OwnsAnyAttempt(a) == doc.status = "processing"

\* The expected_attempt guard of replace_for_ingestion, mark_ingestion_ready
\* and mark_ingestion_failed.
OwnsAttempt(a) == doc.status = "processing" /\ doc.attempt = a

\* claim_ingestion with allow_failed: every status but a fresh PROCESSING.
Claimable ==
    \/ doc.status \in {"pending", "ready", "failed"}
    \/ doc.status = "processing" /\ ~doc.fresh

\* Mutant: the delete names the document, not the generation.
EveryGeneration(a) == index

\* delete_document_generation and delete_older_document_generations.
Generation(a) == {e \in index : e.tag = a}
OlderGenerations(a) == {e \in index : e.tag < a}
Entry(gen, tag, b) == [gen |-> gen, tag |-> tag, batch |-> b]

\* load_passages drops a hit whose attempt is not the ready row's.
Current == {Entry(rows, doc.attempt, b) : b \in Batches}
RequiresReembedding == rows # 0 /\ rows = legacy

Fault == faults < MaxFaults /\ faults' = faults + 1
         /\ UNCHANGED <<lapses, requests>>

Goto(d, pc) == task' = [task EXCEPT ![d].pc = pc]
Finish(d) == task' = [task EXCEPT ![d] = NoTask]

\* self.retry, or the end of the task at the cap.
Requeue(d, cap) ==
    task' = [task EXCEPT ![d] =
        IF @.retries < cap
        THEN [NoTask EXCEPT !.pc = "queued", !.retries = task[d].retries + 1]
        ELSE NoTask]

-----------------------------------------------------------------------------
(* One delivery of ingest_document.                                         *)

\* ensure_embedding_contract or the claim's transaction fails: retried, and
\* at the cap the document is left as it is.
PreclaimFails(d) ==
    /\ task[d].pc = "queued" /\ Fault
    /\ Requeue(d, MaxRetries)
    /\ UNCHANGED <<doc, rows, legacy, media, spans, index, sync, cli, deferred>>

\* begin_ingestion: a fenced claim, or the delivery has nothing to do.
BeginIngestion(d) ==
    /\ task[d].pc = "queued"
    /\ IF Claimable
       THEN /\ doc' = [status |-> "processing", attempt |-> doc.attempt + 1,
                       run |-> doc.attempt + 1, fresh |-> TRUE]
            /\ task' = [task EXCEPT ![d].pc = "working",
                                    ![d].attempt = doc.attempt + 1,
                                    ![d].left = IF media THEN Batches ELSE {}]
       ELSE Finish(d) /\ UNCHANGED doc
    /\ UNCHANGED <<rows, legacy, media, spans, index, sync, cli, deferred, budgets>>

\* upsert: the span of one batch of the recording is kept across attempts.
Checkpoint(b) == spans' = spans \cup {b}
\* One span of a recording: lease, checkpoint, lease, transcription, and the
\* checkpoint under the lease; a lost lease ends the delivery.
TranscribeSpan(d, b) ==
    /\ task[d].pc = "working" /\ b \in task[d].left
    /\ IF HoldsLease(task[d].attempt)
       THEN /\ doc' = [doc EXCEPT !.fresh = TRUE]
            /\ Checkpoint(b)
            /\ task' = [task EXCEPT ![d].left = @ \ {b}]
       ELSE Finish(d) /\ UNCHANGED <<doc, spans>>
    /\ UNCHANGED <<rows, legacy, media, index, sync, cli, deferred, budgets>>

\* The heartbeat of a media pipeline: renews the lease or stops the pipeline.
Heartbeat(d) ==
    /\ media /\ task[d].pc = "working"
    /\ IF HoldsLease(task[d].attempt)
       THEN ~doc.fresh /\ doc' = [doc EXCEPT !.fresh = TRUE] /\ UNCHANGED task
       ELSE Finish(d) /\ UNCHANGED doc
    /\ UNCHANGED <<rows, legacy, media, spans, index, sync, cli, deferred, budgets>>

\* replace_for_ingestion: fenced by the attempt, under the row's lock.
ReplaceRows(a, gen) ==
    /\ rows' = IF OwnsAttempt(a) THEN gen ELSE rows
    /\ doc' = IF OwnsAttempt(a) THEN [doc EXCEPT !.fresh = TRUE] ELSE doc

\* The rows with the extraction or the transcript, in one transaction: gen is the
\* attempt, or 0 when no text was extracted.
Persist(d, gen) ==
    /\ task[d].pc = "working" /\ task[d].left = {}
    /\ ReplaceRows(task[d].attempt, gen)
    /\ IF OwnsAttempt(task[d].attempt) THEN Goto(d, "syncDocument") ELSE Finish(d)
    /\ UNCHANGED <<legacy, media, spans, index, sync, cli, deferred, budgets>>

\* A parse or media error: FAILED, not retried.
ParseFails(d) ==
    /\ task[d].pc = "working"
    /\ task' = [task EXCEPT ![d].pc = "failing", ![d].retry = FALSE]
    /\ UNCHANGED <<doc, rows, legacy, media, spans, index, sync, cli, deferred, budgets>>

\* A storage, embedding or database error: FAILED and retried.
WorkFails(d) ==
    /\ task[d].pc = "working" /\ Fault
    /\ task' = [task EXCEPT ![d].pc = "failing", ![d].retry = TRUE]
    /\ UNCHANGED <<doc, rows, legacy, media, spans, index, sync, cli, deferred>>

\* sync_document_index_async with expected_attempt: the document, then its
\* chunks, are two statements of one READ COMMITTED transaction.
SyncDocument(d) ==
    /\ task[d].pc = "syncDocument"
    /\ IF OwnsAttempt(task[d].attempt) THEN Goto(d, "syncRows") ELSE Finish(d)
    /\ UNCHANGED <<doc, rows, legacy, media, spans, index, sync, cli, deferred, budgets>>

SyncRows(d) ==
    /\ task[d].pc = "syncRows"
    /\ task' = [task EXCEPT ![d].pc = IF rows = 0 THEN "purge" ELSE "upsert",
                            ![d].snap = rows, ![d].left = Batches]
    /\ UNCHANGED <<doc, rows, legacy, media, spans, index, sync, cli, deferred, budgets>>

\* No chunk: the attempt's own generation goes, then the older ones.
Purge(d) ==
    /\ task[d].pc = "purge"
    /\ index' = index \ Generation(task[d].attempt)
    /\ Goto(d, "older")
    /\ UNCHANGED <<doc, rows, legacy, media, spans, sync, cli, deferred, budgets>>

\* _bulk_batch: one request per batch.
Upsert(d, b) ==
    /\ task[d].pc = "upsert" /\ b \in task[d].left
    /\ index' = index \cup {Entry(task[d].snap, task[d].attempt, b)}
    /\ task' = [task EXCEPT ![d].left = @ \ {b},
                            ![d].pc = IF task[d].left = {b} THEN "older" ELSE @]
    /\ UNCHANGED <<doc, rows, legacy, media, spans, sync, cli, deferred, budgets>>

\* A bulk request fails: the generation is deleted, or that too fails and is
\* logged as deferred; the attempt fails and is retried.
UpsertFails(d, cleaned) ==
    /\ task[d].pc = "upsert" /\ Fault
    /\ index' = IF cleaned THEN index \ Generation(task[d].attempt) ELSE index
    /\ deferred' = (deferred \/ ~cleaned)
    /\ task' = [task EXCEPT ![d].pc = "failing", ![d].retry = TRUE]
    /\ UNCHANGED <<doc, rows, legacy, media, spans, sync, cli>>

\* delete_older_document_generations; an empty document then fails.
DeleteOlder(d) ==
    /\ task[d].pc = "older"
    /\ index' = index \ OlderGenerations(task[d].attempt)
    /\ task' = [task EXCEPT ![d].pc = IF task[d].snap = 0 THEN "failing" ELSE "ready",
                            ![d].retry = FALSE]
    /\ UNCHANGED <<doc, rows, legacy, media, spans, sync, cli, deferred, budgets>>

\* A delete request fails outside the upsert's handler: its entries stay.
DeleteFails(d) ==
    /\ task[d].pc \in {"purge", "older"} /\ Fault
    /\ task' = [task EXCEPT ![d].pc = "failing", ![d].retry = TRUE]
    /\ deferred' = TRUE
    /\ UNCHANGED <<doc, rows, legacy, media, spans, index, sync, cli>>

\* Mutant: the superseded attempt returns without discarding.
MarkReadyOrLeave(d) ==
    /\ task[d].pc = "ready"
    /\ doc' = IF OwnsAttempt(task[d].attempt)
              THEN [doc EXCEPT !.status = "ready", !.run = 0, !.fresh = TRUE] ELSE doc
    /\ Finish(d)
    /\ UNCHANGED <<rows, legacy, media, spans, index, sync, cli, deferred, budgets>>

\* mark_ingestion_ready, or the published generation has to be discarded.
MarkReady(d) ==
    /\ task[d].pc = "ready"
    /\ IF OwnsAttempt(task[d].attempt)
       THEN /\ doc' = [doc EXCEPT !.status = "ready", !.run = 0, !.fresh = TRUE]
            /\ Finish(d)
       ELSE Goto(d, "discard") /\ UNCHANGED doc
    /\ UNCHANGED <<rows, legacy, media, spans, index, sync, cli, deferred, budgets>>

\* _discard_generation: best effort, a failure is logged as deferred.
Discard(d) ==
    /\ task[d].pc = "discard"
    /\ \/ index' = index \ Generation(task[d].attempt) /\ UNCHANGED <<deferred, budgets>>
       \/ Fault /\ deferred' = TRUE /\ UNCHANGED index
    /\ Finish(d)
    /\ UNCHANGED <<doc, rows, legacy, media, spans, sync, cli>>

\* mark_ingestion_failed under the attempt.
MarkFailed(a) ==
    doc' = IF OwnsAttempt(a)
           THEN [doc EXCEPT !.status = "failed", !.run = 0, !.fresh = TRUE] ELSE doc

\* _finalize_failure, then the wrapper's retry.
FinalizeFailure(d) ==
    /\ task[d].pc = "failing"
    /\ MarkFailed(task[d].attempt)
    /\ IF task[d].retry THEN Requeue(d, MaxRetries) ELSE Finish(d)
    /\ UNCHANGED <<rows, legacy, media, spans, index, sync, cli, deferred, budgets>>

\* Both tries of the finalizer meet a database error.  At the cap the wrapper
\* tries _fail once more: with the database still down the delivery is retried
\* up to two times further, then the row stays PROCESSING for the sweep.
FinalizeFails(d) ==
    /\ task[d].pc = "failing" /\ Fault
    /\ \/ /\ Requeue(d, MaxRetries + IF task[d].retries < MaxRetries THEN 0 ELSE 2)
          /\ UNCHANGED doc
       \/ /\ task[d].retries >= MaxRetries
          /\ MarkFailed(task[d].attempt) /\ Finish(d)
    /\ UNCHANGED <<rows, legacy, media, spans, index, sync, cli, deferred>>

\* A worker process dies: acks_late delivers the message again.  One that no
\* longer owned the row discards nothing of what it published.
Crash(d) ==
    /\ task[d].pc \notin {"idle", "queued"} /\ Fault
    /\ task' = [task EXCEPT ![d] = [NoTask EXCEPT !.pc = "queued",
                                                  !.retries = task[d].retries]]
    /\ deferred' = (deferred \/ ~OwnsAttempt(task[d].attempt))
    /\ UNCHANGED <<doc, rows, legacy, media, spans, index, sync, cli>>
-----------------------------------------------------------------------------
(* Out-of-band resync: sync_document_index_async without expected_attempt.  *)

SyncGoto(r, pc) == sync' = [sync EXCEPT ![r].pc = pc]
SyncDone(r) == sync' = [sync EXCEPT ![r] = NoSync]

\* The document is read; its chunks follow in a second statement.
ResyncRead(r) ==
    /\ sync[r].pc \in {"queued", "requeued"}
    /\ sync' = [sync EXCEPT ![r].attempt = doc.attempt,
         ![r].pc = IF doc.status = "gone" THEN "drop"
                   ELSE IF doc.status = "ready" THEN "rows"
                   ELSE IF doc.status = "processing" THEN "trim" ELSE "purge"]
    /\ UNCHANGED <<doc, rows, legacy, media, spans, index, task, cli, deferred, budgets>>

\* Ready: no chunks, or chunks of another fingerprint, purge the generation.
ResyncRows(r) ==
    /\ sync[r].pc = "rows"
    /\ sync' = [sync EXCEPT ![r].snap = rows, ![r].left = Batches,
         ![r].pc = IF rows = 0 \/ RequiresReembedding THEN "purge" ELSE "clear"]
    /\ UNCHANGED <<doc, rows, legacy, media, spans, index, task, cli, deferred, budgets>>

\* delete_document: every generation of a deleted document.
ResyncDrop(r) ==
    /\ sync[r].pc = "drop"
    /\ index' = {}
    /\ SyncDone(r)
    /\ UNCHANGED <<doc, rows, legacy, media, spans, task, cli, deferred, budgets>>

\* delete_document_generation before a purge's trim or before the upsert.
ResyncClear(r) ==
    /\ sync[r].pc \in {"purge", "clear"}
    /\ index' = index \ Generation(sync[r].attempt)
    /\ SyncGoto(r, IF sync[r].pc = "purge" THEN "trim" ELSE "upsert")
    /\ UNCHANGED <<doc, rows, legacy, media, spans, task, cli, deferred, budgets>>

ResyncUpsert(r, b) ==
    /\ sync[r].pc = "upsert" /\ b \in sync[r].left
    /\ index' = index \cup {Entry(sync[r].snap, sync[r].attempt, b)}
    /\ sync' = [sync EXCEPT ![r].left = @ \ {b},
                            ![r].pc = IF sync[r].left = {b} THEN "older" ELSE @]
    /\ UNCHANGED <<doc, rows, legacy, media, spans, task, cli, deferred, budgets>>

\* delete_older_document_generations, which ends a purge.
ResyncOlder(r) ==
    /\ sync[r].pc \in {"older", "trim"}
    /\ index' = index \ OlderGenerations(sync[r].attempt)
    /\ IF sync[r].pc = "older" THEN SyncGoto(r, "check") ELSE SyncDone(r)
    /\ UNCHANGED <<doc, rows, legacy, media, spans, task, cli, deferred, budgets>>

\* The row is read again: a pass overtaken by a claim undoes its generation.
ResyncCheck(r) ==
    /\ sync[r].pc = "check"
    /\ IF doc.status = "ready" /\ doc.attempt = sync[r].attempt
       THEN SyncDone(r) ELSE SyncGoto(r, "undo")
    /\ UNCHANGED <<doc, rows, legacy, media, spans, index, task, cli, deferred, budgets>>

ResyncUndo(r) ==
    /\ sync[r].pc = "undo"
    /\ index' = index \ Generation(sync[r].attempt)
    /\ SyncDone(r)
    /\ UNCHANGED <<doc, rows, legacy, media, spans, task, cli, deferred, budgets>>

\* A request fails (a failed upsert deletes its generation first) or the
\* worker dies: delivered again, up to the cap.
ResyncFails(r, cleaned) ==
    /\ sync[r].pc \notin {"idle", "queued", "requeued", "exhausted"} /\ Fault
    /\ index' = IF sync[r].pc = "upsert" /\ cleaned
                THEN index \ Generation(sync[r].attempt) ELSE index
    /\ sync' = [sync EXCEPT ![r] =
         [NoSync EXCEPT !.pc = IF sync[r].retries < MaxRetries
                               THEN "requeued" ELSE "exhausted",
                        !.retries = IF sync[r].retries < MaxRetries
                                    THEN sync[r].retries + 1 ELSE 0]]
    /\ deferred' = (deferred \/ sync[r].retries >= MaxRetries)
    /\ UNCHANGED <<doc, rows, legacy, media, spans, task, cli>>
-----------------------------------------------------------------------------
(* The document's owner, the operator and the beat jobs.                    *)

Request == requests < MaxRequests /\ requests' = requests + 1

\* enqueue_index_sync: an idle slot takes the message, or the broker is down.
EnqueueSync ==
    \/ /\ \E r \in Resyncs :
            /\ sync[r].pc \in {"idle", "exhausted"}
            /\ SyncGoto(r, IF sync[r].pc = "idle" THEN "queued" ELSE "requeued")
       /\ UNCHANGED <<deferred, faults>>
    \/ /\ faults < MaxFaults /\ faults' = faults + 1
       /\ deferred' = TRUE /\ UNCHANGED sync

\* DocumentService.delete: the row and its chunks, then the index job.
DeleteDocument ==
    /\ doc.status # "gone" /\ Request
    /\ doc' = [doc EXCEPT !.status = "gone", !.run = 0]
    /\ rows' = 0 /\ spans' = {}
    /\ EnqueueSync
    /\ UNCHANGED <<legacy, media, index, task, cli, lapses>>

\* app.search.reindex: an operator's pass over an existing document.
Reindex ==
    /\ doc.status # "gone" /\ Request
    /\ EnqueueSync
    /\ UNCHANGED <<doc, rows, legacy, media, spans, index, task, cli, lapses>>

\* updated_at falls behind connector_ingest_recovery_minutes: of itself when
\* nothing works on the row, else a worker is that slow (a bounded lapse).
\* The re-embedding command publishes or releases within the window.
Lapse ==
    /\ doc.status \in {"pending", "processing"} /\ doc.fresh /\ cli = "idle"
    /\ doc' = [doc EXCEPT !.fresh = FALSE]
    /\ IF \A d \in Deliveries : task[d].pc = "idle"
       THEN UNCHANGED budgets
       ELSE /\ lapses < MaxLapses /\ lapses' = lapses + 1
            /\ UNCHANGED <<faults, requests>>
    /\ UNCHANGED <<rows, legacy, media, spans, index, task, sync, cli, deferred>>

\* enqueue_ingestion: an idle slot takes the message, or the broker is down.
EnqueueIngestion ==
    \/ /\ \E d \in Deliveries :
            task[d].pc = "idle" /\ Goto(d, "queued")
       /\ UNCHANGED budgets
    \/ Fault /\ UNCHANGED task

\* Mutant: only rows that nobody ever claimed are swept.
SweepPendingOnly ==
    /\ doc.status = "pending" /\ ~doc.fresh
    /\ doc' = [doc EXCEPT !.fresh = TRUE]
    /\ EnqueueIngestion
    /\ UNCHANGED <<rows, legacy, media, spans, index, sync, cli, deferred>>

\* _sweep_stranded: the reservation makes the row PENDING, then publishes.
SweepStranded ==
    /\ doc.status \in {"pending", "processing"} /\ ~doc.fresh
    /\ doc' = [doc EXCEPT !.status = "pending", !.run = 0, !.fresh = TRUE]
    /\ EnqueueIngestion
    /\ UNCHANGED <<rows, legacy, media, spans, index, sync, cli, deferred>>

\* reserve_reembedding: a ready document of another fingerprint.
ReserveReembedding ==
    /\ cli = "idle" /\ doc.status = "ready" /\ RequiresReembedding
    /\ doc' = [doc EXCEPT !.status = "pending", !.fresh = TRUE]
    /\ cli' = "reserved"
    /\ UNCHANGED <<rows, legacy, media, spans, index, task, sync, deferred, budgets>>

\* The command publishes; when the broker refuses it releases the row.
PublishReembedding ==
    /\ cli = "reserved" /\ cli' = "idle"
    /\ \/ /\ \E d \in Deliveries : task[d].pc = "idle" /\ Goto(d, "queued")
          /\ UNCHANGED <<doc, budgets>>
       \/ /\ Fault
          /\ doc' = IF doc.status = "pending" /\ RequiresReembedding
                    THEN [doc EXCEPT !.status = "ready", !.fresh = TRUE] ELSE doc
          /\ UNCHANGED task
    /\ UNCHANGED <<rows, legacy, media, spans, index, sync, deferred>>
-----------------------------------------------------------------------------
Deliver(d) ==
    \/ BeginIngestion(d) \/ Heartbeat(d)
    \/ \E b \in Batches : TranscribeSpan(d, b) \/ Upsert(d, b)
    \/ \E gen \in {0, task[d].attempt} : Persist(d, gen)
    \/ ParseFails(d) \/ SyncDocument(d) \/ SyncRows(d) \/ Purge(d)
    \/ DeleteOlder(d) \/ MarkReady(d) \/ Discard(d)
    \/ FinalizeFailure(d)

DeliveryFault(d) ==
    \/ PreclaimFails(d) \/ WorkFails(d) \/ DeleteFails(d)
    \/ \E cleaned \in BOOLEAN : UpsertFails(d, cleaned)
    \/ FinalizeFails(d) \/ Crash(d)

Resync(r) ==
    \/ ResyncRead(r) \/ ResyncRows(r) \/ ResyncDrop(r) \/ ResyncClear(r)
    \/ \E b \in Batches : ResyncUpsert(r, b)
    \/ ResyncOlder(r) \/ ResyncCheck(r) \/ ResyncUndo(r)

Next ==
    \/ \E d \in Deliveries : Deliver(d) \/ DeliveryFault(d)
    \/ \E r \in Resyncs : Resync(r) \/ \E cleaned \in BOOLEAN : ResyncFails(r, cleaned)
    \/ DeleteDocument \/ Reindex \/ Lapse \/ SweepStranded
    \/ ReserveReembedding \/ PublishReembedding

Spec == Init /\ [][Next]_vars

\* Workers take the steps of what they execute, time passes for a row nobody
\* works on, and the beat process runs the sweep and the operator finishes.
Fairness ==
    /\ \A d \in Deliveries : WF_vars(Deliver(d))
    /\ \A r \in Resyncs : WF_vars(Resync(r))
    /\ WF_vars(Lapse) /\ WF_vars(SweepStranded) /\ WF_vars(PublishReembedding)

FairSpec == Spec /\ Fairness
-----------------------------------------------------------------------------
\* A READY document's chunk rows are those of the attempt it is READY at: no
\* worker that lost the row, however late, replaced or emptied them.
ReadyOwnsRows == doc.status = "ready" => rows = doc.attempt

ResyncsSettled == \A r \in Resyncs : sync[r].pc \in {"idle", "queued"}

\* READY means searchable: unless an out-of-band resync is rewriting it or was
\* given up, every chunk of a READY document is in the index under the tag
\* retrieval accepts, whatever late workers delete.
ReadyIsSearchable ==
    doc.status = "ready" /\ ~RequiresReembedding /\ ResyncsSettled
       => Current \subseteq index

\* With nothing in flight and no cleanup logged as deferred, the index of a
\* READY document holds its current generation and nothing else, and that of
\* a deleted document nothing at all.
QuietIndexIsExact ==
    /\ \A d \in Deliveries : task[d].pc = "idle"
    /\ \A r \in Resyncs : sync[r].pc = "idle"
    /\ ~deferred
    => /\ doc.status = "ready" /\ ~RequiresReembedding => index = Current
       /\ doc.status = "gone" => index = {}

\* Every document settles: PENDING and PROCESSING are left, through retries,
\* a stale claim or the stranded-work sweep.
DocumentSettles ==
    doc.status \in {"pending", "processing"}
       ~> doc.status \in {"ready", "failed", "gone"}

\* The index follows the rows: what is READY can be found (ReadyIsSearchable)
\* and, at rest, nothing else can (QuietIndexIsExact).
IndexFollowsRows == TypeOK /\ ReadyIsSearchable /\ QuietIndexIsExact

=============================================================================
