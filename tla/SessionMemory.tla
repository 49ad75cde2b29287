--------------------------- MODULE SessionMemory ---------------------------
(***************************************************************************)
(* What a chat session remembers: its messages, the rolling summary that    *)
(* replaces the oldest of them (session_summaries), the summarize_session   *)
(* task that advances it after an answer, and what a send reads of both.    *)
(*                                                                          *)
(* A message is its place in (created_at, id) order.  created_at is the     *)
(* start of the transaction that inserts the row, so a message may become   *)
(* visible after messages of later places: those are `disordered'.          *)
(***************************************************************************)
EXTENDS Naturals, FiniteSets, FiniteSetsExt, Sequences, SequencesExt

CONSTANTS Kept,        \* messages a session opens with in this instance
          Near,        \* messages within a second of the next, with the larger id
          KeepMessages, MinBatch, MaxBatch, \* chat_summary_*, _MAX_BATCH_MESSAGES
          MaxSends,    \* bound: messages sent
          Tasks,       \* summarize_session deliveries, one for each answer
          MaxFaults    \* bound: crashes and lost enqueues

ASSUME MemoryAssumption ==
    /\ Kept \in Nat /\ KeepMessages \in Nat \ {0} /\ MinBatch \in Nat \ {0}
    /\ MaxBatch \in Nat \ {0} /\ MaxSends \in Nat /\ MaxFaults \in Nat
    /\ IsFiniteSet(Tasks) /\ Cardinality(Tasks) >= MaxSends

VARIABLES stored,     \* messages: the committed rows
          place,      \* places handed out
          disordered, \* rows committed after a row of a later place (history)
          row,        \* session_summaries
          task,       \* the summarize_session deliveries
          sender,     \* the send_message request in progress
          sends, faults, deleted

memoryVars == <<stored, place, disordered, row, task, sender, sends, faults, deleted>>

Message == 1..(Kept + 2 * MaxSends)
NoRow == [state |-> "none", folds |-> {}, boundary |-> 0, version |-> 0]
IdleTask == [pc |-> "none", saw |-> NoRow, covers |-> {}]
IdleSender == [pc |-> "idle", saw |-> NoRow]

MemoryInit ==
    /\ stored = 1..Kept /\ place = Kept /\ disordered = {}
    \* No summary, or one stored before summaries were structured.
    /\ \E b \in 0..Kept :
          row = IF b = 0 THEN NoRow
                ELSE [state |-> "invalid", folds |-> {}, boundary |-> b, version |-> 1]
    /\ task = [t \in Tasks |-> IdleTask] /\ sender = IdleSender
    /\ sends = 0 /\ faults = 0 /\ deleted = FALSE

\* The commit of a message row.
Insert(m) ==
    /\ stored' = stored \cup {m}
    /\ disordered' = IF \E later \in stored : later > m THEN disordered \cup {m} ELSE disordered

\* stored_summary_text: a summary that does not parse is as good as none, and
\* then the cursor is not used either.
CursorOfAnyRow(saw) == saw.boundary
Cursor(saw) == IF saw.state = "valid" THEN saw.boundary ELSE 0
\* list_for_session_after: it reads a second back by id, for rows of a
\* transaction that started earlier and committed later.
ListAfter(cursor) ==
    {m \in stored : m > cursor \/ (m + 1 = cursor /\ m \in Near)}

---------------------------------------------------------------------------
(* tasks/summarize._summarize *)

SetTask(t, new) == task' = [task EXCEPT ![t] = new]

ReadSummary(t) ==
    /\ task[t].pc = "queued"
    /\ SetTask(t, [task[t] EXCEPT !.pc = "list", !.saw = row])
    /\ UNCHANGED <<stored, place, disordered, row, sender, sends, faults, deleted>>

\* The batch: everything beyond the verbatim tail, at most MaxBatch messages.
First(S, n) == {m \in S : Cardinality({k \in S : k < m}) < n}
Batch(cursor) ==
    LET limit == MaxBatch + KeepMessages
        fetched == First(ListAfter(cursor), limit)
        uncovered == {m \in fetched : m > cursor}
        beyond == First(uncovered, IF Cardinality(uncovered) > KeepMessages
                                   THEN Cardinality(uncovered) - KeepMessages ELSE 0)
    IN First(IF Cardinality(fetched) >= limit THEN uncovered ELSE beyond, MaxBatch)

ListUncovered(t) ==
    /\ task[t].pc = "list"
    /\ LET batch == Batch(Cursor(task[t].saw))
           skipped == Cardinality(batch) < MinBatch \/ deleted
       IN SetTask(t, IF skipped THEN IdleTask
                     ELSE [task[t] EXCEPT !.pc = "model", !.covers = batch])
    /\ UNCHANGED <<stored, place, disordered, row, sender, sends, faults, deleted>>

\* The model's completion is no summary, or the call fails: the spend and the
\* refusal are all that is written.
RefuseSummary(t) ==
    /\ task[t].pc = "model"
    /\ SetTask(t, IdleTask)
    /\ UNCHANGED <<stored, place, disordered, row, sender, sends, faults, deleted>>

\* The guard of upsert_summary: a later boundary, or the invalid version read.
Accepts(saw, boundary) ==
    IF saw.state = "invalid" THEN row.version = saw.version
    ELSE row.state = "none" \/ row.boundary < boundary

NewBoundaryOfList(t) == Max({m \in stored : m > Cursor(task[t].saw)} \cup task[t].covers)
NewBoundary(t) == Max(task[t].covers)

UpsertSummary(t) ==
    /\ task[t].pc = "model"
    /\ LET saw == task[t].saw
           folds == (IF saw.state = "valid" THEN saw.folds ELSE {}) \cup task[t].covers
           boundary == NewBoundary(t)
       IN row' = IF Accepts(saw, boundary) /\ ~deleted
                 THEN [state |-> "valid", folds |-> folds, boundary |-> boundary,
                       version |-> row.version + 1]
                 ELSE row
    /\ SetTask(t, IdleTask)
    /\ UNCHANGED <<stored, place, disordered, sender, sends, faults, deleted>>

\* The worker dies in the transaction; acks_late delivers the task again.
SummarizerCrash(t) ==
    /\ task[t].pc \in {"list", "model"} /\ faults < MaxFaults
    /\ SetTask(t, [IdleTask EXCEPT !.pc = "queued"]) /\ faults' = faults + 1
    /\ UNCHANGED <<stored, place, disordered, row, sender, sends, deleted>>

\* enqueue_summarize, after an answer.
EnqueueSummarize ==
    LET t == CHOOSE t \in Tasks : task[t] = IdleTask
    IN SetTask(t, [IdleTask EXCEPT !.pc = "queued"])

---------------------------------------------------------------------------
(* ChatService.send_message and delete_session *)

\* The request's transaction starts, and reads the summary row.
SendRead ==
    /\ sender.pc = "idle" /\ sends < MaxSends /\ ~deleted
    /\ sends' = sends + 1 /\ place' = place + 1
    /\ sender' = [pc |-> "list", saw |-> row, place |-> place + 1]
    /\ UNCHANGED <<stored, disordered, row, task, faults, deleted>>

DeleteSession ==
    /\ ~deleted /\ sender.pc = "idle"
    /\ deleted' = TRUE /\ stored' = {} /\ row' = NoRow
    /\ UNCHANGED <<place, disordered, task, sender, sends, faults>>

TaskNext ==
    \E t \in Tasks : \/ ReadSummary(t) \/ ListUncovered(t) \/ RefuseSummary(t)
                     \/ UpsertSummary(t) \/ SummarizerCrash(t)

---------------------------------------------------------------------------
(* Properties *)

\* The rolling summary stands for the messages up to its boundary: each of
\* them was folded in by some task, whichever tasks ran at the same time and
\* however often they were refused or redelivered, and nothing beyond the
\* boundary was (summarize._summarize, upsert_summary).  Rows that became
\* visible out of order are the known exception.
SummaryIsPrefix ==
    row.state = "valid" =>
        /\ row.folds \subseteq 1..row.boundary
        /\ {m \in stored : m <= row.boundary} \ disordered \subseteq row.folds

=============================================================================
