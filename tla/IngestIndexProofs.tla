------------------------- MODULE IngestIndexProofs -------------------------
(***************************************************************************)
(* Proofs about IngestIndex: for any number of deliveries, resync passes    *)
(* and bulk batches, a READY document owns its chunk rows, and the search   *)
(* index follows them (IndexFollowsRows), whatever late workers, lapsed     *)
(* leases, crashes and failed requests do.                                  *)
(***************************************************************************)
EXTENDS IngestIndex, TLAPS

-----------------------------------------------------------------------------
(* The inductive invariant.                                                 *)

\* A delivery that has claimed the row and not ended; a pass that has read it.
Active(d) == task[d].pc \notin {"idle", "queued"}
Reading(r) == sync[r].pc \notin {"idle", "queued", "requeued", "exhausted"}

\* Attempt numbers fence: no worker is ahead of the row, no two share one.
Attempts ==
    /\ \A d \in Deliveries : Active(d) =>
          task[d].attempt <= doc.attempt /\ legacy < task[d].attempt
    /\ \A d, e \in Deliveries :
          Active(d) /\ Active(e) /\ task[d].attempt = task[e].attempt => d = e
    /\ \A r \in Resyncs : Reading(r) => sync[r].attempt <= doc.attempt
    /\ legacy <= doc.attempt
    /\ doc.status \in {"processing", "ready"} => doc.attempt >= 1

\* The re-embedding command reserves a row nobody else works on.
Reserved ==
    /\ cli = "reserved" =>
          /\ \A d \in Deliveries : task[d].pc = "idle"
          /\ \/ doc.status = "gone"
             \/ doc.status = "pending" /\ doc.fresh /\ rows = doc.attempt
    /\ doc.status = "ready" /\ RequiresReembedding =>
          \A d \in Deliveries : task[d].pc = "idle"

\* A delivery whose bulk requests carry the chunks it read.
Publishes(d) == \/ task[d].pc \in {"upsert", "ready"}
                \/ task[d].pc = "older" /\ task[d].snap # 0

\* What the owner of the row knows of the chunk rows at each of its steps.
OwnerRows ==
    /\ \A d \in Deliveries :
          /\ task[d].pc = "purge" => task[d].snap = 0
          /\ task[d].pc \in {"upsert", "ready"} => task[d].snap # 0
    /\ \A d \in Deliveries : OwnsAttempt(task[d].attempt) =>
          /\ task[d].pc \in {"syncDocument", "syncRows"} => rows \in {0, task[d].attempt}
          /\ Publishes(d) => rows = task[d].attempt /\ task[d].snap = rows

Fencing == Attempts /\ Reserved /\ OwnerRows /\ ReadyOwnsRows

\* The delivery that made a document READY has ended.
ReadyIsPast ==
    doc.status = "ready" =>
       \A d \in Deliveries : Active(d) => task[d].attempt # doc.attempt

\* What a pass may believe of the attempt it read while the row is still at it.
PassKnows ==
    \A r \in Resyncs :
       /\ sync[r].pc = "drop" => doc.status = "gone"
       /\ sync[r].pc = "clear" => sync[r].left = Batches
       /\ Reading(r) /\ sync[r].attempt = doc.attempt =>
            /\ doc.status = "processing" => sync[r].pc = "trim"
            /\ doc.status = "ready" /\ ~RequiresReembedding =>
                 /\ sync[r].pc \notin {"purge", "undo"}
                 /\ sync[r].pc \in {"clear", "upsert"} => sync[r].snap = rows

\* The owner's acknowledged batches are in the index.
OwnerIndexed ==
    \A d \in Deliveries : OwnsAttempt(task[d].attempt) =>
       /\ task[d].pc = "upsert" =>
            \A b \in Batches \ task[d].left : Entry(rows, doc.attempt, b) \in index
       /\ task[d].pc # "upsert" /\ Publishes(d) =>
            \A b \in Batches : Entry(rows, doc.attempt, b) \in index

\* A pass that still has batch b of the current generation to write.
Owes(r, b) ==
    \/ sync[r].pc \in {"requeued", "exhausted"}
    \/ /\ sync[r].attempt = doc.attempt
       /\ \/ sync[r].pc \in {"rows", "clear"}
          \/ sync[r].pc = "upsert" /\ b \in sync[r].left

\* A READY document is in the index, but for batches that some pass owes.
ReadyIndexed ==
    doc.status = "ready" /\ ~RequiresReembedding =>
       \A b \in Batches : \/ Entry(rows, doc.attempt, b) \in index
                          \/ \E r \in Resyncs : Owes(r, b)

Searchable == ReadyIsPast /\ PassKnows /\ OwnerIndexed /\ ReadyIndexed

\* Somebody in flight will remove an entry with this tag, or it was deferred.
TaskCovers(d, tag) ==
    task[d].attempt = tag /\ (Publishes(d) \/ task[d].pc = "discard")
PassCovers(r, tag) ==
    \/ sync[r].pc \in {"queued", "requeued", "exhausted", "drop"}
    \/ /\ sync[r].pc \in {"rows", "purge", "clear", "upsert", "older", "trim"}
       /\ tag < sync[r].attempt
    \/ /\ sync[r].pc \in {"rows", "purge", "clear", "upsert", "older", "check", "undo"}
       /\ tag = sync[r].attempt
Covered(tag) == \/ deferred
                \/ \E d \in Deliveries : TaskCovers(d, tag)
                \/ \E r \in Resyncs : PassCovers(r, tag)

\* Entries of the current attempt are of its rows; its first are the owner's.
CurrentTags ==
    /\ \A e \in index : e.tag <= doc.attempt
    /\ \/ doc.status = "processing"
       \/ doc.status = "ready" /\ ~RequiresReembedding
       =>
          \A e \in index : e.tag = doc.attempt => e.gen = rows
    /\ \A d \in Deliveries :
          task[d].pc = "working" /\ OwnsAttempt(task[d].attempt) =>
             \A e \in index : e.tag # doc.attempt

\* Everything else in the index is somebody's to remove.
StaleCovered ==
    /\ doc.status = "ready" /\ ~RequiresReembedding =>
          \A e \in index : e.tag = doc.attempt \/ Covered(e.tag)
    /\ doc.status = "gone" => \A e \in index : Covered(e.tag)
    /\ \A d \in Deliveries : task[d].pc = "ready" /\ OwnsAttempt(task[d].attempt) =>
          \A e \in index : e.tag = doc.attempt \/ Covered(e.tag)

Exact == CurrentTags /\ StaleCovered

IInv == TypeOK /\ Fencing /\ Searchable /\ Exact

(***************************************************************************)
(* Type correctness.                                                       *)
(***************************************************************************)

\* The record of a delivery that ended, and of a pass that ended.
LEMMA IdleTypes ==
    /\ NoTask \in Tasks /\ NoSync \in Passes
    /\ [NoTask EXCEPT !.pc = "queued"] \in Tasks
    /\ \A n \in Nat : [NoTask EXCEPT !.pc = "queued", !.retries = n] \in Tasks
BY DEF NoTask, NoSync, Tasks, Passes, TaskPcs, PassPcs

\* The initial state is well typed.
LEMMA InitType == Init => TypeOK
<1> SUFFICES ASSUME Init PROVE TypeOK
  OBVIOUS
<1>1. task \in [Deliveries -> Tasks]
  BY IdleTypes DEF Init
<1>2. sync \in [Resyncs -> Passes]
  BY IdleTypes DEF Init
<1>3. doc \in Documents
  <2>1. \A s \in Statuses, n \in Nat :
          [status |-> s, attempt |-> n, run |-> 0, fresh |-> TRUE] \in Documents
    BY DEF Documents
  <2> QED
    BY <2>1 DEF Init, Statuses
<1>4. rows \in Nat /\ legacy \in Nat /\ spans \subseteq Batches /\ index \subseteq Entries
  BY DEF Init
<1>5. faults \in 0..MaxFaults /\ lapses \in 0..MaxLapses /\ requests \in 0..MaxRequests
  BY IngestAssumption DEF Init
<1>6. media \in BOOLEAN /\ cli \in {"idle", "reserved"} /\ deferred \in BOOLEAN
  BY DEF Init
<1> QED
  BY <1>1, <1>2, <1>3, <1>4, <1>5, <1>6 DEF TypeOK

\* A fault is counted within its bound.
LEMMA FaultType == TypeOK /\ Fault => /\ faults' \in 0..MaxFaults
                                      /\ lapses' \in 0..MaxLapses
                                      /\ requests' \in 0..MaxRequests
BY IngestAssumption DEF TypeOK, Fault

\* Writing one field of one delivery, or of one pass, with a value of its type.
LEMMA FieldWrites ==
    /\ \A T \in [Deliveries -> Tasks], d \in Deliveries :
         /\ \A x \in TaskPcs : [T EXCEPT ![d].pc = x] \in [Deliveries -> Tasks]
         /\ \A x \in Nat : [T EXCEPT ![d].attempt = x] \in [Deliveries -> Tasks]
         /\ \A x \in Nat : [T EXCEPT ![d].snap = x] \in [Deliveries -> Tasks]
         /\ \A x \in SUBSET Batches : [T EXCEPT ![d].left = x] \in [Deliveries -> Tasks]
    /\ \A T \in [Resyncs -> Passes], r \in Resyncs :
         /\ \A x \in PassPcs : [T EXCEPT ![r].pc = x] \in [Resyncs -> Passes]
         /\ \A x \in Nat : [T EXCEPT ![r].attempt = x] \in [Resyncs -> Passes]
         /\ \A x \in Nat : [T EXCEPT ![r].snap = x] \in [Resyncs -> Passes]
         /\ \A x \in SUBSET Batches : [T EXCEPT ![r].left = x] \in [Resyncs -> Passes]
<1>1. ASSUME NEW T \in [Deliveries -> Tasks], NEW d \in Deliveries
      PROVE  /\ \A x \in TaskPcs : [T EXCEPT ![d].pc = x] \in [Deliveries -> Tasks]
             /\ \A x \in Nat : [T EXCEPT ![d].attempt = x] \in [Deliveries -> Tasks]
             /\ \A x \in Nat : [T EXCEPT ![d].snap = x] \in [Deliveries -> Tasks]
             /\ \A x \in SUBSET Batches : [T EXCEPT ![d].left = x] \in [Deliveries -> Tasks]
  BY <1>1 DEF Tasks
<1>2. ASSUME NEW T \in [Resyncs -> Passes], NEW r \in Resyncs
      PROVE  /\ \A x \in PassPcs : [T EXCEPT ![r].pc = x] \in [Resyncs -> Passes]
             /\ \A x \in Nat : [T EXCEPT ![r].attempt = x] \in [Resyncs -> Passes]
             /\ \A x \in Nat : [T EXCEPT ![r].snap = x] \in [Resyncs -> Passes]
             /\ \A x \in SUBSET Batches : [T EXCEPT ![r].left = x] \in [Resyncs -> Passes]
  BY <1>2 DEF Passes
<1> QED
  BY <1>1, <1>2

\* Moving, ending and retrying a delivery keep its record well typed.
LEMMA TaskMoves ==
    ASSUME TypeOK, NEW d \in Deliveries
    PROVE  /\ \A pc \in TaskPcs : Goto(d, pc) => task' \in [Deliveries -> Tasks]
           /\ Finish(d) => task' \in [Deliveries -> Tasks]
           /\ \A cap \in Nat : Requeue(d, cap) => task' \in [Deliveries -> Tasks]
           /\ \A pc \in TaskPcs, b \in BOOLEAN :
                [task EXCEPT ![d].pc = pc, ![d].retry = b] \in [Deliveries -> Tasks]
<1>1. task \in [Deliveries -> Tasks] /\ task[d] \in Tasks
  BY DEF TypeOK
<1>2. ASSUME NEW pc \in TaskPcs, Goto(d, pc) PROVE task' \in [Deliveries -> Tasks]
  BY <1>1, <1>2 DEF Goto, Tasks
<1>3. ASSUME Finish(d) PROVE task' \in [Deliveries -> Tasks]
  BY <1>1, <1>3, IdleTypes DEF Finish
<1>4. ASSUME NEW cap \in Nat, Requeue(d, cap) PROVE task' \in [Deliveries -> Tasks]
  <2>1. task[d].retries + 1 \in Nat
    BY <1>1 DEF Tasks
  <2> QED
    BY <1>1, <1>4, <2>1, IdleTypes DEF Requeue
<1>5. ASSUME NEW pc \in TaskPcs, NEW b \in BOOLEAN
      PROVE  [task EXCEPT ![d].pc = pc, ![d].retry = b] \in [Deliveries -> Tasks]
  BY <1>1, <1>5 DEF Tasks
<1> QED
  BY <1>2, <1>3, <1>4, <1>5

\* The row as the fenced writes leave it.
LEMMA RowTypes ==
    ASSUME TypeOK
    PROVE  /\ \A n \in Nat : [status |-> "processing", attempt |-> n,
                                run |-> n, fresh |-> TRUE] \in Documents
           /\ \A s \in Statuses : [doc EXCEPT !.status = s, !.run = 0, !.fresh = TRUE] \in Documents
           /\ \A s \in Statuses : [doc EXCEPT !.status = s, !.fresh = TRUE] \in Documents
           /\ \A s \in Statuses : [doc EXCEPT !.status = s, !.run = 0] \in Documents
           /\ \A b \in BOOLEAN : [doc EXCEPT !.fresh = b] \in Documents
           /\ doc.attempt \in Nat /\ doc.attempt + 1 \in Nat /\ doc \in Documents
<1>1. doc \in Documents
  BY DEF TypeOK
<1>2. doc.attempt \in Nat /\ doc.attempt + 1 \in Nat
  BY <1>1 DEF Documents
<1>3. \A n \in Nat : [status |-> "processing", attempt |-> n, run |-> n, fresh |-> TRUE]
                        \in Documents
  BY DEF Documents, Statuses
<1> QED
  BY <1>1, <1>2, <1>3 DEF Documents

\* A step of one delivery keeps the state well typed.
LEMMA DeliverType ==
    ASSUME TypeOK, NEW d \in Deliveries, Deliver(d)
    PROVE  TypeOK'
<1> USE DEF budgets
<1>1. CASE BeginIngestion(d)
  <2>1. doc' \in Documents
    BY <1>1, RowTypes DEF BeginIngestion
  <2>2. task' \in [Deliveries -> Tasks]
    <3>1. CASE Claimable
      <4>1. task \in [Deliveries -> Tasks]
        BY DEF TypeOK
      <4>2. doc.attempt + 1 \in Nat /\ (IF media THEN Batches ELSE {}) \in SUBSET Batches
        BY RowTypes, IngestAssumption
      <4> DEFINE T1 == [task EXCEPT ![d].pc = "working"]
                 T2 == [T1 EXCEPT ![d].attempt = doc.attempt + 1]
      <4>3. T1 \in [Deliveries -> Tasks]
        BY <4>1, FieldWrites DEF TaskPcs
      <4>4. T2 \in [Deliveries -> Tasks]
        BY <4>2, <4>3, FieldWrites
      <4>5. task' = [T2 EXCEPT ![d].left = IF media THEN Batches ELSE {}]
        BY <1>1, <3>1, <4>1 DEF BeginIngestion
      <4> HIDE DEF T2
      <4> QED
        BY <4>2, <4>4, <4>5, FieldWrites
    <3>2. CASE ~Claimable
      BY <1>1, <3>2, TaskMoves DEF BeginIngestion
    <3> QED
      BY <3>1, <3>2
  <2> QED
    BY <1>1, <2>1, <2>2 DEF BeginIngestion, TypeOK
<1>2. CASE Heartbeat(d)
  BY <1>2, TaskMoves, RowTypes DEF Heartbeat, TypeOK
<1>3. ASSUME NEW b \in Batches, TranscribeSpan(d, b) PROVE TypeOK'
  <2>1. task' \in [Deliveries -> Tasks]
    <3>1. CASE HoldsLease(task[d].attempt)
      <4>1. task \in [Deliveries -> Tasks] /\ task[d].left \ {b} \in SUBSET Batches
        BY DEF TypeOK, Tasks
      <4>2. task' = [task EXCEPT ![d].left = task[d].left \ {b}]
        BY <1>3, <3>1, <4>1 DEF TranscribeSpan
      <4> QED
        BY <4>1, <4>2, FieldWrites
    <3>2. CASE ~HoldsLease(task[d].attempt)
      BY <1>3, <3>2, TaskMoves DEF TranscribeSpan
    <3> QED
      BY <3>1, <3>2
  <2>2. doc' \in Documents /\ spans' \subseteq Batches
    BY <1>3, RowTypes DEF TranscribeSpan, Checkpoint, TypeOK
  <2> QED
    BY <1>3, <2>1, <2>2 DEF TranscribeSpan, TypeOK
<1>4. ASSUME NEW b \in Batches, Upsert(d, b) PROVE TypeOK'
  <2>1. task' \in [Deliveries -> Tasks]
    <3>1. task \in [Deliveries -> Tasks] /\ task[d].left \ {b} \in SUBSET Batches
      BY DEF TypeOK, Tasks
    <3> DEFINE T == [task EXCEPT ![d].left = @ \ {b}]
               next == IF task[d].left = {b} THEN "older" ELSE task[d].pc
    <3>2. T \in [Deliveries -> Tasks] /\ next \in TaskPcs
      BY <3>1, <1>4, FieldWrites DEF Upsert, TaskPcs
    <3>3. task' = [T EXCEPT ![d].pc = next]
      BY <1>4, <3>1 DEF Upsert
    <3> HIDE DEF T, next
    <3> QED
      BY <3>2, <3>3, FieldWrites
  <2>2. index' \subseteq Entries
    <3>1. task[d].snap \in Nat /\ task[d].attempt \in Nat /\ index \subseteq Entries
      BY DEF TypeOK, Tasks
    <3> QED
      BY <1>4, <3>1 DEF Upsert, Entry, Entries
  <2> QED
    BY <1>4, <2>1, <2>2 DEF Upsert, TypeOK
<1>5. ASSUME NEW gen \in {0, task[d].attempt}, Persist(d, gen) PROVE TypeOK'
  <2>1. gen \in Nat
    <3>1. task[d] \in Tasks
      BY DEF TypeOK
    <3> QED
      BY <3>1 DEF Tasks
  <2>2. task' \in [Deliveries -> Tasks]
    BY <1>5, TaskMoves DEF Persist, TaskPcs
  <2>3. rows' \in Nat /\ doc' \in Documents
    BY <1>5, <2>1, RowTypes DEF Persist, ReplaceRows, TypeOK
  <2> QED
    BY <1>5, <2>2, <2>3 DEF Persist, TypeOK
<1>6. CASE ParseFails(d)
  BY <1>6, TaskMoves DEF ParseFails, TypeOK, TaskPcs
<1>7. CASE SyncDocument(d)
  BY <1>7, TaskMoves DEF SyncDocument, TypeOK, TaskPcs
<1>8. CASE SyncRows(d)
  <2>1. task' \in [Deliveries -> Tasks]
    <3> DEFINE next == IF rows = 0 THEN "purge" ELSE "upsert"
               T1 == [task EXCEPT ![d].pc = next]
               T2 == [T1 EXCEPT ![d].snap = rows]
    <3>1. task \in [Deliveries -> Tasks] /\ rows \in Nat /\ next \in TaskPcs
      BY DEF TypeOK, TaskPcs
    <3>2. T1 \in [Deliveries -> Tasks]
      BY <3>1, FieldWrites
    <3>3. T2 \in [Deliveries -> Tasks]
      BY <3>1, <3>2, FieldWrites
    <3>4. task' = [T2 EXCEPT ![d].left = Batches]
      BY <1>8, <3>1 DEF SyncRows
    <3> HIDE DEF T2
    <3> QED
      BY <3>3, <3>4, FieldWrites
  <2> QED
    BY <1>8, <2>1 DEF SyncRows, TypeOK
<1>9. CASE Purge(d)
  BY <1>9, TaskMoves DEF Purge, TypeOK, TaskPcs
<1>10. CASE DeleteOlder(d)
  <2>1. task' \in [Deliveries -> Tasks]
    BY <1>10, TaskMoves DEF DeleteOlder, TaskPcs
  <2> QED
    BY <1>10, <2>1 DEF DeleteOlder, TypeOK
<1>11. CASE MarkReady(d)
  <2>1. doc' \in Documents
    BY <1>11, RowTypes DEF MarkReady, Statuses
  <2> QED
    BY <1>11, <2>1, TaskMoves DEF MarkReady, TypeOK, TaskPcs
<1>12. CASE Discard(d)
  BY <1>12, TaskMoves, FaultType DEF Discard, TypeOK
<1>13. CASE FinalizeFailure(d)
  <2>1. doc' \in Documents
    BY <1>13, RowTypes DEF FinalizeFailure, MarkFailed, Statuses
  <2>2. task' \in [Deliveries -> Tasks]
    BY <1>13, TaskMoves, IngestAssumption DEF FinalizeFailure
  <2> QED
    BY <1>13, <2>1, <2>2 DEF FinalizeFailure, TypeOK
<1> QED
  BY <1>1, <1>2, <1>3, <1>4, <1>5, <1>6, <1>7, <1>8, <1>9, <1>10, <1>11, <1>12, <1>13
  DEF Deliver

\* A fault of one delivery keeps the state well typed.
LEMMA DeliveryFaultType ==
    ASSUME TypeOK, NEW d \in Deliveries, DeliveryFault(d)
    PROVE  TypeOK'
<1>1. CASE PreclaimFails(d)
  BY <1>1, FaultType, TaskMoves, IngestAssumption DEF PreclaimFails, TypeOK
<1>2. CASE WorkFails(d)
  BY <1>2, FaultType, TaskMoves DEF WorkFails, TypeOK, TaskPcs
<1>3. CASE DeleteFails(d)
  BY <1>3, FaultType, TaskMoves DEF DeleteFails, TypeOK, TaskPcs
<1>4. ASSUME NEW cleaned \in BOOLEAN, UpsertFails(d, cleaned) PROVE TypeOK'
  <2>1. task' \in [Deliveries -> Tasks]
    BY <1>4, TaskMoves DEF UpsertFails, TaskPcs
  <2>2. index' \subseteq Entries /\ deferred' \in BOOLEAN
    BY <1>4 DEF UpsertFails, TypeOK
  <2> QED
    BY <1>4, <2>1, <2>2, FaultType DEF UpsertFails, TypeOK
<1>5. CASE FinalizeFails(d)
  <2>1. doc' \in Documents
    BY <1>5, RowTypes DEF FinalizeFails, MarkFailed, Statuses
  <2>2. task' \in [Deliveries -> Tasks]
    <3>1. MaxRetries \in Nat /\ MaxRetries + 0 \in Nat /\ MaxRetries + 2 \in Nat
      BY IngestAssumption
    <3>2. MaxRetries + (IF task[d].retries < MaxRetries THEN 0 ELSE 2) \in Nat
      BY <3>1
    <3> QED
      BY <1>5, <3>2, TaskMoves DEF FinalizeFails
  <2> QED
    BY <1>5, <2>1, <2>2, FaultType DEF FinalizeFails, TypeOK
<1>6. CASE Crash(d)
  <2>1. task \in [Deliveries -> Tasks] /\ task[d].retries \in Nat
    BY DEF TypeOK, Tasks
  <2>2. task' \in [Deliveries -> Tasks]
    BY <1>6, <2>1, IdleTypes DEF Crash
  <2>3. deferred' \in BOOLEAN
    BY <1>6 DEF Crash, TypeOK
  <2> QED
    BY <1>6, <2>2, <2>3, FaultType DEF Crash, TypeOK
<1> QED
  BY <1>1, <1>2, <1>3, <1>4, <1>5, <1>6 DEF DeliveryFault

\* A step of one resync pass keeps the state well typed.
LEMMA ResyncType ==
    ASSUME TypeOK, NEW r \in Resyncs, Resync(r)
    PROVE  TypeOK'
<1> USE DEF budgets
<1>0. /\ sync \in [Resyncs -> Passes] /\ sync[r] \in Passes
      /\ sync[r].left \in SUBSET Batches /\ sync[r].snap \in Nat /\ sync[r].attempt \in Nat
  BY DEF TypeOK, Passes
<1>a. /\ \A pc \in PassPcs : SyncGoto(r, pc) => sync' \in [Resyncs -> Passes]
      /\ SyncDone(r) => sync' \in [Resyncs -> Passes]
  <2>1. ASSUME NEW pc \in PassPcs, SyncGoto(r, pc) PROVE sync' \in [Resyncs -> Passes]
    BY <1>0, <2>1, FieldWrites DEF SyncGoto
  <2>2. SyncDone(r) => sync' \in [Resyncs -> Passes]
    BY <1>0, IdleTypes DEF SyncDone
  <2> QED
    BY <2>1, <2>2
<1>1. CASE ResyncRead(r)
  <2> DEFINE next == IF doc.status = "gone" THEN "drop"
                     ELSE IF doc.status = "ready" THEN "rows"
                     ELSE IF doc.status = "processing" THEN "trim" ELSE "purge"
             T == [sync EXCEPT ![r].attempt = doc.attempt]
  <2>1. next \in PassPcs /\ T \in [Resyncs -> Passes]
    BY <1>0, RowTypes, FieldWrites DEF PassPcs
  <2>2. sync' = [T EXCEPT ![r].pc = next]
    BY <1>0, <1>1 DEF ResyncRead
  <2> HIDE DEF T, next
  <2>3. sync' \in [Resyncs -> Passes]
    BY <2>1, <2>2, FieldWrites
  <2> QED
    BY <1>1, <2>3 DEF ResyncRead, TypeOK
<1>2. CASE ResyncRows(r)
  <2> DEFINE next == IF rows = 0 \/ RequiresReembedding THEN "purge" ELSE "clear"
             T1 == [sync EXCEPT ![r].snap = rows]
             T2 == [T1 EXCEPT ![r].left = Batches]
  <2>1. next \in PassPcs /\ T1 \in [Resyncs -> Passes]
    BY <1>0, FieldWrites DEF PassPcs, TypeOK
  <2>2. T2 \in [Resyncs -> Passes]
    BY <2>1, FieldWrites
  <2>3. sync' = [T2 EXCEPT ![r].pc = next]
    BY <1>0, <1>2 DEF ResyncRows
  <2> HIDE DEF T2, next
  <2>4. sync' \in [Resyncs -> Passes]
    BY <2>1, <2>2, <2>3, FieldWrites
  <2> QED
    BY <1>2, <2>4 DEF ResyncRows, TypeOK
<1>3. CASE ResyncDrop(r)
  BY <1>3, <1>a DEF ResyncDrop, TypeOK
<1>4. CASE ResyncClear(r)
  BY <1>4, <1>a DEF ResyncClear, TypeOK, PassPcs
<1>5. ASSUME NEW b \in Batches, ResyncUpsert(r, b) PROVE TypeOK'
  <2> DEFINE next == IF sync[r].left = {b} THEN "older" ELSE sync[r].pc
             T == [sync EXCEPT ![r].left = sync[r].left \ {b}]
  <2>1. next \in PassPcs /\ T \in [Resyncs -> Passes]
    BY <1>0, <1>5, FieldWrites DEF ResyncUpsert, PassPcs
  <2>2. sync' = [T EXCEPT ![r].pc = next]
    BY <1>0, <1>5 DEF ResyncUpsert
  <2> HIDE DEF T, next
  <2>3. sync' \in [Resyncs -> Passes]
    BY <2>1, <2>2, FieldWrites
  <2>4. index' \subseteq Entries
    BY <1>0, <1>5 DEF ResyncUpsert, Entry, Entries, TypeOK
  <2> QED
    BY <1>5, <2>3, <2>4 DEF ResyncUpsert, TypeOK
<1>6. CASE ResyncOlder(r)
  BY <1>6, <1>a DEF ResyncOlder, TypeOK, PassPcs
<1>7. CASE ResyncCheck(r)
  BY <1>7, <1>a DEF ResyncCheck, TypeOK, PassPcs
<1>8. CASE ResyncUndo(r)
  BY <1>8, <1>a DEF ResyncUndo, TypeOK
<1> QED
  BY <1>1, <1>2, <1>3, <1>4, <1>5, <1>6, <1>7, <1>8 DEF Resync

\* A failed pass is delivered again, or given up, with a well-typed record.
LEMMA ResyncFailsType ==
    ASSUME TypeOK, NEW r \in Resyncs, NEW cleaned \in BOOLEAN, ResyncFails(r, cleaned)
    PROVE  TypeOK'
<1>1. sync \in [Resyncs -> Passes] /\ sync[r].retries + 1 \in Nat
  BY DEF TypeOK, Passes
<1>2. \A n \in Nat, pc \in {"requeued", "exhausted"} :
         [NoSync EXCEPT !.pc = pc, !.retries = n] \in Passes
  BY DEF NoSync, Passes, PassPcs
<1>3. sync' \in [Resyncs -> Passes]
  BY <1>1, <1>2 DEF ResyncFails
<1>4. index' \subseteq Entries /\ deferred' \in BOOLEAN
  BY DEF ResyncFails, TypeOK
<1> QED
  BY <1>3, <1>4, FaultType DEF ResyncFails, TypeOK

\* The owner's requests, the operator's and the beat jobs.
LEMMA RequestType ==
    ASSUME TypeOK,
           DeleteDocument \/ Reindex \/ Lapse \/ SweepStranded
             \/ ReserveReembedding \/ PublishReembedding
    PROVE  TypeOK'
<1> USE DEF budgets
<1>1. EnqueueSync => /\ sync' \in [Resyncs -> Passes] /\ deferred' \in BOOLEAN
                     /\ faults' \in 0..MaxFaults
  <2>1. \A r \in Resyncs, pc \in PassPcs : SyncGoto(r, pc) => sync' \in [Resyncs -> Passes]
    BY FieldWrites DEF SyncGoto, TypeOK
  <2>2. EnqueueSync => sync' \in [Resyncs -> Passes]
    BY <2>1 DEF EnqueueSync, TypeOK, PassPcs
  <2>3. EnqueueSync => deferred' \in BOOLEAN
    BY DEF EnqueueSync, TypeOK
  <2>4. EnqueueSync => faults' \in 0..MaxFaults
    BY IngestAssumption DEF EnqueueSync, TypeOK
  <2> QED
    BY <2>2, <2>3, <2>4
<1>2. EnqueueIngestion => /\ task' \in [Deliveries -> Tasks]
                          /\ faults' \in 0..MaxFaults /\ lapses' \in 0..MaxLapses
                          /\ requests' \in 0..MaxRequests
  BY TaskMoves, FaultType DEF EnqueueIngestion, TypeOK, TaskPcs
<1>3. Request => requests' \in 0..MaxRequests
  BY IngestAssumption DEF Request, TypeOK
<1>4. CASE DeleteDocument
  <2>1. doc' \in Documents
    BY <1>4, RowTypes DEF DeleteDocument, Statuses
  <2> QED
    BY <1>1, <1>3, <1>4, <2>1 DEF DeleteDocument, TypeOK
<1>5. CASE Reindex
  BY <1>1, <1>3, <1>5 DEF Reindex, TypeOK
<1>6. CASE Lapse
  <2>1. doc' \in Documents
    BY <1>6, RowTypes DEF Lapse
  <2>2. lapses' \in 0..MaxLapses /\ faults' = faults /\ requests' = requests
    BY <1>6, IngestAssumption DEF Lapse, TypeOK
  <2> QED
    BY <1>6, <2>1, <2>2 DEF Lapse, TypeOK
<1>7. CASE SweepStranded
  <2>1. doc' \in Documents
    BY <1>7, RowTypes DEF SweepStranded, Statuses
  <2> QED
    BY <1>2, <1>7, <2>1 DEF SweepStranded, TypeOK
<1>8. CASE ReserveReembedding
  <2>1. doc' \in Documents
    BY <1>8, RowTypes DEF ReserveReembedding, Statuses
  <2> QED
    BY <1>8, <2>1 DEF ReserveReembedding, TypeOK
<1>9. CASE PublishReembedding
  <2>1. doc' \in Documents
    BY <1>9, RowTypes DEF PublishReembedding, Statuses
  <2>2. task' \in [Deliveries -> Tasks]
    BY <1>9, TaskMoves DEF PublishReembedding, TypeOK, TaskPcs
  <2>3. faults' \in 0..MaxFaults /\ lapses' \in 0..MaxLapses /\ requests' \in 0..MaxRequests
    BY <1>9, FaultType DEF PublishReembedding, TypeOK
  <2> QED
    BY <1>9, <2>1, <2>2, <2>3 DEF PublishReembedding, TypeOK
<1> QED
  BY <1>4, <1>5, <1>6, <1>7, <1>8, <1>9

\* Every step keeps the state well typed.
LEMMA NextType == TypeOK /\ [Next]_vars => TypeOK'
<1> SUFFICES ASSUME TypeOK, [Next]_vars PROVE TypeOK'
  OBVIOUS
<1>1. CASE UNCHANGED vars
  BY <1>1 DEF vars, TypeOK
<1>2. CASE Next
  BY <1>2, DeliverType, DeliveryFaultType, ResyncType, ResyncFailsType, RequestType DEF Next
<1> QED
  BY <1>1, <1>2

(***************************************************************************)
(* What the steps do, field by field.  The invariants below depend on the   *)
(* steps only through these shapes.                                         *)
(***************************************************************************)

\* The row's status and attempt, its rows and the index are as they were.
SameRow == doc'.status = doc.status /\ doc'.attempt = doc.attempt
SameData == SameRow /\ UNCHANGED <<rows, index>>

Others(d) == \A e \in Deliveries \ {d} : task'[e] = task[e]
LetsGo(d) == Others(d) /\ task'[d].pc \in {"idle", "queued"}
MovesTo(d, pc) == /\ Others(d)
                  /\ task'[d].pc = pc
                  /\ task'[d].attempt = task[d].attempt
                  /\ task'[d].snap = task[d].snap

Claims(d) == /\ task[d].pc = "queued" /\ Claimable
             /\ Others(d)
             /\ task'[d].pc = "working" /\ task'[d].attempt = doc.attempt + 1
             /\ doc'.status = "processing" /\ doc'.attempt = doc.attempt + 1
             /\ UNCHANGED <<rows, index, deferred>>
Quits(d) == /\ task[d].pc \in {"queued", "working", "syncDocument", "failing"}
            /\ LetsGo(d) /\ SameData /\ UNCHANGED deferred
Fails(d) == /\ task[d].pc = "failing" /\ OwnsAttempt(task[d].attempt)
            /\ LetsGo(d)
            /\ doc'.status = "failed" /\ doc'.attempt = doc.attempt
            /\ UNCHANGED <<rows, index, deferred>>
Works(d) == /\ task[d].pc = "working"
            /\ MovesTo(d, "working") \/ MovesTo(d, "failing")
            /\ SameData /\ UNCHANGED deferred
Persists(d) == /\ task[d].pc = "working" /\ OwnsAttempt(task[d].attempt)
               /\ MovesTo(d, "syncDocument")
               /\ SameRow /\ rows' \in {0, task[d].attempt}
               /\ UNCHANGED <<index, deferred>>
StillOwns(d) == /\ task[d].pc = "syncDocument" /\ OwnsAttempt(task[d].attempt)
                /\ MovesTo(d, "syncRows")
                /\ SameData /\ UNCHANGED deferred
ReadsRows(d) == /\ task[d].pc = "syncRows"
                /\ Others(d)
                /\ task'[d].attempt = task[d].attempt /\ task'[d].snap = rows
                /\ task'[d].left = Batches
                /\ task'[d].pc = IF rows = 0 THEN "purge" ELSE "upsert"
                /\ SameData /\ UNCHANGED deferred
Purges(d) == /\ task[d].pc = "purge"
             /\ MovesTo(d, "older")
             /\ SameRow /\ index' = index \ Generation(task[d].attempt)
             /\ UNCHANGED <<rows, deferred>>
PublishesBatch(d, b) ==
    /\ task[d].pc = "upsert" /\ b \in task[d].left
    /\ MovesTo(d, IF task[d].left = {b} THEN "older" ELSE "upsert")
    /\ task'[d].left = task[d].left \ {b}
    /\ SameRow /\ index' = index \cup {Entry(task[d].snap, task[d].attempt, b)}
    /\ UNCHANGED <<rows, deferred>>
StoreFails(d) ==
    /\ task[d].pc \in {"purge", "upsert", "older"}
    /\ MovesTo(d, "failing") /\ SameRow /\ UNCHANGED rows
    /\ \/ /\ index' = index \ Generation(task[d].attempt)
          /\ deferred' = deferred
       \/ deferred' = TRUE /\ index' = index
Trims(d) == /\ task[d].pc = "older"
            /\ MovesTo(d, IF task[d].snap = 0 THEN "failing" ELSE "ready")
            /\ SameRow /\ index' = index \ OlderGenerations(task[d].attempt)
            /\ UNCHANGED <<rows, deferred>>
Completes(d) == /\ task[d].pc = "ready" /\ OwnsAttempt(task[d].attempt)
                /\ LetsGo(d)
                /\ doc'.status = "ready" /\ doc'.attempt = doc.attempt
                /\ UNCHANGED <<rows, index, deferred>>
Superseded(d) == /\ task[d].pc = "ready" /\ ~OwnsAttempt(task[d].attempt)
                 /\ MovesTo(d, "discard") /\ SameData /\ UNCHANGED deferred
Discards(d) == /\ task[d].pc = "discard"
               /\ LetsGo(d) /\ SameRow /\ UNCHANGED rows
               /\ \/ /\ index' = index \ Generation(task[d].attempt)
                     /\ deferred' = deferred
                  \/ deferred' = TRUE /\ index' = index
Dies(d) == /\ Active(d)
           /\ LetsGo(d) /\ SameData
           /\ deferred' = (deferred \/ ~OwnsAttempt(task[d].attempt))

DeliverySteps(d) ==
    /\ UNCHANGED <<legacy, sync, cli>>
    /\ \/ Claims(d) \/ Quits(d) \/ Fails(d) \/ Works(d) \/ Persists(d) \/ StillOwns(d)
       \/ ReadsRows(d) \/ Purges(d) \/ \E b \in Batches : PublishesBatch(d, b)
       \/ StoreFails(d) \/ Trims(d) \/ Completes(d) \/ Superseded(d) \/ Discards(d)
       \/ Dies(d)

\* The moves of a delivery, field by field.
LEMMA MoveFields ==
    ASSUME TypeOK, NEW d \in Deliveries
    PROVE  /\ \A pc : Goto(d, pc) => MovesTo(d, pc)
           /\ Finish(d) => LetsGo(d)
           /\ \A cap : Requeue(d, cap) => LetsGo(d)
           /\ \A pc, b : task' = [task EXCEPT ![d].pc = pc, ![d].retry = b] => MovesTo(d, pc)
<1>0. task \in [Deliveries -> Tasks] /\ task[d] \in Tasks
  BY DEF TypeOK
<1>1. ASSUME NEW pc, Goto(d, pc) PROVE MovesTo(d, pc)
  BY <1>0, <1>1 DEF Goto, MovesTo, Others, Tasks
<1>2. Finish(d) => LetsGo(d)
  BY <1>0 DEF Finish, LetsGo, Others, NoTask
<1>3. ASSUME NEW cap, Requeue(d, cap) PROVE LetsGo(d)
  <2>1. task'[d].pc \in {"idle", "queued"}
    <3>1. CASE task[d].retries < cap
      BY <1>0, <1>3, <3>1 DEF Requeue, NoTask
    <3>2. CASE ~(task[d].retries < cap)
      BY <1>0, <1>3, <3>2 DEF Requeue, NoTask
    <3> QED
      BY <3>1, <3>2
  <2> QED
    BY <1>0, <1>3, <2>1 DEF Requeue, LetsGo, Others
<1>4. ASSUME NEW pc, NEW b, task' = [task EXCEPT ![d].pc = pc, ![d].retry = b]
      PROVE  MovesTo(d, pc)
  BY <1>0, <1>4 DEF MovesTo, Others, Tasks
<1> QED
  BY <1>1, <1>2, <1>3, <1>4

\* Refreshing updated_at leaves the row's status and attempt alone.
LEMMA RowFields ==
    ASSUME TypeOK
    PROVE  /\ \A b : doc' = [doc EXCEPT !.fresh = b] => SameRow
           /\ doc' = doc => SameRow
           /\ \A s : doc' = [doc EXCEPT !.status = s, !.run = 0, !.fresh = TRUE]
                => doc'.status = s /\ doc'.attempt = doc.attempt /\ doc'.fresh = TRUE
           /\ \A s : doc' = [doc EXCEPT !.status = s, !.fresh = TRUE]
                => doc'.status = s /\ doc'.attempt = doc.attempt /\ doc'.fresh = TRUE
           /\ \A s : doc' = [doc EXCEPT !.status = s, !.run = 0]
                => doc'.status = s /\ doc'.attempt = doc.attempt
BY DEF TypeOK, Documents, SameRow

\* Every step of a delivery has one of the shapes.
LEMMA DeliveryShape ==
    ASSUME TypeOK, NEW d \in Deliveries, Deliver(d) \/ DeliveryFault(d)
    PROVE  DeliverySteps(d)
<1>0. task \in [Deliveries -> Tasks] /\ task[d] \in Tasks
  BY DEF TypeOK
<1>1. CASE BeginIngestion(d)
  <2>1. CASE Claimable
    <3>1. Others(d) /\ task'[d].pc = "working" /\ task'[d].attempt = doc.attempt + 1
      BY <1>0, <1>1, <2>1 DEF BeginIngestion, Others, Tasks
    <3>2. Claims(d)
      BY <1>1, <2>1, <3>1 DEF BeginIngestion, Claims
    <3> QED
      BY <1>1, <3>2 DEF BeginIngestion, DeliverySteps
  <2>2. CASE ~Claimable
    <3>1. Quits(d)
      BY <1>1, <2>2, MoveFields, RowFields DEF BeginIngestion, Quits, SameData
    <3> QED
      BY <1>1, <3>1 DEF BeginIngestion, DeliverySteps
  <2> QED
    BY <2>1, <2>2
<1>2. CASE Heartbeat(d)
  <2>1. CASE HoldsLease(task[d].attempt)
    <3>1. Works(d)
      BY <1>2, <2>1, RowFields DEF Heartbeat, Works, MovesTo, Others, SameData
    <3> QED
      BY <1>2, <3>1 DEF Heartbeat, DeliverySteps
  <2>2. CASE ~HoldsLease(task[d].attempt)
    <3>1. Quits(d)
      BY <1>2, <2>2, MoveFields, RowFields DEF Heartbeat, Quits, SameData
    <3> QED
      BY <1>2, <3>1 DEF Heartbeat, DeliverySteps
  <2> QED
    BY <2>1, <2>2
<1>3. ASSUME NEW b \in Batches, TranscribeSpan(d, b) PROVE DeliverySteps(d)
  <2>1. CASE HoldsLease(task[d].attempt)
    <3>1. MovesTo(d, "working")
      BY <1>0, <1>3, <2>1 DEF TranscribeSpan, MovesTo, Others, Tasks
    <3>2. Works(d)
      BY <1>3, <2>1, <3>1, RowFields DEF TranscribeSpan, Works, SameData
    <3> QED
      BY <1>3, <3>2 DEF TranscribeSpan, DeliverySteps
  <2>2. CASE ~HoldsLease(task[d].attempt)
    <3>1. Quits(d)
      BY <1>3, <2>2, MoveFields, RowFields DEF TranscribeSpan, Quits, SameData
    <3> QED
      BY <1>3, <3>1 DEF TranscribeSpan, DeliverySteps
  <2> QED
    BY <2>1, <2>2
<1>4. ASSUME NEW b \in Batches, Upsert(d, b) PROVE DeliverySteps(d)
  <2>1. /\ MovesTo(d, IF task[d].left = {b} THEN "older" ELSE "upsert")
        /\ task'[d].left = task[d].left \ {b}
    BY <1>0, <1>4 DEF Upsert, MovesTo, Others, Tasks
  <2>2. PublishesBatch(d, b)
    BY <1>4, <2>1, RowFields DEF Upsert, PublishesBatch
  <2> QED
    BY <1>4, <2>2 DEF Upsert, DeliverySteps
<1>5. ASSUME NEW gen \in {0, task[d].attempt}, Persist(d, gen) PROVE DeliverySteps(d)
  <2>1. CASE OwnsAttempt(task[d].attempt)
    <3>1. Persists(d)
      BY <1>5, <2>1, MoveFields, RowFields DEF Persist, ReplaceRows, Persists
    <3> QED
      BY <1>5, <3>1 DEF Persist, DeliverySteps
  <2>2. CASE ~OwnsAttempt(task[d].attempt)
    <3>1. Quits(d)
      BY <1>5, <2>2, MoveFields, RowFields DEF Persist, ReplaceRows, Quits, SameData
    <3> QED
      BY <1>5, <3>1 DEF Persist, DeliverySteps
  <2> QED
    BY <2>1, <2>2
<1>6. CASE ParseFails(d)
  <2>1. Works(d)
    BY <1>6, MoveFields, RowFields DEF ParseFails, Works, SameData
  <2> QED
    BY <1>6, <2>1 DEF ParseFails, DeliverySteps
<1>7. CASE SyncDocument(d)
  <2>1. Quits(d) \/ StillOwns(d)
    BY <1>7, MoveFields, RowFields DEF SyncDocument, Quits, StillOwns, SameData
  <2> QED
    BY <1>7, <2>1 DEF SyncDocument, DeliverySteps
<1>8. CASE SyncRows(d)
  <2>1. /\ Others(d) /\ task'[d].attempt = task[d].attempt /\ task'[d].snap = rows
        /\ task'[d].left = Batches /\ task'[d].pc = IF rows = 0 THEN "purge" ELSE "upsert"
    BY <1>0, <1>8 DEF SyncRows, Others, Tasks
  <2>2. ReadsRows(d)
    BY <1>8, <2>1, RowFields DEF SyncRows, ReadsRows, SameData
  <2> QED
    BY <1>8, <2>2 DEF SyncRows, DeliverySteps
<1>9. CASE Purge(d)
  <2>1. Purges(d)
    BY <1>9, MoveFields, RowFields DEF Purge, Purges
  <2> QED
    BY <1>9, <2>1 DEF Purge, DeliverySteps
<1>10. CASE DeleteOlder(d)
  <2>1. Trims(d)
    BY <1>10, MoveFields, RowFields DEF DeleteOlder, Trims
  <2> QED
    BY <1>10, <2>1 DEF DeleteOlder, DeliverySteps
<1>11. CASE MarkReady(d)
  <2>1. CASE OwnsAttempt(task[d].attempt)
    <3>1. Completes(d)
      BY <1>11, <2>1, MoveFields, RowFields DEF MarkReady, Completes
    <3> QED
      BY <1>11, <3>1 DEF MarkReady, DeliverySteps
  <2>2. CASE ~OwnsAttempt(task[d].attempt)
    <3>1. Superseded(d)
      BY <1>11, <2>2, MoveFields, RowFields DEF MarkReady, Superseded, SameData
    <3> QED
      BY <1>11, <3>1 DEF MarkReady, DeliverySteps
  <2> QED
    BY <2>1, <2>2
<1>12. CASE Discard(d)
  <2>1. Discards(d)
    BY <1>12, MoveFields, RowFields DEF Discard, Discards
  <2> QED
    BY <1>12, <2>1 DEF Discard, DeliverySteps
<1>13. ASSUME task[d].pc = "failing", LetsGo(d),
              MarkFailed(task[d].attempt) \/ UNCHANGED doc,
              UNCHANGED <<rows, legacy, index, sync, cli, deferred>>
       PROVE  DeliverySteps(d)
  <2>1. Fails(d) \/ Quits(d)
    BY <1>13, RowFields DEF MarkFailed, Fails, Quits, SameData
  <2> QED
    BY <1>13, <2>1 DEF DeliverySteps
<1>14. CASE FinalizeFailure(d)
  <2>1. LetsGo(d)
    BY <1>14, MoveFields DEF FinalizeFailure
  <2> QED
    BY <1>13, <1>14, <2>1 DEF FinalizeFailure
<1>15. CASE FinalizeFails(d)
  <2>1. LetsGo(d)
    BY <1>15, MoveFields DEF FinalizeFails
  <2> QED
    BY <1>13, <1>15, <2>1 DEF FinalizeFails
<1>16. CASE PreclaimFails(d)
  <2>1. Quits(d)
    BY <1>16, MoveFields, RowFields DEF PreclaimFails, Quits, SameData
  <2> QED
    BY <1>16, <2>1 DEF PreclaimFails, DeliverySteps
<1>17. CASE WorkFails(d)
  <2>1. Works(d)
    BY <1>17, MoveFields, RowFields DEF WorkFails, Works, SameData
  <2> QED
    BY <1>17, <2>1 DEF WorkFails, DeliverySteps
<1>18. ASSUME NEW cleaned \in BOOLEAN, UpsertFails(d, cleaned) PROVE DeliverySteps(d)
  <2>1. StoreFails(d)
    BY <1>18, MoveFields, RowFields DEF UpsertFails, StoreFails, TypeOK
  <2> QED
    BY <1>18, <2>1 DEF UpsertFails, DeliverySteps
<1>19. CASE DeleteFails(d)
  <2>1. StoreFails(d)
    BY <1>19, MoveFields, RowFields DEF DeleteFails, StoreFails
  <2> QED
    BY <1>19, <2>1 DEF DeleteFails, DeliverySteps
<1>20. CASE Crash(d)
  <2>1. LetsGo(d)
    BY <1>0, <1>20 DEF Crash, LetsGo, Others, NoTask
  <2>2. Dies(d)
    BY <1>20, <2>1, RowFields DEF Crash, Dies, Active, SameData
  <2> QED
    BY <1>20, <2>2 DEF Crash, DeliverySteps
<1> QED
  BY <1>1, <1>2, <1>3, <1>4, <1>5, <1>6, <1>7, <1>8, <1>9, <1>10, <1>11, <1>12,
     <1>14, <1>15, <1>16, <1>17, <1>18, <1>19, <1>20
  DEF Deliver, DeliveryFault

\* The same for the passes ...
OtherPasses(r) == \A q \in Resyncs \ {r} : sync'[q] = sync[q]
PassEnds(r) == OtherPasses(r) /\ sync'[r].pc = "idle"
PassTo(r, pc) == /\ OtherPasses(r)
                 /\ sync'[r].pc = pc
                 /\ sync'[r].attempt = sync[r].attempt
                 /\ sync'[r].snap = sync[r].snap
                 /\ sync'[r].left = sync[r].left

PassReads(r) ==
    /\ sync[r].pc \in {"queued", "requeued"}
    /\ OtherPasses(r) /\ sync'[r].attempt = doc.attempt
    /\ sync'[r].pc = IF doc.status = "gone" THEN "drop"
                     ELSE IF doc.status = "ready" THEN "rows"
                     ELSE IF doc.status = "processing" THEN "trim" ELSE "purge"
    /\ UNCHANGED <<index, deferred>>
PassReadsRows(r) ==
    /\ sync[r].pc = "rows"
    /\ OtherPasses(r)
    /\ sync'[r].attempt = sync[r].attempt /\ sync'[r].snap = rows /\ sync'[r].left = Batches
    /\ sync'[r].pc = IF rows = 0 \/ RequiresReembedding THEN "purge" ELSE "clear"
    /\ UNCHANGED <<index, deferred>>
PassDrops(r) ==
    sync[r].pc = "drop" /\ PassEnds(r) /\ index' = {} /\ UNCHANGED deferred
PassClears(r) ==
    /\ sync[r].pc \in {"purge", "clear"}
    /\ PassTo(r, IF sync[r].pc = "purge" THEN "trim" ELSE "upsert")
    /\ index' = index \ Generation(sync[r].attempt) /\ UNCHANGED deferred
PassWrites(r, b) ==
    /\ sync[r].pc = "upsert" /\ b \in sync[r].left
    /\ OtherPasses(r)
    /\ sync'[r].pc = IF sync[r].left = {b} THEN "older" ELSE "upsert"
    /\ sync'[r].attempt = sync[r].attempt /\ sync'[r].snap = sync[r].snap
    /\ sync'[r].left = sync[r].left \ {b}
    /\ index' = index \cup {Entry(sync[r].snap, sync[r].attempt, b)} /\ UNCHANGED deferred
PassTrims(r) ==
    /\ \/ sync[r].pc = "older" /\ PassTo(r, "check")
       \/ sync[r].pc = "trim" /\ PassEnds(r)
    /\ index' = index \ OlderGenerations(sync[r].attempt) /\ UNCHANGED deferred
PassChecks(r) ==
    /\ sync[r].pc = "check"
    /\ \/ doc.status = "ready" /\ doc.attempt = sync[r].attempt /\ PassEnds(r)
       \/ ~(doc.status = "ready" /\ doc.attempt = sync[r].attempt) /\ PassTo(r, "undo")
    /\ UNCHANGED <<index, deferred>>
PassUndoes(r) ==
    /\ sync[r].pc = "undo" /\ PassEnds(r)
    /\ index' = index \ Generation(sync[r].attempt) /\ UNCHANGED deferred
PassFails(r) ==
    /\ Reading(r) /\ OtherPasses(r) /\ sync'[r].pc \in {"requeued", "exhausted"}
    /\ \/ index' = index
       \/ sync[r].pc = "upsert" /\ index' = index \ Generation(sync[r].attempt)
    /\ deferred => deferred'

PassSteps(r) ==
    /\ UNCHANGED <<doc, rows, legacy, task, cli>>
    /\ \/ PassReads(r) \/ PassReadsRows(r) \/ PassDrops(r) \/ PassClears(r)
       \/ \E b \in Batches : PassWrites(r, b)
       \/ PassTrims(r) \/ PassChecks(r) \/ PassUndoes(r) \/ PassFails(r)

\* ... and for the requests and the beat jobs.
SyncQueued == \/ \E r \in Resyncs :
                   /\ sync[r].pc \in {"idle", "exhausted"}
                   /\ PassTo(r, IF sync[r].pc = "idle" THEN "queued" ELSE "requeued")
                   /\ UNCHANGED deferred
              \/ deferred' = TRUE /\ UNCHANGED sync
IngestQueued == \/ \E d \in Deliveries : task[d].pc = "idle" /\ MovesTo(d, "queued")
                \/ UNCHANGED task

Deletes == /\ doc'.status = "gone" /\ doc'.attempt = doc.attempt /\ rows' = 0
           /\ SyncQueued /\ UNCHANGED <<index, task, cli>>
Reindexes == SyncQueued /\ UNCHANGED <<doc, rows, index, task, cli>>
Lapses == /\ SameRow /\ cli = "idle"
          /\ UNCHANGED <<rows, index, task, sync, cli, deferred>>
Sweeps == /\ doc.status \in {"pending", "processing"} /\ ~doc.fresh
          /\ doc'.status = "pending" /\ doc'.attempt = doc.attempt
          /\ IngestQueued /\ UNCHANGED <<rows, index, sync, cli, deferred>>
Reserves == /\ cli = "idle" /\ doc.status = "ready" /\ RequiresReembedding
            /\ doc'.status = "pending" /\ doc'.attempt = doc.attempt /\ doc'.fresh = TRUE
            /\ cli' = "reserved"
            /\ UNCHANGED <<rows, index, task, sync, deferred>>
Republishes == /\ cli = "reserved" /\ cli' = "idle"
               /\ IngestQueued /\ UNCHANGED <<doc, rows, index, sync, deferred>>
Releases == /\ cli = "reserved" /\ cli' = "idle"
            /\ doc.status = "pending" /\ RequiresReembedding
            /\ doc'.status = "ready" /\ doc'.attempt = doc.attempt
            /\ UNCHANGED <<rows, index, task, sync, deferred>>

RequestSteps ==
    /\ UNCHANGED legacy
    /\ Deletes \/ Reindexes \/ Lapses \/ Sweeps \/ Reserves \/ Republishes \/ Releases

\* Every step of a pass has one of the shapes.
LEMMA PassShape ==
    ASSUME TypeOK, NEW r \in Resyncs,
           Resync(r) \/ \E cleaned \in BOOLEAN : ResyncFails(r, cleaned)
    PROVE  PassSteps(r)
<1>0. sync \in [Resyncs -> Passes] /\ sync[r] \in Passes
  BY DEF TypeOK
<1>a. ASSUME NEW pc, SyncGoto(r, pc) PROVE PassTo(r, pc)
  BY <1>0, <1>a DEF SyncGoto, PassTo, OtherPasses, Passes
<1>b. SyncDone(r) => PassEnds(r)
  BY <1>0 DEF SyncDone, PassEnds, OtherPasses, NoSync
<1>1. CASE ResyncRead(r)
  <2>1. PassReads(r)
    BY <1>0, <1>1 DEF ResyncRead, PassReads, OtherPasses, Passes
  <2> QED
    BY <1>1, <2>1 DEF ResyncRead, PassSteps
<1>2. CASE ResyncRows(r)
  <2>1. PassReadsRows(r)
    BY <1>0, <1>2 DEF ResyncRows, PassReadsRows, OtherPasses, Passes
  <2> QED
    BY <1>2, <2>1 DEF ResyncRows, PassSteps
<1>3. CASE ResyncDrop(r)
  BY <1>3, <1>b DEF ResyncDrop, PassSteps, PassDrops
<1>4. CASE ResyncClear(r)
  BY <1>4, <1>a DEF ResyncClear, PassSteps, PassClears
<1>5. ASSUME NEW b \in Batches, ResyncUpsert(r, b) PROVE PassSteps(r)
  <2>1. PassWrites(r, b)
    BY <1>0, <1>5 DEF ResyncUpsert, PassWrites, OtherPasses, Passes
  <2> QED
    BY <1>5, <2>1 DEF ResyncUpsert, PassSteps
<1>6. CASE ResyncOlder(r)
  BY <1>6, <1>a, <1>b DEF ResyncOlder, PassSteps, PassTrims
<1>7. CASE ResyncCheck(r)
  BY <1>7, <1>a, <1>b DEF ResyncCheck, PassSteps, PassChecks
<1>8. CASE ResyncUndo(r)
  BY <1>8, <1>b DEF ResyncUndo, PassSteps, PassUndoes
<1>9. ASSUME NEW cleaned \in BOOLEAN, ResyncFails(r, cleaned) PROVE PassSteps(r)
  <2>1. OtherPasses(r) /\ sync'[r].pc \in {"requeued", "exhausted"}
    BY <1>0, <1>9 DEF ResyncFails, OtherPasses, NoSync
  <2>2. /\ \/ index' = index
           \/ sync[r].pc = "upsert" /\ index' = index \ Generation(sync[r].attempt)
        /\ deferred => deferred'
    BY <1>9 DEF ResyncFails
  <2> QED
    BY <1>9, <2>1, <2>2 DEF ResyncFails, PassSteps, PassFails, Reading
<1> QED
  BY <1>1, <1>2, <1>3, <1>4, <1>5, <1>6, <1>7, <1>8, <1>9 DEF Resync

\* Every request and beat job has one of the shapes.
LEMMA RequestShape ==
    ASSUME TypeOK,
           DeleteDocument \/ Reindex \/ Lapse \/ SweepStranded
             \/ ReserveReembedding \/ PublishReembedding
    PROVE  RequestSteps
<1>1. EnqueueSync => SyncQueued
  <2>1. \A r \in Resyncs, pc \in PassPcs : SyncGoto(r, pc) => PassTo(r, pc)
    BY DEF SyncGoto, PassTo, OtherPasses, Passes, TypeOK
  <2> QED
    BY <2>1 DEF EnqueueSync, SyncQueued, PassPcs
<1>2. EnqueueIngestion => IngestQueued
  BY MoveFields DEF EnqueueIngestion, IngestQueued
<1>3. CASE DeleteDocument
  BY <1>1, <1>3, RowFields DEF DeleteDocument, RequestSteps, Deletes
<1>4. CASE Reindex
  BY <1>1, <1>4 DEF Reindex, RequestSteps, Reindexes
<1>5. CASE Lapse
  BY <1>5, RowFields DEF Lapse, RequestSteps, Lapses
<1>6. CASE SweepStranded
  BY <1>2, <1>6, RowFields DEF SweepStranded, RequestSteps, Sweeps
<1>7. CASE ReserveReembedding
  BY <1>7, RowFields DEF ReserveReembedding, RequestSteps, Reserves
<1>8. CASE PublishReembedding
  <2>1. CASE UNCHANGED doc
    <3>1. IngestQueued
      BY <1>8, MoveFields DEF PublishReembedding, IngestQueued
    <3> QED
      BY <1>8, <2>1, <3>1 DEF PublishReembedding, RequestSteps, Republishes
  <2>2. CASE ~UNCHANGED doc
    BY <1>8, <2>2, RowFields DEF PublishReembedding, RequestSteps, Releases
  <2> QED
    BY <2>1, <2>2
<1> QED
  BY <1>3, <1>4, <1>5, <1>6, <1>7, <1>8

\* The steps, by their shapes.
Shapes == \/ \E d \in Deliveries : DeliverySteps(d)
          \/ \E r \in Resyncs : PassSteps(r)
          \/ RequestSteps
          \/ UNCHANGED vars

\* Every step of the specification has a shape.
LEMMA NextShape == TypeOK /\ [Next]_vars => Shapes
BY DeliveryShape, PassShape, RequestShape DEF Next, Shapes

\* A step leaves a delivery alone, or is one of its steps, or queues it.
LEMMA WhoseStep ==
    ASSUME Shapes, NEW e \in Deliveries
    PROVE  \/ task'[e] = task[e]
           \/ DeliverySteps(e)
           \/ task[e].pc = "idle" /\ MovesTo(e, "queued")
<1>1. ASSUME NEW d \in Deliveries, DeliverySteps(d), d # e PROVE task'[e] = task[e]
  BY <1>1 DEF DeliverySteps, Claims, Quits, Fails, Works, Persists, StillOwns, ReadsRows, Purges,
       PublishesBatch, StoreFails, Trims, Completes, Superseded, Discards, Dies, LetsGo, MovesTo, Others
<1>2. ASSUME NEW r \in Resyncs, PassSteps(r) PROVE task'[e] = task[e]
  BY <1>2 DEF PassSteps
<1>3. CASE RequestSteps
  BY <1>3 DEF RequestSteps, Deletes, Reindexes, Lapses, Sweeps, Reserves, Republishes, Releases,
       IngestQueued, MovesTo, Others
<1>4. CASE UNCHANGED vars
  BY <1>4 DEF vars
<1> QED
  BY <1>1, <1>2, <1>3, <1>4 DEF Shapes

\* The same for a pass; queueing one leaves it queued.
LEMMA WhosePass ==
    ASSUME Shapes, NEW r \in Resyncs
    PROVE  \/ sync'[r] = sync[r]
           \/ PassSteps(r)
           \/ sync[r].pc = "idle" /\ sync'[r].pc = "queued"
           \/ sync[r].pc = "exhausted" /\ sync'[r].pc = "requeued"
<1>1. ASSUME NEW q \in Resyncs, PassSteps(q), q # r PROVE sync'[r] = sync[r]
  BY <1>1 DEF PassSteps, PassReads, PassReadsRows, PassDrops, PassClears, PassWrites, PassTrims,
       PassChecks, PassUndoes, PassFails, PassEnds, PassTo, OtherPasses
<1>2. ASSUME NEW d \in Deliveries, DeliverySteps(d) PROVE sync'[r] = sync[r]
  BY <1>2 DEF DeliverySteps
<1>3. SyncQueued => \/ sync'[r] = sync[r]
                    \/ sync[r].pc = "idle" /\ sync'[r].pc = "queued"
                    \/ sync[r].pc = "exhausted" /\ sync'[r].pc = "requeued"
  BY DEF SyncQueued, PassTo, OtherPasses
<1>4. RequestSteps => SyncQueued \/ UNCHANGED sync
  BY DEF RequestSteps, Deletes, Reindexes, Lapses, Sweeps, Reserves, Republishes, Releases
<1>5. UNCHANGED vars => UNCHANGED sync
  BY DEF vars
<1> QED
  BY <1>1, <1>2, <1>3, <1>4, <1>5 DEF Shapes

(***************************************************************************)
(* Fencing: attempts, the reservation and the chunk rows.                  *)
(***************************************************************************)

\* The fields the arithmetic below is about are naturals.
LEMMA FieldTypes ==
    ASSUME TypeOK
    PROVE  /\ doc.attempt \in Nat /\ doc.status \in Statuses /\ rows \in Nat /\ legacy \in Nat
           /\ \A d \in Deliveries : task[d].attempt \in Nat /\ task[d].pc \in TaskPcs
                                    /\ task[d].left \subseteq Batches
           /\ \A r \in Resyncs : sync[r].attempt \in Nat /\ sync[r].pc \in PassPcs
                                 /\ sync[r].left \subseteq Batches
           /\ \A e \in index : e.tag \in Nat /\ e.gen \in Nat /\ e.batch \in Batches
                               /\ e = Entry(e.gen, e.tag, e.batch)
<1>1. doc.attempt \in Nat /\ doc.status \in Statuses /\ rows \in Nat /\ legacy \in Nat
  BY DEF TypeOK, Documents
<1>2. ASSUME NEW d \in Deliveries
      PROVE  task[d].attempt \in Nat /\ task[d].pc \in TaskPcs /\ task[d].left \subseteq Batches
  BY DEF TypeOK, Tasks
<1>3. ASSUME NEW r \in Resyncs
      PROVE  sync[r].attempt \in Nat /\ sync[r].pc \in PassPcs /\ sync[r].left \subseteq Batches
  BY DEF TypeOK, Passes
<1>4. ASSUME NEW e \in index
      PROVE  e.tag \in Nat /\ e.gen \in Nat /\ e.batch \in Batches
             /\ e = Entry(e.gen, e.tag, e.batch)
  BY <1>4 DEF TypeOK, Entries, Entry
<1> QED
  BY <1>1, <1>2, <1>3, <1>4

\* A step of a delivery keeps the attempt numbers apart.
LEMMA DeliveryAttempts ==
    ASSUME TypeOK, TypeOK', Attempts, NEW d \in Deliveries, DeliverySteps(d)
    PROVE  Attempts'
<1>0. UNCHANGED <<legacy, sync>> /\ Others(d)
  BY DEF DeliverySteps, Claims, Quits, Fails, Works, Persists, StillOwns, ReadsRows, Purges,
         PublishesBatch, StoreFails, Trims, Completes, Superseded, Discards, Dies, LetsGo, MovesTo
<1>1. CASE Claims(d)
  <2>1. \A e \in Deliveries : Active(e) => task[e].attempt < doc'.attempt
    BY <1>1, FieldTypes DEF Claims, Attempts
  <2> QED
    BY <1>0, <1>1, <2>1, FieldTypes DEF Claims, Others, Attempts, Active, Reading
<1>2. CASE ~Claims(d)
  <2>1. /\ doc'.attempt = doc.attempt
        /\ doc'.status \in {"processing", "ready"} => doc.status \in {"processing", "ready"}
        /\ Active(d)' => Active(d) /\ task'[d].attempt = task[d].attempt
    BY <1>2 DEF DeliverySteps, Quits, Fails, Works, Persists, StillOwns, ReadsRows, Purges,
         PublishesBatch, StoreFails, Trims, Completes, Superseded, Discards, Dies, LetsGo, MovesTo,
         SameData, SameRow, Active, OwnsAttempt
  <2> QED
    BY <1>0, <2>1 DEF Others, Attempts, Active, Reading
<1> QED
  BY <1>1, <1>2

\* So does every other step.
LEMMA NextAttempts == TypeOK /\ TypeOK' /\ Attempts /\ Shapes => Attempts'
<1> SUFFICES ASSUME TypeOK, TypeOK', Attempts, Shapes PROVE Attempts'
  OBVIOUS
<1>1. ASSUME NEW r \in Resyncs, PassSteps(r) PROVE Attempts'
  <2>1. UNCHANGED <<doc, legacy, task>> /\ OtherPasses(r)
    BY <1>1 DEF PassSteps, PassReads, PassReadsRows, PassDrops, PassClears, PassWrites, PassTrims,
         PassChecks, PassUndoes, PassFails, PassEnds, PassTo
  <2>2. Reading(r)' => \/ sync'[r].attempt = doc.attempt
                       \/ Reading(r) /\ sync'[r].attempt = sync[r].attempt
    <3>1. CASE PassReads(r)
      BY <3>1 DEF PassReads
    <3>2. CASE PassDrops(r) \/ PassUndoes(r) \/ PassFails(r)
      BY <3>2 DEF PassDrops, PassUndoes, PassFails, PassEnds, Reading
    <3>3. CASE PassTrims(r) \/ PassChecks(r)
      BY <3>3 DEF PassTrims, PassChecks, PassEnds, PassTo, Reading
    <3>4. CASE PassReadsRows(r) \/ PassClears(r) \/ \E b \in Batches : PassWrites(r, b)
      BY <3>4 DEF PassReadsRows, PassClears, PassWrites, PassTo, Reading
    <3> QED
      BY <1>1, <3>1, <3>2, <3>3, <3>4 DEF PassSteps
  <2> QED
    BY <2>1, <2>2, FieldTypes DEF Attempts, Active, Reading, OtherPasses
<1>2. CASE RequestSteps
  <2>1. /\ doc'.attempt = doc.attempt /\ UNCHANGED legacy
        /\ doc'.status \in {"processing", "ready"} =>
              doc.status \in {"processing", "ready"} \/ (cli = "reserved" /\ RequiresReembedding)
    BY <1>2 DEF RequestSteps, Deletes, Reindexes, Lapses, Sweeps, Reserves, Republishes, Releases,
         SameRow
  <2>2. \A d \in Deliveries : Active(d)' => Active(d) /\ task'[d].attempt = task[d].attempt
    BY <1>2 DEF RequestSteps, Deletes, Reindexes, Lapses, Sweeps, Reserves, Republishes, Releases,
         IngestQueued, MovesTo, Others, Active
  <2>3. \A r \in Resyncs : Reading(r)' => Reading(r) /\ sync'[r].attempt = sync[r].attempt
    BY <1>2 DEF RequestSteps, Deletes, Reindexes, Lapses, Sweeps, Reserves, Republishes, Releases,
         SyncQueued, PassTo, OtherPasses, Reading
  <2>4. RequiresReembedding => doc.attempt >= 1
    BY FieldTypes DEF RequiresReembedding, Attempts
  <2> QED
    BY <2>1, <2>2, <2>3, <2>4 DEF Attempts
<1>3. CASE UNCHANGED vars
  BY <1>3 DEF vars, Attempts, Active, Reading
<1> QED
  BY <1>1, <1>2, <1>3, DeliveryAttempts DEF Shapes

\* The reservation and the legacy rows: nobody else is at work.
LEMMA NextReserved ==
    TypeOK /\ TypeOK' /\ Fencing /\ Shapes => Reserved'
<1> SUFFICES ASSUME TypeOK, TypeOK', Fencing, Shapes PROVE Reserved'
  OBVIOUS
<1> USE DEF Fencing
<1>1. ASSUME NEW d \in Deliveries, DeliverySteps(d) PROVE Reserved'
  <2>1. task[d].pc # "idle" /\ UNCHANGED <<legacy, cli>>
    BY <1>1 DEF DeliverySteps, Claims, Quits, Fails, Works, Persists, StillOwns, ReadsRows, Purges,
         PublishesBatch, StoreFails, Trims, Completes, Superseded, Discards, Dies, Active
  <2>2. cli' # "reserved" /\ ~(doc.status = "ready" /\ RequiresReembedding)
    BY <2>1 DEF Reserved
  <2>3. CASE Completes(d)
    <3>1. rows' = task[d].attempt /\ legacy' < task[d].attempt
      BY <2>1, <2>3, FieldTypes DEF Completes, OwnerRows, Publishes, Attempts, Active
    <3> QED
      BY <2>2, <3>1, FieldTypes DEF Reserved, RequiresReembedding
  <2>4. CASE ~Completes(d)
    <3>1. doc'.status = "ready" => doc.status = "ready" /\ rows' = rows
      BY <1>1, <2>4 DEF DeliverySteps, Claims, Quits, Fails, Works, Persists, StillOwns, ReadsRows,
         Purges, PublishesBatch, StoreFails, Trims, Superseded, Discards, Dies, SameData, SameRow,
         OwnsAttempt
    <3> QED
      BY <2>1, <2>2, <3>1 DEF Reserved, RequiresReembedding
  <2> QED
    BY <2>3, <2>4
<1>2. ASSUME NEW r \in Resyncs, PassSteps(r) PROVE Reserved'
  BY <1>2 DEF PassSteps, Reserved, RequiresReembedding
<1>3. CASE RequestSteps
  <2>1. CASE Deletes \/ Reindexes
    BY <1>3, <2>1 DEF RequestSteps, Deletes, Reindexes, Reserved, RequiresReembedding
  <2>2. CASE Lapses \/ Sweeps
    BY <1>3, <2>2 DEF RequestSteps, Lapses, Sweeps, SameRow, Reserved, RequiresReembedding
  <2>3. CASE Reserves \/ Releases
    BY <1>3, <2>3 DEF RequestSteps, Reserves, Releases, Reserved, RequiresReembedding, ReadyOwnsRows
  <2>4. CASE Republishes
    BY <1>3, <2>4 DEF RequestSteps, Republishes, Reserved
  <2> QED
    BY <1>3, <2>1, <2>2, <2>3, <2>4 DEF RequestSteps
<1>4. CASE UNCHANGED vars
  BY <1>4 DEF vars, Reserved, RequiresReembedding
<1> QED
  BY <1>1, <1>2, <1>3, <1>4 DEF Shapes

\* A delivery that owns the row after a step owned it before, or just claimed it.
LEMMA OwnershipIsNotRegained ==
    ASSUME TypeOK, TypeOK', Attempts, Attempts', Shapes, NEW e \in Deliveries,
           Active(e), task'[e] = task[e], OwnsAttempt(task[e].attempt)'
    PROVE  OwnsAttempt(task[e].attempt)
<1>1. ASSUME NEW d \in Deliveries, DeliverySteps(d) PROVE OwnsAttempt(task[e].attempt)
  <2>1. CASE Claims(d)
    <3>1. task[e].attempt <= doc.attempt /\ doc.attempt \in Nat /\ task[e].attempt \in Nat
      BY FieldTypes DEF Attempts
    <3>2. doc'.attempt = doc.attempt + 1 /\ doc'.attempt = task[e].attempt
      BY <2>1 DEF Claims, OwnsAttempt
    <3> QED
      BY <3>1, <3>2
  <2>2. CASE ~Claims(d)
    BY <1>1, <2>2 DEF DeliverySteps, Quits, Fails, Works, Persists, StillOwns, ReadsRows, Purges,
         PublishesBatch, StoreFails, Trims, Completes, Superseded, Discards, Dies, SameData, SameRow,
         OwnsAttempt
  <2> QED
    BY <2>1, <2>2
<1>2. ASSUME NEW r \in Resyncs, PassSteps(r) PROVE OwnsAttempt(task[e].attempt)
  BY <1>2 DEF PassSteps, OwnsAttempt
<1>3. CASE RequestSteps
  BY <1>3 DEF RequestSteps, Deletes, Reindexes, Lapses, Sweeps, Reserves, Republishes, Releases,
         SameRow, OwnsAttempt
<1>4. CASE UNCHANGED vars
  BY <1>4 DEF vars, OwnsAttempt
<1> QED
  BY <1>1, <1>2, <1>3, <1>4 DEF Shapes

\* Only the owner writes rows: they are as they were for any other owner.
LEMMA RowsOfOthers ==
    ASSUME TypeOK, TypeOK', Attempts, Attempts', Shapes, NEW e \in Deliveries,
           Active(e), task'[e] = task[e], OwnsAttempt(task[e].attempt)'
    PROVE  OwnsAttempt(task[e].attempt) /\ rows' = rows /\ doc'.attempt = doc.attempt
<1>0. OwnsAttempt(task[e].attempt)
  BY OwnershipIsNotRegained
<1>1. doc'.attempt = doc.attempt
  BY <1>0 DEF OwnsAttempt
<1>2. rows' = rows
  <2>1. ASSUME NEW d \in Deliveries, DeliverySteps(d) PROVE rows' = rows
    <3>1. CASE Persists(d)
      <4>1. d = e
        BY <1>0, <3>1, FieldTypes DEF Persists, OwnsAttempt, Attempts, Active
      <4>2. task'[e].pc = "syncDocument" /\ task[e].pc = "working"
        BY <3>1, <4>1 DEF Persists, MovesTo
      <4> QED
        BY <4>2
    <3>2. CASE ~Persists(d)
      BY <2>1, <3>2 DEF DeliverySteps, Claims, Quits, Fails, Works, StillOwns, ReadsRows, Purges,
         PublishesBatch, StoreFails, Trims, Completes, Superseded, Discards, Dies, SameData
    <3> QED
      BY <3>1, <3>2
  <2>2. ASSUME NEW r \in Resyncs, PassSteps(r) PROVE rows' = rows
    BY <2>2 DEF PassSteps
  <2>3. CASE RequestSteps
    BY <2>3 DEF RequestSteps, Deletes, Reindexes, Lapses, Sweeps, Reserves, Republishes, Releases,
         OwnsAttempt
  <2>4. CASE UNCHANGED vars
    BY <2>4 DEF vars
  <2> QED
    BY <2>1, <2>2, <2>3, <2>4 DEF Shapes
<1> QED
  BY <1>0, <1>1, <1>2

\* What a delivery's own step leaves it knowing.
LEMMA OwnStepRows ==
    ASSUME TypeOK, TypeOK', Attempts, OwnerRows, NEW d \in Deliveries, DeliverySteps(d)
    PROVE  /\ task'[d].pc = "purge" => task'[d].snap = 0
           /\ task'[d].pc \in {"upsert", "ready"} => task'[d].snap # 0
           /\ OwnsAttempt(task[d].attempt)' =>
                /\ task'[d].pc \in {"syncDocument", "syncRows"} => rows' \in {0, task'[d].attempt}
                /\ Publishes(d)' => rows' = task'[d].attempt /\ task'[d].snap = rows'
<1>1. CASE Claims(d) \/ Quits(d) \/ Fails(d) \/ Works(d) \/ Completes(d) \/ Superseded(d)
           \/ Discards(d) \/ Dies(d) \/ StoreFails(d)
  BY <1>1 DEF Claims, Quits, Fails, Works, Completes, Superseded, Discards, Dies, StoreFails,
         LetsGo, MovesTo, Publishes
<1>2. CASE Persists(d) \/ StillOwns(d)
  BY <1>2 DEF Persists, StillOwns, MovesTo, Publishes, OwnerRows, SameData, SameRow
<1>3. CASE ReadsRows(d)
  BY <1>3, FieldTypes DEF ReadsRows, Publishes, OwnerRows, OwnsAttempt, SameData, SameRow
<1>4. CASE Purges(d)
  BY <1>4 DEF Purges, MovesTo, Publishes, OwnerRows
<1>5. ASSUME NEW b \in Batches, PublishesBatch(d, b)
      PROVE  /\ task'[d].pc \in {"upsert", "older"}
             /\ task'[d].snap # 0
             /\ OwnsAttempt(task[d].attempt)' => rows' = task'[d].attempt /\ task'[d].snap = rows'
  BY <1>5 DEF PublishesBatch, MovesTo, Publishes, OwnerRows, OwnsAttempt, SameRow
<1>6. CASE Trims(d)
  BY <1>6 DEF Trims, MovesTo, Publishes, OwnerRows, OwnsAttempt, SameRow
<1> QED
  BY <1>1, <1>2, <1>3, <1>4, <1>5, <1>6 DEF DeliverySteps

\* The rows of a READY document, and what the owner knows, are kept.
LEMMA NextOwnerRows ==
    TypeOK /\ TypeOK' /\ Fencing /\ Attempts' /\ Shapes => OwnerRows'
<1> SUFFICES ASSUME TypeOK, TypeOK', Fencing, Attempts', Shapes, NEW e \in Deliveries
             PROVE  /\ task'[e].pc = "purge" => task'[e].snap = 0
                    /\ task'[e].pc \in {"upsert", "ready"} => task'[e].snap # 0
                    /\ OwnsAttempt(task[e].attempt)' =>
                         /\ task'[e].pc \in {"syncDocument", "syncRows"}
                               => rows' \in {0, task'[e].attempt}
                         /\ Publishes(e)' => rows' = task'[e].attempt /\ task'[e].snap = rows'
  BY DEF OwnerRows, OwnsAttempt
<1> USE DEF Fencing
<1>1. CASE task'[e] = task[e]
  <2>1. CASE Active(e)
    BY <1>1, <2>1, RowsOfOthers DEF OwnerRows, Publishes
  <2>2. CASE ~Active(e)
    BY <1>1, <2>2 DEF Active, Publishes
  <2> QED
    BY <2>1, <2>2
<1>2. CASE DeliverySteps(e)
  BY <1>2, OwnStepRows
<1>3. CASE task[e].pc = "idle" /\ MovesTo(e, "queued")
  BY <1>3 DEF MovesTo, Publishes
<1> QED
  BY <1>1, <1>2, <1>3, WhoseStep

\* A document becomes READY over the rows of its own attempt.
LEMMA NextReadyRows ==
    TypeOK /\ TypeOK' /\ Fencing /\ Shapes => ReadyOwnsRows'
<1> SUFFICES ASSUME TypeOK, TypeOK', Fencing, Shapes PROVE ReadyOwnsRows'
  OBVIOUS
<1> USE DEF Fencing
<1>1. ASSUME NEW d \in Deliveries, DeliverySteps(d) PROVE ReadyOwnsRows'
  <2>1. CASE Completes(d)
    BY <2>1 DEF Completes, OwnerRows, Publishes, OwnsAttempt, ReadyOwnsRows
  <2>2. CASE ~Completes(d)
    BY <1>1, <2>2 DEF DeliverySteps, Claims, Quits, Fails, Works, Persists, StillOwns, ReadsRows,
         Purges, PublishesBatch, StoreFails, Trims, Superseded, Discards, Dies, SameData, SameRow,
         OwnsAttempt, ReadyOwnsRows
  <2> QED
    BY <2>1, <2>2
<1>2. ASSUME NEW r \in Resyncs, PassSteps(r) PROVE ReadyOwnsRows'
  BY <1>2 DEF PassSteps, ReadyOwnsRows
<1>3. CASE RequestSteps
  BY <1>3 DEF RequestSteps, Deletes, Reindexes, Lapses, Sweeps, Reserves, Republishes, Releases,
         SameRow, ReadyOwnsRows, Reserved
<1>4. CASE UNCHANGED vars
  BY <1>4 DEF vars, ReadyOwnsRows
<1> QED
  BY <1>1, <1>2, <1>3, <1>4 DEF Shapes

\* The invariant holds initially: nothing is in flight.
LEMMA InitFencing == Init => Fencing
<1> SUFFICES ASSUME Init PROVE Fencing
  OBVIOUS
<1>1. /\ \A d \in Deliveries : task[d].pc \in {"idle", "queued"}
      /\ \A r \in Resyncs : sync[r].pc = "idle"
  BY DEF Init, NoTask, NoSync
<1>2. doc.status = "ready" => /\ doc.attempt = 1 /\ rows = 1 /\ legacy = 1
                              /\ \A d \in Deliveries : task[d].pc = "idle"
  BY DEF Init, NoTask
<1>3. doc.status # "ready" => doc.status = "pending" /\ doc.attempt = 0 /\ legacy = 0
  BY DEF Init
<1>4. cli = "idle"
  BY DEF Init
<1> QED
  BY <1>1, <1>2, <1>3, <1>4
  DEF Fencing, Attempts, Reserved, OwnerRows, ReadyOwnsRows, Active, Reading, Publishes

\* Every state is fenced.
LEMMA FencingIsInvariant == Spec => [](TypeOK /\ Fencing)
<1>1. Init => TypeOK /\ Fencing
  BY InitType, InitFencing
<1>2. TypeOK /\ Fencing /\ [Next]_vars => (TypeOK /\ Fencing)'
  BY NextType, NextShape, NextAttempts, NextReserved, NextOwnerRows, NextReadyRows DEF Fencing
<1> QED
  BY <1>1, <1>2, PTL DEF Spec

\* A READY document's chunk rows are those of the attempt it is READY at, for
\* any number of deliveries, lapsed leases, retries and deletes.
THEOREM ReadyRowsAreOwned == Spec => []ReadyOwnsRows
<1>1. TypeOK /\ Fencing => ReadyOwnsRows
  BY DEF Fencing
<1> QED
  BY <1>1, FencingIsInvariant, PTL

(***************************************************************************)
(* A READY document is searchable.                                         *)
(***************************************************************************)

\* How a step may move the row: a new attempt is a claim; the same attempt is
\* never taken back to PROCESSING, and becomes READY in its owner's hands or
\* by the release of a reservation.
LEMMA RowMoves ==
    ASSUME TypeOK, Fencing, Shapes
    PROVE  /\ doc'.attempt = doc.attempt \/ doc'.attempt = doc.attempt + 1
           /\ doc'.attempt # doc.attempt => doc'.status = "processing" /\ rows' = rows
           /\ doc'.attempt = doc.attempt =>
                /\ doc'.status = "processing" => doc.status = "processing"
                /\ doc'.status = "ready" =>
                     /\ rows' = rows
                     /\ \/ doc.status = "ready"
                        \/ doc.status = "processing"
                        \/ RequiresReembedding
           /\ doc.status = "gone" => doc'.status = "gone"
           /\ legacy' = legacy
<1>1. ASSUME NEW d \in Deliveries, DeliverySteps(d)
      PROVE  /\ doc'.attempt = doc.attempt \/ doc'.attempt = doc.attempt + 1
             /\ doc'.attempt # doc.attempt => doc'.status = "processing" /\ rows' = rows
             /\ doc'.attempt = doc.attempt /\ ~Claims(d) =>
                  /\ doc'.status = "processing" => doc.status = "processing"
                  /\ doc'.status = "ready" =>
                       /\ rows' = rows
                       /\ doc.status = "ready" \/ doc.status = "processing"
             /\ doc.status = "gone" => doc'.status = "gone"
             /\ legacy' = legacy
  BY <1>1 DEF DeliverySteps, Claims, Quits, Fails, Works, Persists, StillOwns, ReadsRows, Purges,
       PublishesBatch, StoreFails, Trims, Completes, Superseded, Discards, Dies, SameData, SameRow,
       OwnsAttempt, Claimable
<1>2. ASSUME NEW d \in Deliveries, Claims(d) PROVE doc'.attempt # doc.attempt
  BY <1>2, FieldTypes DEF Claims
<1>3. CASE \E r \in Resyncs : PassSteps(r)
  BY <1>3 DEF PassSteps
<1>4. CASE RequestSteps
  BY <1>4 DEF RequestSteps, Deletes, Reindexes, Lapses, Sweeps, Reserves, Republishes, Releases,
       SameRow
<1>5. CASE UNCHANGED vars
  BY <1>5 DEF vars
<1> QED
  BY <1>1, <1>2, <1>3, <1>4, <1>5 DEF Shapes

\* Whoever makes a document READY lets go of it in the same step.
LEMMA NextReadyIsPast ==
    TypeOK /\ TypeOK' /\ Fencing /\ Fencing' /\ ReadyIsPast /\ Shapes => ReadyIsPast'
<1> SUFFICES ASSUME TypeOK, TypeOK', Fencing, Fencing', ReadyIsPast, Shapes,
                    doc'.status = "ready", NEW e \in Deliveries, Active(e)',
                    task'[e].attempt = doc'.attempt
             PROVE  FALSE
  BY DEF ReadyIsPast
<1>1. doc'.attempt = doc.attempt /\ rows' = rows /\ legacy' = legacy
  BY RowMoves
<1>2. Active(e) /\ task'[e].attempt = task[e].attempt
  <2>1. CASE task'[e] = task[e]
    BY <2>1 DEF Active
  <2>2. CASE DeliverySteps(e)
    BY <1>1, <2>2, FieldTypes
    DEF DeliverySteps, Claims, Quits, Fails, Works, Persists, StillOwns, ReadsRows, Purges,
       PublishesBatch, StoreFails, Trims, Completes, Superseded, Discards, Dies, LetsGo, MovesTo, Active
  <2>3. CASE MovesTo(e, "queued")
    BY <2>3 DEF MovesTo, Active
  <2> QED
    BY <2>1, <2>2, <2>3, WhoseStep
<1>3. doc.status # "ready"
  BY <1>1, <1>2 DEF ReadyIsPast
<1>4. CASE \E d \in Deliveries : Completes(d)
  <2>1. PICK d \in Deliveries : Completes(d)
    BY <1>4
  <2>2. d = e
    BY <1>1, <1>2, <2>1, FieldTypes DEF Completes, OwnsAttempt, Fencing, Attempts, Active
  <2> QED
    BY <2>1, <2>2 DEF Completes, LetsGo, Active
<1>5. CASE RequestSteps
  <2>1. Releases
    BY <1>3, <1>5 DEF RequestSteps, Deletes, Reindexes, Lapses, Sweeps, Reserves, Republishes,
         Releases, SameRow
  <2> QED
    BY <1>2, <2>1 DEF Releases, Fencing, Reserved, Active
<1> QED
  <2>1. ASSUME NEW d \in Deliveries, DeliverySteps(d) PROVE Completes(d)
    BY <1>3, <2>1 DEF DeliverySteps, Claims, Quits, Fails, Works, Persists, StillOwns, ReadsRows,
         Purges, PublishesBatch, StoreFails, Trims, Superseded, Discards, Dies, SameData, SameRow
  <2>2. ASSUME NEW r \in Resyncs, PassSteps(r) PROVE FALSE
    BY <1>3, <2>2 DEF PassSteps
  <2>3. CASE UNCHANGED vars
    BY <1>3, <2>3 DEF vars
  <2> QED
    BY <1>4, <1>5, <2>1, <2>2, <2>3 DEF Shapes

\* A pass overtaken by a claim is at an older attempt than the row.
LEMMA NextPassKnows ==
    TypeOK /\ TypeOK' /\ Fencing /\ Fencing' /\ PassKnows /\ Shapes => PassKnows'
<1> SUFFICES ASSUME TypeOK, TypeOK', Fencing, Fencing', PassKnows, Shapes, NEW r \in Resyncs
             PROVE  /\ sync'[r].pc = "drop" => doc'.status = "gone"
                    /\ sync'[r].pc = "clear" => sync'[r].left = Batches
                    /\ Reading(r)' /\ sync'[r].attempt = doc'.attempt =>
                         /\ doc'.status = "processing" => sync'[r].pc = "trim"
                         /\ doc'.status = "ready" /\ ~RequiresReembedding' =>
                              /\ sync'[r].pc \notin {"purge", "undo"}
                              /\ sync'[r].pc \in {"clear", "upsert"} => sync'[r].snap = rows'
  BY DEF PassKnows
<1>0. Reading(r) => sync[r].attempt <= doc.attempt /\ sync[r].attempt \in Nat /\ doc.attempt \in Nat
  BY FieldTypes DEF Fencing, Attempts
<1>1. CASE sync'[r] = sync[r]
  <2>1. CASE Reading(r) /\ sync[r].attempt = doc'.attempt
    <3>1. doc'.attempt = doc.attempt
      BY <1>0, <2>1, RowMoves
    <3> QED
      BY <1>1, <2>1, <3>1, RowMoves DEF PassKnows, Reading, RequiresReembedding
  <2>2. CASE ~(Reading(r) /\ sync[r].attempt = doc'.attempt)
    BY <1>1, <2>2, RowMoves DEF PassKnows, Reading
  <2> QED
    BY <2>1, <2>2
<1>2. CASE PassSteps(r)
  <2>0. UNCHANGED <<doc, rows, legacy>>
    BY <1>2 DEF PassSteps
  <2>1. CASE PassReads(r)
    BY <2>0, <2>1 DEF PassReads, RequiresReembedding
  <2>2. CASE PassReadsRows(r)
    <3>1. doc.status = "ready" => rows = doc.attempt /\ rows # 0
      BY FieldTypes DEF Fencing, ReadyOwnsRows, Attempts
    <3> QED
      BY <2>0, <2>2, <3>1 DEF PassReadsRows, PassKnows, Reading, RequiresReembedding
  <2>3. CASE PassClears(r)
    BY <2>0, <2>3 DEF PassClears, PassTo, PassKnows, Reading, RequiresReembedding
  <2>4. ASSUME NEW b \in Batches, PassWrites(r, b)
        PROVE  /\ sync'[r].pc \in {"upsert", "older"}
               /\ sync'[r].attempt = doc'.attempt =>
                    /\ doc'.status # "processing"
                    /\ doc'.status = "ready" /\ ~RequiresReembedding' => sync'[r].snap = rows'
    BY <2>0, <2>4 DEF PassWrites, PassKnows, Reading, RequiresReembedding
  <2>5. CASE PassTrims(r) \/ PassChecks(r)
    BY <2>0, <2>5 DEF PassTrims, PassChecks, PassTo, PassEnds, PassKnows, Reading,
         RequiresReembedding
  <2>6. CASE PassDrops(r) \/ PassUndoes(r) \/ PassFails(r)
    BY <2>6 DEF PassDrops, PassUndoes, PassFails, PassEnds, Reading
  <2> QED
    BY <1>2, <2>1, <2>2, <2>3, <2>4, <2>5, <2>6 DEF PassSteps
<1>3. CASE sync'[r].pc \in {"queued", "requeued"}
  BY <1>3 DEF Reading
<1> QED
  BY <1>1, <1>2, <1>3, WhosePass

\* While an attempt is PROCESSING, only its own delivery removes its entries.
LEMMA OwnersEntriesStay ==
    ASSUME TypeOK, Fencing, PassKnows, Shapes, NEW e \in Deliveries, Active(e),
           OwnsAttempt(task[e].attempt), task'[e] = task[e],
           NEW x \in index, x.tag = doc.attempt
    PROVE  x \in index'
<1>0. x.tag \in Nat /\ doc.attempt \in Nat /\ doc.status = "processing"
      /\ task[e].attempt = doc.attempt
  BY FieldTypes DEF OwnsAttempt
<1>1. ASSUME NEW d \in Deliveries, DeliverySteps(d) PROVE x \in index'
  <2>1. CASE Active(d) /\ task[d].attempt # doc.attempt
    <3>1. task[d].attempt <= doc.attempt /\ task[d].attempt \in Nat
      BY <2>1, FieldTypes DEF Fencing, Attempts
    <3>2. x \notin Generation(task[d].attempt) /\ x \notin OlderGenerations(task[d].attempt)
      BY <1>0, <2>1, <3>1 DEF Generation, OlderGenerations
    <3> QED
      BY <1>1, <3>2 DEF DeliverySteps, Claims, Quits, Fails, Works, Persists, StillOwns, ReadsRows,
           Purges, PublishesBatch, StoreFails, Trims, Completes, Superseded, Discards, Dies, SameData
  <2>2. CASE Active(d) /\ task[d].attempt = doc.attempt
    <3>1. d = e
      BY <1>0, <2>2 DEF Fencing, Attempts
    <3>2. task'[d].pc = task[d].pc
      BY <3>1
    <3> QED
      BY <1>1, <3>2 DEF DeliverySteps, Claims, Quits, Fails, Works, Persists, StillOwns, ReadsRows,
           Purges, PublishesBatch, StoreFails, Trims, Completes, Superseded, Discards, Dies, SameData,
           LetsGo, MovesTo
  <2>3. CASE ~Active(d)
    BY <1>1, <2>3 DEF DeliverySteps, Claims, Quits, Fails, Works, Persists, StillOwns, ReadsRows,
           Purges, PublishesBatch, StoreFails, Trims, Completes, Superseded, Discards, Dies, SameData,
           Active
  <2> QED
    BY <2>1, <2>2, <2>3
<1>2. ASSUME NEW r \in Resyncs, PassSteps(r) PROVE x \in index'
  <2>1. Reading(r) => sync[r].attempt <= doc.attempt /\ sync[r].attempt \in Nat
    BY FieldTypes DEF Fencing, Attempts
  <2>2. CASE PassDrops(r)
    BY <1>0, <2>2 DEF PassDrops, PassKnows
  <2>3. CASE PassTrims(r)
    <3>1. x \notin OlderGenerations(sync[r].attempt)
      BY <1>0, <2>1, <2>3 DEF OlderGenerations, PassTrims, Reading
    <3> QED
      BY <2>3, <3>1 DEF PassTrims
  <2>4. CASE PassClears(r) \/ PassUndoes(r) \/ PassFails(r)
    <3>1. sync[r].pc = "trim" \/ sync[r].attempt # doc.attempt
      BY <1>0, <2>4 DEF PassKnows, PassClears, PassUndoes, PassFails, Reading
    <3>2. sync[r].pc = "trim" \/ x \notin Generation(sync[r].attempt)
      BY <3>1 DEF Generation
    <3> QED
      BY <2>4, <3>2 DEF PassClears, PassUndoes, PassFails
  <2>5. CASE PassReads(r) \/ PassReadsRows(r) \/ PassChecks(r) \/ \E b \in Batches : PassWrites(r, b)
    BY <2>5 DEF PassReads, PassReadsRows, PassChecks, PassWrites
  <2> QED
    BY <1>2, <2>2, <2>3, <2>4, <2>5 DEF PassSteps
<1>3. CASE RequestSteps \/ UNCHANGED vars
  BY <1>3 DEF RequestSteps, Deletes, Reindexes, Lapses, Sweeps, Reserves, Republishes, Releases, vars
<1> QED
  BY <1>1, <1>2, <1>3 DEF Shapes

\* The owner finds its acknowledged batches where it put them.
LEMMA NextOwnerIndexed ==
    TypeOK /\ TypeOK' /\ Fencing /\ Fencing' /\ PassKnows /\ OwnerIndexed /\ Shapes
       => OwnerIndexed'
<1> SUFFICES ASSUME TypeOK, TypeOK', Fencing, Fencing', PassKnows, OwnerIndexed, Shapes,
                    NEW e \in Deliveries, OwnsAttempt(task[e].attempt)', NEW b \in Batches,
                    \/ task'[e].pc = "upsert" /\ b \notin task'[e].left
                    \/ task'[e].pc # "upsert" /\ Publishes(e)'
             PROVE  Entry(rows', doc'.attempt, b) \in index'
  BY DEF OwnerIndexed, OwnsAttempt
<1>1. CASE task'[e] = task[e]
  <2>1. Active(e)
    BY <1>1 DEF Active, Publishes
  <2>2. OwnsAttempt(task[e].attempt) /\ rows' = rows /\ doc'.attempt = doc.attempt
    BY <1>1, <2>1, RowsOfOthers DEF Fencing
  <2>3. Entry(rows, doc.attempt, b) \in index
    BY <1>1, <2>2 DEF OwnerIndexed, Publishes
  <2>4. Entry(rows, doc.attempt, b).tag = doc.attempt
    BY DEF Entry
  <2> QED
    BY <1>1, <2>1, <2>2, <2>3, <2>4, OwnersEntriesStay
<1>2. CASE DeliverySteps(e)
  <2>1. CASE Claims(e) \/ Quits(e) \/ Fails(e) \/ Works(e) \/ Persists(e) \/ StillOwns(e)
             \/ StoreFails(e) \/ Completes(e) \/ Superseded(e) \/ Discards(e) \/ Dies(e)
    BY <2>1 DEF Claims, Quits, Fails, Works, Persists, StillOwns, StoreFails, Completes,
         Superseded, Discards, Dies, LetsGo, MovesTo, Publishes
  <2>2. CASE ReadsRows(e)
    BY <2>2 DEF ReadsRows, Publishes
  <2>3. CASE Purges(e)
    BY <2>3 DEF Purges, MovesTo, Publishes, Fencing, OwnerRows
  <2>4. ASSUME NEW c \in Batches, PublishesBatch(e, c) PROVE Entry(rows', doc'.attempt, b) \in index'
    <3>1. rows' = rows /\ doc'.attempt = doc.attempt /\ OwnsAttempt(task[e].attempt)
      BY <2>4 DEF PublishesBatch, MovesTo, SameRow, OwnsAttempt
    <3>2. task[e].snap = rows /\ task[e].attempt = doc.attempt
      BY <2>4, <3>1 DEF PublishesBatch, Fencing, OwnerRows, Publishes, OwnsAttempt
    <3>3. b = c \/ b \notin task[e].left
      BY <2>4 DEF PublishesBatch, MovesTo, Publishes
    <3>4. CASE b = c
      BY <2>4, <3>1, <3>2, <3>4 DEF PublishesBatch
    <3>5. CASE b \notin task[e].left
      BY <2>4, <3>1, <3>5 DEF PublishesBatch, OwnerIndexed
    <3> QED
      BY <3>3, <3>4, <3>5
  <2>5. CASE Trims(e)
    <3>1. rows' = rows /\ doc'.attempt = doc.attempt /\ OwnsAttempt(task[e].attempt)
      BY <2>5 DEF Trims, MovesTo, SameRow, OwnsAttempt
    <3>2. task[e].pc = "older" /\ task[e].snap # 0
      BY <2>5 DEF Trims, MovesTo, Publishes
    <3>3. Entry(rows, doc.attempt, b) \in index
      BY <3>1, <3>2 DEF OwnerIndexed, Publishes
    <3>4. Entry(rows, doc.attempt, b) \notin OlderGenerations(task[e].attempt)
      BY <3>1, FieldTypes DEF Entry, OlderGenerations, OwnsAttempt
    <3> QED
      BY <2>5, <3>1, <3>3, <3>4 DEF Trims
  <2> QED
    BY <1>2, <2>1, <2>2, <2>3, <2>4, <2>5 DEF DeliverySteps
<1>3. CASE MovesTo(e, "queued")
  BY <1>3 DEF MovesTo, Publishes
<1> QED
  BY <1>1, <1>2, <1>3, WhoseStep

\* A batch of a document that stays READY leaves the index only in the hands
\* of a pass that then owes it.
LEMMA ReadyEntryStays ==
    ASSUME TypeOK, Fencing, ReadyIsPast, PassKnows, Shapes,
           doc.status = "ready", ~RequiresReembedding, doc'.attempt = doc.attempt,
           NEW b \in Batches, Entry(rows, doc.attempt, b) \in index
    PROVE  Entry(rows, doc.attempt, b) \in index' \/ \E r \in Resyncs : Owes(r, b)'
<1> DEFINE x == Entry(rows, doc.attempt, b)
<1>0. x \in index /\ x.tag = doc.attempt /\ doc.attempt \in Nat
  BY FieldTypes DEF Entry
<1> HIDE DEF x
<1>1. ASSUME NEW d \in Deliveries, DeliverySteps(d) PROVE x \in index'
  <2>1. CASE Active(d)
    <3>1. task[d].attempt <= doc.attempt /\ task[d].attempt \in Nat /\ task[d].attempt # doc.attempt
      BY <2>1, FieldTypes DEF Fencing, Attempts, ReadyIsPast
    <3>2. x \notin Generation(task[d].attempt) /\ x \notin OlderGenerations(task[d].attempt)
      BY <1>0, <3>1 DEF Generation, OlderGenerations
    <3> QED
      BY <1>0, <1>1, <3>2 DEF DeliverySteps, Claims, Quits, Fails, Works, Persists, StillOwns,
           ReadsRows, Purges, PublishesBatch, StoreFails, Trims, Completes, Superseded, Discards, Dies,
           SameData
  <2>2. CASE ~Active(d)
    BY <1>0, <1>1, <2>2 DEF DeliverySteps, Claims, Quits, Fails, Works, Persists, StillOwns,
           ReadsRows, Purges, PublishesBatch, StoreFails, Trims, Completes, Superseded, Discards, Dies,
           SameData, Active
  <2> QED
    BY <2>1, <2>2
<1>2. ASSUME NEW r \in Resyncs, PassSteps(r) PROVE x \in index' \/ Owes(r, b)'
  <2>0. doc' = doc
    BY <1>2 DEF PassSteps
  <2>1. Reading(r) => sync[r].attempt <= doc.attempt /\ sync[r].attempt \in Nat
    BY FieldTypes DEF Fencing, Attempts
  <2>2. CASE PassDrops(r)
    BY <2>2 DEF PassDrops, PassKnows
  <2>3. CASE PassTrims(r)
    <3>1. x \notin OlderGenerations(sync[r].attempt)
      BY <1>0, <2>1, <2>3 DEF OlderGenerations, PassTrims, Reading
    <3> QED
      BY <1>0, <2>3, <3>1 DEF PassTrims
  <2>4. CASE PassFails(r)
    BY <2>4 DEF PassFails, Owes
  <2>5. CASE PassClears(r) \/ PassUndoes(r)
    <3>1. CASE sync[r].attempt = doc.attempt
      <4>1. sync[r].pc = "clear" /\ sync[r].left = Batches
        BY <2>5, <3>1 DEF PassKnows, PassClears, PassUndoes, Reading
      <4>2. Owes(r, b)'
        BY <2>0, <2>5, <3>1, <4>1 DEF PassClears, PassUndoes, PassTo, Owes
      <4> QED
        BY <4>2
    <3>2. CASE sync[r].attempt # doc.attempt
      BY <1>0, <2>5, <3>2 DEF PassClears, PassUndoes, Generation
    <3> QED
      BY <3>1, <3>2
  <2>6. CASE PassReads(r) \/ PassReadsRows(r) \/ PassChecks(r) \/ \E c \in Batches : PassWrites(r, c)
    BY <1>0, <2>6 DEF PassReads, PassReadsRows, PassChecks, PassWrites
  <2> QED
    BY <1>2, <2>2, <2>3, <2>4, <2>5, <2>6 DEF PassSteps
<1>3. CASE RequestSteps \/ UNCHANGED vars
  BY <1>0, <1>3 DEF RequestSteps, Deletes, Reindexes, Lapses, Sweeps, Reserves, Republishes,
       Releases, vars
<1> QED
  BY <1>1, <1>2, <1>3 DEF Shapes, x

\* A pass owes a batch until it has written it.
LEMMA DebtIsPaid ==
    ASSUME TypeOK, Fencing, PassKnows, Shapes,
           doc.status = "ready", ~RequiresReembedding, doc'.attempt = doc.attempt,
           NEW b \in Batches, NEW r \in Resyncs, Owes(r, b)
    PROVE  Entry(rows, doc.attempt, b) \in index' \/ Owes(r, b)'
<1>1. CASE sync'[r] = sync[r]
  BY <1>1 DEF Owes
<1>2. CASE sync'[r].pc = "requeued"
  BY <1>2 DEF Owes
<1>3. CASE PassSteps(r)
  <2>0. doc' = doc
    BY <1>3 DEF PassSteps
  <2>1. CASE PassReads(r)
    BY <2>0, <2>1 DEF PassReads, Owes
  <2>2. CASE PassReadsRows(r)
    <3>1. rows # 0 /\ sync[r].attempt = doc.attempt
      BY <2>2, FieldTypes DEF Fencing, ReadyOwnsRows, Attempts, PassReadsRows, Owes
    <3> QED
      BY <2>0, <2>2, <3>1 DEF PassReadsRows, Owes
  <2>3. CASE PassClears(r)
    <3>1. sync[r].pc = "clear" /\ sync[r].attempt = doc.attempt /\ sync[r].left = Batches
      BY <2>3 DEF PassClears, Owes, PassKnows
    <3> QED
      BY <2>0, <2>3, <3>1 DEF PassClears, PassTo, Owes
  <2>4. ASSUME NEW c \in Batches, PassWrites(r, c)
        PROVE  Entry(rows, doc.attempt, b) \in index' \/ Owes(r, b)'
    <3>1. sync[r].attempt = doc.attempt /\ b \in sync[r].left /\ sync[r].snap = rows
      BY <2>4 DEF PassWrites, Owes, PassKnows, Reading
    <3>2. CASE b = c
      BY <2>4, <3>1, <3>2 DEF PassWrites
    <3>3. CASE b # c
      BY <2>0, <2>4, <3>1, <3>3 DEF PassWrites, Owes
    <3> QED
      BY <3>2, <3>3
  <2>5. CASE PassFails(r)
    BY <2>5 DEF PassFails, Owes
  <2>6. CASE PassDrops(r) \/ PassTrims(r) \/ PassChecks(r) \/ PassUndoes(r)
    BY <2>6 DEF PassDrops, PassTrims, PassChecks, PassUndoes, Owes
  <2> QED
    BY <1>3, <2>1, <2>2, <2>3, <2>4, <2>5, <2>6 DEF PassSteps
<1>4. CASE sync[r].pc = "idle"
  BY <1>4 DEF Owes
<1> QED
  BY <1>1, <1>2, <1>3, <1>4, WhosePass

\* READY is reached with every batch indexed, and then stays so but for debts.
LEMMA NextReadyIndexed ==
    TypeOK /\ TypeOK' /\ Fencing /\ Searchable /\ Shapes => ReadyIndexed'
<1> SUFFICES ASSUME TypeOK, TypeOK', Fencing, Searchable, Shapes,
                    doc'.status = "ready", ~RequiresReembedding', NEW b \in Batches
             PROVE  Entry(rows', doc'.attempt, b) \in index' \/ \E r \in Resyncs : Owes(r, b)'
  BY DEF ReadyIndexed
<1> USE DEF Searchable
<1>1. doc'.attempt = doc.attempt /\ rows' = rows /\ legacy' = legacy
  BY RowMoves
<1>2. ~RequiresReembedding
  BY <1>1 DEF RequiresReembedding
<1>3. CASE doc.status = "ready"
  <2>1. CASE Entry(rows, doc.attempt, b) \in index
    BY <1>1, <1>2, <1>3, <2>1, ReadyEntryStays
  <2>2. CASE Entry(rows, doc.attempt, b) \notin index
    <3>1. PICK r \in Resyncs : Owes(r, b)
      BY <1>2, <1>3, <2>2 DEF ReadyIndexed
    <3> QED
      BY <1>1, <1>2, <1>3, <3>1, DebtIsPaid
  <2> QED
    BY <2>1, <2>2
<1>4. CASE doc.status # "ready"
  <2>1. \E d \in Deliveries : Completes(d)
    BY <1>1, <1>2, <1>4 DEF Shapes, DeliverySteps, Claims, Quits, Fails, Works, Persists, StillOwns,
         ReadsRows, Purges, PublishesBatch, StoreFails, Trims, Superseded, Discards, Dies, SameData,
         SameRow, PassSteps, RequestSteps, Deletes, Reindexes, Lapses, Sweeps, Reserves,
         Republishes, Releases, vars
  <2>2. PICK d \in Deliveries : Completes(d)
    BY <2>1
  <2>3. Entry(rows, doc.attempt, b) \in index
    BY <2>2 DEF Completes, OwnerIndexed, Publishes
  <2> QED
    BY <1>1, <2>2, <2>3 DEF Completes
<1> QED
  BY <1>3, <1>4

\* Initially no document is READY under the current embedding contract.
LEMMA InitSearchable == Init => Searchable
<1> SUFFICES ASSUME Init PROVE Searchable
  OBVIOUS
<1>1. /\ \A d \in Deliveries : task[d].pc \in {"idle", "queued"}
      /\ \A r \in Resyncs : sync[r].pc = "idle"
  BY DEF Init, NoTask, NoSync
<1>2. doc.status = "ready" => RequiresReembedding
  BY DEF Init, RequiresReembedding
<1> QED
  BY <1>1, <1>2
  DEF Searchable, ReadyIsPast, PassKnows, OwnerIndexed, ReadyIndexed, Active, Reading, Publishes

(***************************************************************************)
(* At rest the index holds nothing else.                                   *)
(***************************************************************************)

\* An entry is in the index because it was, or because its batch was written.
LEMMA EntriesAdded ==
    ASSUME Shapes, NEW x \in index'
    PROVE  \/ x \in index
           \/ \E d \in Deliveries, b \in Batches :
                PublishesBatch(d, b) /\ DeliverySteps(d)
                  /\ x = Entry(task[d].snap, task[d].attempt, b)
           \/ \E r \in Resyncs, b \in Batches :
                PassWrites(r, b) /\ PassSteps(r)
                  /\ x = Entry(sync[r].snap, sync[r].attempt, b)
<1>1. ASSUME NEW d \in Deliveries, DeliverySteps(d), x \notin index
      PROVE  \E b \in Batches : PublishesBatch(d, b) /\ x = Entry(task[d].snap, task[d].attempt, b)
  BY <1>1 DEF DeliverySteps, Claims, Quits, Fails, Works, Persists, StillOwns, ReadsRows, Purges,
       PublishesBatch, StoreFails, Trims, Completes, Superseded, Discards, Dies, SameData
<1>2. ASSUME NEW r \in Resyncs, PassSteps(r), x \notin index
      PROVE  \E b \in Batches : PassWrites(r, b) /\ x = Entry(sync[r].snap, sync[r].attempt, b)
  BY <1>2 DEF PassSteps, PassReads, PassReadsRows, PassDrops, PassClears, PassWrites, PassTrims,
       PassChecks, PassUndoes, PassFails
<1>3. RequestSteps \/ UNCHANGED vars => index' = index
  BY DEF RequestSteps, Deletes, Reindexes, Lapses, Sweeps, Reserves, Republishes, Releases, vars
<1> QED
  BY <1>1, <1>2, <1>3 DEF Shapes

\* No one but the owner, or a pass over READY rows, writes the current tag.
LEMMA NextCurrentTags ==
    TypeOK /\ TypeOK' /\ Fencing /\ Fencing' /\ Searchable /\ CurrentTags /\ Shapes => CurrentTags'
<1> SUFFICES ASSUME TypeOK, TypeOK', Fencing, Fencing', Searchable, CurrentTags, Shapes,
                    NEW x \in index'
             PROVE  /\ x.tag <= doc'.attempt
                    /\ (\/ doc'.status = "processing"
                        \/ doc'.status = "ready" /\ ~RequiresReembedding')
                       /\ x.tag = doc'.attempt => x.gen = rows'
                    /\ \A e \in Deliveries :
                         task'[e].pc = "working" /\ OwnsAttempt(task[e].attempt)'
                           => x.tag # doc'.attempt
  BY DEF CurrentTags
<1> USE DEF Searchable
<1>0. doc.attempt \in Nat /\ doc'.attempt \in Nat
  BY FieldTypes, RowMoves
<1>1. CASE x \in index
  <2>0. x.tag <= doc.attempt /\ x.tag \in Nat
    BY <1>1, FieldTypes DEF CurrentTags
  <2>1. CASE doc'.attempt # doc.attempt
    <3>1. doc'.attempt = doc.attempt + 1
      BY <2>1, RowMoves
    <3> QED
      BY <1>0, <2>0, <3>1
  <2>2. CASE doc'.attempt = doc.attempt /\ x.tag = doc.attempt
    <3>1. ASSUME NEW e \in Deliveries, task'[e].pc = "working", OwnsAttempt(task[e].attempt)'
          PROVE  FALSE
      <4>1. CASE task'[e] = task[e]
        <5>1. OwnsAttempt(task[e].attempt)
          BY <3>1, <4>1, OwnershipIsNotRegained DEF Fencing, Active
        <5> QED
          BY <1>1, <2>2, <3>1, <4>1, <5>1 DEF CurrentTags
      <4>2. CASE DeliverySteps(e)
        <5>1. Works(e)
          BY <2>2, <3>1, <4>2, <1>0 DEF DeliverySteps, Claims, Quits, Fails, Works, Persists,
               StillOwns, ReadsRows, Purges, PublishesBatch, StoreFails, Trims, Completes, Superseded,
               Discards, Dies, LetsGo, MovesTo
        <5>2. OwnsAttempt(task[e].attempt) /\ task[e].pc = "working"
          BY <3>1, <5>1 DEF Works, MovesTo, SameData, SameRow, OwnsAttempt
        <5> QED
          BY <1>1, <2>2, <5>2 DEF CurrentTags
      <4>3. CASE MovesTo(e, "queued")
        BY <3>1, <4>3 DEF MovesTo
      <4> QED
        BY <4>1, <4>2, <4>3, WhoseStep
    <3>2. ASSUME doc'.status = "processing" \/ (doc'.status = "ready" /\ ~RequiresReembedding')
          PROVE  x.gen = rows'
      <4>1. CASE \E d \in Deliveries : Persists(d)
        <5>1. PICK d \in Deliveries : Persists(d)
          BY <4>1
        <5> QED
          BY <1>1, <2>2, <5>1 DEF Persists, CurrentTags
      <4>2. CASE ~\E d \in Deliveries : Persists(d)
        <5>1. rows' = rows \/ doc'.status = "gone"
          BY <4>2 DEF Shapes, DeliverySteps, Claims, Quits, Fails, Works, StillOwns, ReadsRows,
               Purges, PublishesBatch, StoreFails, Trims, Completes, Superseded, Discards, Dies,
               SameData, PassSteps, RequestSteps, Deletes, Reindexes, Lapses, Sweeps, Reserves,
               Republishes, Releases, vars
        <5>2. rows' = rows /\ legacy' = legacy
          BY <3>2, <5>1, RowMoves
        <5>3. doc.status = "processing" \/ (doc.status = "ready" /\ ~RequiresReembedding)
          BY <2>2, <3>2, <5>2, RowMoves DEF RequiresReembedding
        <5> QED
          BY <1>1, <2>2, <5>2, <5>3 DEF CurrentTags
      <4> QED
        BY <4>1, <4>2
    <3> QED
      BY <1>0, <2>2, <3>1, <3>2
  <2>3. CASE doc'.attempt = doc.attempt /\ x.tag # doc.attempt
    BY <2>0, <2>3
  <2> QED
    BY <2>1, <2>2, <2>3
<1>2. ASSUME NEW d \in Deliveries, NEW b \in Batches, PublishesBatch(d, b), DeliverySteps(d),
             x = Entry(task[d].snap, task[d].attempt, b)
      PROVE  /\ x.tag <= doc'.attempt
             /\ (doc'.status = "processing" \/ doc'.status = "ready") /\ x.tag = doc'.attempt
                  => x.gen = rows'
             /\ \A e \in Deliveries :
                  task'[e].pc = "working" /\ OwnsAttempt(task[e].attempt)' => x.tag # doc'.attempt
  <2>1. /\ Active(d) /\ x.tag = task[d].attempt /\ x.gen = task[d].snap
        /\ task[d].attempt <= doc.attempt
        /\ doc'.attempt = doc.attempt /\ doc'.status = doc.status /\ rows' = rows
    BY <1>2 DEF PublishesBatch, Active, Entry, Fencing, Attempts, SameRow
  <2>2. doc.status = "ready" => x.tag # doc.attempt
    BY <2>1 DEF ReadyIsPast
  <2>3. doc.status = "processing" /\ x.tag = doc.attempt => x.gen = rows
    BY <1>2, <2>1 DEF PublishesBatch, OwnsAttempt, Fencing, OwnerRows, Publishes
  <2>4. ASSUME NEW e \in Deliveries, task'[e].pc = "working", OwnsAttempt(task[e].attempt)',
               x.tag = doc'.attempt
        PROVE  FALSE
    <3>1. d # e
      BY <1>2, <2>4 DEF PublishesBatch, MovesTo
    <3>2. task'[e] = task[e]
      BY <1>2, <3>1 DEF PublishesBatch, MovesTo, Others
    <3>3. Active(e) /\ task[e].attempt = task[d].attempt
      BY <2>1, <2>4, <3>2 DEF Active, OwnsAttempt
    <3> QED
      BY <2>1, <3>1, <3>3 DEF Fencing, Attempts
  <2> QED
    BY <2>1, <2>2, <2>3, <2>4
<1>3. ASSUME NEW r \in Resyncs, NEW b \in Batches, PassWrites(r, b), PassSteps(r),
             x = Entry(sync[r].snap, sync[r].attempt, b)
      PROVE  /\ x.tag <= doc'.attempt
             /\ doc'.status = "ready" /\ ~RequiresReembedding' /\ x.tag = doc'.attempt
                  => x.gen = rows'
             /\ doc'.status = "processing" => x.tag # doc'.attempt
  <2>1. /\ Reading(r) /\ x.tag = sync[r].attempt /\ x.gen = sync[r].snap
        /\ sync[r].attempt <= doc.attempt
        /\ doc' = doc /\ rows' = rows /\ legacy' = legacy
    BY <1>3 DEF PassWrites, PassSteps, Reading, Entry, Fencing, Attempts
  <2> QED
    BY <1>3, <2>1 DEF PassWrites, PassKnows, RequiresReembedding
<1> QED
  BY <1>1, <1>2, <1>3, EntriesAdded DEF OwnsAttempt

\* A covered entry that survives a step stays covered, or is of the attempt the
\* row is at.
LEMMA CoverStays ==
    ASSUME TypeOK, Fencing, Searchable, CurrentTags, Shapes,
           NEW x \in index, x \in index', Covered(x.tag),
           ~(x.tag = doc.attempt /\ doc.status \in {"processing", "ready"})
    PROVE  Covered(x.tag)'
<1>0. x.tag \in Nat /\ doc.attempt \in Nat /\ x.tag <= doc.attempt
  BY FieldTypes DEF CurrentTags
<1>1. CASE deferred
  <2>1. deferred'
    BY <1>1 DEF Shapes, DeliverySteps, Claims, Quits, Fails, Works, Persists, StillOwns, ReadsRows,
         Purges, PublishesBatch, StoreFails, Trims, Completes, Superseded, Discards, Dies,
         PassSteps, PassReads, PassReadsRows, PassDrops, PassClears, PassWrites, PassTrims,
         PassChecks, PassUndoes, PassFails, RequestSteps, Deletes, Reindexes, Lapses, Sweeps,
         Reserves, Republishes, Releases, SyncQueued, vars
  <2> QED
    BY <2>1 DEF Covered
<1>2. ASSUME NEW d \in Deliveries, TaskCovers(d, x.tag) PROVE Covered(x.tag)'
  <2>0. task[d].attempt = x.tag /\ task[d].pc \in {"upsert", "older", "ready", "discard"}
        /\ (task[d].pc # "discard" => task[d].snap # 0)
    BY <1>2 DEF TaskCovers, Publishes, Fencing, OwnerRows
  <2>1. CASE task'[d] = task[d]
    BY <1>2, <2>1 DEF TaskCovers, Publishes, Covered
  <2>2. CASE DeliverySteps(d)
    <3>1. x \in Generation(task[d].attempt) /\ ~OwnsAttempt(task[d].attempt)
      BY <2>0 DEF Generation, OwnsAttempt
    <3>2. CASE StoreFails(d) \/ Discards(d) \/ Dies(d)
      <4>1. deferred'
        BY <3>1, <3>2 DEF StoreFails, Discards, Dies
      <4> QED
        BY <4>1 DEF Covered
    <3>3. CASE Trims(d) \/ Superseded(d)
      <4>1. TaskCovers(d, x.tag)'
        BY <2>0, <3>3 DEF Trims, Superseded, MovesTo, TaskCovers, Publishes
      <4> QED
        BY <4>1 DEF Covered
    <3>4. ASSUME NEW b \in Batches, PublishesBatch(d, b) PROVE TaskCovers(d, x.tag)'
      BY <2>0, <3>4 DEF PublishesBatch, MovesTo, TaskCovers, Publishes
    <3>5. CASE Claims(d) \/ Quits(d) \/ Fails(d) \/ Works(d) \/ Persists(d) \/ StillOwns(d)
               \/ ReadsRows(d) \/ Purges(d) \/ Completes(d)
      BY <2>0, <3>1, <3>5 DEF Claims, Quits, Fails, Works, Persists, StillOwns, ReadsRows, Purges,
           Completes
    <3> QED
      BY <2>2, <3>2, <3>3, <3>4, <3>5 DEF DeliverySteps, Covered
  <2>3. CASE task[d].pc = "idle"
    BY <2>0, <2>3
  <2> QED
    BY <2>1, <2>2, <2>3, WhoseStep
<1>3. ASSUME NEW r \in Resyncs, PassCovers(r, x.tag) PROVE Covered(x.tag)'
  <2>0. SUFFICES PassCovers(r, x.tag)'
    BY DEF Covered
  <2>1. CASE sync'[r] = sync[r]
    BY <1>3, <2>1 DEF PassCovers
  <2>2. CASE sync'[r].pc \in {"queued", "requeued"}
    BY <2>2 DEF PassCovers
  <2>3. CASE PassSteps(r)
    <3>1. CASE PassReads(r)
      BY <1>0, <3>1 DEF PassReads, PassCovers
    <3>2. CASE PassReadsRows(r)
      BY <1>3, <3>2 DEF PassReadsRows, PassCovers
    <3>3. CASE PassDrops(r)
      BY <3>3 DEF PassDrops
    <3>4. CASE PassClears(r)
      <4>1. x.tag # sync[r].attempt
        BY <3>4 DEF PassClears, Generation
      <4> QED
        BY <1>3, <3>4, <4>1 DEF PassClears, PassTo, PassCovers
    <3>5. ASSUME NEW b \in Batches, PassWrites(r, b) PROVE PassCovers(r, x.tag)'
      BY <1>3, <3>5 DEF PassWrites, PassCovers
    <3>6. CASE PassTrims(r)
      <4>1. ~(x.tag < sync[r].attempt)
        BY <3>6 DEF PassTrims, OlderGenerations
      <4> QED
        BY <1>3, <3>6, <4>1 DEF PassTrims, PassTo, PassCovers
    <3>7. CASE PassChecks(r)
      BY <1>3, <3>7 DEF PassChecks, PassTo, PassCovers
    <3>8. CASE PassUndoes(r)
      <4>1. x.tag # sync[r].attempt
        BY <3>8 DEF PassUndoes, Generation
      <4> QED
        BY <1>3, <3>8, <4>1 DEF PassUndoes, PassCovers
    <3>9. CASE PassFails(r)
      BY <3>9 DEF PassFails, PassCovers
    <3> QED
      BY <2>3, <3>1, <3>2, <3>3, <3>4, <3>5, <3>6, <3>7, <3>8, <3>9 DEF PassSteps
  <2>4. CASE sync[r].pc = "idle"
    BY <1>3, <2>4 DEF PassCovers
  <2> QED
    BY <2>1, <2>2, <2>3, <2>4, WhosePass
<1> QED
  BY <1>1, <1>2, <1>3 DEF Covered

\* Who writes an entry will remove it if it must go.
LEMMA WrittenIsCovered ==
    ASSUME TypeOK, Fencing, Shapes, NEW x \in index', x \notin index
    PROVE  Covered(x.tag)'
<1>1. ASSUME NEW d \in Deliveries, NEW b \in Batches, PublishesBatch(d, b),
             x = Entry(task[d].snap, task[d].attempt, b)
      PROVE  TaskCovers(d, x.tag)'
  BY <1>1 DEF PublishesBatch, MovesTo, TaskCovers, Publishes, Entry, Fencing, OwnerRows
<1>2. ASSUME NEW r \in Resyncs, NEW b \in Batches, PassWrites(r, b),
             x = Entry(sync[r].snap, sync[r].attempt, b)
      PROVE  PassCovers(r, x.tag)'
  BY <1>2 DEF PassWrites, PassCovers, Entry
<1> QED
  BY <1>1, <1>2, EntriesAdded DEF Covered

\* What must go from the index is somebody's to remove, whoever fails.
LEMMA NextStaleCovered ==
    TypeOK /\ TypeOK' /\ Fencing /\ Fencing' /\ Searchable /\ Exact /\ CurrentTags' /\ Shapes
       => StaleCovered'
<1> SUFFICES ASSUME TypeOK, TypeOK', Fencing, Fencing', Searchable, Exact, CurrentTags', Shapes,
                    NEW x \in index'
             PROVE  /\ doc'.status = "ready" /\ ~RequiresReembedding'
                         => x.tag = doc'.attempt \/ Covered(x.tag)'
                    /\ doc'.status = "gone" => Covered(x.tag)'
                    /\ \A e \in Deliveries :
                         task'[e].pc = "ready" /\ OwnsAttempt(task[e].attempt)'
                            => x.tag = doc'.attempt \/ Covered(x.tag)'
  BY DEF StaleCovered
<1> USE DEF Exact
<1>1. CASE x \notin index
  BY <1>1, WrittenIsCovered
<1>2. CASE x \in index
  <2>a. Covered(x.tag) => Covered(x.tag)' \/ (x.tag = doc.attempt /\ doc.status # "gone")
    BY <1>2, CoverStays
  <2>1. ASSUME doc'.status = "ready", ~RequiresReembedding'
        PROVE  x.tag = doc'.attempt \/ Covered(x.tag)'
    <3>1. doc'.attempt = doc.attempt /\ rows' = rows /\ legacy' = legacy
      BY <2>1, RowMoves
    <3>2. ~RequiresReembedding
      BY <2>1, <3>1 DEF RequiresReembedding
    <3>3. CASE doc.status = "ready"
      BY <1>2, <2>a, <3>1, <3>2, <3>3 DEF StaleCovered
    <3>4. CASE doc.status # "ready"
      <4>1. \E d \in Deliveries : Completes(d)
        BY <2>1, <3>1, <3>2, <3>4 DEF Shapes, DeliverySteps, Claims, Quits, Fails, Works, Persists,
             StillOwns, ReadsRows, Purges, PublishesBatch, StoreFails, Trims, Superseded, Discards, Dies,
             SameData, SameRow, PassSteps, RequestSteps, Deletes, Reindexes, Lapses, Sweeps,
             Reserves, Republishes, Releases, vars
      <4>2. PICK d \in Deliveries : Completes(d)
        BY <4>1
      <4>3. x.tag = doc.attempt \/ Covered(x.tag)
        BY <1>2, <4>2 DEF Completes, StaleCovered
      <4> QED
        BY <2>a, <3>1, <4>3
    <3> QED
      BY <3>3, <3>4
  <2>2. ASSUME doc'.status = "gone" PROVE Covered(x.tag)'
    <3>1. CASE doc.status = "gone"
      BY <1>2, <2>a, <3>1 DEF StaleCovered
    <3>2. CASE doc.status # "gone"
      <4>1. Deletes
        BY <2>2, <3>2 DEF Shapes, DeliverySteps, Claims, Quits, Fails, Works, Persists,
             StillOwns, ReadsRows, Purges, PublishesBatch, StoreFails, Trims, Completes, Superseded,
             Discards, Dies, SameData, SameRow, PassSteps, RequestSteps, Reindexes, Lapses, Sweeps,
             Reserves, Republishes, Releases, vars
      <4>2. deferred' \/ \E r \in Resyncs : sync'[r].pc \in {"queued", "requeued"}
        BY <4>1 DEF Deletes, SyncQueued, PassTo
      <4> QED
        BY <4>2 DEF Covered, PassCovers
    <3> QED
      BY <3>1, <3>2
  <2>3. ASSUME NEW e \in Deliveries, task'[e].pc = "ready", OwnsAttempt(task[e].attempt)'
        PROVE  x.tag = doc'.attempt \/ Covered(x.tag)'
    <3>1. CASE task'[e] = task[e]
      <4>1. OwnsAttempt(task[e].attempt) /\ doc'.attempt = doc.attempt
        BY <2>3, <3>1, RowsOfOthers DEF Fencing, Active
      <4> QED
        BY <1>2, <2>3, <2>a, <3>1, <4>1 DEF StaleCovered
    <3>2. CASE DeliverySteps(e)
      <4>1. Trims(e)
        BY <2>3, <3>2 DEF DeliverySteps, Claims, Quits, Fails, Works, Persists, StillOwns,
             ReadsRows, Purges, PublishesBatch, StoreFails, Completes, Superseded, Discards, Dies,
             LetsGo, MovesTo
      <4>2. doc'.attempt = doc.attempt /\ task[e].attempt = doc.attempt
        BY <2>3, <4>1 DEF Trims, MovesTo, SameRow, OwnsAttempt
      <4>3. ~(x.tag < doc.attempt) /\ x.tag <= doc.attempt /\ x.tag \in Nat /\ doc.attempt \in Nat
        BY <1>2, <4>1, <4>2, FieldTypes DEF Trims, OlderGenerations, CurrentTags
      <4> QED
        BY <4>2, <4>3
    <3>3. CASE MovesTo(e, "queued")
      BY <2>3, <3>3 DEF MovesTo
    <3> QED
      BY <3>1, <3>2, <3>3, WhoseStep
  <2> QED
    BY <2>1, <2>2, <2>3
<1> QED
  BY <1>1, <1>2

\* The index is empty initially.
LEMMA InitExact == Init => Exact
<1> SUFFICES ASSUME Init PROVE Exact
  OBVIOUS
<1>1. index = {}
  BY DEF Init
<1> QED
  BY <1>1 DEF Exact, CurrentTags, StaleCovered

\* The inductive invariant.
LEMMA InvariantHolds == Spec => []IInv
<1>1. Init => IInv
  BY InitType, InitFencing, InitSearchable, InitExact DEF IInv
<1>2. IInv /\ [Next]_vars => IInv'
  <2> SUFFICES ASSUME IInv, [Next]_vars PROVE IInv'
    OBVIOUS
  <2>1. TypeOK' /\ Shapes
    BY NextType, NextShape DEF IInv
  <2>2. Fencing'
    BY <2>1, NextAttempts, NextReserved, NextOwnerRows, NextReadyRows DEF IInv, Fencing
  <2>3. Searchable'
    BY <2>1, <2>2, NextReadyIsPast, NextPassKnows, NextOwnerIndexed, NextReadyIndexed
    DEF IInv, Searchable
  <2>4. Exact'
    BY <2>1, <2>2, NextCurrentTags, NextStaleCovered DEF IInv, Exact
  <2> QED
    BY <2>1, <2>2, <2>3, <2>4 DEF IInv
<1> QED
  BY <1>1, <1>2, PTL DEF Spec

\* READY means searchable, and at rest nothing but the current generation (or,
\* of a deleted document, nothing at all) is in the index: for any number of
\* deliveries, passes, batches, retries, faults, lapses and requests.
THEOREM IndexIsFollowed == Spec => []IndexFollowsRows
<1>1. IInv => ReadyIsSearchable
  <2> SUFFICES ASSUME IInv, doc.status = "ready", ~RequiresReembedding, ResyncsSettled,
                      NEW b \in Batches
               PROVE  Entry(rows, doc.attempt, b) \in index
    BY DEF ReadyIsSearchable, Current
  <2>1. \A r \in Resyncs : ~Owes(r, b)
    BY DEF ResyncsSettled, Owes
  <2> QED
    BY <2>1 DEF IInv, Searchable, ReadyIndexed
<1>2. IInv => QuietIndexIsExact
  <2> SUFFICES ASSUME IInv, \A d \in Deliveries : task[d].pc = "idle",
                      \A r \in Resyncs : sync[r].pc = "idle", ~deferred
               PROVE  /\ doc.status = "ready" /\ ~RequiresReembedding => index = Current
                      /\ doc.status = "gone" => index = {}
    BY DEF QuietIndexIsExact
  <2>1. \A tag : ~Covered(tag)
    BY DEF Covered, TaskCovers, PassCovers, Publishes
  <2>2. ASSUME doc.status = "ready", ~RequiresReembedding PROVE index = Current
    <3>1. ASSUME NEW x \in index PROVE x \in Current
      <4>1. x.tag = doc.attempt
        BY <2>1, <2>2 DEF IInv, Exact, StaleCovered
      <4>2. x.gen = rows
        BY <2>2, <4>1 DEF IInv, Exact, CurrentTags
      <4>3. x = Entry(x.gen, x.tag, x.batch) /\ x.batch \in Batches
        BY FieldTypes DEF IInv
      <4> QED
        BY <4>1, <4>2, <4>3 DEF Current
    <3>2. Current \subseteq index
      BY <1>1, <2>2 DEF ReadyIsSearchable, ResyncsSettled
    <3> QED
      BY <3>1, <3>2
  <2>3. doc.status = "gone" => index = {}
    BY <2>1 DEF IInv, Exact, StaleCovered
  <2> QED
    BY <2>2, <2>3
<1>3. IInv => IndexFollowsRows
  BY <1>1, <1>2 DEF IInv, IndexFollowsRows
<1> QED
  BY <1>3, InvariantHolds, PTL
=============================================================================
