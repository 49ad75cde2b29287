---------------------------- MODULE DenialLedger ----------------------------
(***************************************************************************)
(* How a refused operation reaches the audit ledger: the guards around the  *)
(* operation (services/audit: audited_resource, PermissionDeniedContext)    *)
(* and the transaction of its own, on another connection pool, in which one *)
(* denial is recorded, reconciled and retried (db/audit_transactions).      *)
(*                                                                          *)
(* One refused operation under two nested guards.  Stage 0 is the operation *)
(* itself, 1 its own guard, 2 the guard of the operation that called it, 3  *)
(* the refusal the client sees.                                             *)
(***************************************************************************)
EXTENDS Naturals, FiniteSets

VARIABLES stage,     \* where the refusal is
          contexts,  \* the denial context of each guard
          marked,    \* the guards whose attempt is marked as recorded
          record,    \* the recording under way
          ledger,    \* committed denial rows: their context and event id
          inflight,  \* rows whose commit the server has not decided
          emits      \* event ids drawn

denialVars == <<stage, contexts, marked, record, ledger, inflight, emits>>

Guards == 1..2
MaxEmits == 3        \* the operation's own denial and one for each guard
AuditRows == [context: 1..2, event: 1..MaxEmits]
\* Points of execute_idempotent; cancelled: the request was cancelled meanwhile.
Points == {"none", "attempt", "commit", "reconcile", "again", "recommit", "settle"}
Recording == [at: Points, row: AuditRows, cancelled: BOOLEAN]
NoRecording == [at |-> "none", row |-> [context |-> 1, event |-> 1], cancelled |-> FALSE]

\* A nested operation usually shares the request's context.
DenialInit ==
    /\ stage = 0 /\ marked = {} /\ record = NoRecording
    /\ contexts \in {[g \in Guards |-> 1], [g \in Guards |-> IF g = 1 THEN 2 ELSE 1]}
    /\ ledger = {} /\ inflight = {} /\ emits = 0

----------------------------------------------------------------------------
(* The guards. *)

\* A denial marks every attempt of the same tenant, actor, request and address.
MarkedInnermost(c) == IF \E g \in Guards : contexts[g] = c THEN {CHOOSE g \in Guards : contexts[g] = c} ELSE {}
Marked(c) == {g \in Guards : contexts[g] = c}
Emit(c) ==
    /\ emits' = emits + 1 /\ marked' = marked \cup Marked(c)
    /\ record' = [at |-> "attempt", row |-> [context |-> c, event |-> emits + 1], cancelled |-> FALSE]
    /\ UNCHANGED <<stage, contexts, ledger, inflight>>

\* The operation refuses, having recorded the denial itself or not.
RefuseAudited == stage = 0 /\ record.at = "none" /\ emits = 0 /\ Emit(contexts[1])
RefusePlainly == stage = 0 /\ record.at = "none" /\ emits = 0 /\ stage' = 1
                 /\ UNCHANGED <<contexts, marked, record, ledger, inflight, emits>>
\* run_guarded: NotFound, Forbidden or a missing result passes a guard.
Guard(g) ==
    /\ stage = g /\ record.at = "none"
    /\ \/ g \in marked /\ stage' = g + 1 /\ UNCHANGED <<contexts, marked, record, ledger, inflight, emits>>
       \/ g \notin marked /\ Emit(contexts[g])

\* The denial is recorded: the refusal goes on; a cancelled request ends here.
Recorded ==
    /\ record' = NoRecording /\ stage' = IF record.cancelled THEN 4 ELSE stage + 1
    /\ UNCHANGED <<contexts, marked, emits>>
\* Any other error passes the guards: the client sees no refusal.
Raises == stage' = 4 /\ record' = NoRecording /\ UNCHANGED <<contexts, marked, emits>>

----------------------------------------------------------------------------
(* The transaction. *)

\* The insert does nothing when the row is there and waits while it is in doubt.
Blocked == record.row \in inflight
Proceed(at) == record' = [record EXCEPT !.at = at] /\ UNCHANGED <<stage, contexts, marked, emits>>
Insert(from, to) == record.at = from /\ ~Blocked /\ Proceed(to) /\ UNCHANGED <<ledger, inflight>>
\* A timeout is ambiguous at any point of an attempt.
TimesOut(from, to) == record.at \in from /\ Proceed(to) /\ UNCHANGED <<ledger, inflight>>
\* A definite error rolls back.
Breaks(from) == record.at \in from /\ Raises /\ UNCHANGED <<ledger, inflight>>
Commits(from) == record.at = from /\ ledger' = ledger \cup {record.row} /\ Recorded /\ UNCHANGED inflight
\* The connection is lost around the commit: done, undecided or undone.
CommitOutcome ==
    \/ ledger' = ledger \cup {record.row} /\ UNCHANGED inflight
    \/ record.row \notin ledger /\ inflight' = inflight \cup {record.row} /\ UNCHANGED ledger
    \/ UNCHANGED <<ledger, inflight>>
CommitLost(from, to) == record.at = from /\ Proceed(to) /\ CommitOutcome
\* The server decides what was in flight.
Lands(r) == r \in inflight /\ inflight' = inflight \ {r} /\ ledger' \in {ledger, ledger \cup {r}}
            /\ UNCHANGED <<stage, contexts, marked, record, emits>>

\* First attempt; its ambiguous end is read back by event id; the same id is
\* tried once more, and read back again.
Attempt == Insert("attempt", "commit") \/ TimesOut({"attempt"}, "reconcile") \/ Breaks({"attempt"})
Commit1 == Commits("commit") \/ CommitLost("commit", "reconcile") \/ Breaks({"commit"})
ReconciledHopefully == record.row \in ledger \cup inflight
Reconciled == record.row \in ledger
Reconcile ==
    \/ record.at = "reconcile" /\ Reconciled /\ Recorded /\ UNCHANGED <<ledger, inflight>>
    \/ record.at = "reconcile" /\ ~Reconciled /\ Proceed("again") /\ UNCHANGED <<ledger, inflight>>
    \/ Breaks({"reconcile"})
Retry == Insert("again", "recommit") \/ TimesOut({"again"}, "settle") \/ Breaks({"again"})
Recommit == Commits("recommit") \/ CommitLost("recommit", "settle") \/ Breaks({"recommit"})
SettleTask == (record.at = "settle" /\ Reconciled /\ Recorded /\ UNCHANGED <<ledger, inflight>>) \/ Breaks({"settle"})

\* The request is cancelled: before the first commit the attempt rolls back,
\* during it the outcome is in doubt, later the recovery is settled first.
Cancel ==
    \/ Breaks({"attempt"})
    \/ /\ record.at \notin {"none", "attempt"} /\ ~record.cancelled
       /\ record' = [record EXCEPT !.at = IF @ = "commit" THEN "reconcile" ELSE @, !.cancelled = TRUE]
       /\ IF record.at = "commit" THEN CommitOutcome ELSE UNCHANGED <<ledger, inflight>>
       /\ UNCHANGED <<stage, contexts, marked, emits>>

DenialNext ==
    \/ RefuseAudited \/ RefusePlainly \/ \E g \in Guards : Guard(g)
    \/ Attempt \/ Commit1 \/ Reconcile \/ Retry \/ Recommit \/ SettleTask \/ Cancel
    \/ \E r \in AuditRows : Lands(r)

DenialSpec == DenialInit /\ [][DenialNext]_denialVars

----------------------------------------------------------------------------
(* Correctness. *)

\* The state is well formed; nothing is being recorded once the request ended.
DenialTypeOK ==
    /\ stage \in 0..4 /\ contexts \in [Guards -> 1..2] /\ marked \subseteq Guards
    /\ record \in Recording /\ emits \in 0..MaxEmits
    /\ ledger \subseteq AuditRows /\ inflight \subseteq AuditRows
    /\ stage \in {3, 4} => record.at = "none"

\* A refusal the client sees is in the ledger, for the context of each guard
\* it passed, whatever commits were lost or undecided.
RefusalIsRecorded == stage = 3 => \A g \in Guards : \E r \in ledger : r.context = contexts[g]

\* However often it is retried, and however many guards it passes, a refused
\* operation is recorded at most once for one context, counting what is still
\* in flight.
RecordedOnce == \A r, s \in ledger \cup inflight : r.context = s.context => r = s

\* A refusal is recorded exactly once per context (RefusalIsRecorded,
\* RecordedOnce).
RefusalRecordedOnce == DenialTypeOK /\ RefusalIsRecorded /\ RecordedOnce

=============================================================================
