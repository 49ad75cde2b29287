------------------------------ MODULE RunInbox ------------------------------
(***************************************************************************)
(* The deliveries of finished runs after deliver_run has written them: the  *)
(* periodic digest sweep (tasks/run_digest, build_digest_for_tenant) and    *)
(* the recipient who reads them (RunDeliveryService).  How a run comes to   *)
(* be delivered once is RunLifecycle's part.                                *)
(***************************************************************************)
EXTENDS Naturals, FiniteSets

CONSTANTS Deliveries,   \* deliveries, each of a run of its own, numbered by age
          Sweepers,     \* workers that may run the sweep
          DigestBatch   \* batch_limit

ASSUME InboxAssumption == Deliveries \subseteq Nat /\ IsFiniteSet(Deliveries) /\ DigestBatch \in Nat \ {0}

VARIABLES inbox,    \* run_deliveries: kind and status
          sweeps,   \* what each sweep has read, {} when none is under way
          announced, \* history: digests announced that contained the delivery
          opened,   \* history: deliveries the recipient has read
          clashed   \* history: deliveries a sweep read while another sweep held
                    \* them, or the recipient read while a sweep held them

inboxVars == <<inbox, sweeps, announced, opened, clashed>>

DeliveryStatuses == {"pending", "delivered", "read", "failed"}
DeliveryRows == [kind: {"none"}, status: {"pending"}] \cup [kind: {"inbox", "digest"}, status: DeliveryStatuses]
NoDelivery == [kind |-> "none", status |-> "pending"]

InboxInit ==
    /\ inbox = [d \in Deliveries |-> NoDelivery] /\ sweeps = [w \in Sweepers |-> {}]
    /\ announced = [d \in Deliveries |-> 0] /\ opened = {} /\ clashed = {}

\* deliver_run: an immediate delivery, one for the digest, or the failed row of
\* a delivery that could not be produced.
ProduceDelivery(d) ==
    /\ inbox[d].kind = "none"
    /\ inbox' \in {[inbox EXCEPT ![d] = r] : r \in {[kind |-> "digest", status |-> "pending"],
                     [kind |-> "inbox", status |-> "delivered"], [kind |-> "inbox", status |-> "failed"]}}
    /\ UNCHANGED <<sweeps, announced, opened, clashed>>

\* list_pending_digest: the oldest pending digest deliveries, up to the limit.
PendingAnyStatus == {d \in Deliveries : inbox[d].kind = "digest"}
Pending == {d \in Deliveries : inbox[d].kind = "digest" /\ inbox[d].status = "pending"}
OldestPending == {d \in Pending : Cardinality({e \in Pending : e < d}) < DigestBatch}
BeginSweep(w) ==
    /\ sweeps[w] = {} /\ Pending # {}
    /\ sweeps' = [sweeps EXCEPT ![w] = OldestPending]
    /\ clashed' = clashed \cup {d \in OldestPending : \E v \in Sweepers : d \in sweeps[v]}
    /\ UNCHANGED <<inbox, announced, opened>>

\* mark_delivered writes the status over whatever it is now; one digest event
\* for the recipient; then the commit.
MarkDelivered(d, r) == IF d \in sweeps[r] THEN [inbox[d] EXCEPT !.status = "delivered"] ELSE inbox[d]
BuildDigest(w) ==
    /\ sweeps[w] # {}
    /\ inbox' = [d \in Deliveries |-> MarkDelivered(d, w)]
    /\ announced' = [d \in Deliveries |-> announced[d] + (IF d \in sweeps[w] THEN 1 ELSE 0)]
    /\ sweeps' = [sweeps EXCEPT ![w] = {}] /\ UNCHANGED <<opened, clashed>>
\* The worker dies: the transaction is undone and the task comes again.
SweepDies(w) == sweeps[w] # {} /\ sweeps' = [sweeps EXCEPT ![w] = {}] /\ UNCHANGED <<inbox, announced, opened, clashed>>

\* mark_read, by the recipient; a read delivery stays as it is.
MarkRead(d) ==
    /\ inbox[d].kind # "none" /\ inbox[d].status # "read"
    /\ inbox' = [inbox EXCEPT ![d].status = "read"] /\ opened' = opened \cup {d}
    /\ clashed' = clashed \cup {e \in {d} : \E w \in Sweepers : d \in sweeps[w]}
    /\ UNCHANGED <<sweeps, announced>>

InboxNext ==
    \/ \E d \in Deliveries : ProduceDelivery(d) \/ MarkRead(d)
    \/ \E w \in Sweepers : BeginSweep(w) \/ BuildDigest(w) \/ SweepDies(w)

InboxSpec == InboxInit /\ [][InboxNext]_inboxVars

----------------------------------------------------------------------------
(* Correctness. *)

\* Rows are well formed and a sweep holds at most a batch of digest rows.
InboxTypeOK ==
    /\ inbox \in [Deliveries -> DeliveryRows]
    /\ \A w \in Sweepers : /\ sweeps[w] \subseteq {d \in Deliveries : inbox[d].kind = "digest"}
                           /\ Cardinality(sweeps[w]) <= DigestBatch

\* A digest delivery is announced once however often the sweep runs or is
\* redelivered, except one that two overlapping sweeps read, or that was read
\* by the recipient under a sweep: mark_delivered does not look.
DigestSentOnce == \A d \in Deliveries : announced[d] <= 1 \/ d \in clashed

\* What the recipient read stays read, and it is not announced again, but for
\* the same overlap.
ReadStaysRead == \A d \in opened : inbox[d].status = "read" \/ d \in clashed

\* The inbox is honest: a digest is announced once (DigestSentOnce) and what was
\* read stays read (ReadStaysRead).
InboxIsHonest == InboxTypeOK /\ DigestSentOnce /\ ReadStaysRead

=============================================================================
