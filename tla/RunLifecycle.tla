---------------------------- MODULE RunLifecycle ----------------------------
(***************************************************************************)
(* One headless assistant run: the `runs` row, the Celery messages that    *)
(* drive it, the workers that execute it, the stale-run reaper, the owner  *)
(* controls of an escalated run, its audit trail, its transcript and its   *)
(* inbox deliveries.                                                       *)
(*                                                                         *)
(* Every statement the code issues is keyed by the run's id, so distinct   *)
(* runs share no state and one row is enough.  A database transaction that *)
(* begins with a compare-and-set UPDATE holds the row lock until it        *)
(* commits, so the UPDATE and everything the transaction writes after it   *)
(* are one action; a SELECT that precedes the UPDATE is an action of its   *)
(* own (READ COMMITTED lets other transactions commit in between).         *)
(***************************************************************************)
EXTENDS Naturals, FiniteSets

CONSTANTS
    Workers,          \* Celery worker processes
    Controllers,      \* concurrent API requests that resume, cancel or reroute
    Users,            \* users of the run's tenant
    Seqs,             \* envelope sequence numbers a transcript step can carry
    MaxRetries,       \* settings.run_max_retries
    MonotoneClock,    \* TRUE: every clock reading is later than the last one
    Faults,           \* TRUE: database calls may raise, workers may die, the owner may be
                      \* gone (a publish to the broker may fail in any case)
    MaxResets,        \* bound: how often the owner puts the run back on the queue
    MaxRedeliveries   \* bound: how often the broker delivers a message again

ASSUME RetriesAssumption == MaxRetries \in Nat
ASSUME ResetsAssumption == MaxResets \in Nat
ASSUME RedeliveriesAssumption == MaxRedeliveries \in Nat
ASSUME SwitchAssumption == MonotoneClock \in BOOLEAN /\ Faults \in BOOLEAN

VARIABLES
    status,      \* runs.status
    startedAt,   \* runs.started_at: the claim's identity, Null when unclaimed
    session,     \* runs.session_id: the chat session of the execution, or Null
    owner,       \* runs.owner_id
    aged,        \* the claim is older than run_stale_after_seconds
    clock,       \* the latest reading of datetime.now()
    steps,       \* run_steps: the sequence numbers persisted for this run
    inbox,       \* run_deliveries of kind inbox for this run
    audit,       \* audit events of this run, counted by action
    unsent,      \* committed requests whose enqueue_run call is still to come
    broker,      \* broker[a]: messages waiting whose retries header is a
    redelivered, \* messages the broker has delivered again
    pc,          \* pc[w]: where worker w is in run_assistant / execute_run
    attempt,     \* attempt[w]: self.request.retries of the message w holds
    seen,        \* seen[w]: the started_at w read before its claim
    claim,       \* claim[w]: the started_at w wrote when it claimed
    chat,        \* chat[w]: the chat session w drives
    outcome,     \* outcome[w]: what the sink folded from the stream
    transcript,  \* transcript[w]: the step numbers the sink captured
    holder,      \* the worker that made the latest claim (history variable)
    request      \* request[c]: the control request c is serving

rowVars     == <<status, startedAt, session, owner, aged>>
recordVars  == <<steps, inbox, audit>>
brokerVars  == <<unsent, broker, redelivered>>
locals      == <<attempt, seen, claim, chat, outcome, transcript>>
workerVars  == <<pc, locals>>
vars == <<rowVars, clock, recordVars, brokerVars, workerVars, holder, request>>

-----------------------------------------------------------------------------
(* Values *)

Null == 0

Statuses == {"queued", "running", "succeeded", "failed", "escalated"}

\* domain/entities.py, _TERMINAL_RUN_STATUSES
TerminalStatuses == {"succeeded", "failed", "escalated"}

\* What the runtime's stream amounts to.  "unsaved" is a stream that ended
\* `done` while the response message was not persisted.
Outcomes == {"done", "unsaved", "transient", "escalate", "defect"}

Pcs == {"idle", "claim", "runtime", "persist", "ensure", "wrapper",
        "publish", "unpublished"}

AuditActions == {"started", "finished", "escalated",
                 "resumed", "rerouted", "cancelled"}

Deliveries == [recipient : Users, status : {"delivered", "failed"}, terminal : Nat]

NoRequest == [action |-> "none"]
Requests == [action : {"resume", "cancel", "reroute"}, to : Users]

Max2(a, b) == IF a >= b THEN a ELSE b

\* Owner decisions that put the run back on the queue: each starts an execution.
Resets == audit["resumed"] + audit["rerouted"]

IsTerminal == status \in TerminalStatuses

\* is_transient and classify_terminal: a transient fault with budget left is
\* re-driven; otherwise the outcome decides the terminal status.
Retryable(w) == outcome[w] = "transient" /\ attempt[w] < MaxRetries

ClassifyTerminal(o) == IF o = "done" THEN "succeeded"
                       ELSE IF o = "escalate" THEN "escalated" ELSE "failed"

TypeOK ==
    /\ status \in Statuses
    /\ startedAt \in Nat
    /\ session \in Nat
    /\ owner \in Users
    /\ aged \in BOOLEAN
    /\ clock \in Nat
    /\ steps \subseteq Seqs
    /\ inbox \subseteq Deliveries
    /\ audit \in [AuditActions -> Nat]
    /\ unsent \in Nat
    /\ broker \in [0..MaxRetries -> Nat]
    /\ redelivered \in Nat
    /\ pc \in [Workers -> Pcs]
    /\ attempt \in [Workers -> 0..MaxRetries]
    /\ seen \in [Workers -> Nat]
    /\ claim \in [Workers -> Nat]
    /\ chat \in [Workers -> Nat]
    /\ outcome \in [Workers -> Outcomes]
    /\ transcript \in [Workers -> SUBSET Seqs]
    /\ holder \in Workers
    /\ request \in [Controllers -> Requests \cup {NoRequest}]

Init ==
    /\ status = "queued" /\ startedAt = Null /\ session = Null
    /\ owner \in Users
    /\ aged = FALSE
    /\ clock = 1
    /\ steps = {} /\ inbox = {}
    /\ audit = [a \in AuditActions |-> 0]
    /\ unsent = 1
    /\ broker = [a \in 0..MaxRetries |-> 0]
    /\ redelivered = 0
    /\ pc = [w \in Workers |-> "idle"]
    /\ attempt = [w \in Workers |-> 0]
    /\ seen = [w \in Workers |-> Null]
    /\ claim = [w \in Workers |-> Null]
    /\ chat = [w \in Workers |-> Null]
    /\ outcome = [w \in Workers |-> "defect"]
    /\ transcript = [w \in Workers |-> {}]
    /\ holder \in Workers
    /\ request = [c \in Controllers |-> NoRequest]

-----------------------------------------------------------------------------
(* Helpers of the actions *)

Audited(a) == [audit EXCEPT ![a] = @ + 1]

\* Mutant: no exists_for_run check.
DeliveredAgain ==
    {inbox \cup {[recipient |-> owner, status |-> "delivered",
                  terminal |-> audit["finished"] + 1]}}

\* deliver_run inside the savepoint of _deliver_terminal_run, for the terminal
\* that the same transaction writes.  An inbox row is created unless one exists
\* for the run; when that raises, a `failed` row is written instead; when the
\* savepoint itself is rolled back, nothing is.
Delivered ==
    LET row(s) == [recipient |-> owner, status |-> s,
                   terminal |-> audit["finished"] + 1]
        produced == IF inbox = {} THEN {row("delivered")} ELSE inbox
    IN  IF Faults THEN {produced, inbox \cup {row("failed")}, inbox} ELSE {produced}

\* mark_terminal (or fail_stale_running) followed by the finish audit and the
\* delivery, all in one transaction.
Terminate(s) ==
    /\ status' = s
    /\ audit' = IF s = "escalated"
                  THEN [audit EXCEPT !["finished"] = @ + 1, !["escalated"] = @ + 1]
                  ELSE Audited("finished")
    /\ inbox' \in Delivered

\* Worker w is done with its message: the task returned, so Celery acknowledges it
\* and the locals of run_assistant and execute_run are gone.
Acknowledge(w) ==
    /\ pc' = [pc EXCEPT ![w] = "idle"]
    /\ attempt' = [attempt EXCEPT ![w] = 0]
    /\ seen' = [seen EXCEPT ![w] = Null]
    /\ claim' = [claim EXCEPT ![w] = Null]
    /\ chat' = [chat EXCEPT ![w] = Null]
    /\ outcome' = [outcome EXCEPT ![w] = "defect"]
    /\ transcript' = [transcript EXCEPT ![w] = {}]

Goto(w, l) == pc' = [pc EXCEPT ![w] = l]

\* Take a message whose retries header is a.
Take(w, a) ==
    /\ pc[w] = "idle"
    /\ broker[a] > 0
    /\ broker' = [broker EXCEPT ![a] = @ - 1]

-----------------------------------------------------------------------------
(* enqueue_run *)

\* The after-commit publish; an unreachable broker is logged and swallowed.
EnqueueRun ==
    /\ unsent > 0
    /\ unsent' = unsent - 1
    /\ \/ broker' = [broker EXCEPT ![0] = @ + 1]
       \/ UNCHANGED broker
    /\ UNCHANGED <<rowVars, clock, recordVars, redelivered, workerVars, holder, request>>

-----------------------------------------------------------------------------
(* execute_run, phase 1: read, claim, preflight *)

\* The run is queued: remember the started_at the claim will compare against.
ReadQueued(w) ==
    \E a \in 0..MaxRetries :
        /\ Take(w, a)
        /\ attempt' = [attempt EXCEPT ![w] = a]
        /\ status = "queued"
        /\ seen' = [seen EXCEPT ![w] = startedAt]
        /\ Goto(w, "claim")
        /\ UNCHANGED <<rowVars, clock, recordVars, unsent, redelivered,
                       claim, chat, outcome, transcript, holder, request>>

\* A duplicate delivery: the run is claimed or finished, report its state.
SkipDuplicate(w) ==
    \E a \in 0..MaxRetries :
        /\ Take(w, a)
        /\ status # "queued"
        /\ UNCHANGED <<rowVars, clock, recordVars, unsent, redelivered,
                       workerVars, holder, request>>

\* The first read raises: run_assistant's handler takes over.
ReadFails(w) ==
    \E a \in 0..MaxRetries :
        /\ Faults
        /\ Take(w, a)
        /\ attempt' = [attempt EXCEPT ![w] = a]
        /\ Goto(w, "wrapper")
        /\ UNCHANGED <<rowVars, clock, recordVars, unsent, redelivered,
                       seen, claim, chat, outcome, transcript, holder, request>>

\* Mutants: the claim ignores the started_at that was read; or the status.
CanClaimUnfenced(w) == status = "queued"
CanClaimRunning(w) == status \in {"queued", "running"}

\* mark_running: the row is queued and carries the started_at that was read.
CanClaim(w) == status = "queued" /\ startedAt = seen[w]

\* datetime.now(): strictly later than before, or any reading up to the next tick.
Readings == IF MonotoneClock THEN {clock + 1} ELSE 1..(clock + 1)

\* The identity of a new claim on a row read with started_at s.
NextStartedAt(now, s) == IF s = Null THEN now ELSE Max2(now, s + 1)

Stamp(w) ==
    \E now \in Readings :
        /\ startedAt' = NextStartedAt(now, seen[w])
        /\ clock' = Max2(clock, now)
        /\ aged' = FALSE
        /\ holder' = w

\* The claim wins and preflight passes.  A queued retry keeps its chat session;
\* any other execution opens one and audits run.started.
Claim(w) ==
    /\ pc[w] = "claim"
    /\ CanClaim(w)
    /\ Stamp(w)
    /\ claim' = [claim EXCEPT ![w] = startedAt']
    /\ status' = "running"
    /\ IF seen[w] # Null /\ session # Null
       THEN /\ chat' = [chat EXCEPT ![w] = session]
            /\ UNCHANGED <<session, audit>>
       ELSE /\ session' = audit["started"] + 1
            /\ chat' = [chat EXCEPT ![w] = audit["started"] + 1]
            /\ audit' = Audited("started")
    /\ Goto(w, "runtime")
    /\ UNCHANGED <<owner, steps, inbox, brokerVars, attempt, seen, outcome,
                   transcript, request>>

\* The claim wins but the owner or the pinned version is gone: _fail_run writes
\* the terminal in the claim's own transaction.
PreflightFails(w) ==
    /\ Faults
    /\ pc[w] = "claim"
    /\ CanClaim(w)
    /\ Stamp(w)
    /\ Terminate("failed")
    /\ Acknowledge(w)
    /\ UNCHANGED <<session, owner, steps, brokerVars, request>>

\* Another delivery won the compare-and-set.
ClaimLost(w) ==
    /\ pc[w] = "claim"
    /\ ~CanClaim(w)
    /\ Acknowledge(w)
    /\ UNCHANGED <<rowVars, clock, recordVars, brokerVars, holder, request>>

\* The claim transaction raises and rolls back.
ClaimFails(w) ==
    /\ Faults
    /\ pc[w] = "claim"
    /\ Goto(w, "wrapper")
    /\ UNCHANGED <<rowVars, clock, recordVars, brokerVars, locals, holder, request>>

-----------------------------------------------------------------------------
(* execute_run, phase 2: the shared chat runtime *)

\* The runtime ended its stream.  An error stream carries at least its error step.
RuntimeEnds(w) ==
    /\ pc[w] = "runtime"
    /\ \E o \in Outcomes, t \in SUBSET Seqs :
         /\ o \in {"done", "unsaved"} \/ t # {}
         /\ o = "unsaved" => Faults
         /\ outcome' = [outcome EXCEPT ![w] = o]
         /\ transcript' = [transcript EXCEPT ![w] = t]
    /\ Goto(w, "persist")
    /\ UNCHANGED <<rowVars, clock, recordVars, brokerVars, attempt, seen, claim, chat,
                   holder, request>>

\* An exception: inside the try it reaches execute_run's own handler, while the
\* runtime is still being composed it reaches run_assistant's.
RuntimeRaises(w) ==
    /\ Faults
    /\ pc[w] = "runtime"
    /\ Goto(w, "ensure") \/ Goto(w, "wrapper")
    /\ UNCHANGED <<rowVars, clock, recordVars, brokerVars, locals, holder, request>>

-----------------------------------------------------------------------------
(* execute_run, phase 3: _persist_run_outcome *)

\* mark_queued(expected_status=RUNNING, preserve_claim, expected_started_at).
CanRequeue(w) == status = "running" /\ startedAt = claim[w]

\* A transient fault with budget left: hand the claim back to the queue.
Requeue(w) ==
    /\ pc[w] = "persist"
    /\ Retryable(w)
    /\ CanRequeue(w)
    /\ status' = "queued"
    /\ Goto(w, "publish")
    /\ UNCHANGED <<startedAt, session, owner, aged, clock, recordVars, brokerVars,
                   locals, holder, request>>

RequeueLost(w) ==
    /\ pc[w] = "persist"
    /\ Retryable(w)
    /\ ~CanRequeue(w)
    /\ Acknowledge(w)
    /\ UNCHANGED <<rowVars, clock, recordVars, brokerVars, holder, request>>

\* Mutant: no expected status.
CanFinishTerminal(w) == status # "queued"

\* mark_terminal(expected_status=RUNNING): the terminal update of phase 3.
CanFinish(w) == status = "running"

\* (run_id, seq) is unique in run_steps.
StepsCollide(w) == steps \cap transcript[w] # {}

\* Terminal, transcript, audit and delivery commit together.
Finish(w) ==
    /\ pc[w] = "persist"
    /\ ~Retryable(w)
    /\ CanFinish(w)
    /\ outcome[w] # "unsaved"
    /\ ~StepsCollide(w)
    /\ Terminate(ClassifyTerminal(outcome[w]))
    /\ session' = chat[w]
    /\ steps' = steps \cup transcript[w]
    /\ Acknowledge(w)
    /\ UNCHANGED <<startedAt, owner, aged, clock, brokerVars, holder, request>>

\* Another terminal won, or the run went back to the queue.
FinishLost(w) ==
    /\ pc[w] = "persist"
    /\ ~Retryable(w)
    /\ ~CanFinish(w)
    /\ Acknowledge(w)
    /\ UNCHANGED <<rowVars, clock, recordVars, brokerVars, holder, request>>

\* Persisting raises and rolls back: a duplicate step number, a `done` without a
\* persisted response, or the database.
PersistRaises(w) ==
    /\ pc[w] = "persist"
    /\ \/ Faults
       \/ ~Retryable(w) /\ CanFinish(w) /\ StepsCollide(w)
    /\ Goto(w, "ensure")
    /\ UNCHANGED <<rowVars, clock, recordVars, brokerVars, locals, holder, request>>

-----------------------------------------------------------------------------
(* ensure_run_terminal_on_failure and run_assistant's handlers *)

\* mark_terminal(status=FAILED, expected_status=RUNNING); no started_at fence.
CanEnsure(w) == status = "running"

EnsureTerminal(w) ==
    /\ pc[w] \in {"ensure", "wrapper"}
    /\ IF CanEnsure(w) THEN Terminate("failed") ELSE UNCHANGED <<status, audit, inbox>>
    /\ Acknowledge(w)
    /\ UNCHANGED <<startedAt, session, owner, aged, clock, steps, brokerVars, holder,
                   request>>

\* The ensure itself raises: execute_run's handler passes it on to run_assistant's,
\* which gives up and leaves the run to the reaper.
EnsureFails(w) ==
    /\ Faults
    /\ \/ /\ pc[w] = "ensure"
          /\ Goto(w, "wrapper")
          /\ UNCHANGED <<locals>>
       \/ pc[w] \in {"wrapper", "unpublished"} /\ Acknowledge(w)
    /\ UNCHANGED <<rowVars, clock, recordVars, brokerVars, holder, request>>

\* self.retry publishes the next attempt.
PublishRetry(w) ==
    /\ pc[w] = "publish"
    /\ broker' = [broker EXCEPT ![attempt[w] + 1] = @ + 1]
    /\ Acknowledge(w)
    /\ UNCHANGED <<rowVars, clock, recordVars, unsent, redelivered, holder, request>>

PublishFails(w) ==
    /\ pc[w] = "publish"
    /\ Goto(w, "unpublished")
    /\ UNCHANGED <<rowVars, clock, recordVars, brokerVars, locals, holder, request>>

\* Mutant: the hand-off's own started_at is not compared.
CanFailHandoffAny(w) == status = "queued"

\* mark_terminal(expected_status=QUEUED, expected_started_at=retry.started_at).
CanFailHandoff(w) == status = "queued" /\ startedAt = claim[w]

FailHandoff(w) ==
    /\ pc[w] = "unpublished"
    /\ IF CanFailHandoff(w) THEN Terminate("failed") ELSE UNCHANGED <<status, audit, inbox>>
    /\ Acknowledge(w)
    /\ UNCHANGED <<startedAt, session, owner, aged, clock, steps, brokerVars, holder,
                   request>>

-----------------------------------------------------------------------------
(* Workers and broker: at-least-once delivery *)

\* A worker dies.  With acks_late the broker delivers the message again, unless
\* the pool reported the lost child and the message was acknowledged.
Crash(w) ==
    /\ Faults
    /\ pc[w] # "idle"
    /\ Acknowledge(w)
    /\ \/ /\ redelivered < MaxRedeliveries
          /\ redelivered' = redelivered + 1
          /\ broker' = [broker EXCEPT ![attempt[w]] = @ + 1]
       \/ UNCHANGED <<redelivered, broker>>
    /\ UNCHANGED <<rowVars, clock, recordVars, unsent, holder, request>>

\* The broker's visibility timeout: a message still being processed comes again.
Redeliver(w) ==
    /\ pc[w] # "idle"
    /\ redelivered < MaxRedeliveries
    /\ redelivered' = redelivered + 1
    /\ broker' = [broker EXCEPT ![attempt[w]] = @ + 1]
    /\ UNCHANGED <<rowVars, clock, recordVars, unsent, workerVars, holder, request>>

-----------------------------------------------------------------------------
(* The stale-run reaper *)

\* The predicate of fail_stale_running without its age test.
ActiveClaim == status = "running" \/ (status = "queued" /\ startedAt # Null)

\* The claim's started_at falls behind the reaper's cutoff.
Age ==
    /\ ActiveClaim
    /\ ~aged
    /\ aged' = TRUE
    /\ UNCHANGED <<status, startedAt, session, owner, clock, recordVars, brokerVars,
                   workerVars, holder, request>>

\* Mutant: the reaper overlooks queued retry hand-offs.
ReapRunningOnly ==
    /\ status = "running"
    /\ aged
    /\ Terminate("failed")
    /\ UNCHANGED <<startedAt, session, owner, aged, clock, steps, brokerVars,
                   workerVars, holder, request>>

\* Discovery only narrows the sweep: the UPDATE tests the whole predicate again.
Reap ==
    /\ ActiveClaim
    /\ aged
    /\ Terminate("failed")
    /\ UNCHANGED <<startedAt, session, owner, aged, clock, steps, brokerVars,
                   workerVars, holder, request>>

-----------------------------------------------------------------------------
(* RunsControlService: the owner's decisions on an escalated run *)

\* _load_escalated: the caller owns the run and it is escalated (else 404 / 409,
\* which change nothing).  A reroute target is another user of the tenant.
LoadEscalated(c) ==
    /\ request[c] = NoRequest
    /\ status = "escalated"
    /\ Resets < MaxResets
    /\ \E r \in Requests :
         /\ IF r.action = "reroute" THEN r.to # owner ELSE r.to = owner
         /\ request' = [request EXCEPT ![c] = r]
    /\ UNCHANGED <<rowVars, clock, recordVars, brokerVars, workerVars, holder>>

\* mark_queued with no expected status; started_at is cleared.
Requeued == /\ status' = "queued"
            /\ startedAt' = Null
            /\ aged' = FALSE
            /\ unsent' = unsent + 1

Resume(c) ==
    /\ request[c].action = "resume"
    /\ Requeued
    /\ audit' = Audited("resumed")
    /\ request' = [request EXCEPT ![c] = NoRequest]
    /\ UNCHANGED <<session, owner, clock, steps, inbox, broker, redelivered, workerVars,
                   holder>>

\* mark_terminal with no expected status; no finish audit, no delivery.
Cancel(c) ==
    /\ request[c].action = "cancel"
    /\ status' = "failed"
    /\ audit' = Audited("cancelled")
    /\ request' = [request EXCEPT ![c] = NoRequest]
    /\ UNCHANGED <<startedAt, session, owner, aged, clock, steps, inbox, brokerVars,
                   workerVars, holder>>

\* reassign_owner, then mark_queued.
Reroute(c) ==
    /\ request[c].action = "reroute"
    /\ owner' = request[c].to
    /\ Requeued
    /\ audit' = Audited("rerouted")
    /\ request' = [request EXCEPT ![c] = NoRequest]
    /\ UNCHANGED <<session, clock, steps, inbox, broker, redelivered, workerVars, holder>>

-----------------------------------------------------------------------------
WorkerStep(w) ==
    \/ ReadQueued(w) \/ SkipDuplicate(w) \/ ReadFails(w)
    \/ Claim(w) \/ PreflightFails(w) \/ ClaimLost(w) \/ ClaimFails(w)
    \/ RuntimeEnds(w) \/ RuntimeRaises(w)
    \/ Requeue(w) \/ RequeueLost(w) \/ Finish(w) \/ FinishLost(w) \/ PersistRaises(w)
    \/ EnsureTerminal(w) \/ EnsureFails(w)
    \/ PublishRetry(w) \/ PublishFails(w) \/ FailHandoff(w)
    \/ Crash(w) \/ Redeliver(w)

ControlStep(c) == LoadEscalated(c) \/ Resume(c) \/ Cancel(c) \/ Reroute(c)

Next ==
    \/ EnqueueRun
    \/ Age
    \/ Reap
    \/ \E w \in Workers : WorkerStep(w)
    \/ \E c \in Controllers : ControlStep(c)

Spec == Init /\ [][Next]_vars

\* Time passes and Beat keeps firing the reaper; nothing is asked of the workers,
\* which may die, nor of the broker, which may lose a message.
FairSpec == Spec /\ WF_vars(Age) /\ WF_vars(Reap)

-----------------------------------------------------------------------------
(* Properties *)

\* No two control requests overlap.  The properties that need it say so: resume,
\* cancel and reroute write without an expected status, so requests that race can
\* overwrite each other.
OneController == \A c, d \in Controllers : c = d

Executing(w) == pc[w] \in {"runtime", "persist"}

\* The audit trail accounts for the row: exactly one run.finished per execution
\* that reached a terminal, one run.escalated per escalation, and one run.started
\* per claimed execution however often it was retried, duplicated or reaped.
AuditLedger ==
    /\ audit["finished"] = Resets + (IF IsTerminal THEN 1 ELSE 0)
    /\ audit["escalated"] = Resets + audit["cancelled"]
                             + (IF status = "escalated" THEN 1 ELSE 0)
    /\ status = "queued" /\ startedAt = Null => audit["started"] = Resets
    /\ ActiveClaim => audit["started"] = Resets + 1

\* execute_run never drives the runtime for one run in two workers at a time, and
\* a worker that is driving it holds the row's claim and chat session unless the
\* run was failed under it (by the reaper, or by another delivery's handler).
ExclusiveExecution ==
    /\ \A v, w \in Workers : Executing(v) /\ Executing(w) => v = w
    /\ \A w \in Workers : Executing(w) =>
         \/ status = "failed"
         \/ status = "running" /\ startedAt = claim[w] /\ session = chat[w]

\* The inductive invariant behind the two: the trail, the row and the workers agree
\* on who holds the claim, and a control request that has loaded the run still sees
\* it escalated (which needs OneController).
ClaimInv ==
    /\ AuditLedger
    /\ status = "escalated" => audit["started"] = Resets + 1
    /\ status = "running" => startedAt # Null
    /\ ActiveClaim => session # Null
    /\ \A c \in Controllers : request[c] # NoRequest => status = "escalated"
    /\ \A w \in Workers : Executing(w) =>
         /\ holder = w
         /\ \/ status = "failed"
            \/ status = "running" /\ startedAt = claim[w] /\ session = chat[w]

\* The detailed machinery implements RunContract: whatever the workers, the broker, the
\* reaper and the owner do, the row and its trail move only as the contract says.
Contract == INSTANCE RunContract WITH
    claimed <- startedAt # Null, started <- audit["started"], finished <- audit["finished"]

ImplementsContract == Contract!Spec

\* A finished run stays finished: only an escalated run leaves its terminal.
TerminalIsPermanent ==
    [][(status \in {"succeeded", "failed"}) => status' = status]_vars

\* _persist_run_outcome: the worker whose outcome becomes the terminal is the one
\* that made the run's latest claim.
OutcomeOfHolder ==
    [][\A w \in Workers : pc[w] = "persist" /\ pc'[w] = "idle"
          /\ status = "running" /\ IsTerminal' => holder = w]_vars

\* ensure_run_terminal_on_failure(retry_started_at): a failed retry publication
\* fails the hand-off of its own claim, never a later claimant's.
HandoffOfHolder ==
    [][\A w \in Workers : pc[w] = "unpublished" /\ pc'[w] = "idle"
          /\ status = "queued" /\ status' = "failed" => holder = w]_vars

\* The inductive invariant behind it, within one execution: claims grow, so a worker
\* whose claim is still the row's is the worker that claimed last.
HandsOff(w) == pc[w] \in {"runtime", "persist", "publish", "unpublished"}

FenceInv ==
    \A w \in Workers : /\ claim[w] <= startedAt
                       /\ HandsOff(w) /\ claim[w] = startedAt => holder = w

\* deliver_run: the run is announced in an inbox at most once.
NeverDoubleNotifies ==
    Cardinality({d \in inbox : d.status = "delivered"}) <= 1

\* The reaper: a run that was claimed always reaches a terminal status.
ClaimedRunTerminates == ActiveClaim ~> IsTerminal
=============================================================================
