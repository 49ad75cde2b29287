---------------------------- MODULE SandboxRuns ----------------------------
(***************************************************************************)
(* Code runs of one tenant in the sandbox of one chat: admission by a       *)
(* concurrency lease and a daily reservation in Redis (sandbox/accounting), *)
(* the ownership that settles and releases them (sandbox/admission), the    *)
(* execution and its confirmed kill (sandbox/service, sandbox/tool_runner)  *)
(* and the runner that holds the containers (lumen_sandbox_runner/engine).  *)
(*                                                                          *)
(* An executor is one call of execute_outcome: the chat tool that created   *)
(* the run, or a delivery of the Celery task.  Its identity stands for the  *)
(* owner token.  The runner serialises ensure and execute of a session and  *)
(* tears a whole generation down without waiting for them.                  *)
(***************************************************************************)
EXTENDS Integers, FiniteSets, FiniteSetsExt

CONSTANTS Runs,            \* code runs of the tenant
          TaskRuns,        \* those a Celery message executes
          Execs,           \* calls of execute_outcome, numbered as they begin
          None,            \* no executor, no run
          MaxConcurrency,  \* limits.max_concurrency
          Reserved,        \* seconds reserved per execution
          DailyCap,        \* limits.daily_runtime_cap_s
          LastDay,         \* bound: UTC days
          MaxGen,          \* bound: sandbox generations (requests stop earlier)
          MaxFaults        \* bound: failed calls, crashes, stalled heartbeats

ASSUME SandboxAssumption ==
    /\ Execs \subseteq Nat /\ TaskRuns \subseteq Runs /\ None \notin Execs \cup Runs
    /\ MaxConcurrency \in Nat \ {0} /\ Reserved \in Nat \ {0}
    /\ DailyCap \in Nat /\ LastDay \in Nat /\ MaxFaults \in Nat
    /\ MaxGen \in Nat /\ MaxGen > MaxFaults  \* faults leave the first session its generation

VARIABLES run,     \* code_runs rows: status and sandbox_generation (0 NULL)
          sess,    \* the chat's sandbox_sessions row (gen 0: none)
          box,     \* generation of the container at the runner, 0 for none
          code,    \* generation in which the run's process executes, 0 none
          lease,   \* the tenant's sorted set and owners hash
          daily,   \* runtime counter per UTC day
          day,
          ex,      \* Execs -> the state of that execution
          owner,   \* the owner's request on the run or on the session, and
                   \* the runs it ended (history)
          faults

vars == <<run, sess, box, code, lease, daily, day, ex, owner, faults>>

Active == {"queued", "running"}
Terminal == {"succeeded", "failed", "timeout", "denied", "killed"}
NoLease == [owner |-> None, fresh |-> FALSE]
IdleExec == [pc |-> "idle", run |-> None, gen |-> 0, advance |-> FALSE,
             reserved |-> FALSE, day |-> 0, spent |-> 0, lost |-> FALSE,
             lapsed |-> FALSE, pending |-> FALSE, cause |-> "none", cancelled |-> FALSE, beat |-> FALSE,
             broken |-> FALSE, settled |-> FALSE]

Pcs == {"idle", "admit", "reserve", "ensure", "start", "waiting", "executing",
        "finish", "kill", "confirm", "close", "row", "done", "dead"}

\* The rows, as far as the properties tell them apart ("none" before).
CodeRuns == [status : {"none"} \cup Active \cup Terminal, gen : 0..MaxGen]
Sessions == [gen : 0..MaxGen, status : {"none", "active", "closed", "error"}]

TypeOK ==
    /\ run \in [Runs -> CodeRuns] /\ sess \in Sessions
    /\ box \in 0..MaxGen /\ code \in [Runs -> 0..MaxGen]
    /\ lease \in [Runs -> [owner : Execs \cup {None}, fresh : BOOLEAN]]
    /\ day \in 0..LastDay /\ daily \in [0..LastDay -> Nat]
    /\ ex \in [Execs ->
         [pc : Pcs, run : Runs \cup {None}, gen : 0..MaxGen, advance : BOOLEAN,
          reserved : BOOLEAN, day : 0..LastDay, spent : 0..Reserved,
          lost : BOOLEAN, lapsed : BOOLEAN, pending : BOOLEAN,
          cause : {"none", "cancelled", "accounting"},
          cancelled : BOOLEAN, beat : BOOLEAN, broken : BOOLEAN,
          settled : BOOLEAN]]
    /\ owner \in [pc : {"idle", "write"}, run : Runs \cup {None}, gen : 0..MaxGen,
                 ended : SUBSET Runs, asked : BOOLEAN]
    /\ faults \in 0..MaxFaults

Init ==
    /\ run = [r \in Runs |-> [status |-> IF r \in TaskRuns THEN "queued" ELSE "none",
                              gen |-> 0]]
    /\ sess = [gen |-> 0, status |-> "none"]
    /\ box = 0 /\ code = [r \in Runs |-> 0]
    /\ lease = [r \in Runs |-> NoLease]
    /\ day = 0 /\ daily = [d \in 0..LastDay |-> 0]
    /\ ex = [x \in Execs |-> IdleExec]
    /\ owner = [pc |-> "idle", run |-> None, gen |-> 0, ended |-> {}, asked |-> FALSE]
    /\ faults = 0

\* Bound: routes and cancellations leave room for the generations faults need.
LastAdvance == MaxGen - MaxFaults

Fault == faults < MaxFaults /\ faults' = faults + 1
-----------------------------------------------------------------------------
(* Helpers over the rows, the runner and Redis.                             *)

Goto(x, pc) == ex' = [ex EXCEPT ![x].pc = pc]

\* The call returns: its locals are gone; what it charged stays on record.
Return(x) == ex' = [ex EXCEPT ![x] = [IdleExec EXCEPT !.pc = "done", !.run = ex[x].run,
                      !.day = ex[x].day, !.broken = ex[x].broken]]

\* mark_terminal: compare-and-set from QUEUED or RUNNING.
MarkTerminal(r, status) ==
    run' = [run EXCEPT ![r].status = IF @ \in Active THEN status ELSE @]

\* Tearing a generation down ends every process in it.
KilledIn(g) == [r \in Runs |-> IF code[r] = g THEN 0 ELSE code[r]]
SessionBusy == (\E r \in Runs : code[r] # 0) \/ \E x \in Execs : ex[x].pc = "executing"

\* Mutant: one member too many.
HeldLoosely == {r \in Runs : lease[r].fresh} \ {CHOOSE r \in Runs : TRUE}

\* ZREMRANGEBYSCORE, then ZCARD: the members that have not expired.
Held == {r \in Runs : lease[r].fresh}

Purged == [r \in Runs |-> IF lease[r].fresh THEN lease[r] ELSE NoLease]

\* _ACQUIRE_SCRIPT admits a run that has no lease while the cap leaves room.
CanAdmit(r) == r \notin Held /\ Cardinality(Held) < MaxConcurrency

\* _RELEASE_SCRIPT: only under the caller's own token.
Released(x, r) == [lease EXCEPT ![r] = IF @.owner = x THEN NoLease ELSE @]

\* Mutant: the refund goes to the day the execution ends on.
SettledToday(x, spent) == [daily EXCEPT ![day] =
    IF @ = 0 THEN 0 ELSE Max({@ + spent - Reserved, 0})]

\* _SETTLE_SCRIPT on the reservation's day: a missing key stays missing, the
\* counter is clamped at zero.
Settled(x, spent) == [daily EXCEPT ![ex[x].day] =
    IF @ = 0 THEN 0 ELSE Max({@ + spent - Reserved, 0})]

-----------------------------------------------------------------------------
(* Admission.                                                               *)

\* The next call to begin.
NextCall(x) == ex[x].pc = "idle" /\ \A y \in Execs : ex[y].pc = "idle" => x <= y

\* ChatSandboxToolRunner.submit: the row is committed before admission.
Submit(x, r) ==
    /\ NextCall(x) /\ r \notin TaskRuns /\ run[r].status = "none"
    /\ run' = [run EXCEPT ![r].status = "queued"]
    /\ ex' = [ex EXCEPT ![x].pc = "admit", ![x].run = r]
    /\ UNCHANGED <<sess, box, code, lease, daily, day, owner, faults>>

\* A delivery of lumen.run_sandbox; a run that is not QUEUED is left alone.
\* The first needs no fault; a redelivery does.
Deliver(x, r) ==
    /\ NextCall(x) /\ r \in TaskRuns
    /\ IF \A y \in Execs : ex[y].run # r THEN UNCHANGED faults ELSE Fault
    /\ ex' = [ex EXCEPT ![x].run = r,
                        ![x].pc = IF run[r].status = "queued" THEN "admit" ELSE "done"]
    /\ UNCHANGED <<run, sess, box, code, lease, daily, day, owner>>

\* _finalize_denial before a lease is held: policy off, package refused.
DenyByPolicy(x) ==
    /\ ex[x].pc = "admit"
    /\ MarkTerminal(ex[x].run, "denied") /\ Return(x)
    /\ UNCHANGED <<sess, box, code, lease, daily, day, owner, faults>>

\* acquire_lease: already admitted, refused, or a lease with a heartbeat.
Acquire(x) ==
    LET r == ex[x].run IN
    /\ ex[x].pc = "admit"
    /\ \/ /\ r \in Held
          /\ lease' = Purged /\ Return(x) /\ UNCHANGED run
       \/ /\ r \notin Held /\ ~CanAdmit(r)
          /\ lease' = Purged /\ MarkTerminal(r, "denied") /\ Return(x)
       \/ /\ CanAdmit(r)
          /\ lease' = [Purged EXCEPT ![r] = [owner |-> x, fresh |-> TRUE]]
          /\ ex' = [ex EXCEPT ![x].pc = "reserve", ![x].beat = TRUE, ![x].day = day]
          /\ UNCHANGED run
    /\ UNCHANGED <<sess, box, code, daily, day, owner, faults>>

\* Redis fails before or after the script ran: denied, nobody renews.
AcquireFails(x, applied) ==
    LET r == ex[x].run IN
    /\ ex[x].pc = "admit" /\ Fault
    /\ IF applied /\ CanAdmit(r)
       THEN lease' = [lease EXCEPT ![r] = [owner |-> x, fresh |-> TRUE]]
       ELSE UNCHANGED lease
    /\ MarkTerminal(r, "denied") /\ Return(x)
    /\ UNCHANGED <<sess, box, code, daily, day, owner>>

\* reserve_daily on the day read after the lease; refused: DENIED.
Reserve(x) ==
    LET d == ex[x].day IN
    /\ ex[x].pc = "reserve"
    /\ IF daily[d] + Reserved > DailyCap
       THEN /\ MarkTerminal(ex[x].run, "denied") /\ Goto(x, "close")
            /\ UNCHANGED daily
       ELSE /\ daily' = [daily EXCEPT ![d] = @ + Reserved]
            /\ ex' = [ex EXCEPT ![x].pc = "ensure", ![x].reserved = TRUE]
            /\ UNCHANGED run
    /\ UNCHANGED <<sess, box, code, lease, day, owner, faults>>

\* Redis fails: what it may have reserved is never settled.
ReserveFails(x, applied) ==
    LET d == ex[x].day IN
    /\ ex[x].pc = "reserve" /\ Fault
    /\ daily' = IF applied /\ daily[d] + Reserved <= DailyCap
                THEN [daily EXCEPT ![d] = @ + Reserved] ELSE daily
    /\ MarkTerminal(ex[x].run, "denied") /\ Goto(x, "close")
    /\ UNCHANGED <<sess, box, code, lease, day, owner>>

-----------------------------------------------------------------------------
(* The admitted execution.                                                  *)

\* SandboxSessionRepository.get_or_create: the generation to run in.
NextGeneration ==
    IF sess.status = "active" THEN sess.gen ELSE sess.gen + 1

\* A transaction that advanced the session row still holds its lock.
SessionLocked == \E x \in Execs : ex[x].advance

\* lifecycle.ensure: the row, then the runner's container of its generation,
\* in the place of any other.
Ensure(x) ==
    /\ ex[x].pc = "ensure" /\ ~SessionLocked /\ ~SessionBusy
    /\ box' = NextGeneration
    /\ ex' = [ex EXCEPT ![x].pc = "start", ![x].gen = NextGeneration,
                        ![x].advance = (sess.status # "active")]
    /\ UNCHANGED <<run, sess, code, lease, daily, day, owner, faults>>

\* The policy was switched off (DENIED), or the runner fails (FAILED, the
\* session in error).
EnsureFails(x, status) ==
    /\ ex[x].pc = "ensure" /\ ~SessionLocked /\ Fault
    /\ sess' = IF status = "failed"
               THEN [gen |-> NextGeneration, status |-> "error"] ELSE sess
    /\ MarkTerminal(ex[x].run, status) /\ Goto(x, "close")
    /\ UNCHANGED <<box, code, lease, daily, day, owner>>

\* The check of accounting_lost, mark_running and the commit.
Start(x) ==
    LET r == ex[x].run IN
    /\ ex[x].pc = "start"
    /\ IF ex[x].lost
       THEN MarkTerminal(r, "denied")
       ELSE run' = [run EXCEPT ![r] = IF @.status = "queued"
                                      THEN [status |-> "running", gen |-> ex[x].gen] ELSE @]
    /\ sess' = IF ex[x].advance THEN [gen |-> ex[x].gen, status |-> "active"] ELSE sess
    /\ ex' = [ex EXCEPT ![x].advance = FALSE,
                        ![x].pc = IF ~ex[x].lost /\ run[r].status = "queued"
                                  THEN "waiting" ELSE "close"]
    /\ UNCHANGED <<box, code, lease, daily, day, owner, faults>>

\* The runner takes the session's lock, (re)creates the container of the
\* run's generation and starts the process.
Execute(x) ==
    /\ ex[x].pc = "waiting" /\ ~SessionBusy
    /\ box' = ex[x].gen
    /\ code' = [code EXCEPT ![ex[x].run] = ex[x].gen]
    /\ Goto(x, "executing")
    /\ UNCHANGED <<run, sess, lease, daily, day, owner, faults>>

\* A process ends by itself or at its deadline, also one nobody waits for.
CodeEnds(r) ==
    /\ code[r] # 0
    /\ code' = [code EXCEPT ![r] = 0]
    /\ UNCHANGED <<run, sess, box, lease, daily, day, ex, owner, faults>>

\* The runner's answer: `killed` when the container went away.  (A non-zero
\* exit is FAILED in the place of SUCCEEDED, with the same consequences.)
Answer(x, status) ==
    /\ ex[x].pc = "executing" /\ code[ex[x].run] = 0
    /\ status = "killed" <=> box # ex[x].gen
    /\ box' = IF status = "timeout" THEN 0 ELSE box
    /\ MarkTerminal(ex[x].run, status) /\ Goto(x, "close")
    /\ UNCHANGED <<sess, code, lease, daily, day, owner, faults>>

\* The call to the runner fails, whatever its process does: FAILED.
CallFails(x) ==
    /\ ex[x].pc \in {"waiting", "executing"} /\ Fault
    /\ MarkTerminal(ex[x].run, "failed")
    /\ ex' = [ex EXCEPT ![x].pc = "close", ![x].broken = TRUE]
    /\ UNCHANGED <<sess, box, code, lease, daily, day, owner>>

\* The database fails the transaction of the start or of the result: the
\* exception passes through close and the row stays as it is.
CommitFails(x) ==
    /\ \/ ex[x].pc = "start"
       \/ ex[x].pc = "executing" /\ code[ex[x].run] = 0
    /\ Fault
    /\ ex' = [ex EXCEPT ![x].pc = "close", ![x].broken = TRUE, ![x].advance = FALSE]
    /\ UNCHANGED <<run, sess, box, code, lease, daily, day, owner>>

-----------------------------------------------------------------------------
(* Loss of the lease, cancellation and the confirmed kill.                  *)

\* renew_lease is refused or unreachable: accounting_lost is latched, the
\* call in flight (and no other) is cancelled, at once or by attach_in_flight,
\* and its kill begins.
LoseLease(x) ==
    /\ ex[x].beat /\ ~ex[x].lost
    /\ IF lease[ex[x].run] = [owner |-> x, fresh |-> TRUE] THEN Fault ELSE UNCHANGED faults
    /\ ex' = [ex EXCEPT ![x].lost = TRUE,
         ![x].pc = IF ex[x].pc \in {"waiting", "executing"} THEN "kill" ELSE ex[x].pc,
         ![x].pending = ex[x].pending \/ ex[x].pc \in {"waiting", "executing"},
         ![x].cause = IF ex[x].pc \in {"waiting", "executing"}
                      THEN "accounting" ELSE ex[x].cause]
    /\ UNCHANGED <<run, sess, box, code, lease, daily, day, owner>>

\* The turn is cancelled, times out or shuts down before the call: ownership
\* closes and the row follows.  A script Redis already ran is not undone.
CancelEarly(x, applied) ==
    LET r == ex[x].run  d == ex[x].day IN
    /\ r \notin TaskRuns /\ ~ex[x].cancelled
    /\ ex[x].pc \in {"admit", "reserve", "ensure", "start"}
    /\ applied => ex[x].pc \in {"admit", "reserve"}
    /\ lease' = IF applied /\ ex[x].pc = "admit" /\ CanAdmit(r)
                THEN [lease EXCEPT ![r] = [owner |-> x, fresh |-> TRUE]] ELSE lease
    /\ daily' = IF applied /\ ex[x].pc = "reserve" /\ daily[d] + Reserved <= DailyCap
                THEN [daily EXCEPT ![d] = @ + Reserved] ELSE daily
    /\ ex' = [ex EXCEPT ![x].cancelled = TRUE, ![x].advance = FALSE,
                        ![x].pc = IF ex[x].pc = "admit" THEN "row" ELSE "close"]
    /\ UNCHANGED <<run, sess, box, code, day, owner, faults>>

\* Cancelled in the call, the kill must be confirmed; in the accounting loop
\* the same ownership is handed to the chat's cleanup.
CancelCall(x) ==
    /\ ex[x].run \notin TaskRuns /\ ~ex[x].cancelled
    /\ ex[x].pc \in {"waiting", "executing", "kill"}
    /\ ex' = [ex EXCEPT ![x].cancelled = TRUE, ![x].pc = "confirm", ![x].pending = TRUE,
                        ![x].cause = IF ex[x].cause = "none"
                                     THEN "cancelled" ELSE ex[x].cause]
    /\ UNCHANGED <<run, sess, box, code, lease, daily, day, owner, faults>>

\* runner.cancel of the run's generation.
TearDown(g) ==
    /\ box' = IF box = g THEN 0 ELSE box
    /\ code' = KilledIn(g)

\* advance_generation where the session still is in the cancelled generation.
Advanced(g) ==
    IF sess.gen = g /\ g > 0 /\ sess.gen < LastAdvance
    THEN [gen |-> sess.gen + 1, status |-> "active"] ELSE sess

\* Mutant: the loop kills and forgets the row.
KillLoopKeepsRow(x) ==
    /\ ex[x].pc = "kill"
    /\ TearDown(ex[x].gen)
    /\ ex' = [ex EXCEPT ![x].pc = "close"]
    /\ UNCHANGED <<run, sess, lease, daily, day, owner, faults>>

\* The accounting loop: kill, KILLED, audit, commit; it repeats until then.
KillLoop(x) ==
    /\ ex[x].pc = "kill"
    /\ TearDown(ex[x].gen)
    /\ MarkTerminal(ex[x].run, "killed")
    /\ ex' = [ex EXCEPT ![x].pc = "close"]
    /\ UNCHANGED <<sess, lease, daily, day, owner, faults>>

\* Mutant: an unconfirmed kill gives its capacity back too.
ConfirmGivesUp(x) ==
    /\ ex[x].pc = "confirm"
    /\ ex' = [ex EXCEPT ![x].pc = "close"]
    /\ UNCHANGED <<run, sess, box, code, lease, daily, day, owner, faults>>

\* _cancel_run with the ownership: a run that is no longer active needs no
\* kill; a user's cancel also advances the session's generation.
ConfirmKill(x) ==
    LET r == ex[x].run IN
    /\ ex[x].pc = "confirm" /\ ~SessionLocked
    /\ IF run[r].status \in Active
       THEN /\ TearDown(run[r].gen)
            /\ MarkTerminal(r, "killed")
            /\ sess' = IF ex[x].cause = "accounting" THEN sess ELSE Advanced(run[r].gen)
       ELSE UNCHANGED <<box, code, run, sess>>
    /\ ex' = [ex EXCEPT ![x].pc = "close"]
    /\ UNCHANGED <<lease, daily, day, owner, faults>>

\* The kill or its transaction fails; the runner may have done its part.
KillFails(x, torn) ==
    /\ ex[x].pc \in {"kill", "confirm"} /\ Fault
    /\ IF torn THEN TearDown(ex[x].gen) ELSE UNCHANGED <<box, code>>
    /\ UNCHANGED <<run, sess, lease, daily, day, ex, owner>>

\* _cancel_run after an exit without a call in flight: the row alone.
CancelRow(x) ==
    LET r == ex[x].run IN
    /\ ex[x].pc = "row"
    /\ MarkTerminal(r, "killed") /\ Goto(x, "done")
    /\ UNCHANGED <<sess, box, code, lease, daily, day, owner, faults>>

\* AdmissionOwnership.close: the heartbeat stops, the reservation is settled
\* with what was spent and the lease released; Redis may fail either.
Close(x, spent, settles, releases) ==
    LET r == ex[x].run IN
    /\ ex[x].pc = "close"
    /\ IF settles /\ releases THEN UNCHANGED faults ELSE Fault
    /\ daily' = IF ex[x].reserved /\ settles THEN Settled(x, spent) ELSE daily
    /\ lease' = IF releases THEN Released(x, r) ELSE lease
    /\ ex' = [ex EXCEPT ![x] = [IdleExec EXCEPT !.run = r, !.day = ex[x].day,
         !.reserved = ex[x].reserved, !.settled = TRUE, !.broken = ex[x].broken,
         !.spent = IF ex[x].reserved THEN spent ELSE 0,
         !.pc = IF ex[x].cancelled /\ ~ex[x].pending THEN "row" ELSE "done"]]
    /\ UNCHANGED <<run, sess, box, code, day, owner>>

\* The process of an executor dies; nobody renews its lease any more.
Crash(x) ==
    /\ ex[x].pc \notin {"idle", "done", "dead"} /\ Fault
    /\ ex' = [ex EXCEPT ![x] = [IdleExec EXCEPT !.pc = "dead", !.run = ex[x].run,
         !.reserved = ex[x].reserved, !.day = ex[x].day, !.settled = ex[x].settled,
         !.spent = ex[x].spent]]
    /\ UNCHANGED <<run, sess, box, code, lease, daily, day, owner>>

-----------------------------------------------------------------------------
(* The owner, the session's routes and time.                                *)

\* POST /code-runs/{id}/cancel: the row is read and its generation torn down
\* (bound: one request on the run or the session).
OwnerLoad(r) ==
    /\ ~owner.asked /\ run[r].status \in Active
    /\ owner' = [owner EXCEPT !.asked = TRUE, !.pc = "write", !.run = r, !.gen = run[r].gen]
    /\ IF run[r].gen = 0 THEN UNCHANGED <<box, code>> ELSE TearDown(run[r].gen)
    /\ UNCHANGED <<run, sess, lease, daily, day, ex, faults>>

OwnerWrite ==
    /\ owner.pc = "write" /\ ~SessionLocked
    /\ MarkTerminal(owner.run, "killed")
    /\ sess' = Advanced(owner.gen)
    /\ owner' = [owner EXCEPT !.pc = "idle", !.run = None, !.gen = 0, !.ended = {owner.run}]
    /\ UNCHANGED <<box, code, lease, daily, day, ex, faults>>

\* POST .../sandbox/reset: the next generation in the place of this one.
ResetSession ==
    /\ ~owner.asked /\ owner' = [owner EXCEPT !.asked = TRUE]
    /\ sess.gen \in 1..(LastAdvance - 1) /\ ~SessionLocked
    /\ \A r \in Runs : code[r] \in {0, sess.gen}
    /\ sess' = [gen |-> sess.gen + 1, status |-> "active"]
    /\ box' = sess.gen + 1 /\ code' = KilledIn(sess.gen)
    /\ UNCHANGED <<run, lease, daily, day, ex, faults>>

\* DELETE .../sandbox.
CloseSession ==
    /\ ~owner.asked /\ owner' = [owner EXCEPT !.asked = TRUE]
    /\ sess.gen \in 1..(LastAdvance - 1) /\ sess.status # "closed" /\ ~SessionLocked
    /\ TearDown(sess.gen)
    /\ sess' = [sess EXCEPT !.status = "closed"]
    /\ UNCHANGED <<run, lease, daily, day, ex, faults>>

\* A lease reaches its expiry: nobody renews it, or its holder stalls.
Expire(r) ==
    LET x == lease[r].owner IN
    /\ lease[r].fresh
    /\ lease' = [lease EXCEPT ![r].fresh = FALSE]
    /\ IF ex[x].beat /\ ~ex[x].lost
       THEN Fault /\ ex' = [ex EXCEPT ![x].lapsed = TRUE]
       ELSE UNCHANGED <<faults, ex>>
    /\ UNCHANGED <<run, sess, box, code, daily, day, owner>>

\* UTC midnight; the key of the day before expires an hour later.
Midnight ==
    /\ day < LastDay /\ day' = day + 1
    /\ UNCHANGED <<run, sess, box, code, lease, daily, ex, owner, faults>>

KeyExpires(d) ==
    /\ d < day /\ daily[d] > 0
    /\ daily' = [daily EXCEPT ![d] = 0]
    /\ UNCHANGED <<run, sess, box, code, lease, day, ex, owner, faults>>

-----------------------------------------------------------------------------
Progress(x) ==
    \/ Acquire(x) \/ Reserve(x) \/ Ensure(x) \/ Start(x) \/ Execute(x)
    \/ \E status \in {"succeeded", "timeout", "killed"} : Answer(x, status)
    \/ KillLoop(x) \/ ConfirmKill(x) \/ CancelRow(x)
    \/ \E spent \in 0..Reserved : Close(x, spent, TRUE, TRUE)

Fails(x) ==
    \/ \E applied \in BOOLEAN : AcquireFails(x, applied) \/ ReserveFails(x, applied)
    \/ \E status \in {"denied", "failed"} : EnsureFails(x, status)
    \/ CallFails(x) \/ CommitFails(x) \/ Crash(x)
    \/ \E torn \in BOOLEAN : KillFails(x, torn)
    \/ \E settles, releases \in BOOLEAN : Close(x, Reserved, settles, releases)

Next ==
    \/ \E x \in Execs, r \in Runs : Submit(x, r) \/ Deliver(x, r)
    \/ \E x \in Execs : \/ DenyByPolicy(x) \/ Progress(x) \/ Fails(x)
                        \/ LoseLease(x) \/ CancelCall(x)
                        \/ \E applied \in BOOLEAN : CancelEarly(x, applied)
    \/ \E r \in Runs : CodeEnds(r) \/ OwnerLoad(r) \/ Expire(r)
    \/ OwnerWrite \/ ResetSession \/ CloseSession \/ Midnight
    \/ \E d \in 0..LastDay : KeyExpires(d)

Spec == Init /\ [][Next]_vars

\* Executors take their steps, processes end at their deadline.
Fairness ==
    /\ \A x \in Execs : WF_vars(Progress(x))
    /\ \A r \in Runs : WF_vars(CodeEnds(r))

FairSpec == Spec /\ Fairness
-----------------------------------------------------------------------------
\* Executions the tenant's cap has to cover: in a call to the runner, or in an
\* unconfirmed kill, of an owner that neither died nor was cut off from Redis.
Admitted ==
    {x \in Execs : /\ ex[x].pc \in {"start", "waiting", "executing", "kill", "confirm"}
                   /\ ~ex[x].lost /\ ~ex[x].lapsed}

\* Executions in progress, unconfirmed kills included, never exceed the
\* tenant's concurrency, whoever expires, releases or redelivers meanwhile.
WithinConcurrency == Cardinality(Admitted) <= MaxConcurrency

\* What the reservations of a day still stand for.
Charge(x) == IF ex[x].settled THEN ex[x].spent ELSE Reserved
Reservations == {x \in Execs : ex[x].reserved /\ ex[x].day = day}

\* The counter of the current day covers every reservation (its spent part
\* once settled) and stays within the cap.
BudgetHolds ==
    /\ daily[day] <= DailyCap
    /\ daily[day] >= MapThenSumSet(Charge, Reservations)

\* An execution that died, whose call or transaction failed, or whose lease was
\* lost or expired under it.
CutOff(x) == ex[x].pc = "dead" \/ ex[x].broken \/ ex[x].lost \/ ex[x].lapsed

\* A lease is only given back when the run's process has stopped, unless the
\* call to the runner failed, the owner's request ended the row under it, or
\* the process is that of another delivery of the same task which was cut off.
ReleaseAfterStop ==
    [][\A x \in Execs, r \in Runs :
         (lease[r] = [owner |-> x, fresh |-> TRUE] /\ lease'[r] = NoLease
            /\ ~ex[x].broken /\ r \notin owner.ended
            /\ \A y \in Execs \ {x} : ex[y].run = r => ~CutOff(y))
            => code[r] = 0]_vars

\* A run that was taken up reaches a terminal status, unless its executor
\* died or the database refused its transaction.
RunsSettle ==
    \A r \in Runs :
       (\E x \in Execs : ex[x].run = r /\ ex[x].pc = "admit") ~>
          \/ run[r].status \in Terminal
          \/ \E x \in Execs : ex[x].run = r /\ (ex[x].pc = "dead" \/ ex[x].broken)

\* The accounts of the tenant hold at every moment: the leases
\* (WithinConcurrency) and the day's budget (BudgetHolds).
AccountsHold == TypeOK /\ WithinConcurrency /\ BudgetHolds

=============================================================================
