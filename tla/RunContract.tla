----------------------------- MODULE RunContract -----------------------------
(***************************************************************************)
(* What the run machinery promises about one run, without workers, broker, *)
(* clock or transactions: its status, whether a worker has claimed the     *)
(* current execution, and the run.started / run.finished events of its     *)
(* audit trail.  RunLifecycle implements it; ScheduleDispatch relies on it *)
(* for the runs a schedule fires.                                          *)
(***************************************************************************)
EXTENDS Naturals

VARIABLES
    status,    \* the run's status
    claimed,   \* the current execution has been claimed by a worker
    started,   \* run.started events
    finished   \* run.finished events

vars == <<status, claimed, started, finished>>

Terminals == {"succeeded", "failed", "escalated"}

Init == status = "queued" /\ claimed = FALSE /\ started = 0 /\ finished = 0

\* A worker claims the queued run.  An execution is announced once, however often
\* it is retried.
Start ==
    /\ status = "queued"
    /\ status' = "running"
    /\ claimed' = TRUE
    /\ started' = IF claimed THEN started ELSE started + 1
    /\ UNCHANGED finished

\* A worker claims the run and finds that it cannot be executed at all.
Reject ==
    /\ status = "queued"
    /\ status' = "failed"
    /\ claimed' = TRUE
    /\ finished' = finished + 1
    /\ UNCHANGED started

\* A transient fault: the claim goes back to the queue.
HandBack ==
    /\ status = "running"
    /\ status' = "queued"
    /\ UNCHANGED <<claimed, started, finished>>

\* The claimed execution ends: with its outcome, or failed by whoever finds it
\* abandoned.  A run nobody claimed is never ended.
Conclude ==
    /\ claimed
    /\ \/ status = "running" /\ status' \in Terminals
       \/ status = "queued" /\ status' = "failed"
    /\ finished' = finished + 1
    /\ UNCHANGED <<claimed, started>>

\* The owner of an escalated run puts it back on the queue, as a new execution.
Reopen ==
    /\ status = "escalated"
    /\ status' = "queued"
    /\ claimed' = FALSE
    /\ UNCHANGED <<started, finished>>

\* The owner of an escalated run closes it.
Close ==
    /\ status = "escalated"
    /\ status' = "failed"
    /\ UNCHANGED <<claimed, started, finished>>

Next == Start \/ Reject \/ HandBack \/ Conclude \/ Reopen \/ Close

Spec == Init /\ [][Next]_vars
=============================================================================
