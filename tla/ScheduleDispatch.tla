-------------------------- MODULE ScheduleDispatch --------------------------
(***************************************************************************)
(* The schedules of one tenant: their rows in Postgres, the RedBeat        *)
(* entries derived from them in Redis, Beat's fires, the workers that      *)
(* dispatch a fire, the owner's requests, and the runs of the schedules.   *)
(*                                                                         *)
(* A run is seen through RunContract: it is active (queued or running)     *)
(* from its creation to its terminal, and an escalated run becomes active  *)
(* again when its owner reopens it.                                        *)
(*                                                                         *)
(* A request or a dispatch reads the row with a plain SELECT and writes it *)
(* later through the ORM session, which keeps the values it first loaded   *)
(* and updates only the columns whose new value differs from those.        *)
(* The next_run_at of a row is written and shown, and never read by a      *)
(* guard, so it is left out; so are last_run_at and last_status.           *)
(***************************************************************************)
EXTENDS Naturals, FiniteSets

CONSTANTS
    Schedules,        \* schedules of the tenant
    Dispatchers,      \* Celery worker processes that take fire_schedule messages
    Callers,          \* concurrent API requests
    Runs,             \* bound: runs that are remembered at one time
    MaxInFlight,      \* settings.run_max_in_flight_per_tenant
    MaxFireRetries,   \* max_retries of fire_schedule
    MaxPending,       \* bound: equal fire messages that wait at one time
    NoopPatches,      \* TRUE: a PATCH may repeat the values the row already has
    RateLimited,      \* TRUE: the tenant may be over its enqueue rate
    Faults,           \* TRUE: a transaction or Redis may fail, a worker may die, the
                      \* assistant may be gone, a run's message may be wasted
    LossyBroker       \* TRUE: the publish of a new run may fail

ASSUME RunsAssumption == IsFiniteSet(Runs)
ASSUME DispatchersAssumption == IsFiniteSet(Dispatchers) /\ Dispatchers # {}
ASSUME CapAssumption == MaxInFlight \in Nat \ {0}
ASSUME FireAssumption == MaxFireRetries \in Nat /\ MaxPending \in Nat \ {0}
ASSUME BooleansAssumption ==
    /\ NoopPatches \in BOOLEAN /\ RateLimited \in BOOLEAN
    /\ Faults \in BOOLEAN /\ LossyBroker \in BOOLEAN

VARIABLES
    life,     \* life[s]: "new" before creation, "live", "deleted"
    skip,     \* schedules.overlap_policy is `skip` (otherwise `queue` or `allow`)
    enabled,  \* schedules.enabled
    entry,    \* the RedBeat entry of s is in Redis
    fires,    \* fires[s][k]: fire_schedule messages of s whose retries header is k
    boot,     \* schedules the running boot reconcile has read and not yet projected
    run,      \* run[r]: what the runs table holds in slot r
    pc,       \* pc[d]: where dispatcher d is in _dispatch_fire
    job,      \* job[d]: the message d holds and what it loaded
    request   \* request[c]: the request c serves and what it loaded

rowVars == <<life, skip, enabled>>
vars == <<rowVars, entry, fires, boot, run, pc, job, request>>

-----------------------------------------------------------------------------
NoSchedule == "none"
NoSlot == "none"

ASSUME SentinelAssumption == NoSchedule \notin Schedules /\ NoSlot \notin Runs

\* A run that is queued or running is "unsent" until its message is published, then
\* "active", or "stranded" when it is queued, was never claimed and has no message left.
\* `by` is who put it on the queue: a fire, or the owner.
RunRecords == [schedule : Schedules \cup {NoSchedule},
               by : {"fire", "owner"},
               status : {"unsent", "active", "stranded", "escalated"}]

NoRun == [status |-> "none"]

NoJob == [schedule |-> NoSchedule]
Jobs == [schedule : Schedules, retries : 0..MaxFireRetries, run : Runs \cup {NoSlot}]

NoRequest == [op |-> "none"]

\* The requests; the PATCHes among them set enabled or other columns only ("edit").
Patches == {"edit", "enable", "disable"}
Ops == {"pause", "resume", "delete", "run_now"} \cup Patches

\* A request and what it loaded; "project" is a PATCH that has only to project.
Loads == [op : Ops \cup {"project"}, schedule : Schedules, enabled : BOOLEAN]

TypeOK ==
    /\ life \in [Schedules -> {"new", "live", "deleted"}]
    /\ skip \in [Schedules -> BOOLEAN]
    /\ enabled \in [Schedules -> BOOLEAN]
    /\ entry \in [Schedules -> BOOLEAN]
    /\ fires \in [Schedules -> [0..MaxFireRetries -> 0..MaxPending]]
    /\ boot \subseteq Schedules
    /\ run \in [Runs -> RunRecords \cup {NoRun}]
    /\ pc \in [Dispatchers -> {"idle", "count", "advance", "enqueue", "publish"}]
    /\ job \in [Dispatchers -> Jobs \cup {NoJob}]
    /\ request \in [Callers -> Loads \cup {NoRequest}]
    /\ \A d \in Dispatchers : pc[d] = "idle" <=> job[d] = NoJob

Init ==
    /\ life = [s \in Schedules |-> "new"]
    /\ skip = [s \in Schedules |-> FALSE]
    /\ enabled = [s \in Schedules |-> FALSE]
    /\ entry = [s \in Schedules |-> FALSE]
    /\ fires = [s \in Schedules |-> [k \in 0..MaxFireRetries |-> 0]]
    /\ boot = {}
    /\ run = [r \in Runs |-> NoRun]
    /\ pc = [d \in Dispatchers |-> "idle"]
    /\ job = [d \in Dispatchers |-> NoJob]
    /\ request = [c \in Callers |-> NoRequest]

Live(s) == life[s] = "live"

\* count_active_for_schedule: runs of s that are queued or running.
ActiveRuns(s) == {r \in Runs : /\ run[r] # NoRun
                               /\ run[r].schedule = s
                               /\ run[r].status # "escalated"}

-----------------------------------------------------------------------------
(* Writing a row, and projecting it into Redis *)

\* RedBeatScheduleProjector: best effort, so Redis may keep what it had.
Project(s, present) ==
    \/ entry' = [entry EXCEPT ![s] = present]
    \/ Faults /\ UNCHANGED entry

\* The request projects before its transaction commits; the commit may still fail.
CommitFails(s, present) ==
    /\ Faults
    /\ Project(s, present)
    /\ UNCHANGED <<rowVars, run>>

\* enqueue_manual_run: a new queued run of s in slot r.
Insert(r, s, by, queued) ==
    /\ run[r] = NoRun
    /\ run' = [run EXCEPT ![r] = [schedule |-> s, by |-> by, status |-> queued]]

\* What an after-commit enqueue_run makes of a queued run: a failed publish is logged
\* and the run stays queued without a message.
Published == {"active"} \cup (IF LossyBroker THEN {"stranded"} ELSE {})

-----------------------------------------------------------------------------
(* SchedulesService *)

\* POST /schedules, enabled or paused.  When the commit fails the projected entry stays,
\* of a schedule that never was.
Create(s) ==
    /\ life[s] = "new"
    /\ skip' \in {[skip EXCEPT ![s] = b] : b \in BOOLEAN}
    /\ \E e \in BOOLEAN :
         /\ enabled' = [enabled EXCEPT ![s] = e]
         /\ Project(s, e)
    /\ \/ life' = [life EXCEPT ![s] = "live"]
       \/ Faults /\ life' = [life EXCEPT ![s] = "deleted"]
    /\ UNCHANGED <<fires, boot, run, pc, job, request>>

\* _load_managed_or_404 and the checks that return or raise at once: pausing a paused
\* schedule, resuming an enabled one, running a paused one.
LoadManaged(c) ==
    /\ request[c] = NoRequest
    /\ \E l \in Loads :
         /\ l.op \in Ops
         /\ Live(l.schedule)
         /\ l.enabled = enabled[l.schedule]
         /\ l.op \in {"pause", "run_now"} => l.enabled
         /\ l.op = "resume" => ~l.enabled
         /\ request' = [request EXCEPT ![c] = l]
    /\ UNCHANGED <<rowVars, entry, fires, boot, run, pc, job>>

Reply(c) == request' = [request EXCEPT ![c] = NoRequest]

\* The row is gone when the write re-reads it: 404.
WriteMissing(c) ==
    /\ ~Live(request[c].schedule)
    /\ Reply(c)
    /\ UNCHANGED <<rowVars, entry, fires, boot, run, pc, job>>

\* pause: enabled=false, entry removed.
Pause(c) ==
    LET l == request[c] IN
    /\ l.op = "pause" /\ Live(l.schedule)
    /\ \/ /\ enabled' = [enabled EXCEPT ![l.schedule] = FALSE]
          /\ Project(l.schedule, FALSE)
          /\ UNCHANGED <<life, skip, run>>
       \/ CommitFails(l.schedule, FALSE)
    /\ Reply(c)
    /\ UNCHANGED <<fires, boot, pc, job>>

\* resume: enabled=true, entry derived again.
Resume(c) ==
    LET l == request[c] IN
    /\ l.op = "resume" /\ Live(l.schedule)
    /\ \/ /\ enabled' = [enabled EXCEPT ![l.schedule] = TRUE]
          /\ Project(l.schedule, TRUE)
          /\ UNCHANGED <<life, skip, run>>
       \/ CommitFails(l.schedule, TRUE)
    /\ Reply(c)
    /\ UNCHANGED <<fires, boot, pc, job>>

\* new_enabled: the value the PATCH believes in.
NewEnabled(l) == IF l.op \in {"enable", "disable"} THEN l.op = "enable" ELSE l.enabled

\* Mutant: what the request believes is projected, not the refreshed row.
RefreshedEnabledLoaded(l) == NewEnabled(l)

\* The enabled of the refreshed row: written when it differs from the loaded value.
RefreshedEnabled(l) == IF NewEnabled(l) # l.enabled THEN NewEnabled(l) ELSE enabled[l.schedule]

\* PATCH with something to write: the refreshed row is projected under the row lock.
Update(c) ==
    LET l == request[c] IN
    /\ l.op \in Patches /\ Live(l.schedule)
    /\ \/ /\ enabled' = [enabled EXCEPT ![l.schedule] =
                            IF NewEnabled(l) # l.enabled THEN NewEnabled(l) ELSE @]
          /\ Project(l.schedule, RefreshedEnabled(l))
          /\ UNCHANGED <<life, skip, run>>
       \/ CommitFails(l.schedule, RefreshedEnabled(l))
    /\ Reply(c)
    /\ UNCHANGED <<fires, boot, pc, job>>

\* PATCH that repeats the loaded values: no UPDATE, so no row lock.  The row is refreshed...
UpdateNothing(c) ==
    LET l == request[c] IN
    /\ NoopPatches
    /\ l.op \in Patches /\ Live(l.schedule)
    /\ NewEnabled(l) = l.enabled
    /\ request' = [request EXCEPT ![c].op = "project", ![c].enabled = enabled[l.schedule]]
    /\ UNCHANGED <<rowVars, entry, fires, boot, run, pc, job>>

\* ...and what the refresh saw is projected, whatever was committed since.
ProjectRefreshed(c) ==
    /\ request[c].op = "project"
    /\ Project(request[c].schedule, request[c].enabled)
    /\ Reply(c)
    /\ UNCHANGED <<rowVars, fires, boot, run, pc, job>>

\* delete: the row goes, its runs stay with schedule_id NULL (ON DELETE SET NULL).
Delete(c) ==
    LET s == request[c].schedule IN
    /\ request[c].op = "delete" /\ Live(s)
    /\ \/ /\ life' = [life EXCEPT ![s] = "deleted"]
          /\ run' = [r \in Runs |-> IF run[r] # NoRun /\ run[r].schedule = s
                                    THEN [run[r] EXCEPT !.schedule = NoSchedule] ELSE run[r]]
          /\ Project(s, FALSE)
          /\ UNCHANGED <<skip, enabled>>
       \/ CommitFails(s, FALSE)
    /\ Reply(c)
    /\ UNCHANGED <<fires, boot, pc, job>>

\* run_now: a manual run that passes no gate; its publish follows the commit.  Without a
\* runnable assistant, or a commit, there is none.
RunNow(c) ==
    LET s == request[c].schedule IN
    /\ request[c].op = "run_now" /\ Live(s)
    /\ \/ \E r \in Runs, q \in Published : Insert(r, s, "owner", q)
       \/ Faults /\ UNCHANGED run
    /\ Reply(c)
    /\ UNCHANGED <<rowVars, entry, fires, boot, pc, job>>

-----------------------------------------------------------------------------
(* Beat: RedBeat entries, fires, boot reconcile *)

\* Beat fires an entry: one fire_schedule message.
Tick(s) ==
    /\ entry[s]
    /\ fires[s][0] < MaxPending
    /\ fires' = [fires EXCEPT ![s][0] = @ + 1]
    /\ UNCHANGED <<rowVars, entry, boot, run, pc, job, request>>

\* Redis loses the derived entries.
LoseEntries ==
    /\ Faults
    /\ entry' = [s \in Schedules |-> FALSE]
    /\ UNCHANGED <<rowVars, fires, boot, run, pc, job, request>>

\* _reconcile_from_postgres: read every enabled schedule...
BootRead ==
    /\ boot = {}
    /\ boot' = {s \in Schedules : Live(s) /\ enabled[s]}
    /\ UNCHANGED <<rowVars, entry, fires, run, pc, job, request>>

\* ...then project them one by one, as they were read; a failure aborts the boot.
BootProject(s) ==
    /\ s \in boot
    /\ \/ entry' = [entry EXCEPT ![s] = TRUE] /\ boot' = boot \ {s}
       \/ Faults /\ boot' = {} /\ UNCHANGED entry
    /\ UNCHANGED <<rowVars, fires, run, pc, job, request>>

-----------------------------------------------------------------------------
(* _dispatch_fire and fire_schedule *)

Done(d) ==
    /\ pc' = [pc EXCEPT ![d] = "idle"]
    /\ job' = [job EXCEPT ![d] = NoJob]

Goto(d, l) == pc' = [pc EXCEPT ![d] = l]

Take(s, k) ==
    /\ fires[s][k] > 0
    /\ fires' = [fires EXCEPT ![s][k] = @ - 1]

\* The schedule is live and enabled.
LoadFire(d) ==
    /\ pc[d] = "idle"
    /\ \E s \in Schedules, k \in 0..MaxFireRetries :
         /\ Live(s) /\ enabled[s]
         /\ Take(s, k)
         /\ job' = [job EXCEPT ![d] = [schedule |-> s, retries |-> k, run |-> NoSlot]]
    /\ Goto(d, "count")
    /\ UNCHANGED <<rowVars, entry, boot, run, request>>

\* Paused or deleted since: `no_schedule`.
IgnoreFire(d) ==
    /\ pc[d] = "idle"
    /\ \E s \in Schedules, k \in 0..MaxFireRetries : ~(Live(s) /\ enabled[s]) /\ Take(s, k)
    /\ UNCHANGED <<rowVars, entry, boot, run, pc, job, request>>

\* Mutants: gates that let one run too many pass; a cap that is off by one.
LateGates(s) == /\ skip[s] => Cardinality(ActiveRuns(s)) <= 1
                /\ Cardinality(ActiveRuns(s)) <= MaxInFlight
TightCapGate(s) == /\ skip[s] => ActiveRuns(s) = {}
                   /\ Cardinality(ActiveRuns(s)) + 1 < MaxInFlight

\* The overlap gate and the in-flight cap, both over the count of this schedule's runs.
GatesOpen(s) == /\ skip[s] => ActiveRuns(s) = {}
                /\ Cardinality(ActiveRuns(s)) < MaxInFlight

\* Count, gates and rate limiter decide: enqueue, or skip / defer this fire.
Decide(d) ==
    /\ pc[d] = "count"
    /\ \/ GatesOpen(job[d].schedule) /\ Goto(d, "enqueue")
       \/ (RateLimited \/ ~GatesOpen(job[d].schedule)) /\ Goto(d, "advance")
    /\ UNCHANGED <<rowVars, entry, fires, boot, run, job, request>>

\* skipped_overlap, deferred_concurrency, deferred_rate: advance_next_run only.
Advance(d) ==
    /\ pc[d] = "advance"
    /\ Done(d)
    /\ UNCHANGED <<rowVars, entry, fires, boot, run, request>>

\* The run row and record_fire commit together; the publish is still to come.
Enqueue(d) ==
    LET s == job[d].schedule IN
    /\ pc[d] = "enqueue"
    /\ Live(s)
    /\ \E r \in Runs : /\ Insert(r, s, "fire", "unsent")
                       /\ job' = [job EXCEPT ![d].run = r]
    /\ Goto(d, "publish")
    /\ UNCHANGED <<rowVars, entry, fires, boot, request>>

\* enqueue_manual_run rejects: the assistant is gone or unpublished; record_fire only.
AssistantUnavailable(d) ==
    /\ Faults
    /\ pc[d] = "enqueue"
    /\ Done(d)
    /\ UNCHANGED <<rowVars, entry, fires, boot, run, request>>

\* The transaction raises and rolls back: a database fault, or the schedule was deleted
\* (runs.schedule_id is a foreign key).  self.retry, up to the cap.
DispatchRaises(d) ==
    LET s == job[d].schedule  k == job[d].retries IN
    /\ pc[d] \in {"count", "advance", "enqueue"}
    /\ Faults \/ (pc[d] = "enqueue" /\ ~Live(s))
    /\ \/ /\ k < MaxFireRetries
          /\ fires[s][k + 1] < MaxPending
          /\ fires' = [fires EXCEPT ![s][k + 1] = @ + 1]
       \/ k = MaxFireRetries /\ UNCHANGED fires
    /\ Done(d)
    /\ UNCHANGED <<rowVars, entry, boot, run, request>>

\* enqueue_run after the commit.
Publish(d) ==
    /\ pc[d] = "publish"
    /\ \E q \in Published : run' = [run EXCEPT ![job[d].run].status = q]
    /\ Done(d)
    /\ UNCHANGED <<rowVars, entry, fires, boot, request>>

\* The worker dies and, with acks_late, the message comes again.  A run whose publish
\* was still to come has no message.
Crash(d) ==
    LET s == job[d].schedule  k == job[d].retries IN
    /\ Faults
    /\ pc[d] # "idle"
    /\ fires[s][k] < MaxPending
    /\ fires' = [fires EXCEPT ![s][k] = @ + 1]
    /\ IF pc[d] = "publish"
       THEN run' = [run EXCEPT ![job[d].run].status = "stranded"]
       ELSE UNCHANGED run
    /\ Done(d)
    /\ UNCHANGED <<rowVars, entry, boot, request>>

-----------------------------------------------------------------------------
(* The runs, as RunContract describes them *)

\* The run reaches a terminal; a succeeded or failed one is forgotten here, an escalated
\* one waits for its owner (while there is room for another run).
RunEnds(r) ==
    /\ run[r] # NoRun /\ run[r].status = "active"
    /\ \/ run' = [run EXCEPT ![r] = NoRun]
       \/ /\ \E q \in Runs : q # r /\ run[q] = NoRun
          /\ run' = [run EXCEPT ![r].status = "escalated"]
    /\ UNCHANGED <<rowVars, entry, fires, boot, pc, job, request>>

\* The message of an unclaimed run is used up without a claim: the worker's first read
\* raised, and neither its handler nor the reaper ends a run nobody claimed.
RunStrands(r) ==
    /\ Faults
    /\ run[r] # NoRun /\ run[r].status = "active"
    /\ run' = [run EXCEPT ![r].status = "stranded"]
    /\ UNCHANGED <<rowVars, entry, fires, boot, pc, job, request>>

\* The owner resumes or reroutes an escalated run, or cancels it.
OwnerDecides(r) ==
    /\ run[r] # NoRun /\ run[r].status = "escalated"
    /\ \/ \E q \in Published : run' = [run EXCEPT ![r].status = q, ![r].by = "owner"]
       \/ run' = [run EXCEPT ![r] = NoRun]
    /\ UNCHANGED <<rowVars, entry, fires, boot, pc, job, request>>

-----------------------------------------------------------------------------
\* What a request does with the schedule it loaded, which may be gone by now.
WriteLoaded(c) ==
    /\ request[c].op \in Ops
    /\ \/ WriteMissing(c)
       \/ Pause(c) \/ Resume(c) \/ Delete(c) \/ RunNow(c)
       \/ Update(c) \/ UpdateNothing(c)

RequestStep(c) == LoadManaged(c) \/ WriteLoaded(c) \/ ProjectRefreshed(c)

DispatchStep(d) ==
    \/ LoadFire(d) \/ IgnoreFire(d) \/ Decide(d) \/ Advance(d) \/ Enqueue(d)
    \/ AssistantUnavailable(d) \/ DispatchRaises(d) \/ Publish(d) \/ Crash(d)

Next ==
    \/ \E s \in Schedules : Create(s) \/ Tick(s) \/ BootProject(s)
    \/ LoseEntries \/ BootRead
    \/ \E c \in Callers : RequestStep(c)
    \/ \E d \in Dispatchers : DispatchStep(d)
    \/ \E r \in Runs : RunEnds(r) \/ RunStrands(r) \/ OwnerDecides(r)

Spec == Init /\ [][Next]_vars

\* Beat keeps firing, workers keep taking messages and finishing what they took, and a
\* run that has a message or a claim ends (ClaimedRunTerminates of RunLifecycle).
Fairness ==
    /\ \A s \in Schedules : WF_vars(Tick(s))
    /\ \A d \in Dispatchers :
         /\ WF_vars(LoadFire(d) \/ IgnoreFire(d))
         /\ WF_vars(Decide(d)) /\ WF_vars(Advance(d))
         /\ WF_vars(Enqueue(d)) /\ WF_vars(Publish(d))
    /\ \A r \in Runs : WF_vars(RunEnds(r))

FairSpec == Spec /\ Fairness

-----------------------------------------------------------------------------
(* Properties *)

FiredRuns(s) == {r \in ActiveRuns(s) : run[r].by = "fire"}

\* How many runs the gates of _dispatch_fire let a schedule have: one (skip), or the cap.
Limit(s) == IF skip[s] THEN 1 ELSE MaxInFlight

\* _dispatch_fire counts and inserts in two steps, so every other dispatcher may have
\* passed the gates on the same count: the active runs that fires put on the queue exceed
\* the limit by at most the other dispatchers, whatever retries, redeliveries, crashes
\* between commit and publish, runs by hand, edits and deletions happen.
FiresDoNotStack ==
    \A s \in Schedules :
        Cardinality(FiredRuns(s)) <= Limit(s) + (Cardinality(Dispatchers) - 1)

\* What the docstring of _dispatch_fire and ADR-0015 say of a schedule that skips
\* overlaps: a slow run never stacks up.
SkipNeverStacks == \A s \in Schedules : skip[s] => Cardinality(FiredRuns(s)) <= 1

\* SchedulesService and the projector: while Redis answers and commits succeed, and
\* every PATCH changes something, an enabled schedule has its RedBeat entry, however
\* requests and boots interleave.
EnabledIsProjected == \A s \in Schedules : Live(s) /\ enabled[s] => entry[s]

\* fire_schedule: an enabled, projected schedule keeps firing, whichever dispatchers
\* take its messages and however its runs end or escalate: it enqueues a run again and
\* again, as long as its owner puts no run of it on the queue and none of its runs is
\* left queued without a message.
KeepsFiring ==
    \A s \in Schedules :
        <>[](/\ Live(s) /\ enabled[s] /\ entry[s]
             /\ \A r \in ActiveRuns(s) : run[r].by = "fire" /\ run[r].status # "stranded")
        => []<>(\E d \in Dispatchers : pc[d] = "publish" /\ job[d].schedule = s)

=============================================================================
