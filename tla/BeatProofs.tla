----------------------------- MODULE BeatProofs -----------------------------
(***************************************************************************)
(* Proofs about the two components Celery beat drives.                      *)
(*                                                                          *)
(* ScheduleDispatch, for any number of schedules, callers and run slots,    *)
(* any number of dispatchers, any cap and any retry limit: the active runs that the fires of a      *)
(* schedule put on the queue exceed its limit by at most the dispatchers    *)
(* that passed the gates on the same count, and while Redis answers an      *)
(* enabled schedule has its entry.                                          *)
(*                                                                          *)
(* DirectUpload, for any number of requests and parts and any bounds: an    *)
(* upload is whole, and a settled session never opens again.  The invariant *)
(* follows the row lock.  Boundary says what the transaction that holds it  *)
(* has established on its way to the provider and back; Ends says what a    *)
(* row that no transaction holds can rely on, so that a rollback at any     *)
(* point leaves it true.                                                    *)
(***************************************************************************)
EXTENDS ScheduleDispatch, DirectUpload, FiniteSetTheorems, TLAPS

\* A dispatcher that has committed a run and not yet published it holds that
\* run's slot alone, and the run is still there, unsent.
SlotHeld ==
    /\ \A d \in Dispatchers : pc[d] = "publish" =>
          /\ job[d].run \in Runs
          /\ run[job[d].run] # NoRun
          /\ run[job[d].run].status = "unsent"
    /\ \A d, e \in Dispatchers :
          pc[d] = "publish" /\ pc[e] = "publish" /\ job[d].run = job[e].run => d = e

(***************************************************************************)
(* Type correctness.                                                       *)
(***************************************************************************)

\* A slot, a job and a request are a record or empty, never both.
LEMMA Sentinels ==
    /\ NoRun \notin RunRecords
    /\ NoJob \notin Jobs
    /\ NoRequest \notin Loads
<1>1. \A x \in RunRecords : x.status # "none"
  BY DEF RunRecords
<1>2. \A x \in Jobs : x.schedule # "none"
  BY SentinelAssumption DEF Jobs, NoSchedule
<1>3. \A x \in Loads : x.op # "none"
  BY DEF Loads, Ops, Patches
<1> QED
  BY <1>1, <1>2, <1>3 DEF NoRun, NoJob, NoRequest, NoSchedule

\* What a step does to the run in slot r: it leaves the others, and empties the slot,
\* fills an empty one, or gives the run there a status and a reason.
Others(r) == \A q \in Runs \ {r} : run'[q] = run[q]
Emptied(r) == Others(r) /\ run'[r] = NoRun
Filled(r, s, by, q) ==
    Others(r) /\ run[r] = NoRun /\ run'[r] = [schedule |-> s, by |-> by, status |-> q]
Marked(r, by, q) ==
    /\ Others(r)
    /\ run[r] \in RunRecords
    /\ run'[r] = [schedule |-> run[r].schedule, by |-> by, status |-> q]

Statuses == {"unsent", "active", "stranded", "escalated"}

\* The writes of the code have these shapes, and keep the runs well typed.
LEMMA RunSteps ==
    ASSUME TypeOK, NEW r \in Runs
    PROVE  /\ run' = [run EXCEPT ![r] = NoRun] =>
                Emptied(r) /\ run' \in [Runs -> RunRecords \cup {NoRun}]
           /\ \A s \in Schedules, by \in {"fire", "owner"}, q \in Statuses :
                Insert(r, s, by, q) =>
                  Filled(r, s, by, q) /\ run' \in [Runs -> RunRecords \cup {NoRun}]
           /\ run[r] # NoRun => \A q \in Statuses :
                /\ run' = [run EXCEPT ![r].status = q] =>
                     Marked(r, run[r].by, q) /\ run' \in [Runs -> RunRecords \cup {NoRun}]
                /\ run' = [run EXCEPT ![r].status = q, ![r].by = "owner"] =>
                     Marked(r, "owner", q) /\ run' \in [Runs -> RunRecords \cup {NoRun}]
<1>0. run \in [Runs -> RunRecords \cup {NoRun}]
  BY DEF TypeOK
<1>1. run' = [run EXCEPT ![r] = NoRun] =>
        Emptied(r) /\ run' \in [Runs -> RunRecords \cup {NoRun}]
  BY <1>0 DEF Emptied, Others
<1>2. ASSUME NEW s \in Schedules, NEW by \in {"fire", "owner"}, NEW q \in Statuses,
             Insert(r, s, by, q)
      PROVE  Filled(r, s, by, q) /\ run' \in [Runs -> RunRecords \cup {NoRun}]
  <2> DEFINE x == [schedule |-> s, by |-> by, status |-> q]
  <2>1. x \in RunRecords
    BY DEF RunRecords, Statuses
  <2>2. run[r] = NoRun /\ run' = [run EXCEPT ![r] = x]
    BY <1>2 DEF Insert
  <2>3. Filled(r, s, by, q)
    BY <1>0, <2>2 DEF Filled, Others
  <2> HIDE DEF x
  <2> QED
    BY <1>0, <2>1, <2>2, <2>3
<1>3. ASSUME run[r] # NoRun, NEW q \in Statuses, NEW by \in {"fire", "owner", "owner"},
             NEW x, x \in RunRecords,
             x = [schedule |-> run[r].schedule, by |-> by, status |-> q],
             run' = [run EXCEPT ![r] = x]
      PROVE  Marked(r, by, q) /\ run' \in [Runs -> RunRecords \cup {NoRun}]
  <2>1. run[r] \in RunRecords /\ run'[r] = x /\ Others(r)
    BY <1>0, <1>3 DEF Others
  <2>2. run' \in [Runs -> RunRecords \cup {NoRun}]
    BY <1>0, <1>3
  <2> QED
    BY <1>3, <2>1, <2>2 DEF Marked
<1>4. ASSUME run[r] # NoRun, NEW q \in Statuses, run' = [run EXCEPT ![r].status = q]
      PROVE  Marked(r, run[r].by, q) /\ run' \in [Runs -> RunRecords \cup {NoRun}]
  <2> DEFINE x == [run[r] EXCEPT !.status = q]
  <2>1. run[r] \in RunRecords
    BY <1>0, <1>4
  <2>2. /\ x \in RunRecords /\ x = [schedule |-> run[r].schedule, by |-> run[r].by, status |-> q]
        /\ run[r].by \in {"fire", "owner", "owner"}
    BY <2>1 DEF RunRecords, Statuses
  <2>3. run' = [run EXCEPT ![r] = x]
    BY <1>4
  <2> HIDE DEF x
  <2> QED
    BY <1>3, <1>4, <2>2, <2>3
<1>5. ASSUME run[r] # NoRun, NEW q \in Statuses,
             run' = [run EXCEPT ![r].status = q, ![r].by = "owner"]
      PROVE  Marked(r, "owner", q) /\ run' \in [Runs -> RunRecords \cup {NoRun}]
  <2> DEFINE x == [run[r] EXCEPT !.status = q, !.by = "owner"]
  <2>1. run[r] \in RunRecords
    BY <1>0, <1>5
  <2> DEFINE y == [run[r] EXCEPT !.status = q]
  <2>4. y \in RunRecords /\ y = [schedule |-> run[r].schedule, by |-> run[r].by, status |-> q]
    BY <2>1 DEF RunRecords, Statuses
  <2>5. x = [y EXCEPT !.by = "owner"]
    OBVIOUS
  <2> HIDE DEF x, y
  <2>2. x \in RunRecords /\ x = [schedule |-> run[r].schedule, by |-> "owner", status |-> q]
    BY <2>4, <2>5 DEF RunRecords
  <2>3. run' = [run EXCEPT ![r] = x]
    BY <1>0, <1>5 DEF x
  <2> QED
    BY <1>3, <1>5, <2>2, <2>3
<1> QED
  BY <1>1, <1>2, <1>4, <1>5

\* One message more or less of a fire.
LEMMA FireWrites ==
    ASSUME TypeOK, NEW s \in Schedules, NEW k \in 0..MaxFireRetries
    PROVE  /\ fires[s][k] < MaxPending =>
                [fires EXCEPT ![s][k] = @ + 1]
                  \in [Schedules -> [0..MaxFireRetries -> 0..MaxPending]]
           /\ fires[s][k] > 0 =>
                [fires EXCEPT ![s][k] = @ - 1]
                  \in [Schedules -> [0..MaxFireRetries -> 0..MaxPending]]
<1> DEFINE K == 0..MaxFireRetries  P == 0..MaxPending
<1>1. fires \in [Schedules -> [K -> P]] /\ fires[s] \in [K -> P] /\ fires[s][k] \in P
  BY DEF TypeOK
<1>2. fires[s][k] < MaxPending => fires[s][k] + 1 \in P
  BY <1>1, FireAssumption
<1>3. fires[s][k] > 0 => fires[s][k] - 1 \in P
  BY <1>1, FireAssumption
<1> HIDE DEF K, P
<1>4. k \in K
  BY DEF K
<1>5. \A n \in P : [fires EXCEPT ![s][k] = n] \in [Schedules -> [K -> P]]
  BY <1>1, <1>4
<1>6. fires[s][k] < MaxPending => [fires EXCEPT ![s][k] = @ + 1] \in [Schedules -> [K -> P]]
  BY <1>1, <1>2, <1>4, <1>5
<1>7. fires[s][k] > 0 => [fires EXCEPT ![s][k] = @ - 1] \in [Schedules -> [K -> P]]
  BY <1>1, <1>3, <1>4, <1>5
<1> QED
  BY <1>6, <1>7 DEF K, P

\* A projection leaves entries well typed.
LEMMA ProjectType ==
    ASSUME TypeOK, NEW s \in Schedules, NEW b \in BOOLEAN, Project(s, b)
    PROVE  entry' \in [Schedules -> BOOLEAN]
BY DEF TypeOK, Project

\* The initial state is well typed, with no slot held.
LEMMA InitType == Init => TypeOK /\ SlotHeld
<1> SUFFICES ASSUME Init PROVE TypeOK /\ SlotHeld
  OBVIOUS
<1>1. fires \in [Schedules -> [0..MaxFireRetries -> 0..MaxPending]]
  BY FireAssumption DEF Init
<1>2. run \in [Runs -> RunRecords \cup {NoRun}] /\ job \in [Dispatchers -> Jobs \cup {NoJob}]
      /\ request \in [Callers -> Loads \cup {NoRequest}]
  BY DEF Init
<1> QED
  BY <1>1, <1>2 DEF Init, TypeOK, SlotHeld
(***************************************************************************)
(* The shapes of a step: what it does to the lives, the overlap policies,   *)
(* the dispatchers and the runs.  The requests, entries, messages and       *)
(* next_run_at it may also touch do not bear on the gates.                  *)
(***************************************************************************)

\* What an after-commit publish makes of a run is a status.
LEMMA PublishedType == Published \subseteq {"active", "stranded"}
BY DEF Published

OtherJobs(d) == \A e \in Dispatchers \ {d} : pc'[e] = pc[e] /\ job'[e] = job[e]

Still == UNCHANGED <<life, skip, run, pc, job>>

Creates(s) ==
    /\ life[s] = "new" /\ life'[s] # "new"
    /\ \A x \in Schedules \ {s} : life'[x] = life[x] /\ skip'[x] = skip[x]
    /\ UNCHANGED <<run, pc, job>>

\* The runs of s lose their schedule.
Deletes(s) ==
    /\ life[s] = "live" /\ \A x \in Schedules : life'[x] # life[x] => life'[x] = "deleted"
    /\ \A r \in Runs :
         \/ run'[r] = run[r]
         \/ /\ run[r] \in RunRecords
            /\ run'[r] = [schedule |-> NoSchedule, by |-> run[r].by, status |-> run[r].status]
    /\ UNCHANGED <<skip, pc, job>>

RunsByHand(r, s) ==
    /\ \E q \in {"active", "stranded"} : Filled(r, s, "owner", q)
    /\ UNCHANGED <<life, skip, pc, job>>

LoadsFire(d) ==
    /\ OtherJobs(d)
    /\ pc'[d] = "count" /\ job'[d] \in Jobs /\ Live(job'[d].schedule)
    /\ UNCHANGED <<life, skip, run>>

Decides(d) ==
    /\ OtherJobs(d)
    /\ pc[d] = "count" /\ job'[d] = job[d]
    /\ pc'[d] = "advance" \/ (pc'[d] = "enqueue" /\ GatesOpen(job[d].schedule))
    /\ UNCHANGED <<life, skip, run>>

LetsGo(d) ==
    /\ OtherJobs(d)
    /\ pc'[d] = "idle"
    /\ UNCHANGED <<life, skip, run>>

Enqueues(d, r) ==
    /\ OtherJobs(d)
    /\ pc[d] = "enqueue" /\ pc'[d] = "publish"
    /\ job'[d].run = r /\ job'[d].schedule = job[d].schedule
    /\ Filled(r, job[d].schedule, "fire", "unsent")
    /\ Live(job[d].schedule)
    /\ UNCHANGED <<life, skip>>

Sends(d) ==
    /\ OtherJobs(d)
    /\ pc[d] = "publish" /\ pc'[d] = "idle"
    /\ \E q \in {"active", "stranded"} : Marked(job[d].run, run[job[d].run].by, q)
    /\ UNCHANGED <<life, skip>>

\* A published run moves on: it ends, strands or waits for its owner, who ends or
\* reopens it.
MovesOn(r) ==
    /\ run[r] \in RunRecords /\ run[r].status # "unsent"
    /\ \/ Emptied(r)
       \/ \E q \in {"active", "stranded"} : Marked(r, "owner", q)
       \/ \E q \in {"stranded", "escalated"} : run[r].status = "active" /\ Marked(r, run[r].by, q)
    /\ UNCHANGED <<life, skip, pc, job>>

Shape ==
    \/ Still
    \/ \E s \in Schedules : Creates(s) \/ Deletes(s)
    \/ \E s \in Schedules, r \in Runs : RunsByHand(r, s)
    \/ \E d \in Dispatchers : LoadsFire(d) \/ Decides(d) \/ LetsGo(d) \/ Sends(d)
    \/ \E d \in Dispatchers, r \in Runs : Enqueues(d, r)
    \/ \E r \in Runs : MovesOn(r)

RunsTyped == run' \in [Runs -> RunRecords \cup {NoRun}]

\* A dispatcher at work holds a job.
LEMMA AtWork ==
    ASSUME TypeOK, NEW d \in Dispatchers, pc[d] # "idle"
    PROVE  /\ job[d] \in Jobs
           /\ job[d].schedule \in Schedules
           /\ job[d].retries \in 0..MaxFireRetries
<1>1. job[d] \in Jobs
  BY DEF TypeOK
<1> QED
  BY <1>1 DEF Jobs

\* A request that is being served has loaded a schedule.
LEMMA Served ==
    ASSUME TypeOK, NEW c \in Callers, request[c].op # "none"
    PROVE  /\ request[c] \in Loads /\ request[c].schedule \in Schedules
           /\ request[c].enabled \in BOOLEAN
<1>1. request[c] \in Loads
  BY DEF TypeOK, NoRequest
<1> QED
  BY <1>1 DEF Loads

\* The steps of a dispatcher have a shape.
LEMMA DispatchShape ==
    ASSUME TypeOK, SlotHeld, NEW d \in Dispatchers, DispatchStep(d)
    PROVE  Shape /\ RunsTyped
<1>0. pc \in [Dispatchers -> {"idle", "count", "advance", "enqueue", "publish"}]
      /\ job \in [Dispatchers -> Jobs \cup {NoJob}]
      /\ run \in [Runs -> RunRecords \cup {NoRun}]
  BY DEF TypeOK
<1>1. CASE LoadFire(d)
  <2>1. PICK s \in Schedules, k \in 0..MaxFireRetries :
          /\ Live(s)
          /\ job' = [job EXCEPT ![d] = [schedule |-> s, retries |-> k, run |-> NoSlot]]
    BY <1>1 DEF LoadFire
  <2> DEFINE j == [schedule |-> s, retries |-> k, run |-> NoSlot]
  <2>2. j \in Jobs /\ j.schedule = s
    BY DEF Jobs, TypeOK
  <2> HIDE DEF j
  <2>3. job' = [job EXCEPT ![d] = j] /\ pc' = [pc EXCEPT ![d] = "count"]
        /\ UNCHANGED <<life, skip, run>>
    BY <1>1, <2>1 DEF j, LoadFire, Goto, rowVars
  <2>4. job'[d] = j /\ pc'[d] = "count" /\ OtherJobs(d)
    BY <1>0, <2>3 DEF OtherJobs
  <2>5. LoadsFire(d)
    BY <2>1, <2>2, <2>3, <2>4 DEF LoadsFire
  <2> QED
    BY <1>0, <2>3, <2>5 DEF Shape, RunsTyped
<1>2. CASE IgnoreFire(d)
  BY <1>0, <1>2 DEF IgnoreFire, Shape, Still, RunsTyped, rowVars
<1>3. CASE Decide(d)
  <2>1. job'[d] = job[d] /\ OtherJobs(d)
    BY <1>0, <1>3 DEF Decide, Goto, OtherJobs
  <2>2. pc'[d] = "advance" \/ (pc'[d] = "enqueue" /\ GatesOpen(job[d].schedule))
    BY <1>0, <1>3 DEF Decide, Goto
  <2>3. Decides(d)
    BY <1>3, <2>1, <2>2 DEF Decides, Decide, rowVars
  <2> QED
    BY <1>0, <1>3, <2>3 DEF Shape, RunsTyped, Decide
<1>4. ASSUME Done(d) PROVE pc'[d] = "idle" /\ OtherJobs(d)
  BY <1>0, <1>4 DEF Done, OtherJobs
<1>5. ASSUME Done(d), UNCHANGED <<life, skip, run>> PROVE Shape /\ RunsTyped
  <2>1. LetsGo(d)
    BY <1>4, <1>5 DEF LetsGo
  <2> QED
    BY <1>0, <1>5, <2>1 DEF Shape, RunsTyped
<1>6. CASE Advance(d) \/ AssistantUnavailable(d) \/ DispatchRaises(d)
  BY <1>5, <1>6 DEF Advance, AssistantUnavailable, DispatchRaises, rowVars
<1>7. CASE Enqueue(d)
  <2>0. pc[d] = "enqueue" /\ job[d] \in Jobs /\ job[d].schedule \in Schedules
        /\ Live(job[d].schedule) /\ UNCHANGED <<life, skip>>
    BY <1>7, AtWork DEF Enqueue, rowVars
  <2>1. PICK r \in Runs : /\ Insert(r, job[d].schedule, "fire", "unsent")
                          /\ job' = [job EXCEPT ![d].run = r]
    BY <1>7 DEF Enqueue
  <2>2. Filled(r, job[d].schedule, "fire", "unsent") /\ RunsTyped
    BY <2>0, <2>1, RunSteps DEF RunsTyped, Statuses
  <2> DEFINE j == [job[d] EXCEPT !.run = r]
  <2>3. j.run = r /\ j.schedule = job[d].schedule
    BY <2>0 DEF Jobs
  <2>4. job' = [job EXCEPT ![d] = j] /\ pc' = [pc EXCEPT ![d] = "publish"]
    BY <1>7, <2>1 DEF Enqueue, Goto
  <2> HIDE DEF j
  <2>5. job'[d] = j /\ pc'[d] = "publish" /\ OtherJobs(d)
    BY <1>0, <2>4 DEF OtherJobs
  <2>6. Enqueues(d, r)
    BY <2>0, <2>2, <2>3, <2>5 DEF Enqueues
  <2> QED
    BY <2>2, <2>6 DEF Shape
<1>8. ASSUME pc[d] = "publish", NEW q \in {"active", "stranded"},
             run' = [run EXCEPT ![job[d].run].status = q], Done(d), UNCHANGED <<life, skip>>
      PROVE  Shape /\ RunsTyped
  <2>1. job[d].run \in Runs /\ run[job[d].run] # NoRun
    BY <1>8 DEF SlotHeld
  <2>2. Marked(job[d].run, run[job[d].run].by, q) /\ RunsTyped
    BY <1>8, <2>1, RunSteps DEF RunsTyped, Statuses
  <2>3. Sends(d)
    BY <1>4, <1>8, <2>2 DEF Sends
  <2> QED
    BY <2>2, <2>3 DEF Shape
<1>9. CASE Publish(d)
  <2>1. PICK q \in Published : run' = [run EXCEPT ![job[d].run].status = q]
    BY <1>9 DEF Publish
  <2>2. q \in {"active", "stranded"}
    BY PublishedType
  <2>3. pc[d] = "publish" /\ Done(d) /\ UNCHANGED <<life, skip>>
    BY <1>9 DEF Publish, rowVars
  <2> QED
    BY <1>8, <2>1, <2>2, <2>3
<1>10. CASE Crash(d)
  <2>1. CASE pc[d] = "publish"
    <3>1. run' = [run EXCEPT ![job[d].run].status = "stranded"] /\ Done(d) /\ UNCHANGED <<life, skip>>
      BY <1>10, <2>1 DEF Crash, rowVars
    <3> QED
      BY <1>8, <2>1, <3>1
  <2>2. CASE pc[d] # "publish"
    BY <1>5, <1>10, <2>2 DEF Crash, rowVars
  <2> QED
    BY <2>1, <2>2
<1> QED
  BY <1>1, <1>2, <1>3, <1>6, <1>7, <1>9, <1>10 DEF DispatchStep

\* Every step has a shape.
LEMMA NextShape == TypeOK /\ SlotHeld /\ [Next]_vars => Shape /\ RunsTyped
<1> SUFFICES ASSUME TypeOK, SlotHeld, [Next]_vars PROVE Shape /\ RunsTyped
  OBVIOUS
<1>0. run \in [Runs -> RunRecords \cup {NoRun}]
      /\ life \in [Schedules -> {"new", "live", "deleted"}]
      /\ skip \in [Schedules -> BOOLEAN]
  BY DEF TypeOK
<1>1. ASSUME Still PROVE Shape /\ RunsTyped
  BY <1>0, <1>1 DEF Still, Shape, RunsTyped
<1>2. ASSUME NEW s \in Schedules, Create(s) PROVE Shape /\ RunsTyped
  <2>1. Creates(s)
    BY <1>0, <1>2 DEF Create, Creates
  <2> QED
    BY <1>0, <1>2, <2>1 DEF Shape, RunsTyped, Create
<1>3. ASSUME NEW s \in Schedules, Tick(s) \/ BootProject(s) PROVE Shape /\ RunsTyped
  BY <1>1, <1>3 DEF Tick, BootProject, Still, rowVars
<1>4. CASE LoseEntries \/ BootRead \/ UNCHANGED vars
  BY <1>1, <1>4 DEF LoseEntries, BootRead, vars, Still, rowVars
<1>5. ASSUME NEW c \in Callers, RequestStep(c) PROVE Shape /\ RunsTyped
  <2>1. CASE LoadManaged(c) \/ WriteMissing(c) \/ UpdateNothing(c) \/ ProjectRefreshed(c)
    BY <1>1, <2>1 DEF LoadManaged, WriteMissing, UpdateNothing, ProjectRefreshed, Still, rowVars
  <2>2. CASE Pause(c) \/ Resume(c) \/ Update(c)
    BY <1>1, <2>2 DEF Pause, Resume, Update, CommitFails, Still, rowVars
  <2>3. CASE Delete(c)
    <3> DEFINE s == request[c].schedule
    <3>1. s \in Schedules
      BY <2>3, Served DEF Delete
    <3>2. CASE CommitFails(s, FALSE)
      BY <1>1, <2>3, <3>2 DEF Delete, CommitFails, Still, rowVars
    <3>3. CASE ~CommitFails(s, FALSE)
      <4>1. /\ life[s] = "live" /\ life' = [life EXCEPT ![s] = "deleted"]
            /\ run' = [r \in Runs |-> IF run[r] # NoRun /\ run[r].schedule = s
                                      THEN [run[r] EXCEPT !.schedule = NoSchedule] ELSE run[r]]
            /\ UNCHANGED <<skip, pc, job>>
        BY <2>3, <3>3 DEF Delete, Live
      <4> HIDE DEF s
      <4>2. ASSUME NEW r \in Runs, run[r] # NoRun
            PROVE  /\ run[r] \in RunRecords
                   /\ [run[r] EXCEPT !.schedule = NoSchedule] \in RunRecords
                   /\ [run[r] EXCEPT !.schedule = NoSchedule]
                        = [schedule |-> NoSchedule, by |-> run[r].by, status |-> run[r].status]
        <5>1. run[r] \in RunRecords
          BY <1>0, <4>2
        <5> QED
          BY <5>1 DEF RunRecords
      <4>3. \A r \in Runs :
              run'[r] = run[r] \/ (run[r] # NoRun /\ run'[r] = [run[r] EXCEPT !.schedule = NoSchedule])
        BY <4>1
      <4>4. \A r \in Runs :
              \/ run'[r] = run[r]
              \/ /\ run[r] \in RunRecords
                 /\ run'[r] = [schedule |-> NoSchedule, by |-> run[r].by, status |-> run[r].status]
        <5> SUFFICES ASSUME NEW r \in Runs, run'[r] # run[r]
                     PROVE  /\ run[r] \in RunRecords
                            /\ run'[r] = [schedule |-> NoSchedule, by |-> run[r].by,
                                          status |-> run[r].status]
          OBVIOUS
        <5>1. run[r] # NoRun /\ run'[r] = [run[r] EXCEPT !.schedule = NoSchedule]
          BY <4>3
        <5> QED
          BY <4>2, <5>1
      <4>5. \A x \in Schedules : life'[x] # life[x] => life'[x] = "deleted"
        BY <1>0, <3>1, <4>1
      <4>6. Deletes(s)
        BY <4>1, <4>4, <4>5 DEF Deletes
      <4>7. \A r \in Runs : (IF run[r] # NoRun /\ run[r].schedule = s
                             THEN [run[r] EXCEPT !.schedule = NoSchedule] ELSE run[r])
                            \in RunRecords \cup {NoRun}
        BY <1>0, <4>2
      <4>8. RunsTyped
        BY <4>1, <4>7 DEF RunsTyped
      <4> QED
        BY <3>1, <4>6, <4>8 DEF Shape
    <3> QED
      BY <3>2, <3>3
  <2>4. CASE RunNow(c)
    <3> DEFINE s == request[c].schedule
    <3>1. s \in Schedules
      BY <2>4, Served DEF RunNow
    <3>2. UNCHANGED <<life, skip, pc, job>>
      BY <2>4 DEF RunNow, rowVars
    <3>3. CASE UNCHANGED run
      BY <1>1, <3>2, <3>3 DEF Still
    <3>4. CASE ~UNCHANGED run
      <4>1. PICK r \in Runs, q \in Published : Insert(r, s, "owner", q)
        BY <2>4, <3>4 DEF RunNow
      <4>2. q \in {"active", "stranded"}
        BY PublishedType
      <4>3. Filled(r, s, "owner", q) /\ RunsTyped
        BY <3>1, <4>1, <4>2, RunSteps DEF RunsTyped, Statuses
      <4>4. RunsByHand(r, s)
        BY <3>2, <4>2, <4>3 DEF RunsByHand
      <4> QED
        BY <3>1, <4>3, <4>4 DEF Shape
    <3> QED
      BY <3>3, <3>4
  <2> QED
    BY <1>5, <2>1, <2>2, <2>3, <2>4 DEF RequestStep, WriteLoaded
<1>6. ASSUME NEW r \in Runs, RunEnds(r) \/ RunStrands(r) \/ OwnerDecides(r)
      PROVE  Shape /\ RunsTyped
  <2>0. run[r] # NoRun /\ run[r] \in RunRecords /\ UNCHANGED <<life, skip, pc, job>>
    BY <1>0, <1>6 DEF RunEnds, RunStrands, OwnerDecides, rowVars
  <2>1. CASE run' = [run EXCEPT ![r] = NoRun]
    <3>1. Emptied(r) /\ RunsTyped
      BY <2>1, RunSteps DEF RunsTyped
    <3>2. run[r].status # "unsent"
      BY <1>6, <2>1, <3>1 DEF RunEnds, RunStrands, OwnerDecides
    <3> QED
      BY <2>0, <3>1, <3>2 DEF Shape, MovesOn
  <2>2. ASSUME NEW q \in {"stranded", "escalated"}, run[r].status = "active",
               run' = [run EXCEPT ![r].status = q]
        PROVE  Shape /\ RunsTyped
    <3>1. Marked(r, run[r].by, q) /\ RunsTyped
      BY <2>0, <2>2, RunSteps DEF RunsTyped, Statuses
    <3> QED
      BY <2>0, <2>2, <3>1 DEF Shape, MovesOn
  <2>3. ASSUME NEW q \in Published, run[r].status = "escalated",
               run' = [run EXCEPT ![r].status = q, ![r].by = "owner"]
        PROVE  Shape /\ RunsTyped
    <3>1. q \in {"active", "stranded"}
      BY PublishedType
    <3>2. Marked(r, "owner", q) /\ RunsTyped
      BY <2>0, <2>3, <3>1, RunSteps DEF RunsTyped, Statuses
    <3> QED
      BY <2>0, <2>3, <3>1, <3>2 DEF Shape, MovesOn
  <2>4. CASE RunEnds(r)
    BY <2>1, <2>2, <2>4 DEF RunEnds
  <2>5. CASE RunStrands(r)
    BY <2>2, <2>5 DEF RunStrands
  <2>6. CASE OwnerDecides(r)
    BY <2>1, <2>3, <2>6 DEF OwnerDecides
  <2> QED
    BY <1>6, <2>4, <2>5, <2>6
<1> QED
  BY <1>2, <1>3, <1>4, <1>5, <1>6, DispatchShape DEF Next


\* Finishing a message empties the dispatcher.
LEMMA DoneType ==
    ASSUME TypeOK, NEW d \in Dispatchers, Done(d)
    PROVE  /\ pc' \in [Dispatchers -> {"idle", "count", "advance", "enqueue", "publish"}]
           /\ job' \in [Dispatchers -> Jobs \cup {NoJob}]
           /\ \A e \in Dispatchers : pc'[e] = "idle" <=> job'[e] = NoJob
BY DEF TypeOK, Done

\* A step of a dispatcher keeps the state well typed.
LEMMA DispatchType ==
    ASSUME TypeOK, RunsTyped, NEW d \in Dispatchers, DispatchStep(d)
    PROVE  TypeOK'
<1>1. CASE LoadFire(d)
  <2>1. PICK s \in Schedules, k \in 0..MaxFireRetries :
          /\ Take(s, k)
          /\ job' = [job EXCEPT ![d] = [schedule |-> s, retries |-> k, run |-> NoSlot]]
    BY <1>1 DEF LoadFire
  <2> DEFINE j == [schedule |-> s, retries |-> k, run |-> NoSlot]
  <2>2. j \in Jobs
    BY DEF Jobs, TypeOK
  <2>3. j # NoJob
    BY <2>2, Sentinels
  <2> HIDE DEF j
  <2>4. job' = [job EXCEPT ![d] = j] /\ pc' = [pc EXCEPT ![d] = "count"]
    BY <1>1, <2>1 DEF j, LoadFire, Goto
  <2>5. /\ pc' \in [Dispatchers -> {"idle", "count", "advance", "enqueue", "publish"}]
        /\ job' \in [Dispatchers -> Jobs \cup {NoJob}]
        /\ \A e \in Dispatchers : pc'[e] = "idle" <=> job'[e] = NoJob
    BY <2>2, <2>3, <2>4 DEF TypeOK
  <2>6. fires' \in [Schedules -> [0..MaxFireRetries -> 0..MaxPending]]
    BY <2>1, FireWrites DEF Take
  <2> QED
    BY <1>1, <2>5, <2>6 DEF LoadFire, TypeOK, rowVars
<1>2. CASE IgnoreFire(d)
  <2>1. fires' \in [Schedules -> [0..MaxFireRetries -> 0..MaxPending]]
    BY <1>2, FireWrites DEF IgnoreFire, Take
  <2> QED
    BY <1>2, <2>1 DEF IgnoreFire, TypeOK, rowVars
<1>3. CASE Decide(d)
  <2>1. /\ pc' \in [Dispatchers -> {"idle", "count", "advance", "enqueue", "publish"}]
        /\ \A e \in Dispatchers : pc'[e] = "idle" <=> pc[e] = "idle"
    BY <1>3 DEF Decide, Goto, TypeOK
  <2> QED
    BY <1>3, <2>1 DEF Decide, TypeOK, rowVars
<1>4. ASSUME Done(d), UNCHANGED <<rowVars, entry, fires, boot, run, request>>
      PROVE  TypeOK'
  BY <1>4, DoneType DEF TypeOK, rowVars
<1>5. CASE Advance(d)
  BY <1>4, <1>5 DEF Advance
<1>6. CASE AssistantUnavailable(d)
  BY <1>4, <1>6 DEF AssistantUnavailable
<1>7. CASE Enqueue(d)
  <2>0. pc[d] = "enqueue" /\ job[d] \in Jobs /\ job[d].schedule \in Schedules
    BY <1>7, AtWork DEF Enqueue
  <2>1. PICK r \in Runs : /\ Insert(r, job[d].schedule, "fire", "unsent")
                          /\ job' = [job EXCEPT ![d].run = r]
    BY <1>7 DEF Enqueue
  <2>4. [job[d] EXCEPT !.run = r] \in Jobs
    BY <2>0 DEF Jobs
  <2>5. job' = [job EXCEPT ![d] = [job[d] EXCEPT !.run = r]] /\ pc' = [pc EXCEPT ![d] = "publish"]
    BY <1>7, <2>1 DEF Enqueue, Goto
  <2>6. /\ pc' \in [Dispatchers -> {"idle", "count", "advance", "enqueue", "publish"}]
        /\ job' \in [Dispatchers -> Jobs \cup {NoJob}]
        /\ \A e \in Dispatchers : pc'[e] = "idle" <=> job'[e] = NoJob
    BY <2>4, <2>5, Sentinels DEF TypeOK
  <2> QED
    BY <1>7, <2>6 DEF Enqueue, TypeOK, RunsTyped, rowVars
<1>8. CASE DispatchRaises(d)
  <2>1. job[d].schedule \in Schedules /\ job[d].retries \in 0..MaxFireRetries
    BY <1>8, AtWork DEF DispatchRaises
  <2>2. fires' \in [Schedules -> [0..MaxFireRetries -> 0..MaxPending]]
    <3>1. CASE job[d].retries < MaxFireRetries
      <4>1. job[d].retries + 1 \in 0..MaxFireRetries
        BY <2>1, <3>1, FireAssumption
      <4>2. /\ fires[job[d].schedule][job[d].retries + 1] < MaxPending
            /\ fires' = [fires EXCEPT ![job[d].schedule][job[d].retries + 1] = @ + 1]
        BY <1>8, <2>1, <3>1, FireAssumption DEF DispatchRaises
      <4> QED
        BY <2>1, <4>1, <4>2, FireWrites
    <3>2. CASE ~(job[d].retries < MaxFireRetries)
      BY <1>8, <3>2 DEF DispatchRaises, TypeOK
    <3> QED
      BY <3>1, <3>2
  <2> QED
    BY <1>8, <2>2, DoneType DEF DispatchRaises, TypeOK, rowVars
<1>9. CASE Publish(d)
  BY <1>9, DoneType DEF Publish, TypeOK, RunsTyped, rowVars
<1>10. CASE Crash(d)
  <2>1. job[d].schedule \in Schedules /\ job[d].retries \in 0..MaxFireRetries
    BY <1>10, AtWork DEF Crash
  <2>2. fires' \in [Schedules -> [0..MaxFireRetries -> 0..MaxPending]]
    BY <1>10, <2>1, FireWrites DEF Crash
  <2> QED
    BY <1>10, <2>2, DoneType DEF Crash, TypeOK, RunsTyped, rowVars
<1> QED
  BY <1>1, <1>2, <1>3, <1>5, <1>6, <1>7, <1>8, <1>9, <1>10 DEF DispatchStep

\* The enabled a PATCH writes or projects is a Boolean.
LEMMA PatchedEnabled ==
    ASSUME TypeOK, NEW l, l.enabled \in BOOLEAN, l.schedule \in Schedules
    PROVE  NewEnabled(l) \in BOOLEAN /\ RefreshedEnabled(l) \in BOOLEAN
BY DEF NewEnabled, RefreshedEnabled, TypeOK

\* A step of a request keeps the state well typed.
LEMMA RequestType ==
    ASSUME TypeOK, RunsTyped, NEW c \in Callers, RequestStep(c)
    PROVE  TypeOK'
<1>0. Reply(c) => request' \in [Callers -> Loads \cup {NoRequest}]
  BY DEF Reply, TypeOK
<1>1. CASE LoadManaged(c)
  BY <1>1 DEF LoadManaged, TypeOK, rowVars
<1>2. CASE WriteMissing(c)
  BY <1>0, <1>2 DEF WriteMissing, TypeOK, rowVars
<1>3. CASE Pause(c)
  <2>1. request[c].schedule \in Schedules
    BY <1>3, Served DEF Pause
  <2>2. /\ enabled' \in [Schedules -> BOOLEAN]
        /\ UNCHANGED <<life, skip, run>>
    BY <1>3, <2>1 DEF Pause, CommitFails, TypeOK, rowVars
  <2>3. entry' \in [Schedules -> BOOLEAN]
    BY <1>3, <2>1, ProjectType DEF Pause, CommitFails
  <2> QED
    BY <1>0, <1>3, <2>2, <2>3 DEF Pause, TypeOK
<1>4. CASE Resume(c)
  <2>1. request[c].schedule \in Schedules
    BY <1>4, Served DEF Resume
  <2>2. enabled' \in [Schedules -> BOOLEAN] /\ UNCHANGED <<life, skip, run>>
    BY <1>4, <2>1 DEF Resume, CommitFails, TypeOK, rowVars
  <2>3. entry' \in [Schedules -> BOOLEAN]
    BY <1>4, <2>1, ProjectType DEF Resume, CommitFails
  <2> QED
    BY <1>0, <1>4, <2>2, <2>3 DEF Resume, TypeOK
<1>5. CASE Delete(c)
  <2>1. request[c].schedule \in Schedules
    BY <1>5, Served DEF Delete
  <2>3. /\ life' \in [Schedules -> {"new", "live", "deleted"}]
        /\ UNCHANGED <<skip, enabled>>
    <3>1. life' = life \/ life' = [life EXCEPT ![request[c].schedule] = "deleted"]
      BY <1>5 DEF Delete, CommitFails, rowVars
    <3>2. UNCHANGED <<skip, enabled>>
      BY <1>5 DEF Delete, CommitFails, rowVars
    <3> QED
      BY <2>1, <3>1, <3>2 DEF TypeOK
  <2>4. entry' \in [Schedules -> BOOLEAN]
    BY <1>5, <2>1, ProjectType DEF Delete, CommitFails
  <2> QED
    BY <1>0, <1>5, <2>3, <2>4 DEF Delete, TypeOK, RunsTyped
<1>6. CASE RunNow(c)
  BY <1>0, <1>6 DEF RunNow, TypeOK, RunsTyped, rowVars
<1>7. CASE Update(c)
  <2>1. request[c].schedule \in Schedules /\ request[c].enabled \in BOOLEAN
    BY <1>7, Served DEF Update, Patches
  <2>2. NewEnabled(request[c]) \in BOOLEAN /\ RefreshedEnabled(request[c]) \in BOOLEAN
    BY <2>1, PatchedEnabled
  <2>3. enabled' \in [Schedules -> BOOLEAN] /\ UNCHANGED <<life, skip, run>>
    BY <1>7, <2>1, <2>2 DEF Update, CommitFails, TypeOK, rowVars
  <2>4. entry' \in [Schedules -> BOOLEAN]
    BY <1>7, <2>1, <2>2, ProjectType DEF Update, CommitFails
  <2> QED
    BY <1>0, <1>7, <2>3, <2>4 DEF Update, TypeOK
<1>8. CASE UpdateNothing(c)
  <2>1. request[c] \in Loads /\ enabled[request[c].schedule] \in BOOLEAN
    BY <1>8, Served DEF UpdateNothing, Patches, TypeOK
  <2>2. [request[c] EXCEPT !.op = "project", !.enabled = enabled[request[c].schedule]] \in Loads
    BY <2>1 DEF Loads
  <2>3. request' \in [Callers -> Loads \cup {NoRequest}]
    BY <1>8, <2>2 DEF UpdateNothing, TypeOK
  <2> QED
    BY <1>8, <2>3 DEF UpdateNothing, TypeOK, rowVars
<1>9. CASE ProjectRefreshed(c)
  <2>1. entry' \in [Schedules -> BOOLEAN]
    BY <1>9, Served, ProjectType DEF ProjectRefreshed
  <2> QED
    BY <1>0, <1>9, <2>1 DEF ProjectRefreshed, TypeOK, rowVars
<1> QED
  BY <1>1, <1>2, <1>3, <1>4, <1>5, <1>6, <1>7, <1>8, <1>9 DEF RequestStep, WriteLoaded

\* Every step keeps the state well typed.
LEMMA NextType == TypeOK /\ RunsTyped /\ [Next]_vars => TypeOK'
<1> SUFFICES ASSUME TypeOK, RunsTyped, [Next]_vars PROVE TypeOK'
  OBVIOUS
<1>1. ASSUME NEW s \in Schedules, Create(s) PROVE TypeOK'
  <2>1. skip' \in [Schedules -> BOOLEAN] /\ enabled' \in [Schedules -> BOOLEAN]
    <3>1. PICK b \in BOOLEAN, e \in BOOLEAN :
            skip' = [skip EXCEPT ![s] = b] /\ enabled' = [enabled EXCEPT ![s] = e]
      BY <1>1 DEF Create
    <3> QED
      BY <3>1 DEF TypeOK
  <2>3. life' \in [Schedules -> {"new", "live", "deleted"}]
    BY <1>1 DEF Create, TypeOK
  <2>2. entry' \in [Schedules -> BOOLEAN]
    BY <1>1, ProjectType DEF Create
  <2> QED
    BY <1>1, <2>1, <2>2, <2>3 DEF Create, TypeOK
<1>2. ASSUME NEW s \in Schedules, Tick(s) PROVE TypeOK'
  <2>1. fires' \in [Schedules -> [0..MaxFireRetries -> 0..MaxPending]]
    BY <1>2, FireWrites, FireAssumption DEF Tick
  <2> QED
    BY <1>2, <2>1 DEF Tick, TypeOK, rowVars
<1>3. ASSUME NEW s \in Schedules, BootProject(s) PROVE TypeOK'
  BY <1>3 DEF BootProject, TypeOK, rowVars
<1>4. CASE LoseEntries
  BY <1>4 DEF LoseEntries, TypeOK, rowVars
<1>5. CASE BootRead
  BY <1>5 DEF BootRead, TypeOK, rowVars
<1>6. ASSUME NEW r \in Runs, RunEnds(r) \/ RunStrands(r) \/ OwnerDecides(r) PROVE TypeOK'
  BY <1>6 DEF RunEnds, RunStrands, OwnerDecides, TypeOK, RunsTyped, rowVars
<1>7. CASE UNCHANGED vars
  BY <1>7 DEF vars, rowVars, TypeOK
<1> QED
  BY <1>1, <1>2, <1>3, <1>4, <1>5, <1>6, <1>7, RequestType, DispatchType DEF Next

(***************************************************************************)
(* The slot of a committed, unpublished run.                                *)
(***************************************************************************)

\* Every step keeps the slots held: only the holder's publish or crash moves an unsent
\* run, and an enqueue takes an empty slot.
LEMMA ShapeSlotHeld == TypeOK /\ SlotHeld /\ Shape => SlotHeld'
<1> SUFFICES ASSUME TypeOK, SlotHeld, Shape PROVE SlotHeld'
  OBVIOUS
<1>0. NoRun \notin RunRecords /\ run \in [Runs -> RunRecords \cup {NoRun}]
  BY Sentinels DEF TypeOK
<1> DEFINE Held(d) == /\ job[d].run \in Runs /\ run[job[d].run] # NoRun
                      /\ run[job[d].run].status = "unsent"
<1>1. CASE Still
  BY <1>1 DEF Still, SlotHeld
<1>2. ASSUME NEW s \in Schedules, Creates(s) PROVE SlotHeld'
  BY <1>2 DEF Creates, SlotHeld
<1>3. ASSUME NEW s \in Schedules, Deletes(s) PROVE SlotHeld'
  <2>1. pc' = pc /\ job' = job
    BY <1>3 DEF Deletes
  <2>2. ASSUME NEW r \in Runs, run[r] # NoRun, run[r].status = "unsent"
        PROVE  run'[r] # NoRun /\ run'[r].status = "unsent"
    <3>1. CASE run'[r] = run[r]
      BY <2>2, <3>1
    <3>2. CASE run'[r] # run[r]
      <4>1. run'[r] = [schedule |-> NoSchedule, by |-> run[r].by, status |-> run[r].status]
        BY <1>3, <3>2 DEF Deletes
      <4>2. run'[r].status = "unsent"
        BY <2>2, <4>1
      <4> QED
        BY <4>2 DEF NoRun
    <3> QED
      BY <3>1, <3>2
  <2> QED
    BY <2>1, <2>2 DEF SlotHeld
<1>4. ASSUME NEW s \in Schedules, NEW r \in Runs, RunsByHand(r, s) PROVE SlotHeld'
  <2>1. pc' = pc /\ job' = job /\ run[r] = NoRun /\ Others(r)
    BY <1>4 DEF RunsByHand, Filled
  <2> QED
    BY <2>1 DEF SlotHeld, Others
<1>5. ASSUME NEW d \in Dispatchers, LoadsFire(d) \/ Decides(d) \/ LetsGo(d) PROVE SlotHeld'
  <2>1. run' = run /\ pc'[d] # "publish" /\ OtherJobs(d)
    BY <1>5 DEF LoadsFire, Decides, LetsGo
  <2> QED
    BY <2>1 DEF SlotHeld, OtherJobs
<1>6. ASSUME NEW d \in Dispatchers, Sends(d) PROVE SlotHeld'
  <2>1. pc[d] = "publish" /\ pc'[d] # "publish" /\ OtherJobs(d) /\ Others(job[d].run)
    BY <1>6 DEF Sends, Marked
  <2>2. \A e \in Dispatchers \ {d} : pc[e] = "publish" =>
          job[e].run # job[d].run /\ run'[job[e].run] = run[job[e].run]
    BY <2>1 DEF SlotHeld, Others
  <2> QED
    BY <2>1, <2>2 DEF SlotHeld, OtherJobs
<1>7. ASSUME NEW d \in Dispatchers, NEW r \in Runs, Enqueues(d, r) PROVE SlotHeld'
  <2>1. /\ OtherJobs(d) /\ Others(r) /\ job'[d].run = r /\ run[r] = NoRun
        /\ run'[r] = [schedule |-> job[d].schedule, by |-> "fire", status |-> "unsent"]
    BY <1>7 DEF Enqueues, Filled
  <2>2. run'[r].status = "unsent" /\ run'[r] # NoRun
    BY <2>1 DEF NoRun
  <2>3. \A e \in Dispatchers \ {d} : pc[e] = "publish" =>
          job[e].run # r /\ run'[job[e].run] = run[job[e].run]
    BY <2>1 DEF SlotHeld, Others
  <2> QED
    BY <2>1, <2>2, <2>3 DEF SlotHeld, OtherJobs
<1>8. ASSUME NEW r \in Runs, MovesOn(r) PROVE SlotHeld'
  <2>1. pc' = pc /\ job' = job /\ run[r].status # "unsent" /\ Others(r)
    BY <1>8 DEF MovesOn, Emptied, Marked
  <2> QED
    BY <2>1 DEF SlotHeld, Others
<1> QED
  BY <1>1, <1>2, <1>3, <1>4, <1>5, <1>6, <1>7, <1>8 DEF Shape

\* TypeOK and SlotHeld together are inductive.
LEMMA TypeHolds == Spec => [](TypeOK /\ SlotHeld)
<1>1. Init => TypeOK /\ SlotHeld
  BY InitType
<1>2. TypeOK /\ SlotHeld /\ [Next]_vars => TypeOK' /\ SlotHeld'
  BY NextShape, NextType, ShapeSlotHeld
<1> QED
  BY <1>1, <1>2, PTL DEF Spec

\* Type correctness of the schedules' model.
THEOREM StateIsTyped == Spec => []TypeOK
BY TypeHolds, PTL

(***************************************************************************)
(* The fires of a schedule stack by no more than the dispatchers.           *)
(***************************************************************************)

\* The dispatchers that have passed the gates for s and not yet inserted its run.
Passed(s) == {d \in Dispatchers : pc[d] = "enqueue" /\ job[d].schedule = s}

\* Each dispatcher past the gates will insert one run, and the last of them to pass saw
\* fewer runs than the limit.  A schedule with a fire at work or a fired run has been
\* created, so its overlap policy is no longer written.
GatePassed ==
    /\ \A s \in Schedules :
          Cardinality(FiredRuns(s)) + Cardinality(Passed(s))
            <= Limit(s) + (Cardinality(Dispatchers) - 1)
    /\ \A d \in Dispatchers : pc[d] # "idle" => life[job[d].schedule] # "new"
    /\ \A r \in Runs : \A s \in Schedules : r \in FiredRuns(s) => life[s] # "new"

\* The limit of a schedule is a positive number.
LEMMA LimitIsPositive == TypeOK => \A s \in Schedules : Limit(s) \in Nat \ {0}
BY CapAssumption DEF Limit, TypeOK

\* There is at least one dispatcher.
LEMMA SomeDispatcher == Cardinality(Dispatchers) \in Nat \ {0}
BY DispatchersAssumption, FS_CardinalityType, FS_EmptySet

\* The dispatchers past the gates are finitely many, now and next.
LEMMA PassedIsFinite ==
    ASSUME NEW s
    PROVE  /\ IsFiniteSet(Passed(s)) /\ Cardinality(Passed(s)) \in Nat
           /\ IsFiniteSet(Passed(s)') /\ Cardinality(Passed(s)') \in Nat
           /\ Cardinality(Passed(s)') <= Cardinality(Dispatchers)
           /\ Passed(s)' \subseteq Passed(s) => Cardinality(Passed(s)') <= Cardinality(Passed(s))
<1>1. Passed(s) \subseteq Dispatchers /\ Passed(s)' \subseteq Dispatchers
  BY DEF Passed
<1>2. IsFiniteSet(Passed(s)) /\ IsFiniteSet(Passed(s)')
  BY <1>1, DispatchersAssumption, FS_Subset
<1>3. Cardinality(Passed(s)') <= Cardinality(Dispatchers)
  BY <1>1, DispatchersAssumption, FS_Subset
<1>4. Passed(s)' \subseteq Passed(s) => Cardinality(Passed(s)') <= Cardinality(Passed(s))
  BY <1>2, FS_Subset
<1> QED
  BY <1>2, <1>3, <1>4, FS_CardinalityType

\* The fired runs of a schedule are finitely many.
LEMMA FiredIsFinite ==
    ASSUME NEW s
    PROVE  /\ IsFiniteSet(FiredRuns(s))
           /\ Cardinality(FiredRuns(s)) \in Nat
           /\ \A T \in SUBSET FiredRuns(s) : Cardinality(T) <= Cardinality(FiredRuns(s))
<1>1. FiredRuns(s) \subseteq Runs
  BY DEF FiredRuns, ActiveRuns
<1>2. IsFiniteSet(FiredRuns(s))
  BY <1>1, RunsAssumption, FS_Subset
<1> QED
  BY <1>2, FS_CardinalityType, FS_Subset

\* The same in the next state.
LEMMA FiredIsFiniteNext ==
    ASSUME NEW s
    PROVE  /\ IsFiniteSet(FiredRuns(s)')
           /\ Cardinality(FiredRuns(s)') \in Nat
<1>1. FiredRuns(s)' \subseteq Runs
  BY DEF FiredRuns, ActiveRuns
<1>2. IsFiniteSet(FiredRuns(s)')
  BY <1>1, RunsAssumption, FS_Subset
<1> QED
  BY <1>2, FS_CardinalityType

\* Open gates leave room for a fired run.
LEMMA GatesLeaveRoom ==
    ASSUME TypeOK, NEW s \in Schedules, GatesOpen(s)
    PROVE  Cardinality(FiredRuns(s)) < Limit(s)
<1>1. FiredRuns(s) \subseteq ActiveRuns(s) /\ ActiveRuns(s) \subseteq Runs
  BY DEF FiredRuns, ActiveRuns
<1>2. IsFiniteSet(ActiveRuns(s)) /\ Cardinality(ActiveRuns(s)) \in Nat
  BY <1>1, RunsAssumption, FS_Subset, FS_CardinalityType
<1>3. Cardinality(FiredRuns(s)) <= Cardinality(ActiveRuns(s)) /\ Cardinality(FiredRuns(s)) \in Nat
  BY <1>1, <1>2, FS_Subset, FiredIsFinite
<1>4. CASE skip[s]
  <2>1. FiredRuns(s) = {}
    BY <1>1, <1>4 DEF GatesOpen
  <2> QED
    BY <1>4, <2>1, FS_EmptySet DEF Limit
<1>5. CASE ~skip[s]
  BY <1>2, <1>3, <1>5, CapAssumption DEF GatesOpen, Limit
<1> QED
  BY <1>4, <1>5

\* Only an enqueue adds a fired run to a schedule.
LEMMA FiredOnlyByEnqueue ==
    ASSUME TypeOK, SlotHeld, Shape, NEW s \in Schedules, NEW r \in Runs,
           r \in FiredRuns(s)', r \notin FiredRuns(s)
    PROVE  \E d \in Dispatchers : Enqueues(d, r) /\ job[d].schedule = s
<1>0. /\ run'[r] # NoRun /\ run'[r].schedule = s /\ run'[r].status # "escalated"
      /\ run'[r].by = "fire"
  BY DEF FiredRuns, ActiveRuns
<1>1. run'[r] # run[r]
  BY <1>0 DEF FiredRuns, ActiveRuns
<1>2. ASSUME NEW x \in Runs, Others(x) PROVE r = x
  BY <1>1, <1>2 DEF Others
<1>3. ~Still /\ \A x \in Schedules : ~Creates(x)
  BY <1>1 DEF Still, Creates
<1>4. \A x \in Schedules : ~Deletes(x)
  <2> SUFFICES ASSUME NEW x \in Schedules, Deletes(x) PROVE FALSE
    OBVIOUS
  <2>1. run'[r] = [schedule |-> NoSchedule, by |-> run[r].by, status |-> run[r].status]
    BY <1>1 DEF Deletes
  <2> QED
    BY <1>0, <2>1, SentinelAssumption
<1>5. \A x \in Schedules, y \in Runs : ~RunsByHand(y, x)
  <2> SUFFICES ASSUME NEW x \in Schedules, NEW y \in Runs, RunsByHand(y, x) PROVE FALSE
    OBVIOUS
  <2>1. PICK q \in {"active", "stranded"} : Filled(y, x, "owner", q)
    BY DEF RunsByHand
  <2>2. run'[r] = [schedule |-> x, by |-> "owner", status |-> q]
    BY <1>2, <2>1 DEF Filled
  <2> QED
    BY <1>0, <2>2
<1>6. \A d \in Dispatchers : ~LoadsFire(d) /\ ~Decides(d) /\ ~LetsGo(d)
  BY <1>1 DEF LoadsFire, Decides, LetsGo
<1>7. ASSUME NEW y \in Runs, NEW q \in Statuses, Marked(y, run[y].by, q), run[y].status # "escalated"
      PROVE  FALSE
  <2>1. r = y
    BY <1>2, <1>7 DEF Marked
  <2>2. run'[r] = [schedule |-> run[r].schedule, by |-> run[r].by, status |-> q]
    BY <1>7, <2>1 DEF Marked
  <2>3. run[r] # NoRun
    BY <1>7, <2>1, Sentinels DEF Marked
  <2>4. run[r].schedule = s /\ run[r].by = "fire"
    BY <1>0, <2>2
  <2> QED
    BY <1>7, <2>1, <2>3, <2>4 DEF FiredRuns, ActiveRuns
<1>8. \A d \in Dispatchers : ~Sends(d)
  <2> SUFFICES ASSUME NEW d \in Dispatchers, Sends(d) PROVE FALSE
    OBVIOUS
  <2>1. PICK q \in {"active", "stranded"} : Marked(job[d].run, run[job[d].run].by, q)
    BY DEF Sends
  <2>2. job[d].run \in Runs /\ run[job[d].run].status = "unsent"
    BY DEF Sends, SlotHeld
  <2> QED
    BY <1>7, <2>1, <2>2 DEF Statuses
<1>9. \A y \in Runs : ~MovesOn(y)
  <2> SUFFICES ASSUME NEW y \in Runs, MovesOn(y) PROVE FALSE
    OBVIOUS
  <2>1. ~Emptied(y)
    BY <1>0, <1>2 DEF Emptied
  <2>2. ASSUME NEW q \in {"active", "stranded"}, Marked(y, "owner", q) PROVE FALSE
    <3>1. run'[r] = [schedule |-> run[y].schedule, by |-> "owner", status |-> q]
      BY <1>2, <2>2 DEF Marked
    <3> QED
      BY <1>0, <3>1
  <2>3. ASSUME NEW q \in {"stranded", "escalated"}, run[y].status = "active", Marked(y, run[y].by, q)
        PROVE  FALSE
    BY <1>7, <2>3 DEF Statuses
  <2> QED
    BY <2>1, <2>2, <2>3 DEF MovesOn
<1>10. PICK d \in Dispatchers, y \in Runs : Enqueues(d, y)
  BY <1>3, <1>4, <1>5, <1>6, <1>8, <1>9 DEF Shape
<1>11. r = y /\ run'[y] = [schedule |-> job[d].schedule, by |-> "fire", status |-> "unsent"]
  BY <1>2, <1>10 DEF Enqueues, Filled
<1> QED
  BY <1>0, <1>10, <1>11

\* A step that does not enqueue for s gives s no other fired runs, and so
\* cannot raise their number.
LEMMA NoMoreFired ==
    ASSUME TypeOK, SlotHeld, Shape, NEW s \in Schedules,
           \A d \in Dispatchers, r \in Runs : Enqueues(d, r) => job[d].schedule # s
    PROVE  Cardinality(FiredRuns(s)') <= Cardinality(FiredRuns(s))
<1>1. FiredRuns(s)' \in SUBSET FiredRuns(s)
  BY FiredOnlyByEnqueue DEF FiredRuns, ActiveRuns
<1> QED
  BY <1>1, FiredIsFinite

\* The overlap policy of a created schedule is not written again, and it stays created.
LEMMA CreatedStays ==
    ASSUME TypeOK, Shape, NEW s \in Schedules, life[s] # "new"
    PROVE  life'[s] # "new" /\ Limit(s)' = Limit(s)
<1>1. ASSUME NEW x \in Schedules, Creates(x) PROVE life'[s] = life[s] /\ skip'[s] = skip[s]
  BY <1>1 DEF Creates
<1>2. ASSUME NEW x \in Schedules, Deletes(x) PROVE life'[s] # "new" /\ skip'[s] = skip[s]
  BY <1>2 DEF Deletes
<1>3. CASE UNCHANGED <<life, skip>>
  BY <1>3 DEF Limit
<1>4. \/ UNCHANGED <<life, skip>>
      \/ \E x \in Schedules : Creates(x) \/ Deletes(x)
  BY DEF Shape, Still, RunsByHand, LoadsFire, Decides, LetsGo, Sends, Enqueues, MovesOn
<1> QED
  BY <1>1, <1>2, <1>3, <1>4 DEF Limit

\* A dispatcher at work in the next state has a schedule there.
LEMMA AtWorkNext ==
    ASSUME TypeOK', NEW d \in Dispatchers, pc'[d] # "idle"
    PROVE  job'[d].schedule \in Schedules
<1>1. job'[d] \in Jobs
  BY DEF TypeOK
<1> QED
  BY <1>1 DEF Jobs

\* A dispatcher is past the gates in the next state because it was, or because it has
\* just decided on open gates.
LEMMA PassedBy ==
    ASSUME TypeOK, Shape, NEW s \in Schedules, NEW d \in Dispatchers, d \in Passed(s)',
           d \notin Passed(s)
    PROVE  Decides(d) /\ job[d].schedule = s /\ GatesOpen(s)
<1>0. pc'[d] = "enqueue" /\ job'[d].schedule = s
  BY DEF Passed
<1>1. ~(pc[d] = "enqueue" /\ job[d].schedule = s)
  BY DEF Passed
<1>2. ~UNCHANGED <<pc, job>> /\ \A e \in Dispatchers : OtherJobs(e) => e = d
  BY <1>0, <1>1 DEF OtherJobs
<1>3. Decides(d)
  BY <1>0, <1>2 DEF Shape, Still, Creates, Deletes, RunsByHand, LoadsFire, LetsGo, Sends,
     Enqueues, Decides, MovesOn
<1> QED
  BY <1>0, <1>3 DEF Decides

\* Only a created schedule has a dispatcher at work on it.
LEMMA WorkOnCreated ==
    ASSUME TypeOK, TypeOK', GatePassed, Shape, NEW d \in Dispatchers, pc'[d] # "idle"
    PROVE  life'[job'[d].schedule] # "new"
<1>1. CASE job'[d].schedule = job[d].schedule /\ pc[d] # "idle"
  BY <1>1, AtWork, CreatedStays DEF GatePassed
<1>2. CASE LoadsFire(d)
  BY <1>2 DEF LoadsFire, Live
<1>3. ASSUME NEW e \in Dispatchers, OtherJobs(e), e # d
      PROVE  job'[d].schedule = job[d].schedule /\ pc[d] # "idle"
  BY <1>3 DEF OtherJobs
<1>4. CASE Decides(d) \/ \E r \in Runs : Enqueues(d, r)
  BY <1>1, <1>4 DEF Decides, Enqueues
<1>5. CASE UNCHANGED <<pc, job>>
  BY <1>1, <1>5
<1>6. ~LetsGo(d) /\ ~Sends(d)
  BY DEF LetsGo, Sends
<1>7. \/ UNCHANGED <<pc, job>> \/ LoadsFire(d) \/ Decides(d) \/ LetsGo(d) \/ Sends(d)
      \/ \E r \in Runs : Enqueues(d, r)
      \/ \E e \in Dispatchers : e # d /\ OtherJobs(e)
  BY DEF Shape, Still, Creates, Deletes, RunsByHand, LoadsFire, Decides, LetsGo, Sends,
     Enqueues, MovesOn
<1> QED
  BY <1>1, <1>2, <1>3, <1>4, <1>5, <1>6, <1>7

\* Only a created schedule has fired runs.
LEMMA FiredOfCreated ==
    ASSUME TypeOK, SlotHeld, GatePassed, Shape, NEW s \in Schedules, NEW r \in Runs,
           r \in FiredRuns(s)'
    PROVE  life'[s] # "new"
<1>1. CASE r \in FiredRuns(s)
  BY <1>1, CreatedStays DEF GatePassed
<1>2. CASE r \notin FiredRuns(s)
  <2>1. PICK d \in Dispatchers : Enqueues(d, r) /\ job[d].schedule = s
    BY <1>2, FiredOnlyByEnqueue
  <2>2. life[s] # "new"
    BY <2>1 DEF Enqueues, Live
  <2> QED
    BY <2>2, CreatedStays
<1> QED
  BY <1>1, <1>2

\* Inserting a run turns one dispatcher past the gates into one fired run.
LEMMA EnqueueMovesOne ==
    ASSUME TypeOK, SlotHeld, Shape, NEW s \in Schedules, NEW d \in Dispatchers,
           NEW r \in Runs, Enqueues(d, r), job[d].schedule = s
    PROVE  /\ Cardinality(FiredRuns(s)') <= Cardinality(FiredRuns(s)) + 1
           /\ Cardinality(Passed(s)') <= Cardinality(Passed(s)) - 1
<1>1. FiredRuns(s)' \subseteq FiredRuns(s) \cup {r}
  <2> SUFFICES ASSUME NEW x \in Runs, x \in FiredRuns(s)', x # r PROVE x \in FiredRuns(s)
    BY DEF FiredRuns, ActiveRuns
  <2>1. run'[x] = run[x]
    BY DEF Enqueues, Filled, Others
  <2> QED
    BY <2>1 DEF FiredRuns, ActiveRuns
<1>2. IsFiniteSet(FiredRuns(s)) /\ Cardinality(FiredRuns(s)) \in Nat
  BY FiredIsFinite
<1>3. /\ IsFiniteSet(FiredRuns(s) \cup {r})
      /\ Cardinality(FiredRuns(s) \cup {r}) <= Cardinality(FiredRuns(s)) + 1
  <2>1. Cardinality(FiredRuns(s) \cup {r}) =
          IF r \in FiredRuns(s) THEN Cardinality(FiredRuns(s)) ELSE Cardinality(FiredRuns(s)) + 1
    BY <1>2, FS_AddElement
  <2>2. IsFiniteSet(FiredRuns(s) \cup {r})
    BY <1>2, FS_AddElement
  <2> QED
    BY <1>2, <2>1, <2>2
<1>4. Cardinality(FiredRuns(s)') <= Cardinality(FiredRuns(s) \cup {r})
  BY <1>1, <1>3, FS_Subset
<1>5. Cardinality(FiredRuns(s)') \in Nat /\ Cardinality(FiredRuns(s) \cup {r}) \in Nat
  BY <1>3, FiredIsFiniteNext, FS_CardinalityType
<1>6. d \in Passed(s) /\ Passed(s)' \subseteq Passed(s) \ {d}
  BY DEF Enqueues, OtherJobs, Passed
<1>7. IsFiniteSet(Passed(s)) /\ Cardinality(Passed(s)) \in Nat /\ Cardinality(Passed(s)') \in Nat
  BY PassedIsFinite
<1>8. IsFiniteSet(Passed(s) \ {d}) /\ Cardinality(Passed(s) \ {d}) = Cardinality(Passed(s)) - 1
  BY <1>6, <1>7, FS_RemoveElement
<1>9. Cardinality(Passed(s)') <= Cardinality(Passed(s) \ {d})
  BY <1>6, <1>8, FS_Subset
<1> QED
  BY <1>2, <1>3, <1>4, <1>5, <1>7, <1>8, <1>9

\* Every step keeps GatePassed.
LEMMA ShapeGatePassed ==
    ASSUME TypeOK, SlotHeld, GatePassed, Shape, TypeOK'
    PROVE  GatePassed'
<1> DEFINE D == Cardinality(Dispatchers)
           F(s) == Cardinality(FiredRuns(s))
           P(s) == Cardinality(Passed(s))
<1>1. ASSUME NEW s \in Schedules
      PROVE  Cardinality(FiredRuns(s)') + Cardinality(Passed(s)') <= Limit(s)' + (D - 1)
  <2>1. F(s) + P(s) <= Limit(s) + (D - 1)
    BY DEF GatePassed
  <2>2. /\ D \in Nat \ {0} /\ F(s) \in Nat /\ Cardinality(FiredRuns(s)') \in Nat
        /\ P(s) \in Nat /\ Cardinality(Passed(s)') \in Nat /\ Limit(s) \in Nat \ {0}
        /\ Cardinality(Passed(s)') <= D
    BY SomeDispatcher, FiredIsFinite, FiredIsFiniteNext, PassedIsFinite, LimitIsPositive
  <2>3. Limit(s)' \in Nat \ {0}
    BY CapAssumption DEF Limit, TypeOK
  <2> HIDE DEF D, F, P
  <2>4. CASE life[s] = "new"
    <3>1. ASSUME NEW r \in Runs, r \in FiredRuns(s)' PROVE FALSE
      <4>1. r \notin FiredRuns(s)
        BY <2>4 DEF GatePassed
      <4>2. PICK d \in Dispatchers : Enqueues(d, r) /\ job[d].schedule = s
        BY <3>1, <4>1, FiredOnlyByEnqueue
      <4> QED
        BY <2>4, <4>2 DEF Enqueues, Live
    <3>2. ASSUME NEW d \in Dispatchers, d \in Passed(s)' PROVE FALSE
      <4>1. d \notin Passed(s)
        BY <2>4 DEF Passed, GatePassed
      <4>2. Decides(d) /\ job[d].schedule = s
        BY <3>2, <4>1, PassedBy
      <4> QED
        BY <2>4, <4>2 DEF Decides, GatePassed
    <3>3. FiredRuns(s)' = {} /\ Passed(s)' = {}
      BY <3>1, <3>2 DEF FiredRuns, ActiveRuns, Passed
    <3>4. Cardinality(FiredRuns(s)') = 0 /\ Cardinality(Passed(s)') = 0
      BY <3>3, FS_EmptySet
    <3> QED
      BY <2>2, <2>3, <3>4
  <2>5. CASE life[s] # "new"
    <3>1. Limit(s)' = Limit(s)
      BY <2>5, CreatedStays
    <3>2. CASE \E d \in Dispatchers, r \in Runs : Enqueues(d, r) /\ job[d].schedule = s
      <4>1. Cardinality(FiredRuns(s)') <= F(s) + 1 /\ Cardinality(Passed(s)') <= P(s) - 1
        BY <3>2, EnqueueMovesOne DEF F, P
      <4> QED
        BY <2>1, <2>2, <3>1, <4>1
    <3>3. CASE \A d \in Dispatchers, r \in Runs : Enqueues(d, r) => job[d].schedule # s
      <4>1. Cardinality(FiredRuns(s)') <= F(s)
        BY <3>3, NoMoreFired DEF F
      <4>2. CASE Passed(s)' \subseteq Passed(s)
        <5>1. Cardinality(Passed(s)') <= P(s)
          BY <4>2, PassedIsFinite DEF P
        <5> QED
          BY <2>1, <2>2, <3>1, <4>1, <5>1
      <4>3. CASE ~(Passed(s)' \subseteq Passed(s))
        <5>1. PICK d \in Dispatchers : d \in Passed(s)' /\ d \notin Passed(s)
          BY <4>3 DEF Passed
        <5>2. GatesOpen(s)
          BY <5>1, PassedBy
        <5>3. F(s) < Limit(s)
          BY <5>2, GatesLeaveRoom DEF F
        <5> QED
          BY <2>2, <3>1, <4>1, <5>3
      <4> QED
        BY <4>2, <4>3
    <3> QED
      BY <3>2, <3>3
  <2> QED
    BY <2>4, <2>5
<1>2. \A d \in Dispatchers : pc'[d] # "idle" => life'[job'[d].schedule] # "new"
  BY WorkOnCreated
<1>3. \A r \in Runs : \A s \in Schedules : r \in FiredRuns(s)' => life'[s] # "new"
  BY FiredOfCreated
<1> QED
  BY <1>1, <1>2, <1>3 DEF GatePassed, D

\* The active runs that fires put on the queue exceed the limit of their schedule by at
\* most the other dispatchers, for every number of dispatchers, schedules and callers,
\* every cap, and whatever retries, crashes and redeliveries there are.
THEOREM GatesHold == Spec => []FiresDoNotStack
<1>1. Init => GatePassed
  <2> SUFFICES ASSUME Init PROVE GatePassed
    OBVIOUS
  <2>1. \A s : FiredRuns(s) = {} /\ Passed(s) = {}
    BY DEF Init, FiredRuns, ActiveRuns, Passed
  <2>2. \A s : Cardinality(FiredRuns(s)) = 0 /\ Cardinality(Passed(s)) = 0
    BY <2>1, FS_EmptySet
  <2>3. \A s \in Schedules : Limit(s) \in Nat \ {0}
    BY InitType, LimitIsPositive
  <2>4. \A s \in Schedules :
          Cardinality(FiredRuns(s)) + Cardinality(Passed(s))
            <= Limit(s) + (Cardinality(Dispatchers) - 1)
    BY <2>2, <2>3, SomeDispatcher
  <2> QED
    BY <2>1, <2>4 DEF GatePassed, Init
<1>2. (TypeOK /\ SlotHeld) /\ (TypeOK /\ SlotHeld)' /\ GatePassed /\ [Next]_vars => GatePassed'
  BY NextShape, ShapeGatePassed
<1>3. TypeOK /\ GatePassed => FiresDoNotStack
  <2> SUFFICES ASSUME TypeOK, GatePassed, NEW s \in Schedules
               PROVE  Cardinality(FiredRuns(s)) <= Limit(s) + (Cardinality(Dispatchers) - 1)
    BY DEF FiresDoNotStack
  <2> QED
    BY FiredIsFinite, PassedIsFinite, SomeDispatcher, LimitIsPositive DEF GatePassed
<1> QED
  BY <1>1, <1>2, <1>3, TypeHolds, PTL DEF Spec

(***************************************************************************)
(* While Redis answers and commits succeed, and no PATCH is empty, an       *)
(* enabled schedule has its entry.                                          *)
(***************************************************************************)

\* No request has an unlocked projection left to do.
NoLateProjection == \A c \in Callers : request[c].op # "project"

\* A step writes the row and the entry of at most the schedule s, and leaves s with an
\* entry if it leaves it enabled.
Agrees(s) ==
    /\ \A x \in Schedules \ {s} :
         life'[x] = life[x] /\ enabled'[x] = enabled[x] /\ entry'[x] = entry[x]
    /\ life'[s] = "live" /\ enabled'[s] => entry'[s]

\* Such a step keeps every enabled schedule projected.
LEMMA AgreesKeeps ==
    ASSUME EnabledIsProjected, NEW s \in Schedules, Agrees(s)
    PROVE  EnabledIsProjected'
BY DEF EnabledIsProjected, Agrees, Live

\* Without faults a projection is exact.
LEMMA ProjectExact ==
    ASSUME TypeOK, ~Faults, NEW s \in Schedules, NEW b, Project(s, b)
    PROVE  entry'[s] = b /\ \A x \in Schedules \ {s} : entry'[x] = entry[x]
BY DEF Project, TypeOK

\* The steps of a request.
LEMMA RequestProjects ==
    ASSUME ~Faults, ~NoopPatches, TypeOK, NoLateProjection, EnabledIsProjected,
           NEW c \in Callers, RequestStep(c)
    PROVE  NoLateProjection' /\ EnabledIsProjected'
<1> DEFINE s == request[c].schedule
<1>0. request \in [Callers -> Loads \cup {NoRequest}] /\ enabled \in [Schedules -> BOOLEAN]
      /\ life \in [Schedules -> {"new", "live", "deleted"}]
  BY DEF TypeOK
<1>1. ASSUME Reply(c) PROVE NoLateProjection'
  BY <1>0, <1>1 DEF Reply, NoRequest, NoLateProjection
<1>2. ASSUME UNCHANGED <<life, enabled, entry>> PROVE EnabledIsProjected'
  BY <1>2 DEF EnabledIsProjected, Live
<1>3. CASE LoadManaged(c)
  <2>1. PICK l \in Loads : l.op \in Ops /\ request' = [request EXCEPT ![c] = l]
    BY <1>3 DEF LoadManaged
  <2>2. l.op # "project"
    BY <2>1 DEF Ops, Patches
  <2>3. NoLateProjection'
    BY <1>0, <2>1, <2>2 DEF NoLateProjection
  <2> QED
    BY <1>2, <1>3, <2>3 DEF LoadManaged, rowVars
<1>4. CASE WriteMissing(c)
  BY <1>1, <1>2, <1>4 DEF WriteMissing, rowVars
<1>5. CASE Pause(c)
  <2>1. s \in Schedules
    BY <1>5, Served DEF Pause
  <2>2. /\ enabled' = [enabled EXCEPT ![s] = FALSE] /\ life' = life /\ Reply(c)
        /\ Project(s, FALSE)
    BY <1>5 DEF Pause, CommitFails
  <2> HIDE DEF s
  <2>3. Agrees(s)
    BY <1>0, <2>1, <2>2, ProjectExact DEF Agrees
  <2> QED
    BY <1>1, <2>1, <2>2, <2>3, AgreesKeeps
<1>6. CASE Resume(c)
  <2>1. s \in Schedules
    BY <1>6, Served DEF Resume
  <2>2. /\ enabled' = [enabled EXCEPT ![s] = TRUE] /\ life' = life /\ Reply(c)
        /\ Project(s, TRUE)
    BY <1>6 DEF Resume, CommitFails
  <2> HIDE DEF s
  <2>3. Agrees(s)
    BY <1>0, <2>1, <2>2, ProjectExact DEF Agrees
  <2> QED
    BY <1>1, <2>1, <2>2, <2>3, AgreesKeeps
<1>7. CASE Delete(c)
  <2>1. s \in Schedules
    BY <1>7, Served DEF Delete
  <2>2. /\ life' = [life EXCEPT ![s] = "deleted"] /\ enabled' = enabled /\ Reply(c)
        /\ Project(s, FALSE)
    BY <1>7 DEF Delete, CommitFails
  <2> HIDE DEF s
  <2>3. Agrees(s)
    BY <1>0, <2>1, <2>2, ProjectExact DEF Agrees
  <2> QED
    BY <1>1, <2>1, <2>2, <2>3, AgreesKeeps
<1>8. CASE RunNow(c)
  BY <1>1, <1>2, <1>8 DEF RunNow, rowVars
<1>9. CASE Update(c)
  <2>1. s \in Schedules
    BY <1>9, Served DEF Update, Patches
  <2> DEFINE e == RefreshedEnabled(request[c])
  <2>2. enabled' = [enabled EXCEPT ![s] = e] /\ life' = life /\ Reply(c) /\ Project(s, e)
    BY <1>0, <1>9, <2>1 DEF Update, CommitFails, RefreshedEnabled
  <2> HIDE DEF s, e
  <2>3. Agrees(s)
    BY <1>0, <2>1, <2>2, ProjectExact DEF Agrees
  <2> QED
    BY <1>1, <2>1, <2>2, <2>3, AgreesKeeps
<1>10. ~UpdateNothing(c) /\ ~ProjectRefreshed(c)
  BY DEF UpdateNothing, ProjectRefreshed, NoLateProjection
<1> QED
  BY <1>3, <1>4, <1>5, <1>6, <1>7, <1>8, <1>9, <1>10 DEF RequestStep, WriteLoaded

\* While Redis answers, commits succeed and no PATCH is empty, an enabled schedule has
\* its entry, for any number of schedules, requests, boots and dispatchers.
THEOREM EntriesFollowRows == ~Faults /\ ~NoopPatches /\ Spec => []EnabledIsProjected
<1> DEFINE P == NoLateProjection /\ EnabledIsProjected
<1>1. Init => P
  BY DEF Init, NoLateProjection, EnabledIsProjected, Live, NoRequest
<1>2. ASSUME ~Faults, ~NoopPatches, TypeOK, P, [Next]_vars PROVE P'
  <2>0. entry \in [Schedules -> BOOLEAN] /\ life \in [Schedules -> {"new", "live", "deleted"}]
        /\ enabled \in [Schedules -> BOOLEAN]
    BY <1>2 DEF TypeOK
  <2>1. ASSUME UNCHANGED <<life, enabled, entry, request>> PROVE P'
    BY <1>2, <2>1 DEF NoLateProjection, EnabledIsProjected, Live
  <2>2. ASSUME NEW s \in Schedules, Create(s) PROVE P'
    <3>1. PICK e \in BOOLEAN : enabled' = [enabled EXCEPT ![s] = e] /\ Project(s, e)
      BY <2>2 DEF Create
    <3>2. life' = [life EXCEPT ![s] = "live"] /\ UNCHANGED request
      BY <1>2, <2>2 DEF Create
    <3>3. Agrees(s)
      BY <1>2, <2>0, <3>1, <3>2, ProjectExact DEF Agrees
    <3> QED
      BY <1>2, <3>2, <3>3, AgreesKeeps DEF NoLateProjection
  <2>3. ASSUME NEW s \in Schedules, Tick(s) PROVE P'
    BY <2>1, <2>3 DEF Tick, rowVars
  <2>4. ASSUME NEW s \in Schedules, BootProject(s) PROVE P'
    <3>1. entry' = [entry EXCEPT ![s] = TRUE] /\ UNCHANGED <<life, enabled, request>>
      BY <1>2, <2>4 DEF BootProject, rowVars
    <3>2. Agrees(s)
      BY <2>0, <3>1 DEF Agrees
    <3> QED
      BY <1>2, <3>1, <3>2, AgreesKeeps DEF NoLateProjection
  <2>5. CASE LoseEntries \/ BootRead \/ UNCHANGED vars
    BY <1>2, <2>1, <2>5 DEF LoseEntries, BootRead, vars, rowVars
  <2>6. ASSUME NEW c \in Callers, RequestStep(c) PROVE P'
    BY <1>2, <2>6, RequestProjects
  <2>7. ASSUME NEW d \in Dispatchers, DispatchStep(d) PROVE P'
    BY <2>1, <2>7 DEF DispatchStep, LoadFire, IgnoreFire, Decide, Advance, Enqueue,
       AssistantUnavailable, DispatchRaises, Publish, Crash, rowVars
  <2>8. ASSUME NEW r \in Runs, RunEnds(r) \/ RunStrands(r) \/ OwnerDecides(r) PROVE P'
    BY <2>1, <2>8 DEF RunEnds, RunStrands, OwnerDecides, rowVars
  <2> QED
    BY <1>2, <2>2, <2>3, <2>4, <2>5, <2>6, <2>7, <2>8 DEF Next
<1>3. P => EnabledIsProjected
  OBVIOUS
<1> HIDE DEF P
<1>4. CASE ~Faults /\ ~NoopPatches
  <2>1. TypeOK /\ P /\ [Next]_vars => P'
    BY <1>2, <1>4
  <2> QED
    BY <1>1, <1>3, <2>1, StateIsTyped, PTL DEF Spec
<1> QED
  BY <1>4

-----------------------------------------------------------------------------
(***************************************************************************)
(* Direct uploads.                                                         *)
(***************************************************************************)

\* What the row alone says of the provider and of the document.
Ends ==
    /\ doc <=> row = "completed"
    /\ row \in {"none", "initiated"} => ~Stored
    /\ row \in Settled \cup {"deleted"} => mp # "open"
    /\ row \in {"aborted", "expired", "failed", "deleted"} /\ Stored => "kept" \in torn
    /\ row = "completed" => "erased" \in torn \/ RightLayout(object)
    /\ Stored => mp # "open"
    /\ object = Empty \/ object = Odd \/ RightLayout(object)
    /\ row \notin {"completed", "deleted"} => uploaded = 0
    /\ row = "completed" => uploaded = 1
    /\ uploaded <= 1

\* The targets of a transaction that takes the upload away, and the rows it starts from.
Removes(state, target) ==
    \/ target = "deleted" /\ state \in Active \cup Settled
    \/ target = "aborted" /\ state \in {"initiated", "failed"}
    \/ target = "expired" /\ state \in Active

\* What the transaction t has established by the time it is at its next step.
Reached(t) ==
    /\ t.pc = "insert" => row = "none"
    /\ t.pc = "mark" => row = "initiated"
    /\ t.pc = "relock" => t.target = "completed"
    /\ t.pc \in {"head", "assemble", "finalize"} => row = "completing" /\ t.target = "completed"
    /\ t.pc = "assemble" => ~Stored /\ RightLayout(t.manifest)
    /\ t.pc = "finalize" => Stored
    /\ t.pc = "discard" => row = "completing" /\ t.target = "failed" /\ mp # "open"
    /\ t.pc = "abort" => Removes(row, t.target)
    /\ t.pc = "erase" => Removes(row, t.target) /\ mp # "open"
    /\ t.pc = "commit" =>
         /\ mp # "open"
         /\ \/ t.target = "completed" /\ row = "completing" /\ RightLayout(object)
            \/ /\ (t.target = "failed" /\ row = "completing") \/ Removes(row, t.target)
               /\ Stored => "kept" \in torn

Boundary == \A p \in Procs : Reached(tx[p])

IInv == UploadTypeOK /\ Ends /\ Boundary

(***************************************************************************)
(* The shape of a step of one transaction.                                  *)
(***************************************************************************)

Waiting == {"idle", "relock"}
TxRecords == [pc : Pcs, op : UploadOps, manifest : Contents, target : Uploads]

\* Everything UploadTypeOK says but for the transactions and the lock.
Scalars ==
    /\ row \in Uploads /\ expired \in BOOLEAN /\ doc \in BOOLEAN
    /\ mp \in {"none", "open", "gone"} /\ parts \in Contents /\ object \in Contents
    /\ uploaded \in 0..2 /\ torn \subseteq {"erased", "kept"}
    /\ served \in 0..MaxRequests /\ puts \in 0..MaxPuts /\ faults \in 0..MaxFaults

\* Every transaction but p's is left alone, and p's becomes t.
TxIs(p, t) ==
    /\ \A q \in Procs \ {p} : tx'[q] = tx[q]
    /\ tx'[p] = t
    /\ tx' \in [Procs -> TxRecords]

\* p moves under the lock: it has it or nobody does, and it keeps it, or lets it go when
\* it is done or about to lock again.
Moves(p, t) ==
    /\ lock \in {p, None}
    /\ TxIs(p, t)
    /\ \/ lock' = p /\ t.pc \notin Waiting
       \/ lock' = None /\ t.pc \in Waiting

\* The contents of the store are well typed.
LEMMA EmptyType == Empty \in Contents /\ Odd \in Contents /\ Empty # Odd /\ ~RightLayout(Empty)
                   /\ ~RightLayout(Odd) /\ Manifests \subseteq Contents
<1>1. Empty \in Contents /\ Odd \in Contents
  BY DEF Empty, Odd, Contents, PartValues
<1>2. PICK n \in PartNumbers : TRUE
  BY UploadAssumption
<1>3. Empty[n] = "none" /\ Odd[n] = "short"
  BY DEF Empty, Odd
<1>4. Empty # Odd /\ ~RightLayout(Empty) /\ ~RightLayout(Odd)
  BY <1>3 DEF RightLayout
<1>5. Manifests \subseteq Contents
  BY DEF Manifests, Contents, PartValues
<1> QED
  BY <1>1, <1>4, <1>5

\* The way a transaction is written.
LEMMA TxWrites ==
    ASSUME UploadTypeOK, NEW p \in Procs
    PROVE  /\ \A t \in TxRecords : tx' = [tx EXCEPT ![p] = t] => TxIs(p, t)
           /\ \A at \in Pcs : tx' = [tx EXCEPT ![p].pc = at] =>
                TxIs(p, [pc |-> at, op |-> tx[p].op, manifest |-> tx[p].manifest,
                         target |-> tx[p].target])
           /\ \A at \in Pcs, target \in Uploads :
                tx' = [tx EXCEPT ![p].pc = at, ![p].target = target] =>
                TxIs(p, [pc |-> at, op |-> tx[p].op, manifest |-> tx[p].manifest,
                         target |-> target])
           /\ \A at \in Pcs, manifest \in Contents :
                tx' = [tx EXCEPT ![p].pc = at, ![p].manifest = manifest] =>
                TxIs(p, [pc |-> at, op |-> tx[p].op, manifest |-> manifest,
                         target |-> tx[p].target])
<1>0. tx \in [Procs -> TxRecords] /\ tx[p] \in TxRecords
  BY DEF UploadTypeOK, TxRecords
<1>1. ASSUME NEW t \in TxRecords, tx' = [tx EXCEPT ![p] = t] PROVE TxIs(p, t)
  BY <1>0, <1>1 DEF TxIs
<1>2. ASSUME NEW at \in Pcs PROVE
        /\ [tx[p] EXCEPT !.pc = at]
             = [pc |-> at, op |-> tx[p].op, manifest |-> tx[p].manifest, target |-> tx[p].target]
        /\ [tx[p] EXCEPT !.pc = at] \in TxRecords
  BY <1>0 DEF TxRecords
<1>3. ASSUME NEW at \in Pcs, tx' = [tx EXCEPT ![p].pc = at]
      PROVE  TxIs(p, [pc |-> at, op |-> tx[p].op, manifest |-> tx[p].manifest,
                      target |-> tx[p].target])
  <2> DEFINE y == [tx[p] EXCEPT !.pc = at]
  <2>1. tx' = [tx EXCEPT ![p] = y]
    BY <1>0, <1>3
  <2>2. y \in TxRecords /\ y = [pc |-> at, op |-> tx[p].op, manifest |-> tx[p].manifest,
                                target |-> tx[p].target]
    BY <1>2
  <2> HIDE DEF y
  <2> QED
    BY <1>1, <2>1, <2>2
<1>4. ASSUME NEW at \in Pcs, NEW target \in Uploads,
             tx' = [tx EXCEPT ![p].pc = at, ![p].target = target]
      PROVE  TxIs(p, [pc |-> at, op |-> tx[p].op, manifest |-> tx[p].manifest,
                      target |-> target])
  <2> DEFINE y == [tx[p] EXCEPT !.pc = at]  z == [y EXCEPT !.target = target]
  <2>1. tx' = [tx EXCEPT ![p] = z]
    BY <1>0, <1>4
  <2>2. y \in TxRecords /\ y = [pc |-> at, op |-> tx[p].op, manifest |-> tx[p].manifest,
                                target |-> tx[p].target]
    BY <1>2
  <2> HIDE DEF y
  <2>3. z \in TxRecords /\ z = [pc |-> at, op |-> tx[p].op, manifest |-> tx[p].manifest,
                                target |-> target]
    BY <2>2 DEF TxRecords
  <2> HIDE DEF z
  <2> QED
    BY <1>1, <2>1, <2>3
<1>5. ASSUME NEW at \in Pcs, NEW manifest \in Contents,
             tx' = [tx EXCEPT ![p].pc = at, ![p].manifest = manifest]
      PROVE  TxIs(p, [pc |-> at, op |-> tx[p].op, manifest |-> manifest,
                      target |-> tx[p].target])
  <2> DEFINE y == [tx[p] EXCEPT !.pc = at]  z == [y EXCEPT !.manifest = manifest]
  <2>1. tx' = [tx EXCEPT ![p] = z]
    BY <1>0, <1>5
  <2>2. y \in TxRecords /\ y = [pc |-> at, op |-> tx[p].op, manifest |-> tx[p].manifest,
                                target |-> tx[p].target]
    BY <1>2
  <2> HIDE DEF y
  <2>3. z \in TxRecords /\ z = [pc |-> at, op |-> tx[p].op, manifest |-> manifest,
                                target |-> tx[p].target]
    BY <2>2 DEF TxRecords
  <2> HIDE DEF z
  <2> QED
    BY <1>1, <2>1, <2>3
<1> QED
  BY <1>1, <1>3, <1>4, <1>5

\* The parts of an invariant after a step of p under the lock.
LEMMA MovesKeep ==
    ASSUME IInv, NEW p \in Procs, NEW t, Moves(p, t), Scalars', Ends',
           Reached(t)'
    PROVE  IInv'
<1>0. tx \in [Procs -> TxRecords] /\ \A q \in Procs : lock = q <=> tx[q].pc \notin Waiting
  BY DEF IInv, UploadTypeOK, TxRecords, Waiting
<1>1. None \notin Procs
  BY UploadAssumption DEF Procs
<1>2. \A q \in Procs \ {p} : tx'[q] = tx[q] /\ tx[q].pc \in Waiting
  BY <1>0, <1>1 DEF Moves, TxIs
<1>3. \A q \in Procs : lock' = q <=> tx'[q].pc \notin Waiting
  BY <1>1, <1>2 DEF Moves, TxIs
<1>4. UploadTypeOK'
  BY <1>3 DEF Scalars, UploadTypeOK, Moves, TxIs, TxRecords, Waiting
<1>5. ASSUME NEW q \in Procs PROVE Reached(tx[q])'
  <2>1. CASE q = p
    BY <2>1 DEF Moves, TxIs, Reached
  <2>2. CASE q # p
    <3>1. tx'[q] = tx[q] /\ tx[q].pc \in Waiting /\ Reached(tx[q])
      BY <1>2, <2>2 DEF IInv, Boundary
    <3> QED
      BY <3>1 DEF Reached, Waiting
  <2> QED
    BY <2>1, <2>2
<1> QED
  BY <1>4, <1>5 DEF IInv, Boundary

\* A step of p that writes neither the row nor the store.
LEMMA Steady ==
    ASSUME IInv, NEW p \in Procs, NEW t, Moves(p, t), Reached(t),
           UNCHANGED <<row, expired, doc, mp, parts, object, uploaded, torn>>,
           served' \in 0..MaxRequests, puts' \in 0..MaxPuts, faults' \in 0..MaxFaults
    PROVE  IInv'
<1>1. Scalars' /\ Ends'
  BY DEF IInv, UploadTypeOK, Scalars, Ends, Stored, RightLayout
<1>2. Reached(t)'
  BY DEF Reached, Stored, RightLayout
<1> QED
  BY <1>1, <1>2, MovesKeep

\* The counters stay within their bounds.
LEMMA Counters ==
    ASSUME UploadTypeOK
    PROVE  /\ served \in 0..MaxRequests /\ puts \in 0..MaxPuts /\ faults \in 0..MaxFaults
           /\ Serve => served' \in 0..MaxRequests
           /\ Fault => faults' \in 0..MaxFaults
           /\ puts < MaxPuts /\ puts' = puts + 1 => puts' \in 0..MaxPuts
BY UploadAssumption DEF UploadTypeOK, Serve, Fault

\* A transaction past its lock holds it, and has reached what Boundary says.
LEMMA Holds ==
    ASSUME IInv, NEW p \in Procs
    PROVE  /\ tx[p] \in TxRecords /\ Reached(tx[p])
           /\ tx[p].pc \notin Waiting => lock = p
BY DEF IInv, UploadTypeOK, Boundary, TxRecords, Waiting

\* The first steps of the requests and of the sweep.
LEMMA BeginKeeps ==
    ASSUME IInv, NEW p \in Procs, lock = None, NEW at \in Pcs \ Waiting, NEW op \in UploadOps,
           NEW target \in Uploads, Begin(p, at, op, target)
    PROVE  Moves(p, [pc |-> at, op |-> op, manifest |-> Empty, target |-> target])
<1> DEFINE t == [pc |-> at, op |-> op, manifest |-> Empty, target |-> target]
<1>1. t \in TxRecords /\ t.pc = at
  BY EmptyType DEF TxRecords
<1>2. [NoTx EXCEPT !.pc = at, !.op = op, !.target = target] = t
  <2> DEFINE y == [NoTx EXCEPT !.pc = at]  z == [y EXCEPT !.op = op]
  <2>1. y = [pc |-> at, op |-> "none", manifest |-> Empty, target |-> "none"]
    BY DEF NoTx
  <2> HIDE DEF y
  <2>2. z = [pc |-> at, op |-> op, manifest |-> Empty, target |-> "none"]
    BY <2>1
  <2>3. [NoTx EXCEPT !.pc = at, !.op = op, !.target = target] = [z EXCEPT !.target = target]
    BY DEF y
  <2> HIDE DEF z
  <2>4. [z EXCEPT !.target = target] = t
    BY <2>2
  <2> QED
    BY <2>3, <2>4
<1>3. tx' = [tx EXCEPT ![p] = t]
  BY <1>2 DEF Begin
<1> HIDE DEF t
<1>4. Moves(p, t)
  BY <1>1, <1>3, TxWrites DEF Moves, Begin, IInv
<1> QED
  BY <1>4 DEF t

\* Letting go.
LEMMA ReleaseKeeps ==
    ASSUME IInv, NEW p \in Procs, lock \in {p, None}, Release(p)
    PROVE  Moves(p, NoTx) /\ Reached(NoTx) /\ Reached(NoTx)'
<1>1. NoTx \in TxRecords /\ NoTx.pc = "idle"
  BY EmptyType DEF NoTx, TxRecords, Pcs, UploadOps, Uploads
<1>2. Moves(p, NoTx)
  BY <1>1, TxWrites DEF Release, Moves, Waiting, IInv
<1> QED
  BY <1>1, <1>2 DEF Reached

\* Going on to the next step under the lock.
LEMMA GotoKeeps ==
    ASSUME IInv, NEW p \in Procs, lock = p, lock' = p, NEW at \in Pcs \ Waiting, Proceed(p, at)
    PROVE  Moves(p, [pc |-> at, op |-> tx[p].op, manifest |-> tx[p].manifest,
                     target |-> tx[p].target])
BY TxWrites DEF Proceed, Moves, IInv

\* The steps that hold the lock.
LEMMA StateNames ==
    /\ {"insert", "mark", "head", "assemble", "finalize", "discard", "abort", "erase", "commit"}
         = Pcs \ Waiting
    /\ "relock" \in Pcs /\ "idle" \in Pcs
BY DEF Pcs, Waiting

\* The recovery or expiry a request begins with.
LEMMA PrepareStep ==
    ASSUME IInv, NEW p \in Procs, NEW op \in {"read", "abort", "complete"}, Prepare(p, op)
    PROVE  IInv'
<1>0. /\ lock = None /\ UNCHANGED <<row, expired, doc, mp, parts, object, uploaded, torn, puts, faults>>
      /\ served' \in 0..MaxRequests /\ op \in UploadOps
      /\ puts' \in 0..MaxPuts /\ faults' \in 0..MaxFaults
  BY Counters DEF Prepare, Idle, store, IInv, UploadOps
<1>1. CASE row = "completing" /\ Begin(p, "head", op, "completed")
  <2>1. PICK t : t = [pc |-> "head", op |-> op, manifest |-> Empty, target |-> "completed"]
    OBVIOUS
  <2>2. Moves(p, t)
    BY <1>0, <1>1, <2>1, BeginKeeps, StateNames DEF Uploads, Settled
  <2>3. Reached(t)
    BY <1>1, <2>1 DEF Reached
  <2> QED
    BY <1>0, <2>2, <2>3, Steady
<1>2. CASE Overdue /\ Begin(p, "abort", op, "expired")
  <2>1. PICK t : t = [pc |-> "abort", op |-> op, manifest |-> Empty, target |-> "expired"]
    OBVIOUS
  <2>2. Moves(p, t)
    BY <1>0, <1>2, <2>1, BeginKeeps, StateNames DEF Uploads, Settled
  <2>3. Reached(t)
    BY <1>2, <2>1 DEF Reached, Overdue, Removes, Active
  <2> QED
    BY <1>0, <2>2, <2>3, Steady
<1> QED
  BY <1>1, <1>2 DEF Prepare

\* The requests up to their first boundary.
LEMMA RequestStarts ==
    ASSUME IInv, NEW p \in Procs,
           \/ Initiate(p) \/ GetUpload(p) \/ SignParts(p) \/ AbortUpload(p) \/ CompleteUpload(p)
           \/ DeleteDocument(p) \/ DeleteCollection(p)
    PROVE  IInv'
<1>1. CASE Initiate(p)
  <2>1. PICK t : t = [pc |-> "insert", op |-> "initiate", manifest |-> Empty, target |-> "initiated"]
    OBVIOUS
  <2>2. Moves(p, t)
    BY <1>1, <2>1, BeginKeeps, StateNames DEF Initiate, Idle, Uploads, Active, UploadOps
  <2>3. Reached(t)'
    BY <1>1, <2>1 DEF Reached, Initiate
  <2>4. Scalars'
    BY <1>1, Counters DEF Initiate, Scalars, IInv, UploadTypeOK
  <2>5. Ends'
    BY <1>1 DEF Initiate, IInv, Ends, Stored, RightLayout, Settled
  <2> QED
    BY <2>2, <2>3, <2>4, <2>5, MovesKeep
<1>2. CASE GetUpload(p) \/ SignParts(p)
  BY <1>2, PrepareStep DEF GetUpload, SignParts
<1>3. CASE Prepare(p, "abort") \/ Prepare(p, "complete")
  BY <1>3, PrepareStep
<1>4. ASSUME lock = None, Serve,
             UNCHANGED <<row, expired, doc, mp, parts, object, uploaded, torn, puts, faults>>,
             NEW at \in Pcs \ Waiting, NEW op \in UploadOps, NEW target \in Uploads,
             Begin(p, at, op, target), at \in {"abort", "erase", "commit"}, Removes(row, target),
             at # "abort" => mp # "open",
             at = "commit" => (Stored => "kept" \in torn)
      PROVE  IInv'
  <2>1. PICK t : t = [pc |-> at, op |-> op, manifest |-> Empty, target |-> target]
    OBVIOUS
  <2>2. Moves(p, t)
    BY <1>4, <2>1, BeginKeeps
  <2>3. Reached(t)
    BY <1>4, <2>1 DEF Reached
  <2>4. served' \in 0..MaxRequests /\ puts' \in 0..MaxPuts /\ faults' \in 0..MaxFaults
    BY <1>4, Counters DEF IInv
  <2> QED
    BY <1>4, <2>2, <2>3, <2>4, Steady
<1>5. CASE Abort(p)
  <2>1. "abort" \in Pcs \ Waiting /\ "abort" \in UploadOps /\ "aborted" \in Uploads
    BY StateNames DEF UploadOps, Uploads, Settled
  <2>2. Removes(row, "aborted")
    BY <1>5 DEF Abort, Removes
  <2> QED
    BY <1>4, <1>5, <2>1, <2>2 DEF Abort, Idle, store
<1>6. CASE DeleteDocument(p)
  <2>1. "erase" \in Pcs \ Waiting /\ "deleteDocument" \in UploadOps /\ "deleted" \in Uploads
    BY StateNames DEF UploadOps, Uploads
  <2>2. Removes(row, "deleted") /\ mp # "open"
    BY <1>6 DEF DeleteDocument, Removes, IInv, Ends, Settled
  <2> QED
    BY <1>4, <1>6, <2>1, <2>2 DEF DeleteDocument, Idle, store
<1>7. CASE DeleteCollection(p)
  <2>1. PICK at : at = IF row \in Active THEN "abort" ELSE IF doc THEN "erase" ELSE "commit"
    OBVIOUS
  <2>2. at \in Pcs \ Waiting /\ "deleteCollection" \in UploadOps /\ "deleted" \in Uploads
    BY <2>1, StateNames DEF UploadOps, Uploads
  <2>3. Removes(row, "deleted")
    BY <1>7 DEF DeleteCollection, Removes
  <2>4. at \in {"abort", "erase", "commit"} /\ (at # "abort" => mp # "open")
    BY <1>7, <2>1 DEF DeleteCollection, IInv, Ends
  <2>5. at = "commit" => (Stored => "kept" \in torn)
    BY <1>7, <2>1 DEF DeleteCollection, IInv, Ends, Settled
  <2>6. /\ Begin(p, at, "deleteCollection", "deleted") /\ lock = None /\ Serve
        /\ UNCHANGED <<row, expired, doc, mp, parts, object, uploaded, torn, puts, faults>>
    BY <1>7, <2>1 DEF DeleteCollection, Idle, store
  <2> QED
    BY <1>4, <2>2, <2>3, <2>4, <2>5, <2>6
<1>8. ASSUME NEW manifest \in Manifests, Complete(p, manifest) PROVE IInv'
  <2>1. PICK t : t = [pc |-> "mark", op |-> "complete", manifest |-> manifest, target |-> "completing"]
    OBVIOUS
  <2>2. t \in TxRecords
    BY <2>1, EmptyType, StateNames DEF TxRecords, UploadOps, Uploads, Active
  <2>3. Moves(p, t)
    BY <1>8, <2>1, <2>2, TxWrites DEF Moves, Complete, Idle, Waiting, IInv
  <2>4. Reached(t)
    BY <1>8, <2>1 DEF Reached, Complete
  <2>5. served' \in 0..MaxRequests /\ puts' \in 0..MaxPuts /\ faults' \in 0..MaxFaults
    BY <1>8, Counters DEF IInv, Complete
  <2> QED
    BY <1>8, <2>3, <2>4, <2>5, Steady DEF Complete, store
<1> QED
  BY <1>1, <1>2, <1>3, <1>5, <1>6, <1>7, <1>8 DEF AbortUpload, CompleteUpload

\* The steps of a transaction across the provider's boundary.
LEMMA TransactionSteps ==
    ASSUME IInv, NEW p \in Procs, TxStep(p)
    PROVE  IInv'
<1>0. tx[p] \in TxRecords /\ Reached(tx[p]) /\ (tx[p].pc \notin Waiting => lock = p)
  BY Holds
<1>a. /\ tx[p].op \in UploadOps /\ tx[p].manifest \in Contents /\ tx[p].target \in Uploads
  BY <1>0 DEF TxRecords
<1>b. /\ served \in 0..MaxRequests /\ puts \in 0..MaxPuts /\ faults \in 0..MaxFaults
      /\ Fault => faults' \in 0..MaxFaults
  BY Counters DEF IInv
<1>c. ASSUME lock \in {p, None}, Release(p), faults' \in 0..MaxFaults,
             UNCHANGED <<row, expired, doc, mp, parts, object, uploaded, torn, served, puts>>
      PROVE  IInv'
  BY <1>b, <1>c, ReleaseKeeps, Steady
<1>1. CASE InsertUpload(p)
  <2>1. lock = p /\ row = "none"
    BY <1>0, <1>1 DEF InsertUpload, Reached, Waiting
  <2>2. Moves(p, NoTx) /\ Reached(NoTx)'
    BY <1>1, <2>1, ReleaseKeeps DEF InsertUpload
  <2>3. Scalars'
    BY <1>1 DEF InsertUpload, Scalars, IInv, UploadTypeOK, store, counters, Uploads, Active
  <2>4. Ends'
    BY <1>1, <2>1 DEF InsertUpload, IInv, Ends, Stored, RightLayout, Settled, store
  <2> QED
    BY <2>2, <2>3, <2>4, MovesKeep
<1>2. CASE Mark(p)
  <2>1. lock = p /\ row = "initiated"
    BY <1>0, <1>2 DEF Mark, Reached, Waiting
  <2>2. PICK t : t = [pc |-> "relock", op |-> tx[p].op, manifest |-> tx[p].manifest,
                      target |-> "completed"]
    OBVIOUS
  <2>3. Moves(p, t)
    BY <1>2, <2>1, <2>2, TxWrites, StateNames DEF Mark, Moves, Waiting, Uploads, Settled, IInv
  <2>4. Reached(t)'
    BY <2>2 DEF Reached
  <2>5. Scalars'
    BY <1>2 DEF Mark, Scalars, IInv, UploadTypeOK, store, counters, Uploads, Active
  <2>6. Ends'
    BY <1>2, <2>1 DEF Mark, IInv, Ends, Stored, RightLayout, Settled, store
  <2> QED
    BY <2>3, <2>4, <2>5, <2>6, MovesKeep
<1>3. CASE Relock(p)
  <2>1. CASE row = "completing"
    <3>1. PICK t : t = [pc |-> "head", op |-> tx[p].op, manifest |-> tx[p].manifest,
                        target |-> tx[p].target]
      OBVIOUS
    <3>2. Moves(p, t)
      BY <1>3, <2>1, <3>1, TxWrites, StateNames DEF Relock, Proceed, Moves, Waiting, IInv
    <3>3. Reached(t)
      BY <1>0, <1>3, <2>1, <3>1 DEF Reached, Relock
    <3> QED
      BY <1>3, <1>b, <3>2, <3>3, Steady DEF Relock, store, counters
  <2>2. CASE row # "completing"
    BY <1>3, <1>b, <1>c, <2>2 DEF Relock, store, counters
  <2> QED
    BY <2>1, <2>2
<1>4. ASSUME lock = p, Unrecoverable(p), row = "completing", faults' = faults,
             UNCHANGED <<row, expired, doc, mp, parts, object, uploaded, torn, served, puts>>
      PROVE  IInv'
  <2>1. CASE p = Janitor
    <3>1. PICK t : t = [pc |-> "abort", op |-> tx[p].op, manifest |-> tx[p].manifest,
                        target |-> "expired"]
      OBVIOUS
    <3>2. tx' = [tx EXCEPT ![p].pc = "abort", ![p].target = "expired"] /\ lock' = p
      BY <1>4, <2>1 DEF Unrecoverable
    <3>3. Moves(p, t)
      BY <1>4, <3>1, <3>2, TxWrites, StateNames DEF Moves, Waiting, Uploads, Settled, IInv
    <3>4. Reached(t)
      BY <1>4, <3>1 DEF Reached, Removes, Active
    <3> QED
      BY <1>4, <1>b, <3>3, <3>4, Steady
  <2>2. CASE p # Janitor
    BY <1>4, <1>b, <1>c, <2>2 DEF Unrecoverable
  <2> QED
    BY <2>1, <2>2
<1>5. CASE Head(p)
  <2>0. /\ lock = p /\ row = "completing" /\ tx[p].target = "completed"
        /\ UNCHANGED <<row, expired, doc, mp, parts, object, uploaded, torn, served, puts, faults>>
    BY <1>0, <1>5 DEF Head, Reached, Waiting, store, counters
  <2>1. CASE Stored
    <3>1. PICK t : t = [pc |-> "finalize", op |-> tx[p].op, manifest |-> tx[p].manifest,
                        target |-> tx[p].target]
      OBVIOUS
    <3>2. Moves(p, t)
      BY <1>5, <2>0, <2>1, <3>1, GotoKeeps, StateNames DEF Head
    <3>3. Reached(t)
      BY <2>0, <2>1, <3>1 DEF Reached
    <3> QED
      BY <1>b, <2>0, <3>2, <3>3, Steady
  <2>2. CASE /\ ~Stored /\ mp = "open" /\ RightLayout(parts)
             /\ tx' = [tx EXCEPT ![p].pc = "assemble", ![p].manifest = parts] /\ UNCHANGED lock
    <3>1. PICK t : t = [pc |-> "assemble", op |-> tx[p].op, manifest |-> parts,
                        target |-> tx[p].target]
      OBVIOUS
    <3>2. parts \in Contents
      BY DEF IInv, UploadTypeOK
    <3>3. Moves(p, t)
      BY <2>0, <2>2, <3>1, <3>2, TxWrites, StateNames DEF Moves, IInv, Waiting
    <3>4. Reached(t)
      BY <2>0, <2>2, <3>1 DEF Reached
    <3> QED
      BY <1>b, <2>0, <3>3, <3>4, Steady
  <2>3. CASE Unrecoverable(p)
    BY <1>4, <2>0, <2>3
  <2> QED
    BY <1>5, <2>1, <2>2, <2>3 DEF Head
<1>6. CASE Assemble(p)
  <2>0. /\ lock = p /\ row = "completing" /\ tx[p].target = "completed" /\ ~Stored
        /\ RightLayout(tx[p].manifest)
        /\ UNCHANGED <<row, expired, doc, uploaded, torn, served, puts>>
    BY <1>0, <1>6 DEF Assemble, Reached, Waiting
  <2>1. CASE mp = "open" /\ parts = tx[p].manifest
    <3>1. PICK content \in {parts, Odd} :
            object' = content /\ (IF content = Odd THEN Fault ELSE UNCHANGED faults)
      BY <1>6, <2>1 DEF Assemble
    <3>2. faults' \in 0..MaxFaults
      BY <1>b, <3>1
    <3>3. content \in Contents /\ content # Empty /\ (content = Odd \/ RightLayout(content))
      BY <2>0, <2>1, EmptyType DEF IInv, UploadTypeOK
    <3>4. mp' = "gone" /\ parts' = Empty /\ Proceed(p, "finalize") /\ lock' = p
      BY <1>6, <2>0, <2>1 DEF Assemble
    <3>5. PICK t : t = [pc |-> "finalize", op |-> tx[p].op, manifest |-> tx[p].manifest,
                        target |-> tx[p].target]
      OBVIOUS
    <3>6. Moves(p, t)
      BY <2>0, <3>4, <3>5, GotoKeeps, StateNames
    <3>7. Stored'
      BY <3>1, <3>3 DEF Stored, Empty
    <3>8. Reached(t)'
      BY <2>0, <3>5, <3>7 DEF Reached
    <3>9. Scalars'
      BY <2>0, <3>1, <3>2, <3>3, <3>4, EmptyType DEF Scalars, IInv, UploadTypeOK
    <3>10. object' = Odd \/ RightLayout(object)'
      BY <3>1, <3>3 DEF RightLayout
    <3>11. Ends'
      BY <2>0, <3>4, <3>10 DEF IInv, Ends, Settled, Odd
    <3> QED
      BY <3>6, <3>8, <3>9, <3>11, MovesKeep
  <2>2. CASE ~(mp = "open" /\ parts = tx[p].manifest)
    <3>1. /\ IF mp = "open" THEN Release(p) ELSE Unrecoverable(p)
          /\ UNCHANGED <<mp, parts, object, faults>>
      BY <1>6, <2>2 DEF Assemble, store
    <3> QED
      BY <1>4, <1>b, <1>c, <2>0, <3>1
  <2> QED
    BY <2>1, <2>2
<1>7. CASE Finalize(p)
  <2>0. /\ lock = p /\ row = "completing" /\ tx[p].target = "completed" /\ Stored
        /\ UNCHANGED <<row, expired, doc, mp, parts, object, lock, uploaded, torn, served, puts, faults>>
    BY <1>0, <1>7 DEF Finalize, Reached, Waiting, store, counters
  <2>1. mp # "open" /\ (object = Odd \/ RightLayout(object))
    BY <2>0 DEF IInv, Ends, Stored
  <2>2. CASE object = Odd
    <3>1. PICK t : t = [pc |-> "discard", op |-> tx[p].op, manifest |-> tx[p].manifest,
                        target |-> "failed"]
      OBVIOUS
    <3>2. tx' = [tx EXCEPT ![p].pc = "discard", ![p].target = "failed"]
      BY <1>7, <2>2 DEF Finalize
    <3>3. Moves(p, t)
      BY <2>0, <3>1, <3>2, TxWrites, StateNames DEF Moves, Waiting, Uploads, Settled, IInv
    <3>4. Reached(t)
      BY <2>0, <2>1, <3>1 DEF Reached
    <3> QED
      BY <1>b, <2>0, <3>3, <3>4, Steady
  <2>3. CASE object # Odd
    <3>1. PICK t : t = [pc |-> "commit", op |-> tx[p].op, manifest |-> tx[p].manifest,
                        target |-> tx[p].target]
      OBVIOUS
    <3>2. Moves(p, t)
      BY <1>7, <2>0, <2>3, <3>1, GotoKeeps, StateNames DEF Finalize
    <3>3. Reached(t)
      BY <2>0, <2>1, <2>3, <3>1 DEF Reached
    <3> QED
      BY <1>b, <2>0, <3>2, <3>3, Steady
  <2> QED
    BY <2>2, <2>3
<1>8. CASE Discard(p)
  <2>0. /\ lock = p /\ row = "completing" /\ tx[p].target = "failed" /\ mp # "open"
        /\ object' = Empty /\ Proceed(p, "commit")
        /\ UNCHANGED <<row, expired, doc, mp, parts, lock, uploaded, torn, served, puts, faults>>
    BY <1>0, <1>8 DEF Discard, Reached, Waiting, counters
  <2>1. PICK t : t = [pc |-> "commit", op |-> tx[p].op, manifest |-> tx[p].manifest,
                      target |-> tx[p].target]
    OBVIOUS
  <2>2. Moves(p, t)
    BY <2>0, <2>1, GotoKeeps, StateNames
  <2>3. ~Stored'
    BY <2>0 DEF Stored, Empty
  <2>4. Reached(t)'
    BY <2>0, <2>1, <2>3 DEF Reached
  <2>5. Scalars'
    BY <2>0, EmptyType DEF Scalars, IInv, UploadTypeOK
  <2>6. Ends'
    BY <2>0, <2>3 DEF IInv, Ends, Settled, Empty
  <2> QED
    BY <2>2, <2>4, <2>5, <2>6, MovesKeep
<1>9. CASE AbortMultipart(p)
  <2>0. /\ lock = p /\ Removes(row, tx[p].target) /\ mp' = "gone" /\ parts' = Empty
        /\ Proceed(p, "erase")
        /\ UNCHANGED <<row, expired, doc, object, lock, uploaded, torn, served, puts, faults>>
    BY <1>0, <1>9 DEF AbortMultipart, Reached, Waiting, counters
  <2>1. PICK t : t = [pc |-> "erase", op |-> tx[p].op, manifest |-> tx[p].manifest,
                      target |-> tx[p].target]
    OBVIOUS
  <2>2. Moves(p, t)
    BY <2>0, <2>1, GotoKeeps, StateNames
  <2>3. Reached(t)'
    BY <2>0, <2>1 DEF Reached, Removes
  <2>4. Scalars'
    BY <2>0, EmptyType DEF Scalars, IInv, UploadTypeOK
  <2>5. Ends'
    BY <2>0 DEF IInv, Ends, Stored, RightLayout, Empty, Odd
  <2> QED
    BY <2>2, <2>3, <2>4, <2>5, MovesKeep
<1>10. CASE Erase(p)
  <2>0. /\ lock = p /\ Removes(row, tx[p].target) /\ mp # "open" /\ Proceed(p, "commit")
        /\ UNCHANGED <<row, expired, doc, mp, parts, lock, uploaded, served, puts>>
    BY <1>0, <1>10 DEF Erase, Reached, Waiting
  <2>1. /\ object' = Empty \/ (object' = object /\ "kept" \in torn')
        /\ torn \subseteq torn' /\ torn' \subseteq {"erased", "kept"}
        /\ doc => (object' = object \/ "erased" \in torn')
        /\ faults' \in 0..MaxFaults
    BY <1>10, <1>b DEF Erase, IInv, UploadTypeOK
  <2>2. PICK t : t = [pc |-> "commit", op |-> tx[p].op, manifest |-> tx[p].manifest,
                      target |-> tx[p].target]
    OBVIOUS
  <2>3. Moves(p, t)
    BY <2>0, <2>2, GotoKeeps, StateNames
  <2>4. Stored' => Stored /\ object' = object /\ "kept" \in torn'
    BY <2>1 DEF Stored, Empty
  <2>5. Reached(t)'
    BY <2>0, <2>2, <2>4 DEF Reached, Removes
  <2>6. Scalars'
    BY <2>0, <2>1, EmptyType DEF Scalars, IInv, UploadTypeOK
  <2>7. /\ object' = Empty \/ object' = Odd \/ RightLayout(object)'
        /\ row = "completed" => "erased" \in torn' \/ RightLayout(object)'
    BY <2>1 DEF IInv, Ends, RightLayout
  <2>8. Ends'
    BY <2>0, <2>1, <2>4, <2>7 DEF IInv, Ends, Empty, Odd
  <2> QED
    BY <2>3, <2>5, <2>6, <2>8, MovesKeep
<1>11. CASE Commit(p)
  <2>0. /\ lock = p /\ mp # "open" /\ row' = tx[p].target /\ Release(p)
        /\ UNCHANGED <<expired, mp, parts, object, torn, served, puts, faults>>
    BY <1>0, <1>11 DEF Commit, Reached, Waiting, store, counters
  <2>1. Moves(p, NoTx) /\ Reached(NoTx)'
    BY <2>0, ReleaseKeeps
  <2>2. Stored' = Stored /\ RightLayout(object)' = RightLayout(object)
    BY <2>0 DEF Stored, RightLayout, Empty
  <2>3. CASE tx[p].target = "completed"
    <3>1. row = "completing" /\ RightLayout(object)
      BY <1>0, <1>11, <2>3 DEF Reached, Removes, Commit
    <3>2. doc = FALSE /\ uploaded = 0
      BY <3>1 DEF IInv, Ends, UploadTypeOK
    <3>3. doc' = TRUE /\ uploaded' = 1
      BY <1>11, <2>3, <3>2 DEF Commit
    <3>4. Ends'
      BY <2>0, <2>2, <2>3, <3>1, <3>3 DEF IInv, Ends
    <3>5. Scalars'
      BY <1>a, <2>0, <3>3 DEF Scalars, IInv, UploadTypeOK
    <3> QED
      BY <2>1, <3>4, <3>5, MovesKeep
  <2>4. CASE tx[p].target # "completed"
    <3>1. /\ (tx[p].target = "failed" /\ row = "completing") \/ Removes(row, tx[p].target)
          /\ Stored => "kept" \in torn
      BY <1>0, <1>11, <2>4 DEF Reached, Commit
    <3>2. /\ tx[p].target \in {"failed", "deleted", "aborted", "expired"}
          /\ tx[p].target # "deleted" => row \notin {"completed", "deleted"}
      BY <3>1 DEF Removes, Active, Settled
    <3>3. uploaded' = uploaded /\ (doc' = IF tx[p].target = "deleted" THEN FALSE ELSE doc)
      BY <1>11, <2>4 DEF Commit
    <3>4. doc' = FALSE
      BY <3>2, <3>3 DEF IInv, Ends, UploadTypeOK
    <3>5. Ends'
      BY <2>0, <2>2, <3>1, <3>2, <3>3, <3>4 DEF IInv, Ends, Settled
    <3>6. Scalars'
      BY <1>a, <2>0, <3>3, <3>4 DEF Scalars, IInv, UploadTypeOK
    <3> QED
      BY <2>1, <3>5, <3>6, MovesKeep
  <2> QED
    BY <2>3, <2>4
<1> QED
  BY <1>1, <1>2, <1>3, <1>5, <1>6, <1>7, <1>8, <1>9, <1>10, <1>11 DEF TxStep

\* Rollbacks, the sweep, the client, the clock and the provider.
LEMMA OtherSteps ==
    ASSUME IInv,
           \/ \E p \in Procs : RollBack(p) \/ InsertFails(p)
           \/ Sweep \/ Lapse \/ LifecycleReap
           \/ \E n \in PartNumbers, value \in PartValues \ {"none"} : PutPart(n, value)
           \/ UNCHANGED uploadVars
    PROVE  IInv'
<1>b. /\ served \in 0..MaxRequests /\ puts \in 0..MaxPuts /\ faults \in 0..MaxFaults
      /\ Fault => faults' \in 0..MaxFaults
      /\ puts < MaxPuts /\ puts' = puts + 1 => puts' \in 0..MaxPuts
  BY Counters DEF IInv
<1>1. ASSUME NEW p \in Procs, RollBack(p) PROVE IInv'
  <2>0. /\ tx[p].pc # "idle" /\ faults' \in 0..MaxFaults
        /\ UNCHANGED <<row, expired, doc, mp, parts, object, uploaded, torn, served, puts>>
    BY <1>1, <1>b DEF RollBack, store
  <2>1. CASE lock = p
    <3>1. Release(p)
      BY <1>1, <2>1 DEF RollBack, Release
    <3> QED
      BY <1>b, <2>0, <2>1, <3>1, ReleaseKeeps, Steady
  <2>2. CASE lock # p
    <3>1. tx[p].pc = "relock" /\ lock' = lock /\ tx' = [tx EXCEPT ![p] = NoTx]
      BY <1>1, <2>0, <2>2, Holds DEF RollBack, Waiting
    <3>2. NoTx \in TxRecords /\ NoTx.pc = "idle"
      BY EmptyType DEF NoTx, TxRecords, Pcs, UploadOps, Uploads
    <3>3. TxIs(p, NoTx)
      BY <3>1, <3>2, TxWrites DEF IInv
    <3>4. \A q \in Procs : lock' = q <=> tx'[q].pc \notin Waiting
      BY <2>2, <3>1, <3>2, <3>3 DEF TxIs, IInv, UploadTypeOK, Waiting
    <3>5. Scalars' /\ Ends'
      BY <1>b, <2>0 DEF IInv, UploadTypeOK, Scalars, Ends, Stored, RightLayout
    <3>6. UploadTypeOK'
      BY <3>1, <3>3, <3>4, <3>5 DEF IInv, UploadTypeOK, Scalars, TxIs, TxRecords, Waiting
    <3>7. ASSUME NEW q \in Procs PROVE Reached(tx[q])'
      <4>1. CASE q = p
        BY <3>2, <3>3, <4>1 DEF TxIs, Reached
      <4>2. CASE q # p
        <5>1. tx'[q] = tx[q] /\ Reached(tx[q])
          BY <3>3, <4>2 DEF TxIs, IInv, Boundary
        <5> QED
          BY <2>0, <5>1 DEF Reached, Stored, RightLayout
      <4> QED
        BY <4>1, <4>2
    <3> QED
      BY <3>5, <3>6, <3>7 DEF IInv, Boundary
  <2> QED
    BY <2>1, <2>2
<1>2. ASSUME NEW p \in Procs, InsertFails(p) PROVE IInv'
  <2>0. /\ lock = p /\ row = "none" /\ Release(p) /\ faults' \in 0..MaxFaults
        /\ UNCHANGED <<row, expired, doc, object, uploaded, torn, served, puts>>
        /\ (mp' = "gone" /\ parts' = Empty) \/ UNCHANGED <<mp, parts>>
    BY <1>2, <1>b, Holds DEF InsertFails, Reached, Waiting
  <2>1. Scalars'
    BY <2>0, EmptyType DEF Scalars, IInv, UploadTypeOK
  <2>2. Ends'
    BY <2>0 DEF IInv, Ends, Stored, RightLayout, Settled, Empty, Odd
  <2> QED
    BY <2>0, <2>1, <2>2, ReleaseKeeps, MovesKeep
<1>3. CASE Sweep
  <2>0. /\ lock = None /\ row \in Active /\ Janitor \in Procs
        /\ UNCHANGED <<row, expired, doc, mp, parts, object, uploaded, torn, served, puts, faults>>
    BY <1>3 DEF Sweep, Idle, store, counters, Procs
  <2>1. CASE row = "completing"
    <3>1. PICK t : t = [pc |-> "head", op |-> "expire", manifest |-> Empty, target |-> "completed"]
      OBVIOUS
    <3>2. Moves(Janitor, t)
      BY <1>3, <2>0, <2>1, <3>1, BeginKeeps, StateNames DEF Sweep, UploadOps, Uploads, Settled
    <3>3. Reached(t)
      BY <2>1, <3>1 DEF Reached
    <3> QED
      BY <1>b, <2>0, <3>2, <3>3, Steady
  <2>2. CASE row # "completing"
    <3>1. PICK t : t = [pc |-> "abort", op |-> "expire", manifest |-> Empty, target |-> "expired"]
      OBVIOUS
    <3>2. Moves(Janitor, t)
      BY <1>3, <2>0, <2>2, <3>1, BeginKeeps, StateNames DEF Sweep, UploadOps, Uploads, Settled
    <3>3. Reached(t)
      BY <2>0, <3>1 DEF Reached, Removes
    <3> QED
      BY <1>b, <2>0, <3>2, <3>3, Steady
  <2> QED
    BY <2>1, <2>2
<1>4. ASSUME UNCHANGED <<row, doc, object, lock, tx, uploaded, torn>>, Scalars',
             mp' = mp \/ mp' = "gone"
      PROVE  IInv'
  <2>1. Ends'
    BY <1>4 DEF IInv, Ends, Stored, RightLayout, Empty, Odd
  <2>2. UploadTypeOK'
    BY <1>4 DEF IInv, UploadTypeOK, Scalars
  <2>3. ASSUME NEW q \in Procs PROVE Reached(tx[q])'
    <3>1. Reached(tx[q]) /\ tx'[q] = tx[q]
      BY <1>4 DEF IInv, Boundary
    <3> QED
      BY <1>4, <3>1 DEF Reached, Stored, RightLayout, Empty
  <2> QED
    BY <2>1, <2>2, <2>3 DEF IInv, Boundary
<1>5. CASE Lapse
  BY <1>4, <1>5 DEF Lapse, store, counters, Scalars, IInv, UploadTypeOK
<1>6. CASE LifecycleReap
  BY <1>4, <1>6, EmptyType DEF LifecycleReap, counters, Scalars, IInv, UploadTypeOK
<1>7. ASSUME NEW n \in PartNumbers, NEW value \in PartValues \ {"none"}, PutPart(n, value)
      PROVE  IInv'
  <2>1. parts' \in Contents
    BY <1>7 DEF PutPart, IInv, UploadTypeOK, Contents
  <2>2. Scalars'
    BY <1>7, <1>b, <2>1 DEF PutPart, Scalars, IInv, UploadTypeOK
  <2> QED
    BY <1>4, <1>7, <2>2 DEF PutPart
<1>8. CASE UNCHANGED uploadVars
  BY <1>4, <1>8 DEF uploadVars, Scalars, IInv, UploadTypeOK
<1> QED
  BY <1>1, <1>2, <1>3, <1>5, <1>6, <1>7, <1>8

\* Nothing has been uploaded at first.
LEMMA InitHolds == UploadInit => IInv
<1> SUFFICES ASSUME UploadInit PROVE IInv
  OBVIOUS
<1>1. NoTx \in TxRecords /\ NoTx.pc = "idle"
  BY EmptyType DEF NoTx, TxRecords, Pcs, UploadOps, Uploads
<1>2. \A p \in Procs : tx[p] = NoTx
  BY DEF UploadInit
<1>3. UploadTypeOK
  <2>1. tx \in [Procs -> TxRecords]
    BY <1>1 DEF UploadInit
  <2>2. None \notin Procs
    BY UploadAssumption DEF Procs
  <2>3. \A p \in Procs : lock = p <=> tx[p].pc \notin {"idle", "relock"}
    BY <1>1, <1>2, <2>2 DEF UploadInit
  <2>4. served \in 0..MaxRequests /\ puts \in 0..MaxPuts /\ faults \in 0..MaxFaults
    BY UploadAssumption DEF UploadInit
  <2>5. row \in Uploads /\ lock \in Procs \cup {None} /\ parts \in Contents /\ object \in Contents
    BY EmptyType DEF UploadInit, Uploads
  <2>6. expired \in BOOLEAN /\ doc \in BOOLEAN
    BY DEF UploadInit
  <2>7. mp \in {"none", "open", "gone"} /\ uploaded \in 0..2
    BY DEF UploadInit
  <2>8. torn \subseteq {"erased", "kept"}
    BY DEF UploadInit
  <2> QED
    BY <2>1, <2>3, <2>4, <2>5, <2>6, <2>7, <2>8 DEF UploadTypeOK, TxRecords
<1>4. Ends
  BY DEF UploadInit, Ends, Stored, Settled
<1>5. Boundary
  BY <1>1, <1>2 DEF Boundary, Reached
<1> QED
  BY <1>3, <1>4, <1>5 DEF IInv

\* IInv holds in every reachable state.
LEMMA InvariantHolds == UploadSpec => []IInv
<1>1. IInv /\ [UploadNext]_uploadVars => IInv'
  BY RequestStarts, TransactionSteps, OtherSteps DEF UploadNext
<1> QED
  BY <1>1, InitHolds, PTL DEF UploadSpec

\* An upload is whole however its requests, its deletion and the janitor overlap and
\* wherever a transaction rolls back: one document with its bytes, or nothing at all.
THEOREM UploadsAreWhole == UploadSpec => []UploadIsWhole
<1>1. IInv => UploadIsWhole
  BY DEF IInv, UploadTypeOK, Ends, Settled, UploadIsWhole, DocumentHasBytes, NothingStranded, CreatedOnce
<1> QED
  BY <1>1, InvariantHolds, PTL

\* A finished session never opens again: only the owner's deletion, or the abort of a
\* failed one, still writes its row.
THEOREM SettledIsFinal == UploadSpec => SettledStays
<1>1. IInv /\ [UploadNext]_uploadVars =>
        [(row \in Settled /\ row' # row) => \/ row' = "deleted"
                                            \/ row = "failed" /\ row' = "aborted"]_uploadVars
  <2> SUFFICES ASSUME IInv, UploadNext, row \in Settled, row' # row
               PROVE  row' = "deleted" \/ (row = "failed" /\ row' = "aborted")
    BY DEF uploadVars
  <2>1. PICK p \in Procs : InsertUpload(p) \/ Mark(p) \/ Commit(p)
    BY DEF UploadNext, Initiate, GetUpload, SignParts, AbortUpload, Prepare, Abort, CompleteUpload,
       Complete, TxStep, Relock, Head, Assemble, Finalize, Discard, AbortMultipart, Erase,
       RollBack, InsertFails, DeleteDocument, DeleteCollection, Sweep, Lapse, LifecycleReap, PutPart
  <2>2. Reached(tx[p])
    BY Holds
  <2>3. ~InsertUpload(p) /\ ~Mark(p)
    BY <2>2 DEF InsertUpload, Mark, Reached, Settled
  <2>4. tx[p].pc = "commit" /\ row' = tx[p].target
    BY <2>1, <2>3 DEF Commit
  <2>5. Removes(row, tx[p].target)
    BY <2>2, <2>4 DEF Reached, Settled
  <2> QED
    BY <2>4, <2>5 DEF Removes, Active, Settled
<1> QED
  BY <1>1, InvariantHolds, PTL DEF UploadSpec, SettledStays
=============================================================================
