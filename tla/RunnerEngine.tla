---------------------------- MODULE RunnerEngine ----------------------------
(***************************************************************************)
(* The sandbox runner's engine for one chat session: the process that holds *)
(* the Docker socket.  ensure and execute_existing hold the session's lock;  *)
(* close and cancel take none, for they are the way out of an execution that *)
(* does not end; every execution with a budget has a timer thread that       *)
(* removes its container.  Finished results are cached by generation and     *)
(* execution, so that a repeated request does not run the code twice.        *)
(*                                                                         *)
(* Packages, input files, streams and archives are abstracted to whether     *)
(* their step succeeds and to the bytes the result retains.                  *)
(***************************************************************************)
EXTENDS Integers, Sequences, SequencesExt, FiniteSetsExt, SeqFilter

CONSTANTS
    Generations, Executions,
    MaxCachedResults, MaxCachedResultBytes,   \* _MAX_CACHED_RESULTS, _MAX_CACHED_RESULT_BYTES
    MaxResultBytes,                           \* the largest result, under the byte cap
    MaxRequests, MaxCloses,                   \* bounds of this model
    NoJob

ASSUME RunnerAssumption ==
    /\ MaxCachedResults \in Nat \ {0} /\ MaxResultBytes \in Nat \ {0}
    /\ MaxCachedResultBytes \in Nat /\ MaxCachedResultBytes >= MaxResultBytes
    /\ MaxRequests \in Nat /\ MaxCloses \in Nat

VARIABLES
    box,          \* the container of each generation
    processes,    \* the keys whose code has live processes in a container
    job,          \* the request that holds the session's lock, or NoJob
    timers,       \* keys whose timer thread may still fire
    closing,      \* teardowns between removing containers and forgetting results
    cache,        \* _results: keys, oldest first
    cacheBytes,   \* _result_bytes: what it records of each key, zero for no entry
    requests, closes,
    stopped,      \* history: executions a finished teardown found and stopped
    evictions,    \* history: what the cache held when a result was evicted
    misfires,     \* history: timers that removed the container of another execution
    unremoved     \* history: a container the daemon refused to destroy

runnerVars == <<box, processes, job, timers, closing, cache, cacheBytes, requests, closes,
                stopped, evictions, misfires, unremoved>>

ResultKeys == Generations \X Executions
Boxes == {"absent", "stopped", "running"}
ResultStates == {"none", "succeeded", "failed", "killed", "timeout"}
Jobs == [key : ResultKeys, pc : {"snapshot", "prepare", "stage", "run", "classify", "collect", "clean", "except",
                      "settle", "remember"},
         status : ResultStates, limit : BOOLEAN, expired : BOOLEAN, raised : BOOLEAN]

ASSUME NoJobAssumption == NoJob \notin Jobs

RunnerTypeOK ==
    /\ box \in [Generations -> Boxes] /\ processes \in SUBSET ResultKeys
    /\ job \in Jobs \cup {NoJob} /\ timers \in SUBSET ResultKeys /\ closing \in SUBSET Generations
    /\ cache \in Seq(ResultKeys) /\ IsInjective(cache)
    /\ cacheBytes \in [ResultKeys -> 0..MaxResultBytes]
    \* a cached result is always counted, though not everything counted is cached
    /\ \A i \in DOMAIN cache : cacheBytes[cache[i]] # 0
    /\ requests \in 0..MaxRequests /\ closes \in 0..MaxCloses
    /\ stopped \in SUBSET ResultKeys /\ misfires \in SUBSET (ResultKeys \X ResultKeys) /\ unremoved \in BOOLEAN

RunnerInit ==
    /\ box = [g \in Generations |-> "absent"] /\ processes = {} /\ job = NoJob
    /\ timers = {} /\ closing = {} /\ cache = <<>> /\ cacheBytes = [k \in ResultKeys |-> 0]
    /\ requests = 0 /\ closes = 0 /\ stopped = {} /\ evictions = {} /\ misfires = {}
    /\ unremoved = FALSE

Bytes(keys) == MapThenSumSet(LAMBDA k : cacheBytes[k], keys)
Generation(k) == k[1]
Locked == job # NoJob
Running(g) == box[g] = "running"
ContainersExist == \E g \in Generations : box[g] # "absent"

-----------------------------------------------------------------------------
(* Containers *)

\* container.remove(force=True, v=True) ends every process of the container.
Destroy(gens) ==
    /\ box' = [g \in Generations |-> IF g \in gens THEN "absent" ELSE box[g]]
    /\ processes' = {k \in processes : Generation(k) \notin gens}

Keep == UNCHANGED <<box, processes>>

\* _remove, which the daemon may refuse.
TryDestroy(g) == Destroy({g}) \/ (Running(g) /\ Keep)
Survived(g) == box'[g] = "running"

\* _ensure_unlocked: the other generations go; the generation's own container stays and is
\* started, unless its runtime or its bounds are not the ones asked for.
Ensured(g) == [h \in Generations |-> IF h = g THEN "running" ELSE "absent"]
Reuse(g) ==
    /\ box[g] # "absent" /\ box' = Ensured(g)
    /\ processes' = {k \in processes : Generation(k) = g /\ Running(g)}

\* A new container under the configured runtime, from an image the host has, ...
Launch(g) == box' = Ensured(g) /\ processes' = {}

\* ... refused for either, or removed again because its bounds cannot be verified.
LaunchFails == Destroy(Generations)

Ensure(g) ==
    /\ ~Locked /\ requests < MaxRequests
    /\ requests' = requests + 1
    /\ Reuse(g) \/ Launch(g) \/ LaunchFails
    /\ UNCHANGED <<job, timers, closing, cache, cacheBytes, closes, stopped, evictions,
                   misfires, unremoved>>

\* A container that exits by itself or is stopped on the host.
Stop(g) ==
    /\ Running(g)
    /\ box' = [box EXCEPT ![g] = "stopped"]
    /\ processes' = {k \in processes : Generation(k) # g}
    /\ UNCHANGED <<job, timers, closing, cache, cacheBytes, requests, closes, stopped,
                   evictions, misfires, unremoved>>

-----------------------------------------------------------------------------
(* One execution, under the session's lock *)

Now(pc) == job' = [job EXCEPT !.pc = pc]
At(pc) == Locked /\ job.pc = pc
Mine == Generation(job.key)

\* An exception on the way to the finally and except clauses.
Raise(pc) == job' = [job EXCEPT !.pc = pc, !.raised = TRUE]

\* The budget ran out in the queue: no code runs and the container goes.
QueueExpired(k) ==
    /\ Destroy({Generation(k)})
    /\ job' = [key |-> k, pc |-> "remember", status |-> "timeout", limit |-> TRUE,
               expired |-> TRUE, raised |-> FALSE]
    /\ UNCHANGED timers

\* The deadline and its timer thread, if the execution or its session has a budget.
StartDeadline(k) ==
    /\ job' = [key |-> k, pc |-> "snapshot", status |-> "none", limit |-> FALSE,
               expired |-> FALSE, raised |-> FALSE]
    /\ \E budgeted \in BOOLEAN : timers' = IF budgeted THEN timers \cup {k} ELSE timers
    /\ Keep

\* execute_existing: a cached result answers, a missing container refuses, and otherwise
\* the execution begins.
Cached(k) == k \in ToSet(cache)
ExecuteExisting(k) ==
    /\ ~Locked /\ requests < MaxRequests
    /\ ~Cached(k) /\ box[Generation(k)] # "absent"
    /\ requests' = requests + 1
    /\ stopped' = stopped \ {k}
    /\ StartDeadline(k) \/ QueueExpired(k)
    /\ UNCHANGED <<closing, cache, cacheBytes, closes, evictions, misfires, unremoved>>

StepVars == <<timers, closing, cache, cacheBytes, requests, closes, stopped, evictions, misfires>>

\* _snapshot_processes: the identities the cleanup must spare.
Snapshot ==
    /\ At("snapshot") /\ Keep
    /\ \/ Running(Mine) /\ ~job.expired /\ Now("prepare")
       \/ Raise("except")
    /\ UNCHANGED <<StepVars, unremoved>>

\* The wheels are downloaded on the runner and refused there, before any is staged, if
\* one of them is denied; then they are copied into the container and installed.
Acquire == \/ Running(Mine) /\ ~job.expired /\ Now("stage")
           \/ Raise("clean")
InstallPackages ==
    /\ At("prepare") /\ Acquire /\ Keep
    /\ UNCHANGED <<StepVars, unremoved>>

\* The inputs and main.py are staged and the model's code starts.
Stage ==
    /\ At("stage")
    /\ \/ /\ Running(Mine) /\ ~job.expired /\ Now("run")
          /\ processes' = processes \cup {job.key} /\ UNCHANGED box
       \/ Raise("clean") /\ Keep
    /\ UNCHANGED <<StepVars, unremoved>>

\* _exec_streaming returns; the code's descendants may live on.
RunEnds ==
    /\ At("run") /\ Now("classify") /\ Keep
    /\ UNCHANGED <<StepVars, unremoved>>

\* Status and limit of the finished code, or an error of the exec itself.
Outcomes == {<<"killed", TRUE>>, <<"failed", TRUE>>, <<"failed", FALSE>>, <<"succeeded", FALSE>>,
             <<"succeeded", TRUE>>}
Classify ==
    /\ At("classify") /\ Keep
    /\ \/ \E o \in Outcomes : /\ Running(Mine) /\ ~job.expired
                              /\ job' = [job EXCEPT !.pc = "collect", !.status = o[1], !.limit = o[2]]
       \/ /\ ~Running(Mine) \/ job.expired
          /\ job' = [job EXCEPT !.pc = "collect", !.status = "killed"]
       \/ Running(Mine) /\ Raise("clean")
    /\ UNCHANGED <<StepVars, unremoved>>

\* stop_processes kills everything the snapshot does not name; it skips a container it
\* cannot see running, which an expired deadline makes of every container.
CleanedNothing(k) == processes
Cleaned(k) == processes \ {k}

\* _collect_outputs: whether outputs are missing or over the budget.
Collections == {TRUE, FALSE}
Collect ==
    /\ At("collect")
    /\ \/ /\ Running(Mine) /\ ~job.expired
          /\ processes' = Cleaned(job.key) /\ UNCHANGED box
          /\ \E partial \in Collections :
                job' = [job EXCEPT !.pc = "settle", !.limit = job.limit \/ (partial /\ job.status # "killed")]
       \/ /\ Running(Mine) /\ Raise("clean") /\ Keep
       \/ /\ ~Running(Mine) \/ job.expired
          /\ Now("settle") /\ Keep
    /\ UNCHANGED <<StepVars, unremoved>>

\* The finally clause: a cleanup that fails takes the container with it.
Clean ==
    /\ At("clean")
    /\ \/ /\ Running(Mine) /\ ~job.expired
          /\ processes' = Cleaned(job.key) /\ UNCHANGED <<box, unremoved>> /\ Now("except")
       \/ /\ Running(Mine) /\ ~job.expired
          /\ TryDestroy(Mine) /\ unremoved' = (unremoved \/ Survived(Mine))
          /\ Raise("except")
       \/ /\ ~Running(Mine) \/ job.expired
          /\ UNCHANGED <<box, processes, unremoved>> /\ Now("except")
    /\ UNCHANGED StepVars

\* The except clause: an expired deadline or a message that names a resource makes the
\* exception a failed result; any other is raised once the timer is gone.
Except ==
    /\ At("except") /\ Keep
    /\ \/ /\ job.expired
          /\ job' = [job EXCEPT !.pc = "settle", !.raised = FALSE, !.status = "failed"]
       \/ /\ ~job.expired
          /\ job' = [job EXCEPT !.pc = "settle", !.raised = FALSE, !.status = "failed", !.limit = TRUE]
       \/ ~job.expired /\ Now("settle")
    /\ UNCHANGED <<StepVars, unremoved>>

\* timer.cancel() and timer.join(), then what the deadline and the limits ask for.
JoinedNever(k) == timers
Joined(k) == timers \ {k}
SettleExecution ==
    /\ At("settle")
    /\ timers' = Joined(job.key)
    /\ LET status == IF job.expired THEN "timeout" ELSE job.status
           limit  == (job.limit \/ job.expired) /\ ~job.raised
       IN  /\ IF limit /\ Running(Mine) THEN TryDestroy(Mine) ELSE Keep
           /\ unremoved' = (unremoved \/ (limit /\ Running(Mine) /\ Survived(Mine)))
           /\ job' = [job EXCEPT !.pc = "remember", !.limit = limit,
                        !.status = IF limit /\ status = "succeeded" THEN "failed" ELSE status,
                        !.raised = job.raised \/ (limit /\ Running(Mine) /\ Survived(Mine))]
    /\ UNCHANGED <<closing, cache, cacheBytes, requests, closes, stopped, evictions, misfires>>

\* The timer thread: it expires the deadline and removes the container it was given, an
\* error of the daemon suppressed.
Expire(k) ==
    /\ k \in timers
    /\ timers' = timers \ {k}
    /\ TryDestroy(Generation(k)) \/ (~Running(Generation(k)) /\ Keep)
    /\ misfires' = IF Locked /\ job.key # k /\ Generation(k) = Mine
                   THEN misfires \cup {<<k, job.key>>} ELSE misfires
    /\ job' = IF Locked /\ job.key = k THEN [job EXCEPT !.expired = TRUE] ELSE job
    /\ UNCHANGED <<closing, cache, cacheBytes, requests, closes, stopped, evictions, unremoved>>

-----------------------------------------------------------------------------
(* The cache of results *)

\* The loop of _remember, for n results dropped from the oldest end.
Counted(bytes) == MapThenSumSet(LAMBDA k : bytes[k], {k \in ResultKeys : bytes[k] # 0})
Dropping(bytes, keys) == [k \in ResultKeys |-> IF k \in keys THEN 0 ELSE bytes[k]]
Fits(kept, bytes) == Len(kept) <= MaxCachedResults /\ Counted(bytes) <= MaxCachedResultBytes
EvictedByCount(entries, bytes) == IF Len(entries) > MaxCachedResults THEN 1 ELSE 0
Evicted(entries, bytes) ==
    CHOOSE n \in 0..Len(entries) :
        /\ n = Len(entries) \/ Fits(SubSeq(entries, n + 1, Len(entries)),
                                    Dropping(bytes, ToSet(SubSeq(entries, 1, n))))
        /\ \A i \in 0..(n - 1) : ~Fits(SubSeq(entries, i + 1, Len(entries)),
                                       Dropping(bytes, ToSet(SubSeq(entries, 1, i))))

\* A killed execution is not remembered, and one that raised has no result.
Remember ==
    /\ At("remember")
    /\ job' = NoJob
    /\ IF job.raised \/ job.status = "killed"
       THEN UNCHANGED <<cache, cacheBytes, evictions>>
       ELSE \E size \in 1..MaxResultBytes :
              LET entries == IF Cached(job.key) THEN cache ELSE Append(cache, job.key)
                  bytes   == [cacheBytes EXCEPT ![job.key] = size]
                  n       == Evicted(entries, bytes)
              IN  /\ cache' = SubSeq(entries, n + 1, Len(entries))
                  /\ cacheBytes' = Dropping(bytes, ToSet(SubSeq(entries, 1, n)))
                  /\ evictions' = IF n = 0 THEN evictions
                                  ELSE evictions \cup {[count |-> Len(entries),
                                         bytes |-> MapThenSumSet(LAMBDA k : bytes[k], ToSet(entries))]}
    /\ Keep
    /\ UNCHANGED <<timers, closing, requests, closes, stopped, misfires, unremoved>>

-----------------------------------------------------------------------------
(* close and cancel, without the lock *)

\* What a teardown of the generation finds under way.
Begun(g) == {k \in ResultKeys : Generation(k) = g /\ (k \in processes \/ (Locked /\ job.key = k))}

\* Mutant: a teardown that reports a refused removal as done.
CloseRemovesRegardless(g) ==
    /\ closes < MaxCloses /\ g \notin closing
    /\ closes' = closes + 1
    /\ Destroy({g}) \/ (Running(g) /\ Keep)
    /\ closing' = closing \cup {g}
    /\ stopped' = stopped \cup Begun(g)
    /\ UNCHANGED <<job, timers, cache, cacheBytes, requests, evictions, misfires, unremoved>>

\* The containers first: one the daemon refuses ends the call, its results still cached.
CloseRemoves(g) ==
    /\ closes < MaxCloses /\ g \notin closing
    /\ closes' = closes + 1
    /\ \/ /\ Destroy({g})
          /\ closing' = closing \cup {g}
          /\ stopped' = stopped \cup Begun(g)
       \/ Running(g) /\ Keep /\ UNCHANGED <<closing, stopped>>
    /\ UNCHANGED <<job, timers, cache, cacheBytes, requests, evictions, misfires, unremoved>>

\* Then the results of the generation; _result_bytes keeps counting them.
CloseForgets(g) ==
    /\ g \in closing
    /\ closing' = closing \ {g}
    /\ cache' = Filtered(cache, {k \in ResultKeys : Generation(k) # g})
    /\ UNCHANGED <<box, processes, job, timers, cacheBytes, requests, closes, stopped,
                   evictions, misfires, unremoved>>

RunnerNext ==
    \/ \E g \in Generations : Ensure(g) \/ Stop(g) \/ CloseRemoves(g) \/ CloseForgets(g)
    \/ \E k \in ResultKeys : ExecuteExisting(k) \/ Expire(k)
    \/ Snapshot \/ InstallPackages \/ Stage \/ RunEnds \/ Classify \/ Collect \/ Clean \/ Except \/ SettleExecution \/ Remember

RunnerSpec == RunnerInit /\ [][RunnerNext]_runnerVars

-----------------------------------------------------------------------------
(* Properties *)

\* The cache holds no more than its two caps, whatever was remembered, evicted and closed:
\* what keeps the holder of the Docker socket under its memory limit.
CacheWithinCaps ==
    Len(cache) <= MaxCachedResults /\ Bytes(ToSet(cache)) <= MaxCachedResultBytes

\* Between two executions nothing of the earlier one lives on in a reusable container,
\* through failed preparation, errors, limits and expired deadlines, unless the daemon
\* refused to destroy the container.
NoStrayProcesses ==
    unremoved \/ processes \subseteq (IF Locked THEN {job.key} ELSE {})

\* A timer only ever removes the container of its own execution, though the next one may
\* run in the same container.
TimersHitTheirOwn == misfires = {}

\* Code a finished teardown found is no longer running, although the teardown does not
\* wait for the lock the execution holds.
ClosedIsStopped == processes \cap {k \in stopped : Generation(k) \notin closing} = {}

\* The runner is contained: its cache within the caps (CacheWithinCaps), no code
\* left over (NoStrayProcesses, ClosedIsStopped) and no timer on the wrong
\* execution (TimersHitTheirOwn).
RunnerIsContained ==
    RunnerTypeOK /\ CacheWithinCaps /\ NoStrayProcesses /\ TimersHitTheirOwn /\ ClosedIsStopped

\* What the comment at the byte cap says: it is above the largest result, so a repeated
\* request finds its answer; a result leaves the cache only when the results in it
\* exceed a cap.
EvictsOnlyWhenFull ==
    \A e \in evictions : e.count > MaxCachedResults \/ e.bytes > MaxCachedResultBytes
=============================================================================
