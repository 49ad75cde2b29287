----------------------------- MODULE ToolCalls -----------------------------
(***************************************************************************)
(* The tool calls of one answer: chat_runtime._run_tool_batch schedules     *)
(* them, services/tools/runner governs, executes and records each one, and  *)
(* services/tools/gate asks the tenant's tool policy.                       *)
(*                                                                          *)
(* The calls of the answer are numbered as the model asks for them; the     *)
(* first Cut of them are its first turn, the rest its second.  A call is    *)
(* known by its kind: "read" (a static T0 tool), "search" (web_search),     *)
(* "unknown" (a name nothing resolves), "write" (write_file, T1), "exec"    *)
(* (run_python, T2), "mcp" (a read-only dynamic tool) and "mcpWrite" (a     *)
(* dynamic T2 tool).  The two audit events and the tool_invocations row of  *)
(* a call are one entry of the trace: they are written under one lock.      *)
(***************************************************************************)
EXTENDS SeqFilter, Naturals, FiniteSets, SequencesExt

CONSTANTS N,           \* calls the model makes in the answer
          Plans,       \* the calls it may make, as functions from 1..N to kinds
          Concurrency, \* tool_concurrency
          MaxExternal, \* max_external_calls
          MaxEdits,    \* bound: changes of the tool policy
          MaxMishaps   \* bound: failures and interruptions

ASSUME ToolAssumption ==
    /\ N \in Nat \ {0} /\ Concurrency \in Nat \ {0}
    /\ MaxExternal \in Nat /\ MaxEdits \in Nat /\ MaxMishaps \in Nat

Calls == 1..N
Kinds == {"read", "search", "unknown", "write", "exec", "mcp", "mcpWrite"}
ASSUME PlansAssumption == Plans \subseteq [Calls -> Kinds]
\* Tools an administrator can write a policy row for (has_tool).
Governed == {"search", "write", "exec"}
Policies == {"absent", "enabled", "approval", "off"}

VARIABLES kind, cut, autonomy, \* the run's configuration
          policy,     \* tenant_tool_policies
          allowed,    \* the runner's allow-list, resolved as the answer starts
          approval,   \* approval_required_tools, resolved with it
          pc,         \* where _run_tool_batch is
          turn, used, \* tool turns begun, external_calls_used
          w,          \* the runs: where each call is
          outcome,    \* what each call came to
          ordinal, claimed, next, aborted, \* the persistence coordinator
          lock,       \* the call that holds the persist gate, 0 for none
          web,        \* the shared web search: its task and its waiters
          finished,   \* fan-out tasks that ended, in the order they did
          trace,      \* the trace written in the answer's transaction
          intents, settled, \* durable TOOL_INVOKED and TOOL_RESULT events
          envelopes,  \* tool_call and tool_result envelopes
          ran, granted, \* handlers started; the policy that let them (history)
          searches,   \* searches sent upstream (history)
          stopped, answer, edits, mishaps

config == <<kind, cut, autonomy, allowed, approval>>
gateVars == <<ordinal, claimed, next, aborted, lock>>
durable == <<trace, intents, settled>>
history == <<ran, granted, searches>>
toolVars == <<config, policy, pc, turn, used, w, outcome, gateVars, web, finished,
              durable, envelopes, history, stopped, answer, edits, mishaps>>

Of(k) == {c \in Calls : kind[c] \in k}
TurnCalls == IF turn = 1 THEN 1..cut ELSE (cut + 1)..N
\* The registry's definitions.
ReadOnly(k) == k \in {"read", "search"}
Dynamic(k) == k \in {"mcp", "mcpWrite"}
RequiresApproval(k) == k \in {"exec", "mcpWrite"}
WriteTier(k) == k \in {"exec", "mcpWrite"}
External(k) == k \in {"search", "mcp", "mcpWrite"}

\* effective_tool_decision over the policy row of a tool.
Row(k) == IF k \in Governed THEN policy[k] ELSE "absent"
DecidedEnabled(row) == row # "off"
DecidedApproval(row, k) == IF row = "absent" THEN RequiresApproval(k) ELSE row = "approval"

\* ToolRunner.is_concurrency_safe, and the fan-out set of the batch.
ConcurrencySafe(c) == ReadOnly(kind[c]) \/ kind[c] = "unknown"
Safe == {c \in TurnCalls : ConcurrencySafe(c)}
FanOut == IF Concurrency > 1 /\ Cardinality(Safe) > 1 THEN Safe ELSE {}
Serial == TurnCalls \ FanOut
RequiresCallScope(c) == ReadOnly(kind[c]) /\ kind[c] \in allowed

\* The order in which a set of calls is dispatched: call order.
InOrder(S) ==
    CHOOSE s \in [1..Cardinality(S) -> S] :
       /\ \A c \in S : \E i \in 1..Cardinality(S) : s[i] = c
       /\ \A i, j \in 1..Cardinality(S) : i < j => s[i] < s[j]
\* The place of a call in that order.
PlaceOf(c, S) == CHOOSE i \in 1..Cardinality(S) : InOrder(S)[i] = c
NoSearch == [task |-> "none", waiters |-> {}]

ToolInit ==
    /\ kind \in Plans /\ cut \in 1..N
    /\ autonomy \in {"draft", "act_with_approval", "act_auto"}
    /\ policy \in [Governed -> Policies]
    \* Only what the answer uses is told apart.
    /\ \A k \in Governed : Of({k}) = {} => policy[k] = "absent"
    /\ (Of({"write"}) = {}) => autonomy = "act_auto"
    /\ allowed = {k \in Kinds \ {"unknown"} : k \in Governed => DecidedEnabled(policy[k])}
    /\ approval = {k \in Governed : policy[k] = "approval"}
    /\ pc = "turn" /\ turn = 0 /\ used = 0
    /\ w = [c \in Calls |-> "idle"] /\ outcome = [c \in Calls |-> "none"]
    /\ ordinal = [c \in Calls |-> 0] /\ claimed = 0 /\ next = 0 /\ aborted = FALSE /\ lock = 0
    /\ web = NoSearch /\ finished = <<>>
    /\ trace = <<>> /\ intents = {} /\ settled = {} /\ envelopes = <<>>
    /\ ran = {} /\ granted = [c \in Calls |-> "none"] /\ searches = 0
    /\ stopped = FALSE /\ answer = "open" /\ edits = 0 /\ mishaps = 0

---------------------------------------------------------------------------
(* The environment *)

\* ToolPolicyService.set_policy, while the answer runs.
SetPolicy ==
    /\ edits < MaxEdits /\ answer = "open"
    /\ \E k \in Governed, p \in Policies \ {"absent"} :
          /\ Of({k}) # {} /\ policy[k] # p
          /\ policy' = [policy EXCEPT ![k] = p]
    /\ edits' = edits + 1
    /\ UNCHANGED <<config, pc, turn, used, w, outcome, gateVars, web, finished,
                   durable, envelopes, history, stopped, answer, mishaps>>

\* The user's Stop: noticed where _check_cancelled is called.
Stop ==
    /\ ~stopped /\ answer = "open" /\ mishaps < MaxMishaps
    /\ stopped' = TRUE /\ mishaps' = mishaps + 1
    /\ UNCHANGED <<config, policy, pc, turn, used, w, outcome, gateVars, web, finished,
                   durable, envelopes, history, answer, edits>>

---------------------------------------------------------------------------
(* _run_tool_batch: the coroutine of the answer *)

\* The answer ends: its transaction is committed or rolled back.
Ends(how, kept) == answer' = how /\ trace' = kept /\ pc' = "end"

\* Mutant: the external budget is per turn.
BeginTurnEachBudget ==
    /\ pc = "turn" /\ turn < 2 /\ ~stopped
    /\ LET batch == IF turn = 0 THEN 1..cut ELSE (cut + 1)..N
           ext == Cardinality({c \in batch : External(kind[c])})
       IN  IF batch = {} \/ ext > MaxExternal
           THEN pc' = "answer" /\ UNCHANGED <<turn, used>>
           ELSE pc' = "calls" /\ turn' = turn + 1 /\ used' = ext
    /\ finished' = <<>>
    /\ UNCHANGED <<config, policy, w, outcome, gateVars, web, durable, envelopes, history,
                   stopped, answer, edits, mishaps>>

\* A tool turn: the external-call budget, then the batch.  A batch that would
\* exceed the budget ends the tool phase, and the answer is written without it.
BeginTurn ==
    /\ pc = "turn" /\ turn < 2 /\ ~stopped
    /\ LET batch == IF turn = 0 THEN 1..cut ELSE (cut + 1)..N
           ext == Cardinality({c \in batch : External(kind[c])})
       IN  IF batch = {} \/ used + ext > MaxExternal
           THEN pc' = "answer" /\ UNCHANGED <<turn, used>>
           ELSE pc' = "calls" /\ turn' = turn + 1 /\ used' = used + ext
    /\ finished' = <<>>
    /\ UNCHANGED <<config, policy, w, outcome, gateVars, web, durable, envelopes, history,
                   stopped, answer, edits, mishaps>>

\* The fan-out: every tool_call is published, then the ordinals are claimed in
\* call order and the workers created, with no suspension between.
Dispatch ==
    /\ pc = "calls"
    /\ envelopes' = envelopes \o [i \in 1..Cardinality(FanOut) |-> <<"call", InOrder(FanOut)[i]>>]
    /\ ordinal' = [c \in Calls |->
                     IF c \in FanOut THEN claimed + PlaceOf(c, FanOut) - 1 ELSE ordinal[c]]
    /\ claimed' = claimed + Cardinality(FanOut)
    /\ w' = [c \in Calls |-> IF c \in FanOut THEN "govern" ELSE w[c]]
    /\ pc' = IF FanOut = {} THEN "serial" ELSE "collect"
    /\ UNCHANGED <<config, policy, turn, used, outcome, next, aborted, lock, web, finished, durable,
                   history, stopped, answer, edits, mishaps>>

\* as_completed: the next task that ended.  A worker that raised, or a Stop,
\* sends the batch to its error path.
Collect ==
    /\ pc = "collect" /\ finished # <<>>
    /\ LET c == Head(finished)
       IN  IF w[c] = "raised" \/ stopped
           THEN pc' = "cancel" /\ UNCHANGED <<envelopes, finished>>
           ELSE /\ envelopes' = Append(envelopes, <<"result", c>>)
                /\ finished' = Tail(finished)
                /\ pc' = IF \A d \in FanOut : <<"result", d>> \in Range(envelopes') THEN "serial" ELSE pc
    /\ UNCHANGED <<config, policy, turn, used, w, outcome, gateVars, web, durable, history,
                   stopped, answer, edits, mishaps>>

\* A serial call: its tool_call, and the ordinal claimed as its run begins.
BeginSerial ==
    /\ pc = "serial" /\ ~stopped
    /\ LET left == {c \in Serial : w[c] = "idle"}
       IN  IF left = {} THEN pc' = "turn" /\ UNCHANGED <<envelopes, w, ordinal, claimed>>
           ELSE LET c == Min(left)
                IN  /\ envelopes' = Append(envelopes, <<"call", c>>)
                    /\ w' = [w EXCEPT ![c] = "govern"]
                    /\ ordinal' = [ordinal EXCEPT ![c] = claimed] /\ claimed' = claimed + 1
                    /\ pc' = "run"
    /\ UNCHANGED <<config, policy, turn, used, outcome, next, aborted, lock, web, finished,
                   durable, history, stopped, answer, edits, mishaps>>

\* Its result, or what the run raised.
EndSerial(c) ==
    /\ pc = "run" /\ c \in Serial /\ w[c] \in {"done", "raised"}
    /\ <<"result", c>> \notin Range(envelopes)
    /\ IF w[c] = "raised" \/ stopped THEN Ends("rolledback", <<>>) /\ UNCHANGED envelopes
       ELSE envelopes' = Append(envelopes, <<"result", c>>) /\ pc' = "serial" /\ UNCHANGED <<answer, trace>>
    /\ UNCHANGED <<config, policy, turn, used, w, outcome, gateVars, web, finished,
                   intents, settled, history, stopped, edits, mishaps>>

\* _check_cancelled finds the Stop.
NoticeStop ==
    /\ stopped /\ pc \in {"turn", "serial", "answer"}
    /\ Ends("rolledback", <<>>)
    /\ UNCHANGED <<config, policy, turn, used, w, outcome, gateVars, web, finished,
                   intents, settled, envelopes, history, stopped, edits, mishaps>>

\* The answer's own commit.
Commit ==
    /\ \/ pc = "answer"
       \/ pc = "turn" /\ turn = 2
    /\ ~stopped
    /\ Ends("committed", trace)
    /\ UNCHANGED <<config, policy, turn, used, w, outcome, gateVars, web, finished,
                   intents, settled, envelopes, history, stopped, edits, mishaps>>

\* Mutant: the rejected answer takes its trace with it.
RejectContextWhole ==
    /\ pc = "turn" /\ turn = 1 /\ trace # <<>> /\ ~stopped
    /\ Ends("rejected", <<>>)
    /\ UNCHANGED <<config, policy, turn, used, w, outcome, gateVars, web, finished,
                   intents, settled, envelopes, history, stopped, edits, mishaps>>

\* context_too_large: the transaction is rolled back, and the trace of the tools
\* that did run is restored in one of its own.
RejectContext ==
    /\ pc = "turn" /\ turn = 1 /\ trace # <<>> /\ ~stopped
    /\ Ends("rejected", trace)
    /\ UNCHANGED <<config, policy, turn, used, w, outcome, gateVars, web, finished,
                   intents, settled, envelopes, history, stopped, edits, mishaps>>

\* The producer is cancelled (its deadline, a shutdown) or a publish fails,
\* while it waits for its workers.
Interrupt ==
    /\ pc = "collect" /\ mishaps < MaxMishaps
    /\ pc' = "cancel" /\ mishaps' = mishaps + 1
    /\ UNCHANGED <<config, policy, turn, used, w, outcome, gateVars, web, finished,
                   durable, envelopes, history, stopped, answer, edits>>

\* A publish or a model call fails, or the producer is cancelled, where no tool
\* runs.
RuntimeFails ==
    /\ pc \in {"turn", "calls", "serial", "answer"} /\ mishaps < MaxMishaps
    /\ Ends("rolledback", <<>>) /\ mishaps' = mishaps + 1
    /\ UNCHANGED <<config, policy, turn, used, w, outcome, gateVars, web, finished,
                   intents, settled, envelopes, history, stopped, edits>>

---------------------------------------------------------------------------
(* The error path of the fan-out *)

\* The persist gate is given up, and the coordinator moves on, whether the write
\* was made, failed or was interrupted (the finally of _finalise).
Advance == next' = next + 1 /\ lock' = 0

\* Where task.cancel() takes a worker: out of its shared search, out of its
\* handler or its wait for a slot (into the finalise of a cancelled call), out
\* of the persist gate, or straight out.
Cancelled(pcw) ==
    CASE pcw \in {"scope", "execute", "await", "closing"} -> "cancelled"
      [] pcw \in {"govern", "finalise", "persist"} -> "raised"
      [] OTHER -> pcw

\* Mutant: the last waiter does not cancel the search.
LeaveSearchRunning(S) ==
    LET left == web.waiters \ S
    IN  [web EXCEPT !.waiters = left]

\* The shared search after some of its waiters have left: the last one to leave
\* cancels the task.
LeaveSearch(S) ==
    LET left == web.waiters \ S
    IN  IF left = {} /\ web.task = "running"
        THEN NoSearch
        ELSE [web EXCEPT !.waiters = left]

\* Every task is cancelled.
CancelWorkers ==
    /\ pc = "cancel"
    /\ w' = [c \in Calls |-> IF c \in FanOut THEN Cancelled(w[c]) ELSE w[c]]
    /\ web' = LeaveSearch(FanOut)
    /\ IF lock # 0 THEN Advance ELSE UNCHANGED <<next, lock>>
    /\ pc' = "abort"
    /\ UNCHANGED <<config, policy, turn, used, outcome, ordinal, claimed, aborted, finished,
                   durable, envelopes, history, stopped, answer, edits, mishaps>>

\* Mutant: the waiters of the persist gate are not released.
AbortWithoutRelease ==
    /\ pc = "abort"
    /\ aborted' = aborted /\ pc' = "gather"
    /\ UNCHANGED <<config, policy, turn, used, w, outcome, ordinal, claimed, next, lock, web, finished,
                   durable, envelopes, history, stopped, answer, edits, mishaps>>

\* abort_persistence.
Abort ==
    /\ pc = "abort"
    /\ aborted' = TRUE /\ pc' = "gather"
    /\ UNCHANGED <<config, policy, turn, used, w, outcome, ordinal, claimed, next, lock, web, finished,
                   durable, envelopes, history, stopped, answer, edits, mishaps>>

\* gather, and the exception is raised again: the transaction is rolled back.
Gather ==
    /\ pc = "gather"
    /\ \A c \in FanOut : w[c] \in {"done", "raised"}
    /\ Ends("rolledback", <<>>)
    /\ UNCHANGED <<config, policy, turn, used, w, outcome, gateVars, web, finished,
                   intents, settled, envelopes, history, stopped, edits, mishaps>>

---------------------------------------------------------------------------
(* ToolRunner: one call *)

\* A fan-out worker leaves: its task is done.
Left(c, at) ==
    /\ w' = [w EXCEPT ![c] = at]
    /\ finished' = IF c \in FanOut /\ pc = "collect" THEN Append(finished, c) ELSE finished

\* The worker's own _check_cancelled finds the Stop.
StopWorker(c) ==
    /\ w[c] = "govern" /\ c \in FanOut /\ stopped
    /\ Left(c, "raised")
    /\ UNCHANGED <<config, policy, pc, turn, used, outcome, gateVars, web,
                   durable, envelopes, history, stopped, answer, edits, mishaps>>

\* Mutant: the gate answers from the rows the answer started with.
GateAllowsAsStarted(k) ==
    IF Row(k) = "absent" THEN ~DecidedApproval("absent", k) ELSE k \notin approval

\* PolicyApprovalGate.request: the row is read again for every call.
GateAllows(k) ==
    IF Row(k) = "absent" THEN ~DecidedApproval("absent", k)
    ELSE DecidedEnabled(Row(k)) /\ ~DecidedApproval(Row(k), k)
\* Whether the gate is asked, and what autonomy refuses before it.
AsksGate(k) == RequiresApproval(k) \/ k = "write" \/ k \in approval
AutonomyDenies(k) == k = "write" /\ autonomy = "draft"

\* _run_governed up to the handler: unknown and unlisted names, unusable
\* arguments, autonomy, the approval gate; an approval that authorises a
\* write-tier call goes on to its intent, and every refusal to the finalise.
Govern(c) ==
    LET k == kind[c]
        refused == \/ k = "unknown" \/ k \notin allowed \/ AutonomyDenies(k)
                   \/ AsksGate(k) /\ ~GateAllows(k)
    IN  /\ w[c] = "govern" /\ ~(c \in FanOut /\ stopped)
        /\ \/ /\ refused
              /\ outcome' = [outcome EXCEPT ![c] = "denied"] /\ w' = [w EXCEPT ![c] = "finalise"]
              /\ UNCHANGED granted
           \/ \* validate_arguments
              /\ k # "unknown" /\ k \in allowed
              /\ outcome' = [outcome EXCEPT ![c] = "denied"] /\ w' = [w EXCEPT ![c] = "finalise"]
              /\ UNCHANGED granted
           \/ /\ ~refused
              /\ granted' = [granted EXCEPT ![c] = IF AsksGate(k) THEN Row(k) ELSE "none"]
              /\ w' = [w EXCEPT ![c] = IF AsksGate(k) /\ WriteTier(k) THEN "intent"
                                       ELSE IF c \in FanOut /\ RequiresCallScope(c) THEN "scope"
                                       ELSE "execute"]
              /\ UNCHANGED outcome
        /\ UNCHANGED <<config, policy, pc, turn, used, gateVars, web, finished,
                       durable, envelopes, ran, searches, stopped, answer, edits, mishaps>>

\* The gate's read fails: it refuses.
GateUnreadable(c) ==
    /\ w[c] = "govern" /\ mishaps < MaxMishaps
    /\ kind[c] \in allowed /\ ~AutonomyDenies(kind[c]) /\ AsksGate(kind[c])
    /\ outcome' = [outcome EXCEPT ![c] = "denied"] /\ w' = [w EXCEPT ![c] = "finalise"]
    /\ mishaps' = mishaps + 1
    /\ UNCHANGED <<config, policy, pc, turn, used, gateVars, web, finished,
                   durable, envelopes, history, stopped, answer, edits>>

\* The intent is committed in a transaction of its own before the handler runs.
Intent(c) ==
    /\ w[c] = "intent"
    /\ intents' = intents \cup {c} /\ w' = [w EXCEPT ![c] = "execute"]
    /\ UNCHANGED <<config, policy, pc, turn, used, outcome, gateVars, web, finished,
                   trace, settled, envelopes, history, stopped, answer, edits, mishaps>>

\* Its transaction fails: the handler never starts.
IntentFails(c) ==
    /\ w[c] = "intent" /\ mishaps < MaxMishaps
    /\ w' = [w EXCEPT ![c] = "raised"] /\ mishaps' = mishaps + 1
    /\ UNCHANGED <<config, policy, pc, turn, used, outcome, gateVars, web, finished,
                   durable, envelopes, history, stopped, answer, edits>>

\* _call_scope: a slot of the batch's semaphore and a session.
Slots == {c \in FanOut : w[c] \in {"execute", "await", "closing"} /\ RequiresCallScope(c)}
HasSlot == Cardinality(Slots) < Concurrency
EnterScope(c) ==
    /\ w[c] = "scope" /\ HasSlot
    /\ w' = [w EXCEPT ![c] = "execute"]
    /\ UNCHANGED <<config, policy, pc, turn, used, outcome, gateVars, web, finished,
                   durable, envelopes, history, stopped, answer, edits, mishaps>>

\* The session cannot be opened: nothing is recorded for this call.
ScopeFails(c) ==
    /\ w[c] = "scope" /\ HasSlot /\ mishaps < MaxMishaps
    /\ Left(c, "raised") /\ mishaps' = mishaps + 1
    /\ UNCHANGED <<config, policy, pc, turn, used, outcome, gateVars, web,
                   durable, envelopes, history, stopped, answer, edits>>

\* The handler runs: it returns, fails or times out.
Execute(c) ==
    /\ w[c] = "execute" /\ kind[c] # "search"
    /\ \E r \in {"ok", "error"} : outcome' = [outcome EXCEPT ![c] = r]
    /\ w' = [w EXCEPT ![c] = "closing"]
    /\ ran' = ran \cup {c}
    /\ UNCHANGED <<config, policy, pc, turn, used, gateVars, web, finished,
                   durable, envelopes, granted, searches, stopped, answer, edits, mishaps>>

\* _execute_shared: the first caller starts the search; a call that asks again
\* joins it while it runs, or takes its kept answer.
JoinSearch(c) ==
    /\ w[c] = "execute" /\ kind[c] = "search"
    /\ web' = IF web.task = "ok" THEN web
              ELSE [task |-> "running", waiters |-> web.waiters \cup {c}]
    /\ outcome' = IF web.task = "ok" THEN [outcome EXCEPT ![c] = "ok"] ELSE outcome
    /\ searches' = IF web.task = "none" THEN searches + 1 ELSE searches
    /\ ran' = ran \cup {c} /\ w' = [w EXCEPT ![c] = "await"]
    /\ UNCHANGED <<config, policy, pc, turn, used, gateVars, finished,
                   durable, envelopes, granted, stopped, answer, edits, mishaps>>

\* The shared task ends for all its waiters; only an answer is kept.
SearchEnds ==
    /\ web.task = "running"
    /\ \E r \in {"ok", "error"} :
          /\ outcome' = [c \in Calls |-> IF c \in web.waiters THEN r ELSE outcome[c]]
          /\ web' = IF r = "ok" THEN [task |-> "ok", waiters |-> {}] ELSE NoSearch
    /\ UNCHANGED <<config, policy, pc, turn, used, w, gateVars, finished,
                   durable, envelopes, history, stopped, answer, edits, mishaps>>

\* A waiter takes the result.
TakeSearch(c) ==
    /\ w[c] = "await" /\ outcome[c] # "none"
    /\ w' = [w EXCEPT ![c] = "closing"]
    /\ UNCHANGED <<config, policy, pc, turn, used, outcome, gateVars, web, finished,
                   durable, envelopes, history, stopped, answer, edits, mishaps>>

\* The scope closes before the call waits to persist.
LeaveScope(c) ==
    /\ w[c] = "closing"
    /\ w' = [w EXCEPT ![c] = "finalise"]
    /\ UNCHANGED <<config, policy, pc, turn, used, outcome, gateVars, web, finished,
                   durable, envelopes, history, stopped, answer, edits, mishaps>>

\* A serial run is cancelled: a handler's call is finalised as cancelled, except
\* a run_python whose kill is unconfirmed, which leaves its cleanup to the answer
\* (ToolCancellationPending) and records nothing.
InterruptSerial(c) ==
    /\ pc = "run" /\ c \in Serial /\ mishaps < MaxMishaps
    /\ w[c] \in {"govern", "intent", "execute", "await", "finalise", "persist"}
    /\ \E to \in {"cancelled", "raised"} :
          /\ to = "cancelled" => w[c] \in {"execute", "await"}
          /\ to = "raised" => w[c] \notin {"execute", "await"} \/ kind[c] = "exec"
          /\ w' = [w EXCEPT ![c] = to]
    /\ ran' = IF w[c] = "execute" /\ kind[c] # "search" THEN ran \cup {c} ELSE ran
    /\ web' = LeaveSearch({c})
    /\ IF w[c] = "persist" THEN Advance ELSE UNCHANGED <<next, lock>>
    /\ mishaps' = mishaps + 1
    /\ UNCHANGED <<config, policy, pc, turn, used, outcome, ordinal, claimed, aborted, finished,
                   durable, envelopes, granted, searches, stopped, answer, edits>>

\* Mutant: a call persists as soon as it has its result.
AnyTurn(c) == c \in Calls

\* _finalise: the call waits for its turn, or for the batch to be aborted.
MyTurn(c) == next = ordinal[c]
\* ... and is refused once the batch is aborted.
Refuse(c) ==
    /\ w[c] \in {"finalise", "cancelled"} /\ aborted
    /\ Left(c, "raised")
    /\ UNCHANGED <<config, policy, pc, turn, used, outcome, gateVars, web,
                   durable, envelopes, history, stopped, answer, edits, mishaps>>

TakeLock(c) ==
    /\ w[c] = "finalise" /\ ~aborted /\ lock = 0 /\ MyTurn(c)
    /\ lock' = c /\ w' = [w EXCEPT ![c] = "persist"]
    /\ UNCHANGED <<config, policy, pc, turn, used, outcome, ordinal, claimed, next, aborted,
                   web, finished, durable, envelopes, history, stopped, answer, edits, mishaps>>

Persist(c) ==
    /\ w[c] = "persist" /\ Advance
    /\ trace' = Append(trace, c)
    /\ settled' = IF c \in intents THEN settled \cup {c} ELSE settled
    /\ Left(c, "done")
    /\ UNCHANGED <<config, policy, pc, turn, used, outcome, ordinal, claimed, aborted, web,
                   intents, envelopes, history, stopped, answer, edits, mishaps>>

\* A write raises, before or after the durable result.
PersistFails(c) ==
    /\ w[c] = "persist" /\ mishaps < MaxMishaps /\ Advance
    /\ settled' \in {settled, settled \cup (intents \cap {c})}
    /\ Left(c, "raised") /\ mishaps' = mishaps + 1
    /\ UNCHANGED <<config, policy, pc, turn, used, outcome, ordinal, claimed, aborted, web,
                   trace, intents, envelopes, history, stopped, answer, edits>>

\* The finalise of a cancelled serial call: recorded, then raised.
PersistCancelled(c) ==
    /\ w[c] = "cancelled" /\ ~aborted /\ c \in Serial /\ lock = 0 /\ MyTurn(c)
    /\ outcome' = [outcome EXCEPT ![c] = "error"]
    /\ next' = next + 1 /\ trace' = Append(trace, c)
    /\ w' = [w EXCEPT ![c] = "raised"]
    /\ UNCHANGED <<config, policy, pc, turn, used, ordinal, claimed, aborted, lock, web, finished,
                   intents, settled, envelopes, history, stopped, answer, edits, mishaps>>

---------------------------------------------------------------------------

Call(c) ==
    \/ StopWorker(c) \/ Govern(c) \/ GateUnreadable(c) \/ Intent(c) \/ IntentFails(c)
    \/ EnterScope(c) \/ ScopeFails(c) \/ Execute(c) \/ JoinSearch(c) \/ TakeSearch(c)
    \/ LeaveScope(c) \/ InterruptSerial(c) \/ Refuse(c) \/ TakeLock(c) \/ Persist(c)
    \/ PersistFails(c) \/ PersistCancelled(c) \/ EndSerial(c)
Runtime ==
    \/ BeginTurn \/ Dispatch \/ Collect \/ BeginSerial \/ NoticeStop \/ Commit \/ RejectContext
    \/ CancelWorkers \/ Abort \/ Gather \/ SearchEnds
ToolNext == SetPolicy \/ Stop \/ Interrupt \/ RuntimeFails \/ Runtime \/ \E c \in Calls : Call(c)

\* The event loop runs every task that can proceed, and a handler is bounded by
\* its timeout or by the answer's deadline.
Fairness == WF_toolVars(Runtime) /\ \A c \in Calls : WF_toolVars(Call(c))
ToolSpec == ToolInit /\ [][ToolNext]_toolVars /\ Fairness

---------------------------------------------------------------------------
(* Properties *)

CallSteps == {"idle", "govern", "intent", "scope", "execute", "await", "closing",
           "cancelled", "finalise", "persist", "done", "raised"}

\* The types of the state; a call is claimed, recorded and shown at most once,
\* and the persist gate is held by the call whose turn it is.
ToolTypeOK ==
    /\ policy \in [Governed -> Policies] /\ allowed \subseteq Kinds /\ approval \subseteq Governed
    /\ pc \in {"turn", "calls", "collect", "cancel", "abort", "gather", "serial", "run", "answer", "end"}
    /\ turn \in 0..2 /\ used \in 0..MaxExternal
    /\ w \in [Calls -> CallSteps]
    /\ outcome \in [Calls -> {"none", "denied", "ok", "error"}]
    /\ ordinal \in [Calls -> Nat] /\ claimed \in 0..N /\ next \in 0..claimed
    /\ aborted \in BOOLEAN /\ stopped \in BOOLEAN
    /\ lock # 0 => lock \in Calls /\ w[lock] = "persist" /\ ordinal[lock] = next
    /\ web.task \in {"none", "running", "ok"} /\ web.waiters \subseteq Calls
    /\ IsInjective(finished) /\ IsInjective(trace) /\ IsInjective(envelopes)
    /\ settled \subseteq intents /\ intents \subseteq Calls
    /\ answer \in {"open", "committed", "rolledback", "rejected"}

ResultsShown == Filtered(envelopes, {"result"} \X Calls)

\* "A result is never visible on the wire before its audit + trace row are
\* written" (chat_runtime._run_tool_batch), in the order of the dispatch: what
\* the client has been shown is the beginning of the trace, whatever order the
\* handlers complete in.
WireFollowsTrace ==
    answer # "rolledback" =>
       /\ Len(ResultsShown) <= Len(trace)
       /\ \A i \in 1..Len(ResultsShown) : ResultsShown[i][2] = trace[i] /\ ordinal[trace[i]] = i - 1

\* An answer that is kept, or rejected for its context, keeps the trace of
\* every call it dispatched, in dispatch order, none missing and none that the
\* client was not shown (ToolRunner._finalise, restore_context_rejected).
TraceIsExact ==
    answer \in {"committed", "rejected"} =>
       /\ Len(trace) = claimed /\ Len(ResultsShown) = claimed
       /\ \A i \in 1..Len(trace) : ordinal[trace[i]] = i - 1 /\ outcome[trace[i]] # "none"

\* The handler of a write-tier tool has run only under a policy that was enabled
\* without approval when it was asked, and its intent is on record whatever
\* becomes of the answer (runner._run_governed, gate.request).
EffectsAuthorised ==
    \A c \in ran : WriteTier(kind[c]) => c \in intents /\ granted[c] = "enabled"

\* The calls that leave the deployment, of all the answer's turns, stay within
\* max_external_calls (answer_budgets), and a search is sent upstream no more
\* often than it is asked for.
ExternalWithinBudget ==
    /\ Cardinality({c \in ran : External(kind[c])}) <= MaxExternal
    /\ searches <= Cardinality({c \in ran : kind[c] = "search"})

\* "No orphaned task outlives the stream" (chat_runtime._run_tool_batch): when
\* the answer ends no worker is left, no write is in progress, and no shared
\* search runs that nobody waits for.
NothingOutlives ==
    /\ web.task = "running" => web.waiters # {}
    /\ pc = "end" => /\ web.task # "running" /\ lock = 0
                     /\ \A c \in Calls : w[c] \in {"idle", "done", "raised"}

\* Every answer ends: no worker waits for an ordinal that never persists, and
\* none for a slot, whatever fails or is interrupted.
AnswerEnds == <>(pc = "end")

\* The trace is faithful: while the answer runs it leads the wire
\* (WireFollowsTrace), and a kept answer has all of it (TraceIsExact).
TraceIsFaithful == ToolTypeOK /\ WireFollowsTrace /\ TraceIsExact

\* Effects stay inside what the answer was allowed and inside its life
\* (EffectsAuthorised, ExternalWithinBudget, NothingOutlives).
EffectsAreContained == EffectsAuthorised /\ ExternalWithinBudget /\ NothingOutlives

=============================================================================
