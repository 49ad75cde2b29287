# Verification of Lumen Copilot

This directory holds TLA+ models of Lumen Copilot's backend: what it keeps in Postgres,
Redis, OpenSearch and object storage, and the requests, workers and timers that change it.
TLC checks the models on small instances; TLAPS proves the central results for every
number of workers, requests, attempts and rows.

Paths below are relative to `src/backend/app/` unless they begin with another directory.

## 1. Inventory

Lumen Copilot is a FastAPI backend with Celery workers, Postgres as the authority, Redis
as broker, stream backplane and RedBeat store, OpenSearch as derived index, object
storage for documents and artifacts, a sandbox runner process, and a React frontend.

| Component | State | Operations | Hard behaviour | Module |
|---|---|---|---|---|
| Run execution (`services/runs_service.py`, `tasks/run_assistant.py`, `tasks/run_reaper.py`) | `runs` row, steps, audit, messages | enqueue, claim, execute, persist, hand back, reap, owner controls | duplicate deliveries, worker death, hand-off over two systems, coarse clock | `RunLifecycle`, `RunContract` |
| Run delivery (`services/run_delivery_service.py`) | `run_deliveries` | inbox delivery, digest sweep, mark read | overlapping sweeps, a sweep over the reader | `RunInbox` |
| Schedules (`tasks/scheduler.py`, `services/schedules_service.py`) | `schedules` row, RedBeat entries, fires | create, patch, pause, resume, delete, fire, gate, enqueue, boot reconcile | count then insert, stale ORM loads, projection before commit | `ScheduleDispatch` |
| Ingestion and index (`tasks/ingest.py`, `tasks/index_sync.py`, `search/store.py`) | document row, chunk rows, checkpoints, index entries | claim, transcribe, replace rows, upsert, delete generations, repair, sweep, re-embed | leases that lapse under a slow worker, two-statement reads, best-effort deletes | `IngestIndex` |
| Direct uploads (`services/document_upload_service.py`, `tasks/upload_janitor.py`) | upload session, multipart upload, object, document | initiate, complete, abort, delete, sweep | a commit boundary before the provider call, janitor against request | `DirectUpload` |
| Connectors (`tasks/sync_source.py`, `services/connector_oauth_service.py`) | source row, cursor, mirrored documents, token | connect, callback, poll, sync by page, delete | failure between page and cursor, two consents | `ConnectorSync` |
| Sandbox (`sandbox/`) | executions, leases, reservations, day counters | admit, run, renew, settle, kill, cancel | lease expiry against settlement, unconfirmed kills | `SandboxRuns` |
| Sandbox runner (`src/sandbox_runner`) | containers, session locks, timers, result cache | ensure, execute, expire, close, cancel | teardown without the lock, timers that outlive | `RunnerEngine` |
| Chat stream (`services/chat_runtime.py`, `realtime/backplane.py`) | Redis list and channel, message row, usage | publish, retract, save, terminal, cancel, replay | wire against database, replay against live | `ChatStream` |
| Tool calls (`services/tools/runner.py`, `gate.py`) | trace, ordinals, budgets, policy | dispatch, authorise, execute, persist in order, abort | completion order, cancellation | `ToolCalls` |
| Session memory and prompt (`tasks/summarize.py`, `llm/context.py`) | summary row, messages, request | summarize, send, fit, refit, digest, fall back | summary moving under a send, window arithmetic | `SessionMemory`, `PromptWindow`, `Conversation` |
| Model gateway (`llm/gateway.py`, `llm/reasoning_guard.py`) | guard buffer, fragments, span; embedding cache | stream, feed, flush, end; embed | tags split over parts, leaving at any await | `ModelGateway`, `EmbedCache` |
| Lists (`db/repositories.py`) | rows, cursor | page, create, touch, delete | writes between pages | `KeysetPages` |
| Providers, MCP servers, secrets (`services/llm_providers_service.py`, `mcp_servers_service.py`, `secrets_service.py`) | rows, vault | create, update, rotate, delete, test, use | a verdict for an old key, orphaned secrets | `ProviderVault` |
| Assistants (`services/assistants_service.py`, `assistant_governance_service.py`) | head row, versions, pins | patch, publish, rollback, govern, pin, answer | column-wise writes of overlapping requests | `AssistantLibrary` |
| Access (`retrieval/`, `services/grants_service.py`, `groups_service.py`) | grants, groups, document rights, index copy | grant, revoke, leave, delete, search | rights that change inside a request | `AccessControl` |
| Refusal audit (`services/audit.py`, `db/audit_transactions.py`) | audit rows, attempt marks | emit, commit, read back, raise | a commit in doubt, nested guards | `DenialLedger` |
| Artifacts (`services/artifacts_service.py`, `chat_composition.py`) | rows, content-addressed objects | store, commit, compensate, remove, expire | shared objects, commits in doubt | `ArtifactStore` |
| Tenant policy (`services/sandbox_policy_service.py`, `tool_policy_service.py`, `autonomy_policy_service.py`, `preferences_service.py`, `admin_service.py`) | policy rows, settings, logo | set, clear, redeploy | overlapping PATCHes, requests that change nothing | `TenantPolicy` |

How they interact: an API request or a fire inserts a `queued` run and, after its commit,
publishes a Celery message; a worker claims the row, drives the chat runtime outside any
transaction, and persists outcome, transcript, audit and delivery in one transaction. The
chat runtime publishes to the backplane while it calls the gateway and the tools; tools
call the sandbox and the artifact store; retrieval reads what ingestion indexed and the
grants allow. Beat starts schedules, the reaper, the digest, the janitor, connector polls
and the stranded-document sweep.

`PROJECT.json` lists every component with its status, and the hazards at their lines.

## 2. Modules

Conventions. A transaction that starts with a compare-and-set UPDATE or a row lock is one
action with everything it writes; a SELECT outside a lock is an action of its own that
remembers what it read (READ COMMITTED). Calls to Redis, OpenSearch, object storage, the
model and the runner are actions of their own, with their failures. Payloads are model
values. Every module ends with its properties; where several state one matter they are
named parts of one conjunction, which also includes the module's type invariant and is
what the run checks. Definitions that
`PROJECT.json` lists as mutants are deliberately wrong variants of the definition that
follows them, used to see that the property notices.

| Module | Models |
|---|---|
| `RunContract` | the promise about one run: status, claimed or not, `run.started` and `run.finished` |
| `RunLifecycle` | one run in detail; `MCRunLifecycle` adds a symmetry set |
| `RunLifecycleProofs` | the proofs about it, with the refinement, and about `ChatStream` |
| `ScheduleDispatch` | the schedules of one tenant; `MCScheduleDispatch` adds a symmetry set |
| `IngestIndex` | one document, two deliveries of its ingestion, one index repair, the sweep and the CLI |
| `SandboxRuns` | the executions of one tenant, with leases, reservations and day counters |
| `DirectUpload` | one upload session, two requests and the janitor |
| `ConnectorSync` | one source and its provider's change log |
| `ChatStream` | one answer from first token to terminal, and its subscribers |
| `ToolCalls` | the tool calls of one answer; `MCToolCalls` gives the batches |
| `SessionMemory`, `PromptWindow`, `Conversation` | summaries, the fitting of a request, and both together under a growing conversation |
| `ModelGateway`, `EmbedCache`, `KeysetPages` | the stream guard, the embedding cache, the lists |
| `MCBeat` | what Beat drives, as a sum: schedules firing (several dispatchers, one caller), schedules under requests (several callers, no dispatcher), and DirectUpload |
| `MCConversation` | Conversation, ModelGateway, EmbedCache and KeysetPages as a sum |
| `ProviderVault`, `AssistantLibrary`, `AccessControl`, `DenialLedger`, `RunInbox`, `ArtifactStore`, `RunnerEngine`, `TenantPolicy` | the tenant services of the table above |
| `MCWorkspace` | those eight as a sum |
| `SeqFilter` | a list comprehension with a condition, as a recursive function, and the n-th of a set of numbers |
| `DataInduction` | what sums, filters and ordered lists compute, by induction; the proofs below cite it |
| `BeatProofs` | the proofs about `ScheduleDispatch` and `DirectUpload` |
| `IngestIndexProofs`, `SandboxRunsProofs` | the proofs about the module of that name |
| `ConnectorSyncProofs` | the proofs about `ConnectorSync` and about `ModelGateway`, which share no state |
| `WorkspaceProofs` | the proofs about the eight workspace modules |
| `ConversationProofs` | the proofs about `SessionMemory` and `PromptWindow` under `Conversation`, about `EmbedCache`, `ToolCalls` and `KeysetPages` |

In a sum no two parts write the same table, so a behaviour of one part runs with the
others at rest in an initial state; the states add up instead of multiplying, and no
interleaving between parts is lost that could matter to their properties.

### RunLifecycle

Every statement of the code is keyed by the run's id, so runs share no state and one row
is modelled. A transaction that starts with a compare-and-set UPDATE holds the row lock
until it commits, and is one action with everything it writes (terminal, transcript,
audit and delivery in `Finish`). A SELECT before the UPDATE is an action of its own:
`ReadQueued` remembers `seen`, the `started_at` that `Claim` compares; `LoadEscalated`
remembers a control request that `Resume`, `Cancel` or `Reroute` later carries out.

`pc[w]` says where worker `w` is:

| pc | code |
|---|---|
| `claim` | after the first read of `execute_run` |
| `runtime` | the chat runtime streams into the sink |
| `persist` | `_persist_run_outcome` |
| `ensure` | `execute_run`'s own exception handler |
| `wrapper` | `run_assistant`'s exception handler |
| `publish` | `TransientRunRetry` caught, `self.retry` still to publish |
| `unpublished` | `self.retry` raised; the hand-off is to be failed |

`started_at` is a natural number and 0 is NULL. It is the identity of a claim: `Readings`
is either a strictly growing clock or one that may stand still or step back
(`MonotoneClock`). Outcomes are those the sink and `domain/escalation.py` tell apart:
`done`, `unsaved` (done without a persisted response), `transient`, `escalate`, `defect`.
A transcript is the set of its step numbers, which are unique per run in `run_steps`.
The broker is a count of waiting messages per retries header; `Crash` and `Redeliver`
deliver again, every publish may fail, and with `Faults` every transaction may raise,
the owner may be gone and the delivery's savepoint may roll back. The audit trail is a
count per action. `holder` is a history variable.

Left out: the digest kind of delivery (the default delivery is the inbox),
what the steps say, error texts, and reads.

### ScheduleDispatch

A row is `life` and `enabled`; `next_run_at` is written and shown but no guard reads it,
and it is left out. SQLAlchemy's identity map keeps what a session first loaded and writes
only columns that differ from it; so a request is two actions, `LoadManaged` with the
loaded values and the action that writes what differs from them (`RefreshedEnabled`). The
flush takes the row lock, so write, refresh and projection are one action, except for a PATCH
that changes nothing: it takes no lock, and refresh (`UpdateNothing`) and projection
(`ProjectRefreshed`) are apart. Projection precedes the commit, which may still fail
(`CommitFails`).

A dispatcher takes a fire (`LoadFire` or `IgnoreFire`), counts (`Decide`), advances
(`Advance`) or enqueues (`Enqueue`), and publishes after the commit (`Publish`). The
session starts its transaction at the first read and READ COMMITTED lets others commit
between the steps. A fire that raises is retried with a higher header until the cap.

A run is seen through the contract that RunLifecycle implements: active from creation to
its terminal, waiting when escalated, and reopened by its owner. `stranded` is a queued
run that was never claimed and has no message left: RunContract ends only claimed runs,
so it stays active. The rate limiter is a nondeterministic verdict; `overlap_policy` is
chosen at creation and not edited, `last_run_at` and `last_status` are left out.

### The other modules: abstractions worth knowing

* `IngestIndex`: the run id of an attempt is its attempt number. A resync reads the
  document and its rows in two statements. A crashed worker's redelivery finds a fresh
  claim and returns; only the sweep recovers it. `deferred` records that a cleanup failed
  and was logged; a superseded writer that crashes leaves entries retrieval never accepts.
* `SandboxRuns`: one chat session and tenant; `lumen.run_sandbox` has no caller in the
  repository and is modelled for its redelivery. `broken` marks an executor whose
  transaction the database refused, `owner.ended` a row the owner ended, `CutOff` an
  execution that died, failed or lost its lease.
* `DirectUpload`: part numbers are checked by layout. `torn` records what an interrupted
  deletion left: `erased` bytes or a `kept` object.
* `ConnectorSync`: the provider is a log of changes; the early generation check is
  subsumed by the compare-and-set. A full sync may leave out a file whose permissions it
  cannot read or that yields no document, and still returns the baseline cursor: `skipped`
  remembers at which cursor. `wedged` marks a row whose sync was lost: an enqueue the broker
  refused (the error is logged and swallowed), a task that died, or a database error
  nobody catches. A poll whose publish is lost changes nothing and is a stutter.
  `overlapped` marks two workers on one source.
* `ChatStream`: the replay list keeps `MaxReplay` envelopes (512 in the code). `torn` is a
  retraction whose own publish was interrupted, `doubt` a commit whose answer was lost,
  `cut` an envelope stored and not sent. The publish of the error terminal and of the
  suggestions may fail like any other. The retry loop around the sandbox cleanup
  (`chat_runtime.py:988-1008`) is left out; the retried kills are in `SandboxRuns`.
* `ToolCalls`: a tool's own work is a nondeterministic result; `retrieval.query` audits
  are left out.
* `Conversation`: one answer at a time. Texts are sizes; `disordered` are rows that became
  visible after a later one. Summary spend, name redaction and evidence rehydration are
  left out.
* `ModelGateway`: text is a sequence of pieces that begin, continue, open or close a tag. A
  lone "[" at the end, which the guard withholds, is a piece of its own.
  The non-streaming `chat` is left out.
* `KeysetPages`: a list is its order, its filter and its cursor. `cutShort` marks a deleted
  cursor row, `rewound` one that moved to the front. Search's offset cursor is left out.
* `ProviderVault`: a secret's name and the key's owner are kept, its encryption is not.
  `shed` are secrets the code is known to leave behind. That a `ready` row was tested with
  the key it has is claimed of providers only: the test of an MCP server takes no lock.
* `AssistantLibrary`: SQLAlchemy writes the columns that differ from what it read
  (`Column`). Every answer runs with its version's configuration clamped to the autonomy
  cap of that moment; that `effective_cap` falls back to the default when it cannot read the
  policy is left out, and so is `bulk_disable_orphans`.
* `AccessControl`: one document, one group; six kinds of request. `left` marks a reader
  who left the group during a request. Ranking is left out.
* `DenialLedger`: `inflight` are rows whose commit is undecided.
* `ArtifactStore`: equal bytes have equal keys (`Shared`). `torn`, `parted`, `late` mark
  rows whose removal was rolled back, whose twin was removed, whose commit took effect
  after the read-back; `retained` objects were left knowingly.
* `RunnerEngine`: `ensure` is one step; collection permits are left out. `unremoved` is a
  container the daemon refused to remove.
* `TenantPolicy`: a request reads a row, and commits the columns that differ from what it
  read. One that changes nothing sends no UPDATE and takes no lock: reading the row back
  (`ReadBack`) and committing its audit row (`CommitNothing`) are apart. Preferences are not
  audited. `update_tenant_settings` reads its row twice without a lock; the second read is
  the one modelled. `audited` and `answered` are histories of what the audit rows tell and
  the requests asked, back to the last request that overlapped no other.

## 3. What the runs check

| Run | Instance | Shows |
|---|---|---|
| `RunSafety` | 2 workers, 1 control request at a time, 2 users, 1 retry, 1 reset, 1 redelivery, faults | `AuditLedger`, `ExclusiveExecution`, `NeverDoubleNotifies`, `ImplementsContract` (refinement), `HandoffOfHolder`, `ClaimedRunTerminates` |
| `SchedGates` | 1 schedule of either overlap policy, 2 dispatchers, 1 request, cap 1, 3 run slots, faults, lost publishes, empty patches | `FiresDoNotStack` |
| `BeatProgress` | firing: 2 dispatchers, 1 caller, 2 run slots, cap 1, lost publishes; entries: 2 requests with stale loads, boot reconcile, no faults; upload: 2 requests and the janitor, 4 requests in all, 2 parts, 2 faults | `KeepsFiring`; `EnabledIsProjected`; `UploadIsWhole`, `SessionEnds` |
| `IngestIndex` | 2 deliveries, 1 resync, 1 lapse, 1 fault, 1 request | `ReadyOwnsRows`, `IndexFollowsRows`, `DocumentSettles` |
| `SandboxRuns` | 2 runs, one of them a task, 2 executors, concurrency 1, cap 1, 2 days | `AccountsHold`, `ReleaseAfterStop`, `RunsSettle` |
| `ConnectorSync` | 2 files, 2 bodies, 1 worker, 2 changes, 2 connects, 1 fault | `MirrorIsSound`, `GrantChangesAtRest`, `SyncsProgress` |
| `ChatStream` | 1 client that may join at any moment, 2 chunks, 1 turn, 1 fault | `AnswerIsSettled`, `ReplayIsLive`, `StreamEnds` |
| `ToolCalls` | 3 calls in seven batches, 2 side by side, 2 external, 1 policy edit, 1 fault | `TraceIsFaithful`, `EffectsAreContained`, `AnswerEnds` |
| `Conversation` | 3 kept messages, 2 sends, 2 summarizers, 2 routes of windows 9 and 6; 5 pieces of text; 2 embedders; 3 rows | `MemoryIsWhole`, `RequestIsFit`, `StreamIsFaithful`, `EmbeddingsAreRight`, `ListIsExact` |
| `Workspace` | see `Workspace.cfg` | `CredentialsAreSound`, `VersionsAreSound`, `AccessIsExact`, `RefusalRecordedOnce`, `InboxIsHonest`, `ArtifactsMatchObjects`, `RunnerIsContained`, `PolicyIsHonest` |

Two runs end in a counterexample. In `SchedStacks` two dispatchers hold two fires of a
schedule that skips overlaps; both count no active run, both insert one
(`tasks/scheduler.py:229`), although the docstring says "(a slow daily run never stacks up)"
(`scheduler.py:197`). `SchedGates` shows what holds instead: the limit is exceeded by at
most the other dispatchers.

In `RunnerCache`, `close()` of the sandbox runner pops the cached
results of a session and keeps their sizes (`src/sandbox_runner/lumen_sandbox_runner/engine.py:418-420`),
so that later results are evicted although the cache holds less than its cap.

For each property at least one wrong variant of a mapped definition violates it.

### Bounds

* `MaxRetries`, `MaxFireRetries`, `MaxFaults`, `MaxLapses`: 1 already has a first, a
  retried and an exhausted attempt. In `IngestIndex` `MaxRetries` = 0 and the second
  delivery, the sweep and the CLI supply further attempts.
* `MaxResets` = 1 gives a run's second execution; `MaxRedeliveries` = 1 a duplicate beside
  the original and the retried message.
* `MaxPending` bounds equal waiting fires, `Runs` the remembered runs; the three slots of
  `SchedGates` are one more than `FiresDoNotStack` allows with two dispatchers and a limit of
  one, so a violation would fit.
* `MaxReplay` = 8 holds the whole stream of two chunks; where it would not, the exemption
  `Trimmed` applies as in the code.
* `MaxWrites`, `MaxChanges`, `MaxOps`, `MaxSettings`, `MaxRowEdits` bound writing requests:
  each is at least what the shortest violation of the wrong variants needs, so the
  interesting overlaps (two or three requests around a fourth) occur.
* `MaxChanges` = 5: a read through a group takes four counted steps (the group, the
  membership, the grant, the request's first read), so the fifth is a member who leaves, or
  a group that is deleted, during a request.
* `FallbackModels` has one model and `MaxFallbacks` is 2, so a requested chain may be
  empty, one model, or a repetition that is refused.
* `LastTime`, `LastDay`: one expiry, one midnight.

Deadlock is not checked: a finished run, a deleted document or a closed answer really stops.

### Fairness

* `ClaimedRunTerminates`: that time passes (`Age`) and that Beat starts the reaper.
* `KeepsFiring`: Beat fires each entry, workers finish what they took, and a run with a
  message ends, which is `ClaimedRunTerminates` plus delivery. A lost publish is possible in
  the run; a schedule one of whose runs stays stranded by it is outside the claim, since
  that run keeps the gate shut for good (section 4). In the sum of `BeatProgress` each part
  starts with the others at rest, where none of their fair actions is enabled; the
  part without a dispatcher serves the invariant only.
* `DocumentSettles`: deliveries and resyncs go on, leases lapse, Beat runs the sweep.
* `RunsSettle`: an executor goes on unless it died, and the runner enforces its deadline
  (`CodeEnds`).
* `SessionEnds`: a request goes on, time passes, and the janitor, which the row lock may
  hold up again and again, runs infinitely often when it can (strong fairness).
* `SyncsProgress`: Beat polls, a worker takes the task and goes on.
* `StreamEnds`, `AnswerEnds`: the producer, its calls and a subscriber's replay go on.

## 4. Disagreements met while modelling

Each is a behaviour of the models (exempted in the properties by a named variable, or
shown by another instance) that a comment, docstring or document contradicts.

Runs and schedules:

* Two control requests: resume undoes a cancel that committed after it loaded the run
  (`services/runs_service.py:1113`; `domain/entities.py:1450` "never transitions again"),
  and two racing resumes let one worker's outcome end another's claim, since
  `mark_terminal` compares only the status (`runs_service.py:543`).
* A resumed run that ends `done` fails because its step numbers are taken
  (`services/run_sink.py:265`; `runs_service.py:283` "``done`` → ``succeeded``"), and its
  outcome is not delivered when the escalated one was (`repositories.py:7392`).
* With a reset and a clock that stands still `HandoffOfHolder` fails: the reset clears
  `started_at` (`repositories.py:7153`), so two claims can have one identity.
* Two dispatchers both pass the overlap gate (`tasks/scheduler.py:229`;
  `docs/architecture/0015-scheduling-and-headless-runs.md:170` "the dispatcher check must be
  atomic"): the run `SchedStacks`. Two schedules exceed the per-tenant cap together
  (`scheduler.py:238`; `core/config.py:1312`).
* One lost publish stops a skip schedule for good (`tasks/run_assistant.py:168`;
  `scheduler.py:319` "a run is never silently dropped").
* A PATCH that changes nothing can remove the entry of a schedule another request just
  enabled (`schedules_service.py:408`).
* Overlapping digest sweeps announce a delivery twice and overwrite `read`
  (`run_delivery_service.py:255`, `repositories.py:7429`; the docstring says "Idempotent").

Documents, uploads, connectors, sandbox:

* Deleting a document, collection or source erases objects before its commit
  (`document_service.py:526`, `collections_service.py:365`, `sources_service.py:610`);
  `sync_source.py:308` says "never a row pointing at missing bytes".
* An uncaught database error in a sync leaves the source SYNCING, and an enqueue the broker
  refused leaves it PENDING or SYNCING, which the poll never picks
  (`sync_source.py:1354-1360`, `repositories.py:7765`); the promise that a source "can never
  remain Pending forever" (`sync_source.py:1234`) is made for broker-accepted messages only.
* A file a full sync skipped because its permissions could not be read stays out of the
  mirror until it changes itself, although the cursor counts it as seen
  (`connectors/gdrive/connector.py:303-322`).
* Two overlapping workers can break the mirror; a callback racing the deletion of its
  source leaves a secret.
* The owner's cancel may write `killed` while code runs (`sandbox/service.py:502`;
  `docs/architecture/0029` "only confirmed runner termination permits `killed`"), and a
  failed call gives the lease back while the process may run (`service.py:1190`). So may
  a redelivery of the same task that takes the lease over from a delivery whose
  heartbeat stalled, and is then refused by the budget.
* The runner's `close` may miss a container that is being created (`engine.py:410`).

Answering:

* A retraction whose own publish is interrupted leaves text beside an `error`
  (`chat_runtime.py:3938` "single backstop for EVERY fault exit"), and a `done` that Redis
  stored although its publish failed is followed by an `error`: a live and a late client
  settle differently (`chat_runtime.py:3961`).
* A deleted cursor row ends a list early (`repositories.py:1356`).
* `<<think>` is not recognised (`llm/reasoning_guard.py:3`), and a cancellation inside the
  last close leaves the span open (`llm/gateway.py:945`; `observability/llm.py:5` "ends
  exactly once").
* The verbatim tail can be cut by one message (`core/config.py`, `keep_messages`), and a
  length continuation is fitted outside the `try` (`chat_runtime.py:2085`).
* An administrator may revoke a tool between the gate's read and the execution
  (`services/tools/gate.py:94`).

Administration:

* Rotating a key under another administrator leaves the old secret
  (`llm_providers_service.py:291` "the vault does not accumulate orphans").
* The owner can publish again what an administrator disabled; a rollback that overlaps a
  patch leaves a mixed head (`docs/architecture/0011`); `_validate_backup_owner` compares
  with the acting user (`assistants_service.py:389`).
* A grant created while its group is deleted stays (`repositories.py:4840`).
* Overlapping policy requests mix columns, and the tool policy's audit repeats the request
  instead of the row: a mixed row that no audit row tells (`tool_policy_service.py:176-178`
  "attributable after the fact").
* Removing an artifact erases bytes an identical one needs (`artifacts_service.py:415`
  "so a row never outlives its bytes silently").

## 5. What is proved

The theorems hold for every value of the constants that satisfies the module's named
`ASSUME`; those ask for no more than types, distinctness of model values and positive
bounds where the code has them. Each proof has the same shape: an inductive invariant
(checked by TLC on the run's instance before it was proved), a lemma per action or group of
actions, and a last step that reads the property off the invariant. `PROJECT.json` lists
the theorems with the property each states.

| Theorem | States | Hypothesis |
|---|---|---|
| `TypeCorrect`, `StateIsTyped` | type correctness of runs and of schedules | |
| `LedgerCorrect`, `ExclusionCorrect`, `TerminalPermanence`, `OutcomeCorrect`, `ContractImplemented` | audit, exclusion, finality, outcome, refinement | one control request at a time |
| `HandoffCorrect` | a failed publication fails only its own hand-off | no owner resets |
| `NotifiedOnce` | one notification per run | |
| `GatesHold` | `FiresDoNotStack` | |
| `EntriesFollowRows` | `EnabledIsProjected` | no faults, no empty patches |
| `ReadyRowsAreOwned`, `IndexIsFollowed` | `ReadyOwnsRows`, `IndexFollowsRows` | |
| `UploadsAreWhole`, `SettledIsFinal` | `UploadIsWhole`, finality of a session | |
| `MirrorSound`, `GrantsAreOrdered` | `MirrorIsSound`, `GrantChangesAtRest` | |
| `ReleasedWhenStopped`, `AccountsAlwaysHold` | `ReleaseAfterStop`, `AccountsHold` | |
| `InboxHonest`, `AccessExact`, `RefusalsAreRecorded`, `ArtifactsAgree`, `VersionsSound`, `CredentialsSound`, `RunnerContained`, `PolicyHonest` | the eight workspace properties | |
| `MemoryWhole`, `RequestFit` | `MemoryIsWhole`, `RequestIsFit` | |
| `StreamFaithful` | `StreamIsFaithful` | |
| `EmbeddingsRight` | `EmbeddingsAreRight` | |
| `EffectsContained`, `TraceFaithful` | `EffectsAreContained`, `TraceIsFaithful` | |
| `ListExact` | `ListIsExact` | |
| `AnswerSettled`, `ReplayLive` | `AnswerIsSettled`, `ReplayIsLive` | |

The hypotheses are those of section 4: without them the code does otherwise, and the
models show how.

### Induction over data

The library's induction theorems take the property as an operator, which the provers
cannot instantiate. `DataInduction` states induction about a set instead: a set of naturals
that has zero and every successor is all of them (`AllNaturals`, from the
well-foundedness of `<`). The property at hand then is the set of those lengths, or those
cardinalities, at which it holds. With it:

* a sum over a finite set (`MapThenSumSet`, which adds in an order only `CHOOSE` knows)
  changes by exactly one term when an element enters or leaves (`TotalWithout`), and a part
  sums to no more than the whole (`TotalOfPart`);
* a filtered list has exactly the elements of the set, in their order
  (`FilteredElements`), and grows with the list it filters (`FilteredExtends`);
* a finite set can be listed in any total order (`OrderedListExists`), so that what the
  models choose as a sorted list exists;
* the element with rank n of a set of numbers is the n-th of its sorted list
  (`NthListed`), which is how the models say "the newest so many".

### Runs

The theorems of `RunLifecycleProofs` about runs hold for every set of workers, users and
step numbers, every `MaxRetries`, `MaxResets` and `MaxRedeliveries`, with or without
faults, and for both kinds of clock.

* `TypeCorrect`: `Spec => []TypeOK`, without further assumption.
* `LedgerCorrect`, `ExclusionCorrect`, `TerminalPermanence`, `OutcomeCorrect`: under
  `OneController`, that no two control requests overlap. Two overlapping requests break
  it (section 4).
* `HandoffCorrect`: with no control requests, for a clock that may stand still or step
  back. A reset by the owner breaks it (section 4).
* `ContractImplemented`: under `OneController`, every behaviour of RunLifecycle is one of
  RunContract, with `claimed` mapped to `started_at` not being NULL and the two event
  counters to the audit trail.

The argument. `AuditLedger` is not inductive: that a claim audits `run.started` once
depends on whether the row kept its chat session, that a finish is counted once depends
on which worker may still finish. `ClaimInv` adds what is missing: a running row has a
claim, an active claim has a session, a loaded control request still sees `escalated`,
and an executing worker is `holder` and either holds the row's claim and session or the
run was failed under it. Exclusion follows, since `holder` is one worker. The claim step
is the hard one: another worker that is still executing cannot exist while the row is
`queued`, because its disjunct would have to be `running` or `failed`. The other actions
fall into three groups, each with its lemma: steps that leave the row alone
(`QuietStep`), steps that write a terminal over an active claim (`TerminalStep`) and the
claim (`ClaimStep`).

`FenceInv` is the second inductive invariant: no claim is later than the row's
`started_at`, and a worker whose claim equals it made the latest claim. It rests on
`NextStartedAt` exceeding the value read, which the compare-and-set then guarantees is
still the row's (`StampGrows`).

For the refinement, `LeaseInv` says that a worker which hands off still owns a claim that
is not NULL, so that `FailHandoff` maps to the contract's `Conclude`.

`NotifiedOnce` needs neither: the inbox row is unique per run, and a notification is
written in the transaction that inserts it, so the count follows the row.

### Schedules

`SlotHeld` completes the types: a dispatcher between commit and publish alone holds its
run's slot. For the gates, `GatePassed` counts the fired runs of a schedule together with
the dispatchers that have passed its gates and not yet inserted (`Passed`): the last of them
to pass saw fewer runs than the limit, and the others that could have passed before it are
at most all other dispatchers. An insertion turns one of `Passed` into one run
(`EnqueueMovesOne`), so the sum does not grow by it. For the entries,
`NoLateProjection` says that no request carries a projection read before another's
commit; without faults and empty patches every write projects what it wrote under the row
lock.

### Ingestion

The invariant is built in three layers. `Fencing`: attempts only grow, a worker that may
still replace rows has an attempt no later than the row's, and only the holder of the
PROCESSING row has the row's own. `Searchable`: what the worker that will write READY has
upserted is, batch by batch, in the index and is not what a late delete is about to
remove. `Exact`: every other entry of the index belongs to a generation somebody is
still going to delete, or to one recorded in `deferred`. The second layer uses the first,
the third both.

### Uploads

`Boundary` says, for the transaction that holds the row lock, what it has established at
each of its provider calls; `Ends` says what a row nobody holds can rely on. A rollback
at any point gives the lock back with the row as `Ends` describes it, which is why the two
are needed apart.

### Connector sync

Everything is stated while `overlapped` is FALSE: one task works on the source. `Knows`
says, for each step of a sync, what its page, its copy of the cursor and its files are worth
relative to the feed: a page is what the feed lists after the cursor (`PageIsRead`), and a
file that is at its version at the cursor is unchanged up to the page's end. That rests
on `LastChange`, the last change of a file among the first n, which is a greatest element
and is characterised once (`LastChangeIs`, `LastChangeUnique`) from the well-foundedness
of `<`. `Mirrored`, `Vouched` and `Backed` are the three parts of `MirrorIsSound` with what
the task still has in hand added. A file the mirror lacks is trashed, or was skipped and
has not changed itself since.

`GrantsAreOrdered` needs two more facts (`GrantInv`): the grant is of a flow begun no later
than the row's generation, and a flow that stored its grant is used up (`Ordered`); and
unless two tasks overlapped there is one at most, and the row says SYNCING while it works
(`Solitary`, `Announced`). The callback refuses a SYNCING row, so it cannot come under
a task, and a grant it stores is of a later flow.

### Sandbox

`Leased`: an admitted execution that did not lose its lease has it, fresh and under its own
token. `WithinConcurrency` is then a count: these executions map one to one into the leases
that count, and the scripts admit a run only below the cap. `Accounted`: a process at the
runner belongs to an execution that is still in its call or kill, in that
generation, or to one that died or failed, or its row was ended by the owner. At a release
the process would have to be another delivery's; if that one was not cut off it has the
lease, and it is not the one that gives it back. The confirmed kill is the delicate step: it
reads the generation from the row, which is the call's own since a chat's run has one
execution (`Alone`, `Rows`). The proof also showed the exemption in `ReleaseAfterStop` for
another delivery to be needed: it takes two faults, more than the run's instance has.

For the budget, `Ledger` says that a day's counter is the sum of what its executions have
entered: the reserve while a run is unsettled, what it cost once it is. An entry is
opened by the script that compares with the allowance and closed by a settlement that
never adds to it, so the sum follows each step by one term (`TotalWithout`). The types
need a ceiling on generations, which only a fault or a new session raises
(`GensBounded`); hence `MaxGen > MaxFaults` among the bounds.

### Workspace

* Inbox: a sweep nobody disturbs holds pending rows that no other holds and no
  digest announced (`Undisturbed`).
* Access: for each request, what it has collected was permitted at a moment since it
  began, and in quiet is what is permitted (`RequestIsSound`).
* Refusals: every row, committed or in flight, has its context's mark (`RowsAreMarked`),
  and a mark stays until its commit is decided (`MarksAreKept`).
* Artifacts: `Progress` follows each writer, `BytesKept` says who still answers for a row's
  object, `KeysAccounted` that an object has a row, a writer or a name in the history.
* Assistants: an edit under way carries a configuration that was coherent when it read
  (`EditIsSound`), and a pin has its version (`PinIsSound`). An answer is that version
  clamped to the cap of its moment, so of two answers the one under the lower cap is the
  other clamped to it.
* Providers (`VaultInv`): a provider's row is locked while a request writes it, and a
  row nobody else wrote is the one the request read (`RowLocked`, `SnapFresh`); the
  secret a request read stays where it is and keeps its name (`SnapPoints`), and a key is
  kept under the row it was entered for, once for each owner (`KeptApart`). Every write
  then obeys two laws, on the vault and on the row's reference (`VaultLaw`, `RefLaw`).
* Runner (`RunnerInv`): where an execution stands says what may still be alive in its
  container (`Leftover`); the only timer is that of the execution under the lock
  (`TimersOfTheJob`), and what a teardown stopped does not come back (`StoppedStays`).
  For the caps (`CacheInv`), the entries of the cache are distinct and each has its bytes
  on record, so they cost no more than the loop counts; the loop ends with both
  caps met because one result fits alone.
* Policy (`PolicyInv`): a request that no commit has overlapped so far read the row that is
  still there, or read it back when it changes nothing (`PatchesFit`); its commit then leaves
  exactly what it asked, and starts the histories anew. A commit that was overlapped writes
  columns of its own onto columns the others wrote, and adds to the histories.

### Conversation

`MemoryInv` follows every copy of the summary row. `StandsFor`: each copy, the row's, the
send's and every task's, accounts for all rows up to its boundary that became visible in
order. `FoldsOn`: the batch a task gave to the model goes on, without a gap, where the
summary it read ends (`BatchIsPrefix`: the first so many of a set are an initial part of
it, whichever of the three limits cuts). Both are about what was read earlier, so a row
that is committed meanwhile must not spoil them: it comes after every row there is, and
`SummariesIn` says that the boundaries are such rows, or it is in `disordered`
(`InsertKeeps`). Then whichever task writes last, what it writes stands for its boundary
(`UpsertStands`), and the compare-and-set of `upsert_summary` is only needed for progress.
`AnswerListed` carries this to the request: a row before the question is above the cursor
and was listed, or below it and folded.

For the tokens, `SpendMoves` is the one arithmetic fact: what a route's provider reported
is what was booked on it, plus, for the route in use, what is not booked yet.

`RequestFit` rests on what a prompt looks like. `Stands`: a system item, then turns that are
the newest of the listed messages (`NewestTurns`), then the question, then exactly what the
loop gathered since (`Framed`); and a compacted result still has the evidence an answer
cites (`Evident`). What `assemble_context` builds stands (`AssembledStands`), because the
turns it keeps are the longest end of the list that fits its budget. Shedding takes what is
oldest after the system item and never reaches the question (`WithoutOldest`, `ShedStands`),
compaction makes results smaller and keeps their evidence (`CompactionStands`), so fitting
keeps all of it (`FitStands`); a turn appends its calls and
results as one group (`GatheredStands`). A retry on a fallback is fitted again from the
transcript, so the window that counts is the one of the route in use. `RequestInv` is
`ConversationInv` and that (`Prompts`), with what the bounds in `TypeOK` need: places are
handed out at most twice a send (`Counts`), all that anyone has read is of such a place
(`Within`), an answer's place is its own (`OwnPlace`), and the loop's counters are within
their limits (`LoopBounds`).

`CacheHonest`: a cached entry is the vector of its own key and was made in the past, under lookup,
refresh, eviction and expiry; a request under way has a batch it may answer.
`EmbeddingsAreRight` follows for each of the two ways a request is answered.

### Model gateway

`GatewayInv` has four parts. `FilterInv` is the one about the text, which the model has as
numbered pieces: ordinary ones, tags, the characters that may begin a marker, and the two
halves of a control sentence.

* `PendingForm`: what the guard holds back is the end of the text, begins with a `<` that is
  not the second of a `<<`, and may still become a marker; nothing is held only if the text
  does not end in one.
* `TagsHeld`: the stack names every tag that is open at the end of the text. This is what
  makes a published piece one that is inside no block, even though the guard never looks back.
  Past `MaxNesting` open tags, or a marker that is too long, the guard discards the rest, and
  then nothing need be claimed of the stack: nothing more is published.
* `SentinelForm`, `HalfHeld`: the first half of a control sentence is held until the piece
  after it is known.
* `TextHeld`: of a text without markup, what was published and what is held back are together
  the text, in order.

A piece that arrives leaves the guard with a list of places to let go, and `Released` passes
them one by one, past the check for the second half of a sentence. What it makes of a list
is shown for each prefix of it (`Freed`, `FreedStep`, by `AllNaturals`), since a list of held
pieces has any length. A run of `<` is the delicate case: where a pair begins depends on all
of the run (`AfterFirst`, `FirstAgain`).

A continuation after a length stop starts a fresh guard in the middle of the text. The claims
survive because a stop is reported as `length` only if the old guard held nothing and had no
tag open (`ContinuationSafe`), so that the fresh guard stands where the old one stood.

`ToolsInv`: an accumulator has its own index's fragments and no others, whatever the order
they came in, so the final event lists each call that was begun, by index (`Built`).
`SpansInv`: only the last span can be open, and only while its call is or because a call was
cancelled while it closed its response (`torn`); otherwise a call that is over has no open
response.

### Tool calls

`EffectsInv` has one part for each third of the property, and `Phase` for all of them.
`Authorised` carries the gate's verdict from the moment it is given to the handler: a
write-tier call that is to execute, or has executed, was granted an enabled row and has a
committed intent, however often the policy was edited since. `Counted` says that a call that
is not idle is of a turn that has begun, and that the external calls of those turns were
counted, so that what ran is a subset of what the budget paid for; `Unstarted` gives each
handler one start, so that a search is sent at most once for a call. `Waiting` and `LockHeld`
tie the shared search and the persist gate to a call that is there. `Phase` says which calls
can be under way where the coroutine of the batch is: outside a fan-out and a serial run
none, in the error path only those of the fan-out, and a result is shown only of a call that
ended. Every way the answer ends is from a state of which `Phase` says that all calls rest,
and a call at rest is neither a waiter nor the holder of the lock.

`TraceInv` is about the order. `Tickets`: the ordinals of the calls that were made are
exactly 0 to `claimed` - 1. `Gated`: whoever holds the persist gate has the next ordinal, so
`Recorded`, the trace, is in the order of the ordinals. `Wired` and `Queued` say that the
results shown are a prefix of the trace and which finished calls continue it
(`Continues`); `Levels` that where no batch is open all three have the same length. The
results among the envelopes are a filter of them (`FilteredExtends`).

### Lists

A cursor divides the rows of a list by the list's own order. `Ahead`: a row that kept its
place since the walk began was shown or is beyond the cursor, unless a deleted cursor
row cut the walk short. `Behind` and `Single`: what was shown is not beyond the cursor,
and was shown once, unless the cursor's row moved to the front. All seventeen lists
share the argument: each order compares any two rows (creation time and id, both
directions, or name), and a page is the first rows beyond the cursor, which exists as a
sorted list by `OrderedListExists`.

### Chat streams

`WholeInv` has three parts.

`StreamInv` follows the producer. `UsageAccounted`: while the answer is made the salvage is
armed and nothing is recorded; the commit and the salvage each record and disarm, so
whichever settles first is the only one, and an answer cannot end with the salvage armed
unless its process died or an outcome was lost (`doubt`). `OneTerminal`: until the answer
ends, every terminal that is in the list or on its way has the seq in `termSeq`. An error
that replaces a terminal takes that seq, and one that replaces none takes the last.
`TerminalEarned`: a `done` is only published past the commit and a `cancelled` only past
the saved partial, and none of the steps from the one leads to the other. That a Stop is
refused once the producer is past its last stoppable point is what this rests on.

`AnswerInv` ties three copies of the text: what the model said is what was published and
what is still buffered (`TextKept`), an envelope on its way is the part that was last
taken from it (`OutKept`), and the reply that is saved is the text (`ReplyKept`).

`WireInv` is about the clients. The list's seqs grow (`SeqsGrow`), it begins with `start`
until it is trimmed and a terminal ends it (`StartFirst`, `TermIsLast`). `Relayed`, the
fold a subscription makes of a sequence of envelopes, is shown to be a function on the
sequence's prefixes (`Following`, by `AllNaturals`); from it, that one more envelope is one
more step, and that an envelope the replay had already is none. `InStep` is
the invariant of the replay: what a client shows, together with what its inbox holds, is
what a newcomer would now be shown. `ScreenFits` compares that with the producer's
`partial`, which is what the three parts about terminals need (`NewcomerTold`,
`ClientsTold`).

### Only model-checked

* Liveness (`ClaimedRunTerminates`, `KeepsFiring`, `DocumentSettles`, `RunsSettle`,
  `SessionEnds`, `SyncsProgress`, `StreamEnds`, `AnswerEnds`): fairness and `ENABLED` are
  out of the prover's reach.

Every safety property that a passing run checks is stated by a theorem, where the table
says so under a hypothesis.

## 6. Not modelled

Sign-in and tokens, cron arithmetic, parsers and chunking, rank fusion, assistant drafting
and suggestions, configuration, observability and the frontend: data transformations,
single calls or adapters without shared protocol state; `PROJECT.json` gives the reason for
each. Within the modelled components, what is left out is named in section 2.

## 7. Plan

All components of section 1 are modelled and have a run, and every safety property of a
passing run has its theorem. What is left is wider modelling, within the components that
section 1 calls partly modelled, and liveness, which stays with TLC.
