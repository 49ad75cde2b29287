------------------------- MODULE RunLifecycleProofs -------------------------
(* Proofs about RunLifecycle, and about the answer a run or a chat makes       *)
(* (ChatStream), for every value of their constants.                            *)
EXTENDS RunLifecycle, ChatStream, DataInduction, FiniteSetTheorems, SequenceTheorems, TLAPS

(***************************************************************************)
(* Facts about the helpers the actions share.                              *)
(***************************************************************************)

\* Counting one more event keeps the trail a function into the naturals.
LEMMA AuditedType ==
    ASSUME audit \in [AuditActions -> Nat], NEW a \in AuditActions
    PROVE  audit[a] + 1 \in Nat /\ Audited(a) \in [AuditActions -> Nat]
BY DEF Audited

\* Writing a terminal keeps the row, the trail and the inbox well typed.
LEMMA TerminateType ==
    ASSUME TypeOK, NEW s \in TerminalStatuses, Terminate(s)
    PROVE  /\ status' \in Statuses
           /\ audit' \in [AuditActions -> Nat]
           /\ inbox' \subseteq Deliveries
<1>1. status' \in Statuses
  BY DEF Terminate, TerminalStatuses, Statuses
<1>2. audit' \in [AuditActions -> Nat]
  BY SMTT(30) DEF Terminate, Audited, TypeOK, AuditActions
<1>3. \A t \in {"delivered", "failed"} :
        [recipient |-> owner, status |-> t, terminal |-> audit["finished"] + 1]
          \in Deliveries
  BY DEF TypeOK, Deliveries, AuditActions
<1>4. inbox' \subseteq Deliveries
  <2>1. inbox \subseteq Deliveries
    BY DEF TypeOK
  <2>2. inbox' \in Delivered
    BY DEF Terminate
  <2> QED
    BY <1>3, <2>1, <2>2 DEF Delivered
<1> QED
  BY <1>1, <1>2, <1>4

\* A worker that lets go of its message leaves well-typed locals behind.
LEMMA AcknowledgeType ==
    ASSUME TypeOK, NEW w \in Workers, Acknowledge(w)
    PROVE  /\ pc' \in [Workers -> Pcs]
           /\ attempt' \in [Workers -> 0..MaxRetries]
           /\ seen' \in [Workers -> Nat]
           /\ claim' \in [Workers -> Nat]
           /\ chat' \in [Workers -> Nat]
           /\ outcome' \in [Workers -> Outcomes]
           /\ transcript' \in [Workers -> SUBSET Seqs]
BY RetriesAssumption DEF Acknowledge, TypeOK, Pcs, Outcomes, Null

\* The started_at a claim writes is never NULL.
LEMMA StampType ==
    ASSUME TypeOK, NEW w \in Workers, Stamp(w)
    PROVE  /\ startedAt' \in Nat \ {Null}
           /\ clock' \in Nat
           /\ aged' = FALSE
           /\ holder' = w
BY DEF Stamp, Readings, NextStartedAt, Max2, TypeOK, Null

\* The classification of an outcome is a terminal status.
LEMMA ClassifyType ==
    ASSUME NEW o PROVE ClassifyTerminal(o) \in TerminalStatuses
BY DEF ClassifyTerminal, TerminalStatuses

\* Adding a message to the broker, and taking one that is there.
LEMMA BrokerType ==
    ASSUME TypeOK, NEW a
    PROVE  /\ [broker EXCEPT ![a] = @ + 1] \in [0..MaxRetries -> Nat]
           /\ a \in 0..MaxRetries /\ broker[a] > 0
                => [broker EXCEPT ![a] = @ - 1] \in [0..MaxRetries -> Nat]
<1> DEFINE D == 0..MaxRetries
<1>1. broker \in [D -> Nat]
  BY DEF TypeOK
<1> HIDE DEF D
<1>2. [broker EXCEPT ![a] = @ + 1] \in [D -> Nat]
  <2>1. CASE a \in D
    BY <1>1, <2>1
  <2>2. CASE a \notin D
    <3>1. [broker EXCEPT ![a] = @ + 1] = broker
      BY <1>1, <2>2
    <3> QED
      BY <1>1, <3>1
  <2> QED
    BY <2>1, <2>2
<1>3. ASSUME a \in D, broker[a] > 0
      PROVE  [broker EXCEPT ![a] = @ - 1] \in [D -> Nat]
  <2>1. broker[a] - 1 \in Nat
    BY <1>1, <1>3
  <2> QED
    BY <1>1, <1>3, <2>1
<1> QED
  BY <1>2, <1>3 DEF D

(***************************************************************************)
(* Type correctness.                                                       *)
(***************************************************************************)

\* The initial state is well typed.
LEMMA InitType == Init => TypeOK
<1> SUFFICES ASSUME Init PROVE TypeOK
  OBVIOUS
<1>1. broker \in [0..MaxRetries -> Nat] /\ attempt \in [Workers -> 0..MaxRetries]
  BY RetriesAssumption DEF Init
<1>2. audit \in [AuditActions -> Nat] /\ request \in [Controllers -> Requests \cup {NoRequest}]
  BY DEF Init
<1>3. /\ pc \in [Workers -> Pcs]
      /\ outcome \in [Workers -> Outcomes]
      /\ transcript \in [Workers -> SUBSET Seqs]
  BY DEF Init, Pcs, Outcomes
<1>4. /\ seen \in [Workers -> Nat] /\ claim \in [Workers -> Nat] /\ chat \in [Workers -> Nat]
      /\ status \in Statuses /\ startedAt \in Nat /\ session \in Nat
  BY DEF Init, Null, Statuses
<1> QED
  BY <1>1, <1>2, <1>3, <1>4 DEF Init, TypeOK

\* A step of one worker keeps the state well typed.
LEMMA WorkerType ==
    ASSUME TypeOK, NEW w \in Workers, WorkerStep(w)
    PROVE  TypeOK'
<1> USE RetriesAssumption
<1>1. CASE ReadQueued(w)
  <2>1. broker' \in [0..MaxRetries -> Nat]
    BY <1>1, BrokerType DEF ReadQueued, Take
  <2>2. attempt' \in [Workers -> 0..MaxRetries] /\ seen' \in [Workers -> Nat]
    BY <1>1 DEF ReadQueued, TypeOK
  <2>3. pc' \in [Workers -> Pcs]
    BY <1>1 DEF ReadQueued, TypeOK, Goto, Pcs
  <2>4. UNCHANGED <<rowVars, clock, recordVars, unsent, redelivered,
                    claim, chat, outcome, transcript, holder, request>>
    BY <1>1 DEF ReadQueued
  <2> QED
    BY <2>1, <2>2, <2>3, <2>4 DEF TypeOK, rowVars, recordVars
<1>2. CASE SkipDuplicate(w)
  <2>1. broker' \in [0..MaxRetries -> Nat]
    BY <1>2, BrokerType DEF SkipDuplicate, Take
  <2> QED
    BY <1>2, <2>1
    DEF SkipDuplicate, TypeOK, rowVars, recordVars, workerVars, locals
<1>3. CASE ReadFails(w)
  <2>1. broker' \in [0..MaxRetries -> Nat]
    BY <1>3, BrokerType DEF ReadFails, Take
  <2> QED
    BY <1>3, <2>1, ZenonT(60)
    DEF ReadFails, TypeOK, Goto, Pcs, rowVars, recordVars, workerVars, locals
<1>4. CASE Claim(w)
  <2>1. audit' \in [AuditActions -> Nat] /\ session' \in Nat /\ chat' \in [Workers -> Nat]
    <3>1. CASE seen[w] # Null /\ session # Null
      BY <1>4, <3>1 DEF Claim, TypeOK
    <3>2. CASE ~(seen[w] # Null /\ session # Null)
      <4>1. audit \in [AuditActions -> Nat] /\ chat \in [Workers -> Nat]
        BY DEF TypeOK
      <4>2. audit["started"] + 1 \in Nat /\ Audited("started") \in [AuditActions -> Nat]
        BY <4>1, AuditedType DEF AuditActions
      <4>3. /\ audit' = Audited("started")
            /\ session' = audit["started"] + 1
            /\ chat' = [chat EXCEPT ![w] = audit["started"] + 1]
        BY <1>4, <3>2 DEF Claim
      <4> QED
        BY <4>1, <4>2, <4>3
    <3> QED
      BY <3>1, <3>2
  <2>2. /\ startedAt' \in Nat /\ clock' \in Nat /\ aged' \in BOOLEAN /\ holder' \in Workers
        /\ claim' \in [Workers -> Nat]
    BY <1>4, StampType DEF Claim, TypeOK
  <2> QED
    BY <1>4, <2>1, <2>2
    DEF Claim, TypeOK, Goto, Pcs, Statuses, brokerVars
<1>5. CASE PreflightFails(w)
  BY <1>5, StampType, AcknowledgeType, TerminateType
  DEF PreflightFails, TypeOK, TerminalStatuses, rowVars, recordVars, brokerVars, workerVars, locals
<1>6. CASE ClaimLost(w)
  BY <1>6, AcknowledgeType
  DEF ClaimLost, TypeOK, rowVars, recordVars, brokerVars, workerVars, locals
<1>7. CASE ClaimFails(w)
  BY <1>7
  DEF ClaimFails, TypeOK, Goto, Pcs, rowVars, recordVars, brokerVars, workerVars, locals
<1>8. CASE RuntimeEnds(w)
  BY <1>8, ZenonT(60)
  DEF RuntimeEnds, TypeOK, Goto, Pcs, rowVars, recordVars, brokerVars, workerVars, locals
<1>9. CASE RuntimeRaises(w)
  BY <1>9
  DEF RuntimeRaises, TypeOK, Goto, Pcs, rowVars, recordVars, brokerVars, workerVars, locals
<1>10. CASE Requeue(w)
  BY <1>10
  DEF Requeue, TypeOK, Goto, Pcs, Statuses, rowVars, recordVars, brokerVars, workerVars, locals
<1>11. CASE RequeueLost(w)
  BY <1>11, AcknowledgeType
  DEF RequeueLost, TypeOK, rowVars, recordVars, brokerVars, workerVars, locals
<1>12. CASE Finish(w)
  BY <1>12, AcknowledgeType, TerminateType, ClassifyType
  DEF Finish, TypeOK, TerminalStatuses, rowVars, recordVars, brokerVars, workerVars, locals
<1>13. CASE FinishLost(w)
  BY <1>13, AcknowledgeType
  DEF FinishLost, TypeOK, rowVars, recordVars, brokerVars, workerVars, locals
<1>14. CASE PersistRaises(w)
  BY <1>14
  DEF PersistRaises, TypeOK, Goto, Pcs, rowVars, recordVars, brokerVars, workerVars, locals
<1>15. CASE EnsureTerminal(w)
  BY <1>15, AcknowledgeType, TerminateType
  DEF EnsureTerminal, TypeOK, TerminalStatuses, rowVars, recordVars, brokerVars, workerVars, locals
<1>16. CASE EnsureFails(w)
  BY <1>16, AcknowledgeType
  DEF EnsureFails, TypeOK, Goto, Pcs, rowVars, recordVars, brokerVars, workerVars, locals
<1>17. CASE PublishFails(w)
  BY <1>17
  DEF PublishFails, TypeOK, Goto, Pcs, rowVars, recordVars, brokerVars, workerVars, locals
<1>18. CASE FailHandoff(w)
  BY <1>18, AcknowledgeType, TerminateType
  DEF FailHandoff, TypeOK, TerminalStatuses, rowVars, recordVars, brokerVars, workerVars, locals
<1>19. CASE Crash(w)
  <2>1. broker' \in [0..MaxRetries -> Nat]
    <3>1. broker \in [0..MaxRetries -> Nat]
      BY DEF TypeOK
    <3> QED
      BY <1>19, <3>1, BrokerType DEF Crash
  <2>2. /\ redelivered' \in Nat
        /\ Acknowledge(w)
        /\ UNCHANGED <<rowVars, clock, recordVars, unsent, holder, request>>
    BY <1>19 DEF Crash, TypeOK
  <2> QED
    BY <2>1, <2>2, AcknowledgeType DEF TypeOK, rowVars, recordVars
<1>20. CASE Redeliver(w)
  <2>1. broker' \in [0..MaxRetries -> Nat]
    BY <1>20, BrokerType DEF Redeliver
  <2>2. /\ redelivered' \in Nat
        /\ UNCHANGED <<rowVars, clock, recordVars, unsent, workerVars, holder, request>>
    BY <1>20 DEF Redeliver, TypeOK
  <2> QED
    BY <2>1, <2>2 DEF TypeOK, rowVars, recordVars, workerVars, locals
<1>21. CASE PublishRetry(w)
  <2>1. broker' \in [0..MaxRetries -> Nat]
    BY <1>21, BrokerType DEF PublishRetry
  <2> QED
    BY <1>21, <2>1, AcknowledgeType
    DEF PublishRetry, TypeOK, rowVars, recordVars, workerVars, locals
<1> QED
  BY <1>1, <1>2, <1>3, <1>4, <1>5, <1>6, <1>7, <1>8, <1>9, <1>10, <1>11, <1>12, <1>13, <1>14, <1>15, <1>16, <1>17, <1>18, <1>19, <1>20, <1>21 DEF WorkerStep

\* A step of one control request keeps the state well typed.
LEMMA ControlType ==
    ASSUME TypeOK, NEW c \in Controllers, ControlStep(c)
    PROVE  TypeOK'
<1> USE DEF TypeOK, rowVars, recordVars, brokerVars, workerVars, locals
<1>1. CASE LoadEscalated(c)
  BY <1>1 DEF LoadEscalated
<1> DEFINE R == Requests \cup {NoRequest}
<1>a. \A a \in AuditActions : Audited(a) \in [AuditActions -> Nat]
  BY DEF Audited
<1>b. [request EXCEPT ![c] = NoRequest] \in [Controllers -> R]
  OBVIOUS
<1>c. Requeued => status' \in Statuses /\ startedAt' \in Nat /\ aged' \in BOOLEAN /\ unsent' \in Nat
  <2> SUFFICES ASSUME Requeued
               PROVE  status' \in Statuses /\ startedAt' \in Nat /\ aged' \in BOOLEAN
                        /\ unsent' \in Nat
    OBVIOUS
  <2>1. status' \in Statuses /\ aged' \in BOOLEAN
    BY DEF Requeued, Statuses
  <2>2. startedAt' \in Nat /\ unsent' \in Nat
    BY DEF Requeued, Null
  <2> QED
    BY <2>1, <2>2
<1> HIDE DEF R
<1>2. CASE Resume(c)
  <2>1. audit' \in [AuditActions -> Nat] /\ request' \in [Controllers -> R]
    BY <1>2, <1>a, <1>b DEF Resume, AuditActions
  <2> QED
    BY <1>2, <2>1, <1>c DEF Resume, R
<1>3. CASE Cancel(c)
  <2>1. audit' \in [AuditActions -> Nat] /\ request' \in [Controllers -> R]
    BY <1>3, <1>a, <1>b DEF Cancel, AuditActions
  <2> QED
    BY <1>3, <2>1 DEF Cancel, Statuses, R
<1>4. CASE Reroute(c)
  <2>1. request[c] \in Requests
    BY <1>4 DEF Reroute, NoRequest
  <2>2. owner' \in Users
    BY <1>4, <2>1 DEF Reroute, Requests
  <2>3. audit' \in [AuditActions -> Nat] /\ request' \in [Controllers -> R]
    BY <1>4, <1>a, <1>b DEF Reroute, AuditActions
  <2> QED
    BY <1>4, <2>2, <2>3, <1>c DEF Reroute, R
<1> QED
  BY <1>1, <1>2, <1>3, <1>4 DEF ControlStep

\* Every step keeps the state well typed.
LEMMA NextType == TypeOK /\ [Next]_vars => TypeOK'
<1> SUFFICES ASSUME TypeOK, [Next]_vars PROVE TypeOK'
  OBVIOUS
<1>1. CASE EnqueueRun
  <2>1. broker' \in [0..MaxRetries -> Nat]
    <3>1. broker \in [0..MaxRetries -> Nat]
      BY DEF TypeOK
    <3> QED
      BY <1>1, <3>1, BrokerType DEF EnqueueRun
  <2>2. /\ unsent' \in Nat
        /\ UNCHANGED <<rowVars, clock, recordVars, redelivered, workerVars, holder, request>>
    BY <1>1 DEF EnqueueRun, TypeOK
  <2> QED
    BY <2>1, <2>2 DEF TypeOK, rowVars, recordVars, workerVars, locals
<1>2. CASE Age
  BY <1>2 DEF Age, TypeOK, recordVars, brokerVars, workerVars, locals
<1>3. CASE Reap
  BY <1>3, TerminateType
  DEF Reap, TypeOK, TerminalStatuses, brokerVars, workerVars, locals
<1>4. CASE UNCHANGED vars
  BY <1>4 DEF vars, TypeOK, rowVars, recordVars, brokerVars, workerVars, locals
<1> QED
  BY <1>1, <1>2, <1>3, <1>4, WorkerType, ControlType DEF Next

\* The state of a run, its broker messages, its workers and its control requests is
\* well typed in every reachable state.
THEOREM TypeCorrect == Spec => []TypeOK
BY InitType, NextType, PTL DEF Spec

(***************************************************************************)
(* The claim invariant: the trail, the row and the workers agree.          *)
(***************************************************************************)

\* Writing a terminal over an active row keeps the trail balanced.
LEMMA TerminateLedger ==
    ASSUME TypeOK, AuditLedger, status \in {"queued", "running"},
           NEW s \in TerminalStatuses, Terminate(s),
           s = "escalated" => audit["started"] = Resets + 1
    PROVE  /\ AuditLedger'
           /\ status' = s
           /\ s = "escalated" => audit'["started"] = Resets' + 1
<1> DEFINE started == audit["started"]  finished == audit["finished"]
           escalated == audit["escalated"]  cancelled == audit["cancelled"]
           resumed == audit["resumed"]  rerouted == audit["rerouted"]
<1>1. /\ started \in Nat /\ finished \in Nat /\ escalated \in Nat
      /\ cancelled \in Nat /\ resumed \in Nat /\ rerouted \in Nat
  BY DEF TypeOK, AuditActions
<1>2. /\ status' = s
      /\ started' = started /\ cancelled' = cancelled
      /\ resumed' = resumed /\ rerouted' = rerouted
      /\ finished' = finished + 1
      /\ escalated' = escalated + (IF s = "escalated" THEN 1 ELSE 0)
  BY <1>1 DEF Terminate, Audited, TypeOK, AuditActions
<1>3. finished = resumed + rerouted /\ escalated = resumed + rerouted + cancelled
  BY <1>1 DEF AuditLedger, IsTerminal, TerminalStatuses, Resets
<1>4. s = "escalated" => started = resumed + rerouted + 1
  BY DEF Resets
<1> HIDE DEF started, finished, escalated, cancelled, resumed, rerouted
<1>5. /\ finished' = resumed' + rerouted' + 1
      /\ escalated' = resumed' + rerouted' + cancelled'
                       + (IF status' = "escalated" THEN 1 ELSE 0)
      /\ s = "escalated" => started' = resumed' + rerouted' + 1
  BY <1>1, <1>2, <1>3, <1>4
<1>6. status' \in TerminalStatuses /\ status' # "queued" /\ status' # "running"
  BY <1>2 DEF TerminalStatuses
<1> QED
  BY <1>2, <1>5, <1>6
  DEF AuditLedger, IsTerminal, ActiveClaim, Resets, started, finished, escalated,
      cancelled, resumed, rerouted

\* A step that leaves the row, the trail and the requests alone and lets no worker
\* start executing keeps the invariant.
LEMMA QuietStep ==
    ASSUME ClaimInv,
           UNCHANGED <<status, startedAt, session, audit, holder, request>>,
           \A w \in Workers : Executing(w)' =>
               Executing(w) /\ claim'[w] = claim[w] /\ chat'[w] = chat[w]
    PROVE  ClaimInv'
BY DEF ClaimInv, AuditLedger, IsTerminal, ActiveClaim, Resets

\* A step that writes a terminal over an active row keeps the invariant when no
\* worker keeps executing unless the terminal is `failed`.
LEMMA TerminalStep ==
    ASSUME TypeOK, ClaimInv, status \in {"queued", "running"},
           NEW s \in TerminalStatuses, Terminate(s),
           s = "escalated" => status = "running",
           UNCHANGED request,
           \A w \in Workers : Executing(w)' =>
               Executing(w) /\ s = "failed" /\ holder' = holder
    PROVE  ClaimInv'
<1>1. s = "escalated" => audit["started"] = Resets + 1
  BY DEF ClaimInv, AuditLedger, ActiveClaim
<1>2. /\ AuditLedger' /\ status' = s
      /\ s = "escalated" => audit'["started"] = Resets' + 1
  BY <1>1, TerminateLedger DEF ClaimInv
<1>3. \A c \in Controllers : request'[c] = NoRequest
  BY DEF ClaimInv
<1>4. status' # "running" /\ ~ActiveClaim'
  BY <1>2 DEF ActiveClaim, TerminalStatuses
<1>5. \A w \in Workers : Executing(w)' => holder' = w /\ status' = "failed"
  BY <1>2 DEF ClaimInv
<1> QED
  BY <1>2, <1>3, <1>4, <1>5 DEF ClaimInv

\* Winning the claim keeps the invariant: nobody was executing, and run.started is
\* audited exactly when the row carried no claim.
LEMMA ClaimStep ==
    ASSUME TypeOK, ClaimInv, NEW w \in Workers, Claim(w)
    PROVE  ClaimInv'
<1>1. /\ status = "queued" /\ status' = "running" /\ startedAt = seen[w]
      /\ startedAt' \in Nat \ {Null} /\ holder' = w
  BY StampType DEF Claim, CanClaim
<1>2. /\ \A c \in Controllers : request[c] = NoRequest
      /\ \A v \in Workers : ~Executing(v)
  BY <1>1 DEF ClaimInv
<1>3. \A v \in Workers : Executing(v)' => v = w
  BY <1>2 DEF Claim, Goto, Executing, TypeOK
<1>4. claim'[w] = startedAt' /\ chat'[w] = session'
  BY DEF Claim, TypeOK
<1>5. /\ audit["finished"] \in Nat /\ audit["escalated"] \in Nat
      /\ audit["cancelled"] \in Nat /\ audit["started"] \in Nat
      /\ audit["resumed"] \in Nat /\ audit["rerouted"] \in Nat
  BY DEF TypeOK, AuditActions
<1>6. /\ \A a \in AuditActions \ {"started"} : audit'[a] = audit[a]
      /\ audit'["started"] = Resets + 1
      /\ session' # Null
  <2>1. CASE seen[w] # Null
    <3>1. session # Null /\ audit["started"] = Resets + 1
      BY <1>1, <2>1 DEF ClaimInv, AuditLedger, ActiveClaim
    <3> QED
      BY <2>1, <3>1 DEF Claim
  <2>2. CASE seen[w] = Null
    <3>1. audit["started"] = Resets
      BY <1>1, <2>2 DEF ClaimInv, AuditLedger
    <3> QED
      BY <2>2, <3>1, <1>5, SMTT(30) DEF Claim, Audited, TypeOK, AuditActions, Null
  <2> QED
    BY <2>1, <2>2
<1>7. AuditLedger'
  <2>1. /\ audit'["finished"] = audit["finished"]
        /\ audit'["escalated"] = audit["escalated"]
        /\ audit'["cancelled"] = audit["cancelled"]
        /\ audit'["resumed"] = audit["resumed"] /\ audit'["rerouted"] = audit["rerouted"]
    BY <1>6 DEF AuditActions
  <2> QED
    BY <1>1, <1>5, <1>6, <2>1
    DEF ClaimInv, AuditLedger, IsTerminal, TerminalStatuses, Resets, ActiveClaim
<1>8. request' = request
  BY DEF Claim
<1> QED
  BY <1>1, <1>2, <1>3, <1>4, <1>6, <1>7, <1>8 DEF ClaimInv, ActiveClaim

\* A step of one worker keeps the invariant.
LEMMA WorkerInv ==
    ASSUME TypeOK, ClaimInv, NEW w \in Workers, WorkerStep(w)
    PROVE  ClaimInv'
<1> DEFINE Quiet == UNCHANGED <<status, startedAt, session, audit, holder, request>>
           Less == \A v \in Workers : Executing(v)' =>
                     Executing(v) /\ claim'[v] = claim[v] /\ chat'[v] = chat[v]
<1>a. ASSUME Acknowledge(w) PROVE Less
  BY <1>a DEF Acknowledge, Executing, TypeOK
<1>b. ASSUME NEW l \in Pcs \ {"runtime", "persist"}, Goto(w, l), UNCHANGED <<claim, chat>>
      PROVE  Less
  BY <1>b DEF Goto, Executing, TypeOK
<1>c. ASSUME pc[w] = "runtime", Goto(w, "persist"), UNCHANGED <<claim, chat>> PROVE Less
  BY <1>c DEF Goto, Executing, TypeOK
<1> USE DEF Pcs
<1>1. CASE ReadQueued(w)
  <2>1. Quiet /\ Goto(w, "claim") /\ UNCHANGED <<claim, chat>>
    BY <1>1 DEF ReadQueued, rowVars, recordVars
  <2> QED
    BY <2>1, <1>b, QuietStep
<1>2. CASE SkipDuplicate(w)
  <2>1. Quiet /\ Less
    BY <1>2 DEF SkipDuplicate, rowVars, recordVars, workerVars, locals, Executing
  <2> QED
    BY <2>1, QuietStep
<1>3. CASE ReadFails(w)
  <2>1. Quiet /\ Goto(w, "wrapper") /\ UNCHANGED <<claim, chat>>
    BY <1>3 DEF ReadFails, rowVars, recordVars
  <2> QED
    BY <2>1, <1>b, QuietStep
<1>4. CASE Claim(w)
  BY <1>4, ClaimStep
<1>5. CASE PreflightFails(w)
  <2>1. status = "queued" /\ Terminate("failed") /\ Acknowledge(w) /\ UNCHANGED request
    BY <1>5 DEF PreflightFails, CanClaim
  <2>2. \A v \in Workers : ~Executing(v)
    BY <2>1 DEF ClaimInv
  <2>3. \A v \in Workers : ~Executing(v)'
    BY <2>1, <2>2, <1>a
  <2> QED
    BY <2>1, <2>3, TerminalStep DEF TerminalStatuses
<1>6. CASE ClaimLost(w)
  <2>1. Quiet /\ Acknowledge(w)
    BY <1>6 DEF ClaimLost, rowVars, recordVars
  <2> QED
    BY <2>1, <1>a, QuietStep
<1>7. CASE ClaimFails(w)
  <2>1. Quiet /\ Goto(w, "wrapper") /\ UNCHANGED <<claim, chat>>
    BY <1>7 DEF ClaimFails, rowVars, recordVars, locals
  <2> QED
    BY <2>1, <1>b, QuietStep
<1>8. CASE RuntimeEnds(w)
  <2>1. Quiet /\ pc[w] = "runtime" /\ Goto(w, "persist") /\ UNCHANGED <<claim, chat>>
    BY <1>8 DEF RuntimeEnds, rowVars, recordVars
  <2> QED
    BY <2>1, <1>c, QuietStep
<1>9. CASE RuntimeRaises(w)
  <2>1. /\ Quiet /\ UNCHANGED <<claim, chat>>
        /\ Goto(w, "ensure") \/ Goto(w, "wrapper")
    BY <1>9 DEF RuntimeRaises, rowVars, recordVars, locals
  <2> QED
    BY <2>1, <1>b, QuietStep
<1>10. CASE Requeue(w)
  <2>1. /\ status = "running" /\ status' = "queued" /\ Goto(w, "publish")
        /\ UNCHANGED <<startedAt, session, audit, claim, chat, holder, request>>
    BY <1>10 DEF Requeue, CanRequeue, recordVars, locals
  <2>2. pc[w] = "persist"
    BY <1>10 DEF Requeue
  <2>3. \A v \in Workers : ~Executing(v)'
    <3>1. holder = w /\ \A v \in Workers : Executing(v) => v = w
      BY <2>1, <2>2 DEF ClaimInv, Executing
    <3> QED
      BY <2>1, <3>1 DEF Goto, Executing, TypeOK
  <2>4. startedAt # Null /\ session # Null /\ audit["started"] = Resets + 1
    BY <2>1 DEF ClaimInv, AuditLedger, ActiveClaim
  <2>5. AuditLedger'
    BY <2>1, <2>4 DEF ClaimInv, AuditLedger, IsTerminal, TerminalStatuses, Resets, ActiveClaim
  <2> QED
    BY <2>1, <2>3, <2>4, <2>5 DEF ClaimInv, ActiveClaim
<1>11. CASE RequeueLost(w)
  <2>1. Quiet /\ Acknowledge(w)
    BY <1>11 DEF RequeueLost, rowVars, recordVars
  <2> QED
    BY <2>1, <1>a, QuietStep
<1>12. CASE Finish(w)
  <2>1. /\ pc[w] = "persist" /\ status = "running"
        /\ Terminate(ClassifyTerminal(outcome[w])) /\ Acknowledge(w) /\ UNCHANGED request
    BY <1>12 DEF Finish, CanFinish
  <2>2. \A v \in Workers : Executing(v) => v = w
    BY <2>1 DEF ClaimInv, Executing
  <2>3. \A v \in Workers : ~Executing(v)'
    BY <2>1, <2>2 DEF Acknowledge, Executing, TypeOK
  <2> QED
    BY <2>1, <2>3, TerminalStep, ClassifyType
<1>13. CASE FinishLost(w)
  <2>1. Quiet /\ Acknowledge(w)
    BY <1>13 DEF FinishLost, rowVars, recordVars
  <2> QED
    BY <2>1, <1>a, QuietStep
<1>14. CASE PersistRaises(w)
  <2>1. Quiet /\ Goto(w, "ensure") /\ UNCHANGED <<claim, chat>>
    BY <1>14 DEF PersistRaises, rowVars, recordVars, locals
  <2> QED
    BY <2>1, <1>b, QuietStep
<1>15. CASE EnsureTerminal(w)
  <2>1. Acknowledge(w) /\ UNCHANGED <<startedAt, session, holder, request>>
    BY <1>15 DEF EnsureTerminal
  <2>2. CASE CanEnsure(w)
    BY <1>15, <2>1, <2>2, <1>a, TerminalStep DEF EnsureTerminal, CanEnsure, TerminalStatuses
  <2>3. CASE ~CanEnsure(w)
    BY <1>15, <2>1, <2>3, <1>a, QuietStep DEF EnsureTerminal
  <2> QED
    BY <2>2, <2>3
<1>16. CASE EnsureFails(w)
  <2>1. Quiet
    BY <1>16 DEF EnsureFails, rowVars, recordVars
  <2>2. \/ Goto(w, "wrapper") /\ UNCHANGED <<claim, chat>>
        \/ Acknowledge(w)
    BY <1>16 DEF EnsureFails, locals
  <2> QED
    BY <2>1, <2>2, <1>a, <1>b, QuietStep
<1>17. CASE PublishFails(w)
  <2>1. Quiet /\ Goto(w, "unpublished") /\ UNCHANGED <<claim, chat>>
    BY <1>17 DEF PublishFails, rowVars, recordVars, locals
  <2> QED
    BY <2>1, <1>b, QuietStep
<1>18. CASE FailHandoff(w)
  <2>1. Acknowledge(w) /\ UNCHANGED <<startedAt, session, holder, request>>
    BY <1>18 DEF FailHandoff
  <2>2. CASE CanFailHandoff(w)
    <3>1. status = "queued" /\ Terminate("failed")
      BY <1>18, <2>2 DEF FailHandoff, CanFailHandoff
    <3> QED
      BY <2>1, <3>1, <1>a, TerminalStep DEF TerminalStatuses
  <2>3. CASE ~CanFailHandoff(w)
    <3>1. Quiet
      BY <1>18, <2>1, <2>3 DEF FailHandoff
    <3> QED
      BY <2>1, <3>1, <1>a, QuietStep
  <2> QED
    BY <2>2, <2>3
<1>19. CASE Crash(w)
  <2>1. Quiet /\ Acknowledge(w)
    BY <1>19 DEF Crash, rowVars, recordVars
  <2> QED
    BY <2>1, <1>a, QuietStep
<1>20. CASE Redeliver(w)
  <2>1. Quiet /\ Less
    BY <1>20 DEF Redeliver, rowVars, recordVars, workerVars, locals, Executing
  <2> QED
    BY <2>1, QuietStep
<1>21. CASE PublishRetry(w)
  <2>1. Quiet /\ Acknowledge(w)
    BY <1>21 DEF PublishRetry, rowVars, recordVars
  <2> QED
    BY <2>1, <1>a, QuietStep
<1> QED
  BY <1>1, <1>2, <1>3, <1>4, <1>5, <1>6, <1>7, <1>8, <1>9, <1>10, <1>11, <1>12, <1>13,
     <1>14, <1>15, <1>16, <1>17, <1>18, <1>19, <1>20, <1>21
  DEF WorkerStep

\* With at most one control request at a time, a control step keeps the invariant:
\* what it loaded is still there when it writes.
LEMMA ControlInv ==
    ASSUME OneController, TypeOK, ClaimInv, NEW c \in Controllers, ControlStep(c)
    PROVE  ClaimInv'
<1>1. status = "escalated" /\ audit["started"] = Resets + 1
  BY DEF ControlStep, LoadEscalated, Resume, Cancel, Reroute, ClaimInv, NoRequest
<1>2. \A w \in Workers : ~Executing(w)
  BY <1>1 DEF ClaimInv
<1>3. \A w \in Workers : ~Executing(w)'
  BY <1>2 DEF ControlStep, LoadEscalated, Resume, Cancel, Reroute, workerVars, Executing
<1>4. /\ audit["finished"] \in Nat /\ audit["escalated"] \in Nat
      /\ audit["cancelled"] \in Nat /\ audit["started"] \in Nat
      /\ audit["resumed"] \in Nat /\ audit["rerouted"] \in Nat
  BY DEF TypeOK, AuditActions
<1>5. /\ audit["finished"] = Resets + 1
      /\ audit["escalated"] = Resets + audit["cancelled"] + 1
  BY <1>1 DEF ClaimInv, AuditLedger, IsTerminal, TerminalStatuses
<1>6. request' = [request EXCEPT ![c] = NoRequest] => \A d \in Controllers : request'[d] = NoRequest
  BY DEF OneController, TypeOK
<1>7. CASE LoadEscalated(c)
  <2>1. UNCHANGED <<status, startedAt, session, audit>>
    BY <1>7 DEF LoadEscalated, rowVars, recordVars
  <2> QED
    BY <1>1, <1>3, <2>1
    DEF ClaimInv, AuditLedger, IsTerminal, TerminalStatuses, ActiveClaim, Resets
<1>8. CASE Resume(c) \/ Reroute(c)
  <2>1. /\ status' = "queued" /\ startedAt' = Null
        /\ request' = [request EXCEPT ![c] = NoRequest]
        /\ audit' = Audited("resumed") \/ audit' = Audited("rerouted")
    BY <1>8 DEF Resume, Reroute, Requeued
  <2>2. /\ audit'["finished"] = audit["finished"]
        /\ audit'["escalated"] = audit["escalated"]
        /\ audit'["cancelled"] = audit["cancelled"]
        /\ audit'["started"] = audit["started"]
        /\ Resets' = Resets + 1
    <3>1. CASE audit' = Audited("resumed")
      <4>1. /\ \A a \in AuditActions \ {"resumed"} : audit'[a] = audit[a]
            /\ audit'["resumed"] = audit["resumed"] + 1
        BY <3>1 DEF Audited, TypeOK, AuditActions
      <4> QED
        BY <4>1, <1>4 DEF AuditActions, Resets
    <3>2. CASE audit' = Audited("rerouted")
      <4>1. /\ \A a \in AuditActions \ {"rerouted"} : audit'[a] = audit[a]
            /\ audit'["rerouted"] = audit["rerouted"] + 1
        BY <3>2 DEF Audited, TypeOK, AuditActions
      <4> QED
        BY <4>1, <1>4 DEF AuditActions, Resets
    <3> QED
      BY <2>1, <3>1, <3>2
  <2>3. Resets \in Nat
    BY <1>4 DEF Resets
  <2>4. AuditLedger'
    BY <1>1, <1>4, <1>5, <2>1, <2>2, <2>3
    DEF AuditLedger, IsTerminal, TerminalStatuses, ActiveClaim
  <2> QED
    BY <1>3, <1>6, <2>1, <2>4 DEF ClaimInv, ActiveClaim
<1>9. CASE Cancel(c)
  <2>1. /\ status' = "failed" /\ audit' = Audited("cancelled")
        /\ request' = [request EXCEPT ![c] = NoRequest]
    BY <1>9 DEF Cancel
  <2>2. /\ audit'["finished"] = audit["finished"]
        /\ audit'["escalated"] = audit["escalated"]
        /\ audit'["cancelled"] = audit["cancelled"] + 1
        /\ Resets' = Resets
    BY <2>1, <1>4 DEF Audited, TypeOK, AuditActions, Resets
  <2>3. Resets \in Nat
    BY <1>4 DEF Resets
  <2>4. AuditLedger'
    BY <1>4, <1>5, <2>1, <2>2, <2>3
    DEF AuditLedger, IsTerminal, TerminalStatuses, ActiveClaim
  <2> QED
    BY <1>3, <1>6, <2>1, <2>4 DEF ClaimInv, ActiveClaim
<1> QED
  BY <1>7, <1>8, <1>9 DEF ControlStep

\* The claim invariant holds initially.
LEMMA InitInv == Init => ClaimInv
BY DEF Init, ClaimInv, AuditLedger, IsTerminal, TerminalStatuses, ActiveClaim, Resets,
       AuditActions, Executing, Null

\* The claim invariant is inductive.
LEMMA NextInv ==
    ASSUME OneController, TypeOK, ClaimInv, [Next]_vars
    PROVE  ClaimInv'
<1>1. CASE EnqueueRun
  <2>1. /\ UNCHANGED <<status, startedAt, session, audit, holder, request>>
        /\ UNCHANGED <<pc, claim, chat>>
    BY <1>1 DEF EnqueueRun, rowVars, recordVars, workerVars, locals
  <2> QED
    BY <2>1, QuietStep DEF Executing
<1>2. CASE Age
  <2>1. /\ UNCHANGED <<status, startedAt, session, audit, holder, request>>
        /\ UNCHANGED <<pc, claim, chat>>
    BY <1>2 DEF Age, recordVars, workerVars, locals
  <2> QED
    BY <2>1, QuietStep DEF Executing
<1>3. CASE Reap
  <2>1. /\ status \in {"queued", "running"} /\ Terminate("failed")
        /\ UNCHANGED <<startedAt, session, holder, request, pc>>
    BY <1>3 DEF Reap, ActiveClaim, workerVars
  <2> QED
    BY <2>1, TerminalStep DEF TerminalStatuses, Executing
<1>4. CASE UNCHANGED vars
  <2>1. /\ UNCHANGED <<status, startedAt, session, audit, holder, request>>
        /\ UNCHANGED <<pc, claim, chat>>
    BY <1>4 DEF vars, rowVars, recordVars, workerVars, locals
  <2> QED
    BY <2>1, QuietStep DEF Executing
<1> QED
  BY <1>1, <1>2, <1>3, <1>4, WorkerInv, ControlInv DEF Next

\* While control requests do not overlap, the audit trail balances: exactly one
\* run.finished per finished execution and one run.started per claimed one, for any
\* number of workers, retries, redeliveries, crashes and owner decisions.
THEOREM LedgerCorrect == OneController => (Spec => []AuditLedger)
<1> SUFFICES ASSUME OneController PROVE Spec => []AuditLedger
  OBVIOUS
<1>1. TypeOK /\ ClaimInv /\ [Next]_vars => ClaimInv'
  BY NextInv
<1>2. ClaimInv => AuditLedger
  BY DEF ClaimInv
<1> QED
  BY <1>1, <1>2, InitInv, TypeCorrect, PTL DEF Spec

\* While control requests do not overlap, at most one worker executes the run, and it
\* holds the row's claim and chat session unless the run was failed under it.
THEOREM ExclusionCorrect == OneController => (Spec => []ExclusiveExecution)
<1> SUFFICES ASSUME OneController PROVE Spec => []ExclusiveExecution
  OBVIOUS
<1>1. TypeOK /\ ClaimInv /\ [Next]_vars => ClaimInv'
  BY NextInv
<1>2. ClaimInv => ExclusiveExecution
  BY DEF ClaimInv, ExclusiveExecution
<1> QED
  BY <1>1, <1>2, InitInv, TypeCorrect, PTL DEF Spec

\* While control requests do not overlap, a run that succeeded or failed never leaves
\* that status.
THEOREM TerminalPermanence == OneController => (Spec => TerminalIsPermanent)
<1> SUFFICES ASSUME OneController PROVE Spec => TerminalIsPermanent
  OBVIOUS
<1>1. TypeOK /\ ClaimInv /\ [Next]_vars => ClaimInv'
  BY NextInv
<1>2. TypeOK /\ ClaimInv /\ [Next]_vars =>
        [(status \in {"succeeded", "failed"}) => status' = status]_vars
  <2> SUFFICES ASSUME TypeOK, ClaimInv, [Next]_vars, status \in {"succeeded", "failed"}
               PROVE  status' = status
    OBVIOUS
  <2>1. ASSUME NEW w \in Workers, WorkerStep(w) PROVE status' = status
    BY <2>1
    DEF WorkerStep, ReadQueued, SkipDuplicate, ReadFails, Claim, PreflightFails, CanClaim,
        ClaimLost, ClaimFails, RuntimeEnds, RuntimeRaises, Requeue, CanRequeue, RequeueLost,
        Finish, CanFinish, FinishLost, PersistRaises, EnsureTerminal, CanEnsure, EnsureFails,
        PublishRetry, PublishFails, FailHandoff, CanFailHandoff, Crash, Redeliver, rowVars
  <2>2. \A c \in Controllers : ~ControlStep(c)
    BY DEF ClaimInv, ControlStep, LoadEscalated, Resume, Cancel, Reroute, NoRequest
  <2>3. CASE UNCHANGED vars
    BY <2>3 DEF vars, rowVars
  <2> QED
    BY <2>1, <2>2, <2>3 DEF Next, EnqueueRun, Age, Reap, ActiveClaim, rowVars
<1> QED
  BY <1>1, <1>2, InitInv, TypeCorrect, PTL DEF Spec, TerminalIsPermanent

\* While control requests do not overlap, the outcome that becomes a run's terminal is
\* that of the worker that made its latest claim.
THEOREM OutcomeCorrect == OneController => (Spec => OutcomeOfHolder)
<1> SUFFICES ASSUME OneController PROVE Spec => OutcomeOfHolder
  OBVIOUS
<1>1. TypeOK /\ ClaimInv /\ [Next]_vars => ClaimInv'
  BY NextInv
<1>2. ClaimInv => [\A w \in Workers : pc[w] = "persist" /\ pc'[w] = "idle"
          /\ status = "running" /\ IsTerminal' => holder = w]_vars
  BY DEF ClaimInv, Executing
<1> QED
  BY <1>1, <1>2, InitInv, TypeCorrect, PTL DEF Spec, OutcomeOfHolder

(***************************************************************************)
(* The inbox: overlapping control requests included.                       *)
(***************************************************************************)

\* Two inbox rows that announce the run are one row.
OneAnnouncement ==
    \A d, e \in inbox : d.status = "delivered" /\ e.status = "delivered" => d = e

\* A step leaves the inbox alone or delivers as deliver_run does.
LEMMA InboxStep ==
    ASSUME [Next]_vars
    PROVE  inbox' = inbox \/ inbox' \in Delivered
<1>1. ASSUME NEW w \in Workers, WorkerStep(w) PROVE inbox' = inbox \/ inbox' \in Delivered
  BY <1>1
  DEF WorkerStep, ReadQueued, SkipDuplicate, ReadFails, Claim, PreflightFails, ClaimLost,
      ClaimFails, RuntimeEnds, RuntimeRaises, Requeue, RequeueLost, Finish, FinishLost,
      PersistRaises, EnsureTerminal, EnsureFails, PublishRetry, PublishFails, FailHandoff,
      Crash, Redeliver, Terminate, recordVars
<1>2. ASSUME NEW c \in Controllers, ControlStep(c) PROVE inbox' = inbox
  BY <1>2 DEF ControlStep, LoadEscalated, Resume, Cancel, Reroute, recordVars
<1>3. CASE UNCHANGED vars
  BY <1>3 DEF vars, recordVars
<1> QED
  BY <1>1, <1>2, <1>3 DEF Next, EnqueueRun, Age, Reap, Terminate, recordVars

\* Delivery keeps one announcement: it announces only into an empty inbox.
LEMMA DeliveredOnce ==
    ASSUME OneAnnouncement, inbox' \in Delivered
    PROVE  OneAnnouncement'
BY DEF OneAnnouncement, Delivered

\* The owner is told of a run at most once, for any workers and clocks, and however
\* control requests overlap.
THEOREM NotifiedOnce == Spec => []NeverDoubleNotifies
<1>1. Init => OneAnnouncement
  BY DEF Init, OneAnnouncement
<1>2. OneAnnouncement /\ [Next]_vars => OneAnnouncement'
  BY InboxStep, DeliveredOnce DEF OneAnnouncement
<1>3. OneAnnouncement => NeverDoubleNotifies
  <2> DEFINE D == {d \in inbox : d.status = "delivered"}
  <2> SUFFICES ASSUME OneAnnouncement PROVE Cardinality(D) <= 1
    BY DEF NeverDoubleNotifies
  <2>1. CASE D = {}
    BY <2>1, FS_EmptySet
  <2>2. CASE D # {}
    <3>1. PICK d \in D : TRUE
      BY <2>2
    <3>2. D = {d}
      BY <3>1 DEF OneAnnouncement
    <3> QED
      BY <3>2, FS_Singleton
  <2> QED
    BY <2>1, <2>2
<1> QED
  BY <1>1, <1>2, <1>3, PTL DEF Spec

(***************************************************************************)
(* The retry fence, for a clock that may repeat readings or run backwards. *)
(***************************************************************************)

\* A step that keeps started_at and in which claims are only dropped.
LEMMA QuietFence ==
    ASSUME TypeOK, FenceInv, UNCHANGED <<startedAt, holder>>,
           \A v \in Workers : /\ claim'[v] \in {claim[v], Null}
                              /\ HandsOff(v)' => HandsOff(v) /\ claim'[v] = claim[v]
    PROVE  FenceInv'
<1> SUFFICES ASSUME NEW v \in Workers
             PROVE  /\ claim'[v] <= startedAt'
                    /\ HandsOff(v)' /\ claim'[v] = startedAt' => holder' = v
  BY DEF FenceInv
<1>1. /\ claim[v] \in Nat /\ startedAt \in Nat /\ claim[v] <= startedAt
      /\ startedAt' = startedAt /\ holder' = holder
      /\ HandsOff(v) /\ claim[v] = startedAt => holder = v
  BY DEF TypeOK, FenceInv
<1>2. /\ claim'[v] \in {claim[v], Null}
      /\ HandsOff(v)' => HandsOff(v) /\ claim'[v] = claim[v]
  OBVIOUS
<1>3. claim'[v] <= startedAt'
  BY <1>1, <1>2 DEF Null
<1> QED
  BY <1>1, <1>2, <1>3

\* A claim's started_at is later than the one it replaces, whatever the clock says.
LEMMA StampGrows ==
    ASSUME TypeOK, NEW w \in Workers, CanClaim(w), Stamp(w)
    PROVE  startedAt' \in Nat /\ startedAt' > startedAt /\ holder' = w
BY DEF CanClaim, Stamp, Readings, NextStartedAt, Max2, TypeOK, Null

\* A step of one worker keeps the fence.
LEMMA WorkerFence ==
    ASSUME TypeOK, FenceInv, NEW w \in Workers, WorkerStep(w)
    PROVE  FenceInv'
<1> DEFINE Drop == \A v \in Workers :
                     /\ claim'[v] \in {claim[v], Null}
                     /\ HandsOff(v)' => HandsOff(v) /\ claim'[v] = claim[v]
<1>a. Acknowledge(w) => Drop
  BY DEF Acknowledge, HandsOff, TypeOK
<1>b. /\ pc[w] \in {"idle", "claim", "runtime", "persist", "publish"}
      /\ \/ \E l \in {"claim", "ensure", "wrapper"} : Goto(w, l)
         \/ pc[w] = "runtime" /\ Goto(w, "persist")
         \/ pc[w] = "persist" /\ Goto(w, "publish")
         \/ pc[w] = "publish" /\ Goto(w, "unpublished")
      /\ UNCHANGED claim
      => Drop
  BY DEF Goto, HandsOff, TypeOK
<1>1. CASE Claim(w)
  <2>1. /\ startedAt' \in Nat /\ startedAt' > startedAt /\ holder' = w
        /\ claim' = [claim EXCEPT ![w] = startedAt']
    BY <1>1, StampGrows DEF Claim
  <2>2. claim \in [Workers -> Nat] /\ startedAt \in Nat
    BY DEF TypeOK
  <2>3. \A v \in Workers : v # w => claim'[v] < startedAt'
    BY <2>1, <2>2 DEF FenceInv
  <2>4. claim'[w] = startedAt'
    BY <2>1, <2>2
  <2> QED
    BY <2>1, <2>2, <2>3, <2>4 DEF FenceInv
<1>2. CASE PreflightFails(w)
  <2>1. /\ startedAt' \in Nat /\ startedAt' > startedAt /\ Acknowledge(w)
    BY <1>2, StampGrows DEF PreflightFails
  <2>2. claim \in [Workers -> Nat] /\ startedAt \in Nat
    BY DEF TypeOK
  <2>3. \A v \in Workers : claim'[v] < startedAt'
    <3> SUFFICES ASSUME NEW v \in Workers PROVE claim'[v] < startedAt'
      OBVIOUS
    <3>1. claim'[v] \in {claim[v], Null}
      BY <2>1, <1>a
    <3>2. claim[v] \in Nat /\ claim[v] <= startedAt
      BY <2>2 DEF FenceInv
    <3> QED
      BY <2>1, <2>2, <3>1, <3>2 DEF Null
  <2>4. \A v \in Workers : claim'[v] \in Nat
    BY <2>1, <2>2, <1>a DEF Null
  <2> QED
    BY <2>1, <2>3, <2>4 DEF FenceInv
<1>3. CASE ~Claim(w) /\ ~PreflightFails(w)
  <2>1. UNCHANGED <<startedAt, holder>>
    BY <1>3
    DEF WorkerStep, ReadQueued, SkipDuplicate, ReadFails, ClaimLost, ClaimFails, RuntimeEnds,
        RuntimeRaises, Requeue, RequeueLost, Finish, FinishLost, PersistRaises, EnsureTerminal,
        EnsureFails, PublishRetry, PublishFails, FailHandoff, Crash, Redeliver, rowVars
  <2>2. CASE SkipDuplicate(w) \/ Redeliver(w)
    <3>1. UNCHANGED <<pc, claim>>
      BY <2>2 DEF SkipDuplicate, Redeliver, workerVars, locals
    <3> QED
      BY <2>1, <3>1, QuietFence DEF HandsOff
  <2>3. CASE ReadQueued(w) \/ ReadFails(w)
    <3>1. pc[w] = "idle" /\ (Goto(w, "claim") \/ Goto(w, "wrapper")) /\ UNCHANGED claim
      BY <2>3 DEF ReadQueued, ReadFails, Take
    <3> QED
      BY <2>1, <3>1, <1>b, QuietFence
  <2>4. CASE ClaimFails(w) \/ RuntimeEnds(w) \/ RuntimeRaises(w) \/ Requeue(w)
               \/ PersistRaises(w) \/ PublishFails(w)
    <3>1. /\ pc[w] \in {"claim", "runtime", "persist", "publish"}
          /\ \/ Goto(w, "ensure") \/ Goto(w, "wrapper")
             \/ pc[w] = "runtime" /\ Goto(w, "persist")
             \/ pc[w] = "persist" /\ Goto(w, "publish")
             \/ pc[w] = "publish" /\ Goto(w, "unpublished")
          /\ UNCHANGED claim
      BY <2>4
      DEF ClaimFails, RuntimeEnds, RuntimeRaises, Requeue, PersistRaises, PublishFails, locals
    <3> QED
      BY <2>1, <3>1, <1>b, QuietFence
  <2>5. CASE EnsureFails(w)
    <3>1. \/ pc[w] = "ensure" /\ Goto(w, "wrapper") /\ UNCHANGED claim
          \/ Acknowledge(w)
      BY <2>5 DEF EnsureFails, locals
    <3>2. Drop
      BY <3>1, <1>a DEF Goto, HandsOff, TypeOK
    <3> QED
      BY <2>1, <3>2, QuietFence
  <2>6. CASE ClaimLost(w) \/ RequeueLost(w) \/ Finish(w) \/ FinishLost(w)
               \/ EnsureTerminal(w) \/ PublishRetry(w) \/ FailHandoff(w) \/ Crash(w)
    <3>1. Acknowledge(w)
      BY <2>6 DEF ClaimLost, RequeueLost, Finish, FinishLost, EnsureTerminal, PublishRetry,
                  FailHandoff, Crash
    <3> QED
      BY <2>1, <3>1, <1>a, QuietFence
  <2> QED
    BY <1>3, <2>2, <2>3, <2>4, <2>5, <2>6 DEF WorkerStep
<1> QED
  BY <1>1, <1>2, <1>3

\* Within one execution (no owner decision puts the run back on the queue) a failed
\* retry publication never fails a later claimant's hand-off, even when the clock
\* repeats readings or runs backwards.
THEOREM HandoffCorrect == Controllers = {} => (Spec => HandoffOfHolder)
<1> SUFFICES ASSUME Controllers = {} PROVE Spec => HandoffOfHolder
  OBVIOUS
<1>1. Init => FenceInv
  BY DEF Init, FenceInv, HandsOff, Null
<1>2. TypeOK /\ FenceInv /\ [Next]_vars => FenceInv'
  <2> SUFFICES ASSUME TypeOK, FenceInv, [Next]_vars PROVE FenceInv'
    OBVIOUS
  <2>1. CASE EnqueueRun \/ Age \/ Reap \/ UNCHANGED vars
    <3>1. UNCHANGED <<startedAt, holder, pc, claim>>
      BY <2>1 DEF EnqueueRun, Age, Reap, vars, rowVars, workerVars, locals
    <3> QED
      BY <3>1, QuietFence DEF HandsOff
  <2> QED
    BY <2>1, WorkerFence DEF Next
<1>3. TypeOK /\ FenceInv /\ [Next]_vars =>
        [\A w \in Workers : pc[w] = "unpublished" /\ pc'[w] = "idle"
          /\ status = "queued" /\ status' = "failed" => holder = w]_vars
  <2> SUFFICES ASSUME TypeOK, FenceInv, [Next]_vars, NEW w \in Workers,
                      pc[w] = "unpublished", pc'[w] = "idle",
                      status = "queued", status' = "failed"
               PROVE  holder = w
    OBVIOUS
  <2>1. FailHandoff(w)
    <3>1. PICK v \in Workers : WorkerStep(v)
      BY DEF Next, EnqueueRun, Age, Reap, vars, rowVars, workerVars
    <3>2. v = w
      BY <3>1
      DEF WorkerStep, ReadQueued, SkipDuplicate, ReadFails, Claim, PreflightFails, ClaimLost,
          ClaimFails, RuntimeEnds, RuntimeRaises, Requeue, RequeueLost, Finish, FinishLost,
          PersistRaises, EnsureTerminal, EnsureFails, PublishRetry, PublishFails, FailHandoff,
          Crash, Redeliver, Goto, Acknowledge, workerVars, TypeOK
    <3> QED
      BY <3>1, <3>2
      DEF WorkerStep, ReadQueued, SkipDuplicate, ReadFails, Take, Claim, PreflightFails,
          ClaimLost, ClaimFails, RuntimeEnds, RuntimeRaises, Requeue, RequeueLost, Finish,
          FinishLost, PersistRaises, EnsureTerminal, EnsureFails, PublishRetry, PublishFails,
          Crash, Redeliver, rowVars
  <2>2. startedAt = claim[w]
    BY <2>1 DEF FailHandoff, CanFailHandoff
  <2> QED
    BY <2>2 DEF FenceInv, HandsOff
<1> QED
  BY <1>1, <1>2, <1>3, TypeCorrect, PTL DEF Spec, HandoffOfHolder

(***************************************************************************)
(* RunLifecycle implements RunContract.                                    *)
(***************************************************************************)


\* A worker that hands its claim over has one to hand over.
LeaseInv == \A w \in Workers : HandsOff(w) => claim[w] # Null

\* Only Claim lets a worker hand off that did not before, and it stamps the claim.
LEMMA LeaseStep ==
    ASSUME TypeOK, LeaseInv, [Next]_vars
    PROVE  LeaseInv'
<1>1. ASSUME NEW w \in Workers, WorkerStep(w) PROVE LeaseInv'
  <2>1. \A v \in Workers : v # w => pc'[v] = pc[v] /\ claim'[v] = claim[v]
    BY <1>1
    DEF TypeOK, WorkerStep, Acknowledge, Goto, ReadQueued, SkipDuplicate, ReadFails, Claim,
        PreflightFails, ClaimLost, ClaimFails, RuntimeEnds, RuntimeRaises, Requeue,
        RequeueLost, Finish, FinishLost, PersistRaises, EnsureTerminal, EnsureFails,
        PublishRetry, PublishFails, FailHandoff, Crash, Redeliver, workerVars, locals
  <2>2. CASE Claim(w)
    <3>1. claim'[w] # Null
      BY <2>2, StampType DEF Claim, TypeOK
    <3> QED
      BY <2>1, <3>1 DEF LeaseInv, HandsOff
  <2>3. CASE ~Claim(w)
    <3>1. HandsOff(w)' => HandsOff(w) /\ claim'[w] = claim[w]
      BY <1>1, <2>3
      DEF TypeOK, HandsOff, WorkerStep, Acknowledge, Goto, ReadQueued, SkipDuplicate,
          ReadFails, PreflightFails, ClaimLost, ClaimFails, RuntimeEnds, RuntimeRaises,
          Requeue, RequeueLost, Finish, FinishLost, PersistRaises, EnsureTerminal,
          EnsureFails, PublishRetry, PublishFails, FailHandoff, Crash, Redeliver, workerVars,
          locals
    <3> QED
      BY <2>1, <3>1 DEF LeaseInv, HandsOff
  <2> QED
    BY <2>2, <2>3
<1>2. CASE UNCHANGED <<pc, claim>>
  BY <1>2 DEF LeaseInv, HandsOff
<1>3. EnqueueRun \/ Age \/ Reap => UNCHANGED <<pc, claim>>
  BY DEF EnqueueRun, Age, Reap, workerVars, locals
<1>4. ASSUME NEW c \in Controllers, ControlStep(c) PROVE UNCHANGED <<pc, claim>>
  BY <1>4 DEF ControlStep, LoadEscalated, Resume, Cancel, Reroute, workerVars, locals
<1>5. UNCHANGED vars => UNCHANGED <<pc, claim>>
  BY DEF vars, workerVars, locals
<1> QED
  BY <1>1, <1>2, <1>3, <1>4, <1>5 DEF Next

\* A step that leaves the row's status, its claim and the trail alone is a stutter.
LEMMA QuietContract ==
    ASSUME UNCHANGED <<status, startedAt, audit>>
    PROVE  UNCHANGED Contract!vars
BY DEF Contract!vars

\* Writing a terminal adds one run.finished and no run.started.
LEMMA TerminateTrail ==
    ASSUME TypeOK, NEW s, Terminate(s)
    PROVE  /\ status' = s
           /\ audit'["finished"] = audit["finished"] + 1
           /\ audit'["started"] = audit["started"]
BY DEF Terminate, Audited, TypeOK, AuditActions

\* Writing a terminal over an active claim is the contract's Conclude.
LEMMA ConcludeContract ==
    ASSUME TypeOK, ClaimInv, ActiveClaim, NEW s \in TerminalStatuses, Terminate(s),
           s # "failed" => status = "running",
           UNCHANGED startedAt
    PROVE  Contract!Next
<1>1. startedAt # Null
  BY DEF ActiveClaim, ClaimInv
<1>2. /\ status' = s
      /\ audit'["finished"] = audit["finished"] + 1
      /\ audit'["started"] = audit["started"]
  BY TerminateTrail
<1>3. \/ status = "running" /\ status' \in Contract!Terminals
      \/ status = "queued" /\ status' = "failed"
  BY <1>2 DEF ActiveClaim, Contract!Terminals, TerminalStatuses
<1> QED
  BY <1>1, <1>2, <1>3 DEF Contract!Next, Contract!Conclude

\* Every step of a worker is a step of the contract or a stutter.
LEMMA WorkerContract ==
    ASSUME TypeOK, ClaimInv, LeaseInv, NEW w \in Workers, WorkerStep(w)
    PROVE  Contract!Next \/ UNCHANGED Contract!vars
<1>1. CASE \/ ReadQueued(w) \/ SkipDuplicate(w) \/ ReadFails(w) \/ ClaimLost(w)
           \/ ClaimFails(w) \/ RuntimeEnds(w) \/ RuntimeRaises(w) \/ RequeueLost(w)
           \/ FinishLost(w) \/ PersistRaises(w) \/ EnsureFails(w) \/ PublishRetry(w)
           \/ PublishFails(w) \/ Crash(w) \/ Redeliver(w)
  <2>1. UNCHANGED <<status, startedAt, audit>>
    BY <1>1
    DEF ReadQueued, SkipDuplicate, ReadFails, ClaimLost, ClaimFails, RuntimeEnds,
        RuntimeRaises, RequeueLost, FinishLost, PersistRaises, EnsureFails, PublishRetry,
        PublishFails, Crash, Redeliver, rowVars, recordVars
  <2> QED
    BY <2>1, QuietContract
<1>2. CASE Claim(w)
  <2>1. /\ status = "queued" /\ status' = "running" /\ startedAt = seen[w]
        /\ startedAt' # Null
    BY <1>2, StampType DEF Claim, CanClaim
  <2>2. startedAt # Null => session # Null
    BY <2>1 DEF ClaimInv, ActiveClaim
  <2>3. CASE startedAt # Null
    <3>1. audit' = audit
      BY <1>2, <2>1, <2>2, <2>3 DEF Claim
    <3> QED
      BY <2>1, <2>3, <3>1 DEF Contract!Next, Contract!Start
  <2>4. CASE startedAt = Null
    <3>1. audit' = Audited("started")
      BY <1>2, <2>1, <2>4 DEF Claim
    <3>2. /\ audit'["started"] = audit["started"] + 1
          /\ audit'["finished"] = audit["finished"]
      BY <3>1 DEF Audited, TypeOK, AuditActions
    <3> QED
      BY <2>1, <2>4, <3>2 DEF Contract!Next, Contract!Start
  <2> QED
    BY <2>3, <2>4
<1>3. CASE PreflightFails(w)
  <2>1. status = "queued" /\ startedAt' # Null /\ Terminate("failed")
    BY <1>3, StampType DEF PreflightFails, CanClaim
  <2>2. /\ status' = "failed"
        /\ audit'["finished"] = audit["finished"] + 1
        /\ audit'["started"] = audit["started"]
    BY <2>1, TerminateTrail
  <2> QED
    BY <2>1, <2>2 DEF Contract!Next, Contract!Reject
<1>4. CASE Requeue(w)
  <2>1. /\ status = "running" /\ status' = "queued"
        /\ UNCHANGED <<startedAt, audit>>
    BY <1>4 DEF Requeue, CanRequeue, recordVars
  <2> QED
    BY <2>1 DEF Contract!Next, Contract!HandBack
<1>5. CASE Finish(w)
  <2>1. /\ status = "running" /\ Terminate(ClassifyTerminal(outcome[w]))
        /\ UNCHANGED startedAt
    BY <1>5 DEF Finish, CanFinish
  <2>2. ActiveClaim /\ ClassifyTerminal(outcome[w]) \in TerminalStatuses
    BY <2>1, ClassifyType DEF ActiveClaim
  <2> QED
    BY <2>1, <2>2, ConcludeContract
<1>6. CASE EnsureTerminal(w)
  <2>1. CASE CanEnsure(w)
    <3>1. ActiveClaim /\ Terminate("failed") /\ UNCHANGED startedAt
      BY <1>6, <2>1 DEF EnsureTerminal, CanEnsure, ActiveClaim
    <3> QED
      BY <3>1, ConcludeContract DEF TerminalStatuses
  <2>2. CASE ~CanEnsure(w)
    BY <1>6, <2>2, QuietContract DEF EnsureTerminal
  <2> QED
    BY <2>1, <2>2
<1>7. CASE FailHandoff(w)
  <2>1. CASE CanFailHandoff(w)
    <3>1. ActiveClaim /\ Terminate("failed") /\ UNCHANGED startedAt
      BY <1>7, <2>1 DEF FailHandoff, CanFailHandoff, ActiveClaim, LeaseInv, HandsOff
    <3> QED
      BY <3>1, ConcludeContract DEF TerminalStatuses
  <2>2. CASE ~CanFailHandoff(w)
    BY <1>7, <2>2, QuietContract DEF FailHandoff
  <2> QED
    BY <2>1, <2>2
<1> QED
  BY <1>1, <1>2, <1>3, <1>4, <1>5, <1>6, <1>7 DEF WorkerStep

\* Every owner decision is a step of the contract: the run it finds is still escalated.
LEMMA ControlContract ==
    ASSUME TypeOK, ClaimInv, NEW c \in Controllers, ControlStep(c)
    PROVE  Contract!Next \/ UNCHANGED Contract!vars
<1>1. CASE LoadEscalated(c)
  BY <1>1, QuietContract DEF LoadEscalated, rowVars, recordVars
<1>2. CASE Resume(c) \/ Reroute(c)
  <2>1. status = "escalated"
    BY <1>2 DEF Resume, Reroute, ClaimInv, NoRequest
  <2>2. /\ status' = "queued" /\ startedAt' = Null
        /\ audit'["started"] = audit["started"]
        /\ audit'["finished"] = audit["finished"]
    BY <1>2 DEF Resume, Reroute, Requeued, Audited, TypeOK, AuditActions
  <2> QED
    BY <2>1, <2>2 DEF Contract!Next, Contract!Reopen
<1>3. CASE Cancel(c)
  <2>1. status = "escalated"
    BY <1>3 DEF Cancel, ClaimInv, NoRequest
  <2>2. /\ status' = "failed" /\ startedAt' = startedAt
        /\ audit'["started"] = audit["started"]
        /\ audit'["finished"] = audit["finished"]
    BY <1>3 DEF Cancel, Audited, TypeOK, AuditActions
  <2> QED
    BY <2>1, <2>2 DEF Contract!Next, Contract!Close
<1> QED
  BY <1>1, <1>2, <1>3 DEF ControlStep

\* The step of the refinement.
LEMMA NextContract ==
    ASSUME TypeOK, ClaimInv, LeaseInv, [Next]_vars
    PROVE  [Contract!Next]_(Contract!vars)
<1>1. CASE EnqueueRun \/ Age \/ UNCHANGED vars
  <2>1. UNCHANGED <<status, startedAt, audit>>
    BY <1>1 DEF EnqueueRun, Age, vars, rowVars, recordVars
  <2> QED
    BY <2>1, QuietContract
<1>2. CASE Reap
  <2>1. ActiveClaim /\ Terminate("failed") /\ UNCHANGED startedAt
    BY <1>2 DEF Reap
  <2> QED
    BY <2>1, ConcludeContract DEF TerminalStatuses
<1> QED
  BY <1>1, <1>2, WorkerContract, ControlContract DEF Next

\* While control requests do not overlap, the whole machinery (workers, retries,
\* duplicates, crashes, the reaper, the owner's decisions) implements RunContract.
THEOREM ContractImplemented == OneController => (Spec => ImplementsContract)
<1> SUFFICES ASSUME OneController PROVE Spec => ImplementsContract
  OBVIOUS
<1>1. Init => Contract!Init
  BY DEF Init, Contract!Init, AuditActions
<1>2. Init => LeaseInv
  BY DEF Init, LeaseInv, HandsOff
<1>3. TypeOK /\ ClaimInv /\ [Next]_vars => ClaimInv'
  BY NextInv
<1>4. TypeOK /\ LeaseInv /\ [Next]_vars => LeaseInv'
  BY LeaseStep
<1>5. TypeOK /\ ClaimInv /\ LeaseInv /\ [Next]_vars => [Contract!Next]_(Contract!vars)
  BY NextContract
<1> QED
  BY <1>1, <1>2, <1>3, <1>4, <1>5, InitInv, TypeCorrect, PTL
  DEF Spec, ImplementsContract, Contract!Spec

-----------------------------------------------------------------------------
(* The answer of a run, as ChatStream has it: its usage and its terminal.      *)

\* Where the answer is made, where its usage is settled, and where it is durable.
Making == {"turn", "retract", "tools", "length", "final", "rewrite", "persist", "commit"}
Settled == {"cflush", "cpub", "eretract", "epub", "asked", "done", "suggest"}
Durable == {"asked", "done", "suggest"}
Concluding == {"asked", "done", "suggest", "esalvage", "eretract", "epub", "end"}
\* The terminals that are out or on their way.
EndsOut == {e \in Range(stored) \cup {out.env} : e.kind \in Terminals}

StreamTypes ==
    /\ point \in Points /\ seq \in Nat /\ termSeq \in Nat
    /\ spent \in Nat /\ recorded \in Nat
    /\ stored \in Seq(Range(stored)) /\ out = [stage |-> out.stage, env |-> out.env]

\* The salvage is armed while the answer is made, and nothing is recorded before.
UsageAccounted ==
    /\ point \in Making => armed
    /\ point \in Settled => ~armed
    /\ point = "retract" => after \in {"tools", "turn", "rewrite"}
    /\ point \in {"send", "start"} => recorded = 0
    /\ ~doubt => IF armed THEN recorded = 0 /\ point # "end" ELSE recorded = spent

\* A terminal has the seq that was kept for it, until an error ends the answer.
OneTerminal ==
    /\ \A e, f \in EndsOut : e.seq = f.seq
    /\ point # "end" => \A e \in EndsOut : e.seq = termSeq /\ termSeq # 0

\* Which terminal can be out is decided by what was committed.
TerminalEarned ==
    /\ point \in Durable => committed
    /\ committed => reply.finish = "stop" /\ point \in Concluding
    /\ point = "cpub" => reply.finish = "cancelled"
    /\ \A e \in EndsOut : /\ e.kind = "done" => committed
                          /\ e.kind = "cancelled" => reply.finish = "cancelled" /\ point \in {"cpub", "end"}

StreamInv == StreamTypes /\ UsageAccounted /\ OneTerminal /\ TerminalEarned

\* A step that publishes no terminal, and where it can go.
NoTerminalStep ==
    /\ UNCHANGED <<termSeq, committed, reply>> /\ EndsOut' \subseteq EndsOut /\ StreamTypes'
    /\ point' = "cpub" => point = "cpub"
    /\ point = "end" => point' = "end"
    /\ point = "cpub" => point' \in {"cpub", "end"}
    /\ point' \in Durable => committed
    /\ committed => point' \in Concluding

\* Nothing is published, or nothing that ends the stream.
LEMMA OutIdle == ASSUME stored' = stored, out' = Idle
                 PROVE  EndsOut' \subseteq EndsOut /\ out' = [stage |-> out'.stage, env |-> out'.env]
<1>1. out' = [stage |-> out'.stage, env |-> out'.env] /\ out'.env.kind = "start"
  BY DEF Idle, Envelope
<1> QED BY <1>1 DEF EndsOut, Terminals, Range

LEMMA OutSame == ASSUME UNCHANGED <<stored, out>> PROVE EndsOut' = EndsOut
  BY DEF EndsOut, Range

LEMMA EmitIs ==
    ASSUME StreamTypes, NEW k, NEW t, Emit(k, t), k \notin Terminals, stored' = stored
    PROVE  /\ EndsOut' \subseteq EndsOut /\ out' = [stage |-> out'.stage, env |-> out'.env]
           /\ seq' \in Nat
<1>1. /\ out' = [stage |-> out'.stage, env |-> out'.env] /\ out'.env.kind = k
      /\ seq' \in Nat
  BY DEF Emit, Publish, Envelope, StreamTypes
<1> QED BY <1>1 DEF EndsOut, Range

\* The list gets the envelope on its way, and loses its oldest.
LEMMA PushIs ==
    ASSUME StreamTypes, Push
    PROVE  /\ EndsOut' \subseteq EndsOut /\ out' = [stage |-> out'.stage, env |-> out'.env]
           /\ stored' \in Seq(Range(stored'))
<1> DEFINE S == Range(stored) \cup {out.env}
           list == Append(stored, out.env)
<1>1. stored \in Seq(S) /\ out.env \in S
  BY DEF StreamTypes
<1>2. list \in Seq(S) /\ list # <<>> /\ Tail(list) \in Seq(S)
  BY <1>1
<1>3. stored' = IF Len(list) > MaxReplay THEN Tail(list) ELSE list
  BY DEF Push
<1> HIDE DEF list
<1>4. stored' \in Seq(S)
  BY <1>2, <1>3
<1>5. \A i \in DOMAIN stored' : stored'[i] \in S
  BY <1>4, ElementOfSeq
<1>6. Range(stored') \subseteq S /\ stored' \in Seq(Range(stored'))
  <2>1. DOMAIN stored' = 1..Len(stored') /\ Len(stored') \in Nat
    BY <1>4
  <2>2. stored' = [i \in 1..Len(stored') |-> stored'[i]]
    BY <1>4
  <2>3. \A i \in 1..Len(stored') : stored'[i] \in Range(stored')
    BY <2>1 DEF Range
  <2>4. Range(stored') \subseteq S
    BY <1>5 DEF Range
  <2> QED BY <1>4, <2>1, <2>2, <2>3, <2>4
<1>7. out' = [stage |-> out'.stage, env |-> out'.env] /\ out'.env = out.env
  <2>1. out = [stage |-> out.stage, env |-> out.env] /\ out' = [out EXCEPT !.stage = "send"]
    BY DEF StreamTypes, Push
  <2> QED BY <2>1
<1> QED BY <1>6, <1>7 DEF EndsOut

\* What a step that publishes no terminal must keep.
LEMMA NoTerminalKeeps ==
    ASSUME StreamInv, NoTerminalStep, UsageAccounted'
    PROVE  StreamInv'
<1>1. OneTerminal'
  BY DEF StreamInv, OneTerminal, NoTerminalStep
<1>2. TerminalEarned'
  BY DEF StreamInv, TerminalEarned, NoTerminalStep
<1> QED BY <1>1, <1>2 DEF StreamInv, NoTerminalStep

\* The steps that make the answer: they leave what was spent to the commit.
LEMMA MakingSteps ==
    ASSUME StreamInv,
           \/ Begin \/ Start \/ Chunk \/ FlushText \/ Retract \/ ToolTurn \/ Tools
           \/ Retry \/ EndTurn \/ Continue \/ Final \/ Rewrite \/ Persist
    PROVE  StreamInv'
<1> USE DEF answer, usage, terminal, marks, rest, To
<1>0. StreamTypes /\ UsageAccounted /\ TerminalEarned
  BY DEF StreamInv
<1>1. /\ UNCHANGED <<termSeq, committed, reply, stored, doubt, recorded>>
      /\ spent' = spent \/ (spent' = spent + 1 /\ point \in {"turn", "length"})
      /\ \/ UNCHANGED <<seq, out>>
         \/ \E k \in {"start", "delta", "retract", "event"}, t \in {<<>>, buf} : Emit(k, t)
  <2>1. CASE Begin
    BY <2>1 DEF Begin
  <2>2. CASE Start
    BY <2>2 DEF Start
  <2>3. CASE Chunk
    BY <2>3 DEF Chunk
  <2>4. CASE FlushText
    BY <2>4 DEF FlushText
  <2>5. CASE Retract
    BY <2>5 DEF Retract
  <2>6. CASE ToolTurn
    BY <2>6 DEF ToolTurn
  <2>7. CASE Tools
    BY <2>7 DEF Tools
  <2>8. CASE Retry
    BY <2>8 DEF Retry
  <2>9. CASE EndTurn
    BY <2>9 DEF EndTurn
  <2>10. CASE Continue
    BY <2>10 DEF Continue
  <2>11. CASE Final
    BY <2>11 DEF Final
  <2>12. CASE Rewrite
    BY <2>12 DEF Rewrite
  <2>13. CASE Persist
    BY <2>13 DEF Persist
  <2> QED BY <2>1, <2>2, <2>3, <2>4, <2>5, <2>6, <2>7, <2>8, <2>9, <2>10, <2>11, <2>12, <2>13
<1>2. EndsOut' \subseteq EndsOut /\ StreamTypes'
  <2>1. spent' \in Nat
    BY <1>0, <1>1 DEF StreamTypes
  <2>2. point' \in Points
    BY <1>0 DEF StreamTypes, UsageAccounted, Begin, Start, Chunk, FlushText, Retract, ToolTurn, Tools,
                Retry, EndTurn, Continue, Final, Rewrite, Persist, Points, Stoppable
  <2>3. /\ EndsOut' \subseteq EndsOut /\ out' = [stage |-> out'.stage, env |-> out'.env]
        /\ seq' \in Nat
    <3>1. CASE UNCHANGED <<seq, out>>
      BY <1>0, <1>1, <3>1, OutSame DEF StreamTypes
    <3>2. CASE \E k \in {"start", "delta", "retract", "event"}, t \in {<<>>, buf} : Emit(k, t)
      <4>1. PICK k \in {"start", "delta", "retract", "event"}, t \in {<<>>, buf} : Emit(k, t)
        BY <3>2
      <4>2. k \notin Terminals
        BY DEF Terminals
      <4> QED BY <1>0, <1>1, <4>1, <4>2, EmitIs
    <3> QED BY <1>1, <3>1, <3>2
  <2> QED BY <1>0, <1>1, <2>1, <2>2, <2>3 DEF StreamTypes, Range
<1>3. \/ point' \in Making /\ point \in Making /\ armed' = armed /\ (point' = "retract" => after' \in {"tools", "turn", "rewrite"})
      \/ point = "send" /\ point' = "start" /\ armed' = armed /\ spent' = spent
      \/ point = "start" /\ point' = "turn" /\ armed' /\ spent' = spent
      \/ point' = "cflush" /\ point = "cflush" /\ armed' = armed /\ spent' = spent
  <2>1. CASE Retract
    BY <1>0, <2>1 DEF Retract, UsageAccounted, Making
  <2>2. CASE FlushText
    BY <2>2 DEF FlushText, Making
  <2>3. CASE Begin \/ Start \/ Chunk \/ ToolTurn \/ Tools
    BY <2>3 DEF Begin, Start, Chunk, ToolTurn, Tools, Making
  <2>4. CASE Retry \/ EndTurn \/ Continue \/ Final \/ Rewrite \/ Persist
    BY <2>4 DEF Retry, EndTurn, Continue, Final, Rewrite, Persist, Making
  <2> QED BY <2>1, <2>2, <2>3, <2>4, Zenon
<1>4. ~committed
  BY <1>0, <1>3 DEF TerminalEarned, Concluding, Making
<1>5. NoTerminalStep
  BY <1>1, <1>2, <1>3, <1>4 DEF NoTerminalStep, Making, Durable
<1>6. UsageAccounted'
  <2>1. CASE point \in Making /\ point' \in Making
    <3>1. armed' /\ armed /\ (point' = "retract" => after' \in {"tools", "turn", "rewrite"})
      BY <1>0, <1>3, <2>1 DEF UsageAccounted, Making
    <3>2. ~doubt' => recorded' = 0 /\ point' # "end"
      BY <1>0, <1>1, <2>1, <3>1 DEF UsageAccounted, Making
    <3>3. point' \notin Settled /\ point' \notin {"send", "start"}
      BY <2>1 DEF Making, Settled
    <3> QED BY <3>1, <3>2, <3>3 DEF UsageAccounted
  <2>2. CASE point = "start" /\ point' = "turn"
    BY <1>0, <1>1, <1>3, <2>2 DEF UsageAccounted, Making, Settled
  <2>3. CASE (point = "send" /\ point' = "start") \/ (point' = "cflush" /\ point = "cflush")
    BY <1>0, <1>1, <1>3, <2>3 DEF UsageAccounted, Making, Settled
  <2>4. \/ point \in Making /\ point' \in Making
        \/ point = "start" /\ point' = "turn"
        \/ point = "send" /\ point' = "start"
        \/ point' = "cflush" /\ point = "cflush"
    BY <1>3
  <2> QED BY <2>1, <2>2, <2>3, <2>4
<1> QED BY <1>5, <1>6, NoTerminalKeeps

\* The steps after the commit that publish no terminal.
LEMMA ConcludingSteps ==
    ASSUME StreamInv, AskUser \/ DoneSettled \/ Suggest \/ ErrorRetract
    PROVE  StreamInv'
<1> USE DEF answer, usage, terminal, marks, rest, To
<1>0. StreamTypes /\ UsageAccounted /\ TerminalEarned
  BY DEF StreamInv
<1>1. /\ UNCHANGED <<termSeq, committed, reply, stored, doubt, recorded, spent, armed>>
      /\ \/ UNCHANGED <<seq, out>>
         \/ Emit("event", <<>>) \/ Emit("suggestions", <<>>) \/ Emit("retract", <<>>)
      /\ \/ point = "asked" /\ point' = "done"
         \/ point = "done" /\ point' \in {"suggest", "end"}
         \/ point = "suggest" /\ point' = "end"
         \/ point = "eretract" /\ point' \in {"epub", "end"}
  BY DEF AskUser, DoneSettled, Suggest, ErrorRetract
<1>2. EndsOut' \subseteq EndsOut /\ out' = [stage |-> out'.stage, env |-> out'.env] /\ seq' \in Nat
  <2>1. CASE UNCHANGED <<seq, out>>
    BY <1>0, <1>1, <2>1, OutSame DEF StreamTypes
  <2>2. CASE Emit("event", <<>>)
    BY <1>0, <1>1, <2>2, EmitIs DEF Terminals
  <2>3. CASE Emit("suggestions", <<>>)
    BY <1>0, <1>1, <2>3, EmitIs DEF Terminals
  <2>4. CASE Emit("retract", <<>>)
    BY <1>0, <1>1, <2>4, EmitIs DEF Terminals
  <2> QED BY <1>1, <2>1, <2>2, <2>3, <2>4
<1>3. StreamTypes'
  BY <1>0, <1>1, <1>2 DEF StreamTypes, Range, Points, ErrorFlow
<1>4. NoTerminalStep
  BY <1>0, <1>1, <1>2, <1>3 DEF NoTerminalStep, TerminalEarned, Durable, Concluding
<1>5. UsageAccounted'
  BY <1>0, <1>1 DEF UsageAccounted, Making, Settled
<1> QED BY <1>4, <1>5, NoTerminalKeeps

\* The backplane and the sockets, and a Stop that is asked for.
LEMMA BackplaneSteps ==
    ASSUME StreamInv, Push \/ Send \/ RequestStop \/ (\E c \in Clients : Join(c) \/ Replay(c) \/ Leave(c))
    PROVE  StreamInv'
<1>0. StreamTypes /\ UsageAccounted /\ TerminalEarned
  BY DEF StreamInv
<1>1. /\ UNCHANGED <<point, after, seq, termSeq, committed, reply, doubt, recorded, spent, armed>>
      /\ \/ Push
         \/ stored' = stored /\ (out' = Idle \/ out' = out)
  BY DEF Push, Send, RequestStop, Join, Replay, Leave, producer
<1>2. /\ EndsOut' \subseteq EndsOut /\ out' = [stage |-> out'.stage, env |-> out'.env]
      /\ stored' \in Seq(Range(stored'))
  <2>1. CASE Push
    BY <1>0, <2>1, PushIs
  <2>2. CASE stored' = stored /\ out' = Idle
    BY <1>0, <2>2, OutIdle DEF StreamTypes, Range
  <2>3. CASE stored' = stored /\ out' = out
    BY <1>0, <2>3, OutSame DEF StreamTypes, Range
  <2> QED BY <1>1, <2>1, <2>2, <2>3
<1>3. StreamTypes'
  BY <1>0, <1>1, <1>2 DEF StreamTypes
<1>4. NoTerminalStep
  BY <1>0, <1>1, <1>2, <1>3 DEF NoTerminalStep, TerminalEarned
<1>5. UsageAccounted'
  BY <1>0, <1>1 DEF UsageAccounted
<1> QED BY <1>4, <1>5, NoTerminalKeeps

\* Whatever interrupts the producer: the publish under way is given up.
LEMMA InterruptingSteps ==
    ASSUME StreamInv, Stop \/ Abort \/ TerminalTimeout \/ SettlementFails \/ ProducerDies
    PROVE  StreamInv'
<1> USE DEF answer, usage, terminal, marks, rest, To
<1>0. StreamTypes /\ UsageAccounted /\ TerminalEarned
  BY DEF StreamInv
<1>1. /\ UNCHANGED <<seq, termSeq, committed, reply, stored, recorded, spent, armed>> /\ out' = Idle
      /\ \/ point \in Stoppable /\ point' = "csalvage" /\ doubt' = doubt
         \/ point \in Stoppable \cup Durable /\ Raised /\ doubt' = doubt
         \/ UNCHANGED <<point, after, doubt>>
         \/ point \in {"cflush", "eretract", "epub"} /\ point' = "end" /\ doubt' = doubt
         \/ point' = "end" /\ doubt' = TRUE
  BY DEF Stop, AcceptStop, Abort, TerminalTimeout, SettlementFails, ProducerDies, Interrupted, Durable
<1>2. EndsOut' \subseteq EndsOut /\ StreamTypes'
  <2>1. point' \in Points
    BY <1>0, <1>1 DEF Raised, StreamTypes, Points, CancelFlow, ErrorFlow
  <2> QED BY <1>0, <1>1, <2>1, OutIdle DEF StreamTypes, Range
<1>3. point' \in {"csalvage", "esalvage", "end"} \/ UNCHANGED <<point, after, doubt>>
  BY <1>1 DEF Raised
<1>4. committed => point \notin Stoppable
  BY <1>0 DEF TerminalEarned, Concluding, Stoppable
<1>5. NoTerminalStep
  <2>1. point = "end" => point' = "end"
    BY <1>1 DEF Stoppable, Durable
  <2>2. point = "cpub" => point' \in {"cpub", "end"}
    BY <1>1 DEF Stoppable, Durable
  <2>3. committed => point' \in Concluding
    BY <1>0, <1>1, <1>4 DEF Raised, TerminalEarned, Concluding
  <2>4. (point' = "cpub" => point = "cpub") /\ (point' \in Durable => committed)
    BY <1>0, <1>3 DEF Durable, TerminalEarned
  <2> QED BY <1>1, <1>2, <2>1, <2>2, <2>3, <2>4 DEF NoTerminalStep
<1>6. UsageAccounted'
  BY <1>0, <1>1, <1>3 DEF UsageAccounted, Making, Settled, Raised, Stoppable, Durable
<1> QED BY <1>5, <1>6, NoTerminalKeeps

\* A step that publishes no terminal and writes no answer, but settles the usage.
LEMMA SalvageStep ==
    ASSUME StreamInv, Salvage
    PROVE  StreamInv'
<1> USE DEF answer, terminal, rest, To
<1>0. StreamTypes /\ UsageAccounted /\ TerminalEarned
  BY DEF StreamInv
<1>1. PICK lost \in BOOLEAN : Salvaged(lost)
  BY DEF Salvage
<1>2. /\ UNCHANGED <<seq, termSeq, committed, reply, stored, out, spent, after>> /\ ~armed'
      /\ recorded' = (IF armed /\ ~lost THEN recorded + spent ELSE recorded)
      /\ (doubt' <=> doubt \/ lost)
      /\ \/ point = "csalvage" /\ point' = "cflush"
         \/ point = "esalvage" /\ point' = "eretract"
  BY <1>1 DEF Salvage, Salvaged
<1>3. EndsOut' \subseteq EndsOut /\ StreamTypes'
  BY <1>0, <1>2, OutSame DEF StreamTypes, Range, Points, CancelFlow, ErrorFlow
<1>4. NoTerminalStep
  BY <1>0, <1>2, <1>3 DEF NoTerminalStep, TerminalEarned, Durable, Concluding
<1>5. ~doubt' => recorded' = spent'
  BY <1>0, <1>2 DEF UsageAccounted, StreamTypes
<1>6. UsageAccounted'
  BY <1>2, <1>5 DEF UsageAccounted, Making, Settled
<1> QED BY <1>4, <1>6, NoTerminalKeeps

LEMMA EndKinds == \A e \in EndsOut : e.kind \in {"done", "error", "cancelled"}
  BY DEF EndsOut, Terminals

\* The answer becomes durable: no terminal was out before.
LEMMA CommitSteps ==
    ASSUME StreamInv, Commit \/ CommitFails
    PROVE  StreamInv'
<1> USE DEF answer, terminal, rest, To
<1>0. StreamTypes /\ UsageAccounted /\ TerminalEarned /\ OneTerminal
  BY DEF StreamInv
<1>1. /\ UNCHANGED <<seq, termSeq, stored, out, spent, after>> /\ point = "commit"
      /\ recorded' = recorded \/ recorded' = recorded + spent
  BY DEF Commit, CommitFails
<1>2. armed /\ ~committed /\ (\A e \in EndsOut : e.kind = "error") /\ EndsOut' = EndsOut
  <2>1. armed /\ ~committed
    BY <1>0, <1>1 DEF UsageAccounted, TerminalEarned, Making, Concluding
  <2>2. \A e \in EndsOut : e.kind = "error"
    BY <1>0, <1>1, <2>1, EndKinds DEF TerminalEarned
  <2> QED BY <1>1, <2>1, <2>2, OutSame
<1>3. CASE Commit
  <2>1. /\ reply'.finish = "stop" /\ committed' /\ ~armed' /\ doubt' = doubt
        /\ recorded' = recorded + spent /\ point' \in {"asked", "done"}
    BY <1>3 DEF Commit
  <2>2. UsageAccounted'
    BY <1>0, <1>1, <1>2, <2>1 DEF UsageAccounted, StreamTypes, Making, Settled
  <2>3. TerminalEarned'
    BY <1>2, <2>1 DEF TerminalEarned, Concluding, Durable
  <2>4. StreamTypes'
    BY <1>0, <1>1, <2>1 DEF StreamTypes, Range, Points
  <2>5. OneTerminal'
    BY <1>0, <1>1, <1>2 DEF OneTerminal
  <2> QED BY <2>2, <2>3, <2>4, <2>5 DEF StreamInv
<1>4. CASE CommitFails
  <2>1. UNCHANGED <<committed, armed>> /\ doubt' /\ point' \in {"csalvage", "esalvage"}
    BY <1>4 DEF CommitFails, Raised
  <2>2. UsageAccounted'
    BY <2>1 DEF UsageAccounted, Making, Settled
  <2>3. TerminalEarned'
    BY <1>2, <2>1 DEF TerminalEarned, Durable
  <2>4. StreamTypes'
    BY <1>0, <1>1, <2>1 DEF StreamTypes, Range, Points, CancelFlow, ErrorFlow
  <2>5. OneTerminal'
    BY <1>0, <1>1, <1>2 DEF OneTerminal
  <2> QED BY <2>2, <2>3, <2>4, <2>5 DEF StreamInv
<1> QED BY <1>3, <1>4

\* The partial answer is saved: a cancelled one was not committed.
LEMMA SavePartialStep ==
    ASSUME StreamInv, SavePartial
    PROVE  StreamInv'
<1> USE DEF answer, usage, rest, To
<1>0. StreamTypes /\ UsageAccounted /\ TerminalEarned /\ OneTerminal
  BY DEF StreamInv
<1>1. /\ UNCHANGED <<seq, termSeq, committed, stored, out, spent, recorded, armed, doubt, after>>
      /\ point = "cflush"
      /\ \/ reply'.finish = "cancelled" /\ point' = "cpub"
         \/ reply' = reply /\ point' = "eretract"
  BY DEF SavePartial
<1>2. ~committed /\ (\A e \in EndsOut : e.kind = "error") /\ EndsOut' = EndsOut
  <2>1. ~committed
    BY <1>0, <1>1 DEF TerminalEarned, Concluding
  <2>2. \A e \in EndsOut : e.kind = "error"
    BY <1>0, <1>1, <2>1, EndKinds DEF TerminalEarned
  <2> QED BY <1>1, <2>1, <2>2, OutSame
<1>3. UsageAccounted'
  BY <1>0, <1>1 DEF UsageAccounted, Making, Settled
<1>4. TerminalEarned'
  BY <1>1, <1>2 DEF TerminalEarned, Durable
<1>5. StreamTypes'
  BY <1>0, <1>1 DEF StreamTypes, Range, Points, CancelFlow, ErrorFlow
<1>6. OneTerminal'
  BY <1>0, <1>1, <1>2 DEF OneTerminal
<1> QED BY <1>3, <1>4, <1>5, <1>6 DEF StreamInv

\* A terminal is published: the first one, or again under the seq it has.
LEMMA TerminalOut ==
    ASSUME StreamInv, point # "end", stored' = stored, NEW env, Publish(env), env.kind \in Terminals,
           env.seq = IF termSeq = 0 THEN seq + 1 ELSE termSeq
    PROVE  /\ EndsOut' \subseteq EndsOut \cup {env}
           /\ \A e, f \in EndsOut' : e.seq = f.seq
           /\ \A e \in EndsOut' : e.seq = env.seq
           /\ env.seq \in Nat \ {0} /\ out' = [stage |-> out'.stage, env |-> out'.env]
<1>1. EndsOut' \subseteq EndsOut \cup {env} /\ out' = [stage |-> out'.stage, env |-> out'.env]
  <2>1. out' = [stage |-> "push", env |-> env]
    BY DEF Publish
  <2> QED BY <2>1 DEF EndsOut, Range
<1>2. \A e \in EndsOut : e.seq = env.seq
  BY DEF StreamInv, OneTerminal
<1>3. env.seq \in Nat \ {0}
  BY DEF StreamInv, StreamTypes
<1> QED BY <1>1, <1>2, <1>3

LEMMA TerminalSteps ==
    ASSUME StreamInv, DoneTerminal \/ CancelledTerminal \/ ErrorTerminal
    PROVE  StreamInv'
<1> USE DEF answer, usage, terminal, marks, rest, To
<1>0. StreamTypes /\ UsageAccounted /\ TerminalEarned /\ OneTerminal
  BY DEF StreamInv
<1>1. UNCHANGED <<committed, reply, stored, spent, recorded, armed, doubt, after>>
  BY DEF DoneTerminal, CancelledTerminal, ErrorTerminal
<1>2. CASE DoneTerminal
  <2> DEFINE env == [Envelope(termSeq', "done", <<>>) EXCEPT !.pending = ~ask]
  <2>1. /\ point = "done" /\ point' = point /\ Publish(env)
        /\ termSeq' = (IF termSeq = 0 THEN seq + 1 ELSE termSeq)
        /\ seq' = IF termSeq = 0 THEN seq + 1 ELSE seq
    BY <1>2 DEF DoneTerminal
  <2>2. env.kind = "done" /\ env.seq = termSeq' /\ "done" \in Terminals
    BY DEF Envelope, Terminals
  <2> HIDE DEF env
  <2>3. /\ EndsOut' \subseteq EndsOut \cup {env} /\ (\A e, f \in EndsOut' : e.seq = f.seq)
        /\ (\A e \in EndsOut' : e.seq = termSeq') /\ termSeq' \in Nat \ {0}
        /\ out' = [stage |-> out'.stage, env |-> out'.env]
    BY <1>1, <2>1, <2>2, TerminalOut
  <2>4. StreamTypes'
    BY <1>0, <1>1, <2>1, <2>3 DEF StreamTypes, Range
  <2>5. OneTerminal'
    BY <2>3 DEF OneTerminal
  <2>6. TerminalEarned'
    BY <1>0, <1>1, <2>1, <2>2, <2>3 DEF TerminalEarned, Durable
  <2>7. UsageAccounted'
    BY <1>0, <1>1, <2>1 DEF UsageAccounted
  <2> QED BY <2>4, <2>5, <2>6, <2>7 DEF StreamInv
<1>3. CASE CancelledTerminal
  <2>1. CASE UNCHANGED <<termSeq, seq, out>> /\ point = "cpub" /\ point' = "end"
    <3>1. EndsOut' \subseteq EndsOut
      BY <1>1, <2>1, OutSame
    <3>2. StreamTypes'
      BY <1>0, <1>1, <2>1 DEF StreamTypes, Range, Points
    <3>3. NoTerminalStep
      BY <1>1, <2>1, <3>1, <3>2 DEF NoTerminalStep, Durable, Concluding
    <3>4. UsageAccounted'
      BY <1>0, <1>1, <2>1 DEF UsageAccounted, Making, Settled
    <3> QED BY <3>3, <3>4, NoTerminalKeeps
  <2>2. CASE ~(UNCHANGED <<termSeq, seq, out>> /\ point = "cpub" /\ point' = "end")
    <3> DEFINE env == Envelope(termSeq', "cancelled", <<>>)
    <3>1. /\ point = "cpub" /\ point' = point /\ Publish(env)
          /\ termSeq' = (IF termSeq = 0 THEN seq + 1 ELSE termSeq)
          /\ seq' = IF termSeq = 0 THEN seq + 1 ELSE seq
      BY <1>3, <2>2 DEF CancelledTerminal
    <3>2. env.kind = "cancelled" /\ env.seq = termSeq' /\ "cancelled" \in Terminals
      BY DEF Envelope, Terminals
    <3> HIDE DEF env
    <3>3. /\ EndsOut' \subseteq EndsOut \cup {env} /\ (\A e, f \in EndsOut' : e.seq = f.seq)
          /\ (\A e \in EndsOut' : e.seq = termSeq') /\ termSeq' \in Nat \ {0}
          /\ out' = [stage |-> out'.stage, env |-> out'.env]
      BY <1>1, <3>1, <3>2, TerminalOut
    <3>4. StreamTypes'
      BY <1>0, <1>1, <3>1, <3>3 DEF StreamTypes, Range
    <3>5. OneTerminal'
      BY <3>3 DEF OneTerminal
    <3>6. TerminalEarned'
      BY <1>0, <1>1, <3>1, <3>2, <3>3 DEF TerminalEarned
    <3>7. UsageAccounted'
      BY <1>0, <1>1, <3>1 DEF UsageAccounted
    <3> QED BY <3>4, <3>5, <3>6, <3>7 DEF StreamInv
  <2> QED BY <2>1, <2>2
<1>4. CASE ErrorTerminal
  <2> DEFINE env == Envelope(IF termSeq = 0 THEN seq + 1 ELSE termSeq, "error", <<>>)
  <2>1. /\ point = "epub" /\ point' = "end" /\ Publish(env) /\ termSeq' = termSeq
        /\ seq' = IF termSeq = 0 THEN seq + 1 ELSE seq
    BY <1>4 DEF ErrorTerminal
  <2>2. env.kind = "error" /\ env.seq = (IF termSeq = 0 THEN seq + 1 ELSE termSeq) /\ "error" \in Terminals
    BY DEF Envelope, Terminals
  <2> HIDE DEF env
  <2>3. /\ EndsOut' \subseteq EndsOut \cup {env} /\ (\A e, f \in EndsOut' : e.seq = f.seq)
        /\ out' = [stage |-> out'.stage, env |-> out'.env]
    BY <1>1, <2>1, <2>2, TerminalOut
  <2>4. StreamTypes'
    BY <1>0, <1>1, <2>1, <2>3 DEF StreamTypes, Range, Points
  <2>5. OneTerminal'
    BY <2>1, <2>3 DEF OneTerminal
  <2>6. TerminalEarned'
    BY <1>0, <1>1, <2>1, <2>2, <2>3 DEF TerminalEarned, Durable, Concluding
  <2>7. UsageAccounted'
    BY <1>0, <1>1, <2>1 DEF UsageAccounted, Making, Settled
  <2> QED BY <2>4, <2>5, <2>6, <2>7 DEF StreamInv
<1> QED BY <1>2, <1>3, <1>4

LEMMA StreamInitial == StreamInit => StreamInv
<1> SUFFICES ASSUME StreamInit PROVE StreamInv
  OBVIOUS
<1>1. /\ out = [stage |-> out.stage, env |-> out.env] /\ out.env.kind = "start"
  BY DEF StreamInit, Idle, Envelope
<1>2. stored = <<>> /\ Range(stored) = {} /\ stored \in Seq(Range(stored))
  BY DEF StreamInit, Range
<1>3. EndsOut = {}
  BY <1>1, <1>2 DEF EndsOut, Terminals
<1>4. StreamTypes
  BY <1>1, <1>2 DEF StreamInit, StreamTypes, Points
<1>5. UsageAccounted
  BY DEF StreamInit, UsageAccounted, Making, Settled
<1>6. OneTerminal /\ TerminalEarned
  BY <1>3 DEF StreamInit, OneTerminal, TerminalEarned, Durable
<1> QED BY <1>4, <1>5, <1>6 DEF StreamInv

LEMMA StreamStep == StreamInv /\ [StreamNext]_streamVars => StreamInv'
<1> SUFFICES ASSUME StreamInv, [StreamNext]_streamVars PROVE StreamInv'
  OBVIOUS
<1>1. CASE UNCHANGED streamVars
  <2>1. UNCHANGED <<point, after, seq, termSeq, committed, reply, spent, recorded, armed, doubt, stored, out>>
    BY <1>1 DEF streamVars, producer
  <2> QED BY <2>1 DEF StreamInv, StreamTypes, UsageAccounted, OneTerminal, TerminalEarned, EndsOut, Range
<1>2. CASE StreamNext
  <2>1. \/ Begin \/ Start \/ Chunk \/ FlushText \/ Retract \/ ToolTurn \/ Tools
        \/ Retry \/ EndTurn \/ Continue \/ Final \/ Rewrite \/ Persist
        \/ AskUser \/ DoneSettled \/ Suggest \/ ErrorRetract
        \/ Push \/ Send \/ RequestStop \/ (\E c \in Clients : Join(c) \/ Replay(c) \/ Leave(c))
        \/ Stop \/ Abort \/ TerminalTimeout \/ SettlementFails \/ ProducerDies
        \/ Salvage \/ Commit \/ CommitFails \/ SavePartial
        \/ DoneTerminal \/ CancelledTerminal \/ ErrorTerminal
    BY <1>2 DEF StreamNext, ProducerStep
  <2> QED BY <2>1, MakingSteps, ConcludingSteps, BackplaneSteps, InterruptingSteps, SalvageStep,
             CommitSteps, SavePartialStep, TerminalSteps
<1> QED BY <1>1, <1>2

\* However an answer is stopped, fails, times out or loses its commit, the tokens it
\* was billed are recorded once when it ends, by the commit or by the salvage
\* (chat_runtime's run and _salvage_usage_after_failure); and the terminals in the
\* replay list have one seq, none says done of an answer that was not committed or
\* cancelled of one that was.
LEMMA AccountsOfAnswer == ASSUME StreamInv PROVE UsageRecordedOnce /\ TerminalsAgree
<1>1. UsageRecordedOnce
  BY DEF StreamInv, UsageAccounted, UsageRecordedOnce
<1>2. {e \in Range(stored) : e.kind \in Terminals} \subseteq EndsOut
  BY DEF EndsOut
<1>3. \A e, f \in EndsOut : e.seq = f.seq
  BY DEF StreamInv, OneTerminal
<1>4. \A e \in EndsOut : /\ e.kind = "done" => reply.finish = "stop" /\ committed
                         /\ e.kind = "cancelled" => reply.finish = "cancelled" /\ ~committed
  BY DEF StreamInv, TerminalEarned
<1>5. TerminalsAgree
  BY <1>2, <1>3, <1>4 DEF TerminalsAgree
<1> QED BY <1>1, <1>5
-----------------------------------------------------------------------------
(* The wire of an answer: what is stored, what is on its way and what each     *)
(* client shows.                                                                *)

Envelopes == [seq : Nat, kind : Kinds, text : Texts, pending : BOOLEAN]
Followed == {"live", "grace", "closed"}
Subs == [pc : {"off", "joined"} \cup Followed, inbox : Seq(Envelopes), last : Nat, view : Texts,
         term : Terminals \cup {NoTerm}]

\* How much text and usage there is, by where the producer is.
Early == \/ point \in {"send", "start", "turn", "tools"}
         \/ point = "retract" /\ after \in {"tools", "turn"}
WithinBounds ==
    /\ chunks <= MaxChunks + (IF Early \/ point = "length" THEN 0 ELSE IF point = "final" THEN 1 ELSE 2)
    /\ spent <= turns + (IF Early THEN 0 ELSE IF point = "length" THEN 1 ELSE 2)

AnswerTypes ==
    /\ point \in Points /\ after \in {"none", "tools", "turn", "rewrite", "epub"}
    /\ buf \in Texts /\ text \in Texts /\ partial \in Texts /\ reply \in Messages
    /\ onWire \in BOOLEAN /\ committed \in BOOLEAN /\ sent \in BOOLEAN
    /\ stopped \in BOOLEAN /\ ask \in BOOLEAN /\ armed \in BOOLEAN
    /\ spent \in Nat /\ recorded \in Nat /\ tries \in 0..2
    /\ doubt \in BOOLEAN /\ torn \in BOOLEAN /\ cut \in BOOLEAN /\ flag \in BOOLEAN
    /\ chunks \in Nat /\ turns \in 0..MaxTurns /\ joins \in 0..MaxJoins /\ faults \in 0..MaxFaults
    /\ WithinBounds

WireTypes ==
    /\ seq \in Nat /\ termSeq \in 0..seq
    /\ out \in [stage : {"none", "push", "send"}, env : Envelopes]
    /\ stored \in Seq(Envelopes) /\ Len(stored) <= MaxReplay
    /\ sub \in [Clients -> Subs]

\* What one that joins now is shown, when the list is whole.
Now == Relayed([NoSub EXCEPT !.pc = "live"], stored)
Alike(s, t) == s.pc = t.pc /\ s.view = t.view /\ s.term = t.term
\* ... and when the publish under way is through.
Ahead == IF out.stage = "push" THEN Shown(Now, out.env) ELSE Now
Awaited(c) == IF NothingOut THEN sub[c] ELSE Received(sub[c], out.env)

\* The list is in the order of seq, but for a terminal that is published again.
SeqsGrow ==
    /\ \A e \in Range(stored) : e.seq \in 1..seq
    /\ ~NothingOut => out.env.seq \in 1..seq
    /\ \A i \in 1..Len(stored) : stored[i].seq <= stored[Len(stored)].seq
    /\ out.stage = "push" =>
         \A e \in Range(stored) : \/ e.seq < out.env.seq
                                  \/ e.seq = out.env.seq /\ e.kind \in Terminals /\ out.env.kind \in Terminals
    /\ out.stage = "send" => out.env \in Range(stored)

\* Once a terminal is numbered nothing else is, until the answer has ended.
TermIsLast ==
    /\ termSeq # 0 => \/ point \in {"done", "suggest", "cpub", "end"}
                      \/ committed /\ point \in ErrorFlow
    /\ point # "end" => termSeq \in {0, seq}
    /\ point # "end" /\ termSeq # 0 => \A e \in Range(stored) \cup {out.env} : e.seq < termSeq \/ e.kind \in Terminals
    /\ point = "cpub" /\ ~NothingOut => out.env.kind \in Terminals

\* A list that begins with another kind has lost its first envelopes.
StartFirst ==
    /\ \A i \in 2..Len(stored) : stored[i].kind # "start"
    /\ stored # <<>> /\ out.stage = "push" => out.env.kind # "start"
    /\ point \in {"send", "start"} => stored = <<>> /\ NothingOut /\ seq = 0

\* Who follows the answer knows of a terminal by the list, and a subscription that has
\* not replayed has buffered nothing the list lacks.
Told(s) ==
    /\ s.pc \in Followed /\ (s.pc = "live" <=> s.term = NoTerm)
    /\ s.term # NoTerm => \E e \in Range(stored) : e.kind = s.term
NewcomerTold ==
    ~Trimmed => /\ Told(Now) /\ Now.last = 0 /\ Now.inbox = <<>>
                /\ Now.pc = "live" => \A e \in Range(stored) : e.kind \notin Terminals
ClientsTold ==
    \A c \in Clients :
      /\ sub[c].pc = "joined" => sub[c] = [NoSub EXCEPT !.pc = "joined", !.inbox = sub[c].inbox]
      /\ sub[c].pc = "off" => sub[c] = NoSub
      /\ sub[c].pc = "joined" /\ ~Trimmed => \A i \in 1..Len(sub[c].inbox) : sub[c].inbox[i] \in Range(stored)
      /\ sub[c].pc \in Followed /\ ~Trimmed =>
            Told(sub[c]) /\ (sub[c].last = 0 \/ \E e \in Range(stored) : e.seq = sub[c].last)

\* A screen that fits shows what is out: all of it, or the beginning when the answer
\* was stopped or failed on the way.
Broken == CancelFlow \cup ErrorFlow \cup {"end"}
Fits(v) == IsPrefix(v, partial) /\ (v = partial \/ (buf = <<>> /\ ~committed /\ point \in Broken))
ScreenFits ==
    ~torn /\ ~Trimmed => /\ Fits(Ahead.view)
                         /\ \A c \in Clients : sub[c].pc \in Followed => Fits(Awaited(c).view)

\* Everyone who follows shows what a newcomer would, but for the envelope on its way.
InStep ==
    ~cut /\ ~Trimmed => \A c \in Clients : sub[c].pc \in Followed =>
        Alike(IF out.stage = "send" THEN Received(sub[c], out.env) ELSE sub[c], Now)

\* The answer is what is out and what the coalescer holds; a retraction empties both.
TextKept ==
    /\ point \in {"send", "start", "turn", "length", "final", "persist", "commit"} => text = partial \o buf
    /\ point \in {"tools", "rewrite"} => partial = <<>> /\ buf = <<>>
    /\ point = "retract" /\ after = "turn" => text = <<>>
    /\ point = "commit" => buf = <<>>
    /\ ~onWire => partial = <<>>

\* Text on its way is out of the coalescer, and after the commit there is none.
OutKept ==
    /\ ~NothingOut /\ out.env.kind = "delta" => buf = <<>>
    /\ ~NothingOut /\ committed => out.env.kind \notin {"delta", "retract"}

\* What is saved is what is out, and an error has taken back what is not.
ReplyKept ==
    /\ committed => reply.content = partial
    /\ reply.finish = "cancelled" => reply.content = partial /\ point \in {"cpub", "end"} /\ ~committed
    /\ point = "epub" => committed \/ partial = <<>>
    /\ (\E e \in Range(stored) \cup {out.env} : e.kind = "error") => point = "end" /\ (committed \/ partial = <<>>)

\* What a client makes of an envelope.
LEMMA ShownIs ==
    ASSUME NEW s \in Subs, NEW env \in Envelopes
    PROVE  /\ Shown(s, env) \in Subs
           /\ Shown(s, env).last = s.last /\ Shown(s, env).inbox = s.inbox
           /\ s.pc \notin {"live", "grace"} => Shown(s, env) = s
           /\ s.pc = "grace" => Shown(s, env).view = s.view /\ Shown(s, env).pc \in {"grace", "closed"}
           /\ s.pc = "grace" /\ s.term # NoTerm => Shown(s, env).term = s.term
           /\ s.pc = "grace" /\ env.kind \in Terminals => Shown(s, env).pc = "grace"
           /\ s.pc = "live" => Shown(s, env).view = IF env.kind = "delta" THEN s.view \o env.text
                                                    ELSE IF env.kind = "retract" THEN <<>> ELSE s.view
           /\ s.pc = "live" /\ env.kind \notin Terminals => Shown(s, env).pc = "live" /\ Shown(s, env).term = s.term
           /\ s.pc = "live" /\ s.term = NoTerm /\ env.kind \in Terminals =>
                 Shown(s, env).pc \in {"grace", "closed"} /\ Shown(s, env).term = env.kind
<1>0. /\ s.pc \in {"off", "joined", "live", "grace", "closed"} /\ s.view \in Texts /\ s.inbox \in Seq(Envelopes)
      /\ s.last \in Nat /\ s.term \in Terminals \cup {NoTerm}
      /\ s = [pc |-> s.pc, inbox |-> s.inbox, last |-> s.last, view |-> s.view, term |-> s.term]
      /\ env.kind \in Kinds /\ env.text \in Texts /\ env.pending \in BOOLEAN
  BY DEF Subs, Followed, Envelopes
<1>a. s.view \o env.text \in Texts /\ <<>> \in Texts
  BY <1>0 DEF Texts
<1>b. "delta" \notin Terminals /\ "retract" \notin Terminals /\ "suggestions" \notin Terminals
  BY DEF Terminals
<1>1. CASE s.pc \notin {"live", "grace"}
  <2>1. Shown(s, env) = s
    BY <1>1 DEF Shown
  <2> QED BY <1>0, <1>1, <2>1
<1>2. CASE s.pc \in {"live", "grace"} /\ env.kind \in Terminals
  <2>1. PICK p, k : /\ p = (IF env.pending \/ s.pc = "grace" THEN "grace" ELSE "closed")
                    /\ k = (IF s.term = NoTerm THEN env.kind ELSE s.term)
    OBVIOUS
  <2>2. Shown(s, env) = [s EXCEPT !.term = k, !.pc = p]
    BY <1>2, <2>1 DEF Shown
  <2>3. Shown(s, env) = [pc |-> p, inbox |-> s.inbox, last |-> s.last, view |-> s.view, term |-> k]
    BY ONLY <1>0, <2>2
  <2>4. p \in {"grace", "closed"} /\ k \in Terminals \cup {NoTerm} /\ (s.pc = "grace" => p = "grace")
    BY <1>0, <1>2, <2>1
  <2>5. Shown(s, env) \in Subs
    BY <1>0, <2>3, <2>4 DEF Subs, Followed
  <2> QED BY <1>2, <1>b, <2>1, <2>3, <2>4, <2>5
<1>3. CASE s.pc = "grace" /\ env.kind \notin Terminals
  <2>1. PICK p : p = (IF env.kind = "suggestions" THEN "closed" ELSE "grace")
    OBVIOUS
  <2>2. Shown(s, env) = [s EXCEPT !.pc = p]
    BY <1>3, <2>1 DEF Shown
  <2>3. Shown(s, env) = [pc |-> p, inbox |-> s.inbox, last |-> s.last, view |-> s.view, term |-> s.term]
    BY ONLY <1>0, <2>2
  <2>4. p \in {"grace", "closed"}
    BY <2>1
  <2>5. Shown(s, env) \in Subs
    BY <1>0, <2>3, <2>4 DEF Subs, Followed
  <2> QED BY <1>3, <2>3, <2>4, <2>5
<1>4. CASE s.pc = "live" /\ env.kind \notin Terminals
  <2>1. PICK v : v = IF env.kind = "delta" THEN s.view \o env.text
                     ELSE IF env.kind = "retract" THEN <<>> ELSE s.view
    OBVIOUS
  <2>2. Shown(s, env) = [s EXCEPT !.view = v]
    <3>1. s = [s EXCEPT !.view = s.view]
      BY ONLY <1>0
    <3> QED BY <1>4, <2>1, <3>1 DEF Shown
  <2>3. Shown(s, env) = [pc |-> s.pc, inbox |-> s.inbox, last |-> s.last, view |-> v, term |-> s.term]
    BY ONLY <1>0, <2>2
  <2>4. v \in Texts
    BY <1>0, <1>a, <2>1
  <2>5. Shown(s, env) \in Subs
    BY <1>0, <2>3, <2>4 DEF Subs, Followed
  <2> QED BY <1>4, <2>1, <2>3, <2>5
<1> QED BY <1>1, <1>2, <1>3, <1>4

LEMMA ReceivedIs ==
    ASSUME NEW s \in Subs, NEW env \in Envelopes
    PROVE  /\ Received(s, env) \in Subs /\ Received(s, env).last = s.last
           /\ env.seq <= s.last => Received(s, env) = s
           /\ env.seq > s.last => Received(s, env) = Shown(s, env)
<1>1. env.seq \in Nat /\ s.last \in Nat
  BY DEF Subs, Envelopes
<1> QED BY <1>1, ShownIs DEF Received

\* k says what s has become after each of the first n envelopes.
Following(k, s, envs, n) ==
    \A i \in 0..n : k[i] = IF i = 0 THEN s ELSE Received(k[i - 1], envs[i])

\* There is such a function, by induction on the envelopes.
LEMMA FollowingExists ==
    ASSUME NEW s \in Subs, NEW envs \in Seq(Envelopes)
    PROVE  \E k \in [0..Len(envs) -> Subs] : Following(k, s, envs, Len(envs))
<1> DEFINE T == {n \in Nat : n <= Len(envs) => \E k \in [0..n -> Subs] : Following(k, s, envs, n)}
<1>0. Len(envs) \in Nat
  OBVIOUS
<1>1. 0 \in T
  <2>1. PICK k : k = [i \in 0..0 |-> s]
    OBVIOUS
  <2>2. k \in [0..0 -> Subs] /\ Following(k, s, envs, 0)
    BY <2>1 DEF Following
  <2> QED BY <2>2
<1>2. ASSUME NEW n \in T PROVE n + 1 \in T
  <2>0. n \in Nat /\ n + 1 \in Nat
    OBVIOUS
  <2> SUFFICES ASSUME n + 1 <= Len(envs) PROVE \E k \in [0..n + 1 -> Subs] : Following(k, s, envs, n + 1)
    BY <2>0
  <2>1. PICK k \in [0..n -> Subs] : Following(k, s, envs, n)
    BY <1>0, <1>2, <2>0
  <2>2. PICK t : t = Received(k[n], envs[n + 1])
    OBVIOUS
  <2>3. PICK h : h = [i \in 0..n + 1 |-> IF i = n + 1 THEN t ELSE k[i]]
    OBVIOUS
  <2>4. t \in Subs
    <3>1. k[n] \in Subs /\ envs[n + 1] \in Envelopes
      BY <1>0, <2>0
    <3> QED BY <2>2, <3>1, ReceivedIs
  <2>5. h \in [0..n + 1 -> Subs]
    BY <2>0, <2>3, <2>4
  <2>6. h[n + 1] = t /\ \A i \in 0..n : h[i] = k[i]
    BY <2>0, <2>3
  <2>7. ASSUME NEW i \in 0..n + 1
        PROVE  h[i] = IF i = 0 THEN s ELSE Received(h[i - 1], envs[i])
    <3>1. CASE i = n + 1
      <4>1. i # 0 /\ i - 1 = n /\ n \in 0..n
        BY <2>0, <3>1
      <4> QED BY <2>2, <2>6, <3>1, <4>1
    <3>2. CASE i # n + 1
      <4>1. i \in 0..n /\ (i # 0 => i - 1 \in 0..n)
        BY <2>0, <3>2
      <4> QED BY <2>1, <2>6, <4>1 DEF Following
    <3> QED BY <3>1, <3>2
  <2> QED BY <2>5, <2>7 DEF Following
<1>3. T = Nat
  <2> HIDE DEF T
  <2>1. T \in SUBSET Nat
    BY DEF T
  <2> QED BY <1>1, <1>2, <2>1, AllNaturals
<1> QED BY <1>0, <1>3

\* Two of them agree.
LEMMA FollowingUnique ==
    ASSUME NEW s, NEW envs, NEW es, NEW n \in Nat, \A i \in 1..n : es[i] = envs[i],
           NEW k, Following(k, s, envs, n), NEW h, Following(h, s, es, n)
    PROVE  k[n] = h[n]
<1> DEFINE T == {m \in Nat : m <= n => k[m] = h[m]}
<1>1. 0 \in T
  BY DEF Following
<1>2. ASSUME NEW m \in T PROVE m + 1 \in T
  <2>1. CASE m + 1 <= n
    <3>1. m \in Nat /\ m <= n /\ k[m] = h[m] /\ m + 1 \in 0..n /\ m + 1 \in 1..n /\ m + 1 # 0 /\ (m + 1) - 1 = m
      BY <1>2, <2>1
    <3>2. k[m + 1] = Received(k[(m + 1) - 1], envs[m + 1]) /\ h[m + 1] = Received(h[(m + 1) - 1], es[m + 1])
      BY <3>1 DEF Following
    <3> QED BY <3>1, <3>2
  <2> QED BY <2>1
<1>3. T = Nat
  <2> HIDE DEF T
  <2>1. T \in SUBSET Nat
    BY DEF T
  <2> QED BY <1>1, <1>2, <2>1, AllNaturals
<1> QED BY <1>3

\* A subscription that is served a sequence is what that function says.
LEMMA RelayedFollows ==
    ASSUME NEW s \in Subs, NEW envs \in Seq(Envelopes)
    PROVE  \E k \in [0..Len(envs) -> Subs] : Following(k, s, envs, Len(envs)) /\ Relayed(s, envs) = k[Len(envs)]
<1> DEFINE Def(u) == u = [i \in 0..Len(envs) |->
                            IF i = 0 THEN {s} ELSE {Received(t, envs[i]) : t \in u[i - 1]}]
<1>0. Len(envs) \in Nat
  OBVIOUS
<1>1. PICK k \in [0..Len(envs) -> Subs] : Following(k, s, envs, Len(envs))
  BY FollowingExists
<1>2. PICK u : u = [i \in 0..Len(envs) |-> {k[i]}]
  OBVIOUS
<1>3. Def(u)
  <2>1. ASSUME NEW i \in 0..Len(envs)
        PROVE  {k[i]} = IF i = 0 THEN {s} ELSE {Received(t, envs[i]) : t \in u[i - 1]}
    <3>1. CASE i = 0
      BY <1>1, <3>1 DEF Following
    <3>2. CASE i # 0
      <4>1. i - 1 \in 0..Len(envs) /\ u[i - 1] = {k[i - 1]}
        BY <1>0, <1>2, <3>2
      <4>2. k[i] = Received(k[i - 1], envs[i])
        BY <1>1, <3>2 DEF Following
      <4> QED BY <3>2, <4>1, <4>2
    <3> QED BY <3>1, <3>2
  <2> QED BY <1>2, <2>1
<1>4. PICK c : c = (CHOOSE v : Def(v))
  OBVIOUS
<1>5. Def(c)
  <2> HIDE DEF Def
  <2> QED BY <1>3, <1>4
<1>6. \A i \in 0..Len(envs) : c[i] = {k[i]}
  <2> DEFINE T == {n \in Nat : n <= Len(envs) => c[n] = {k[n]}}
  <2>1. 0 \in T
    BY <1>0, <1>1, <1>5 DEF Following
  <2>2. ASSUME NEW n \in T PROVE n + 1 \in T
    <3>1. CASE n + 1 <= Len(envs)
      <4>1. n \in Nat /\ c[n] = {k[n]} /\ n + 1 \in 0..Len(envs) /\ n + 1 # 0 /\ (n + 1) - 1 = n
        BY <1>0, <2>2, <3>1
      <4>2. c[n + 1] = {Received(t, envs[n + 1]) : t \in c[n]}
        BY <1>5, <4>1
      <4>3. k[n + 1] = Received(k[n], envs[n + 1])
        BY <1>1, <4>1 DEF Following
      <4> QED BY <4>1, <4>2, <4>3
    <3> QED BY <3>1
  <2>3. T = Nat
    <3> HIDE DEF T
    <3>1. T \in SUBSET Nat
      BY DEF T
    <3> QED BY <2>1, <2>2, <3>1, AllNaturals
  <2> QED BY <2>3
<1>7. Relayed(s, envs) = CHOOSE t \in c[Len(envs)] : TRUE
  BY <1>4 DEF Relayed
<1>8. Relayed(s, envs) = k[Len(envs)]
  BY <1>0, <1>6, <1>7
<1> QED BY <1>1, <1>8

\* No envelope, one more envelope, and envelopes the replay already had.
LEMMA RelayedNone == ASSUME NEW s \in Subs PROVE Relayed(s, <<>>) = s
<1>1. <<>> \in Seq(Envelopes) /\ Len(<<>>) = 0
  OBVIOUS
<1>2. PICK k : Following(k, s, <<>>, 0) /\ Relayed(s, <<>>) = k[0]
  BY <1>1, RelayedFollows
<1> QED BY <1>2 DEF Following

LEMMA RelayedAppend ==
    ASSUME NEW s \in Subs, NEW envs \in Seq(Envelopes), NEW e \in Envelopes
    PROVE  /\ Relayed(s, envs) \in Subs
           /\ Relayed(s, Append(envs, e)) = Received(Relayed(s, envs), e)
<1>1. PICK k \in [0..Len(envs) -> Subs] : Following(k, s, envs, Len(envs)) /\ Relayed(s, envs) = k[Len(envs)]
  BY RelayedFollows
<1>2. PICK es, n : es = Append(envs, e) /\ n = Len(envs)
  OBVIOUS
<1>3. /\ es \in Seq(Envelopes) /\ Len(es) = n + 1 /\ n \in Nat /\ es[n + 1] = e
      /\ \A i \in 1..n : es[i] = envs[i]
  BY <1>2
<1>4. PICK h \in [0..Len(es) -> Subs] : Following(h, s, es, Len(es)) /\ Relayed(s, es) = h[Len(es)]
  BY <1>3, RelayedFollows
<1>5. Following(h, s, es, n) /\ h[n + 1] = Received(h[n], e)
  <2>1. n + 1 \in 0..n + 1 /\ n + 1 # 0 /\ (n + 1) - 1 = n /\ 0..n \subseteq 0..n + 1
    BY <1>3
  <2> QED BY <1>3, <1>4, <2>1 DEF Following
<1>6. k[n] = h[n]
  <2>1. Following(k, s, envs, n)
    BY ONLY <1>1, <1>2
  <2> QED BY ONLY <1>3, <1>5, <2>1, FollowingUnique
<1>7. k[n] \in Subs
  BY <1>1, <1>2, <1>3
<1> QED BY <1>1, <1>2, <1>3, <1>4, <1>5, <1>6, <1>7

LEMMA RelayedSkips ==
    ASSUME NEW s \in Subs, NEW envs \in Seq(Envelopes), \A i \in 1..Len(envs) : envs[i].seq <= s.last
    PROVE  Relayed(s, envs) = s
<1>1. PICK k \in [0..Len(envs) -> Subs] : Following(k, s, envs, Len(envs)) /\ Relayed(s, envs) = k[Len(envs)]
  BY RelayedFollows
<1>2. PICK h : h = [i \in 0..Len(envs) |-> s]
  OBVIOUS
<1>3. Following(h, s, envs, Len(envs))
  <2>1. ASSUME NEW i \in 0..Len(envs), i # 0 PROVE Received(s, envs[i]) = s
    <3>1. i \in 1..Len(envs) /\ envs[i] \in Envelopes
      BY <2>1
    <3> QED BY <3>1, ReceivedIs
  <2>2. \A i \in 0..Len(envs) : i # 0 => i - 1 \in 0..Len(envs)
    OBVIOUS
  <2> QED BY <1>2, <2>1, <2>2 DEF Following
<1>4. Len(envs) \in Nat /\ \A i \in 1..Len(envs) : envs[i] = envs[i]
  OBVIOUS
<1>5. k[Len(envs)] = h[Len(envs)]
  BY ONLY <1>1, <1>3, <1>4, FollowingUnique
<1> QED BY <1>1, <1>2, <1>4, <1>5

LEMMA RelayedStays ==
    ASSUME NEW s \in Subs, NEW envs \in Seq(Envelopes)
    PROVE  Relayed(s, envs) \in Subs /\ (s.pc \in Followed => Relayed(s, envs).pc \in Followed)
<1>0. Len(envs) \in Nat
  OBVIOUS
<1>1. PICK k \in [0..Len(envs) -> Subs] : Following(k, s, envs, Len(envs)) /\ Relayed(s, envs) = k[Len(envs)]
  BY RelayedFollows
<1> DEFINE T == {n \in Nat : n <= Len(envs) => (s.pc \in Followed => k[n].pc \in Followed)}
<1>2. 0 \in T
  BY <1>0, <1>1 DEF Following
<1>3. ASSUME NEW n \in T PROVE n + 1 \in T
  <2>1. CASE n + 1 <= Len(envs) /\ s.pc \in Followed
    <3>1. /\ n \in Nat /\ n + 1 \in 0..Len(envs) /\ n + 1 # 0 /\ (n + 1) - 1 = n /\ n \in 0..Len(envs)
          /\ n + 1 \in 1..Len(envs)
      BY <1>0, <1>3, <2>1
    <3>2. k[n] \in Subs /\ k[n].pc \in Followed /\ envs[n + 1] \in Envelopes
      BY <1>0, <1>3, <2>1, <3>1
    <3>3. k[n + 1] = Received(k[n], envs[n + 1])
      BY <1>1, <3>1 DEF Following
    <3>4. PICK p, e : p = k[n] /\ e = envs[n + 1]
      OBVIOUS
    <3>5. Shown(p, e).pc \in Followed
      <4>1. p \in Subs /\ e \in Envelopes /\ p.pc \in {"live", "grace", "closed"}
        BY <3>2, <3>4 DEF Followed
      <4>2. CASE p.pc = "closed"
        BY <4>1, <4>2, ShownIs DEF Followed
      <4>3. CASE p.pc = "grace"
        BY <4>1, <4>3, ShownIs DEF Followed
      <4>4. CASE p.pc = "live" /\ e.kind \notin Terminals
        BY <4>1, <4>4, ShownIs DEF Followed
      <4>5. CASE p.pc = "live" /\ e.kind \in Terminals
        <5>1. PICK q, m : Shown(p, e) = [p EXCEPT !.term = m, !.pc = q] /\ q \in {"grace", "closed"}
          BY <4>5 DEF Shown
        <5>2. Shown(p, e).pc = q
          BY <4>1, <5>1 DEF Subs
        <5> QED BY <5>1, <5>2 DEF Followed
      <4> QED BY <4>1, <4>2, <4>3, <4>4, <4>5
    <3>6. k[n + 1].pc \in Followed
      BY <3>2, <3>3, <3>4, <3>5 DEF Received
    <3> QED BY <3>1, <3>6
  <2>2. CASE ~(n + 1 <= Len(envs) /\ s.pc \in Followed)
    BY <2>2
  <2> QED BY <2>1, <2>2
<1>4. T = Nat
  <2> HIDE DEF T
  <2>1. T \in SUBSET Nat
    BY DEF T
  <2> QED BY <1>2, <1>3, <2>1, AllNaturals
<1>5. k[Len(envs)] \in Subs
  BY <1>0, <1>1
<1> QED BY <1>0, <1>1, <1>4, <1>5

WireInv == /\ WireTypes /\ SeqsGrow /\ TermIsLast /\ StartFirst
           /\ NewcomerTold /\ ClientsTold /\ ScreenFits /\ InStep

LEMMA IdleIs == Idle \in [stage : {"none", "push", "send"}, env : Envelopes]
                /\ Idle.stage = "none" /\ Idle.env.seq = 0 /\ Idle.env.kind = "start"
<1>1. <<>> \in Texts
  BY DEF Texts
<1> QED BY <1>1 DEF Idle, Envelope, Envelopes, Kinds

LEMMA NewcomerIs ==
    /\ NoSub \in Subs /\ [NoSub EXCEPT !.pc = "live"] \in Subs /\ [NoSub EXCEPT !.pc = "joined"] \in Subs
    /\ [NoSub EXCEPT !.pc = "live"] = [pc |-> "live", inbox |-> <<>>, last |-> 0, view |-> <<>>, term |-> NoTerm]
    /\ [NoSub EXCEPT !.pc = "joined"] = [pc |-> "joined", inbox |-> <<>>, last |-> 0, view |-> <<>>, term |-> NoTerm]
<1>1. <<>> \in Texts /\ <<>> \in Seq(Envelopes)
  BY DEF Texts
<1>2. /\ [NoSub EXCEPT !.pc = "live"] = [pc |-> "live", inbox |-> <<>>, last |-> 0, view |-> <<>>, term |-> NoTerm]
      /\ [NoSub EXCEPT !.pc = "joined"] = [pc |-> "joined", inbox |-> <<>>, last |-> 0, view |-> <<>>, term |-> NoTerm]
  BY DEF NoSub
<1>3. \A p \in {"off", "joined", "live"} :
        [pc |-> p, inbox |-> <<>>, last |-> 0, view |-> <<>>, term |-> NoTerm] \in Subs
  BY <1>1 DEF Subs, Followed
<1> QED BY <1>2, <1>3 DEF NoSub

\* The list is a sequence of envelopes, and what is shown of it a subscription.
LEMMA NowTyped ==
    ASSUME WireTypes PROVE Now \in Subs
BY NewcomerIs, RelayedStays DEF WireTypes, Now

\* The list has the envelope as its last; while it is whole nothing leaves it.
LEMMA PushList ==
    ASSUME WireTypes, StartFirst, Push
    PROVE  /\ stored' \in Seq(Envelopes) /\ Len(stored') <= MaxReplay /\ stored' # <<>>
           /\ stored'[Len(stored')] = out.env /\ Len(stored') \in 1..Len(stored')
           /\ Range(stored') \subseteq Range(stored) \cup {out.env} /\ out.env \in Range(stored')
           /\ \A i \in 2..Len(stored') : stored'[i].kind # "start"
           /\ ~Trimmed' => ~Trimmed /\ stored' = Append(stored, out.env) /\ Range(stored) \subseteq Range(stored')
<1>1. PICK l, e, n : l = Append(stored, out.env) /\ e = out.env /\ n = Len(stored)
  OBVIOUS
<1>2. /\ stored \in Seq(Envelopes) /\ e \in Envelopes /\ n \in Nat /\ n <= MaxReplay /\ MaxReplay \in Nat \ {0}
      /\ \A i \in 2..n : stored[i].kind # "start"
      /\ n # 0 => e.kind # "start"
  BY <1>1, StreamAssumption DEF WireTypes, StartFirst, Push
<1>3. /\ l \in Seq(Envelopes) /\ Len(l) = n + 1 /\ l[n + 1] = e /\ \A i \in 1..n : l[i] = stored[i]
      /\ l # <<>>
  BY <1>1, <1>2
<1>4. stored' = IF Len(l) > MaxReplay THEN Tail(l) ELSE l
  BY <1>1 DEF Push
<1>5. Trimmed <=> (n # 0 /\ stored[1].kind # "start")
  BY <1>1, <1>2 DEF Trimmed
<1>r. Range(stored) = {stored[i] : i \in 1..n}
  BY <1>1, <1>2 DEF Range
<1>6. CASE Len(l) > MaxReplay
  <2>1. n >= 1 /\ n = MaxReplay /\ stored' = Tail(l)
    BY <1>2, <1>3, <1>4, <1>6
  <2>2. PICK t : t = Tail(l)
    OBVIOUS
  <2>3. t \in Seq(Envelopes) /\ Len(t) = n /\ \A i \in 1..n : t[i] = l[i + 1]
    BY <1>2, <1>3, <2>2
  <2>4. t[n] = e /\ \A i \in 1..n - 1 : t[i] = stored[i + 1]
    BY <1>2, <1>3, <2>1, <2>3
  <2>5. \A i \in 1..n : t[i].kind # "start"
    <3> SUFFICES ASSUME NEW i \in 1..n PROVE t[i].kind # "start"
      OBVIOUS
    <3>1. CASE i = n
      BY <1>2, <2>1, <2>4, <3>1
    <3>2. CASE i # n
      <4>1. i \in 1..n - 1 /\ i + 1 \in 2..n
        BY <1>2, <3>2
      <4> QED BY <1>2, <2>4, <4>1
    <3> QED BY <3>1, <3>2
  <2>6. Range(t) = {t[i] : i \in 1..n}
    <3>1. DOMAIN t = 1..n
      BY <2>3
    <3> QED BY <3>1 DEF Range
  <2>7. \A i \in 1..n : t[i] \in Range(stored) \cup {e}
    <3> SUFFICES ASSUME NEW i \in 1..n PROVE t[i] \in Range(stored) \cup {e}
      OBVIOUS
    <3>1. i # n => i \in 1..n - 1 /\ i + 1 \in 1..n
      BY <1>2
    <3> QED BY <1>r, <2>4, <3>1
  <2>8. n \in 1..n /\ t # <<>> /\ t[1].kind # "start" /\ Head(t) = t[1]
    BY <1>2, <2>1, <2>3, <2>5
  <2>9. Trimmed'
    BY <2>1, <2>2, <2>8 DEF Trimmed
  <2>10. Range(t) \subseteq Range(stored) \cup {e} /\ e \in Range(t)
    BY <2>4, <2>6, <2>7, <2>8
  <2>11. \A i \in 2..n : t[i].kind # "start"
    <3>1. \A i \in 2..n : i \in 1..n
      BY <1>2
    <3> QED BY <2>5, <3>1
  <2> QED BY <1>1, <1>2, <2>1, <2>2, <2>3, <2>4, <2>8, <2>9, <2>10, <2>11
<1>7. CASE ~(Len(l) > MaxReplay)
  <2>1. stored' = l /\ n + 1 <= MaxReplay /\ n + 1 \in 1..n + 1
    BY <1>2, <1>3, <1>4, <1>7
  <2>2. Range(l) = Range(stored) \cup {e}
    <3>1. Range(l) = {l[i] : i \in 1..n + 1}
      BY <1>3 DEF Range
    <3>2. \A i \in 1..n + 1 : i = n + 1 \/ i \in 1..n
      BY <1>2
    <3>3. \A i \in 1..n : i \in 1..n + 1
      BY <1>2
    <3> QED BY <1>3, <1>r, <2>1, <3>1, <3>2, <3>3
  <2>3. \A i \in 2..n + 1 : l[i].kind # "start"
    <3> SUFFICES ASSUME NEW i \in 2..n + 1 PROVE l[i].kind # "start"
      OBVIOUS
    <3>1. CASE i = n + 1
      BY <1>2, <1>3, <3>1
    <3>2. CASE i # n + 1
      <4>1. i \in 2..n /\ i \in 1..n
        BY <1>2, <3>2
      <4> QED BY <1>2, <1>3, <4>1
    <3> QED BY <3>1, <3>2
  <2>4. Trimmed => Trimmed'
    <3>1. Head(l) = l[1] /\ (n # 0 => l[1] = stored[1])
      BY <1>2, <1>3
    <3> QED BY <1>3, <1>5, <2>1, <3>1 DEF Trimmed
  <2> QED BY <1>1, <1>3, <2>1, <2>2, <2>3, <2>4
<1> QED BY <1>6, <1>7

\* What the list's envelope makes of a newcomer.
LEMMA PushNow ==
    ASSUME WireTypes, StartFirst, SeqsGrow, NewcomerTold, Push, ~Trimmed'
    PROVE  Now' = Shown(Now, out.env) /\ Now \in Subs /\ out.env \in Envelopes
<1>1. stored \in Seq(Envelopes) /\ out.env \in Envelopes /\ Now \in Subs /\ out.env.seq \in 1..seq /\ seq \in Nat
  BY NowTyped DEF WireTypes, SeqsGrow, Push, NothingOut
<1>2. ~Trimmed /\ stored' = Append(stored, out.env)
  BY PushList
<1>3. Now.last = 0
  BY <1>2 DEF NewcomerTold
<1>4. Now' = Relayed([NoSub EXCEPT !.pc = "live"], Append(stored, out.env))
  BY <1>2 DEF Now
<1>5. Now' = Received(Now, out.env)
  BY <1>1, <1>4, NewcomerIs, RelayedAppend DEF Now
<1>6. out.env.seq > Now.last
  BY <1>1, <1>3
<1> QED BY <1>1, <1>5, <1>6, ReceivedIs

\* A subscription that was told of nothing but what is stored, served an envelope.
LEMMA ShownTold ==
    ASSUME NEW s \in Subs, NEW e \in Envelopes, s.pc \in Followed, (s.pc = "live" <=> s.term = NoTerm)
    PROVE  /\ Shown(s, e).pc \in Followed /\ (Shown(s, e).pc = "live" <=> Shown(s, e).term = NoTerm)
           /\ Shown(s, e).term = s.term \/ (e.kind \in Terminals /\ Shown(s, e).term = e.kind)
           /\ Shown(s, e).pc = "live" <=> (s.pc = "live" /\ e.kind \notin Terminals)
<1>0. NoTerm \notin Terminals
  BY StreamAssumption DEF Terminals
<1>1. CASE s.pc = "closed"
  BY <1>1, ShownIs
<1>2. CASE s.pc = "grace"
  BY <1>2, ShownIs DEF Followed
<1>3. CASE s.pc = "live" /\ e.kind \notin Terminals
  BY <1>3, ShownIs DEF Followed
<1>4. CASE s.pc = "live" /\ e.kind \in Terminals
  BY <1>0, <1>4, ShownIs DEF Followed
<1> QED BY <1>1, <1>2, <1>3, <1>4 DEF Followed

\* Subscriptions that show the same are shown the same.
LEMMA ShownAlike ==
    ASSUME NEW s \in Subs, NEW t \in Subs, NEW e \in Envelopes, Alike(s, t),
           s.pc \in Followed, (s.pc = "live" <=> s.term = NoTerm)
    PROVE  Alike(Shown(s, e), Shown(t, e))
<1>0. s.pc = t.pc /\ s.view = t.view /\ s.term = t.term
  BY DEF Alike
<1>1. Shown(s, e).view = Shown(t, e).view
  <2>1. CASE s.pc = "closed"
    <3>1. Shown(s, e) = s
      BY <2>1, ShownIs
    <3>t. t.pc = "closed"
      BY <1>0, <2>1
    <3>2. Shown(t, e) = t
      BY ONLY t \in Subs, e \in Envelopes, <3>t, ShownIs
    <3> QED BY <1>0, <3>1, <3>2
  <2>2. CASE s.pc = "grace"
    <3>1. Shown(s, e).view = s.view
      BY <2>2, ShownIs
    <3>t. t.pc = "grace"
      BY <1>0, <2>2
    <3>2. Shown(t, e).view = t.view
      BY ONLY t \in Subs, e \in Envelopes, <3>t, ShownIs
    <3> QED BY <1>0, <3>1, <3>2
  <2>3. CASE s.pc = "live"
    <3>1. Shown(s, e).view = IF e.kind = "delta" THEN s.view \o e.text ELSE IF e.kind = "retract" THEN <<>> ELSE s.view
      BY <2>3, ShownIs
    <3>t. t.pc = "live"
      BY <1>0, <2>3
    <3>2. Shown(t, e).view = IF e.kind = "delta" THEN t.view \o e.text ELSE IF e.kind = "retract" THEN <<>> ELSE t.view
      BY ONLY t \in Subs, e \in Envelopes, <3>t, ShownIs
    <3> QED BY <1>0, <3>1, <3>2
  <2> QED BY <2>1, <2>2, <2>3 DEF Followed
<1>2. Shown(s, e).pc = Shown(t, e).pc /\ Shown(s, e).term = Shown(t, e).term
  <2>0. /\ s = [pc |-> s.pc, inbox |-> s.inbox, last |-> s.last, view |-> s.view, term |-> s.term]
        /\ t = [pc |-> t.pc, inbox |-> t.inbox, last |-> t.last, view |-> t.view, term |-> t.term]
    BY DEF Subs
  <2>1. CASE s.pc = "closed"
    <3>1. Shown(s, e) = s
      BY <2>1, ShownIs
    <3>t. t.pc = "closed"
      BY <1>0, <2>1
    <3>2. Shown(t, e) = t
      BY ONLY t \in Subs, e \in Envelopes, <3>t, ShownIs
    <3> QED BY <1>0, <3>1, <3>2
  <2>2. CASE s.pc \in {"live", "grace"} /\ e.kind \in Terminals
    <3>1. PICK p, k : /\ Shown(s, e) = [s EXCEPT !.term = k, !.pc = p]
                      /\ Shown(t, e) = [t EXCEPT !.term = k, !.pc = p]
      BY <1>0, <2>2 DEF Shown
    <3> QED BY ONLY <2>0, <3>1
  <2>3. CASE s.pc = "grace" /\ e.kind \notin Terminals
    <3>1. PICK p : Shown(s, e) = [s EXCEPT !.pc = p] /\ Shown(t, e) = [t EXCEPT !.pc = p]
      BY <1>0, <2>3 DEF Shown
    <3>2. Shown(s, e).pc = p /\ Shown(t, e).pc = p /\ Shown(s, e).term = s.term /\ Shown(t, e).term = t.term
      BY ONLY <2>0, <3>1
    <3> QED BY <1>0, <3>2
  <2>4. CASE s.pc = "live" /\ e.kind \notin Terminals
    <3>1. Shown(s, e).pc = "live" /\ Shown(s, e).term = s.term
      BY <2>4, ShownIs
    <3>t. t.pc = "live" /\ e.kind \notin Terminals
      BY <1>0, <2>4
    <3>2. Shown(t, e).pc = "live" /\ Shown(t, e).term = t.term
      BY ONLY t \in Subs, e \in Envelopes, <3>t, ShownIs
    <3> QED BY <1>0, <3>1, <3>2
  <2> QED BY <2>1, <2>2, <2>3, <2>4 DEF Followed
<1> QED BY <1>1, <1>2 DEF Alike

\* A terminal changes nothing for whoever has been told of one.
LEMMA ShownAgain ==
    ASSUME NEW s \in Subs, NEW e \in Envelopes, s.pc \in Followed, s.pc # "live", s.term # NoTerm,
           e.kind \in Terminals
    PROVE  Alike(Shown(s, e), s)
<1>1. CASE s.pc = "closed"
  BY <1>1, ShownIs DEF Alike
<1>2. CASE s.pc = "grace"
  BY <1>2, ShownIs DEF Alike
<1> QED BY <1>1, <1>2 DEF Followed

\* The list takes the envelope on its way.
LEMMA PushKeeps == ASSUME WireInv, Push PROVE WireInv'
<1>0. WireTypes /\ SeqsGrow /\ TermIsLast /\ StartFirst /\ NewcomerTold /\ ClientsTold /\ ScreenFits /\ InStep
  BY DEF WireInv
<1>1. /\ UNCHANGED <<point, buf, partial, committed, torn, cut, seq, termSeq, sub>>
      /\ out.stage = "push" /\ out' = [out EXCEPT !.stage = "send"]
  BY DEF Push, producer
<1>2. /\ out \in [stage : {"none", "push", "send"}, env : Envelopes] /\ out'.stage = "send" /\ out'.env = out.env
      /\ out' \in [stage : {"none", "push", "send"}, env : Envelopes] /\ out.env \in Envelopes
      /\ seq \in Nat /\ termSeq \in 0..seq /\ sub \in [Clients -> Subs]
  BY <1>0, <1>1 DEF WireTypes
<1>3. /\ stored' \in Seq(Envelopes) /\ Len(stored') <= MaxReplay /\ stored' # <<>>
      /\ stored'[Len(stored')] = out.env
      /\ Range(stored') \subseteq Range(stored) \cup {out.env} /\ out.env \in Range(stored')
      /\ \A i \in 2..Len(stored') : stored'[i].kind # "start"
      /\ ~Trimmed' => ~Trimmed /\ stored' = Append(stored, out.env) /\ Range(stored) \subseteq Range(stored')
  BY <1>0, PushList
<1>4. WireTypes'
  BY <1>1, <1>2, <1>3 DEF WireTypes
<1>5. SeqsGrow'
  <2>1. \A e \in Range(stored') : e.seq \in 1..seq /\ e.seq <= out.env.seq
    <3> SUFFICES ASSUME NEW e \in Range(stored') PROVE e.seq \in 1..seq /\ e.seq <= out.env.seq
      OBVIOUS
    <3>1. out.env.seq \in 1..seq
      BY <1>0, <1>1 DEF SeqsGrow, NothingOut
    <3>2. CASE e = out.env
      BY <1>2, <3>1, <3>2
    <3>3. CASE e \in Range(stored)
      <4>1. e.seq \in 1..seq /\ (e.seq < out.env.seq \/ e.seq = out.env.seq)
        BY <1>0, <1>1, <3>3 DEF SeqsGrow
      <4> QED BY <1>2, <3>1, <4>1
    <3> QED BY <1>3, <3>2, <3>3
  <2>2. \A i \in 1..Len(stored') : stored'[i] \in Range(stored')
    BY <1>3 DEF Range
  <2>3. \A i \in 1..Len(stored') : stored'[i].seq <= stored'[Len(stored')].seq
    BY <1>3, <2>1, <2>2
  <2>4. out.env.seq \in 1..seq
    BY <1>0, <1>1 DEF SeqsGrow, NothingOut
  <2>5. ~(out'.stage = "push") /\ out'.env \in Range(stored') /\ out'.env.seq \in 1..seq
    BY <1>2, <1>3, <2>4
  <2> QED BY <1>1, <2>1, <2>3, <2>5 DEF SeqsGrow
<1>6. TermIsLast'
  <2>1. Range(stored') \cup {out'.env} \subseteq Range(stored) \cup {out.env}
    BY <1>2, <1>3
  <2>2. point = "cpub" => out'.env.kind \in Terminals
    BY <1>0, <1>1, <1>2 DEF TermIsLast, NothingOut
  <2> QED BY <1>0, <1>1, <2>1, <2>2 DEF TermIsLast
<1>7. StartFirst'
  BY <1>0, <1>1, <1>2, <1>3 DEF StartFirst, NothingOut
<1>8. NewcomerTold'
  <2> SUFFICES ASSUME ~Trimmed'
               PROVE  /\ Told(Now)' /\ (Now.last = 0 /\ Now.inbox = <<>>)'
                      /\ Now'.pc = "live" => \A e \in Range(stored') : e.kind \notin Terminals
    BY DEF NewcomerTold
  <2>1. Now' = Shown(Now, out.env) /\ Now \in Subs /\ out.env \in Envelopes
    BY <1>0, PushNow
  <2>2. /\ Now.pc \in Followed /\ (Now.pc = "live" <=> Now.term = NoTerm)
        /\ Now.term # NoTerm => \E e \in Range(stored) : e.kind = Now.term
        /\ Now.last = 0 /\ Now.inbox = <<>>
        /\ Now.pc = "live" => \A e \in Range(stored) : e.kind \notin Terminals
    BY <1>0, <1>3 DEF NewcomerTold, Told
  <2>3. PICK n, m, x : n = Now /\ m = Now' /\ x = out.env
    OBVIOUS
  <2>4. /\ m.pc \in Followed /\ (m.pc = "live" <=> m.term = NoTerm)
        /\ m.term = n.term \/ (x.kind \in Terminals /\ m.term = x.kind)
        /\ m.pc = "live" <=> (n.pc = "live" /\ x.kind \notin Terminals)
    BY ONLY <2>1, <2>2, <2>3, ShownTold
  <2>5. m.last = n.last /\ m.inbox = n.inbox
    BY ONLY <2>1, <2>3, ShownIs
  <2>6. m.term # NoTerm => \E e \in Range(stored') : e.kind = m.term
    BY <1>3, <2>2, <2>3, <2>4
  <2>7. m.pc = "live" => \A e \in Range(stored') : e.kind \notin Terminals
    BY <1>3, <2>2, <2>3, <2>4
  <2> QED BY <2>2, <2>3, <2>4, <2>5, <2>6, <2>7 DEF Told
<1>9. ClientsTold'
  <2> SUFFICES ASSUME NEW c \in Clients
               PROVE  /\ sub[c].pc = "joined" => sub[c] = [NoSub EXCEPT !.pc = "joined", !.inbox = sub[c].inbox]
                      /\ sub[c].pc = "off" => sub[c] = NoSub
                      /\ sub[c].pc = "joined" /\ ~Trimmed' => \A i \in 1..Len(sub[c].inbox) : sub[c].inbox[i] \in Range(stored')
                      /\ sub[c].pc \in Followed /\ ~Trimmed' =>
                            /\ sub[c].pc \in Followed /\ (sub[c].pc = "live" <=> sub[c].term = NoTerm)
                            /\ sub[c].term # NoTerm => \E e \in Range(stored') : e.kind = sub[c].term
                            /\ sub[c].last = 0 \/ \E e \in Range(stored') : e.seq = sub[c].last
    BY <1>1 DEF ClientsTold, Told
  <2>1. /\ sub[c].pc = "joined" => sub[c] = [NoSub EXCEPT !.pc = "joined", !.inbox = sub[c].inbox]
        /\ sub[c].pc = "off" => sub[c] = NoSub
        /\ sub[c].pc = "joined" /\ ~Trimmed => \A i \in 1..Len(sub[c].inbox) : sub[c].inbox[i] \in Range(stored)
        /\ sub[c].pc \in Followed /\ ~Trimmed =>
              /\ sub[c].pc \in Followed /\ (sub[c].pc = "live" <=> sub[c].term = NoTerm)
              /\ sub[c].term # NoTerm => \E e \in Range(stored) : e.kind = sub[c].term
              /\ sub[c].last = 0 \/ \E e \in Range(stored) : e.seq = sub[c].last
    BY <1>0 DEF ClientsTold, Told
  <2> QED BY <1>3, <2>1
<1>10. ScreenFits'
  <2> SUFFICES ASSUME ~torn, ~Trimmed'
               PROVE  /\ Fits(Ahead.view)'
                      /\ \A c \in Clients : sub[c].pc \in Followed => Fits(Awaited(c).view)'
    BY <1>1 DEF ScreenFits
  <2>1. Ahead' = Ahead
    BY <1>0, <1>1, <1>2, PushNow DEF Ahead
  <2>2. \A c \in Clients : Awaited(c)' = Awaited(c)
    BY <1>1, <1>2 DEF Awaited, NothingOut
  <2>3. Fits(Ahead.view) /\ \A c \in Clients : sub[c].pc \in Followed => Fits(Awaited(c).view)
    BY <1>0, <1>3 DEF ScreenFits
  <2> QED BY <1>1, <2>1, <2>2, <2>3 DEF Fits
<1>11. InStep'
  <2> SUFFICES ASSUME ~cut, ~Trimmed', NEW c \in Clients, sub[c].pc \in Followed
               PROVE  Alike(Received(sub[c], out.env), Now')
    BY <1>1, <1>2 DEF InStep, Alike
  <2>1. PICK s, n, m, x : s = sub[c] /\ n = Now /\ m = Now' /\ x = out.env
    OBVIOUS
  <2>2. m = Shown(n, x) /\ n \in Subs /\ x \in Envelopes /\ s \in Subs
    BY <1>0, <1>2, <2>1, PushNow
  <2>3. Alike(s, n)
    BY <1>0, <1>1, <1>3, <2>1 DEF InStep
  <2>4. s.pc \in Followed /\ (s.pc = "live" <=> s.term = NoTerm)
    BY <1>0, <1>3, <2>1 DEF ClientsTold, Told
  <2>5. CASE x.seq > s.last
    <3>1. Received(s, x) = Shown(s, x)
      BY ONLY <2>2, <2>5, ReceivedIs
    <3>2. Alike(Shown(s, x), Shown(n, x))
      BY ONLY <2>2, <2>3, <2>4, ShownAlike
    <3> QED BY <2>1, <2>2, <3>1, <3>2
  <2>6. CASE ~(x.seq > s.last)
    <3>1. x.seq \in 1..seq /\ s.last \in Nat
      BY <1>0, <1>1, <2>1, <2>2 DEF SeqsGrow, NothingOut, Subs
    <3>2. x.seq <= s.last /\ s.last # 0
      BY <1>2, <2>6, <3>1
    <3>3. Received(s, x) = s
      BY ONLY <2>2, <3>2, ReceivedIs
    <3>4. PICK e \in Range(stored) : e.seq = s.last
      BY <1>0, <1>3, <2>1, <2>4, <3>2 DEF ClientsTold
    <3>5. e.kind \in Terminals /\ x.kind \in Terminals
      <4>1. e.seq < x.seq \/ (e.kind \in Terminals /\ x.kind \in Terminals)
        BY <1>0, <1>1, <2>1, <3>4 DEF SeqsGrow
      <4> QED BY <1>2, <3>1, <3>2, <3>4, <4>1
    <3>6. n.pc # "live" /\ n.pc \in Followed /\ n.term # NoTerm
      BY <1>0, <1>3, <2>1, <3>4, <3>5 DEF NewcomerTold, Told
    <3>7. Alike(Shown(n, x), n)
      BY ONLY <2>2, <3>5, <3>6, ShownAgain
    <3>8. Alike(s, m)
      BY <2>2, <2>3, <3>7 DEF Alike
    <3> QED BY <2>1, <3>3, <3>8
  <2> QED BY <2>5, <2>6
<1> QED BY <1>4, <1>5, <1>6, <1>7, <1>8, <1>9, <1>10, <1>11 DEF WireInv

\* What is told of one subscription.
ClientTold(c) ==
    /\ sub[c].pc = "joined" => sub[c] = [NoSub EXCEPT !.pc = "joined", !.inbox = sub[c].inbox]
    /\ sub[c].pc = "off" => sub[c] = NoSub
    /\ sub[c].pc = "joined" /\ ~Trimmed => \A i \in 1..Len(sub[c].inbox) : sub[c].inbox[i] \in Range(stored)
    /\ sub[c].pc \in Followed /\ ~Trimmed =>
          Told(sub[c]) /\ (sub[c].last = 0 \/ \E e \in Range(stored) : e.seq = sub[c].last)

LEMMA TrimmedSame == ASSUME stored' = stored
                     PROVE  (Trimmed' <=> Trimmed) /\ Range(stored') = Range(stored) /\ Now' = Now
BY DEF Trimmed, Range, Now

\* The channel delivers: a subscription that has not replayed keeps the envelope,
\* a live one shows it.
LEMMA SendKeeps == ASSUME WireInv, Send PROVE WireInv'
<1>0. WireTypes /\ SeqsGrow /\ TermIsLast /\ StartFirst /\ NewcomerTold /\ ClientsTold /\ ScreenFits /\ InStep
  BY DEF WireInv
<1>1. /\ UNCHANGED <<point, buf, partial, committed, torn, cut, seq, termSeq, stored>>
      /\ out.stage = "send" /\ out' = Idle
  BY DEF Send, producer
<1>2. /\ out.env \in Envelopes /\ out.env \in Range(stored) /\ seq \in Nat /\ sub \in [Clients -> Subs]
      /\ out'.stage = "none" /\ out'.env.seq = 0 /\ out'.env.kind = "start"
  BY <1>0, <1>1, IdleIs DEF WireTypes, SeqsGrow
<1>3. (Trimmed' <=> Trimmed) /\ Range(stored') = Range(stored) /\ Now' = Now
  BY <1>1, TrimmedSame
<1>c. ASSUME NEW c \in Clients
      PROVE  /\ sub[c] \in Subs /\ sub'[c] \in Subs
             /\ sub[c].pc = "joined" => /\ sub'[c].pc = "joined" /\ sub'[c].inbox = Append(sub[c].inbox, out.env)
                                        /\ sub'[c] = [sub[c] EXCEPT !.inbox = sub'[c].inbox]
             /\ sub[c].pc # "joined" => sub'[c] = Received(sub[c], out.env)
             /\ sub[c].pc \notin Followed => sub'[c].pc \notin Followed
             /\ sub[c].pc = "off" => sub'[c] = sub[c]
             /\ sub[c].pc \in Followed => sub'[c].pc \in Followed
  <2>1. PICK s, x : s = sub[c] /\ x = out.env
    OBVIOUS
  <2>2. s \in Subs /\ x \in Envelopes /\ s.inbox \in Seq(Envelopes)
    BY <1>2, <2>1 DEF Subs
  <2>3. CASE s.pc = "joined"
    <3>1. sub'[c] = [s EXCEPT !.inbox = Append(s.inbox, x)]
      BY <2>1, <2>3 DEF Send
    <3>2. Append(s.inbox, x) \in Seq(Envelopes)
      BY <2>2
    <3>3. PICK b : b = Append(s.inbox, x)
      OBVIOUS
    <3>4. [s EXCEPT !.inbox = b] \in Subs /\ [s EXCEPT !.inbox = b].inbox = b /\ [s EXCEPT !.inbox = b].pc = s.pc
      BY <2>2, <3>2, <3>3 DEF Subs
    <3> QED BY <2>1, <2>2, <2>3, <3>1, <3>3, <3>4 DEF Followed
  <2>4. CASE s.pc # "joined"
    <3>1. sub'[c] = Received(s, x)
      BY <2>1, <2>4 DEF Send
    <3>2. Received(s, x) \in Subs /\ (Received(s, x) = s \/ Received(s, x) = Shown(s, x))
      BY <2>2, ReceivedIs DEF Received
    <3>3. s.pc = "off" => Shown(s, x) = s
      BY <2>2, ShownIs
    <3>4. s.pc \in Followed => Shown(s, x).pc \in Followed
      <4>1. s.pc = "closed" => Shown(s, x).pc \in Followed
        BY <2>2, ShownIs DEF Followed
      <4>2. s.pc = "grace" => Shown(s, x).pc \in Followed
        BY <2>2, ShownIs DEF Followed
      <4>3. s.pc = "live" /\ x.kind \notin Terminals => Shown(s, x).pc \in Followed
        BY <2>2, ShownIs DEF Followed
      <4>4. CASE s.pc = "live" /\ x.kind \in Terminals
        <5>1. PICK p, k : Shown(s, x) = [s EXCEPT !.term = k, !.pc = p] /\ p \in {"grace", "closed"}
          BY <4>4 DEF Shown
        <5>2. Shown(s, x).pc = p
          BY <2>2, <5>1 DEF Subs
        <5> QED BY <5>1, <5>2 DEF Followed
      <4> QED BY <4>1, <4>2, <4>3, <4>4 DEF Followed
    <3>5. s.pc \in {"off"} \cup Followed
      BY <2>2, <2>4 DEF Subs
    <3> QED BY <2>1, <2>2, <2>4, <3>1, <3>2, <3>3, <3>4, <3>5 DEF Followed
  <2> QED BY <2>3, <2>4
<1>4. WireTypes'
  <2>1. sub' \in [Clients -> Subs]
    <3>1. sub' = [c \in Clients |-> sub'[c]]
      BY DEF Send
    <3> QED BY <1>c, <3>1
  <2> QED BY <1>0, <1>1, <2>1, IdleIs DEF WireTypes
<1>5. SeqsGrow'
  BY <1>0, <1>1, <1>2, <1>3 DEF SeqsGrow, NothingOut
<1>6. TermIsLast'
  <2>1. termSeq # 0 => 0 < termSeq
    BY <1>0 DEF WireTypes
  <2> QED BY <1>0, <1>1, <1>2, <1>3, <2>1 DEF TermIsLast, NothingOut
<1>7. StartFirst'
  BY <1>0, <1>1, <1>2 DEF StartFirst, NothingOut
<1>8. NewcomerTold'
  BY <1>0, <1>3 DEF NewcomerTold, Told
<1>9. ClientsTold'
  <2> SUFFICES ASSUME NEW c \in Clients PROVE ClientTold(c)'
    BY DEF ClientsTold, ClientTold
  <2>0. ClientTold(c)
    BY <1>0 DEF ClientsTold, ClientTold
  <2>1. CASE sub[c].pc = "joined"
    <3>1. PICK b, d : b = sub[c].inbox /\ d = sub'[c].inbox
      OBVIOUS
    <3>2. /\ sub'[c].pc = "joined" /\ d = Append(b, out.env) /\ sub'[c] = [sub[c] EXCEPT !.inbox = d]
          /\ b \in Seq(Envelopes)
      BY <1>c, <2>1, <3>1 DEF Subs
    <3>3. sub[c] = [NoSub EXCEPT !.pc = "joined", !.inbox = b]
      BY <2>0, <2>1, <3>1 DEF ClientTold
    <3>4. sub'[c] = [NoSub EXCEPT !.pc = "joined", !.inbox = d]
      BY <3>2, <3>3 DEF NoSub
    <3>5. ASSUME ~Trimmed, NEW i \in 1..Len(d) PROVE d[i] \in Range(stored)
      <4>1. \A k \in 1..Len(b) : b[k] \in Range(stored)
        BY <2>0, <2>1, <3>1, <3>5 DEF ClientTold
      <4>2. i \in 1..Len(b) \/ i = Len(b) + 1
        BY <3>2
      <4>3. d[i] = IF i = Len(b) + 1 THEN out.env ELSE b[i]
        BY <3>2
      <4> QED BY <1>2, <3>2, <4>1, <4>2, <4>3
    <3> QED BY <1>3, <3>1, <3>2, <3>4, <3>5 DEF ClientTold, Followed
  <2>2. CASE sub[c].pc = "off"
    <3>1. sub'[c] = sub[c]
      BY <1>c, <2>2
    <3> QED BY <2>0, <2>2, <3>1 DEF ClientTold, Followed
  <2>3. CASE sub[c].pc \in Followed
    <3>1. PICK s, t, x : s = sub[c] /\ t = sub'[c] /\ x = out.env
      OBVIOUS
    <3>2. s \in Subs /\ x \in Envelopes /\ t = Received(s, x) /\ t.pc \in Followed /\ s.pc \in Followed
      BY <1>c, <1>2, <2>3, <3>1 DEF Followed
    <3>3. t.last = s.last /\ (t = s \/ t = Shown(s, x))
      BY ONLY <3>2, ReceivedIs DEF Received
    <3>4. ASSUME ~Trimmed PROVE /\ (t.pc = "live" <=> t.term = NoTerm)
                                /\ t.term # NoTerm => \E e \in Range(stored) : e.kind = t.term
                                /\ s.last = 0 \/ \E e \in Range(stored) : e.seq = s.last
      <4>1. /\ (s.pc = "live" <=> s.term = NoTerm) /\ (s.term # NoTerm => \E e \in Range(stored) : e.kind = s.term)
            /\ s.last = 0 \/ \E e \in Range(stored) : e.seq = s.last
        BY <2>0, <2>3, <3>1, <3>4 DEF ClientTold, Told
      <4>2. CASE t = s
        BY <4>1, <4>2
      <4>3. CASE t = Shown(s, x)
        <5>1. /\ (t.pc = "live" <=> t.term = NoTerm)
              /\ t.term = s.term \/ (x.kind \in Terminals /\ t.term = x.kind)
          BY ONLY <3>2, <4>1, <4>3, ShownTold
        <5> QED BY <1>2, <3>1, <4>1, <5>1
      <4> QED BY <3>3, <4>2, <4>3
    <3>5. t.pc # "joined" /\ t.pc # "off"
      BY <3>2 DEF Followed
    <3> QED BY <1>3, <3>1, <3>2, <3>3, <3>4, <3>5 DEF ClientTold, Told
  <2> QED BY <1>c, <2>1, <2>2, <2>3 DEF Subs
<1>10. ScreenFits'
  <2> SUFFICES ASSUME ~torn, ~Trimmed
               PROVE  /\ Fits(Ahead.view)'
                      /\ \A c \in Clients : sub'[c].pc \in Followed => Fits(Awaited(c).view)'
    BY <1>1, <1>3 DEF ScreenFits
  <2>1. Ahead' = Ahead
    BY <1>1, <1>2, <1>3 DEF Ahead
  <2>2. \A c \in Clients : sub'[c].pc \in Followed => sub[c].pc \in Followed /\ Awaited(c)' = Awaited(c)
    BY <1>1, <1>2, <1>c DEF Awaited, NothingOut, Followed
  <2>3. Fits(Ahead.view) /\ \A c \in Clients : sub[c].pc \in Followed => Fits(Awaited(c).view)
    BY <1>0 DEF ScreenFits
  <2> QED BY <1>1, <2>1, <2>2, <2>3 DEF Fits
<1>11. InStep'
  <2> SUFFICES ASSUME ~cut, ~Trimmed, NEW c \in Clients, sub'[c].pc \in Followed
               PROVE  Alike(sub'[c], Now)
    BY <1>1, <1>2, <1>3 DEF InStep, Alike
  <2>1. sub[c].pc \in Followed /\ sub'[c] = Received(sub[c], out.env)
    BY <1>c DEF Followed
  <2> QED BY <1>0, <1>1, <2>1 DEF InStep
<1> QED BY <1>4, <1>5, <1>6, <1>7, <1>8, <1>9, <1>10, <1>11 DEF WireInv

\* A subscription begins or ends.
LEMMA JoinKeeps ==
    ASSUME WireInv, NEW c \in Clients, Join(c) \/ Leave(c)
    PROVE  WireInv'
<1>0. WireTypes /\ SeqsGrow /\ TermIsLast /\ StartFirst /\ NewcomerTold /\ ClientsTold /\ ScreenFits /\ InStep
  BY DEF WireInv
<1>1. UNCHANGED <<point, buf, partial, committed, torn, cut, seq, termSeq, stored, out>>
  BY DEF Join, Leave, producer
<1>2. PICK s : s \in {NoSub, [NoSub EXCEPT !.pc = "joined"]} /\ sub' = [sub EXCEPT ![c] = s]
  BY DEF Join, Leave
<1>3. (Trimmed' <=> Trimmed) /\ Range(stored') = Range(stored) /\ Now' = Now
  BY <1>1, TrimmedSame
<1>4. s \in Subs /\ s.pc \notin Followed /\ s.inbox = <<>> /\ sub \in [Clients -> Subs]
  BY <1>0, <1>2, NewcomerIs DEF Followed, WireTypes, NoSub
<1>5. sub'[c] = s /\ \A d \in Clients : d # c => sub'[d] = sub[d]
  BY <1>2, <1>4
<1>6. WireTypes'
  BY <1>0, <1>1, <1>2, <1>4 DEF WireTypes
<1>7. SeqsGrow' /\ TermIsLast' /\ StartFirst'
  BY <1>0, <1>1, <1>3 DEF SeqsGrow, TermIsLast, StartFirst, NothingOut
<1>8. NewcomerTold'
  BY <1>0, <1>3 DEF NewcomerTold, Told
<1>9. ClientsTold'
  <2> SUFFICES ASSUME NEW d \in Clients PROVE ClientTold(d)'
    BY DEF ClientsTold, ClientTold
  <2>1. CASE d # c
    <3>1. ClientTold(d)
      BY <1>0 DEF ClientsTold, ClientTold
    <3> QED BY <1>3, <1>5, <2>1, <3>1 DEF ClientTold, Told
  <2>2. CASE d = c
    <3>1. (s.pc = "joined" => s = [NoSub EXCEPT !.pc = "joined", !.inbox = s.inbox]) /\ (s.pc = "off" => s = NoSub)
      BY <1>2 DEF NoSub
    <3>2. 1..Len(s.inbox) = {}
      BY <1>4
    <3> QED BY <1>4, <1>5, <2>2, <3>1, <3>2 DEF ClientTold
  <2> QED BY <2>1, <2>2
<1>10. ScreenFits'
  <2> SUFFICES ASSUME ~torn, ~Trimmed
               PROVE  /\ Fits(Ahead.view)'
                      /\ \A d \in Clients : sub'[d].pc \in Followed => Fits(Awaited(d).view)'
    BY <1>1, <1>3 DEF ScreenFits
  <2>1. Ahead' = Ahead
    BY <1>1, <1>3 DEF Ahead
  <2>2. \A d \in Clients : sub'[d].pc \in Followed => sub[d].pc \in Followed /\ Awaited(d)' = Awaited(d)
    BY <1>1, <1>4, <1>5 DEF Awaited, NothingOut
  <2>3. Fits(Ahead.view) /\ \A d \in Clients : sub[d].pc \in Followed => Fits(Awaited(d).view)
    BY <1>0 DEF ScreenFits
  <2> QED BY <1>1, <2>1, <2>2, <2>3 DEF Fits
<1>11. InStep'
  <2> SUFFICES ASSUME ~cut, ~Trimmed, NEW d \in Clients, sub'[d].pc \in Followed
               PROVE  Alike(IF out.stage = "send" THEN Received(sub'[d], out.env) ELSE sub'[d], Now)
    BY <1>1, <1>3 DEF InStep, Alike
  <2>1. sub'[d] = sub[d]
    BY <1>4, <1>5
  <2> QED BY <1>0, <2>1 DEF InStep
<1> QED BY <1>6, <1>7, <1>8, <1>9, <1>10, <1>11 DEF WireInv

\* A replay shows what one that joins now is shown, and skips what it buffered of it.
LEMMA ReplayIs ==
    ASSUME WireTypes, ClientsTold, NEW c \in Clients, Replay(c)
    PROVE  \E L \in Nat, r \in Subs :
             /\ L = IF stored = <<>> THEN 0 ELSE stored[Len(stored)].seq
             /\ r = [Now EXCEPT !.last = L] /\ r.last = L /\ Alike(r, Now) /\ r.pc \in Followed
             /\ sub' = [sub EXCEPT ![c] = Relayed(r, sub[c].inbox)] /\ sub[c].inbox \in Seq(Envelopes)
<1>1. PICK b : b = sub[c].inbox
  OBVIOUS
<1>2. sub[c] = [NoSub EXCEPT !.pc = "joined", !.inbox = b] /\ sub[c] \in Subs /\ b \in Seq(Envelopes)
  BY <1>1 DEF Replay, ClientsTold, WireTypes, Subs
<1>3. [sub[c] EXCEPT !.pc = "live", !.inbox = <<>>] = [NoSub EXCEPT !.pc = "live"]
  <2>1. sub[c] = [pc |-> "joined", inbox |-> b, last |-> 0, view |-> <<>>, term |-> NoTerm]
    BY <1>2 DEF NoSub
  <2>2. PICK u, o : u = sub[c] /\ o = <<>>
    OBVIOUS
  <2>a. u = [pc |-> "joined", inbox |-> b, last |-> 0, view |-> <<>>, term |-> NoTerm]
    BY <2>1, <2>2
  <2>3. [u EXCEPT !.pc = "live", !.inbox = o]
        = [pc |-> "live", inbox |-> o, last |-> 0, view |-> <<>>, term |-> NoTerm]
    <3>1. u = [pc |-> u.pc, inbox |-> u.inbox, last |-> u.last, view |-> u.view, term |-> u.term]
      BY <2>a
    <3>2. u.last = 0 /\ u.view = <<>> /\ u.term = NoTerm
      BY <2>a
    <3>3. PICK z : z = [u EXCEPT !.pc = "live", !.inbox = o]
      OBVIOUS
    <3>4. z = [pc |-> "live", inbox |-> o, last |-> u.last, view |-> u.view, term |-> u.term]
      BY ONLY <3>1, <3>3
    <3> QED BY <3>2, <3>3, <3>4
  <2> QED BY <2>2, <2>3, NewcomerIs
<1>4. PICK L : L = IF stored = <<>> THEN 0 ELSE stored[Len(stored)].seq
  OBVIOUS
<1>5. stored \in Seq(Envelopes) /\ Last(stored) = stored[Len(stored)]
  BY DEF WireTypes, Last
<1>6. L \in Nat
  <2>1. CASE stored = <<>>
    BY <1>4, <2>1
  <2>2. CASE stored # <<>>
    <3>1. stored[Len(stored)] \in Envelopes
      BY <1>5, <2>2
    <3> QED BY <1>4, <2>2, <3>1 DEF Envelopes
  <2> QED BY <2>1, <2>2
<1>7. PICK n : n = Now
  OBVIOUS
<1>8. n \in Subs /\ n.pc \in Followed
  <2>1. [NoSub EXCEPT !.pc = "live"] \in Subs /\ [NoSub EXCEPT !.pc = "live"].pc \in Followed
    BY NewcomerIs DEF Followed
  <2> QED BY <1>5, <1>7, <2>1, RelayedStays DEF Now
<1>9. Replayed(sub[c]) = [n EXCEPT !.last = L]
  BY <1>3, <1>4, <1>5, <1>7 DEF Replayed, Now
<1>10. PICK r : r = [n EXCEPT !.last = L]
  OBVIOUS
<1>11. r \in Subs /\ r.last = L /\ r.pc = n.pc /\ r.view = n.view /\ r.term = n.term
  BY <1>6, <1>8, <1>10 DEF Subs
<1>12. sub' = [sub EXCEPT ![c] = Relayed(r, b)]
  <2>1. sub \in [Clients -> Subs]
    BY DEF WireTypes
  <2> QED BY <1>1, <1>9, <1>10, <2>1 DEF Replay
<1>13. r = [Now EXCEPT !.last = L] /\ Alike(r, Now) /\ r.pc \in Followed
  BY <1>7, <1>8, <1>10, <1>11 DEF Alike
<1>14. sub' = [sub EXCEPT ![c] = Relayed(r, sub[c].inbox)] /\ sub[c].inbox \in Seq(Envelopes)
  BY <1>1, <1>2, <1>12
<1> QED BY <1>4, <1>6, <1>11, <1>13, <1>14

LEMMA ReplayKeeps ==
    ASSUME WireInv, NEW c \in Clients, Replay(c)
    PROVE  WireInv'
<1>0. WireTypes /\ SeqsGrow /\ TermIsLast /\ StartFirst /\ NewcomerTold /\ ClientsTold /\ ScreenFits /\ InStep
  BY DEF WireInv
<1>1. UNCHANGED <<point, buf, partial, committed, torn, cut, seq, termSeq, stored, out>>
  BY DEF Replay, producer
<1>2. (Trimmed' <=> Trimmed) /\ Range(stored') = Range(stored) /\ Now' = Now
  BY <1>1, TrimmedSame
<1>3. PICK L \in Nat, r \in Subs :
             /\ L = IF stored = <<>> THEN 0 ELSE stored[Len(stored)].seq
             /\ r = [Now EXCEPT !.last = L] /\ r.last = L /\ Alike(r, Now) /\ r.pc \in Followed
             /\ sub' = [sub EXCEPT ![c] = Relayed(r, sub[c].inbox)] /\ sub[c].inbox \in Seq(Envelopes)
  BY <1>0, ReplayIs
<1>4. PICK t, b, n, x : t = Relayed(r, b) /\ b = sub[c].inbox /\ n = Now /\ x = out.env
  OBVIOUS
<1>5. /\ t \in Subs /\ t.pc \in Followed /\ b \in Seq(Envelopes) /\ n \in Subs /\ x \in Envelopes
      /\ sub \in [Clients -> Subs] /\ stored \in Seq(Envelopes) /\ seq \in Nat
      /\ sub[c].pc = "joined"
  BY <1>0, <1>3, <1>4, RelayedStays, NowTyped DEF WireTypes, Replay
<1>6. sub'[c] = t /\ \A d \in Clients : d # c => sub'[d] = sub[d]
  BY <1>3, <1>4, <1>5
<1>7. /\ L = 0 \/ \E e \in Range(stored) : e.seq = L
      /\ \A e \in Range(stored) : e.seq <= L
      /\ L # 0 => stored[Len(stored)] \in Range(stored)
  <2>1. CASE stored = <<>>
    BY <1>3, <2>1 DEF Range
  <2>2. CASE stored # <<>>
    <3>1. Len(stored) \in 1..Len(stored) /\ DOMAIN stored = 1..Len(stored)
      BY <1>5, <2>2
    <3>2. Range(stored) = {stored[i] : i \in 1..Len(stored)}
      BY <3>1 DEF Range
    <3>3. \A i \in 1..Len(stored) : stored[i].seq <= stored[Len(stored)].seq
      BY <1>0 DEF SeqsGrow
    <3>4. L = stored[Len(stored)].seq
      BY <1>3, <2>2
    <3> QED BY <3>1, <3>2, <3>3, <3>4
  <2> QED BY <2>1, <2>2
<1>8. ~Trimmed => t = r
  <2> SUFFICES ASSUME ~Trimmed PROVE t = r
    OBVIOUS
  <2>1. \A i \in 1..Len(b) : b[i] \in Range(stored)
    BY <1>0, <1>4, <1>5 DEF ClientsTold
  <2>2. \A i \in 1..Len(b) : b[i].seq <= r.last
    BY <1>3, <1>7, <2>1
  <2> QED BY ONLY r \in Subs, <1>4, <1>5, <2>2, RelayedSkips
<1>9. ~Trimmed => /\ n.pc \in Followed /\ (n.pc = "live" <=> n.term = NoTerm)
                  /\ n.term # NoTerm => \E e \in Range(stored) : e.kind = n.term
                  /\ n.pc = "live" => \A e \in Range(stored) : e.kind \notin Terminals
  BY <1>0, <1>4 DEF NewcomerTold, Told
<1>10. r.pc = n.pc /\ r.view = n.view /\ r.term = n.term
  BY <1>3, <1>4 DEF Alike
<1>11. WireTypes'
  BY <1>0, <1>1, <1>3, <1>4, <1>5 DEF WireTypes
<1>12. SeqsGrow' /\ TermIsLast' /\ StartFirst'
  BY <1>0, <1>1, <1>2 DEF SeqsGrow, TermIsLast, StartFirst, NothingOut
<1>13. NewcomerTold'
  BY <1>0, <1>2 DEF NewcomerTold, Told
<1>14. ClientsTold'
  <2> SUFFICES ASSUME NEW d \in Clients PROVE ClientTold(d)'
    BY DEF ClientsTold, ClientTold
  <2>1. CASE d # c
    <3>1. ClientTold(d)
      BY <1>0 DEF ClientsTold, ClientTold
    <3> QED BY <1>2, <1>6, <2>1, <3>1 DEF ClientTold, Told
  <2>2. CASE d = c
    <3>1. t.pc # "joined" /\ t.pc # "off"
      BY <1>5 DEF Followed
    <3>2. ~Trimmed => Told(t)' /\ (t.last = 0 \/ \E e \in Range(stored) : e.seq = t.last)
      <4> SUFFICES ASSUME ~Trimmed
                   PROVE  Told(t)' /\ (t.last = 0 \/ \E e \in Range(stored) : e.seq = t.last)
        OBVIOUS
      <4>1. t.pc = n.pc /\ t.term = n.term /\ t.last = L
        BY <1>3, <1>8, <1>10
      <4> QED BY <1>2, <1>7, <1>9, <4>1 DEF Told
    <3> QED BY <1>2, <1>6, <2>2, <3>1, <3>2 DEF ClientTold, Told
  <2> QED BY <2>1, <2>2
<1>15. ASSUME ~Trimmed PROVE /\ out.stage = "send" => Received(r, x) = r
                             /\ out.stage = "push" => Received(r, x).view = Shown(n, x).view
  <2>1. CASE out.stage = "send"
    <3>1. x.seq <= r.last
      BY <1>0, <1>3, <1>4, <1>7, <2>1 DEF SeqsGrow
    <3> QED BY ONLY r \in Subs, <1>5, <2>1, <3>1, ReceivedIs
  <2>2. CASE out.stage = "push" /\ x.seq > r.last
    <3>1. Received(r, x) = Shown(r, x)
      BY ONLY r \in Subs, <1>5, <2>2, ReceivedIs
    <3>2. r.pc = "live" <=> r.term = NoTerm
      BY <1>9, <1>10, <1>15
    <3>3. Alike(Shown(r, x), Shown(n, x))
      <4>1. Alike(r, n)
        BY <1>10 DEF Alike
      <4>2. r \in Subs /\ n \in Subs /\ x \in Envelopes /\ r.pc \in Followed
        BY <1>3, <1>5
      <4> QED BY ONLY <3>2, <4>1, <4>2, ShownAlike
    <3> QED BY <2>2, <3>1, <3>3 DEF Alike
  <2>3. CASE out.stage = "push" /\ ~(x.seq > r.last)
    <3>1. x.seq \in 1..seq
      BY <1>0, <1>4, <2>3 DEF SeqsGrow, NothingOut
    <3>2. x.seq <= r.last /\ L # 0
      BY <1>3, <1>5, <2>3, <3>1
    <3>3. Received(r, x) = r
      BY ONLY r \in Subs, <1>5, <3>2, ReceivedIs
    <3>4. PICK e : e = stored[Len(stored)]
      OBVIOUS
    <3>5. e \in Range(stored) /\ e.seq = L
      BY <1>3, <1>7, <3>2, <3>4
    <3>6. e.kind \in Terminals /\ x.kind \in Terminals
      <4>1. e.seq < x.seq \/ (e.kind \in Terminals /\ x.kind \in Terminals)
        BY <1>0, <1>4, <2>3, <3>5 DEF SeqsGrow
      <4> QED BY <1>3, <1>5, <3>1, <3>2, <3>5, <4>1
    <3>7. n.pc # "live" /\ n.pc \in Followed /\ n.term # NoTerm
      BY <1>9, <1>15, <3>5, <3>6
    <3>8. Alike(Shown(n, x), n)
      BY ONLY <1>5, <3>6, <3>7, ShownAgain
    <3> QED BY <1>10, <2>3, <3>3, <3>8 DEF Alike
  <2> QED BY <2>1, <2>2, <2>3
<1>16. ScreenFits'
  <2> SUFFICES ASSUME ~torn, ~Trimmed
               PROVE  /\ Fits(Ahead.view)'
                      /\ \A d \in Clients : sub'[d].pc \in Followed => Fits(Awaited(d).view)'
    BY <1>1, <1>2 DEF ScreenFits
  <2>1. Ahead' = Ahead
    BY <1>1, <1>2 DEF Ahead
  <2>2. Fits(Ahead.view) /\ \A d \in Clients : sub[d].pc \in Followed => Fits(Awaited(d).view)
    BY <1>0 DEF ScreenFits
  <2>3. \A d \in Clients : d # c => Awaited(d)' = Awaited(d) /\ sub'[d] = sub[d]
    BY <1>1, <1>6 DEF Awaited, NothingOut
  <2>4. Awaited(c)'.view = Ahead.view
    <3>1. Awaited(c)' = IF out.stage = "none" THEN r ELSE Received(r, x)
      BY <1>1, <1>4, <1>6, <1>8 DEF Awaited, NothingOut
    <3>2. Ahead.view = IF out.stage = "push" THEN Shown(n, x).view ELSE n.view
      BY <1>4 DEF Ahead
    <3>3. out.stage \in {"none", "push", "send"}
      BY <1>0 DEF WireTypes
    <3> QED BY <1>10, <1>15, <3>1, <3>2, <3>3
  <2> QED BY <1>1, <2>1, <2>2, <2>3, <2>4 DEF Fits
<1>17. InStep'
  <2> SUFFICES ASSUME ~cut, ~Trimmed, NEW d \in Clients, sub'[d].pc \in Followed
               PROVE  Alike(IF out.stage = "send" THEN Received(sub'[d], out.env) ELSE sub'[d], Now)
    BY <1>1, <1>2 DEF InStep, Alike
  <2>1. CASE d # c
    <3>1. sub'[d] = sub[d]
      BY <1>6, <2>1
    <3> QED BY <1>0, <3>1 DEF InStep
  <2>2. CASE d = c
    <3>1. sub'[d] = r
      BY <1>6, <1>8, <2>2
    <3>2. out.stage = "send" => Received(r, out.env) = r
      BY <1>4, <1>15
    <3>3. Alike(r, Now)
      BY <1>3
    <3> QED BY <3>1, <3>2, <3>3
  <2> QED BY <2>1, <2>2
<1> QED BY <1>11, <1>12, <1>13, <1>14, <1>16, <1>17 DEF WireInv

\* What is shown is a prefix of what is out.
LEMMA PrefixIs ==
    ASSUME NEW v \in Texts, NEW p \in Texts
    PROVE  IsPrefix(v, p) <=> (Len(v) <= Len(p) /\ \A i \in 1..Len(v) : v[i] = p[i])
<1>0. v \in Seq(1..MaxChunks + 2) /\ p \in Seq(1..MaxChunks + 2) /\ Len(v) \in Nat /\ Len(p) \in Nat
  BY DEF Texts
<1>1. SubSeq(v, 1, Len(v)) = [i \in 1..Len(v) |-> v[i]]
  BY <1>0
<1>2. Len(v) <= Len(p) => SubSeq(p, 1, Len(v)) = [i \in 1..Len(v) |-> p[i]]
  BY <1>0
<1> QED BY <1>0, <1>1, <1>2 DEF IsPrefix

LEMMA PrefixSelf == ASSUME NEW p \in Texts PROVE IsPrefix(p, p)
<1>1. Len(p) <= Len(p)
  BY DEF Texts
<1> QED BY <1>1, PrefixIs

LEMMA PrefixLess ==
    ASSUME NEW v \in Texts, NEW w \in Texts, NEW p \in Texts, IsPrefix(v \o w, p)
    PROVE  IsPrefix(v, p)
<1>0. v \in Seq(1..MaxChunks + 2) /\ w \in Seq(1..MaxChunks + 2) /\ p \in Seq(1..MaxChunks + 2)
  BY DEF Texts
<1>1. PICK x : x = v \o w
  OBVIOUS
<1>2. x \in Texts /\ Len(x) = Len(v) + Len(w) /\ (\A i \in 1..Len(v) : x[i] = v[i]) /\ IsPrefix(x, p)
  BY <1>0, <1>1 DEF Texts
<1>3. Len(v) \in Nat /\ Len(w) \in Nat /\ Len(p) \in Nat
  BY <1>0
<1>4. Len(x) <= Len(p) /\ \A i \in 1..Len(x) : x[i] = p[i]
  BY ONLY p \in Texts, <1>2, PrefixIs
<1>5. Len(v) <= Len(p) /\ \A i \in 1..Len(v) : v[i] = p[i]
  BY ONLY <1>2, <1>3, <1>4
<1> QED BY <1>5, PrefixIs

\* A step that publishes nothing and leaves what is out as it is.
LEMMA QuietKeeps ==
    ASSUME WireInv, UNCHANGED <<stored, sub, out, seq, termSeq, torn, cut, partial>>,
           point' # "end" => point # "end",
           termSeq # 0 => point' \in {"done", "suggest", "cpub", "end"} \/ (committed' /\ point' \in ErrorFlow),
           point' = "cpub" => NothingOut \/ point = "cpub",
           point' \in {"send", "start"} => point \in {"send", "start"},
           (buf = <<>> /\ ~committed /\ point \in Broken) => (buf' = <<>> /\ ~committed' /\ point' \in Broken)
    PROVE  WireInv'
<1>0. WireTypes /\ SeqsGrow /\ TermIsLast /\ StartFirst /\ NewcomerTold /\ ClientsTold /\ ScreenFits /\ InStep
  BY DEF WireInv
<1>1. (Trimmed' <=> Trimmed) /\ Range(stored') = Range(stored) /\ Now' = Now
  BY TrimmedSame
<1>2. WireTypes' /\ SeqsGrow'
  BY <1>0, <1>1 DEF WireTypes, SeqsGrow, NothingOut
<1>3. TermIsLast'
  BY <1>0, <1>1 DEF TermIsLast, NothingOut
<1>4. StartFirst'
  BY <1>0 DEF StartFirst, NothingOut
<1>5. NewcomerTold' /\ ClientsTold'
  BY <1>0, <1>1 DEF NewcomerTold, ClientsTold, Told
<1>6. InStep'
  BY <1>0, <1>1 DEF InStep, Alike
<1>7. \A v : Fits(v) => Fits(v)'
  BY DEF Fits
<1>8. ScreenFits'
  <2> SUFFICES ASSUME ~torn, ~Trimmed
               PROVE  /\ Fits(Ahead.view)'
                      /\ \A c \in Clients : sub[c].pc \in Followed => Fits(Awaited(c).view)'
    BY <1>1 DEF ScreenFits
  <2>1. Ahead' = Ahead
    BY <1>1 DEF Ahead
  <2>2. \A c \in Clients : Awaited(c)' = Awaited(c)
    BY DEF Awaited, NothingOut
  <2>3. Fits(Ahead.view) /\ \A c \in Clients : sub[c].pc \in Followed => Fits(Awaited(c).view)
    BY <1>0 DEF ScreenFits
  <2>4. \A v : (v = Ahead.view => (Fits(v)' => Fits(Ahead.view)'))
    BY <2>1 DEF Fits
  <2>5. \A c \in Clients : \A v : v = Awaited(c).view => (Fits(v)' => Fits(Awaited(c).view)')
    BY <2>2 DEF Fits
  <2> QED BY <1>7, <2>3, <2>4, <2>5
<1> QED BY <1>2, <1>3, <1>4, <1>5, <1>6, <1>8 DEF WireInv

\* A publish is given up: a retraction leaves the answer torn, text that is not out
\* leaves a prefix of it.
LEMMA CutKeeps ==
    ASSUME WireInv, UNCHANGED <<stored, sub, seq, termSeq, partial, buf, committed>>, Interrupted,
           partial \in Texts, point \in Broken => point' \in Broken,
           point' \notin {"send", "start"}, point' # "end" => point # "end",
           termSeq # 0 => point' \in {"done", "suggest", "cpub", "end"} \/ (committed /\ point' \in ErrorFlow),
           ~NothingOut /\ out.env.kind = "delta" => buf = <<>> /\ ~committed /\ point' \in Broken
    PROVE  WireInv'
<1>0. WireTypes /\ SeqsGrow /\ TermIsLast /\ StartFirst /\ NewcomerTold /\ ClientsTold /\ ScreenFits /\ InStep
  BY DEF WireInv
<1>1. (Trimmed' <=> Trimmed) /\ Range(stored') = Range(stored) /\ Now' = Now
  BY TrimmedSame
<1>2. /\ out' = Idle /\ out'.stage = "none" /\ out'.env.seq = 0 /\ NothingOut'
      /\ out' \in [stage : {"none", "push", "send"}, env : Envelopes]
  BY IdleIs DEF Interrupted, NothingOut
<1>3. WireTypes'
  BY <1>0, <1>2 DEF WireTypes
<1>4. SeqsGrow'
  BY <1>0, <1>1, <1>2 DEF SeqsGrow
<1>5. TermIsLast'
  <2>1. termSeq # 0 => 0 < termSeq
    BY <1>0 DEF WireTypes
  <2>2. out'.env.seq < termSeq \/ termSeq = 0
    BY <1>2, <2>1
  <2> QED BY <1>0, <1>1, <1>2, <2>2 DEF TermIsLast
<1>6. StartFirst'
  BY <1>0, <1>2 DEF StartFirst
<1>7. NewcomerTold' /\ ClientsTold'
  BY <1>0, <1>1 DEF NewcomerTold, ClientsTold, Told
<1>8. InStep'
  <2>1. ~cut' => ~cut /\ out.stage # "send"
    BY DEF Interrupted
  <2> QED BY <1>0, <1>1, <1>2, <2>1 DEF InStep, Alike
<1>9. ScreenFits'
  <2> SUFFICES ASSUME ~torn', ~Trimmed
               PROVE  /\ Fits(Now.view)'
                      /\ \A c \in Clients : sub[c].pc \in Followed => Fits(sub[c].view)'
    BY <1>1, <1>2 DEF ScreenFits, Ahead, Awaited, Fits
  <2>1. ~torn /\ (NothingOut \/ out.env.kind # "retract")
    BY DEF Interrupted
  <2>2. Fits(Ahead.view) /\ \A c \in Clients : sub[c].pc \in Followed => Fits(Awaited(c).view)
    BY <1>0, <2>1 DEF ScreenFits
  <2>3. \A v : Fits(v) => Fits(v)'
    BY DEF Fits
  <2>4. ASSUME NEW s \in Subs, s.pc \in Followed, ~NothingOut, Fits(Shown(s, out.env).view)
        PROVE  Fits(s.view)'
    <3>1. PICK x, v : x = out.env /\ v = Shown(s, x).view
      OBVIOUS
    <3>2. x \in Envelopes /\ x.kind # "retract" /\ x.text \in Texts /\ s.view \in Texts
      BY <1>0, <2>1, <2>4, <3>1 DEF WireTypes, Envelopes, Subs
    <3>3. CASE s.pc = "live" /\ x.kind = "delta"
      <4>1. v = s.view \o x.text
        BY <3>1, <3>2, <3>3, ShownIs
      <4>2. IsPrefix(s.view \o x.text, partial)
        BY <2>4, <3>1, <4>1 DEF Fits
      <4>3. PICK w, y : w = s.view /\ y = x.text
        OBVIOUS
      <4>4. IsPrefix(w, partial)
        BY ONLY partial \in Texts, <3>2, <4>2, <4>3, PrefixLess
      <4>5. buf = <<>> /\ ~committed /\ point' \in Broken
        BY <2>4, <3>1, <3>3
      <4> QED BY <4>3, <4>4, <4>5 DEF Fits
    <3>4. CASE ~(s.pc = "live" /\ x.kind = "delta")
      <4>1. v = s.view
        <5>1. CASE s.pc = "live"
          BY <3>1, <3>2, <3>4, <5>1, ShownIs
        <5>2. CASE s.pc = "grace"
          BY <3>1, <3>2, <5>2, ShownIs
        <5>3. CASE s.pc = "closed"
          BY <3>1, <3>2, <5>3, ShownIs
        <5> QED BY <2>4, <5>1, <5>2, <5>3 DEF Followed
      <4>2. Fits(v)
        BY <2>4, <3>1
      <4> QED BY <2>3, <4>1, <4>2
    <3> QED BY <3>3, <3>4
  <2>5. Fits(Now.view)'
    <3>1. PICK n : n = Now
      OBVIOUS
    <3>2. n \in Subs /\ n.pc \in Followed
      BY <1>0, <3>1, NowTyped DEF NewcomerTold, Told
    <3>3. out.stage \in {"none", "push", "send"}
      BY <1>0 DEF WireTypes
    <3>4. Fits(n.view)'
      <4>1. CASE out.stage = "push"
        BY <2>2, <2>4, <3>1, <3>2, <4>1 DEF Ahead, NothingOut
      <4>2. CASE out.stage # "push"
        BY <2>2, <2>3, <3>1, <4>2 DEF Ahead
      <4> QED BY <4>1, <4>2
    <3> QED BY <1>1, <3>1, <3>4 DEF Fits
  <2>6. ASSUME NEW c \in Clients, sub[c].pc \in Followed PROVE Fits(sub[c].view)'
    <3>1. PICK s : s = sub[c]
      OBVIOUS
    <3>2. s \in Subs /\ s.pc \in Followed /\ out.env \in Envelopes
      BY <1>0, <2>6, <3>1 DEF WireTypes
    <3>3. Fits(Awaited(c).view)
      BY <2>2, <2>6
    <3>4. Awaited(c) = s \/ (~NothingOut /\ Awaited(c) = Shown(s, out.env))
      BY <3>1 DEF Awaited, Received
    <3>5. Fits(s.view)'
      <4>1. CASE Awaited(c) = s
        BY <2>3, <3>3, <4>1
      <4>2. CASE ~NothingOut /\ Awaited(c) = Shown(s, out.env)
        BY <2>4, <3>2, <3>3, <4>2
      <4> QED BY <3>4, <4>1, <4>2
    <3> QED BY <3>1, <3>5 DEF Fits
  <2> QED BY <2>5, <2>6
<1> QED BY <1>3, <1>4, <1>5, <1>6, <1>7, <1>8, <1>9 DEF WireInv

\* What a publish of e needs: e comes after everything stored, or is a terminal
\* again, and what it makes of a screen fits the answer.
Publishable(e) ==
    /\ e.seq \in 1..seq'
    /\ \A f \in Range(stored) : \/ f.seq < e.seq
                                \/ f.seq = e.seq /\ f.kind \in Terminals /\ e.kind \in Terminals
    /\ stored # <<>> => e.kind # "start"
    /\ \A s \in Subs :
         /\ s.pc \in Followed /\ (s.pc = "live" <=> s.term = NoTerm) /\ Fits(s.view)
         /\ s.term # NoTerm => \E f \in Range(stored) : f.kind = s.term
         => Fits(Shown(s, e).view)'
    /\ e.kind \in Terminals => \A v : Fits(v) => Fits(v)'

LEMMA PublishKeeps ==
    ASSUME WireInv, NothingOut, NEW e \in Envelopes, Publish(e), UNCHANGED <<stored, sub, torn, cut>>,
           seq' \in Nat, seq <= seq', termSeq' \in 0..seq', Publishable(e), TermIsLast',
           point' \notin {"send", "start"}
    PROVE  WireInv'
<1>0. WireTypes /\ SeqsGrow /\ TermIsLast /\ StartFirst /\ NewcomerTold /\ ClientsTold /\ ScreenFits /\ InStep
  BY DEF WireInv
<1>1. (Trimmed' <=> Trimmed) /\ Range(stored') = Range(stored) /\ Now' = Now
  BY TrimmedSame
<1>2. /\ out'.stage = "push" /\ out'.env = e /\ ~NothingOut' /\ out.stage = "none"
      /\ out' \in [stage : {"none", "push", "send"}, env : Envelopes]
  BY DEF Publish, NothingOut
<1>a. /\ e.seq \in 1..seq'
      /\ \A f \in Range(stored) : \/ f.seq < e.seq
                                  \/ f.seq = e.seq /\ f.kind \in Terminals /\ e.kind \in Terminals
      /\ stored # <<>> => e.kind # "start"
      /\ \A s \in Subs :
           /\ s.pc \in Followed /\ (s.pc = "live" <=> s.term = NoTerm) /\ Fits(s.view)
           /\ s.term # NoTerm => \E f \in Range(stored) : f.kind = s.term
           => Fits(Shown(s, e).view)'
      /\ e.kind \in Terminals => \A v : Fits(v) => Fits(v)'
  BY DEF Publishable
<1>3. WireTypes'
  BY <1>0, <1>2 DEF WireTypes
<1>4. SeqsGrow'
  <2>1. \A f \in Range(stored) : f.seq \in 1..seq'
    <3>1. \A f \in Range(stored) : f.seq \in 1..seq
      BY <1>0 DEF SeqsGrow
    <3>2. seq \in Nat
      BY <1>0 DEF WireTypes
    <3> QED BY <3>1, <3>2
  <2>2. \A i \in 1..Len(stored') : stored'[i].seq <= stored'[Len(stored')].seq
    BY <1>0 DEF SeqsGrow
  <2> QED BY <1>1, <1>2, <1>a, <2>1, <2>2 DEF SeqsGrow
<1>6. StartFirst'
  BY <1>0, <1>2, <1>a DEF StartFirst
<1>7. NewcomerTold' /\ ClientsTold'
  BY <1>0, <1>1 DEF NewcomerTold, ClientsTold, Told
<1>8. InStep'
  BY <1>0, <1>1, <1>2 DEF InStep, Alike
<1>9. ScreenFits'
  <2> SUFFICES ASSUME ~torn, ~Trimmed
               PROVE  /\ Fits(Shown(Now, e).view)'
                      /\ \A c \in Clients : sub[c].pc \in Followed => Fits(Received(sub[c], e).view)'
    BY <1>1, <1>2 DEF ScreenFits, Ahead, Awaited, Fits
  <2>2. Fits(Now.view) /\ \A c \in Clients : sub[c].pc \in Followed => Fits(sub[c].view)
    BY <1>0, <1>2 DEF ScreenFits, Ahead, Awaited, NothingOut
  <2>5. Fits(Shown(Now, e).view)'
    <3>1. PICK n : n = Now
      OBVIOUS
    <3>2. /\ n \in Subs /\ n.pc \in Followed /\ (n.pc = "live" <=> n.term = NoTerm)
          /\ n.term # NoTerm => \E f \in Range(stored) : f.kind = n.term
      BY <1>0, <3>1, NowTyped DEF NewcomerTold, Told
    <3>3. Fits(n.view)
      BY <2>2, <3>1
    <3>4. Fits(Shown(n, e).view)'
      BY <1>a, <3>2, <3>3
    <3> QED BY <1>1, <3>1, <3>4 DEF Fits
  <2>6. ASSUME NEW c \in Clients, sub[c].pc \in Followed PROVE Fits(Received(sub[c], e).view)'
    <3>1. PICK s : s = sub[c]
      OBVIOUS
    <3>2. /\ s \in Subs /\ s.pc \in Followed /\ (s.pc = "live" <=> s.term = NoTerm)
          /\ s.term # NoTerm => \E f \in Range(stored) : f.kind = s.term
          /\ s.last = 0 \/ \E f \in Range(stored) : f.seq = s.last
      BY <1>0, <2>6, <3>1 DEF WireTypes, ClientsTold, Told
    <3>3. Fits(s.view)
      BY <2>2, <2>6, <3>1
    <3>4. CASE e.seq > s.last
      <4>1. Received(s, e) = Shown(s, e)
        BY ONLY e \in Envelopes, <3>2, <3>4, ReceivedIs
      <4>2. Fits(Shown(s, e).view)'
        BY <1>a, <3>2, <3>3
      <4>3. PICK w : w = Shown(s, e).view
        OBVIOUS
      <4>4. Fits(w)'
        BY <4>2, <4>3
      <4>5. w = Received(sub[c], e).view /\ w = Received(sub'[c], e).view
        BY <3>1, <4>1, <4>3
      <4> QED BY <4>4, <4>5 DEF Fits
    <3>5. CASE ~(e.seq > s.last)
      <4>1. e.seq \in Nat /\ s.last \in Nat /\ e.seq # 0
        BY <1>a, <3>2 DEF Subs, Envelopes
      <4>2. e.seq <= s.last /\ s.last # 0
        BY <3>5, <4>1
      <4>3. Received(s, e) = s
        BY ONLY e \in Envelopes, <3>2, <4>2, ReceivedIs
      <4>4. PICK f \in Range(stored) : f.seq = s.last
        BY <3>2, <4>2
      <4>5. e.kind \in Terminals
        <5>1. f.seq < e.seq \/ e.kind \in Terminals
          BY <1>a
        <5> QED BY <4>1, <4>2, <4>4, <5>1
      <4>6. Fits(s.view)'
        BY <1>a, <3>3, <4>5
      <4>7. PICK w : w = s.view
        OBVIOUS
      <4>8. w = Received(sub[c], e).view /\ w = Received(sub'[c], e).view /\ Fits(w)'
        BY <3>1, <4>3, <4>6, <4>7
      <4> QED BY <4>8 DEF Fits
    <3> QED BY <3>4, <3>5
  <2> QED BY <2>5, <2>6
<1> QED BY <1>3, <1>4, <1>6, <1>7, <1>8, <1>9 DEF WireInv

AnswerInv == AnswerTypes /\ TextKept /\ OutKept /\ ReplyKept

\* Steps that publish nothing.
WireQuiet ==
    /\ UNCHANGED <<stored, sub, out, seq, termSeq, torn, cut, partial>>
    /\ point' # "end" => point # "end"
    /\ termSeq # 0 => point' \in {"done", "suggest", "cpub", "end"} \/ (committed' /\ point' \in ErrorFlow)
    /\ point' = "cpub" => NothingOut \/ point = "cpub"
    /\ point' \in {"send", "start"} => point \in {"send", "start"}
    /\ (buf = <<>> /\ ~committed /\ point \in Broken) => (buf' = <<>> /\ ~committed' /\ point' \in Broken)

LEMMA QuietMaking ==
    ASSUME TermIsLast,
           Begin \/ Chunk \/ ToolTurn \/ Retry \/ EndTurn \/ Continue \/ Final \/ Rewrite \/ Commit \/ CommitFails
    PROVE  WireQuiet
<1>1. /\ UNCHANGED <<stored, sub, out, seq, termSeq, torn, cut, partial>>
      /\ point \in {"send", "turn", "length", "final", "rewrite", "commit"} /\ point' # "cpub"
      /\ point' = "start" => point = "send"
      /\ point' # "send"
  <2>1. CASE Begin
    BY <2>1 DEF Begin, To, answer, terminal, wire, rest
  <2>2. CASE Chunk \/ ToolTurn \/ Retry \/ EndTurn
    BY <2>2 DEF Chunk, ToolTurn, Retry, EndTurn, To, answer, terminal, wire, rest
  <2>3. CASE Continue \/ Final \/ Rewrite
    BY <2>3 DEF Continue, Final, Rewrite, To, answer, terminal, wire, rest
  <2>4. CASE Commit
    BY <2>4 DEF Commit, To, answer, terminal, wire, rest
  <2>5. CASE CommitFails
    BY <2>5 DEF CommitFails, Raised, answer, terminal, wire, rest
  <2> QED BY <2>1, <2>2, <2>3, <2>4, <2>5
<1>2. termSeq = 0 /\ point \notin Broken
  BY <1>1 DEF TermIsLast, ErrorFlow, CancelFlow, Broken
<1>3. point # "end"
  BY <1>1
<1> QED BY <1>1, <1>2, <1>3 DEF WireQuiet

LEMMA QuietSettling ==
    ASSUME TermIsLast, TextKept, StreamInv,
           \/ DoneSettled \/ Salvage \/ SavePartial \/ RequestStop
           \/ (Retract \/ ErrorRetract \/ CancelledTerminal \/ Suggest) /\ UNCHANGED out
    PROVE  WireQuiet
<1>0. TerminalEarned /\ UsageAccounted
  BY DEF StreamInv
<1>1. CASE DoneSettled
  <2>1. /\ UNCHANGED <<stored, sub, out, seq, termSeq, torn, cut, partial, buf, committed>>
        /\ point = "done" /\ point' \in {"end", "suggest"}
    BY <1>1 DEF DoneSettled, To, answer, marks, wire, rest
  <2> QED BY <2>1 DEF WireQuiet, Broken, CancelFlow, ErrorFlow
<1>2. CASE Salvage
  <2>1. /\ UNCHANGED <<stored, sub, out, seq, termSeq, torn, cut, partial, buf, committed>>
        /\ (point = "csalvage" /\ point' = "cflush") \/ (point = "esalvage" /\ point' = "eretract")
    BY <1>2 DEF Salvage, To, answer, terminal, wire, rest
  <2> QED BY <2>1 DEF WireQuiet, TermIsLast, Broken, CancelFlow, ErrorFlow
<1>3. CASE SavePartial
  <2>1. /\ UNCHANGED <<stored, sub, out, seq, termSeq, torn, cut, partial, buf, committed>>
        /\ point = "cflush" /\ point' \in {"cpub", "eretract"} /\ NothingOut
    BY <1>3 DEF SavePartial, To, answer, wire, rest
  <2> QED BY <2>1 DEF WireQuiet, TermIsLast, Broken, CancelFlow, ErrorFlow
<1>4. CASE RequestStop
  <2>1. UNCHANGED <<point, stored, sub, out, seq, termSeq, torn, cut, partial, buf, committed>>
    BY <1>4 DEF RequestStop, producer
  <2> QED BY <2>1 DEF WireQuiet, TermIsLast
<1>o. NothingOut => ~(\E e : Publish(e) /\ UNCHANGED out)
  BY DEF Publish, NothingOut
<1>5. CASE Retract /\ UNCHANGED out
  <2>1. /\ UNCHANGED <<stored, sub, out, termSeq, torn, cut, committed>> /\ NothingOut
        /\ point = "retract" /\ point' = after /\ partial' = <<>> /\ (onWire \/ seq' = seq)
        /\ onWire => \E e : Publish(e)
    BY <1>5 DEF Retract, Emit, To, marks, wire, rest
  <2>2. ~onWire /\ partial = <<>> /\ seq' = seq
    BY <1>5, <1>o, <2>1 DEF TextKept
  <2>3. after \in {"tools", "turn", "rewrite"}
    BY <1>0, <2>1 DEF UsageAccounted
  <2> QED BY <2>1, <2>2, <2>3 DEF WireQuiet, TermIsLast, Broken, CancelFlow, ErrorFlow
<1>6. CASE ErrorRetract /\ UNCHANGED out
  <2>1. /\ UNCHANGED <<stored, sub, out, termSeq, torn, cut, committed>> /\ NothingOut
        /\ point = "eretract" /\ point' \in {"end", "epub"}
        /\ (UNCHANGED <<buf, partial,
                      seq>>) \/ (buf' = <<>> /\ partial' = <<>> /\ (onWire \/ seq' = seq) /\ (onWire => \E e : Publish(e)))
    BY <1>6 DEF ErrorRetract, Emit, To, marks, wire, rest
  <2>2. partial' = partial /\ seq' = seq /\ (buf' = buf \/ buf' = <<>>)
    BY <1>6, <1>o, <2>1 DEF TextKept
  <2> QED BY <2>1, <2>2 DEF WireQuiet, TermIsLast, Broken, CancelFlow, ErrorFlow
<1>7. CASE CancelledTerminal /\ UNCHANGED out
  <2>1. /\ UNCHANGED <<stored, sub, out, torn, cut, committed, partial,
                buf>> /\ NothingOut /\ point = "cpub"
        /\ (\E e : Publish(e)) \/ (point' = "end" /\ UNCHANGED <<termSeq, seq>>)
    BY <1>7 DEF CancelledTerminal, To, marks, wire, rest, answer
  <2>2. point' = "end" /\ UNCHANGED <<termSeq, seq>>
    BY <1>7, <1>o, <2>1
  <2> QED BY <2>1, <2>2 DEF WireQuiet, TermIsLast, Broken, CancelFlow, ErrorFlow
<1>8. CASE Suggest /\ UNCHANGED out
  <2>1. /\ UNCHANGED <<stored, sub, out, termSeq, torn, cut, committed, partial, buf>> /\ NothingOut
        /\ point = "suggest" /\ point' = "end"
        /\ (\E e : Publish(e)) \/ UNCHANGED seq
    BY <1>8 DEF Suggest, Emit, To, marks, wire, rest, answer
  <2>2. UNCHANGED seq
    BY <1>8, <1>o, <2>1
  <2> QED BY <2>1, <2>2 DEF WireQuiet, TermIsLast, Broken, CancelFlow, ErrorFlow
<1> QED BY <1>1, <1>2, <1>3, <1>4, <1>5, <1>6, <1>7, <1>8

\* A publish that is given up, wherever it is.
LEMMA CutSteps ==
    ASSUME WireInv, AnswerInv, StreamInv, Stop \/ Abort \/ TerminalTimeout \/ SettlementFails \/ ProducerDies
    PROVE  WireInv'
<1>0. TermIsLast /\ OutKept /\ TerminalEarned /\ partial \in Texts
  BY DEF WireInv, AnswerInv, AnswerTypes, StreamInv
<1>1. /\ UNCHANGED <<stored, sub, seq, termSeq, partial, buf, committed>> /\ Interrupted
      /\ \/ point \in Stoppable /\ point' = "csalvage"
         \/ point \in Stoppable \cup {"asked", "done", "suggest"} /\ ((stopped /\ ~committed /\ point' = "csalvage") \/ point' = "esalvage")
         \/ point \in {"done", "cpub"} /\ point' = point
         \/ point' = "end"
  <2>1. CASE Stop
    BY <2>1 DEF Stop, AcceptStop, To, answer, terminal, rest
  <2>2. CASE Abort
    BY <2>2 DEF Abort, Raised, answer, terminal, marks, rest
  <2>3. CASE TerminalTimeout
    BY <2>3 DEF TerminalTimeout, answer, terminal, marks, rest
  <2>4. CASE SettlementFails
    BY <2>4 DEF SettlementFails, To, answer, terminal, marks, rest
  <2>5. CASE ProducerDies
    BY <2>5 DEF ProducerDies, To, answer, terminal, rest
  <2> QED BY <2>1, <2>2, <2>3, <2>4, <2>5
<1>2. point' \notin {"send", "start"} /\ (point' # "end" => point # "end") /\ (point \in Broken => point' \in Broken)
  BY <1>1 DEF Stoppable, Broken, CancelFlow, ErrorFlow
<1>3. termSeq # 0 => point' \in {"done", "suggest", "cpub", "end"} \/ (committed /\ point' \in ErrorFlow)
  <2>1. point \in Stoppable => termSeq = 0
    BY <1>0 DEF TermIsLast, Stoppable, ErrorFlow
  <2>2. point \in {"asked", "done", "suggest"} => committed
    BY <1>0 DEF TerminalEarned, Durable
  <2> QED BY <1>0, <1>1, <2>1, <2>2 DEF TermIsLast, ErrorFlow
<1>4. ~NothingOut /\ out.env.kind = "delta" => buf = <<>> /\ ~committed /\ point' \in Broken
  <2>1. ~NothingOut /\ out.env.kind = "delta" => buf = <<>> /\ ~committed
    BY <1>0 DEF OutKept
  <2>2. point = "done" => committed
    BY <1>0 DEF TerminalEarned, Durable
  <2> QED BY <1>1, <2>1, <2>2 DEF Broken, CancelFlow, ErrorFlow
<1> QED BY <1>0, <1>1, <1>2, <1>3, <1>4, CutKeeps

LEMMA EnvelopeIs ==
    ASSUME NEW n \in Nat, NEW k \in Kinds, NEW t \in Texts
    PROVE  /\ Envelope(n, k, t) \in Envelopes /\ Envelope(n, k, t).seq = n /\ Envelope(n, k, t).kind = k
           /\ Envelope(n, k, t).text = t
           /\ \A b \in BOOLEAN : LET e == [Envelope(n, k, t) EXCEPT !.pending = b] IN
                 e \in Envelopes /\ e.seq = n /\ e.kind = k
BY DEF Envelope, Envelopes

\* Before a terminal is numbered none is stored, and everyone who follows is live.
LEMMA NoneTold ==
    ASSUME StreamInv, WireTypes, termSeq = 0, point # "end"
    PROVE  \A e \in Range(stored) : e.kind \notin Terminals
BY DEF StreamInv, OneTerminal, EndsOut

\* A publish that does not end the answer.
LEMMA EmitKeeps ==
    ASSUME WireInv, StreamInv, NothingOut, NEW k \in Kinds \ Terminals, NEW t \in Texts, Emit(k, t),
           UNCHANGED <<stored, sub, termSeq, torn, cut>>,
           point' \notin {"send", "start", "cpub"}, point # "end", termSeq = 0 \/ point' = "end",
           k = "start" => stored = <<>>,
           \/ k \notin {"delta", "retract"} /\ \A v : Fits(v) => Fits(v)'
           \/ k = "retract" /\ termSeq = 0 /\ partial' = <<>>
           \/ /\ k = "delta" /\ termSeq = 0 /\ t = buf /\ buf # <<>> /\ partial' = partial \o buf
              /\ partial \in Texts
    PROVE  WireInv'
<1>0. WireTypes /\ SeqsGrow /\ TermIsLast
  BY DEF WireInv
<1>1. seq \in Nat /\ termSeq \in 0..seq /\ seq' = seq + 1 /\ Publish(Envelope(seq + 1, k, t))
  BY <1>0 DEF WireTypes, Emit
<1>2. PICK e : e = Envelope(seq + 1, k, t)
  OBVIOUS
<1>3. e \in Envelopes /\ e.seq = seq + 1 /\ e.kind = k /\ e.text = t /\ seq + 1 \in Nat
  BY <1>1, <1>2, EnvelopeIs
<1>4. out'.env = e /\ out'.stage = "push"
  BY <1>1, <1>2 DEF Publish
<1>5. TermIsLast'
  BY <1>4 DEF TermIsLast
<1>6. ASSUME NEW s \in Subs, s.pc \in Followed, s.pc = "live" <=> s.term = NoTerm, Fits(s.view),
             s.term # NoTerm => \E f \in Range(stored) : f.kind = s.term
      PROVE  Fits(Shown(s, e).view)'
  <2>0. s.view \in Texts
    BY DEF Subs
  <2>1. CASE k \notin {"delta", "retract"} /\ \A v : Fits(v) => Fits(v)'
    <3>1. Shown(s, e).view = s.view
      <4>1. CASE s.pc = "live"
        BY <1>3, <2>1, <4>1, ShownIs
      <4>2. CASE s.pc = "grace"
        BY <1>3, <4>2, ShownIs
      <4>3. CASE s.pc = "closed"
        BY <1>3, <4>3, ShownIs
      <4> QED BY <1>6, <4>1, <4>2, <4>3 DEF Followed
    <3>2. Fits(s.view)'
      BY <1>6, <2>1
    <3> QED BY <3>1, <3>2
  <2>2. CASE termSeq = 0
    <3>1. s.pc = "live"
      <4>1. \A f \in Range(stored) : f.kind \notin Terminals
        BY <1>0, <2>2, NoneTold
      <4>2. s.term \in Terminals \cup {NoTerm}
        BY DEF Subs
      <4> QED BY <1>6, <4>1, <4>2
    <3>a. Shown(s, e).view = IF e.kind = "delta" THEN s.view \o e.text
                              ELSE IF e.kind = "retract" THEN <<>> ELSE s.view
      BY ONLY s \in Subs, <1>3, <3>1, ShownIs
    <3>2. k = "retract" => Shown(s, e).view = <<>>
      BY ONLY <1>3, <3>a
    <3>3. k = "delta" => Shown(s, e).view = s.view \o t
      BY ONLY <1>3, <3>a
    <3>4. CASE k = "retract" /\ partial' = <<>>
      <4>1. IsPrefix(<<>>, <<>>)
        <5>1. <<>> \in Texts
          BY DEF Texts
        <5> QED BY <5>1, PrefixSelf
      <4> QED BY <3>2, <3>4, <4>1 DEF Fits
    <3>5. CASE k = "delta" /\ t = buf /\ buf # <<>> /\ partial' = partial \o buf /\ partial \in Texts
      <4>1. s.view = partial
        BY <1>6, <3>5 DEF Fits
      <4>2. Shown(s, e).view = partial'
        BY <3>3, <3>5, <4>1
      <4>3. partial' \in Texts
        BY <3>5 DEF Texts
      <4>4. PICK p : p = partial'
        OBVIOUS
      <4>5. IsPrefix(p, p)
        BY <4>3, <4>4, PrefixSelf
      <4> QED BY <4>2, <4>4, <4>5 DEF Fits
    <3> QED BY <2>1, <2>2, <3>4, <3>5
  <2> QED BY <2>1, <2>2
<1>7. Publishable(e)
  <2>1. e.seq \in 1..seq'
    BY <1>1, <1>3
  <2>2. \A f \in Range(stored) : f.seq < e.seq
    BY <1>0, <1>1, <1>3 DEF SeqsGrow
  <2>3. e.kind \notin Terminals
    BY <1>3
  <2> QED BY <1>3, <1>6, <2>1, <2>2, <2>3 DEF Publishable
<1>8. seq' \in Nat /\ seq <= seq' /\ termSeq' \in 0..seq'
  BY <1>1
<1>9. Publish(e)
  BY <1>1, <1>2
<1> QED BY <1>3, <1>5, <1>7, <1>8, <1>9, PublishKeeps

\* A terminal, in the place that was kept for it.
LEMMA TerminalKeeps ==
    ASSUME WireInv, StreamInv, NothingOut, NEW e \in Envelopes, e.kind \in Terminals,
           e.seq = (IF termSeq = 0 THEN seq + 1 ELSE termSeq), Publish(e),
           seq' = (IF termSeq = 0 THEN seq + 1 ELSE seq),
           UNCHANGED <<stored, sub, torn, cut>>, point # "end",
           \/ point' \in {"done", "cpub"} /\ termSeq' = e.seq
           \/ point' = "end" /\ termSeq' = termSeq,
           \A v : Fits(v) => Fits(v)'
    PROVE  WireInv'
<1>0. WireTypes /\ SeqsGrow /\ TermIsLast /\ OneTerminal
  BY DEF WireInv, StreamInv
<1>1. seq \in Nat /\ termSeq \in 0..seq /\ (termSeq = 0 \/ termSeq = seq) /\ e.seq \in Nat
  BY <1>0 DEF WireTypes, TermIsLast, Envelopes
<1>2. e.seq = seq' /\ seq' \in Nat /\ seq <= seq' /\ termSeq' \in 0..seq' /\ e.seq \in 1..seq'
  BY <1>1
<1>3. ASSUME NEW f \in Range(stored)
      PROVE  f.seq < e.seq \/ (f.seq = e.seq /\ f.kind \in Terminals)
  <2>1. f.seq \in 1..seq
    BY <1>0 DEF SeqsGrow
  <2>2. CASE termSeq = 0
    BY <1>1, <2>1, <2>2
  <2>3. CASE termSeq # 0
    <3>1. f.seq < termSeq \/ f.kind \in Terminals
      BY <1>0, <2>3 DEF TermIsLast
    <3>2. f.kind \in Terminals => f.seq = termSeq
      BY <1>0 DEF OneTerminal, EndsOut
    <3> QED BY <2>3, <3>1, <3>2
  <2> QED BY <2>2, <2>3
<1>4. out'.env = e
  BY DEF Publish
<1>5. TermIsLast'
  <2>1. CASE point' = "end"
    BY <2>1 DEF TermIsLast
  <2>2. CASE point' \in {"done", "cpub"} /\ termSeq' = e.seq
    <3>1. Range(stored') = Range(stored)
      BY DEF Range
    <3>2. \A f \in Range(stored') \cup {out'.env} : f.seq < termSeq' \/ f.kind \in Terminals
      BY <1>3, <1>4, <2>2, <3>1
    <3>3. termSeq' = seq'
      BY <1>2, <2>2
    <3> QED BY <1>4, <2>2, <3>2, <3>3 DEF TermIsLast
  <2> QED BY <2>1, <2>2
<1>6. Publishable(e)
  <2>1. ASSUME NEW s \in Subs, s.pc \in Followed, Fits(s.view) PROVE Fits(Shown(s, e).view)'
    <3>0. e.kind \notin {"delta", "retract"}
      BY DEF Terminals
    <3>1. Shown(s, e).view = s.view
      <4>1. CASE s.pc = "live"
        BY <3>0, <4>1, ShownIs
      <4>2. CASE s.pc = "grace"
        BY <4>2, ShownIs
      <4>3. CASE s.pc = "closed"
        BY <4>3, ShownIs
      <4> QED BY <2>1, <4>1, <4>2, <4>3 DEF Followed
    <3>2. Fits(s.view)'
      BY <2>1
    <3> QED BY <3>1, <3>2
  <2>2. e.kind # "start"
    BY DEF Terminals
  <2> QED BY <1>2, <1>3, <2>1, <2>2 DEF Publishable
<1>7. point' \notin {"send", "start"}
  OBVIOUS
<1> QED BY <1>2, <1>5, <1>6, <1>7, PublishKeeps

LEMMA EmitSteps ==
    ASSUME WireInv, AnswerInv, StreamInv,
           \/ Start \/ FlushText \/ Tools \/ Persist \/ AskUser
           \/ (Retract \/ ErrorRetract \/ Suggest) /\ out' # out
    PROVE  WireInv'
<1>0. /\ TermIsLast /\ StartFirst /\ AnswerTypes /\ UsageAccounted /\ <<>> \in Texts
      /\ partial \in Texts /\ buf \in Texts
  BY DEF WireInv, AnswerInv, AnswerTypes, StreamInv, Texts
<1>k. {"start", "delta", "retract", "event", "suggestions"} \subseteq Kinds \ Terminals
  BY DEF Kinds, Terminals
<1>f. ASSUME UNCHANGED <<partial, buf, committed>>, point \notin Broken
      PROVE  \A v : Fits(v) => Fits(v)'
  BY <1>f DEF Fits
<1>1. CASE Start
  <2>1. /\ UNCHANGED <<stored, sub, termSeq, torn, cut, partial, buf, committed>> /\ NothingOut
        /\ point = "start" /\ point' = "turn" /\ Emit("start", <<>>)
    BY <1>1 DEF Start, To, answer, marks, wire, rest
  <2>2. stored = <<>> /\ termSeq = 0 /\ point \notin Broken
    BY <1>0, <2>1 DEF TermIsLast, StartFirst, ErrorFlow, CancelFlow, Broken
  <2>3. \A v : Fits(v) => Fits(v)'
    BY <1>f, <2>1, <2>2
  <2> QED BY <1>0, <1>k, <2>1, <2>2, <2>3, EmitKeeps
<1>2. CASE FlushText
  <2>1. /\ UNCHANGED <<stored, sub, termSeq, torn, cut, point>> /\ NothingOut /\ buf # <<>>
        /\ point \in {"turn", "persist", "cflush"} /\ Emit("delta", buf) /\ partial' = partial \o buf
    BY <1>2 DEF FlushText, marks, wire, rest
  <2>2. termSeq = 0
    BY <1>0, <2>1 DEF TermIsLast, ErrorFlow
  <2> QED BY <1>0, <1>k, <2>1, <2>2, EmitKeeps
<1>3. CASE Tools \/ Persist \/ AskUser
  <2>1. /\ UNCHANGED <<stored, sub, termSeq, torn, cut, partial, buf, committed>> /\ NothingOut
        /\ point \in {"tools", "persist", "asked"} /\ point' \in {"turn", "persist", "commit", "done"}
        /\ Emit("event", <<>>)
    BY <1>3 DEF Tools, Persist, AskUser, To, answer, marks, wire, rest
  <2>2. termSeq = 0 /\ point \notin Broken
    BY <1>0, <2>1 DEF TermIsLast, ErrorFlow, CancelFlow, Broken
  <2>3. \A v : Fits(v) => Fits(v)'
    BY <1>f, <2>1, <2>2
  <2> QED BY <1>0, <1>k, <2>1, <2>2, <2>3, EmitKeeps
<1>4. CASE Retract /\ out' # out
  <2>1. /\ UNCHANGED <<stored, sub, termSeq, torn, cut>> /\ NothingOut
        /\ point = "retract" /\ point' = after /\ partial' = <<>> /\ Emit("retract", <<>>)
    BY <1>4 DEF Retract, To, marks, wire, rest
  <2>2. termSeq = 0 /\ after \in {"tools", "turn", "rewrite"}
    BY <1>0, <2>1 DEF TermIsLast, ErrorFlow, UsageAccounted
  <2> QED BY <1>0, <1>k, <2>1, <2>2, EmitKeeps
<1>5. CASE ErrorRetract /\ out' # out
  <2>1. /\ UNCHANGED <<stored, sub, termSeq, torn, cut>> /\ NothingOut
        /\ point = "eretract" /\ point' = "epub" /\ partial' = <<>> /\ Emit("retract", <<>>) /\ ~committed
    BY <1>5 DEF ErrorRetract, To, marks, wire, rest
  <2>2. termSeq = 0
    BY <1>0, <2>1 DEF TermIsLast
  <2> QED BY <1>0, <1>k, <2>1, <2>2, EmitKeeps
<1>6. CASE Suggest /\ out' # out
  <2>1. /\ UNCHANGED <<stored, sub, termSeq, torn, cut, partial, buf, committed>> /\ NothingOut
        /\ point = "suggest" /\ point' = "end" /\ Emit("suggestions", <<>>)
    BY <1>6 DEF Suggest, To, answer, marks, wire, rest
  <2>2. point \notin Broken
    BY <2>1 DEF ErrorFlow, CancelFlow, Broken
  <2>3. \A v : Fits(v) => Fits(v)'
    BY <1>f, <2>1, <2>2
  <2> QED BY <1>0, <1>k, <2>1, <2>3, EmitKeeps
<1> QED BY <1>1, <1>2, <1>3, <1>4, <1>5, <1>6

LEMMA TerminalPublished ==
    ASSUME WireInv, StreamInv, DoneTerminal \/ ErrorTerminal \/ (CancelledTerminal /\ out' # out)
    PROVE  WireInv'
<1>0. seq \in Nat /\ termSeq \in Nat /\ <<>> \in Texts /\ Terminals \subseteq Kinds /\ {"done", "cancelled", "error"} \subseteq Terminals
  BY DEF WireInv, WireTypes, Texts, Terminals, Kinds
<1>1. PICK n : n = IF termSeq = 0 THEN seq + 1 ELSE termSeq
  OBVIOUS
<1>2. n \in Nat
  BY <1>0, <1>1
<1>3. CASE DoneTerminal
  <2>1. /\ UNCHANGED <<stored, sub, torn, cut, partial, buf, committed,
                point>> /\ NothingOut /\ point = "done"
        /\ termSeq' = n /\ seq' = (IF termSeq = 0 THEN seq + 1 ELSE seq)
        /\ Publish([Envelope(termSeq', "done", <<>>) EXCEPT !.pending = ~ask])
    BY <1>1, <1>3 DEF DoneTerminal, answer, marks, wire, rest
  <2>2. PICK b : b = ~ask
    OBVIOUS
  <2>3. b \in BOOLEAN
    BY <2>2
  <2>4. PICK e : e = [Envelope(n, "done", <<>>) EXCEPT !.pending = b]
    OBVIOUS
  <2>5. e \in Envelopes /\ e.seq = n /\ e.kind = "done"
    BY <1>0, <1>2, <2>3, <2>4, EnvelopeIs
  <2>6. Publish(e)
    BY <2>1, <2>2, <2>4
  <2>7. \A v : Fits(v) => Fits(v)'
    BY <2>1 DEF Fits
  <2> QED BY <1>0, <1>1, <2>1, <2>5, <2>6, <2>7, TerminalKeeps
<1>4. CASE CancelledTerminal /\ out' # out
  <2>1. /\ UNCHANGED <<stored, sub, torn, cut, partial, buf, committed,
                point>> /\ NothingOut /\ point = "cpub"
        /\ termSeq' = n /\ seq' = (IF termSeq = 0 THEN seq + 1 ELSE seq)
        /\ Publish(Envelope(termSeq', "cancelled", <<>>))
    BY <1>1, <1>4 DEF CancelledTerminal, answer, marks, wire, rest
  <2>4. PICK e : e = Envelope(n, "cancelled", <<>>)
    OBVIOUS
  <2>5. e \in Envelopes /\ e.seq = n /\ e.kind = "cancelled"
    BY <1>0, <1>2, <2>4, EnvelopeIs
  <2>6. Publish(e)
    BY <2>1, <2>4
  <2>7. \A v : Fits(v) => Fits(v)'
    BY <2>1 DEF Fits
  <2> QED BY <1>0, <1>1, <2>1, <2>5, <2>6, <2>7, TerminalKeeps
<1>5. CASE ErrorTerminal
  <2>1. /\ UNCHANGED <<stored, sub, torn, cut, partial, buf, committed, termSeq>> /\ NothingOut
        /\ point = "epub" /\ point' = "end" /\ seq' = (IF termSeq = 0 THEN seq + 1 ELSE seq)
        /\ Publish(Envelope(n, "error", <<>>))
    BY <1>1, <1>5 DEF ErrorTerminal, To, answer, marks, wire, rest
  <2>4. PICK e : e = Envelope(n, "error", <<>>)
    OBVIOUS
  <2>5. e \in Envelopes /\ e.seq = n /\ e.kind = "error"
    BY <1>0, <1>2, <2>4, EnvelopeIs
  <2>6. Publish(e)
    BY <2>1, <2>4
  <2>7. \A v : Fits(v) => Fits(v)'
    BY <2>1 DEF Fits, Broken, ErrorFlow
  <2> QED BY <1>0, <1>1, <2>1, <2>5, <2>6, <2>7, TerminalKeeps
<1> QED BY <1>3, <1>4, <1>5

LEMMA WireStep ==
    ASSUME WireInv, AnswerInv, StreamInv, [StreamNext]_streamVars
    PROVE  WireInv'
<1>0. TermIsLast /\ TextKept
  BY DEF WireInv, AnswerInv
<1>1. WireQuiet => WireInv'
  BY QuietKeeps DEF WireQuiet
<1>2. CASE UNCHANGED streamVars
  <2>1. WireQuiet
    BY <1>0, <1>2 DEF streamVars, producer, WireQuiet, TermIsLast
  <2> QED BY <1>1, <2>1
<1>3. CASE \/ Begin \/ Chunk \/ ToolTurn \/ Retry \/ EndTurn \/ Continue \/ Final \/ Rewrite \/ Commit \/ CommitFails
  BY <1>0, <1>1, <1>3, QuietMaking
<1>4. CASE \/ DoneSettled \/ Salvage \/ SavePartial \/ RequestStop
           \/ (Retract \/ ErrorRetract \/ CancelledTerminal \/ Suggest) /\ UNCHANGED out
  BY <1>0, <1>1, <1>4, QuietSettling
<1>5. CASE Push
  BY <1>5, PushKeeps
<1>6. CASE Send
  BY <1>6, SendKeeps
<1>7. CASE \E c \in Clients : Join(c) \/ Replay(c) \/ Leave(c)
  <2>1. PICK c \in Clients : Join(c) \/ Replay(c) \/ Leave(c)
    BY <1>7
  <2> QED BY <2>1, JoinKeeps, ReplayKeeps
<1>8. CASE Stop \/ Abort \/ TerminalTimeout \/ SettlementFails \/ ProducerDies
  BY <1>8, CutSteps
<1>9. CASE \/ Start \/ FlushText \/ Tools \/ Persist \/ AskUser
           \/ (Retract \/ ErrorRetract \/ Suggest) /\ out' # out
  BY <1>9, EmitSteps
<1>10. CASE DoneTerminal \/ ErrorTerminal \/ (CancelledTerminal /\ out' # out)
  BY <1>10, TerminalPublished
<1>11. StreamNext => \/ Begin \/ ProducerStep \/ RequestStop \/ Stop
                     \/ Abort \/ TerminalTimeout \/ SettlementFails \/ CommitFails \/ ProducerDies
                     \/ \E c \in Clients : Join(c) \/ Replay(c) \/ Leave(c)
  BY DEF StreamNext
<1> QED BY <1>2, <1>3, <1>4, <1>5, <1>6, <1>7, <1>8, <1>9, <1>10, <1>11 DEF ProducerStep

\* Text that is joined.
LEMMA TextJoins ==
    ASSUME NEW p \in Texts, NEW b \in Texts
    PROVE  /\ p \o <<>> = p /\ <<>> \o p = p /\ p \o b \in Texts /\ <<>> \in Texts
           /\ \A n \in 1..MaxChunks + 2 : /\ Append(b, n) \in Texts /\ <<n>> \in Texts
                                          /\ p \o Append(b, n) = Append(p \o b, n)
<1>0. p \in Seq(1..MaxChunks + 2) /\ b \in Seq(1..MaxChunks + 2)
  BY DEF Texts
<1>1. p \o <<>> = p /\ <<>> \o p = p /\ p \o b \in Texts /\ <<>> \in Texts
  BY <1>0 DEF Texts
<1>2. ASSUME NEW n \in 1..MaxChunks + 2
      PROVE  Append(b, n) \in Texts /\ <<n>> \in Texts /\ p \o Append(b, n) = Append(p \o b, n)
  BY <1>0, <1>2 DEF Texts
<1> QED BY <1>1, <1>2

\* A step adds one piece of text at most, and only where there is room for it.
LEMMA ChunksTyped ==
    ASSUME AnswerTypes, NothingOut,
           \/ point = "turn" /\ chunks < MaxChunks
           \/ point = "length" \/ point = "final"
    PROVE  chunks + 1 \in 1..MaxChunks + 2
BY StreamAssumption DEF AnswerTypes, WithinBounds, Early

\* The types of an answer's state, but for its bounds.
PlainTypes ==
    /\ point \in Points /\ after \in {"none", "tools", "turn", "rewrite", "epub"}
    /\ buf \in Texts /\ text \in Texts /\ partial \in Texts /\ reply \in Messages
    /\ onWire \in BOOLEAN /\ committed \in BOOLEAN /\ sent \in BOOLEAN
    /\ stopped \in BOOLEAN /\ ask \in BOOLEAN /\ armed \in BOOLEAN
    /\ spent \in Nat /\ recorded \in Nat /\ tries \in 0..2
    /\ doubt \in BOOLEAN /\ torn \in BOOLEAN /\ cut \in BOOLEAN /\ flag \in BOOLEAN
    /\ chunks \in Nat /\ turns \in 0..MaxTurns /\ joins \in 0..MaxJoins /\ faults \in 0..MaxFaults

LEMMA AnswerTyped ==
    ASSUME AnswerTypes, UsageAccounted, StreamNext
    PROVE  PlainTypes'
<1>0. <<>> \in Texts /\ MaxChunks \in Nat /\ MaxTurns \in Nat /\ MaxFaults \in Nat /\ MaxJoins \in Nat
  BY StreamAssumption DEF Texts
<1>t. PlainTypes
  BY DEF AnswerTypes, PlainTypes
<1>1. CASE Begin
  BY <1>0, <1>t, <1>1
      DEF Begin, To, Points, Stoppable, answer, usage, terminal, marks, wire, counts, rest, PlainTypes
<1>2. CASE Start
  BY <1>0, <1>t, <1>2
      DEF Start, To, Points, Stoppable, answer, usage, terminal, marks, wire, counts, rest, PlainTypes
<1>3. CASE Chunk
  <2>1. chunks + 1 \in 1..MaxChunks + 2 /\ chunks + 1 \in Nat
    BY <1>0, <1>t, <1>3, ChunksTyped DEF Chunk, PlainTypes
  <2>2. Append(buf, chunks + 1) \in Texts /\ Append(text, chunks + 1) \in Texts /\ <<chunks + 1>> \in Texts
    BY <1>t, <2>1, TextJoins DEF PlainTypes
  <2> QED BY <1>0, <1>t, <1>3, <2>1, <2>2
      DEF Chunk, answer, usage, terminal, marks, wire, counts, rest, PlainTypes
<1>4. CASE FlushText
  <2>1. partial \o buf \in Texts
    BY <1>t, TextJoins DEF PlainTypes
  <2> QED BY <1>0, <1>t, <1>4, <2>1
      DEF FlushText, answer, usage, terminal, marks, wire, counts, rest, PlainTypes
<1>5. CASE Retract
  <2>1. UNCHANGED <<text, committed, sent, stopped, ask, reply, spent, recorded, armed, tries, doubt,
                torn, cut, chunks, turns, joins, faults, flag>>
    BY <1>5 DEF Retract, usage, marks, wire, counts, rest
  <2>2. after' = "none" /\ buf' = <<>> /\ partial' = <<>> /\ onWire' = FALSE
    BY <1>5 DEF Retract
  <2>3. point' \in Points
    BY <1>5 DEF Retract, To, Points, Stoppable, UsageAccounted
  <2> QED BY <1>0, <1>t, <2>1, <2>2, <2>3 DEF PlainTypes
<1>6. CASE ToolTurn
  BY <1>0, <1>t, <1>6
      DEF ToolTurn, To, Points, Stoppable, answer, usage, terminal, marks, wire, counts, rest, PlainTypes
<1>7. CASE Tools
  <2>u. UNCHANGED <<after, buf, partial, onWire, committed, sent, stopped, reply, spent, recorded,
                armed, tries, doubt, torn, cut, chunks, turns, joins, faults, flag>>
    BY <1>7 DEF Tools, To, answer, usage, terminal, marks, wire, counts, rest
  <2>1. point' \in Points
    <3>1. point' \in {"turn", "persist"}
      BY <1>7 DEF Tools, To, answer, usage, terminal, marks, wire, counts, rest
    <3> QED BY <1>0, <1>t, <3>1 DEF PlainTypes, Points, Stoppable
  <2>2. text' \in Texts
    <3>1. text' = <<>>
      BY <1>7 DEF Tools, To, answer, usage, terminal, marks, wire, counts, rest
    <3> QED BY <1>0, <1>t, <3>1 DEF PlainTypes, Points, Stoppable
  <2>3. ask' \in BOOLEAN
    <3>1. (ask' = ask) \/ (ask' = TRUE)
      BY <1>7 DEF Tools, To, answer, usage, terminal, marks, wire, counts, rest
    <3> QED BY <1>0, <1>t, <3>1 DEF PlainTypes, Points, Stoppable
  <2> QED BY <1>t, <2>u, <2>1, <2>2, <2>3 DEF PlainTypes
<1>8. CASE Retry
  BY <1>0, <1>t, <1>8
      DEF Retry, To, Points, Stoppable, answer, usage, terminal, marks, wire, counts, rest, PlainTypes
<1>9. CASE EndTurn
  BY <1>0, <1>t, <1>9
      DEF EndTurn, To, Points, Stoppable, answer, usage, terminal, marks, wire, counts, rest, PlainTypes
<1>10. CASE Continue
  <2>1. chunks + 1 \in 1..MaxChunks + 2 /\ chunks + 1 \in Nat
    BY <1>0, <1>t, <1>10, ChunksTyped DEF Continue, PlainTypes
  <2>2. Append(buf, chunks + 1) \in Texts /\ Append(text, chunks + 1) \in Texts /\ <<chunks + 1>> \in Texts
    BY <1>t, <2>1, TextJoins DEF PlainTypes
  <2>3. /\ UNCHANGED <<after, partial, onWire, committed, sent, stopped, ask, reply, recorded, armed,
                tries, doubt, torn, cut, turns, joins, faults, flag>> /\ point' = "final"
    BY <1>10 DEF Continue, To, answer, usage, terminal, marks, wire, counts, rest
  <2>4. \/ chunks' = chunks + 1 /\ spent' = spent + 1 /\ buf' = Append(buf, chunks + 1) /\ text' = Append(text, chunks + 1)
        \/ UNCHANGED <<chunks, spent, buf, text>>
    BY <1>10 DEF Continue
  <2>5. buf' \in Texts /\ text' \in Texts
    BY <1>t, <2>2, <2>4 DEF PlainTypes
  <2>6. chunks' \in Nat /\ spent' \in Nat
    BY <1>t, <2>1, <2>4 DEF PlainTypes
  <2>7. point' \in Points
    BY <2>3 DEF Points, Stoppable
  <2> QED BY <1>t, <2>3, <2>5, <2>6, <2>7 DEF PlainTypes
<1>11. CASE Final
  <2>1. chunks + 1 \in 1..MaxChunks + 2 /\ chunks + 1 \in Nat
    BY <1>0, <1>t, <1>11, ChunksTyped DEF Final, PlainTypes
  <2>2. Append(buf, chunks + 1) \in Texts /\ Append(text, chunks + 1) \in Texts /\ <<chunks + 1>> \in Texts
    BY <1>t, <2>1, TextJoins DEF PlainTypes
  <2> QED BY <1>0, <1>t, <1>11, <2>1, <2>2
      DEF Final, To, Points, Stoppable, answer, usage, terminal, marks, wire, counts, rest, PlainTypes
<1>12. CASE Rewrite
  BY <1>0, <1>t, <1>12
      DEF Rewrite, To, Points, Stoppable, answer, usage, terminal, marks, wire, counts, rest, PlainTypes
<1>13. CASE Persist
  BY <1>0, <1>t, <1>13
      DEF Persist, To, Points, Stoppable, answer, usage, terminal, marks, wire, counts, rest, PlainTypes
<1>14. CASE Commit
  <2>u. UNCHANGED <<after, buf, text, partial, onWire, sent, stopped, ask, spent, tries, doubt, torn,
                cut, chunks, turns, joins, faults, flag>>
    BY <1>14 DEF Commit, To, answer, usage, terminal, marks, wire, counts, rest
  <2>1. point' \in Points
    <3>1. point' \in {"asked", "done"}
      BY <1>14 DEF Commit, To, answer, usage, terminal, marks, wire, counts, rest
    <3> QED BY <1>0, <1>t, <3>1 DEF PlainTypes, Points, Messages
  <2>2. reply' \in Messages
    <3>1. reply' = [finish |-> "stop", content |-> text]
      BY <1>14 DEF Commit, To, answer, usage, terminal, marks, wire, counts, rest
    <3> QED BY <1>0, <1>t, <3>1 DEF PlainTypes, Points, Messages
  <2>3. recorded' \in Nat
    <3>1. recorded' = recorded + spent
      BY <1>14 DEF Commit, To, answer, usage, terminal, marks, wire, counts, rest
    <3> QED BY <1>0, <1>t, <3>1 DEF PlainTypes, Points, Messages
  <2>4. armed' \in BOOLEAN
    <3>1. armed' = FALSE
      BY <1>14 DEF Commit, To, answer, usage, terminal, marks, wire, counts, rest
    <3> QED BY <1>0, <1>t, <3>1 DEF PlainTypes, Points, Messages
  <2>5. committed' \in BOOLEAN
    <3>1. committed' = TRUE
      BY <1>14 DEF Commit, To, answer, usage, terminal, marks, wire, counts, rest
    <3> QED BY <1>0, <1>t, <3>1 DEF PlainTypes, Points, Messages
  <2> QED BY <1>t, <2>u, <2>1, <2>2, <2>3, <2>4, <2>5 DEF PlainTypes
<1>15. CASE CommitFails
  BY <1>0, <1>t, <1>15
      DEF CommitFails, Raised, Fault, Points, CancelFlow, ErrorFlow, Messages, answer, usage, terminal, marks, wire, counts, rest, PlainTypes
<1>16. CASE AskUser
  BY <1>0, <1>t, <1>16
      DEF AskUser, To, Points, answer, usage, terminal, marks, wire, counts, rest, PlainTypes
<1>17. CASE DoneTerminal
  BY <1>0, <1>t, <1>17 DEF DoneTerminal, answer, usage, terminal, marks, wire, counts, rest, PlainTypes
<1>18. CASE DoneSettled
  <2>u. UNCHANGED <<after, buf, text, partial, onWire, committed, stopped, ask, reply, spent,
                recorded, armed, tries, doubt, torn, cut, chunks, turns, joins, faults, flag>>
    BY <1>18 DEF DoneSettled, To, answer, usage, terminal, marks, wire, counts, rest
  <2>1. point' \in Points
    <3>1. point' \in {"end", "suggest"}
      BY <1>18 DEF DoneSettled, To, answer, usage, terminal, marks, wire, counts, rest
    <3> QED BY <1>0, <1>t, <3>1 DEF PlainTypes, Points
  <2>2. sent' \in BOOLEAN
    <3>1. (sent' = TRUE) \/ (sent' = FALSE)
      BY <1>18 DEF DoneSettled, To, answer, usage, terminal, marks, wire, counts, rest
    <3> QED BY <1>0, <1>t, <3>1 DEF PlainTypes, Points
  <2> QED BY <1>t, <2>u, <2>1, <2>2 DEF PlainTypes
<1>19. CASE Suggest
  BY <1>0, <1>t, <1>19
      DEF Suggest, To, Points, answer, usage, terminal, marks, wire, counts, rest, PlainTypes
<1>20. CASE Salvage
  <2>l. PICK lost \in BOOLEAN : (IF lost THEN Fault ELSE UNCHANGED faults) /\ Salvaged(lost)
    BY <1>20 DEF Salvage
  <2>u. UNCHANGED <<after, buf, text, partial, onWire, committed, sent, stopped, ask, reply, spent,
                tries, torn, cut, chunks, turns, joins, flag>>
    BY <1>20 DEF Salvage, To, answer, usage, terminal, marks, wire, counts, rest
  <2>1. point' \in Points
    <3>1. point' \in {"cflush", "eretract"}
      BY <1>20, <2>l DEF Salvage, Salvaged, Fault, To, answer, usage, terminal, marks, wire, counts, rest
    <3> QED BY <1>0, <1>t, <3>1, <2>l DEF PlainTypes, Points, CancelFlow, ErrorFlow
  <2>2. recorded' \in Nat
    <3>1. (recorded' = recorded) \/ (recorded' = recorded + spent)
      BY <1>20, <2>l DEF Salvage, Salvaged, Fault, To, answer, usage, terminal, marks, wire, counts, rest
    <3> QED BY <1>0, <1>t, <3>1, <2>l DEF PlainTypes, Points, CancelFlow, ErrorFlow
  <2>3. armed' \in BOOLEAN
    <3>1. armed' = FALSE
      BY <1>20, <2>l DEF Salvage, Salvaged, Fault, To, answer, usage, terminal, marks, wire, counts, rest
    <3> QED BY <1>0, <1>t, <3>1, <2>l DEF PlainTypes, Points, CancelFlow, ErrorFlow
  <2>4. doubt' \in BOOLEAN
    <3>1. doubt' = (doubt \/ lost)
      BY <1>20, <2>l DEF Salvage, Salvaged, Fault, To, answer, usage, terminal, marks, wire, counts, rest
    <3> QED BY <1>0, <1>t, <3>1, <2>l DEF PlainTypes, Points, CancelFlow, ErrorFlow
  <2>5. faults' \in 0..MaxFaults
    <3>1. (faults' = faults) \/ (faults < MaxFaults /\ faults' = faults + 1)
      BY <1>20, <2>l DEF Salvage, Salvaged, Fault, To, answer, usage, terminal, marks, wire, counts, rest
    <3> QED BY <1>0, <1>t, <3>1, <2>l DEF PlainTypes, Points, CancelFlow, ErrorFlow
  <2> QED BY <1>t, <2>u, <2>1, <2>2, <2>3, <2>4, <2>5 DEF PlainTypes
<1>21. CASE RequestStop
  BY <1>0, <1>t, <1>21 DEF RequestStop, producer, PlainTypes
<1>22. CASE Push
  BY <1>0, <1>t, <1>22 DEF Push, producer, PlainTypes
<1>23. CASE Send
  BY <1>0, <1>t, <1>23 DEF Send, producer, PlainTypes
<1>24. CASE Stop
  BY <1>0, <1>t, <1>24
      DEF Stop, Interrupted, To, Points, CancelFlow, answer, usage, terminal, marks, wire, counts, rest, PlainTypes
<1>25. CASE SavePartial
  BY <1>0, <1>t, <1>25
      DEF SavePartial, Fault, To, Points, CancelFlow, ErrorFlow, Messages, answer, usage, terminal, marks, wire, counts, rest, PlainTypes
<1>26. CASE CancelledTerminal
  <2>u. UNCHANGED <<after, buf, text, partial, onWire, committed, stopped, ask, reply, spent,
                recorded, armed, doubt, torn, cut, chunks, turns, joins, faults, flag>>
    BY <1>26 DEF CancelledTerminal, To, answer, usage, terminal, marks, wire, counts, rest
  <2>1. point' \in Points
    <3>1. (point' = point) \/ (point' = "end")
      BY <1>26 DEF CancelledTerminal, To, answer, usage, terminal, marks, wire, counts, rest
    <3> QED BY <1>0, <1>t, <3>1 DEF PlainTypes, Points
  <2>2. tries' \in 0..2
    <3>1. (tries' = tries) \/ (tries < 2 /\ tries' = tries + 1)
      BY <1>26 DEF CancelledTerminal, To, answer, usage, terminal, marks, wire, counts, rest
    <3> QED BY <1>0, <1>t, <3>1 DEF PlainTypes, Points
  <2>3. sent' \in BOOLEAN
    <3>1. (sent' = sent) \/ (sent' = TRUE) \/ (sent' = FALSE)
      BY <1>26 DEF CancelledTerminal, To, answer, usage, terminal, marks, wire, counts, rest
    <3> QED BY <1>0, <1>t, <3>1 DEF PlainTypes, Points
  <2> QED BY <1>t, <2>u, <2>1, <2>2, <2>3 DEF PlainTypes
<1>27. CASE ErrorTerminal
  BY <1>0, <1>t, <1>27
      DEF ErrorTerminal, To, Points, answer, usage, terminal, marks, wire, counts, rest, PlainTypes
<1>28. CASE ErrorRetract
  <2>u. UNCHANGED <<after, text, committed, sent, stopped, ask, reply, spent, recorded, armed, tries,
                doubt, torn, cut, chunks, turns, joins, faults, flag>>
    BY <1>28 DEF ErrorRetract, To, answer, usage, terminal, marks, wire, counts, rest
  <2>1. point' \in Points
    <3>1. point' \in {"end", "epub"}
      BY <1>28 DEF ErrorRetract, To, answer, usage, terminal, marks, wire, counts, rest
    <3> QED BY <1>0, <1>t, <3>1 DEF PlainTypes, Points, ErrorFlow
  <2>2. buf' \in Texts
    <3>1. (buf' = buf) \/ (buf' = <<>>)
      BY <1>28 DEF ErrorRetract, To, answer, usage, terminal, marks, wire, counts, rest
    <3> QED BY <1>0, <1>t, <3>1 DEF PlainTypes, Points, ErrorFlow
  <2>3. partial' \in Texts
    <3>1. (partial' = partial) \/ (partial' = <<>>)
      BY <1>28 DEF ErrorRetract, To, answer, usage, terminal, marks, wire, counts, rest
    <3> QED BY <1>0, <1>t, <3>1 DEF PlainTypes, Points, ErrorFlow
  <2>4. onWire' \in BOOLEAN
    <3>1. (onWire' = onWire) \/ (onWire' = FALSE)
      BY <1>28 DEF ErrorRetract, To, answer, usage, terminal, marks, wire, counts, rest
    <3> QED BY <1>0, <1>t, <3>1 DEF PlainTypes, Points, ErrorFlow
  <2> QED BY <1>t, <2>u, <2>1, <2>2, <2>3, <2>4 DEF PlainTypes
<1>29. CASE Abort
  BY <1>0, <1>t, <1>29
      DEF Abort, Raised, Fault, Interrupted, Points, CancelFlow, ErrorFlow, answer, usage, terminal, marks, wire, counts, rest, PlainTypes
<1>30. CASE TerminalTimeout
  BY <1>0, <1>t, <1>30
      DEF TerminalTimeout, Fault, Interrupted, answer, usage, terminal, marks, wire, counts, rest, PlainTypes
<1>31. CASE SettlementFails
  BY <1>0, <1>t, <1>31
      DEF SettlementFails, Fault, Interrupted, To, Points, answer, usage, terminal, marks, wire, counts, rest, PlainTypes
<1>32. CASE ProducerDies
  BY <1>0, <1>t, <1>32
      DEF ProducerDies, Fault, Interrupted, To, Points, answer, usage, terminal, marks, wire, counts, rest, PlainTypes
<1>33. CASE \E c \in Clients : Join(c) \/ Replay(c) \/ Leave(c)
  BY <1>0, <1>t, <1>33 DEF Join, Replay, Leave, producer, PlainTypes
<1> QED BY <1>1, <1>2, <1>3, <1>4, <1>5, <1>6, <1>7, <1>8, <1>9, <1>10, <1>11, <1>12, <1>13, <1>14,
    <1>15, <1>16, <1>17, <1>18, <1>19, <1>20, <1>21, <1>22, <1>23, <1>24, <1>25, <1>26, <1>27, <1>28, <1>29, <1>30, <1>31, <1>32, <1>33 DEF StreamNext, ProducerStep

LEMMA BoundsStep ==
    ASSUME AnswerTypes, UsageAccounted, StreamNext
    PROVE  WithinBounds'
<1>0. /\ chunks \in Nat /\ spent \in Nat /\ turns \in Nat /\ MaxChunks \in Nat
      /\ chunks <= MaxChunks + (IF Early \/ point = "length" THEN 0 ELSE IF point = "final" THEN 1 ELSE 2)
      /\ spent <= turns + (IF Early THEN 0 ELSE IF point = "length" THEN 1 ELSE 2)
  BY StreamAssumption DEF AnswerTypes, WithinBounds
<1>1. CASE \/ FlushText \/ DoneTerminal \/ TerminalTimeout \/ RequestStop \/ Push \/ Send
           \/ (\E c \in Clients : Join(c) \/ Replay(c) \/ Leave(c))
  <2>1. UNCHANGED <<point, after, chunks, spent, turns>>
    <3>1. CASE FlushText \/ DoneTerminal \/ TerminalTimeout
      BY <3>1 DEF FlushText, DoneTerminal, TerminalTimeout, usage, counts
    <3>2. CASE \/ RequestStop \/ Push \/ Send \/ (\E c \in Clients : Join(c) \/ Replay(c) \/ Leave(c))
      BY <3>2 DEF RequestStop, Push, Send, Join, Replay, Leave, producer
    <3> QED BY <1>1, <3>1, <3>2
  <2> QED BY <1>0, <2>1 DEF WithinBounds, Early
<1>2. CASE Begin \/ Start \/ Retract \/ Tools
  <2>1. UNCHANGED <<chunks, spent, turns>>
    BY <1>2 DEF Begin, Start, Retract, Tools, usage, counts
  <2>2. (Early' => Early) /\ point' # "length" /\ point' # "final"
    <3>1. CASE Begin
      BY <3>1 DEF Begin, To, Early
    <3>2. CASE Start
      BY <3>2 DEF Start, To, Early
    <3>3. CASE Retract
      <4>1. point = "retract" /\ point' = after /\ after \in {"tools", "turn", "rewrite"}
        BY <3>3 DEF Retract, To, UsageAccounted
      <4> QED BY <4>1 DEF Early
    <3>4. CASE Tools
      BY <3>4 DEF Tools, To, Early
    <3> QED BY <1>2, <3>1, <3>2, <3>3, <3>4
  <2> QED BY <1>0, <2>1, <2>2 DEF WithinBounds
<1>3. CASE \/ Rewrite \/ Persist \/ Commit \/ CommitFails \/ AskUser \/ DoneSettled \/ Suggest \/ Salvage
           \/ Stop \/ SavePartial \/ CancelledTerminal \/ ErrorTerminal \/ ErrorRetract \/ Abort
           \/ SettlementFails \/ ProducerDies
  <2>1. UNCHANGED <<chunks, spent, turns>>
    <3>1. CASE Rewrite \/ Persist \/ Commit \/ CommitFails
      BY <3>1 DEF Rewrite, Persist, Commit, CommitFails, usage, counts
    <3>2. CASE AskUser \/ DoneSettled \/ Suggest \/ Salvage \/ SavePartial
      BY <3>2 DEF AskUser, DoneSettled, Suggest, Salvage, SavePartial, usage, counts
    <3>3. CASE CancelledTerminal \/ ErrorTerminal \/ ErrorRetract
      BY <3>3 DEF CancelledTerminal, ErrorTerminal, ErrorRetract, usage, counts
    <3>4. CASE Stop \/ Abort \/ SettlementFails \/ ProducerDies
      BY <3>4 DEF Stop, Abort, SettlementFails, ProducerDies, usage, counts
    <3> QED BY <1>3, <3>1, <3>2, <3>3, <3>4
  <2>2. point' \in {"persist", "commit", "asked", "done", "suggest", "csalvage", "esalvage", "cflush", "eretract", "cpub", "epub", "end"}
    <3>1. CASE Rewrite \/ Persist \/ Commit \/ CommitFails
      BY <3>1 DEF Rewrite, Persist, Commit, CommitFails, To, Raised
    <3>2. CASE AskUser \/ DoneSettled \/ Suggest \/ Salvage \/ SavePartial
      BY <3>2 DEF AskUser, DoneSettled, Suggest, Salvage, SavePartial, To
    <3>3. CASE CancelledTerminal \/ ErrorTerminal \/ ErrorRetract
      BY <3>3 DEF CancelledTerminal, ErrorTerminal, ErrorRetract, To
    <3>4. CASE Stop \/ Abort \/ SettlementFails \/ ProducerDies
      BY <3>4 DEF Stop, Abort, SettlementFails, ProducerDies, To, Raised
    <3> QED BY <1>3, <3>1, <3>2, <3>3, <3>4
  <2>3. ~Early' /\ point' # "length" /\ point' # "final"
    BY <2>2 DEF Early
  <2>4. chunks <= MaxChunks + 2 /\ spent <= turns + 2
    BY <1>0
  <2> QED BY <2>1, <2>3, <2>4 DEF WithinBounds
<1>4. CASE Chunk
  <2>1. point = "turn" /\ chunks' = chunks + 1 /\ chunks < MaxChunks /\ UNCHANGED <<point, after,
                spent, turns>>
    BY <1>4 DEF Chunk, usage
  <2>2. Early /\ Early'
    BY <2>1 DEF Early
  <2>3. chunks' <= MaxChunks + 0
    BY <1>0, <2>1
  <2> QED BY <1>0, <2>1, <2>2, <2>3 DEF WithinBounds
<1>5. CASE ToolTurn
  <2>1. point = "turn" /\ point' = "retract" /\ after' = "tools" /\ spent' = spent + 1 /\ turns' = turns + 1 /\ UNCHANGED chunks
    BY <1>5 DEF ToolTurn, To
  <2>2. Early /\ Early'
    BY <2>1 DEF Early
  <2>3. spent' <= turns' + 0
    BY <1>0, <2>1, <2>2
  <2> QED BY <1>0, <2>1, <2>2, <2>3 DEF WithinBounds
<1>6. CASE Retry
  <2>1. point = "turn" /\ point' = "retract" /\ after' = "turn" /\ turns' = turns + 1 /\ UNCHANGED <<chunks, spent>>
    BY <1>6 DEF Retry, To, usage
  <2>2. Early /\ Early'
    BY <2>1 DEF Early
  <2>3. spent' <= turns' + 0
    BY <1>0, <2>1, <2>2
  <2> QED BY <1>0, <2>1, <2>2, <2>3 DEF WithinBounds
<1>7. CASE EndTurn
  <2>1. point = "turn" /\ point' \in {"final", "length"} /\ spent' = spent + 1 /\ UNCHANGED <<chunks,
                turns>>
    BY <1>7 DEF EndTurn, To, counts
  <2>2. Early /\ ~Early'
    BY <2>1 DEF Early
  <2>3. chunks' <= MaxChunks + 0 /\ chunks' <= MaxChunks + 1 /\ spent' <= turns' + 1 /\ spent' <= turns' + 2
    BY <1>0, <2>1, <2>2
  <2> QED BY <2>1, <2>2, <2>3 DEF WithinBounds
<1>8. CASE Continue
  <2>1. /\ point = "length" /\ point' = "final" /\ UNCHANGED turns
        /\ (chunks' = chunks + 1 /\ spent' = spent + 1) \/ (UNCHANGED <<chunks, spent>>)
    BY <1>8 DEF Continue, To
  <2>2. ~Early /\ ~Early'
    BY <2>1 DEF Early
  <2>3. chunks <= MaxChunks + 0 /\ spent <= turns + 1
    BY <1>0, <2>1, <2>2
  <2>4. chunks' <= MaxChunks + 1 /\ spent' <= turns' + 2
    BY <1>0, <2>1, <2>3
  <2> QED BY <2>1, <2>2, <2>4 DEF WithinBounds
<1>9. CASE Final
  <2>1. /\ point = "final" /\ UNCHANGED <<turns, spent>>
        /\ (point' = "persist" /\ UNCHANGED chunks) \/ (point' = "retract" /\ after' = "rewrite" /\ chunks' = chunks + 1)
    BY <1>9 DEF Final, To, usage
  <2>2. ~Early /\ ~Early' /\ point' # "length" /\ point' # "final"
    BY <2>1 DEF Early
  <2>3. chunks <= MaxChunks + 1 /\ spent <= turns + 2
    BY <1>0, <2>1, <2>2
  <2>4. chunks' <= MaxChunks + 2 /\ spent' <= turns' + 2
    BY <1>0, <2>1, <2>3
  <2> QED BY <2>2, <2>4 DEF WithinBounds
<1> QED BY <1>1, <1>2, <1>3, <1>4, <1>5, <1>6, <1>7, <1>8, <1>9 DEF StreamNext, ProducerStep

LEMMA AnswerTypesKept ==
    ASSUME AnswerTypes, UsageAccounted, [StreamNext]_streamVars
    PROVE  AnswerTypes'
<1>1. CASE StreamNext
  BY <1>1, AnswerTyped, BoundsStep DEF AnswerTypes, PlainTypes
<1>2. CASE UNCHANGED streamVars
  BY <1>2 DEF streamVars, producer, AnswerTypes, WithinBounds, Early
<1> QED BY <1>1, <1>2

\* What a step can do to the envelope on its way.
OutStays == UNCHANGED <<stored, out>> /\ (NothingOut \/ UNCHANGED <<buf, committed>>)
OutEnds == stored' = stored /\ out' = Idle
OutEmits == /\ stored' = stored /\ NothingOut /\ committed' = committed
            /\ \E k, t : /\ Emit(k, t) /\ k \notin Terminals
                         /\ k \in {"delta", "retract"} => ~committed /\ buf' = <<>>
OutTerminal == /\ stored' = stored /\ NothingOut
               /\ \E e : Publish(e) /\ e.kind \in Terminals /\ (e.kind = "error" => ErrorTerminal)

LEMMA OutStep ==
    ASSUME StreamInv, StreamNext
    PROVE  OutStays \/ OutEnds \/ Push \/ OutEmits \/ OutTerminal
<1>0. TerminalEarned
  BY DEF StreamInv
<1>1. CASE Begin \/ Chunk \/ ToolTurn \/ Retry \/ EndTurn
  <2>1. CASE Begin
    BY <2>1 DEF Begin, OutStays, answer, marks, rest
  <2> QED BY <1>1, <2>1 DEF Chunk, ToolTurn, Retry, EndTurn, OutStays, rest
<1>2. CASE Continue \/ Final \/ Rewrite \/ Commit \/ CommitFails
  BY <1>2 DEF Continue, Final, Rewrite, Commit, CommitFails, OutStays, rest
<1>3. CASE DoneSettled \/ Salvage \/ SavePartial
  BY <1>3 DEF DoneSettled, Salvage, SavePartial, OutStays, rest
<1>4. CASE RequestStop \/ \E c \in Clients : Join(c) \/ Replay(c) \/ Leave(c)
  BY <1>4 DEF RequestStop, Join, Replay, Leave, producer, OutStays
<1>5. CASE Send
  BY <1>5 DEF Send, OutEnds
<1>6. CASE Stop \/ Abort \/ TerminalTimeout \/ SettlementFails \/ ProducerDies
  BY <1>6 DEF Stop, Abort, TerminalTimeout, SettlementFails, ProducerDies, Interrupted, rest, OutEnds
<1>k. "start" \notin Terminals /\ "delta" \notin Terminals /\ "retract" \notin Terminals /\ "event" \notin Terminals /\ "suggestions" \notin Terminals
  BY DEF Terminals
<1>7. CASE Start
  <2>1. Emit("start", <<>>) /\ stored' = stored /\ NothingOut /\ committed' = committed
    BY <1>7 DEF Start, marks, rest
  <2> QED BY <1>k, <2>1 DEF OutEmits
<1>8. CASE FlushText
  <2>1. Emit("delta", buf) /\ stored' = stored /\ NothingOut /\ committed' = committed /\ buf' = <<>> /\ point \in {"turn", "persist", "cflush"}
    BY <1>8 DEF FlushText, marks, rest
  <2>2. ~committed
    BY <1>0, <2>1 DEF TerminalEarned, Concluding
  <2> QED BY <1>k, <2>1, <2>2 DEF OutEmits
<1>9. CASE Retract
  <2>1. /\ stored' = stored /\ NothingOut /\ committed' = committed /\ buf' = <<>> /\ point = "retract"
        /\ Emit("retract", <<>>) \/ (UNCHANGED out)
    BY <1>9 DEF Retract, marks, rest
  <2>2. ~committed
    BY <1>0, <2>1 DEF TerminalEarned, Concluding
  <2>3. CASE Emit("retract", <<>>)
    BY <1>k, <2>1, <2>2, <2>3 DEF OutEmits
  <2>4. CASE UNCHANGED out
    BY <2>1, <2>4 DEF OutStays
  <2> QED BY <2>1, <2>3, <2>4
<1>10. CASE ErrorRetract
  <2>1. /\ stored' = stored /\ NothingOut /\ committed' = committed
        /\ (Emit("retract", <<>>) /\ ~committed /\ buf' = <<>>) \/ (UNCHANGED out)
    BY <1>10 DEF ErrorRetract, marks, rest
  <2>3. CASE Emit("retract", <<>>) /\ ~committed /\ buf' = <<>>
    BY <1>k, <2>1, <2>3 DEF OutEmits
  <2>4. CASE UNCHANGED out
    BY <2>1, <2>4 DEF OutStays
  <2> QED BY <2>1, <2>3, <2>4
<1>11. CASE Tools \/ Persist \/ AskUser
  <2>1. Emit("event", <<>>) /\ stored' = stored /\ NothingOut /\ committed' = committed
    BY <1>11 DEF Tools, Persist, AskUser, marks, rest
  <2> QED BY <1>k, <2>1 DEF OutEmits
<1>12. CASE Suggest
  <2>1. stored' = stored /\ NothingOut /\ committed' = committed /\ (Emit("suggestions", <<>>) \/ UNCHANGED out)
    BY <1>12 DEF Suggest, marks, rest
  <2>3. CASE Emit("suggestions", <<>>)
    BY <1>k, <2>1, <2>3 DEF OutEmits
  <2>4. CASE UNCHANGED out
    BY <2>1, <2>4 DEF OutStays
  <2> QED BY <2>1, <2>3, <2>4
<1>13. CASE DoneTerminal
  <2>1. PICK n, b : stored' = stored /\ NothingOut /\ Publish([Envelope(n, "done", <<>>) EXCEPT !.pending = b])
    BY <1>13 DEF DoneTerminal, rest
  <2>2. [Envelope(n, "done", <<>>) EXCEPT !.pending = b].kind = "done" /\ "done" \in Terminals
    BY DEF Envelope, Terminals
  <2> QED BY <2>1, <2>2 DEF OutTerminal
<1>14. CASE CancelledTerminal
  <2>1. PICK n : stored' = stored /\ NothingOut /\ (Publish(Envelope(n, "cancelled", <<>>)) \/ UNCHANGED out)
    BY <1>14 DEF CancelledTerminal, rest
  <2>2. Envelope(n, "cancelled", <<>>).kind = "cancelled" /\ "cancelled" \in Terminals
    BY DEF Envelope, Terminals
  <2> QED BY <2>1, <2>2 DEF OutTerminal, OutStays
<1>15. CASE ErrorTerminal
  <2>1. PICK n : stored' = stored /\ NothingOut /\ Publish(Envelope(n, "error", <<>>))
    BY <1>15 DEF ErrorTerminal, rest
  <2>2. Envelope(n, "error", <<>>).kind \in Terminals
    BY DEF Envelope, Terminals
  <2> QED BY <1>15, <2>1, <2>2 DEF OutTerminal
<1> QED BY <1>1, <1>2, <1>3, <1>4, <1>5, <1>6, <1>7, <1>8, <1>9, <1>10, <1>11, <1>12, <1>13, <1>14, <1>15
        DEF StreamNext, ProducerStep

LEMMA OutKeptStep ==
    ASSUME StreamInv, OutKept, StreamNext
    PROVE  OutKept'
<1>1. CASE OutStays
  BY <1>1 DEF OutStays, OutKept, NothingOut
<1>2. CASE OutEnds
  BY <1>2, IdleIs DEF OutEnds, OutKept, NothingOut
<1>3. CASE Push
  <2>1. out'.env = out.env /\ ~NothingOut /\ UNCHANGED <<buf, committed>>
    <3>1. out = [stage |-> out.stage, env |-> out.env]
      BY DEF StreamInv, StreamTypes
    <3>2. out' = [out EXCEPT !.stage = "send"] /\ out.stage = "push" /\ UNCHANGED <<buf, committed>>
      BY <1>3 DEF Push, producer
    <3> QED BY <3>1, <3>2 DEF NothingOut
  <2> QED BY <2>1 DEF OutKept
<1>4. CASE OutEmits
  <2>1. PICK k, t : Emit(k, t) /\ k \notin Terminals /\ (k \in {"delta", "retract"} => ~committed /\ buf' = <<>>)
    BY <1>4 DEF OutEmits
  <2>2. out'.env.kind = k /\ committed' = committed
    BY <1>4, <2>1 DEF Emit, Publish, Envelope, OutEmits
  <2> QED BY <2>1, <2>2 DEF OutKept
<1>5. CASE OutTerminal
  <2>1. out'.env.kind \in Terminals
    BY <1>5 DEF OutTerminal, Publish
  <2> QED BY <2>1 DEF OutKept, Terminals
<1> QED BY <1>1, <1>2, <1>3, <1>4, <1>5, OutStep

\* An error is published by its own step.
LEMMA ErrorStep ==
    ASSUME StreamInv, StreamNext, ~ErrorTerminal, NEW e \in Range(stored') \cup {out'.env}, e.kind = "error"
    PROVE  \E f \in Range(stored) \cup {out.env} : f.kind = "error"
<1>0. StreamTypes /\ e \in EndsOut' /\ "error" \in Terminals
  BY DEF StreamInv, EndsOut, Terminals
<1>1. CASE OutStays
  BY <1>1 DEF OutStays, Range
<1>2. CASE OutEnds
  <2>1. EndsOut' \subseteq EndsOut
    BY <1>2, OutIdle DEF OutEnds
  <2> QED BY <1>0, <2>1 DEF EndsOut
<1>3. CASE Push
  <2>1. EndsOut' \subseteq EndsOut
    BY <1>0, <1>3, PushIs
  <2> QED BY <1>0, <2>1 DEF EndsOut
<1>4. CASE OutEmits
  <2>1. PICK k, t : Emit(k, t) /\ k \notin Terminals /\ stored' = stored
    BY <1>4 DEF OutEmits
  <2>2. EndsOut' \subseteq EndsOut
    BY <1>0, <2>1, EmitIs
  <2> QED BY <1>0, <2>2 DEF EndsOut
<1>5. CASE OutTerminal
  <2>1. PICK x : Publish(x) /\ stored' = stored /\ x.kind # "error"
    BY <1>5 DEF OutTerminal
  <2>2. out'.env = x
    BY <2>1 DEF Publish
  <2> QED BY <2>1, <2>2 DEF Range
<1> QED BY <1>1, <1>2, <1>3, <1>4, <1>5, OutStep

\* The answer is what is out and what waits in the coalescer.
LEMMA TextKeptStep ==
    ASSUME AnswerTypes, UsageAccounted, TextKept, StreamNext
    PROVE  TextKept'
<1> DEFINE Whole == {"send", "start", "turn", "length", "final", "persist", "commit"}
<1>0. /\ buf \in Texts /\ text \in Texts /\ partial \in Texts /\ onWire \in BOOLEAN
      /\ partial \o <<>> = partial /\ <<>> \o text = text /\ <<>> \o <<>> = <<>>
      /\ (partial \o buf) \o <<>> = partial \o buf
  <2>1. buf \in Texts /\ text \in Texts /\ partial \in Texts /\ onWire \in BOOLEAN /\ <<>> \in Texts
    BY DEF AnswerTypes, Texts
  <2>2. partial \o buf \in Texts
    BY <2>1, TextJoins
  <2> QED BY <2>1, <2>2, TextJoins
<1>a. ASSUME UNCHANGED <<text, partial, buf, onWire>>, point' \in Whole => point \in Whole,
             point' \in {"tools", "rewrite"} => point' = point,
             point' = "retract" /\ after' = "turn" => point' = point /\ after' = after,
             point' = "commit" => point = "commit" \/ buf = <<>>
      PROVE  TextKept'
  BY <1>a DEF TextKept
<1>1. CASE Begin \/ Start \/ EndTurn \/ Persist \/ Commit \/ CommitFails
  <2>1. UNCHANGED <<text, partial, buf, onWire>>
    BY <1>1 DEF Begin, Start, EndTurn, Persist, Commit, CommitFails, answer
  <2>2. /\ point' \in Whole => point \in Whole
        /\ point' \notin {"tools", "rewrite", "retract"} /\ (point' = "commit" => buf = <<>>)
    BY <1>1 DEF Begin, Start, EndTurn, Persist, Commit, CommitFails, To, Raised
  <2> QED BY <1>a, <2>1, <2>2
<1>2. CASE AskUser \/ DoneSettled \/ Suggest \/ Salvage \/ SavePartial \/ ErrorTerminal
  <2>1. UNCHANGED <<text, partial, buf, onWire>>
    BY <1>2 DEF AskUser, DoneSettled, Suggest, Salvage, SavePartial, ErrorTerminal, answer
  <2>2. point' \in {"done", "end", "suggest", "cflush", "eretract", "cpub"}
    BY <1>2 DEF AskUser, DoneSettled, Suggest, Salvage, SavePartial, ErrorTerminal, To
  <2> QED BY <1>a, <2>1, <2>2
<1>3. CASE Stop \/ Abort \/ SettlementFails \/ ProducerDies \/ CancelledTerminal \/ DoneTerminal \/ TerminalTimeout
  <2>1. UNCHANGED <<text, partial, buf, onWire>>
    BY <1>3 DEF Stop, Abort, SettlementFails, ProducerDies, CancelledTerminal, DoneTerminal, TerminalTimeout, answer
  <2>2. point' \in {"csalvage", "esalvage", "end", "cpub", "done"}
    BY <1>3 DEF Stop, Abort, SettlementFails, ProducerDies, CancelledTerminal, DoneTerminal, TerminalTimeout, To, Raised
  <2> QED BY <1>a, <2>1, <2>2
<1>4. CASE RequestStop \/ Push \/ Send \/ \E c \in Clients : Join(c) \/ Replay(c) \/ Leave(c)
  <2>1. UNCHANGED <<text, partial, buf, onWire, point, after>>
    BY <1>4 DEF RequestStop, Push, Send, Join, Replay, Leave, producer
  <2> QED BY <1>a, <2>1
<1>5. CASE ToolTurn
  <2>1. UNCHANGED <<text, partial, buf, onWire>> /\ point' = "retract" /\ after' = "tools"
    BY <1>5 DEF ToolTurn, To, answer
  <2> QED BY <1>a, <2>1
<1>6. CASE Chunk
  <2>1. /\ chunks' = chunks + 1 /\ buf' = Append(buf, chunks') /\ text' = Append(text, chunks')
        /\ UNCHANGED <<point, partial, onWire>> /\ point = "turn" /\ NothingOut /\ chunks < MaxChunks
    BY <1>6 DEF Chunk
  <2>2. chunks + 1 \in 1..MaxChunks + 2
    BY <2>1, ChunksTyped
  <2>3. partial \o Append(buf, chunks + 1) = Append(partial \o buf, chunks + 1)
    BY <1>0, <2>2, TextJoins
  <2>4. text' = partial' \o buf'
    BY <2>1, <2>3 DEF TextKept
  <2> QED BY <2>1, <2>4 DEF TextKept
<1>7. CASE Continue
  <2>1. /\ UNCHANGED <<partial, onWire>> /\ point = "length" /\ point' = "final" /\ NothingOut
        /\ \/ buf' = Append(buf, chunks + 1) /\ text' = Append(text, chunks + 1)
           \/ UNCHANGED <<buf, text>>
    BY <1>7 DEF Continue, To
  <2>2. chunks + 1 \in 1..MaxChunks + 2
    BY <2>1, ChunksTyped
  <2>3. partial \o Append(buf, chunks + 1) = Append(partial \o buf, chunks + 1)
    BY <1>0, <2>2, TextJoins
  <2>4. text' = partial' \o buf'
    BY <2>1, <2>3 DEF TextKept
  <2> QED BY <2>1, <2>4 DEF TextKept
<1>8. CASE FlushText
  <2>1. /\ point \in {"turn", "persist", "cflush"} /\ buf' = <<>> /\ partial' = partial \o buf /\ onWire' = TRUE
        /\ UNCHANGED <<point, after, text>>
    BY <1>8 DEF FlushText
  <2>2. point \in {"turn", "persist"} => text' = partial' \o buf'
    BY <1>0, <2>1 DEF TextKept
  <2> QED BY <2>1, <2>2 DEF TextKept
<1>9. CASE Retract
  <2>1. /\ point = "retract" /\ point' = after /\ after' = "none" /\ buf' = <<>> /\ partial' = <<>>
        /\ UNCHANGED text /\ after \in {"tools", "turn", "rewrite"}
    BY <1>9 DEF Retract, To, UsageAccounted
  <2>2. after = "turn" => text' = partial' \o buf'
    BY <1>0, <2>1 DEF TextKept
  <2> QED BY <2>1, <2>2 DEF TextKept
<1>10. CASE Tools
  <2>1. /\ point = "tools" /\ text' = <<>> /\ point' \in {"turn", "persist"}
        /\ UNCHANGED <<buf, partial, onWire>>
    BY <1>10 DEF Tools, To
  <2>2. partial = <<>> /\ buf = <<>>
    BY <2>1 DEF TextKept
  <2>3. text' = partial' \o buf'
    BY <1>0, <2>1, <2>2
  <2> QED BY <2>1, <2>2, <2>3 DEF TextKept
<1>11. CASE Retry
  <2>1. point' = "retract" /\ text' = <<>> /\ UNCHANGED <<buf, partial, onWire>>
    BY <1>11 DEF Retry, To
  <2> QED BY <2>1 DEF TextKept
<1>12. CASE Final
  <2>1. /\ UNCHANGED <<buf, partial, onWire>> /\ point = "final"
        /\ (point' = "persist" /\ UNCHANGED text) \/ (point' = "retract" /\ after' = "rewrite")
    BY <1>12 DEF Final, To
  <2> QED BY <2>1 DEF TextKept
<1>13. CASE Rewrite
  <2>1. point = "rewrite" /\ point' = "persist" /\ buf' = text /\ UNCHANGED <<text, partial, onWire>>
    BY <1>13 DEF Rewrite, To
  <2>2. text' = partial' \o buf'
    BY <1>0, <2>1 DEF TextKept
  <2> QED BY <2>1, <2>2 DEF TextKept
<1>14. CASE ErrorRetract
  <2>1. /\ point' \in {"end", "epub"}
        /\ (UNCHANGED <<partial, onWire>>) \/ partial' = <<>>
    BY <1>14 DEF ErrorRetract, To
  <2> QED BY <2>1 DEF TextKept
<1> QED BY <1>1, <1>2, <1>3, <1>4, <1>5, <1>6, <1>7, <1>8, <1>9, <1>10, <1>11, <1>12, <1>13, <1>14
        DEF StreamNext, ProducerStep

\* The message that is saved is what is out; an error has nothing out that is not saved.
LEMMA ReplyKeptStep ==
    ASSUME AnswerTypes, StreamInv, TextKept, ReplyKept, StreamNext
    PROVE  ReplyKept'
<1>0. TerminalEarned /\ UsageAccounted /\ partial \in Texts /\ partial \o <<>> = partial
  <2>1. partial \in Texts
    BY DEF AnswerTypes
  <2> QED BY <2>1, TextJoins DEF StreamInv
<1>e. ASSUME ~ErrorTerminal, \E e \in Range(stored') \cup {out'.env} : e.kind = "error"
      PROVE  point = "end" /\ (committed \/ partial = <<>>)
  BY <1>e, ErrorStep DEF ReplyKept
<1>a. ASSUME ~ErrorTerminal, UNCHANGED <<committed, reply, partial>>,
             point \in {"cpub", "end"} => point' \in {"cpub", "end"}, point = "end" => point' = "end",
             point' = "epub" => point = "epub"
      PROVE  ReplyKept'
  BY <1>a, <1>e DEF ReplyKept
<1>n. ASSUME point # "epub" PROVE ~ErrorTerminal
  BY <1>n DEF ErrorTerminal
<1>1. CASE Begin \/ Start \/ Chunk \/ ToolTurn \/ Tools \/ Retry \/ EndTurn \/ Continue \/ Final \/ Rewrite \/ Persist
  <2>1. UNCHANGED <<committed, reply, partial>>
    <3>1. CASE Begin \/ Start \/ Chunk \/ ToolTurn \/ Tools
      BY <3>1 DEF Begin, Start, Chunk, ToolTurn, Tools, answer, marks
    <3>2. CASE Retry \/ EndTurn \/ Continue \/ Final \/ Rewrite \/ Persist
      BY <3>2 DEF Retry, EndTurn, Continue, Final, Rewrite, Persist, answer, marks
    <3> QED BY <1>1, <3>1, <3>2
  <2>2. point \in {"send", "start", "turn", "tools", "length", "final", "rewrite", "persist"} /\ point' # "epub"
    <3>1. CASE Begin \/ Start \/ Chunk \/ ToolTurn \/ Tools
      BY <3>1 DEF Begin, Start, Chunk, ToolTurn, Tools, To
    <3>2. CASE Retry \/ EndTurn \/ Continue \/ Final \/ Rewrite \/ Persist
      BY <3>2 DEF Retry, EndTurn, Continue, Final, Rewrite, Persist, To
    <3> QED BY <1>1, <3>1, <3>2
  <2> QED BY <1>a, <1>n, <2>1, <2>2
<1>2. CASE AskUser \/ DoneTerminal \/ DoneSettled \/ Suggest \/ Salvage \/ CancelledTerminal
  <2>1. UNCHANGED <<committed, reply, partial>>
    BY <1>2 DEF AskUser, DoneTerminal, DoneSettled, Suggest, Salvage, CancelledTerminal, answer, marks
  <2>2. /\ point \in {"asked", "done", "suggest", "csalvage", "esalvage", "cpub"} /\ point' # "epub"
        /\ point = "cpub" => point' \in {"cpub", "end"}
    BY <1>2 DEF AskUser, DoneTerminal, DoneSettled, Suggest, Salvage, CancelledTerminal, To
  <2> QED BY <1>a, <1>n, <2>1, <2>2
<1>3. CASE Stop \/ Abort \/ TerminalTimeout \/ SettlementFails \/ ProducerDies
  <2>1. UNCHANGED <<committed, reply, partial>>
    BY <1>3 DEF Stop, Abort, TerminalTimeout, SettlementFails, ProducerDies, answer, marks
  <2>2. /\ point' \in {"csalvage", "esalvage", "done", "cpub", "end"}
        /\ point = "end" => point' = "end"
        /\ point = "cpub" => point' \in {"cpub", "end"}
    BY <1>3 DEF Stop, AcceptStop, Abort, TerminalTimeout, SettlementFails, ProducerDies, Raised, To, Stoppable
  <2>3. ~ErrorTerminal
    <3>1. out' = Idle
      BY <1>3 DEF Stop, Abort, TerminalTimeout, SettlementFails, ProducerDies, Interrupted
    <3>2. ErrorTerminal => out'.stage = "push"
      BY DEF ErrorTerminal, Publish
    <3> QED BY <3>1, <3>2, IdleIs
  <2> QED BY <1>a, <2>1, <2>2, <2>3
<1>4. CASE RequestStop \/ Push \/ Send \/ \E c \in Clients : Join(c) \/ Replay(c) \/ Leave(c)
  <2>1. UNCHANGED <<committed, reply, partial, point>>
    BY <1>4 DEF RequestStop, Push, Send, Join, Replay, Leave, producer
  <2>2. ~ErrorTerminal
    BY <2>1 DEF ErrorTerminal, To
  <2> QED BY <1>a, <2>1, <2>2
<1>5. CASE FlushText \/ Retract
  <2>1. UNCHANGED <<committed, reply>> /\ point \in {"turn", "persist", "cflush",
                "retract"} /\ point' # "epub"
    BY <1>0, <1>5 DEF FlushText, Retract, To, marks, UsageAccounted
  <2>2. ~committed /\ reply.finish # "cancelled" /\ ~ErrorTerminal
    BY <1>0, <1>n, <2>1 DEF TerminalEarned, Concluding, ReplyKept
  <2> QED BY <1>e, <2>1, <2>2 DEF ReplyKept
<1>6. CASE Commit \/ CommitFails
  <2>1. /\ point = "commit" /\ point' \in {"asked", "done", "csalvage", "esalvage"} /\ UNCHANGED partial
        /\ \/ reply' = [finish |-> "stop", content |-> text]
           \/ UNCHANGED reply /\ UNCHANGED committed
    BY <1>6 DEF Commit, CommitFails, To, Raised, answer
  <2>2. text = partial /\ ~committed /\ reply.finish # "cancelled" /\ ~ErrorTerminal
    BY <1>0, <1>n, <2>1 DEF TextKept, TerminalEarned, Concluding, ReplyKept
  <2>3. (\E e \in Range(stored') \cup {out'.env} : e.kind = "error") => FALSE
    BY <1>e, <2>1, <2>2
  <2>4. CASE reply' = [finish |-> "stop", content |-> text]
    <3>1. reply'.finish = "stop" /\ reply'.content = partial'
      BY <2>1, <2>2, <2>4
    <3> QED BY <2>1, <2>3, <3>1 DEF ReplyKept
  <2>5. CASE UNCHANGED reply /\ UNCHANGED committed
    BY <2>1, <2>2, <2>3, <2>5 DEF ReplyKept
  <2> QED BY <2>1, <2>4, <2>5
<1>7. CASE SavePartial
  <2>1. /\ point = "cflush" /\ UNCHANGED <<partial, committed>>
        /\ \/ reply' = [finish |-> "cancelled", content |-> partial] /\ point' = "cpub"
           \/ UNCHANGED reply /\ point' = "eretract"
    BY <1>7 DEF SavePartial, To, answer
  <2>2. ~committed /\ reply.finish # "cancelled" /\ ~ErrorTerminal
    BY <1>0, <1>n, <2>1 DEF TerminalEarned, Concluding, ReplyKept
  <2>3. (\E e \in Range(stored') \cup {out'.env} : e.kind = "error") => FALSE
    BY <1>e, <2>1, <2>2
  <2>4. CASE reply' = [finish |-> "cancelled", content |-> partial] /\ point' = "cpub"
    <3>1. reply'.finish = "cancelled" /\ reply'.content = partial'
      BY <2>1, <2>4
    <3> QED BY <2>1, <2>2, <2>3, <2>4, <3>1 DEF ReplyKept
  <2>5. CASE UNCHANGED reply /\ point' = "eretract"
    BY <2>1, <2>2, <2>3, <2>5 DEF ReplyKept
  <2> QED BY <2>1, <2>4, <2>5
<1>8. CASE ErrorRetract
  <2>1. /\ point = "eretract" /\ UNCHANGED <<reply, committed>>
        /\ \/ point' = "end" /\ UNCHANGED partial
           \/ point' = "epub" /\ committed /\ UNCHANGED partial
           \/ point' = "epub" /\ ~committed /\ partial' = <<>>
    BY <1>8 DEF ErrorRetract, To, marks
  <2>2. reply.finish # "cancelled" /\ ~ErrorTerminal
    BY <1>n, <2>1 DEF ReplyKept
  <2>3. (\E e \in Range(stored') \cup {out'.env} : e.kind = "error") => FALSE
    BY <1>e, <2>1, <2>2
  <2> QED BY <2>1, <2>2, <2>3 DEF ReplyKept
<1>9. CASE ErrorTerminal
  <2>1. point = "epub" /\ point' = "end" /\ UNCHANGED <<committed, reply, partial>>
    BY <1>9 DEF ErrorTerminal, To, answer, marks
  <2> QED BY <2>1 DEF ReplyKept
<1> QED BY <1>1, <1>2, <1>3, <1>4, <1>5, <1>6, <1>7, <1>8, <1>9 DEF StreamNext, ProducerStep

\* The whole of the answer's invariant is kept.
LEMMA AnswerStep ==
    ASSUME AnswerInv, StreamInv, [StreamNext]_streamVars
    PROVE  AnswerInv'
<1>0. AnswerTypes /\ TextKept /\ OutKept /\ ReplyKept /\ UsageAccounted
  BY DEF AnswerInv, StreamInv
<1>1. CASE UNCHANGED streamVars
  <2>1. UNCHANGED <<point, after, buf, text, partial, onWire, committed, reply, stored, out>>
    BY <1>1 DEF streamVars, producer
  <2>2. TextKept' /\ OutKept' /\ ReplyKept'
    BY <1>0, <2>1 DEF TextKept, OutKept, ReplyKept, NothingOut, Range
  <2> QED BY <1>0, <2>2, AnswerTypesKept DEF AnswerInv
<1>2. CASE StreamNext
  BY <1>0, <1>2, AnswerTypesKept, TextKeptStep, OutKeptStep, ReplyKeptStep DEF AnswerInv
<1> QED BY <1>1, <1>2

LEMMA AnswerInitial == StreamInit => AnswerInv /\ WireInv
<1> SUFFICES ASSUME StreamInit PROVE AnswerInv /\ WireInv
  OBVIOUS
<1>0. /\ out = Idle /\ out.stage = "none" /\ out.env.kind = "start" /\ stored = <<>> /\ Range(stored) = {} /\ <<>> \in Texts
      /\ Len(stored) = 0
  BY IdleIs DEF StreamInit, Range, Texts
<1>1. AnswerTypes
  <2>1. NoRow \in Messages
    BY <1>0 DEF NoRow, Messages
  <2>2. WithinBounds
    BY StreamAssumption DEF StreamInit, WithinBounds, Early
  <2>3. point \in Points /\ after \in {"none", "tools", "turn", "rewrite", "epub"}
    BY DEF StreamInit, Points
  <2>4. spent \in Nat /\ recorded \in Nat /\ tries \in 0..2 /\ chunks \in Nat
    BY DEF StreamInit
  <2>5. turns \in 0..MaxTurns /\ joins \in 0..MaxJoins /\ faults \in 0..MaxFaults
    BY StreamAssumption DEF StreamInit
  <2>6. buf \in Texts /\ text \in Texts /\ partial \in Texts /\ reply \in Messages
    BY <1>0, <2>1 DEF StreamInit
  <2>7. /\ onWire \in BOOLEAN /\ committed \in BOOLEAN /\ sent \in BOOLEAN
        /\ stopped \in BOOLEAN /\ ask \in BOOLEAN /\ armed \in BOOLEAN
        /\ doubt \in BOOLEAN /\ torn \in BOOLEAN /\ cut \in BOOLEAN /\ flag \in BOOLEAN
    BY DEF StreamInit
  <2> QED BY <2>2, <2>3, <2>4, <2>5, <2>6, <2>7 DEF AnswerTypes
<1>2. TextKept
  <2>1. <<>> \o <<>> = <<>>
    BY <1>0, TextJoins
  <2> QED BY <2>1 DEF StreamInit, TextKept
<1>3. OutKept /\ ReplyKept
  BY <1>0 DEF StreamInit, OutKept, ReplyKept, NothingOut, NoRow
<1>4. WireTypes
  BY <1>0, IdleIs, NewcomerIs, StreamAssumption DEF StreamInit, WireTypes
<1>5. SeqsGrow /\ TermIsLast /\ StartFirst
  BY <1>0 DEF StreamInit, SeqsGrow, TermIsLast, StartFirst, NothingOut
<1>6. Now = [NoSub EXCEPT !.pc = "live"]
  BY <1>0, NewcomerIs, RelayedNone DEF Now
<1>7. Now.pc = "live" /\ Now.term = NoTerm /\ Now.view = <<>> /\ Now.last = 0 /\ Now.inbox = <<>>
  BY <1>6, NewcomerIs
<1>8. NewcomerTold
  BY <1>0, <1>7 DEF NewcomerTold, Told, Followed
<1>9. \A c \in Clients : sub[c] = NoSub /\ sub[c].pc = "off"
  BY DEF StreamInit, NoSub
<1>10. ClientsTold /\ InStep
  BY <1>9 DEF ClientsTold, InStep, Followed
<1>11. ScreenFits
  <2>1. IsPrefix(<<>>, <<>>)
    BY <1>0, PrefixSelf
  <2> QED BY <1>0, <1>7, <1>9, <2>1 DEF StreamInit, ScreenFits, Fits, Ahead, Followed
<1> QED BY <1>1, <1>2, <1>3, <1>4, <1>5, <1>8, <1>10, <1>11 DEF AnswerInv, WireInv

LEMMA AnswerTypesHold == ASSUME AnswerInv, WireInv PROVE StreamTypeOK
<1>0. AnswerTypes /\ WireTypes /\ MaxChunks \in Nat /\ MaxTurns \in Nat
  BY StreamAssumption DEF AnswerInv, WireInv
<1>1. chunks \in 0..MaxChunks + 2 /\ spent \in 0..MaxTurns + 2
  <2>1. chunks \in Nat /\ spent \in Nat /\ turns \in Nat /\ turns <= MaxTurns
    BY <1>0 DEF AnswerTypes
  <2>2. chunks <= MaxChunks + 2 /\ spent <= turns + 2
    BY <1>0, <2>1 DEF AnswerTypes, WithinBounds
  <2> QED BY <1>0, <2>1, <2>2
<1>2. /\ point \in Points /\ after \in {"none", "tools", "turn", "rewrite", "epub"}
      /\ buf \in Texts /\ text \in Texts /\ partial \in Texts /\ reply \in Messages
      /\ onWire \in BOOLEAN /\ committed \in BOOLEAN /\ sent \in BOOLEAN
      /\ stopped \in BOOLEAN /\ ask \in BOOLEAN /\ armed \in BOOLEAN
      /\ recorded \in Nat /\ tries \in 0..2
      /\ doubt \in BOOLEAN /\ torn \in BOOLEAN /\ cut \in BOOLEAN /\ flag \in BOOLEAN
      /\ turns \in 0..MaxTurns /\ joins \in 0..MaxJoins /\ faults \in 0..MaxFaults
  BY <1>0 DEF AnswerTypes
<1>3. /\ seq \in Nat /\ termSeq \in 0..seq /\ Len(stored) <= MaxReplay
      /\ out.stage \in {"none", "push", "send"} /\ out.env.kind \in Kinds
  BY <1>0 DEF WireTypes, Envelopes
<1>4. \A c \in Clients : /\ sub[c].pc \in {"off", "joined", "live", "grace", "closed"}
                         /\ sub[c].view \in Texts /\ sub[c].term \in Terminals \cup {NoTerm}
  BY <1>0 DEF WireTypes, Subs, Followed
<1> QED BY <1>1, <1>2, <1>3, <1>4 DEF StreamTypeOK

\* A client that has seen a terminal has it from the list, and its screen fits.
LEMMA TerminalSeen ==
    ASSUME AnswerInv, WireInv, ~Trimmed, NEW c \in Clients, sub[c].term # NoTerm
    PROVE  /\ \E e \in EndsOut : e.kind = sub[c].term /\ e \in Range(stored)
           /\ ~torn => Fits(sub[c].view)
<1>0. ClientsTold /\ ScreenFits /\ WireTypes
  BY DEF WireInv
<1>1. sub[c] \in Subs /\ out.env \in Envelopes
  BY <1>0 DEF WireTypes
<1>2. sub[c].pc \in Followed
  <2>1. sub[c].pc = "off" => sub[c].term = NoTerm
    <3>1. sub[c].pc = "off" => sub[c] = NoSub
      BY <1>0 DEF ClientsTold
    <3>2. NoSub.term = NoTerm
      BY DEF NoSub
    <3> QED BY <3>1, <3>2
  <2>2. sub[c].pc = "joined" => sub[c].term = NoTerm
    <3>1. PICK b : b = sub[c].inbox
      OBVIOUS
    <3>2. sub[c].pc = "joined" => sub[c] = [NoSub EXCEPT !.pc = "joined", !.inbox = b]
      BY <1>0, <3>1 DEF ClientsTold
    <3>3. [NoSub EXCEPT !.pc = "joined", !.inbox = b].term = NoTerm
      BY DEF NoSub
    <3> QED BY <3>2, <3>3
  <2> QED BY <1>1, <2>1, <2>2 DEF Subs
<1>3. Told(sub[c])
  BY <1>0, <1>2 DEF ClientsTold
<1>4. sub[c].pc \in {"grace", "closed"}
  BY <1>3 DEF Told, Followed
<1>5. sub[c].term \in Terminals
  BY <1>1 DEF Subs
<1>6. Awaited(c).view = sub[c].view
  <2>1. PICK s, x : s = sub[c] /\ x = out.env
    OBVIOUS
  <2>2. s \in Subs /\ x \in Envelopes
    BY <1>1, <2>1
  <2>3. Shown(s, x).view = s.view
    <3>1. CASE s.pc = "grace"
      BY ONLY <2>2, <3>1, ShownIs
    <3>2. CASE s.pc = "closed"
      BY ONLY <2>2, <3>2, ShownIs
    <3> QED BY <1>4, <2>1, <3>1, <3>2
  <2> QED BY <2>1, <2>3 DEF Awaited, Received
<1>7. ~torn => Fits(sub[c].view)
  BY <1>0, <1>2, <1>6 DEF ScreenFits
<1> QED BY <1>3, <1>5, <1>7 DEF Told, EndsOut

LEMMA AnswerHolds == ASSUME AnswerInv, WireInv, StreamInv PROVE DoneIsSaved /\ CancelledIsSaved /\ ErrorShowsNothing
<1>0. TerminalEarned /\ ReplyKept /\ NoTerm \notin {"done", "error", "cancelled"} /\ WireTypes
  BY StreamAssumption DEF StreamInv, AnswerInv, WireInv
<1>1. DoneIsSaved
  <2> SUFFICES ASSUME NEW c \in Clients, sub[c].term = "done", ~Trimmed
               PROVE  reply.finish = "stop" /\ (torn \/ sub[c].view = reply.content)
    BY DEF DoneIsSaved
  <2>1. (\E e \in EndsOut : e.kind = "done") /\ (~torn => Fits(sub[c].view))
    BY <1>0, TerminalSeen
  <2>2. committed /\ reply.finish = "stop" /\ reply.content = partial
    BY <1>0, <2>1 DEF TerminalEarned, ReplyKept
  <2> QED BY <2>1, <2>2 DEF Fits
<1>2. CancelledIsSaved
  <2> SUFFICES ASSUME NEW c \in Clients, sub[c].term = "cancelled", ~Trimmed
               PROVE  reply.finish = "cancelled" /\ (torn \/ IsPrefix(sub[c].view, reply.content))
    BY DEF CancelledIsSaved
  <2>1. (\E e \in EndsOut : e.kind = "cancelled") /\ (~torn => Fits(sub[c].view))
    BY <1>0, TerminalSeen
  <2>2. reply.finish = "cancelled" /\ reply.content = partial
    BY <1>0, <2>1 DEF TerminalEarned, ReplyKept
  <2> QED BY <2>1, <2>2 DEF Fits
<1>3. ErrorShowsNothing
  <2> SUFFICES ASSUME NEW c \in Clients, sub[c].term = "error", ~Trimmed, ~torn
               PROVE  sub[c].view = <<>> \/ (committed /\ sub[c].view = reply.content)
    BY DEF ErrorShowsNothing
  <2>1. (\E e \in Range(stored) : e.kind = "error") /\ Fits(sub[c].view)
    BY <1>0, TerminalSeen
  <2>2. committed \/ partial = <<>>
    BY <1>0, <2>1 DEF ReplyKept
  <2>3. CASE committed
    BY <1>0, <2>1, <2>3 DEF Fits, ReplyKept
  <2>4. CASE partial = <<>>
    <3>1. sub[c].view \in Texts /\ <<>> \in Texts /\ IsPrefix(sub[c].view, <<>>)
      BY <1>0, <2>1, <2>4 DEF WireTypes, Subs, Fits, Texts
    <3>2. PICK v : v = sub[c].view
      OBVIOUS
    <3>3. v \in Seq(1..MaxChunks + 2) /\ Len(v) <= Len(<<>>)
      BY <3>1, <3>2, PrefixIs DEF Texts
    <3>4. v = <<>>
      BY <3>3
    <3> QED BY <3>2, <3>4
  <2> QED BY <2>2, <2>3, <2>4
<1> QED BY <1>1, <1>2, <1>3

LEMMA LiveHolds == ASSUME WireInv PROVE ReplayIsLive
<1>0. InStep /\ WireTypes
  BY DEF WireInv
<1>1. PICK j, o : j = [NoSub EXCEPT !.pc = "joined"] /\ o = <<>>
  OBVIOUS
<1>2. [j EXCEPT !.pc = "live", !.inbox = <<>>] = [NoSub EXCEPT !.pc = "live"]
  <2>1. j = [pc |-> "joined", inbox |-> <<>>, last |-> 0, view |-> <<>>, term |-> NoTerm]
    BY <1>1, NewcomerIs
  <2>2. PICK z : z = [j EXCEPT !.pc = "live", !.inbox = o]
    OBVIOUS
  <2>3. j = [pc |-> j.pc, inbox |-> j.inbox, last |-> j.last, view |-> j.view, term |-> j.term]
    BY <2>1
  <2>4. z = [pc |-> "live", inbox |-> o, last |-> j.last, view |-> j.view, term |-> j.term]
    BY ONLY <2>2, <2>3
  <2>5. j.last = 0 /\ j.view = <<>> /\ j.term = NoTerm
    BY <2>1
  <2>6. z = [NoSub EXCEPT !.pc = "live"]
    BY <1>1, <2>4, <2>5, NewcomerIs
  <2> QED BY <1>1, <2>2, <2>6
<1>3. PICK L : Replayed(j) = [Now EXCEPT !.last = L]
  BY <1>2 DEF Replayed, Now
<1>4. Replayed(j).view = Now.view /\ Replayed(j).term = Now.term
  <2>1. PICK n : n = Now
    OBVIOUS
  <2>2. n \in Subs
    BY <1>0, <2>1, NowTyped
  <2>3. [n EXCEPT !.last = L].view = n.view /\ [n EXCEPT !.last = L].term = n.term
    BY <2>2 DEF Subs
  <2> QED BY <1>3, <2>1, <2>3
<1>5. ASSUME NEW c \in Clients, sub[c].pc \in {"live", "grace", "closed"}, NothingOut, ~cut, ~Trimmed
      PROVE  sub[c].view = Replayed(j).view /\ sub[c].term = Replayed(j).term
  <2>1. Alike(sub[c], Now)
    BY <1>0, <1>5 DEF InStep, Followed, NothingOut
  <2> QED BY <1>4, <2>1 DEF Alike
<1> QED BY <1>1, <1>5 DEF ReplayIsLive

WholeInv == StreamInv /\ AnswerInv /\ WireInv

LEMMA WholeStep == WholeInv /\ [StreamNext]_streamVars => WholeInv'
BY StreamStep, AnswerStep, WireStep DEF WholeInv

\* Whatever was retracted, retried, rewritten, stopped or interrupted on the way, and
\* wherever its subscription was cut into replay and live, a client that saw done
\* shows the committed message, one that saw cancelled nothing the saved partial does
\* not begin with, and one that saw an error nothing that is not durable; the tokens
\* billed are recorded once, and the terminals agree (chat_runtime, chat_ws).
THEOREM AnswerSettled == StreamSpec => []AnswerIsSettled
<1>1. WholeInv => AnswerIsSettled
  <2> SUFFICES ASSUME WholeInv PROVE AnswerIsSettled
    OBVIOUS
  <2>1. StreamTypeOK
    BY AnswerTypesHold DEF WholeInv
  <2>2. DoneIsSaved /\ CancelledIsSaved /\ ErrorShowsNothing
    BY AnswerHolds DEF WholeInv
  <2>3. UsageRecordedOnce /\ TerminalsAgree
    BY AccountsOfAnswer DEF WholeInv
  <2> QED BY <2>1, <2>2, <2>3 DEF AnswerIsSettled
<1>2. StreamInit => WholeInv
  BY StreamInitial, AnswerInitial DEF WholeInv
<1> QED BY <1>1, <1>2, WholeStep, PTL DEF StreamSpec

\* The late-subscriber fix (chat_ws): between two publishes, and while the list is
\* whole, a client that joined at any moment shows what one that joins now is shown.
THEOREM ReplayLive == StreamSpec => []ReplayIsLive
<1>1. WholeInv => ReplayIsLive
  BY LiveHolds DEF WholeInv
<1>2. StreamInit => WholeInv
  BY StreamInitial, AnswerInitial DEF WholeInv
<1> QED BY <1>1, <1>2, WholeStep, PTL DEF StreamSpec
=============================================================================
