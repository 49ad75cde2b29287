-------------------------- MODULE SandboxRunsProofs --------------------------
(***************************************************************************)
(* Proofs about SandboxRuns, for every set of runs and of executions, every *)
(* cap, budget and number of faults.                                        *)
(*                                                                          *)
(* Two facts carry the argument.  An admitted execution that was not cut    *)
(* off from Redis has the fresh lease of its run under its own token        *)
(* (Leased).  A process at the runner belongs to an execution that is still *)
(* in its call or its kill, in that generation, or to one that died or whose*)
(* call failed, or the owner ended its row (Accounted).                     *)
(*                                                                          *)
(* For the budget a third: the day's counter covers the total of what its   *)
(* reservations stand for (Ledger), a sum over a set that grows and shrinks *)
(* one execution at a time (DataInduction).                                 *)
(***************************************************************************)
EXTENDS SandboxRuns, DataInduction

\* Executions, without the bounds of the generations.
Executions ==
    [pc : Pcs, run : Runs \cup {None}, gen : Nat, advance : BOOLEAN,
     reserved : BOOLEAN, day : 0..LastDay, spent : 0..Reserved,
     lost : BOOLEAN, lapsed : BOOLEAN, pending : BOOLEAN,
     cause : {"none", "cancelled", "accounting"},
     cancelled : BOOLEAN, beat : BOOLEAN, broken : BOOLEAN, settled : BOOLEAN]

\* The types of what the argument uses.
RowsTyped ==
    /\ run \in [Runs -> [status : {"none"} \cup Active \cup Terminal, gen : Nat]]
    /\ sess \in [gen : Nat, status : {"none", "active", "closed", "error"}]
    /\ code \in [Runs -> Nat]
    /\ lease \in [Runs -> [owner : Execs \cup {None}, fresh : BOOLEAN]]
    /\ day \in 0..LastDay
    /\ owner \in [pc : {"idle", "write"}, run : Runs \cup {None}, gen : Nat,
                  ended : SUBSET Runs, asked : BOOLEAN]
ExecsTyped == ex \in [Execs -> Executions]

Holding == {"reserve", "ensure", "start", "waiting", "executing", "kill", "confirm", "close"}
Started == {"waiting", "executing", "kill", "confirm"}
Calling == {"executing", "kill", "confirm"}

\* A call has its run from its first step on, and a kill to confirm is a chat's.
Seat(e) ==
    /\ e.pc = "idle" => e.run = None
    /\ e.pc # "idle" => e.run \in Runs
    /\ e.pc \in Holding => e.beat
    /\ e.pc = "confirm" => e.run \notin TaskRuns
Seated == \A x \in Execs : Seat(ex[x])

\* A run with an execution has its row; one of a chat has one execution.
Taken == /\ \A r \in TaskRuns : run[r].status # "none"
         /\ \A x \in Execs : ex[x].pc # "idle" => run[ex[x].run].status # "none"
Alone == \A x, y \in Execs :
            (ex[x].pc # "idle" /\ ex[x].run \notin TaskRuns /\ ex[x].run = ex[y].run) => x = y

\* The row of a chat's started run is its execution's until the owner ends it.
Rows == \A x \in Execs :
    (ex[x].pc \in Started /\ ex[x].run \notin TaskRuns /\ ex[x].run \notin owner.ended)
       => run[ex[x].run].status = "running" /\ run[ex[x].run].gen = ex[x].gen

\* The owner asks once.
OwnerOnce == /\ ~owner.asked => owner.pc = "idle"
             /\ owner.pc = "write" => owner.run \in Runs
             /\ (~owner.asked \/ owner.pc = "write") => owner.ended = {}

\* An execution that was not cut off has the lease of its run.
LeasedTo(x, e, l) == (e.pc \in Holding /\ ~e.lost /\ ~e.lapsed) =>
                        l[e.run] = [owner |-> x, fresh |-> TRUE]
Leased == /\ \A x \in Execs : LeasedTo(x, ex[x], lease)
          /\ \A r \in Runs : lease[r].fresh => lease[r].owner \in Execs

\* A process in generation c of run r is explained by execution e.
Explains(e, r, c) ==
    e.run = r /\ ((e.pc \in Calling /\ e.gen = c) \/ e.pc = "dead" \/ e.broken)
Accounted == \A r \in Runs : code[r] # 0 =>
                r \in owner.ended \/ \E y \in Execs : Explains(ex[y], r, code[r])

\* The leases that count are within the cap.
WithinLeases == IsFiniteSet(Held) /\ Cardinality(Held) <= MaxConcurrency

IInv == RowsTyped /\ ExecsTyped /\ Seated /\ Taken /\ Alone /\ Rows /\ OwnerOnce /\ Leased
        /\ Accounted /\ WithinLeases

-----------------------------------------------------------------------------
\* Steps that add no lease keep the leases within the cap.
LEMMA NoneAdded ==
    ASSUME WithinLeases, MaxConcurrency \in Nat, Held' \subseteq Held
    PROVE  WithinLeases'
<1>1. IsFiniteSet(Held') /\ Cardinality(Held') <= Cardinality(Held)
  BY FS_Subset DEF WithinLeases
<1>2. Cardinality(Held') \in Nat /\ Cardinality(Held) \in Nat
  BY <1>1, FS_CardinalityType DEF WithinLeases
<1> QED
  BY <1>1, <1>2 DEF WithinLeases

\* A script that admits one more run below the cap does too.
LEMMA OneAdded ==
    ASSUME WithinLeases, MaxConcurrency \in Nat, NEW r,
           Cardinality(Held) < MaxConcurrency, Held' \subseteq Held \cup {r}
    PROVE  WithinLeases'
<1>0. IsFiniteSet(Held) /\ Cardinality(Held) \in Nat
  BY FS_CardinalityType DEF WithinLeases
<1>1. IsFiniteSet(Held \cup {r}) /\ Cardinality(Held \cup {r}) <= MaxConcurrency
  <2>1. Cardinality(Held \cup {r}) = IF r \in Held THEN Cardinality(Held) ELSE Cardinality(Held) + 1
    BY <1>0, FS_AddElement
  <2> QED
    BY <1>0, <2>1, FS_AddElement
<1>2. IsFiniteSet(Held') /\ Cardinality(Held') <= Cardinality(Held \cup {r})
  BY <1>1, FS_Subset
<1>3. Cardinality(Held') \in Nat /\ Cardinality(Held \cup {r}) \in Nat
  BY <1>1, <1>2, FS_CardinalityType
<1> QED
  BY <1>1, <1>2, <1>3 DEF WithinLeases

\* What a call leaves behind when it returns is typed.
LEMMA IdleTyped == IdleExec \in Executions
BY SandboxAssumption DEF IdleExec, Executions, Pcs

\* So is every call after one returned.
LEMMA ReturnTyped ==
    ASSUME ExecsTyped, NEW x \in Execs, Return(x)
    PROVE  ExecsTyped'
<1>1. [IdleExec EXCEPT !.pc = "done", !.run = ex[x].run, !.day = ex[x].day,
                       !.broken = ex[x].broken] \in Executions
  BY IdleTyped DEF ExecsTyped, Executions, Pcs
<1> QED
  BY <1>1 DEF ExecsTyped, Return

\* Processes stay accounted for when only execution x moves, none starts, and
\* what x explained it goes on explaining, unless the owner ended the run.
LEMMA StillAccounted ==
    ASSUME Accounted, NEW x \in Execs,
           \A y \in Execs \ {x} : ex'[y] = ex[y],
           \A r \in Runs : code'[r] = 0 \/ code'[r] = code[r],
           owner.ended \subseteq owner'.ended,
           \A r \in Runs : (code'[r] # 0 /\ Explains(ex[x], r, code[r])) =>
              r \in owner'.ended \/ Explains(ex'[x], r, code[r])
    PROVE  Accounted'
<1> SUFFICES ASSUME NEW r \in Runs, code'[r] # 0, r \notin owner'.ended
             PROVE  \E y \in Execs : Explains(ex'[y], r, code'[r])
  BY DEF Accounted
<1>1. code'[r] = code[r]
  OBVIOUS
<1>2. PICK y \in Execs : Explains(ex[y], r, code[r])
  BY <1>1 DEF Accounted
<1>3. Explains(ex'[y], r, code[r])
  BY <1>1, <1>2
<1> QED
  BY <1>1, <1>3

\* A lease that the script writes is typed.
LEMMA Granted ==
    ASSUME NEW x \in Execs
    PROVE  [owner |-> x, fresh |-> TRUE] \in [owner : Execs \cup {None}, fresh : BOOLEAN]
OBVIOUS

\* mark_terminal keeps a row's type and never takes a row away.
LEMMA MarkKeeps ==
    ASSUME RowsTyped, NEW r \in Runs, NEW s \in Terminal, MarkTerminal(r, s)
    PROVE  /\ run' \in [Runs -> [status : {"none"} \cup Active \cup Terminal, gen : Nat]]
           /\ \A q \in Runs : run[q].status # "none" => run'[q].status # "none"
BY DEF RowsTyped, MarkTerminal, Active, Terminal

\* Purging expired members keeps the leases that count.
LEMMA PurgedKeeps ==
    ASSUME RowsTyped
    PROVE  /\ Purged \in [Runs -> [owner : Execs \cup {None}, fresh : BOOLEAN]]
           /\ \A r \in Runs : lease[r].fresh => Purged[r] = lease[r]
           /\ \A r \in Runs : Purged[r].fresh => lease[r].fresh
<1>1. \A r \in Runs : Purged[r] = IF lease[r].fresh THEN lease[r] ELSE NoLease
  BY DEF Purged
<1>2. NoLease \in [owner : Execs \cup {None}, fresh : BOOLEAN] /\ ~NoLease.fresh
  BY DEF NoLease
<1>3. \A r \in Runs : Purged[r] \in [owner : Execs \cup {None}, fresh : BOOLEAN]
  BY <1>1, <1>2 DEF RowsTyped
<1>4. Purged \in [Runs -> [owner : Execs \cup {None}, fresh : BOOLEAN]]
  BY <1>3 DEF Purged
<1> QED
  BY <1>1, <1>2, <1>4

\* A call whose outcome is written goes on to close its ownership.
LEMMA ClosesStep ==
    ASSUME IInv, NEW x \in Execs, NEW s \in Terminal, ex[x].pc \in Holding,
           MarkTerminal(ex[x].run, s), Goto(x, "close"), UNCHANGED <<lease, day, owner>>,
           sess' \in [gen : Nat, status : {"none", "active", "closed", "error"}],
           code' \in [Runs -> Nat], \A q \in Runs : code'[q] = 0 \/ code'[q] = code[q],
           (~ex[x].broken /\ ex[x].pc \in Calling /\ code[ex[x].run] = ex[x].gen)
              => code'[ex[x].run] = 0
    PROVE  IInv'
<1>1. RowsTyped'
  BY MarkKeeps DEF IInv, Seated, Seat, Holding, RowsTyped
<1>2. ExecsTyped'
  BY DEF IInv, ExecsTyped, Executions, Pcs, Goto
<1>3. Seated'
  BY DEF IInv, ExecsTyped, Executions, Seated, Seat, Holding, Goto
<1>4. Taken'
  <2>1. \A q \in Runs : run[q].status # "none" => run'[q].status # "none"
    BY MarkKeeps DEF IInv, Seated, Seat, Holding
  <2>2. \A y \in Execs : ex'[y].run = ex[y].run /\ (ex[y].pc = "idle" => ex'[y].pc = "idle")
    BY DEF IInv, ExecsTyped, Executions, Holding, Goto
  <2> QED
    BY <2>1, <2>2, SandboxAssumption DEF IInv, Taken, Seated, Seat
<1>5. Alone'
  BY DEF IInv, ExecsTyped, Executions, Alone, Holding, Goto
<1>6. Rows'
  BY DEF IInv, ExecsTyped, Executions, Rows, Started, Alone, Seated, Seat, Holding, RowsTyped,
     MarkTerminal, Goto
<1>7. OwnerOnce'
  BY DEF IInv, OwnerOnce
<1>8. Leased'
  BY DEF IInv, ExecsTyped, Executions, Leased, LeasedTo, Holding, Goto
<1>9. Accounted'
  BY StillAccounted DEF IInv, ExecsTyped, Executions, Explains, Holding, Goto
<1>10. WithinLeases'
  <2>1. Held' \subseteq Held
    BY DEF IInv, RowsTyped, Held
  <2> QED
    BY <2>1, NoneAdded, SandboxAssumption DEF IInv
<1> QED
  BY <1>1, <1>2, <1>3, <1>4, <1>5, <1>6, <1>7, <1>8, <1>9, <1>10 DEF IInv

\* Steps that at most end processes, and touch neither rows of runs, leases nor calls.
LEMMA StopsStep ==
    ASSUME IInv, RowsTyped', OwnerOnce', UNCHANGED <<run, lease, ex>>, owner'.ended = owner.ended,
           \A q \in Runs : code'[q] = 0 \/ code'[q] = code[q]
    PROVE  IInv'
<1>1. RowsTyped'
  OBVIOUS
<1>2. ExecsTyped'
  BY DEF IInv, ExecsTyped
<1>3. Seated'
  BY DEF IInv, Seated
<1>4. Taken'
  BY DEF IInv, Taken
<1>5. Alone'
  BY DEF IInv, Alone
<1>6. Rows'
  BY DEF IInv, Rows
<1>7. OwnerOnce'
  OBVIOUS
<1>8. Leased'
  BY DEF IInv, Leased
<1>9. Accounted'
  BY DEF IInv, Accounted
<1>10. WithinLeases'
  <2>1. Held' \subseteq Held
    BY DEF IInv, RowsTyped, Held
  <2> QED
    BY <2>1, NoneAdded, SandboxAssumption DEF IInv
<1> QED
  BY <1>1, <1>2, <1>3, <1>4, <1>5, <1>6, <1>7, <1>8, <1>9, <1>10 DEF IInv

\* The chat's call takes up a run that had no row.
LEMMA SubmitStep ==
    ASSUME IInv, NEW x \in Execs, NEW r \in Runs, Submit(x, r)
    PROVE  IInv'
<1>1. RowsTyped'
  BY SandboxAssumption DEF IInv, RowsTyped, Seated, Seat, Active, Terminal, Submit
<1>2. ExecsTyped'
  <2>1. ex[x] \in Executions
    BY DEF IInv, ExecsTyped
  <2>2. PICK e : e = [ex[x] EXCEPT !.pc = "admit", !.run = r]
    OBVIOUS
  <2>3. ex' = [ex EXCEPT ![x] = e]
    BY <2>1, <2>2 DEF Submit, ExecsTyped, Executions
  <2>4. e \in Executions
    BY <2>1, <2>2 DEF Executions, Pcs
  <2> QED
    BY <2>3, <2>4 DEF IInv, ExecsTyped
<1>3. Seated'
  BY SandboxAssumption DEF IInv, ExecsTyped, Executions, Seated, Seat, Holding, Submit
<1>4. Taken'
  BY SandboxAssumption DEF IInv, Taken, Seated, Seat, RowsTyped, ExecsTyped, Executions, Submit
<1>5. Alone'
  BY SandboxAssumption DEF IInv, Alone, Seated, Seat, RowsTyped, ExecsTyped, Executions, Taken,
     Active, Terminal, Submit
<1>6. Rows'
  BY DEF IInv, Rows, Started, Seated, Seat, Alone, RowsTyped, ExecsTyped, Executions, Submit
<1>7. OwnerOnce'
  BY DEF IInv, OwnerOnce, Submit
<1>8. Leased'
  BY DEF IInv, ExecsTyped, Executions, Leased, LeasedTo, Holding, Seated, Seat, Submit
<1>9. Accounted'
  <2>1. \A q \in Runs : ~Explains(ex[x], q, code[q]) \/ Explains(ex'[x], q, code[q])
    BY DEF IInv, Seated, Seat, ExecsTyped, Executions, Explains, Calling, Submit, NextCall
  <2> QED
    BY <2>1, StillAccounted DEF IInv, ExecsTyped, Submit
<1>10. WithinLeases'
  <2>1. Held' \subseteq Held
    BY DEF Held, Submit
  <2> QED
    BY <2>1, NoneAdded, SandboxAssumption DEF IInv
<1> QED
  BY <1>1, <1>2, <1>3, <1>4, <1>5, <1>6, <1>7, <1>8, <1>9, <1>10 DEF IInv

\* A delivery of the task takes a run up, beside others of the same run.
LEMMA DeliverStep ==
    ASSUME IInv, NEW x \in Execs, NEW r \in Runs, Deliver(x, r)
    PROVE  IInv'
<1>1. RowsTyped'
  BY DEF IInv, RowsTyped, Deliver
<1>2. ExecsTyped'
  <2>1. ex[x] \in Executions
    BY DEF IInv, ExecsTyped
  <2>2. PICK e : e = [ex[x] EXCEPT !.run = r,
                 !.pc = IF run[r].status = "queued" THEN "admit" ELSE "done"]
    OBVIOUS
  <2>3. ex' = [ex EXCEPT ![x] = e]
    BY <2>1, <2>2 DEF Deliver, ExecsTyped, Executions
  <2>4. e \in Executions
    BY <2>1, <2>2 DEF Executions, Pcs
  <2> QED
    BY <2>3, <2>4 DEF IInv, ExecsTyped
<1>3. Seated'
  BY SandboxAssumption DEF IInv, ExecsTyped, Executions, Seated, Seat, Holding, Deliver
<1>4. Taken'
  BY DEF IInv, ExecsTyped, Executions, Taken, Deliver
<1>5. Alone'
  BY SandboxAssumption DEF IInv, Alone, Seated, Seat, RowsTyped, ExecsTyped, Executions, Taken,
     Active, Terminal, Deliver
<1>6. Rows'
  BY DEF IInv, ExecsTyped, Executions, Rows, Started, Deliver
<1>7. OwnerOnce'
  BY DEF IInv, OwnerOnce, Deliver
<1>8. Leased'
  BY DEF IInv, ExecsTyped, Executions, Leased, LeasedTo, Holding, Seated, Seat, Deliver
<1>9. Accounted'
  <2>1. \A q \in Runs : ~Explains(ex[x], q, code[q]) \/ Explains(ex'[x], q, code[q])
    BY DEF IInv, Seated, Seat, ExecsTyped, Executions, Explains, Calling, Deliver, NextCall
  <2> QED
    BY <2>1, StillAccounted DEF IInv, ExecsTyped, Deliver
<1>10. WithinLeases'
  <2>1. Held' \subseteq Held
    BY DEF Held, Deliver
  <2> QED
    BY <2>1, NoneAdded, SandboxAssumption DEF IInv
<1> QED
  BY <1>1, <1>2, <1>3, <1>4, <1>5, <1>6, <1>7, <1>8, <1>9, <1>10 DEF IInv

\* The call returns before it holds a lease.
LEMMA DenyByPolicyStep ==
    ASSUME IInv, NEW x \in Execs, DenyByPolicy(x)
    PROVE  IInv'
<1>1. RowsTyped'
  BY SandboxAssumption DEF IInv, RowsTyped, Seated, Seat, Active, Terminal, DenyByPolicy,
     MarkTerminal
<1>2. ExecsTyped'
  BY ReturnTyped DEF IInv, DenyByPolicy
<1>3. Seated'
  BY DEF IInv, ExecsTyped, Executions, Seated, Seat, Holding, DenyByPolicy, Return, IdleExec
<1>4. Taken'
  BY SandboxAssumption DEF IInv, Taken, Seated, Seat, RowsTyped, ExecsTyped, Executions,
     DenyByPolicy, MarkTerminal, Return, IdleExec
<1>5. Alone'
  BY DEF IInv, ExecsTyped, Executions, Alone, DenyByPolicy, Return, IdleExec
<1>6. Rows'
  BY DEF IInv, Rows, Started, Seated, Seat, Alone, RowsTyped, ExecsTyped, Executions,
     DenyByPolicy, MarkTerminal, Return, IdleExec
<1>7. OwnerOnce'
  BY DEF IInv, OwnerOnce, DenyByPolicy
<1>8. Leased'
  BY DEF IInv, ExecsTyped, Executions, Leased, LeasedTo, Holding, Seated, Seat, DenyByPolicy,
     Return, IdleExec
<1>9. Accounted'
  BY StillAccounted DEF IInv, ExecsTyped, Executions, Explains, Calling, DenyByPolicy, Return,
     IdleExec
<1>10. WithinLeases'
  <2>1. Held' \subseteq Held
    BY DEF Held, DenyByPolicy
  <2> QED
    BY <2>1, NoneAdded, SandboxAssumption DEF IInv
<1> QED
  BY <1>1, <1>2, <1>3, <1>4, <1>5, <1>6, <1>7, <1>8, <1>9, <1>10 DEF IInv

\* acquire_lease admits the run.
LEMMA AdmittedStep ==
    ASSUME IInv, NEW x \in Execs, ex[x].pc = "admit", CanAdmit(ex[x].run),
           lease' = [Purged EXCEPT ![ex[x].run] = [owner |-> x, fresh |-> TRUE]],
           ex' = [ex EXCEPT ![x].pc = "reserve", ![x].beat = TRUE, ![x].day = day],
           UNCHANGED <<run, sess, code, day, owner>>
    PROVE  IInv'
<1>1. RowsTyped'
  BY PurgedKeeps, Granted DEF IInv, Seated, Seat, RowsTyped
<1>2. ExecsTyped'
  <2>1. ex[x] \in Executions
    BY DEF IInv, ExecsTyped
  <2>2. PICK e : e = [ex[x] EXCEPT !.pc = "reserve", !.beat = TRUE, !.day = day]
    OBVIOUS
  <2>3. ex' = [ex EXCEPT ![x] = e]
    BY <2>1, <2>2 DEF ExecsTyped, Executions
  <2>4. e \in Executions
    BY <2>1, <2>2 DEF Executions, Pcs, IInv, RowsTyped
  <2> QED
    BY <2>3, <2>4 DEF IInv, ExecsTyped
<1>3. Seated'
  BY DEF IInv, ExecsTyped, Executions, Seated, Seat, Holding
<1>4. Taken'
  BY DEF IInv, ExecsTyped, Executions, Taken
<1>5. Alone'
  BY DEF IInv, ExecsTyped, Executions, Alone
<1>6. Rows'
  BY DEF IInv, ExecsTyped, Executions, Rows, Started
<1>7. OwnerOnce'
  BY DEF IInv, OwnerOnce
<1>8. Leased'
  <2>1. ex[x].run \in Runs /\ ~lease[ex[x].run].fresh
    BY DEF IInv, Seated, Seat, RowsTyped, CanAdmit, Held
  <2>2. lease'[ex[x].run] = [owner |-> x, fresh |-> TRUE]
    BY <2>1, PurgedKeeps DEF IInv
  <2>3. \A q \in Runs \ {ex[x].run} : lease'[q] = Purged[q]
    BY PurgedKeeps DEF IInv
  <2>4. ex'[x].run = ex[x].run /\ \A y \in Execs \ {x} : ex'[y] = ex[y]
    BY DEF IInv, ExecsTyped, Executions
  <2>5. \A y \in Execs : LeasedTo(y, ex'[y], lease')
    <3> SUFFICES ASSUME NEW y \in Execs, ex'[y].pc \in Holding, ~ex'[y].lost, ~ex'[y].lapsed
                 PROVE  lease'[ex'[y].run] = [owner |-> y, fresh |-> TRUE]
      BY DEF LeasedTo
    <3>1. CASE y = x
      BY <2>2, <2>4, <3>1
    <3>2. CASE y # x
      <4>1. ex[y].run \in Runs /\ lease[ex[y].run] = [owner |-> y, fresh |-> TRUE]
        BY <2>4, <3>2 DEF IInv, Seated, Seat, Leased, LeasedTo, Holding
      <4>2. ex[y].run # ex[x].run
        BY <2>1, <4>1
      <4> QED
        <5>1. lease[ex[y].run].fresh
          BY <4>1
        <5>2. Purged[ex[y].run] = lease[ex[y].run]
          BY <4>1, <5>1, PurgedKeeps DEF IInv
        <5>3. lease'[ex[y].run] = lease[ex[y].run]
          BY <2>3, <4>1, <4>2, <5>2
        <5> QED
          BY <2>4, <3>2, <4>1, <5>3
    <3> QED
      BY <3>1, <3>2
  <2>6. \A q \in Runs : lease'[q].fresh => lease'[q].owner \in Execs
    BY <2>1, <2>2, <2>3, PurgedKeeps DEF IInv, Leased
  <2> QED
    BY <2>5, <2>6 DEF Leased
<1>9. Accounted'
  BY StillAccounted DEF IInv, ExecsTyped, Executions, Explains, Calling
<1>10. WithinLeases'
  <2>1. Held' \subseteq Held \cup {ex[x].run}
    BY PurgedKeeps DEF IInv, Held
  <2> QED
    BY <2>1, OneAdded, SandboxAssumption DEF IInv, CanAdmit
<1> QED
  BY <1>1, <1>2, <1>3, <1>4, <1>5, <1>6, <1>7, <1>8, <1>9, <1>10 DEF IInv

\* acquire_lease finds the run admitted, or no room: the call returns.
LEMMA TurnedAwayStep ==
    ASSUME IInv, NEW x \in Execs, ex[x].pc = "admit", lease' = Purged, Return(x),
           UNCHANGED run \/ MarkTerminal(ex[x].run, "denied"),
           UNCHANGED <<sess, code, day, owner>>
    PROVE  IInv'
<1>1. RowsTyped'
  <2>1. ex[x].run \in Runs /\ "denied" \in Terminal
    BY DEF IInv, Seated, Seat, Terminal
  <2> QED
    BY <2>1, PurgedKeeps, MarkKeeps DEF IInv, RowsTyped
<1>2. ExecsTyped'
  BY ReturnTyped DEF IInv
<1>3. Seated'
  BY DEF IInv, ExecsTyped, Executions, Seated, Seat, Holding, Return, IdleExec
<1>4. Taken'
  <2>1. ex[x].run \in Runs /\ "denied" \in Terminal
    BY DEF IInv, Seated, Seat, Terminal
  <2>2. \A q \in Runs : run[q].status # "none" => run'[q].status # "none"
    BY <2>1, MarkKeeps DEF IInv
  <2>3. \A y \in Execs : ex'[y].run = ex[y].run /\ (ex[y].pc = "idle" => ex'[y].pc = "idle")
    BY DEF IInv, ExecsTyped, Executions, Return, IdleExec
  <2> QED
    BY <2>2, <2>3, SandboxAssumption DEF IInv, Taken, Seated, Seat
<1>5. Alone'
  BY DEF IInv, ExecsTyped, Executions, Alone, Return, IdleExec
<1>6. Rows'
  BY DEF IInv, ExecsTyped, Executions, Rows, Started, Alone, Seated, Seat, RowsTyped,
     MarkTerminal, Return, IdleExec
<1>7. OwnerOnce'
  BY DEF IInv, OwnerOnce
<1>8. Leased'
  <2>1. ex'[x].pc = "done" /\ \A y \in Execs \ {x} : ex'[y] = ex[y]
    BY DEF IInv, ExecsTyped, Executions, Return, IdleExec
  <2> QED
    BY <2>1, PurgedKeeps DEF IInv, Seated, Seat, Leased, LeasedTo, Holding
<1>9. Accounted'
  BY StillAccounted DEF IInv, ExecsTyped, Executions, Explains, Calling, Return, IdleExec
<1>10. WithinLeases'
  <2>1. Held' \subseteq Held
    BY PurgedKeeps DEF IInv, Held
  <2> QED
    BY <2>1, NoneAdded, SandboxAssumption DEF IInv
<1> QED
  BY <1>1, <1>2, <1>3, <1>4, <1>5, <1>6, <1>7, <1>8, <1>9, <1>10 DEF IInv

\* The three answers of acquire_lease.
LEMMA AcquireStep ==
    ASSUME IInv, NEW x \in Execs, Acquire(x)
    PROVE  IInv'
BY AdmittedStep, TurnedAwayStep DEF Acquire

\* The script may have run: the lease then has an owner that returned.
LEMMA AcquireFailsStep ==
    ASSUME IInv, NEW x \in Execs, NEW applied \in BOOLEAN, AcquireFails(x, applied)
    PROVE  IInv'
<1>1. RowsTyped'
  <2>1. run' \in [Runs -> [status : {"none"} \cup Active \cup Terminal, gen : Nat]]
    BY DEF IInv, Seated, Seat, RowsTyped, AcquireFails, MarkTerminal, Active, Terminal
  <2>2. lease' \in [Runs -> [owner : Execs \cup {None}, fresh : BOOLEAN]]
    BY Granted DEF IInv, Seated, Seat, RowsTyped, AcquireFails
  <2> QED
    BY <2>1, <2>2 DEF IInv, RowsTyped, AcquireFails
<1>2. ExecsTyped'
  BY ReturnTyped DEF IInv, AcquireFails
<1>3. Seated'
  BY DEF IInv, ExecsTyped, Executions, Seated, Seat, Holding, AcquireFails, Return, IdleExec
<1>4. Taken'
  BY SandboxAssumption DEF IInv, Taken, Seated, Seat, RowsTyped, ExecsTyped, Executions,
     AcquireFails, MarkTerminal, Return, IdleExec
<1>5. Alone'
  BY DEF IInv, ExecsTyped, Executions, Alone, AcquireFails, Return, IdleExec
<1>6. Rows'
  BY DEF IInv, Rows, Started, Seated, Seat, Alone, RowsTyped, ExecsTyped, Executions,
     AcquireFails, MarkTerminal, Return, IdleExec
<1>7. OwnerOnce'
  BY DEF IInv, OwnerOnce, AcquireFails
<1>8. Leased'
  <2>1. \A q \in Runs : lease[q].fresh => lease'[q] = lease[q]
    BY DEF IInv, RowsTyped, AcquireFails, CanAdmit, Held
  <2>2. \A q \in Runs : lease'[q] = lease[q] \/ lease'[q] = [owner |-> x, fresh |-> TRUE]
    BY DEF IInv, Seated, Seat, RowsTyped, AcquireFails
  <2>3. ex'[x].pc = "done" /\ \A y \in Execs \ {x} : ex'[y] = ex[y]
    BY DEF IInv, ExecsTyped, Executions, AcquireFails, Return, IdleExec
  <2>4. \A y \in Execs : LeasedTo(y, ex'[y], lease')
    BY <2>1, <2>3 DEF IInv, Seated, Seat, Leased, LeasedTo, Holding
  <2> QED
    BY <2>2, <2>4 DEF IInv, Leased
<1>9. Accounted'
  BY StillAccounted DEF IInv, ExecsTyped, Executions, Explains, Calling, AcquireFails, Return,
     IdleExec
<1>10. WithinLeases'
  <2>1. CASE CanAdmit(ex[x].run)
    <3>1. Held' \subseteq Held \cup {ex[x].run}
      BY DEF IInv, RowsTyped, Seated, Seat, AcquireFails, Purged, Held, NoLease
    <3> QED
      BY <2>1, <3>1, OneAdded, SandboxAssumption DEF IInv, CanAdmit
  <2>2. CASE ~CanAdmit(ex[x].run)
    <3>1. Held' \subseteq Held
      BY <2>2 DEF IInv, RowsTyped, AcquireFails, Purged, Held, NoLease
    <3> QED
      BY <3>1, NoneAdded, SandboxAssumption DEF IInv
  <2> QED
    BY <2>1, <2>2
<1> QED
  BY <1>1, <1>2, <1>3, <1>4, <1>5, <1>6, <1>7, <1>8, <1>9, <1>10 DEF IInv

\* reserve_daily books the seconds.
LEMMA ReservedStep ==
    ASSUME IInv, NEW x \in Execs, ex[x].pc = "reserve",
           ex' = [ex EXCEPT ![x].pc = "ensure", ![x].reserved = TRUE],
           UNCHANGED <<run, sess, code, lease, day, owner>>
    PROVE  IInv'
<1>1. RowsTyped'
  BY DEF IInv, RowsTyped
<1>2. ExecsTyped'
  <2>1. ex[x] \in Executions
    BY DEF IInv, ExecsTyped
  <2>2. PICK e : e = [ex[x] EXCEPT !.pc = "ensure", !.reserved = TRUE]
    OBVIOUS
  <2>3. ex' = [ex EXCEPT ![x] = e]
    BY <2>1, <2>2 DEF ExecsTyped, Executions
  <2>4. e \in Executions
    BY <2>1, <2>2 DEF Executions, Pcs
  <2> QED
    BY <2>3, <2>4 DEF IInv, ExecsTyped
<1>3. Seated'
  BY DEF IInv, ExecsTyped, Executions, Seated, Seat, Holding
<1>4. Taken'
  BY DEF IInv, ExecsTyped, Executions, Taken
<1>5. Alone'
  BY DEF IInv, ExecsTyped, Executions, Alone
<1>6. Rows'
  BY DEF IInv, ExecsTyped, Executions, Rows, Started
<1>7. OwnerOnce'
  BY DEF IInv, OwnerOnce
<1>8. Leased'
  BY DEF IInv, ExecsTyped, Executions, Leased, LeasedTo, Holding
<1>9. Accounted'
  BY StillAccounted DEF IInv, ExecsTyped, Executions, Explains, Calling
<1>10. WithinLeases'
  <2>1. Held' \subseteq Held
    BY DEF IInv, RowsTyped, Held
  <2> QED
    BY <2>1, NoneAdded, SandboxAssumption DEF IInv
<1> QED
  BY <1>1, <1>2, <1>3, <1>4, <1>5, <1>6, <1>7, <1>8, <1>9, <1>10 DEF IInv

\* A refusal on the way: DENIED, and the ownership closes.
LEMMA RefusedStep ==
    ASSUME IInv, NEW x \in Execs, ex[x].pc = "reserve", MarkTerminal(ex[x].run, "denied"),
           Goto(x, "close"), UNCHANGED <<sess, code, lease, day, owner>>
    PROVE  IInv'
<1>1. "denied" \in Terminal /\ ex[x].pc \in Holding /\ ex[x].pc \notin Calling
  BY DEF Terminal, Holding, Calling
<1> QED
  BY <1>1, ClosesStep DEF IInv, RowsTyped

\* Booked or refused.
LEMMA ReserveStep ==
    ASSUME IInv, NEW x \in Execs, Reserve(x)
    PROVE  IInv'
<1>1. \/ MarkTerminal(ex[x].run, "denied") /\ Goto(x, "close")
      \/ UNCHANGED run /\ ex' = [ex EXCEPT ![x].pc = "ensure", ![x].reserved = TRUE]
  BY DEF Reserve
<1>2. ex[x].pc = "reserve" /\ UNCHANGED <<sess, code, lease, day, owner>>
  BY DEF Reserve
<1> QED
  BY <1>1, <1>2, RefusedStep, ReservedStep

\* What Redis may have booked does not matter here.
LEMMA ReserveFailsStep ==
    ASSUME IInv, NEW x \in Execs, NEW applied \in BOOLEAN, ReserveFails(x, applied)
    PROVE  IInv'
BY RefusedStep DEF ReserveFails

\* The call learns its generation.
LEMMA EnsureStep ==
    ASSUME IInv, NEW x \in Execs, Ensure(x)
    PROVE  IInv'
<1>1. RowsTyped'
  BY DEF IInv, RowsTyped, Ensure
<1>2. ExecsTyped'
  <2>1. ex[x] \in Executions
    BY DEF IInv, ExecsTyped
  <2>2. PICK g, a : g = NextGeneration /\ a = (sess.status # "active")
    OBVIOUS
  <2>3. g \in Nat /\ a \in BOOLEAN
    BY <2>2 DEF IInv, RowsTyped, NextGeneration
  <2>4. ex' = [ex EXCEPT ![x] = [ex[x] EXCEPT !.pc = "start", !.gen = g, !.advance = a]]
    BY <2>2 DEF Ensure
  <2>5. [ex[x] EXCEPT !.pc = "start", !.gen = g, !.advance = a] \in Executions
    BY <2>1, <2>3 DEF Executions, Pcs
  <2> QED
    BY <2>4, <2>5 DEF IInv, ExecsTyped
<1>3. Seated'
  BY DEF IInv, ExecsTyped, Executions, Seated, Seat, Holding, Ensure
<1>4. Taken'
  BY DEF IInv, ExecsTyped, Executions, Taken, Ensure
<1>5. Alone'
  BY DEF IInv, ExecsTyped, Executions, Alone, Ensure
<1>6. Rows'
  BY DEF IInv, ExecsTyped, Executions, Rows, Started, Ensure
<1>7. OwnerOnce'
  BY DEF IInv, OwnerOnce, Ensure
<1>8. Leased'
  BY DEF IInv, ExecsTyped, Executions, Leased, LeasedTo, Holding, Seated, Seat, Ensure
<1>9. Accounted'
  BY StillAccounted DEF IInv, ExecsTyped, Executions, Explains, Calling, Ensure
<1>10. WithinLeases'
  <2>1. Held' \subseteq Held
    BY DEF Held, Ensure
  <2> QED
    BY <2>1, NoneAdded, SandboxAssumption DEF IInv
<1> QED
  BY <1>1, <1>2, <1>3, <1>4, <1>5, <1>6, <1>7, <1>8, <1>9, <1>10 DEF IInv

\* No container: no process to account for.
LEMMA EnsureFailsStep ==
    ASSUME IInv, NEW x \in Execs, NEW status \in {"denied", "failed"},
           EnsureFails(x, status)
    PROVE  IInv'
<1>1. status \in Terminal /\ ex[x].pc \in Holding /\ ex[x].pc \notin Calling
  BY DEF Terminal, Holding, Calling, EnsureFails
<1>2. sess' \in [gen : Nat, status : {"none", "active", "closed", "error"}]
  BY DEF IInv, RowsTyped, EnsureFails, NextGeneration
<1> QED
  BY <1>1, <1>2, ClosesStep DEF IInv, RowsTyped, EnsureFails

\* The row takes the generation of the call that will run it.
LEMMA StartStep ==
    ASSUME IInv, NEW x \in Execs, Start(x)
    PROVE  IInv'
<1>1. RowsTyped'
  <2>1. run' \in [Runs -> [status : {"none"} \cup Active \cup Terminal, gen : Nat]]
    BY DEF IInv, Seated, Seat, RowsTyped, ExecsTyped, Executions, Start, MarkTerminal, Active,
       Terminal
  <2>2. sess' \in [gen : Nat, status : {"none", "active", "closed", "error"}]
    BY DEF IInv, RowsTyped, ExecsTyped, Executions, Start
  <2> QED
    BY <2>1, <2>2 DEF IInv, RowsTyped, Start
<1>2. ExecsTyped'
  BY SandboxAssumption DEF IInv, ExecsTyped, Executions, Pcs, Start
<1>3. Seated'
  BY DEF IInv, ExecsTyped, Executions, Seated, Seat, Holding, Start
<1>4. Taken'
  <2>1. \A r \in Runs : run[r].status # "none" => run'[r].status # "none"
    BY DEF IInv, Seated, Seat, RowsTyped, Start, MarkTerminal
  <2>2. \A y \in Execs : ex'[y].run = ex[y].run /\ (ex'[y].pc # "idle" => ex[y].pc # "idle")
    BY DEF IInv, ExecsTyped, Executions, Start
  <2> QED
    BY <2>1, <2>2, SandboxAssumption DEF IInv, Taken, Seated, Seat
<1>5. Alone'
  BY DEF IInv, ExecsTyped, Executions, Alone, Start
<1>6. Rows'
  BY DEF IInv, Rows, Started, Seated, Seat, Alone, RowsTyped, ExecsTyped, Executions, Start,
     MarkTerminal
<1>7. OwnerOnce'
  BY DEF IInv, OwnerOnce, Start
<1>8. Leased'
  BY DEF IInv, ExecsTyped, Executions, Leased, LeasedTo, Holding, Seated, Seat, Start
<1>9. Accounted'
  BY StillAccounted DEF IInv, ExecsTyped, Executions, Explains, Calling, Start
<1>10. WithinLeases'
  <2>1. Held' \subseteq Held
    BY DEF Held, Start
  <2> QED
    BY <2>1, NoneAdded, SandboxAssumption DEF IInv
<1> QED
  BY <1>1, <1>2, <1>3, <1>4, <1>5, <1>6, <1>7, <1>8, <1>9, <1>10 DEF IInv

\* The only step that starts a process: its call explains it.
LEMMA ExecuteStep ==
    ASSUME IInv, NEW x \in Execs, Execute(x)
    PROVE  IInv'
<1>1. RowsTyped'
  <2>1. code' \in [Runs -> Nat]
    BY DEF IInv, Seated, Seat, RowsTyped, ExecsTyped, Executions, Execute
  <2> QED
    BY <2>1 DEF IInv, RowsTyped, Execute
<1>2. ExecsTyped'
  BY SandboxAssumption DEF IInv, ExecsTyped, Executions, Pcs, Execute, Goto
<1>3. Seated'
  BY DEF IInv, ExecsTyped, Executions, Seated, Seat, Holding, Execute, Goto
<1>4. Taken'
  BY DEF IInv, ExecsTyped, Executions, Taken, Execute, Goto
<1>5. Alone'
  BY DEF IInv, ExecsTyped, Executions, Alone, Execute, Goto
<1>6. Rows'
  BY DEF IInv, ExecsTyped, Executions, Rows, Started, Execute, Goto
<1>7. OwnerOnce'
  BY DEF IInv, OwnerOnce, Execute
<1>8. Leased'
  BY DEF IInv, ExecsTyped, Executions, Leased, LeasedTo, Holding, Seated, Seat, Execute, Goto
<1>9. Accounted'
  <2>1. \A q \in Runs : code[q] = 0
    BY DEF Execute, SessionBusy
  <2>2. Explains(ex'[x], ex[x].run, code'[ex[x].run])
    BY DEF IInv, Seated, Seat, RowsTyped, ExecsTyped, Executions, Explains, Calling, Execute,
       Goto
  <2> QED
    BY <2>1, <2>2 DEF IInv, RowsTyped, Accounted, Execute
<1>10. WithinLeases'
  <2>1. Held' \subseteq Held
    BY DEF Held, Execute
  <2> QED
    BY <2>1, NoneAdded, SandboxAssumption DEF IInv
<1> QED
  BY <1>1, <1>2, <1>3, <1>4, <1>5, <1>6, <1>7, <1>8, <1>9, <1>10 DEF IInv

\* The runner answers once the process has ended.
LEMMA AnswerStep ==
    ASSUME IInv, NEW x \in Execs, NEW status \in {"succeeded", "timeout", "killed"},
           Answer(x, status)
    PROVE  IInv'
<1>1. status \in Terminal /\ ex[x].pc \in Holding
  BY DEF Terminal, Holding, Answer
<1> QED
  BY <1>1, ClosesStep DEF IInv, RowsTyped, Answer

\* The process may go on: the call is marked broken.
LEMMA CallFailsStep ==
    ASSUME IInv, NEW x \in Execs, CallFails(x)
    PROVE  IInv'
<1>1. RowsTyped'
  BY SandboxAssumption DEF IInv, RowsTyped, Seated, Seat, Active, Terminal, CallFails,
     MarkTerminal
<1>2. ExecsTyped'
  <2>1. ex[x] \in Executions
    BY DEF IInv, ExecsTyped
  <2>2. PICK e : e = [ex[x] EXCEPT !.pc = "close", !.broken = TRUE]
    OBVIOUS
  <2>3. ex' = [ex EXCEPT ![x] = e]
    BY <2>1, <2>2 DEF CallFails, ExecsTyped, Executions
  <2>4. e \in Executions
    BY <2>1, <2>2 DEF Executions, Pcs
  <2> QED
    BY <2>3, <2>4 DEF IInv, ExecsTyped
<1>3. Seated'
  BY DEF IInv, ExecsTyped, Executions, Seated, Seat, Holding, CallFails
<1>4. Taken'
  BY SandboxAssumption DEF IInv, Taken, Seated, Seat, RowsTyped, ExecsTyped, Executions,
     CallFails, MarkTerminal
<1>5. Alone'
  BY DEF IInv, ExecsTyped, Executions, Alone, CallFails
<1>6. Rows'
  BY DEF IInv, Rows, Started, Seated, Seat, Alone, RowsTyped, ExecsTyped, Executions,
     CallFails, MarkTerminal
<1>7. OwnerOnce'
  BY DEF IInv, OwnerOnce, CallFails
<1>8. Leased'
  BY DEF IInv, ExecsTyped, Executions, Leased, LeasedTo, Holding, Seated, Seat, CallFails
<1>9. Accounted'
  BY StillAccounted DEF IInv, ExecsTyped, Executions, Explains, Calling, CallFails
<1>10. WithinLeases'
  <2>1. Held' \subseteq Held
    BY DEF Held, CallFails
  <2> QED
    BY <2>1, NoneAdded, SandboxAssumption DEF IInv
<1> QED
  BY <1>1, <1>2, <1>3, <1>4, <1>5, <1>6, <1>7, <1>8, <1>9, <1>10 DEF IInv

\* The row stays as it is; the call is marked broken.
LEMMA CommitFailsStep ==
    ASSUME IInv, NEW x \in Execs, CommitFails(x)
    PROVE  IInv'
<1>1. RowsTyped'
  BY DEF IInv, RowsTyped, CommitFails
<1>2. ExecsTyped'
  <2>1. ex[x] \in Executions
    BY DEF IInv, ExecsTyped
  <2>2. PICK e : e = [ex[x] EXCEPT !.pc = "close", !.broken = TRUE, !.advance = FALSE]
    OBVIOUS
  <2>3. ex' = [ex EXCEPT ![x] = e]
    BY <2>1, <2>2 DEF CommitFails, ExecsTyped, Executions
  <2>4. e \in Executions
    BY <2>1, <2>2 DEF Executions, Pcs
  <2> QED
    BY <2>3, <2>4 DEF IInv, ExecsTyped
<1>3. Seated'
  BY DEF IInv, ExecsTyped, Executions, Seated, Seat, Holding, CommitFails
<1>4. Taken'
  BY DEF IInv, ExecsTyped, Executions, Taken, CommitFails
<1>5. Alone'
  BY DEF IInv, ExecsTyped, Executions, Alone, CommitFails
<1>6. Rows'
  BY DEF IInv, ExecsTyped, Executions, Rows, Started, CommitFails
<1>7. OwnerOnce'
  BY DEF IInv, OwnerOnce, CommitFails
<1>8. Leased'
  BY DEF IInv, ExecsTyped, Executions, Leased, LeasedTo, Holding, Seated, Seat, CommitFails
<1>9. Accounted'
  BY StillAccounted DEF IInv, ExecsTyped, Executions, Explains, Calling, CommitFails
<1>10. WithinLeases'
  <2>1. Held' \subseteq Held
    BY DEF Held, CommitFails
  <2> QED
    BY <2>1, NoneAdded, SandboxAssumption DEF IInv
<1> QED
  BY <1>1, <1>2, <1>3, <1>4, <1>5, <1>6, <1>7, <1>8, <1>9, <1>10 DEF IInv

\* From now on the lease is no longer the call's.
LEMMA LoseLeaseStep ==
    ASSUME IInv, NEW x \in Execs, LoseLease(x)
    PROVE  IInv'
<1>1. RowsTyped'
  BY DEF IInv, RowsTyped, LoseLease
<1>2. ExecsTyped'
  <2>1. ex[x] \in Executions
    BY DEF IInv, ExecsTyped
  <2>2. PICK e : e = [ex[x] EXCEPT !.lost = TRUE,
         !.pc = IF ex[x].pc \in {"waiting", "executing"} THEN "kill" ELSE ex[x].pc,
         !.pending = ex[x].pending \/ ex[x].pc \in {"waiting", "executing"},
         !.cause = IF ex[x].pc \in {"waiting", "executing"}
                   THEN "accounting" ELSE ex[x].cause]
    OBVIOUS
  <2>3. ex' = [ex EXCEPT ![x] = e]
    BY <2>1, <2>2 DEF LoseLease, ExecsTyped, Executions
  <2>4. e \in Executions
    BY <2>1, <2>2, ZenonT(60) DEF Executions, Pcs
  <2> QED
    BY <2>3, <2>4 DEF IInv, ExecsTyped
<1>3. /\ \A y \in Execs : y # x => ex'[y] = ex[y]
      /\ ex'[x].run = ex[x].run /\ ex'[x].gen = ex[x].gen /\ ex'[x].beat = ex[x].beat
      /\ ex'[x].broken = ex[x].broken /\ ex'[x].lost /\ ex[x].beat
      /\ \/ ex'[x].pc = ex[x].pc
         \/ ex[x].pc \in {"waiting", "executing"} /\ ex'[x].pc = "kill"
      /\ UNCHANGED <<run, sess, code, lease, day, owner>>
  <2>1. ex[x] \in Executions
    BY DEF IInv, ExecsTyped
  <2>2. ex'[x] = [ex[x] EXCEPT !.lost = TRUE,
         !.pc = IF ex[x].pc \in {"waiting", "executing"} THEN "kill" ELSE ex[x].pc,
         !.pending = ex[x].pending \/ ex[x].pc \in {"waiting", "executing"},
         !.cause = IF ex[x].pc \in {"waiting", "executing"}
                   THEN "accounting" ELSE ex[x].cause]
    BY <2>1 DEF LoseLease, IInv, ExecsTyped, Executions
  <2>3. \A y \in Execs : y # x => ex'[y] = ex[y]
    BY DEF LoseLease, IInv, ExecsTyped
  <2>4. ex[x].beat /\ UNCHANGED <<run, sess, code, lease, day, owner>>
    BY DEF LoseLease
  <2> QED
    BY <2>1, <2>2, <2>3, <2>4 DEF Executions
<1>4. Seated' /\ Taken'
  <2>1. Seated'
    BY <1>3, ZenonT(60) DEF IInv, Seated, Seat, Holding
  <2>2. Taken'
    BY <1>3 DEF IInv, Taken
  <2> QED
    BY <2>1, <2>2
<1>5. Alone'
  BY <1>3 DEF IInv, Alone
<1>6. Rows'
  BY <1>3 DEF IInv, Rows, Started
<1>7. OwnerOnce'
  BY <1>3 DEF IInv, OwnerOnce
<1>8. Leased'
  BY <1>3 DEF IInv, Leased, LeasedTo
<1>9. Accounted'
  BY <1>3, StillAccounted DEF IInv, Explains, Calling
<1>10. WithinLeases'
  <2>1. Held' \subseteq Held
    BY DEF Held, LoseLease
  <2> QED
    BY <2>1, NoneAdded, SandboxAssumption DEF IInv
<1> QED
  BY <1>1, <1>2, <1>3, <1>4, <1>5, <1>6, <1>7, <1>8, <1>9, <1>10 DEF IInv

\* Cancelled before its call; a script Redis ran may leave a lease.
LEMMA CancelEarlyStep ==
    ASSUME IInv, NEW x \in Execs, NEW applied \in BOOLEAN, CancelEarly(x, applied)
    PROVE  IInv'
<1>1. RowsTyped'
  BY SandboxAssumption DEF IInv, RowsTyped, Seated, Seat, CancelEarly, CanAdmit, Held
<1>2. ExecsTyped'
  BY SandboxAssumption DEF IInv, ExecsTyped, Executions, Pcs, CancelEarly
<1>3. Seated'
  BY DEF IInv, ExecsTyped, Executions, Seated, Seat, Holding, CancelEarly
<1>4. Taken'
  BY DEF IInv, ExecsTyped, Executions, Taken, CancelEarly
<1>5. Alone'
  BY DEF IInv, ExecsTyped, Executions, Alone, CancelEarly
<1>6. Rows'
  BY DEF IInv, ExecsTyped, Executions, Rows, Started, CancelEarly
<1>7. OwnerOnce'
  BY DEF IInv, OwnerOnce, CancelEarly
<1>8. Leased'
  BY DEF IInv, RowsTyped, ExecsTyped, Executions, Leased, LeasedTo, Holding, Seated, Seat,
     CancelEarly, CanAdmit, Held
<1>9. Accounted'
  BY StillAccounted DEF IInv, ExecsTyped, Executions, Explains, Calling, CancelEarly
<1>10. WithinLeases'
  <2>1. CASE CanAdmit(ex[x].run)
    <3>1. Held' \subseteq Held \cup {ex[x].run}
      BY DEF IInv, RowsTyped, Seated, Seat, CancelEarly, Purged, Held, NoLease
    <3> QED
      BY <2>1, <3>1, OneAdded, SandboxAssumption DEF IInv, CanAdmit
  <2>2. CASE ~CanAdmit(ex[x].run)
    <3>1. Held' \subseteq Held
      BY <2>2 DEF IInv, RowsTyped, CancelEarly, Purged, Held, NoLease
    <3> QED
      BY <3>1, NoneAdded, SandboxAssumption DEF IInv
  <2> QED
    BY <2>1, <2>2
<1> QED
  BY <1>1, <1>2, <1>3, <1>4, <1>5, <1>6, <1>7, <1>8, <1>9, <1>10 DEF IInv

\* Cancelled in its call: the kill is to be confirmed.
LEMMA CancelCallStep ==
    ASSUME IInv, NEW x \in Execs, CancelCall(x)
    PROVE  IInv'
<1>1. RowsTyped'
  BY DEF IInv, RowsTyped, CancelCall
<1>2. ExecsTyped'
  BY SandboxAssumption DEF IInv, ExecsTyped, Executions, Pcs, CancelCall
<1>3. Seated'
  BY DEF IInv, ExecsTyped, Executions, Seated, Seat, Holding, CancelCall
<1>4. Taken'
  BY DEF IInv, ExecsTyped, Executions, Taken, CancelCall
<1>5. Alone'
  BY DEF IInv, ExecsTyped, Executions, Alone, CancelCall
<1>6. Rows'
  BY DEF IInv, ExecsTyped, Executions, Rows, Started, CancelCall
<1>7. OwnerOnce'
  BY DEF IInv, OwnerOnce, CancelCall
<1>8. Leased'
  BY DEF IInv, ExecsTyped, Executions, Leased, LeasedTo, Holding, Seated, Seat, CancelCall
<1>9. Accounted'
  BY StillAccounted DEF IInv, ExecsTyped, Executions, Explains, Calling, CancelCall
<1>10. WithinLeases'
  <2>1. Held' \subseteq Held
    BY DEF Held, CancelCall
  <2> QED
    BY <2>1, NoneAdded, SandboxAssumption DEF IInv
<1> QED
  BY <1>1, <1>2, <1>3, <1>4, <1>5, <1>6, <1>7, <1>8, <1>9, <1>10 DEF IInv

\* The loop tears the call's own generation down.
LEMMA KillLoopStep ==
    ASSUME IInv, NEW x \in Execs, KillLoop(x)
    PROVE  IInv'
<1>1. "killed" \in Terminal /\ ex[x].pc \in Holding /\ ex[x].run \in Runs
  BY DEF IInv, Seated, Seat, Terminal, Holding, KillLoop
<1>2. code' \in [Runs -> Nat] /\ \A q \in Runs : code'[q] = 0 \/ code'[q] = code[q]
  BY DEF IInv, RowsTyped, KillLoop, TearDown, KilledIn
<1>3. code[ex[x].run] = ex[x].gen => code'[ex[x].run] = 0
  BY <1>1 DEF KillLoop, TearDown, KilledIn
<1>4. Goto(x, "close")
  BY DEF KillLoop, Goto
<1> QED
  BY <1>1, <1>2, <1>3, <1>4, ClosesStep DEF IInv, RowsTyped, KillLoop

\* The kill reads the generation from the row: it is the call's, or the owner ended it.
LEMMA ConfirmKillStep ==
    ASSUME IInv, NEW x \in Execs, ConfirmKill(x)
    PROVE  IInv'
<1>1. RowsTyped'
  <2>1. run' \in [Runs -> [status : {"none"} \cup Active \cup Terminal, gen : Nat]]
    BY DEF IInv, Seated, Seat, RowsTyped, ConfirmKill, MarkTerminal, Active, Terminal
  <2>2. sess' \in [gen : Nat, status : {"none", "active", "closed", "error"}]
    BY DEF IInv, RowsTyped, ConfirmKill, Advanced
  <2>3. code' \in [Runs -> Nat]
    BY DEF IInv, RowsTyped, ConfirmKill, TearDown, KilledIn
  <2> QED
    BY <2>1, <2>2, <2>3 DEF IInv, RowsTyped, ConfirmKill
<1>2. ExecsTyped'
  BY SandboxAssumption DEF IInv, ExecsTyped, Executions, Pcs, ConfirmKill
<1>3. Seated'
  BY DEF IInv, ExecsTyped, Executions, Seated, Seat, Holding, ConfirmKill
<1>4. Taken'
  <2>1. \A q \in Runs : run[q].status # "none" => run'[q].status # "none"
    <3>1. ex[x].run \in Runs /\ "killed" \in Terminal
      BY DEF IInv, Seated, Seat, ConfirmKill, Terminal
    <3> QED
      BY <3>1, MarkKeeps DEF IInv, ConfirmKill
  <2>2. \A y \in Execs : ex'[y].run = ex[y].run /\ (ex[y].pc = "idle" => ex'[y].pc = "idle")
    BY DEF IInv, ExecsTyped, Executions, ConfirmKill
  <2> QED
    BY <2>1, <2>2, SandboxAssumption DEF IInv, Taken, Seated, Seat
<1>5. Alone'
  BY DEF IInv, ExecsTyped, Executions, Alone, ConfirmKill
<1>6. Rows'
  BY DEF IInv, Rows, Started, Seated, Seat, Alone, RowsTyped, ExecsTyped, Executions,
     ConfirmKill, MarkTerminal
<1>7. OwnerOnce'
  BY DEF IInv, OwnerOnce, ConfirmKill
<1>8. Leased'
  BY DEF IInv, ExecsTyped, Executions, Leased, LeasedTo, Holding, Seated, Seat, ConfirmKill
<1>9. Accounted'
  <2> DEFINE r == ex[x].run
  <2>1. r \in Runs /\ r \notin TaskRuns
    BY DEF IInv, Seated, Seat, ConfirmKill
  <2>2. \A q \in Runs : code'[q] = 0 \/ code'[q] = code[q]
    BY DEF IInv, RowsTyped, ConfirmKill, TearDown, KilledIn
  <2>3. ASSUME NEW q \in Runs, code'[q] # 0, Explains(ex[x], q, code[q])
        PROVE  q \in owner'.ended \/ Explains(ex'[x], q, code[q])
    <3>1. q = r
      BY <2>3 DEF Explains
    <3>2. CASE ex[x].broken
      BY <2>3, <3>2 DEF IInv, ExecsTyped, Executions, Explains, ConfirmKill
    <3>3. CASE ~ex[x].broken /\ r \notin owner.ended
      <4>1. run[r].status = "running" /\ run[r].gen = ex[x].gen
        BY <2>1, <3>3 DEF IInv, Rows, Started, ConfirmKill
      <4>2. ex[x].gen = code[r]
        BY <2>3, <3>1, <3>3 DEF Explains, ConfirmKill
      <4>3. code'[r] = 0
        BY <4>1, <4>2, <2>1 DEF ConfirmKill, Active, TearDown, KilledIn
      <4> QED
        BY <2>3, <3>1, <4>3
    <3>4. CASE r \in owner.ended
      BY <3>1, <3>4 DEF ConfirmKill
    <3> QED
      BY <3>2, <3>3, <3>4
  <2> QED
    BY <2>2, <2>3, StillAccounted DEF IInv, ExecsTyped, ConfirmKill
<1>10. WithinLeases'
  <2>1. Held' \subseteq Held
    BY DEF Held, ConfirmKill
  <2> QED
    BY <2>1, NoneAdded, SandboxAssumption DEF IInv
<1> QED
  BY <1>1, <1>2, <1>3, <1>4, <1>5, <1>6, <1>7, <1>8, <1>9, <1>10 DEF IInv

\* A kill that fails may have done the runner's part.
LEMMA KillFailsStep ==
    ASSUME IInv, NEW x \in Execs, NEW torn \in BOOLEAN, KillFails(x, torn)
    PROVE  IInv'
<1>1. code' \in [Runs -> Nat] /\ \A q \in Runs : code'[q] = 0 \/ code'[q] = code[q]
  BY DEF IInv, RowsTyped, KillFails, TearDown, KilledIn
<1>2. RowsTyped' /\ OwnerOnce'
  BY <1>1 DEF IInv, RowsTyped, OwnerOnce, KillFails
<1> QED
  BY <1>1, <1>2, StopsStep DEF IInv, KillFails

\* The row alone.
LEMMA CancelRowStep ==
    ASSUME IInv, NEW x \in Execs, CancelRow(x)
    PROVE  IInv'
<1>1. RowsTyped'
  BY SandboxAssumption DEF IInv, RowsTyped, Seated, Seat, Active, Terminal, CancelRow,
     MarkTerminal
<1>2. ExecsTyped'
  BY SandboxAssumption DEF IInv, ExecsTyped, Executions, Pcs, CancelRow, Goto
<1>3. Seated'
  BY DEF IInv, ExecsTyped, Executions, Seated, Seat, Holding, CancelRow, Goto
<1>4. Taken'
  BY SandboxAssumption DEF IInv, Taken, Seated, Seat, RowsTyped, ExecsTyped, Executions,
     CancelRow, MarkTerminal, Goto
<1>5. Alone'
  BY DEF IInv, ExecsTyped, Executions, Alone, CancelRow, Goto
<1>6. Rows'
  BY DEF IInv, Rows, Started, Seated, Seat, Alone, RowsTyped, ExecsTyped, Executions,
     CancelRow, MarkTerminal, Goto
<1>7. OwnerOnce'
  BY DEF IInv, OwnerOnce, CancelRow
<1>8. Leased'
  BY DEF IInv, ExecsTyped, Executions, Leased, LeasedTo, Holding, Seated, Seat, CancelRow, Goto
<1>9. Accounted'
  BY StillAccounted DEF IInv, ExecsTyped, Executions, Explains, Calling, CancelRow, Goto
<1>10. WithinLeases'
  <2>1. Held' \subseteq Held
    BY DEF Held, CancelRow
  <2> QED
    BY <2>1, NoneAdded, SandboxAssumption DEF IInv
<1> QED
  BY <1>1, <1>2, <1>3, <1>4, <1>5, <1>6, <1>7, <1>8, <1>9, <1>10 DEF IInv

\* The lease goes back under the call's own token.
LEMMA CloseStep ==
    ASSUME IInv, NEW x \in Execs, NEW spent \in 0..Reserved,
           NEW settles \in BOOLEAN, NEW releases \in BOOLEAN, Close(x, spent, settles, releases)
    PROVE  IInv'
<1>1. RowsTyped'
  BY SandboxAssumption DEF IInv, RowsTyped, Seated, Seat, Close, Released, NoLease
<1>2. ExecsTyped'
  <2>1. ex[x] \in Executions
    BY DEF IInv, ExecsTyped
  <2>2. PICK s, p : /\ s = (IF ex[x].reserved THEN spent ELSE 0)
                    /\ p = (IF ex[x].cancelled /\ ~ex[x].pending THEN "row" ELSE "done")
    OBVIOUS
  <2>3. s \in 0..Reserved /\ p \in Pcs
    BY <2>2, SandboxAssumption DEF Pcs
  <2>4. PICK e : e = [IdleExec EXCEPT !.run = ex[x].run, !.day = ex[x].day,
         !.reserved = ex[x].reserved, !.settled = TRUE, !.broken = ex[x].broken,
         !.spent = s, !.pc = p]
    OBVIOUS
  <2>5. ex' = [ex EXCEPT ![x] = e]
    BY <2>2, <2>4 DEF Close
  <2>6. e \in Executions
    BY <2>1, <2>3, <2>4, IdleTyped DEF Executions
  <2> QED
    BY <2>5, <2>6 DEF IInv, ExecsTyped
<1>3. Seated'
  BY DEF IInv, ExecsTyped, Executions, Seated, Seat, Holding, Close, IdleExec
<1>4. Taken'
  BY DEF IInv, ExecsTyped, Executions, Taken, Seated, Seat, Close, IdleExec
<1>5. Alone'
  BY DEF IInv, ExecsTyped, Executions, Alone, Close, IdleExec
<1>6. Rows'
  BY DEF IInv, ExecsTyped, Executions, Rows, Started, Close, IdleExec
<1>7. OwnerOnce'
  BY DEF IInv, OwnerOnce, Close
<1>8. Leased'
  BY DEF IInv, RowsTyped, ExecsTyped, Executions, Leased, LeasedTo, Holding, Seated, Seat,
     Close, IdleExec, Released, NoLease
<1>9. Accounted'
  BY StillAccounted DEF IInv, ExecsTyped, Executions, Explains, Calling, Close, IdleExec
<1>10. WithinLeases'
  <2>1. Held' \subseteq Held
    BY DEF Held, IInv, RowsTyped, Close, Released, NoLease
  <2> QED
    BY <2>1, NoneAdded, SandboxAssumption DEF IInv
<1> QED
  BY <1>1, <1>2, <1>3, <1>4, <1>5, <1>6, <1>7, <1>8, <1>9, <1>10 DEF IInv

\* The process may go on: its call is dead.
LEMMA CrashStep ==
    ASSUME IInv, NEW x \in Execs, Crash(x)
    PROVE  IInv'
<1>1. RowsTyped'
  BY DEF IInv, RowsTyped, Crash
<1>2. ExecsTyped'
  BY SandboxAssumption DEF IInv, ExecsTyped, Executions, Pcs, Crash, IdleExec
<1>3. Seated'
  BY DEF IInv, ExecsTyped, Executions, Seated, Seat, Holding, Crash, IdleExec
<1>4. Taken'
  BY DEF IInv, ExecsTyped, Executions, Taken, Crash, IdleExec
<1>5. Alone'
  BY DEF IInv, ExecsTyped, Executions, Alone, Crash, IdleExec
<1>6. Rows'
  BY DEF IInv, ExecsTyped, Executions, Rows, Started, Crash, IdleExec
<1>7. OwnerOnce'
  BY DEF IInv, OwnerOnce, Crash
<1>8. Leased'
  BY DEF IInv, ExecsTyped, Executions, Leased, LeasedTo, Holding, Seated, Seat, Crash, IdleExec
<1>9. Accounted'
  BY StillAccounted DEF IInv, ExecsTyped, Executions, Explains, Calling, Crash, IdleExec
<1>10. WithinLeases'
  <2>1. Held' \subseteq Held
    BY DEF Held, Crash
  <2> QED
    BY <2>1, NoneAdded, SandboxAssumption DEF IInv
<1> QED
  BY <1>1, <1>2, <1>3, <1>4, <1>5, <1>6, <1>7, <1>8, <1>9, <1>10 DEF IInv

\* A process ends.
LEMMA CodeEndsStep ==
    ASSUME IInv, NEW r \in Runs, CodeEnds(r)
    PROVE  IInv'
<1>1. code' \in [Runs -> Nat] /\ \A q \in Runs : code'[q] = 0 \/ code'[q] = code[q]
  BY DEF IInv, RowsTyped, CodeEnds
<1>2. RowsTyped' /\ OwnerOnce'
  BY <1>1 DEF IInv, RowsTyped, OwnerOnce, CodeEnds
<1> QED
  BY <1>1, <1>2, StopsStep DEF IInv, CodeEnds

\* The owner's request tears the generation of the row down.
LEMMA OwnerLoadStep ==
    ASSUME IInv, NEW r \in Runs, OwnerLoad(r)
    PROVE  IInv'
<1>1. code' \in [Runs -> Nat] /\ \A q \in Runs : code'[q] = 0 \/ code'[q] = code[q]
  BY DEF IInv, RowsTyped, OwnerLoad, TearDown, KilledIn
<1>2. RowsTyped' /\ OwnerOnce'
  BY <1>1 DEF IInv, RowsTyped, OwnerOnce, OwnerLoad
<1> QED
  BY <1>1, <1>2, StopsStep DEF IInv, OwnerLoad

\* The owner's request ends the row.
LEMMA OwnerWriteStep ==
    ASSUME IInv, OwnerWrite
    PROVE  IInv'
<1>1. RowsTyped'
  <2>1. run' \in [Runs -> [status : {"none"} \cup Active \cup Terminal, gen : Nat]]
    BY DEF IInv, RowsTyped, OwnerOnce, OwnerWrite, MarkTerminal, Active, Terminal
  <2>2. sess' \in [gen : Nat, status : {"none", "active", "closed", "error"}]
    BY DEF IInv, RowsTyped, OwnerWrite, Advanced
  <2>3. owner' \in [pc : {"idle", "write"}, run : Runs \cup {None}, gen : Nat,
                    ended : SUBSET Runs, asked : BOOLEAN]
    BY DEF IInv, RowsTyped, OwnerOnce, OwnerWrite
  <2> QED
    BY <2>1, <2>2, <2>3 DEF IInv, RowsTyped, OwnerWrite
<1>2. ExecsTyped'
  BY DEF IInv, ExecsTyped, OwnerWrite
<1>3. Seated'
  BY DEF IInv, ExecsTyped, Executions, Seated, Seat, Holding, OwnerWrite
<1>4. Taken'
  BY SandboxAssumption DEF IInv, Taken, Seated, Seat, RowsTyped, ExecsTyped, Executions,
     OwnerOnce, OwnerWrite, MarkTerminal
<1>5. Alone'
  BY DEF IInv, ExecsTyped, Executions, Alone, OwnerWrite
<1>6. Rows'
  BY DEF IInv, Rows, Started, Seated, Seat, Alone, RowsTyped, ExecsTyped, Executions,
     OwnerOnce, OwnerWrite, MarkTerminal
<1>7. OwnerOnce'
  BY SandboxAssumption DEF IInv, OwnerOnce, RowsTyped, Active, Terminal, OwnerWrite,
     MarkTerminal, Advanced
<1>8. Leased'
  BY DEF IInv, ExecsTyped, Executions, Leased, LeasedTo, Holding, Seated, Seat, OwnerWrite
<1>9. Accounted'
  BY SandboxAssumption DEF IInv, Accounted, Explains, Calling, Seat, Seated, RowsTyped,
     ExecsTyped, Executions, OwnerOnce, Rows, Started, Active, Terminal, OwnerWrite,
     MarkTerminal, Advanced
<1>10. WithinLeases'
  <2>1. Held' \subseteq Held
    BY DEF Held, OwnerWrite
  <2> QED
    BY <2>1, NoneAdded, SandboxAssumption DEF IInv
<1> QED
  BY <1>1, <1>2, <1>3, <1>4, <1>5, <1>6, <1>7, <1>8, <1>9, <1>10 DEF IInv

\* The next generation takes the place of this one.
LEMMA ResetSessionStep ==
    ASSUME IInv, ResetSession
    PROVE  IInv'
<1>1. code' \in [Runs -> Nat] /\ \A q \in Runs : code'[q] = 0 \/ code'[q] = code[q]
  BY DEF IInv, RowsTyped, ResetSession, KilledIn
<1>2. RowsTyped'
  <2>1. sess' \in [gen : Nat, status : {"none", "active", "closed", "error"}]
    BY DEF IInv, RowsTyped, ResetSession
  <2>2. owner' \in [pc : {"idle", "write"}, run : Runs \cup {None}, gen : Nat,
                    ended : SUBSET Runs, asked : BOOLEAN]
    BY DEF IInv, RowsTyped, ResetSession
  <2> QED
    BY <1>1, <2>1, <2>2 DEF IInv, RowsTyped, ResetSession
<1>3. OwnerOnce' /\ owner'.ended = owner.ended
  BY DEF IInv, RowsTyped, OwnerOnce, ResetSession
<1> QED
  BY <1>1, <1>2, <1>3, StopsStep DEF IInv, ResetSession

\* The session's generation is torn down.
LEMMA CloseSessionStep ==
    ASSUME IInv, CloseSession
    PROVE  IInv'
<1>1. code' \in [Runs -> Nat] /\ \A q \in Runs : code'[q] = 0 \/ code'[q] = code[q]
  BY DEF IInv, RowsTyped, CloseSession, TearDown, KilledIn
<1>2. RowsTyped' /\ OwnerOnce'
  BY <1>1 DEF IInv, RowsTyped, OwnerOnce, CloseSession
<1> QED
  BY <1>1, <1>2, StopsStep DEF IInv, CloseSession

\* The holder is marked as lapsed, or it no longer renews.
LEMMA ExpireStep ==
    ASSUME IInv, NEW r \in Runs, Expire(r)
    PROVE  IInv'
<1>0. PICK x \in Execs :
         /\ x = lease[r].owner /\ UNCHANGED <<run, sess, code, day, owner>>
         /\ lease' = [lease EXCEPT ![r].fresh = FALSE]
         /\ \/ ex' = [ex EXCEPT ![x].lapsed = TRUE]
            \/ ex' = ex /\ (ex[x].lost \/ ~ex[x].beat)
  <2>1. lease[r].owner \in Execs
    BY DEF Expire, IInv, Leased
  <2> QED
    BY <2>1 DEF Expire
<1>1. RowsTyped'
  BY <1>0 DEF IInv, RowsTyped
<1>2. ExecsTyped'
  <2>1. ex[x] \in Executions
    BY DEF IInv, ExecsTyped
  <2>2. [ex[x] EXCEPT !.lapsed = TRUE] \in Executions
    BY <2>1 DEF Executions
  <2> QED
    BY <1>0, <2>2 DEF IInv, ExecsTyped
<1>3. Seated'
  BY <1>0 DEF IInv, ExecsTyped, Executions, Seated, Seat
<1>4. Taken'
  BY <1>0 DEF IInv, ExecsTyped, Executions, Taken
<1>5. Alone'
  BY <1>0 DEF IInv, ExecsTyped, Executions, Alone
<1>6. Rows'
  BY <1>0 DEF IInv, ExecsTyped, Executions, Rows
<1>7. OwnerOnce'
  BY <1>0 DEF IInv, OwnerOnce
<1>8. Leased'
  <2>1. \A y \in Execs : /\ ex'[y].run = ex[y].run /\ ex'[y].pc = ex[y].pc
                         /\ ~ex'[y].lost => ~ex[y].lost
                         /\ ~ex'[y].lapsed => ~ex[y].lapsed
    BY <1>0 DEF IInv, ExecsTyped, Executions
  <2>2. \A t \in Runs : t # r => lease'[t] = lease[t]
    BY <1>0 DEF IInv, RowsTyped
  <2>3. lease'[r].fresh = FALSE
    BY <1>0 DEF IInv, RowsTyped
  <2>4. (ex[x].pc \in Holding /\ ex[x].run = r) => ex'[x].lost \/ ex'[x].lapsed
    BY <1>0 DEF IInv, ExecsTyped, Executions, Seated, Seat
  <2>5. ASSUME NEW y \in Execs, ex'[y].pc \in Holding, ~ex'[y].lost, ~ex'[y].lapsed
        PROVE  lease'[ex'[y].run] = [owner |-> y, fresh |-> TRUE]
    <3>0. ex[y].pc \in Holding /\ ~ex[y].lost /\ ~ex[y].lapsed
      BY <2>1, <2>5
    <3>1. ex[y].run \in Runs /\ lease[ex[y].run] = [owner |-> y, fresh |-> TRUE]
      BY <3>0 DEF IInv, Leased, LeasedTo, Seated, Seat, Holding
    <3>2. ex[y].run # r
      BY <1>0, <2>4, <2>5, <3>0, <3>1
    <3> QED
      BY <2>1, <2>2, <3>1, <3>2
  <2> QED
    BY <2>2, <2>3, <2>5 DEF IInv, Leased, LeasedTo
<1>9. Accounted'
  BY <1>0, StillAccounted DEF IInv, ExecsTyped, Executions, Explains
<1>10. WithinLeases'
  <2>1. Held' \subseteq Held
    BY <1>0 DEF IInv, RowsTyped, Held
  <2> QED
    BY <2>1, NoneAdded, SandboxAssumption DEF IInv
<1> QED
  BY <1>1, <1>2, <1>3, <1>4, <1>5, <1>6, <1>7, <1>8, <1>9, <1>10 DEF IInv

\* A new day.
LEMMA MidnightStep ==
    ASSUME IInv, Midnight
    PROVE  IInv'
BY StopsStep, SandboxAssumption DEF IInv, RowsTyped, OwnerOnce, Midnight

\* The counter of a past day goes.
LEMMA KeyExpiresStep ==
    ASSUME IInv, NEW d \in 0..LastDay, KeyExpires(d)
    PROVE  IInv'
BY StopsStep DEF IInv, RowsTyped, OwnerOnce, KeyExpires

-----------------------------------------------------------------------------
\* The initial state.
LEMMA InitInv == Init => IInv
<1> SUFFICES ASSUME Init PROVE IInv
  OBVIOUS
<1>1. RowsTyped
  BY SandboxAssumption DEF Init, RowsTyped, Active, Terminal, NoLease
<1>2. ExecsTyped
  BY IdleTyped DEF Init, ExecsTyped
<1>3. \A x \in Execs : ex[x].pc = "idle" /\ ex[x].run = None
  BY DEF Init, IdleExec
<1>4. Seated /\ Alone /\ Rows
  BY <1>3, SandboxAssumption DEF Seated, Seat, Alone, Rows, Holding, Started
<1>5. Taken
  BY <1>3, SandboxAssumption DEF Init, Taken
<1>6. OwnerOnce /\ Accounted
  BY DEF Init, OwnerOnce, Accounted
<1>7. Held = {}
  BY DEF Init, Held, NoLease
<1>8. Leased
  BY <1>3, <1>7 DEF Leased, LeasedTo, Holding, Held
<1>9. WithinLeases
  BY <1>7, FS_EmptySet, SandboxAssumption DEF WithinLeases
<1> QED
  BY <1>1, <1>2, <1>4, <1>5, <1>6, <1>8, <1>9 DEF IInv

\* Every step keeps the invariant.
LEMMA NextInv == IInv /\ [Next]_vars => IInv'
<1> SUFFICES ASSUME IInv, [Next]_vars PROVE IInv'
  OBVIOUS
<1>1. CASE \E x \in Execs, r \in Runs : Submit(x, r) \/ Deliver(x, r)
  BY <1>1, SubmitStep, DeliverStep
<1>2. ASSUME NEW x \in Execs,
             DenyByPolicy(x) \/ LoseLease(x) \/ CancelCall(x)
               \/ \E applied \in BOOLEAN : CancelEarly(x, applied)
      PROVE  IInv'
  BY <1>2, DenyByPolicyStep, LoseLeaseStep, CancelCallStep, CancelEarlyStep
<1>3. ASSUME NEW x \in Execs, Progress(x)
      PROVE  IInv'
  <2>1. ASSUME NEW spent \in 0..Reserved, Close(x, spent, TRUE, TRUE)
        PROVE  IInv'
    BY <2>1, CloseStep
  <2> QED
    BY <1>3, <2>1, AcquireStep, ReserveStep, EnsureStep, StartStep, ExecuteStep, AnswerStep,
       KillLoopStep, ConfirmKillStep, CancelRowStep DEF Progress
<1>4. ASSUME NEW x \in Execs, Fails(x)
      PROVE  IInv'
  <2>1. ASSUME NEW settles \in BOOLEAN, NEW releases \in BOOLEAN,
               Close(x, Reserved, settles, releases)
        PROVE  IInv'
    <3>1. Reserved \in 0..Reserved
      BY SandboxAssumption
    <3> QED
      BY <2>1, <3>1, CloseStep
  <2> QED
    BY <1>4, <2>1, AcquireFailsStep, ReserveFailsStep, EnsureFailsStep, CallFailsStep,
       CommitFailsStep, CrashStep, KillFailsStep DEF Fails
<1>5. CASE \E r \in Runs : CodeEnds(r) \/ OwnerLoad(r) \/ Expire(r)
  BY <1>5, CodeEndsStep, OwnerLoadStep, ExpireStep
<1>6. CASE OwnerWrite \/ ResetSession \/ CloseSession \/ Midnight
             \/ \E d \in 0..LastDay : KeyExpires(d)
  BY <1>6, OwnerWriteStep, ResetSessionStep, CloseSessionStep, MidnightStep, KeyExpiresStep
<1>7. CASE UNCHANGED vars
  BY <1>7 DEF vars, IInv, RowsTyped, ExecsTyped, Seated, Taken, Alone, Rows, OwnerOnce,
              Leased, Accounted, WithinLeases, Held
<1> QED
  BY <1>1, <1>2, <1>3, <1>4, <1>5, <1>6, <1>7 DEF Next

\* So it holds in every reachable state.
LEMMA Inductive == Spec => []IInv
<1> QED
  BY InitInv, NextInv, PTL DEF Spec

-----------------------------------------------------------------------------
\* Whoever expires, releases, redelivers, crashes or is cancelled meanwhile,
\* the executions in progress and the unconfirmed kills of a tenant never
\* exceed limits.max_concurrency (sandbox/accounting.acquire_lease), but for
\* those that lost their lease: each of them has the lease of its own run.
THEOREM CapHolds == Spec => []WithinConcurrency
<1>1. IInv => WithinConcurrency
  <2> SUFFICES ASSUME IInv PROVE WithinConcurrency
    OBVIOUS
  <2> DEFINE f == [x \in Admitted |-> ex[x].run]
  <2>1. ASSUME NEW x \in Admitted
        PROVE  ex[x].run \in Held /\ lease[ex[x].run].owner = x
    <3>1. ex[x].run \in Runs /\ lease[ex[x].run] = [owner |-> x, fresh |-> TRUE]
      BY DEF IInv, Seated, Seat, Leased, LeasedTo, Holding, Admitted
    <3>2. lease[ex[x].run].fresh /\ lease[ex[x].run].owner = x
      BY <3>1
    <3> QED
      BY <3>1, <3>2 DEF Held
  <2>2. f \in [Admitted -> Held]
    BY <2>1
  <2>3. f \in [Admitted -> Held] /\ \A x, y \in Admitted : f[x] = f[y] => x = y
    BY <2>1, <2>2
  <2>4. f \in Injection(Admitted, Held)
    BY <2>3 DEF Injection, IsInjective
  <2>5. IsFiniteSet(Admitted) /\ Cardinality(Admitted) <= Cardinality(Held)
    BY <2>4, FS_Injection DEF IInv, WithinLeases
  <2>6. Cardinality(Admitted) \in Nat /\ Cardinality(Held) \in Nat
    BY <2>5, FS_CardinalityType DEF IInv, WithinLeases
  <2> QED
    BY <2>5, <2>6, SandboxAssumption DEF IInv, WithinLeases, WithinConcurrency
<1> QED
  BY <1>1, Inductive, PTL

\* A fresh lease disappears only when its own holder closes.
LEMMA GivenByClose ==
    ASSUME IInv, [Next]_vars, NEW x \in Execs, NEW r \in Runs,
           lease[r] = [owner |-> x, fresh |-> TRUE], lease'[r] = NoLease
    PROVE  ex[x].pc = "close" /\ ex[x].run = r
<1>1. lease[r].fresh /\ lease[r].owner = x /\ ~lease'[r].fresh /\ lease'[r].owner = None
  BY DEF NoLease
<1>2. lease'[r] # lease[r] /\ x # None
  BY <1>1, SandboxAssumption
<1>3. ASSUME NEW y \in Execs, NEW spent, NEW settles, NEW releases,
             Close(y, spent, settles, releases)
      PROVE  ex[x].pc = "close" /\ ex[x].run = r
  <2>1. lease'[r] = lease[r] \/ (r = ex[y].run /\ lease[r].owner = y)
    BY <1>3 DEF Close, Released, IInv, RowsTyped
  <2> QED
    BY <1>1, <1>2, <1>3, <2>1 DEF Close
<1>4. ASSUME NEW y \in Execs, Acquire(y)
      PROVE  FALSE
  <2>1. Purged[r] = lease[r]
    BY <1>1, PurgedKeeps DEF IInv
  <2>2. lease'[r] = Purged[r] \/ lease'[r] = [owner |-> y, fresh |-> TRUE]
    BY <1>4, PurgedKeeps DEF Acquire, IInv
  <2> QED
    BY <1>1, <1>2, <2>1, <2>2
<1>5. ASSUME NEW y \in Execs, NEW applied \in BOOLEAN,
             AcquireFails(y, applied) \/ CancelEarly(y, applied)
      PROVE  FALSE
  <2>1. lease'[r] = lease[r] \/ lease'[r] = [owner |-> y, fresh |-> TRUE]
    BY <1>5 DEF AcquireFails, CancelEarly, IInv, RowsTyped
  <2> QED
    BY <1>1, <1>2, <2>1
<1>6. ASSUME NEW q \in Runs, Expire(q)
      PROVE  FALSE
  <2>1. lease'[r].owner = lease[r].owner
    BY <1>6 DEF Expire, IInv, RowsTyped
  <2> QED
    BY <1>1, <1>2, <2>1
<1>7. ASSUME NEW y \in Execs,
             \/ \E q \in Runs : Submit(y, q) \/ Deliver(y, q)
             \/ DenyByPolicy(y) \/ LoseLease(y) \/ CancelCall(y)
             \/ Reserve(y) \/ Ensure(y) \/ Start(y) \/ Execute(y)
             \/ \E status \in {"succeeded", "timeout", "killed"} : Answer(y, status)
             \/ KillLoop(y) \/ ConfirmKill(y) \/ CancelRow(y)
      PROVE  FALSE
  BY <1>2, <1>7 DEF Submit, Deliver, DenyByPolicy, LoseLease, CancelCall, Reserve, Ensure,
                    Start, Execute, Answer, KillLoop, ConfirmKill, CancelRow
<1>8. ASSUME NEW y \in Execs,
             \/ \E applied \in BOOLEAN : ReserveFails(y, applied)
             \/ \E status \in {"denied", "failed"} : EnsureFails(y, status)
             \/ CallFails(y) \/ CommitFails(y) \/ Crash(y)
             \/ \E torn \in BOOLEAN : KillFails(y, torn)
      PROVE  FALSE
  BY <1>2, <1>8 DEF ReserveFails, EnsureFails, CallFails, CommitFails, Crash, KillFails
<1>9. ASSUME \/ \E q \in Runs : CodeEnds(q) \/ OwnerLoad(q)
             \/ OwnerWrite \/ ResetSession \/ CloseSession \/ Midnight
             \/ \E d \in 0..LastDay : KeyExpires(d)
             \/ UNCHANGED vars
      PROVE  FALSE
  BY <1>2, <1>9 DEF CodeEnds, OwnerLoad, OwnerWrite, ResetSession, CloseSession, Midnight,
                    KeyExpires, vars
<1> QED
  BY <1>3, <1>4, <1>5, <1>6, <1>7, <1>8, <1>9 DEF Next, Progress, Fails

\* AdmissionOwnership.close gives a lease back only after the run's process has
\* stopped, whatever crashes, lapses, owner's requests and kills precede it,
\* but for the three ways out that ReleaseAfterStop names.
THEOREM ReleasedWhenStopped == Spec => ReleaseAfterStop
<1> DEFINE Gives(x, r) ==
      /\ lease[r] = [owner |-> x, fresh |-> TRUE] /\ lease'[r] = NoLease
      /\ ~ex[x].broken /\ r \notin owner.ended
      /\ \A y \in Execs \ {x} : ex[y].run = r => ~CutOff(y)
<1>1. ASSUME IInv, [Next]_vars, NEW x \in Execs, NEW r \in Runs, Gives(x, r)
      PROVE  code[r] = 0
  <2>1. ex[x].pc = "close" /\ ex[x].run = r
    BY <1>1, GivenByClose
  <2>2. SUFFICES ASSUME code[r] # 0 PROVE FALSE
    OBVIOUS
  <2>3. PICK y \in Execs : Explains(ex[y], r, code[r])
    BY <1>1, <2>2 DEF IInv, Accounted
  <2>4. y # x /\ ex[y].run = r
    BY <1>1, <2>1, <2>3 DEF Explains, Calling
  <2>5. ~CutOff(y)
    BY <1>1, <2>4
  <2>6. ex[y].pc \in Holding /\ ~ex[y].lost /\ ~ex[y].lapsed
    BY <2>3, <2>5 DEF Explains, CutOff, Calling, Holding
  <2>7. lease[r] = [owner |-> y, fresh |-> TRUE]
    BY <1>1, <2>4, <2>6 DEF IInv, Leased, LeasedTo
  <2>8. lease[r].owner = y /\ lease[r].owner = x
    BY <1>1, <2>7
  <2> QED
    BY <2>4, <2>8
<1>2. IInv /\ [Next]_vars =>
        [\A x \in Execs, r \in Runs :
           (lease[r] = [owner |-> x, fresh |-> TRUE] /\ lease'[r] = NoLease
              /\ ~ex[x].broken /\ r \notin owner.ended
              /\ \A y \in Execs \ {x} : ex[y].run = r => ~CutOff(y))
              => code[r] = 0]_vars
  BY <1>1
<1> QED
  BY <1>2, Inductive, PTL DEF Spec, ReleaseAfterStop

-----------------------------------------------------------------------------
(* The accounts.                                                            *)

\* Generations so far: those requests may take, and one per fault.
Ceiling == LastAdvance + faults

\* A generation is taken by the owner's request, below LastAdvance, or after a fault.
GensBounded ==
    /\ faults \in 0..MaxFaults
    /\ sess.gen + (IF sess.status = "active" THEN 0 ELSE 1) <= Ceiling
    /\ box \in Nat /\ box <= Ceiling /\ owner.gen <= Ceiling
    /\ \A r \in Runs : run[r].gen <= Ceiling /\ code[r] <= Ceiling
    /\ \A x \in Execs : ex[x].gen <= Ceiling

\* An execution books after it was admitted and settles as it closes.
Entry(e) ==
    /\ e.pc \in {"idle", "admit", "reserve"} => ~e.reserved
    /\ e.settled => e.pc \in {"row", "done", "dead"}
    /\ e.day <= day

Booked == {x \in Execs : ex[x].reserved}
Ledger ==
    /\ daily \in [0..LastDay -> Nat]
    /\ \A d \in 0..LastDay : daily[d] <= DailyCap /\ (d > day => daily[d] = 0)
    /\ \A x \in Execs : Entry(ex[x])
    /\ IsFiniteSet(Booked)
    /\ daily[day] >= MapThenSumSet(Charge, Reservations)

\* What a step leaves of an entry.
SameEntry(e, f) ==
    /\ f.reserved <=> e.reserved
    /\ e.reserved => f.day = e.day /\ f.spent = e.spent /\ (f.settled <=> e.settled)

\* The same over any executions e: what each stands for, and those of the day d.
ChargesOf(e) == [x \in Execs |-> IF e[x].settled THEN e[x].spent ELSE Reserved]
BookedIn(e) == {x \in Execs : e[x].reserved}
On(e, d) == {x \in Execs : e[x].reserved /\ e[x].day = d}

\* The charges of a day are finitely many numbers.
LEMMA ChargesAddUp ==
    ASSUME NEW e \in [Execs -> Executions], IsFiniteSet(BookedIn(e)), NEW d
    PROVE  /\ \A x \in Execs : ChargesOf(e)[x] \in Nat
           /\ IsFiniteSet(On(e, d)) /\ TotalOf(ChargesOf(e), On(e, d)) \in Nat
<1>1. \A x \in Execs : ChargesOf(e)[x] \in Nat
  BY SandboxAssumption DEF Executions, ChargesOf
<1>2. IsFiniteSet(On(e, d)) /\ On(e, d) \subseteq Execs
  <2>1. On(e, d) \subseteq BookedIn(e)
    BY DEF On, BookedIn
  <2> QED BY <2>1, FS_Subset DEF On
<1>3. \A x \in On(e, d) : ChargesOf(e)[x] \in Nat
  BY <1>1, <1>2
<1>4. TotalOf(ChargesOf(e), On(e, d)) \in Nat
  BY <1>2, <1>3, TotalsAgree
<1> QED BY <1>1, <1>2, <1>4

\* The reservations of today add up to such a total, before and after a step.
LEMMA ReservationsTotal ==
    ASSUME ExecsTyped, IsFiniteSet(Booked)
    PROVE  MapThenSumSet(Charge, Reservations) = TotalOf(ChargesOf(ex), On(ex, day))
<1> DEFINE f == [x \in Reservations |-> Charge(x)]
<1>1. MapThenSumSet(Charge, Reservations) = TotalOf(f, Reservations)
  BY DEF MapThenSumSet, MapThenFoldSet, TotalOf
<1>2. Reservations = On(ex, day) /\ Booked = BookedIn(ex)
  BY DEF Reservations, On, Booked, BookedIn
<1>3. \A x \in On(ex, day) : f[x] = ChargesOf(ex)[x]
  BY <1>2 DEF Charge, ChargesOf, On
<1> HIDE DEF f
<1>4. IsFiniteSet(On(ex, day)) /\ \A x \in On(ex, day) : ChargesOf(ex)[x] \in Nat
  BY <1>2, ChargesAddUp DEF ExecsTyped, On
<1>5. TotalOf(f, Reservations) = TotalOf(ChargesOf(ex), On(ex, day))
  BY <1>2, <1>3, <1>4, TotalsAgree
<1> QED BY <1>1, <1>5

\* The same in the next state.
LEMMA ReservationsTotalNext ==
    ASSUME ExecsTyped', IsFiniteSet(BookedIn(ex'))
    PROVE  MapThenSumSet(Charge, Reservations)' = TotalOf(ChargesOf(ex'), On(ex', day'))
<1> DEFINE f == [x \in On(ex', day') |-> ChargesOf(ex')[x]]
<1>1. Reservations' = On(ex', day')
  BY DEF Reservations, On
<1>2. MapThenSumSet(Charge, Reservations)' = TotalOf([x \in Reservations' |-> Charge(x)'], Reservations')
  BY DEF MapThenSumSet, MapThenFoldSet, TotalOf
<1>3. [x \in Reservations' |-> Charge(x)'] = f
  BY <1>1 DEF Charge, ChargesOf, On
<1>4. \A x \in On(ex', day') : f[x] = ChargesOf(ex')[x]
  OBVIOUS
<1> HIDE DEF f
<1>5. IsFiniteSet(On(ex', day')) /\ \A x \in On(ex', day') : ChargesOf(ex')[x] \in Nat
  BY ChargesAddUp DEF ExecsTyped, On
<1>6. TotalOf(f, On(ex', day')) = TotalOf(ChargesOf(ex'), On(ex', day'))
  BY <1>4, <1>5, TotalsAgree
<1> QED BY <1>1, <1>2, <1>3, <1>6

\* The ledger holds after a step whose totals are known.
LEMMA LedgerNext ==
    ASSUME ExecsTyped', IsFiniteSet(BookedIn(ex')),
           daily' \in [0..LastDay -> Nat],
           \A d \in 0..LastDay : daily'[d] <= DailyCap /\ (d > day' => daily'[d] = 0),
           \A x \in Execs : Entry(ex[x])',
           daily'[day'] >= TotalOf(ChargesOf(ex'), On(ex', day'))
    PROVE  Ledger'
<1>1. Booked' = BookedIn(ex')
  BY DEF Booked, BookedIn
<1>2. MapThenSumSet(Charge, Reservations)' = TotalOf(ChargesOf(ex'), On(ex', day'))
  BY ReservationsTotalNext
<1> QED BY <1>1, <1>2 DEF Ledger

\* What the ledger says of today's total.
LEMMA LedgerNow ==
    ASSUME ExecsTyped, Ledger, day \in 0..LastDay
    PROVE  /\ ex \in [Execs -> Executions] /\ IsFiniteSet(BookedIn(ex))
           /\ daily[day] >= TotalOf(ChargesOf(ex), On(ex, day))
           /\ daily[day] \in Nat /\ TotalOf(ChargesOf(ex), On(ex, day)) \in Nat
<1>1. Booked = BookedIn(ex)
  BY DEF Booked, BookedIn
<1>2. IsFiniteSet(BookedIn(ex)) /\ ex \in [Execs -> Executions]
  BY <1>1 DEF Ledger, ExecsTyped
<1>3. TotalOf(ChargesOf(ex), On(ex, day)) \in Nat
  BY <1>2, ChargesAddUp
<1> QED BY <1>1, <1>2, <1>3, ReservationsTotal DEF Ledger

\* A step that books and settles nothing, though it may add to a counter.
LEMMA QuietLedger ==
    ASSUME ExecsTyped, ExecsTyped', day \in 0..LastDay, Ledger, day' = day,
           \A x \in Execs : SameEntry(ex[x], ex'[x]) /\ Entry(ex[x])',
           daily' \in [0..LastDay -> Nat],
           \A d \in 0..LastDay : daily'[d] <= DailyCap /\ (d > day => daily'[d] = 0),
           daily'[day] >= daily[day]
    PROVE  Ledger'
<1>1. BookedIn(ex') = BookedIn(ex) /\ On(ex', day') = On(ex, day)
  BY DEF BookedIn, On, SameEntry
<1>2. \A x \in On(ex, day) : ChargesOf(ex')[x] = ChargesOf(ex)[x]
  BY DEF ChargesOf, On, SameEntry
<1>3. /\ ex \in [Execs -> Executions] /\ IsFiniteSet(BookedIn(ex))
      /\ daily[day] >= TotalOf(ChargesOf(ex), On(ex, day))
      /\ daily[day] \in Nat /\ TotalOf(ChargesOf(ex), On(ex, day)) \in Nat
  BY LedgerNow
<1>4. IsFiniteSet(On(ex, day)) /\ \A x \in On(ex, day) : ChargesOf(ex)[x] \in Nat
  BY <1>3, ChargesAddUp DEF On
<1>5. TotalOf(ChargesOf(ex'), On(ex, day)) = TotalOf(ChargesOf(ex), On(ex, day))
  BY <1>2, <1>4, TotalsAgree
<1>6. daily'[day] \in Nat
  OBVIOUS
<1>7. daily'[day'] >= TotalOf(ChargesOf(ex'), On(ex', day'))
  BY <1>1, <1>3, <1>5, <1>6
<1> QED BY <1>1, <1>3, <1>7, LedgerNext

\* The reservation is added to its day's counter and its execution stands for it.
LEMMA BookedLedger ==
    ASSUME ExecsTyped, ExecsTyped', day \in 0..LastDay, Ledger, NEW x \in Execs, ex[x].pc = "reserve",
           daily[ex[x].day] + Reserved <= DailyCap,
           daily' \in [0..LastDay -> Nat], daily'[ex[x].day] = daily[ex[x].day] + Reserved,
           \A d \in 0..LastDay : d # ex[x].day => daily'[d] = daily[d], day' = day,
           ex'[x].pc = "ensure", ex'[x].reserved, ~ex'[x].settled, ex'[x].day = ex[x].day,
           \A y \in Execs : y # x => ex'[y] = ex[y]
    PROVE  Ledger'
<1>0. /\ ex[x] \in Executions /\ Entry(ex[x]) /\ ~ex[x].reserved /\ ~ex[x].settled
      /\ ex[x].day \in 0..LastDay /\ ex[x].day <= day
  BY DEF ExecsTyped, Executions, Ledger, Entry
<1>1. /\ ex'[x].pc = "ensure" /\ ex'[x].reserved /\ ~ex'[x].settled /\ ex'[x].day = ex[x].day
      /\ \A y \in Execs : y # x => ex'[y] = ex[y]
  OBVIOUS
<1>2. BookedIn(ex') = BookedIn(ex) \cup {x}
  BY <1>1 DEF BookedIn
<1>3. /\ ex \in [Execs -> Executions] /\ IsFiniteSet(BookedIn(ex))
      /\ daily[day] >= TotalOf(ChargesOf(ex), On(ex, day))
      /\ daily[day] \in Nat /\ TotalOf(ChargesOf(ex), On(ex, day)) \in Nat
  BY LedgerNow
<1>4. IsFiniteSet(BookedIn(ex')) /\ ex' \in [Execs -> Executions]
  <2>1. IsFiniteSet(BookedIn(ex) \cup {x})
    BY <1>3, FS_AddElement
  <2> QED BY <1>2, <2>1 DEF ExecsTyped
<1>5. /\ daily' \in [0..LastDay -> Nat]
      /\ \A d \in 0..LastDay : daily'[d] <= DailyCap /\ (d > day => daily'[d] = 0)
      /\ daily'[ex[x].day] = daily[ex[x].day] + Reserved
      /\ \A d \in 0..LastDay : d # ex[x].day => daily'[d] = daily[d]
  <2>1. ASSUME NEW d \in 0..LastDay PROVE daily'[d] <= DailyCap /\ (d > day => daily'[d] = 0)
    <3>1. daily[d] <= DailyCap /\ (d > day => daily[d] = 0)
      BY DEF Ledger
    <3>2. CASE d = ex[x].day
      BY <1>0, <3>2
    <3>3. CASE d # ex[x].day
      BY <3>1, <3>3
    <3> QED BY <3>2, <3>3
  <2> QED BY <2>1
<1>6. \A y \in Execs : Entry(ex[y])'
  BY <1>0, <1>1 DEF Ledger, Entry
<1>7. /\ IsFiniteSet(On(ex, day)) /\ IsFiniteSet(On(ex', day))
      /\ (\A y \in Execs : ChargesOf(ex)[y] \in Nat) /\ (\A y \in Execs : ChargesOf(ex')[y] \in Nat)
  BY <1>3, <1>4, ChargesAddUp
<1>8. \A y \in On(ex, day) : y \in Execs /\ ChargesOf(ex')[y] = ChargesOf(ex)[y]
  <2>1. \A y \in On(ex, day) : y \in Execs /\ ex'[y] = ex[y]
    BY <1>0 DEF On
  <2> QED BY <2>1 DEF ChargesOf
<1>9. TotalOf(ChargesOf(ex'), On(ex, day)) = TotalOf(ChargesOf(ex), On(ex, day))
  BY <1>7, <1>8, TotalsAgree
<1>10. CASE ex[x].day = day
  <2>1. On(ex', day) \ {x} = On(ex, day) /\ x \in On(ex', day)
    BY <1>0, <1>1, <1>10 DEF On
  <2>2. ChargesOf(ex')[x] = Reserved
    BY <1>1 DEF ChargesOf
  <2>3. \A y \in On(ex', day) : ChargesOf(ex')[y] \in Nat
    BY <1>7 DEF On
  <2>4a. TotalOf(ChargesOf(ex'), On(ex', day)) = ChargesOf(ex')[x] + TotalOf(ChargesOf(ex'), On(ex', day) \ {x})
    BY <1>7, <2>1, <2>3, TotalWithout
  <2>4. TotalOf(ChargesOf(ex'), On(ex', day)) = Reserved + TotalOf(ChargesOf(ex), On(ex, day))
    BY <1>9, <2>1, <2>2, <2>4a
  <2>5. daily'[day] >= TotalOf(ChargesOf(ex'), On(ex', day))
    BY <1>3, <1>5, <1>10, <2>4, SandboxAssumption
  <2> QED BY <1>4, <1>5, <1>6, <2>5, LedgerNext
<1>11. CASE ex[x].day # day
  <2>1. On(ex', day) = On(ex, day)
    BY <1>1, <1>0, <1>11 DEF On
  <2>2. daily'[day] >= TotalOf(ChargesOf(ex'), On(ex', day))
    BY <1>3, <1>5, <1>9, <1>11, <2>1
  <2> QED BY <1>4, <1>5, <1>6, <2>2, LedgerNext
<1> QED BY <1>10, <1>11

\* The step of reserve_daily is such a step.
LEMMA ReserveLedger ==
    ASSUME ExecsTyped, ExecsTyped', day \in 0..LastDay, Ledger, NEW x \in Execs, ex[x].pc = "reserve",
           daily[ex[x].day] + Reserved <= DailyCap,
           daily' = [daily EXCEPT ![ex[x].day] = @ + Reserved],
           ex' = [ex EXCEPT ![x].pc = "ensure", ![x].reserved = TRUE], day' = day
    PROVE  Ledger'
<1>0. /\ ex[x] \in Executions /\ ~ex[x].settled /\ ex[x].day \in 0..LastDay
  BY DEF ExecsTyped, Executions, Ledger, Entry
<1>1. /\ ex'[x].pc = "ensure" /\ ex'[x].reserved /\ ~ex'[x].settled /\ ex'[x].day = ex[x].day
      /\ \A y \in Execs : y # x => ex'[y] = ex[y]
  BY <1>0 DEF ExecsTyped, Executions
<1>2. /\ daily' \in [0..LastDay -> Nat] /\ daily'[ex[x].day] = daily[ex[x].day] + Reserved
      /\ \A d \in 0..LastDay : d # ex[x].day => daily'[d] = daily[d]
  BY <1>0, SandboxAssumption, SMTT(30) DEF Ledger
<1> QED BY <1>1, <1>2, BookedLedger

\* What the settlement leaves of a counter.
LEMMA SettlesTo ==
    ASSUME NEW n \in Nat, NEW spent \in 0..Reserved
    PROVE  LET m == IF n = 0 THEN 0 ELSE Max({n + spent - Reserved, 0}) IN
           m \in Nat /\ m <= n /\ (n > 0 => m >= n + spent - Reserved)
<1>1. PICK k \in Int : k = n + spent - Reserved
  BY SandboxAssumption
<1>2. Max({k, 0}) = IF k > 0 THEN k ELSE 0
  BY <1>1 DEF Max
<1>3. k <= n
  BY <1>1, SandboxAssumption
<1> QED BY <1>1, <1>2, <1>3

\* The reservation is settled, as its execution closes, with what was spent.
LEMMA CloseLedger ==
    ASSUME ExecsTyped, ExecsTyped', day \in 0..LastDay, Ledger, NEW x \in Execs,
           NEW spent \in 0..Reserved, NEW settles \in BOOLEAN, NEW releases \in BOOLEAN,
           Close(x, spent, settles, releases), settles \/ spent = Reserved
    PROVE  Ledger'
<1>0. /\ ex[x] \in Executions /\ Entry(ex[x]) /\ ~ex[x].settled /\ ex[x].pc = "close"
      /\ ex[x].day \in 0..LastDay /\ ex[x].day <= day
  BY DEF ExecsTyped, Executions, Ledger, Entry, Close
<1>1. PICK e : e = [IdleExec EXCEPT !.run = ex[x].run, !.day = ex[x].day,
         !.reserved = ex[x].reserved, !.settled = TRUE, !.broken = ex[x].broken,
         !.spent = IF ex[x].reserved THEN spent ELSE 0,
         !.pc = IF ex[x].cancelled /\ ~ex[x].pending THEN "row" ELSE "done"]
  OBVIOUS
<1>2. ex' = [ex EXCEPT ![x] = e] /\ day' = day
  BY <1>1 DEF Close
<1>3. /\ e.pc \in {"row", "done"} /\ (e.reserved <=> ex[x].reserved) /\ e.settled /\ e.day = ex[x].day
      /\ ex[x].reserved => e.spent = spent
  BY <1>1 DEF IdleExec
<1>4. ex'[x] = e /\ \A y \in Execs : y # x => ex'[y] = ex[y]
  BY <1>2 DEF ExecsTyped
<1>5. daily' = IF ex[x].reserved /\ settles THEN Settled(x, spent) ELSE daily
  BY DEF Close
<1>6. \A y \in Execs : Entry(ex[y])'
  BY <1>0, <1>2, <1>3, <1>4 DEF Ledger, Entry
<1>7. BookedIn(ex') = BookedIn(ex) /\ On(ex', day) = On(ex, day)
  BY <1>3, <1>4 DEF BookedIn, On
<1>8. /\ ex \in [Execs -> Executions] /\ IsFiniteSet(BookedIn(ex))
      /\ daily[day] >= TotalOf(ChargesOf(ex), On(ex, day))
      /\ daily[day] \in Nat /\ TotalOf(ChargesOf(ex), On(ex, day)) \in Nat
  BY LedgerNow
<1>9. IsFiniteSet(BookedIn(ex')) /\ ex' \in [Execs -> Executions]
  BY <1>7, <1>8 DEF ExecsTyped
<1>10. /\ daily' \in [0..LastDay -> Nat]
       /\ \A d \in 0..LastDay : daily'[d] <= daily[d] /\ (d # ex[x].day => daily'[d] = daily[d])
       /\ (ex[x].reserved /\ daily[ex[x].day] > 0) => daily'[ex[x].day] >= daily[ex[x].day] + spent - Reserved
       /\ ~(ex[x].reserved /\ settles) => daily' = daily
  <2>1. daily \in [0..LastDay -> Nat]
    BY DEF Ledger
  <2>2. CASE ~(ex[x].reserved /\ settles)
    BY <1>0, <1>5, <2>1, <2>2, SandboxAssumption
  <2>3. CASE ex[x].reserved /\ settles
    <3>1. PICK m : m = IF daily[ex[x].day] = 0 THEN 0 ELSE Max({daily[ex[x].day] + spent - Reserved, 0})
      OBVIOUS
    <3>2. daily' = [daily EXCEPT ![ex[x].day] = m]
      BY <1>5, <2>3, <3>1 DEF Settled
    <3>3. daily[ex[x].day] \in Nat
      BY <1>0, <2>1
    <3>4. m \in Nat /\ m <= daily[ex[x].day] /\ (daily[ex[x].day] > 0 => m >= daily[ex[x].day] + spent - Reserved)
      BY <3>1, <3>3, SettlesTo
    <3> QED BY <1>0, <2>1, <2>3, <3>2, <3>4
  <2> QED BY <2>2, <2>3
<1>11. \A d \in 0..LastDay : daily'[d] <= DailyCap /\ (d > day' => daily'[d] = 0)
  <2> TAKE d \in 0..LastDay
  <2>1. daily[d] \in Nat /\ daily'[d] \in Nat /\ daily[d] <= DailyCap /\ (d > day => daily[d] = 0)
    BY <1>10 DEF Ledger
  <2> QED BY <1>2, <1>10, <2>1, SandboxAssumption
<1>12. /\ IsFiniteSet(On(ex, day))
       /\ (\A y \in Execs : ChargesOf(ex)[y] \in Nat) /\ (\A y \in Execs : ChargesOf(ex')[y] \in Nat)
       /\ On(ex, day) \subseteq Execs
  BY <1>8, <1>9, ChargesAddUp DEF On
<1>13. \A y \in On(ex, day) : y # x => ChargesOf(ex')[y] = ChargesOf(ex)[y]
  BY <1>4 DEF On, ChargesOf
<1>14. CASE x \in On(ex, day)
  <2>1. ex[x].reserved /\ ex[x].day = day
    BY <1>14 DEF On
  <2>2. ChargesOf(ex)[x] = Reserved /\ ChargesOf(ex')[x] = spent
    BY <1>0, <1>3, <1>4, <2>1 DEF ChargesOf
  <2>3. PICK R : R = On(ex, day) \ {x}
    OBVIOUS
  <2>4. IsFiniteSet(R) /\ (\A y \in R : ChargesOf(ex)[y] \in Nat /\ ChargesOf(ex')[y] = ChargesOf(ex)[y])
    BY <1>12, <1>13, <2>3, FS_Subset
  <2>5. TotalOf(ChargesOf(ex), R) \in Nat /\ TotalOf(ChargesOf(ex'), R) = TotalOf(ChargesOf(ex), R)
    BY <2>4, TotalsAgree
  <2>6. TotalOf(ChargesOf(ex), On(ex, day)) = Reserved + TotalOf(ChargesOf(ex), R)
    BY <1>12, <1>14, <2>2, <2>3, TotalWithout
  <2>7. TotalOf(ChargesOf(ex'), On(ex, day)) = spent + TotalOf(ChargesOf(ex'), R)
    BY <1>12, <1>14, <2>2, <2>3, TotalWithout
  <2>8. daily[day] > 0 /\ daily'[day] \in Nat
    BY <1>8, <1>10, <2>5, <2>6, SandboxAssumption
  <2>9. daily'[day] >= daily[day] + spent - Reserved
    BY <1>10, <2>1, <2>8
  <2>10. daily'[day] >= TotalOf(ChargesOf(ex'), On(ex, day))
    BY <1>8, <2>5, <2>6, <2>7, <2>8, <2>9, SandboxAssumption
  <2> QED BY <1>2, <1>6, <1>7, <1>9, <1>10, <1>11, <2>10, LedgerNext
<1>15. CASE x \notin On(ex, day)
  <2>1. TotalOf(ChargesOf(ex'), On(ex, day)) = TotalOf(ChargesOf(ex), On(ex, day))
    <3>1. \A y \in On(ex, day) : ChargesOf(ex)[y] \in Nat /\ ChargesOf(ex')[y] = ChargesOf(ex)[y]
      BY <1>12, <1>13, <1>15
    <3> QED BY <1>12, <3>1, TotalsAgree
  <2>2. daily'[day] = daily[day]
    BY <1>10, <1>15 DEF On
  <2>3. daily'[day] >= TotalOf(ChargesOf(ex'), On(ex, day))
    BY <1>8, <2>1, <2>2
  <2> QED BY <1>2, <1>6, <1>7, <1>9, <1>10, <1>11, <2>3, LedgerNext
<1> QED BY <1>14, <1>15

\* A new day begins with nothing booked.
LEMMA MidnightLedger ==
    ASSUME ExecsTyped, day \in 0..LastDay, Ledger, Midnight
    PROVE  Ledger'
<1>1. day' = day + 1 /\ day' \in 0..LastDay /\ daily' = daily /\ ex' = ex
  BY SandboxAssumption DEF Midnight
<1>2. On(ex', day') = {}
  BY <1>1 DEF On, Ledger, Entry, ExecsTyped, Executions
<1>3. TotalOf(ChargesOf(ex'), On(ex', day')) = 0
  BY <1>2, TotalOfNone
<1>4. daily'[day'] = 0
  BY <1>1 DEF Ledger
<1>5. IsFiniteSet(BookedIn(ex')) /\ ExecsTyped'
  BY <1>1, LedgerNow DEF ExecsTyped
<1>6. \A y \in Execs : Entry(ex[y])'
  BY <1>1 DEF Ledger, Entry, ExecsTyped, Executions
<1>7. \A d \in 0..LastDay : daily'[d] <= DailyCap /\ (d > day' => daily'[d] = 0)
  BY <1>1 DEF Ledger
<1> QED BY <1>1, <1>3, <1>4, <1>5, <1>6, <1>7, LedgerNext DEF Ledger

\* The key that expires is not today's.
LEMMA KeyExpiresLedger ==
    ASSUME ExecsTyped, day \in 0..LastDay, Ledger, NEW d \in 0..LastDay, KeyExpires(d)
    PROVE  Ledger'
<1>1. day' = day /\ d < day /\ daily' = [daily EXCEPT ![d] = 0] /\ ex' = ex
  BY DEF KeyExpires
<1>2. /\ daily' \in [0..LastDay -> Nat] /\ daily'[day] = daily[day]
      /\ \A c \in 0..LastDay : daily'[c] <= DailyCap /\ (c > day => daily'[c] = 0)
  BY <1>1, SandboxAssumption DEF Ledger
<1>3. \A x \in Execs : SameEntry(ex[x], ex'[x]) /\ Entry(ex[x])'
  BY <1>1 DEF SameEntry, Ledger, Entry
<1>4. ExecsTyped' /\ daily'[day] >= daily[day]
  BY <1>1, <1>2 DEF ExecsTyped, Ledger
<1> QED BY <1>1, <1>2, <1>3, <1>4, QuietLedger

\* Nothing, or a reservation nobody stands for.
LEMMA CounterKept ==
    ASSUME Ledger, day \in 0..LastDay, NEW d \in 0..LastDay, d <= day,
           \/ daily' = daily
           \/ daily[d] + Reserved <= DailyCap /\ daily' = [daily EXCEPT ![d] = @ + Reserved]
    PROVE  /\ daily' \in [0..LastDay -> Nat] /\ daily'[day] >= daily[day]
           /\ \A c \in 0..LastDay : daily'[c] <= DailyCap /\ (c > day => daily'[c] = 0)
<1>1. CASE daily' = daily
  BY <1>1 DEF Ledger
<1>2. CASE daily[d] + Reserved <= DailyCap /\ daily' = [daily EXCEPT ![d] = @ + Reserved]
  <2>1. daily \in [0..LastDay -> Nat] /\ \A c \in 0..LastDay : daily[c] <= DailyCap /\ (c > day => daily[c] = 0)
    BY DEF Ledger
  <2>2. /\ daily' \in [0..LastDay -> Nat] /\ daily'[d] = daily[d] + Reserved
        /\ \A c \in 0..LastDay : c # d => daily'[c] = daily[c]
    BY <1>2, <2>1, SandboxAssumption
  <2>3. ASSUME NEW c \in 0..LastDay PROVE daily'[c] <= DailyCap /\ (c > day => daily'[c] = 0) /\ daily'[c] >= daily[c]
    <3>1. CASE c = d
      BY <1>2, <2>1, <2>2, <3>1, SandboxAssumption
    <3>2. CASE c # d
      BY <2>1, <2>2, <3>2
    <3> QED BY <3>1, <3>2
  <2> QED BY <2>2, <2>3
<1> QED BY <1>1, <1>2

\* One execution moves on and its entry stays.
LEMMA EntryMoves ==
    ASSUME ExecsTyped, ExecsTyped', day \in 0..LastDay, Ledger, NEW x \in Execs, day' = day,
           \A y \in Execs : y # x => ex'[y] = ex[y],
           SameEntry(ex[x], ex'[x]), Entry(ex[x])', NEW d \in 0..LastDay, d <= day,
           \/ daily' = daily
           \/ daily[d] + Reserved <= DailyCap /\ daily' = [daily EXCEPT ![d] = @ + Reserved]
    PROVE  Ledger'
<1>1. /\ daily' \in [0..LastDay -> Nat] /\ daily'[day] >= daily[day]
      /\ \A c \in 0..LastDay : daily'[c] <= DailyCap /\ (c > day => daily'[c] = 0)
  BY CounterKept
<1>2. \A y \in Execs : SameEntry(ex[y], ex'[y]) /\ Entry(ex[y])'
  <2> TAKE y \in Execs
  <2>1. CASE y = x
    BY <2>1
  <2>2. CASE y # x
    <3>1. ex'[y] = ex[y] /\ Entry(ex[y])
      BY <2>2 DEF Ledger
    <3> QED BY <3>1 DEF SameEntry, Entry
  <2> QED BY <2>1, <2>2
<1> QED BY <1>1, <1>2, QuietLedger

\* No execution moves.
LEMMA NoEntryMoves ==
    ASSUME ExecsTyped, day \in 0..LastDay, Ledger, UNCHANGED <<ex, day, daily>>
    PROVE  Ledger'
<1>1. ExecsTyped' /\ \A y \in Execs : SameEntry(ex[y], ex'[y]) /\ Entry(ex[y])'
  BY DEF ExecsTyped, SameEntry, Ledger, Entry
<1> QED BY <1>1, QuietLedger DEF Ledger

\* Most steps of an execution book nothing and move no counter.
LEMMA LedgerMoves ==
    ASSUME IInv, IInv', Ledger, NEW x \in Execs,
           \/ DenyByPolicy(x) \/ Acquire(x) \/ Ensure(x) \/ Start(x) \/ Execute(x)
           \/ \E status \in {"succeeded", "timeout", "killed"} : Answer(x, status)
           \/ KillLoop(x) \/ ConfirmKill(x) \/ CancelRow(x)
           \/ \E applied \in BOOLEAN : AcquireFails(x, applied)
           \/ \E status \in {"denied", "failed"} : EnsureFails(x, status)
           \/ CallFails(x) \/ CommitFails(x) \/ Crash(x)
           \/ LoseLease(x) \/ CancelCall(x)
    PROVE  Ledger'
<1>0. ExecsTyped /\ ExecsTyped' /\ ex[x] \in Executions /\ day \in 0..LastDay /\ Entry(ex[x]) /\ 0 \in 0..LastDay /\ 0 <= day
  <2>1. ExecsTyped /\ ExecsTyped' /\ day \in 0..LastDay /\ Entry(ex[x])
    BY DEF IInv, RowsTyped, Ledger
  <2>2. ex[x] \in Executions
    BY <2>1 DEF ExecsTyped
  <2> QED BY <2>1, <2>2, SandboxAssumption
<1>1. day' = day /\ daily' = daily
  BY DEF DenyByPolicy, Acquire, Ensure, Start, Execute, Answer, KillLoop, ConfirmKill, CancelRow,
         AcquireFails, EnsureFails, CallFails, CommitFails, Crash, LoseLease, CancelCall
<1>2. \A y \in Execs : y # x => ex'[y] = ex[y]
  BY <1>0 DEF ExecsTyped, DenyByPolicy, Acquire, Ensure, Start, Execute, Answer, KillLoop, ConfirmKill, CancelRow,
         AcquireFails, EnsureFails, CallFails, CommitFails, Crash, LoseLease, CancelCall, Return, Goto
<1>3. SameEntry(ex[x], ex'[x]) /\ Entry(ex[x])'
  <2>0. ASSUME ex[x].pc = "admit", Return(x) PROVE SameEntry(ex[x], ex'[x]) /\ Entry(ex[x])'
    <3>1. PICK e : e = [IdleExec EXCEPT !.pc = "done", !.run = ex[x].run, !.day = ex[x].day, !.broken = ex[x].broken]
      OBVIOUS
    <3>2. e.pc = "done" /\ ~e.reserved /\ ~e.settled /\ e.day = ex[x].day
      BY <3>1 DEF IdleExec
    <3>3. ex'[x] = e
      BY <1>0, <2>0, <3>1 DEF Return, ExecsTyped
    <3>4. ~ex[x].reserved /\ ex[x].day <= day
      BY <1>0, <2>0 DEF Entry
    <3>5. SameEntry(ex[x], ex'[x])
      BY <3>2, <3>3, <3>4 DEF SameEntry
    <3> QED BY <1>1, <3>2, <3>3, <3>4, <3>5 DEF Entry
  <2>1. CASE DenyByPolicy(x) \/ (\E applied \in BOOLEAN : AcquireFails(x, applied))
    BY <2>0, <2>1 DEF DenyByPolicy, AcquireFails
  <2>2. CASE Acquire(x)
    <3>1. ex[x].pc = "admit" /\ (Return(x) \/ ex' = [ex EXCEPT ![x].pc = "reserve", ![x].beat = TRUE, ![x].day = day])
      BY <2>2 DEF Acquire
    <3>2. CASE ex' = [ex EXCEPT ![x].pc = "reserve", ![x].beat = TRUE, ![x].day = day]
      <4>1. PICK e : e = [ex[x] EXCEPT !.pc = "reserve", !.beat = TRUE, !.day = day]
        OBVIOUS
      <4>2. e.pc = "reserve" /\ (e.reserved <=> ex[x].reserved) /\ (e.settled <=> ex[x].settled) /\ e.day = day
        BY <1>0, <4>1 DEF Executions
      <4>3. ex'[x] = e
        BY <1>0, <3>2, <4>1 DEF ExecsTyped
      <4>4. ~ex[x].reserved /\ ~ex[x].settled
        BY <1>0, <3>1 DEF Entry
      <4>5. SameEntry(ex[x], ex'[x])
        BY <4>2, <4>3, <4>4 DEF SameEntry
      <4> QED BY <1>0, <1>1, <4>2, <4>3, <4>4, <4>5 DEF Entry
    <3> QED BY <2>0, <3>1, <3>2
  <2>3. CASE Crash(x)
    BY <1>0, <1>1, <2>3 DEF Crash, IdleExec, SameEntry, Entry, ExecsTyped, Executions
  <2>4. CASE Ensure(x) \/ Start(x) \/ Execute(x)
    BY <1>0, <1>1, <2>4 DEF Ensure, Start, Execute, Goto, SameEntry, Entry, ExecsTyped, Executions
  <2>5. CASE (\E status \in {"succeeded", "timeout", "killed"} : Answer(x, status)) \/ KillLoop(x) \/ ConfirmKill(x)
               \/ CancelRow(x) \/ \E status \in {"denied", "failed"} : EnsureFails(x, status)
    BY <1>0, <1>1, <2>5 DEF Answer, KillLoop, ConfirmKill, CancelRow, EnsureFails, Goto, SameEntry, Entry, ExecsTyped, Executions
  <2>6. CASE CallFails(x) \/ CommitFails(x) \/ CancelCall(x)
    BY <1>0, <1>1, <2>6 DEF CallFails, CommitFails, CancelCall, SameEntry, Entry, ExecsTyped, Executions
  <2>7. CASE LoseLease(x)
    <3>1. PICK e : e = [ex[x] EXCEPT !.lost = TRUE,
         !.pc = IF ex[x].pc \in {"waiting", "executing"} THEN "kill" ELSE ex[x].pc,
         !.pending = ex[x].pending \/ ex[x].pc \in {"waiting", "executing"},
         !.cause = IF ex[x].pc \in {"waiting", "executing"}
                      THEN "accounting" ELSE ex[x].cause]
      OBVIOUS
    <3>2. ex' = [ex EXCEPT ![x] = e]
      BY <1>0, <2>7, <3>1 DEF LoseLease, ExecsTyped, Executions
    <3>3. /\ e.pc \in {"kill", ex[x].pc} /\ (ex[x].pc \in {"waiting", "executing"} \/ e.pc = ex[x].pc)
          /\ (e.reserved <=> ex[x].reserved) /\ (e.settled <=> ex[x].settled)
          /\ e.day = ex[x].day /\ e.spent = ex[x].spent
      BY <1>0, <3>1 DEF Executions
    <3>4. ex'[x] = e
      BY <1>0, <3>2 DEF ExecsTyped
    <3>5. SameEntry(ex[x], ex'[x])
      BY <3>3, <3>4 DEF SameEntry
    <3>6. e.pc = ex[x].pc \/ (e.pc = "kill" /\ ~ex[x].settled)
      BY <1>0, <3>3 DEF Entry
    <3>7. Entry(e)
      BY <1>0, <3>3, <3>6 DEF Entry
    <3> QED BY <1>1, <3>4, <3>5, <3>7 DEF Entry
  <2> QED BY <2>1, <2>2, <2>3, <2>4, <2>5, <2>6, <2>7
<1> QED BY <1>0, <1>1, <1>2, <1>3, EntryMoves

\* Reservations, those nobody stands for included.
LEMMA LedgerReserves ==
    ASSUME IInv, IInv', Ledger, NEW x \in Execs,
           \/ Reserve(x)
           \/ \E applied \in BOOLEAN : ReserveFails(x, applied) \/ CancelEarly(x, applied)
    PROVE  Ledger'
<1>0. ExecsTyped /\ ExecsTyped' /\ ex[x] \in Executions /\ day \in 0..LastDay /\ Entry(ex[x])
      /\ ex[x].day \in 0..LastDay /\ ex[x].day <= day
  BY DEF IInv, RowsTyped, ExecsTyped, Executions, Ledger, Entry
<1>1. CASE ex' = [ex EXCEPT ![x].pc = "ensure", ![x].reserved = TRUE] /\ Reserve(x)
  <2>1. ~(ex'[x].pc = "close") /\ day' = day /\ ex[x].pc = "reserve"
    BY <1>0, <1>1 DEF Reserve, ExecsTyped, Executions
  <2>2. daily[ex[x].day] \in Nat
    BY <1>0 DEF Ledger
  <2>3. ~(daily[ex[x].day] + Reserved > DailyCap) /\ daily' = [daily EXCEPT ![ex[x].day] = @ + Reserved]
    BY <1>0, <1>1, <2>1 DEF Reserve, Goto, ExecsTyped, Executions
  <2>4. daily[ex[x].day] + Reserved <= DailyCap
    BY <2>2, <2>3, SandboxAssumption
  <2> QED BY <1>0, <1>1, <2>1, <2>3, <2>4, ReserveLedger
<1>2. CASE Reserve(x) /\ Goto(x, "close") /\ daily' = daily
  <2>1. SameEntry(ex[x], ex'[x]) /\ Entry(ex[x])' /\ day' = day /\ \A y \in Execs : y # x => ex'[y] = ex[y]
    BY <1>0, <1>2 DEF Reserve, Goto, SameEntry, Entry, ExecsTyped, Executions
  <2> QED BY <1>0, <1>2, <2>1, EntryMoves
<1>3. ASSUME NEW applied \in BOOLEAN, ReserveFails(x, applied) \/ CancelEarly(x, applied) PROVE Ledger'
  <2>1. SameEntry(ex[x], ex'[x]) /\ Entry(ex[x])' /\ day' = day /\ \A y \in Execs : y # x => ex'[y] = ex[y]
    BY <1>0, <1>3 DEF ReserveFails, CancelEarly, Goto, SameEntry, Entry, ExecsTyped, Executions
  <2>2. \/ daily' = daily
        \/ daily[ex[x].day] + Reserved <= DailyCap /\ daily' = [daily EXCEPT ![ex[x].day] = @ + Reserved]
    BY <1>3 DEF ReserveFails, CancelEarly
  <2> QED BY <1>0, <2>1, <2>2, EntryMoves
<1>4. Reserve(x) => \/ Reserve(x) /\ Goto(x, "close") /\ daily' = daily
                    \/ ex' = [ex EXCEPT ![x].pc = "ensure", ![x].reserved = TRUE] /\ Reserve(x)
  BY DEF Reserve
<1> QED BY <1>1, <1>2, <1>3, <1>4

\* A call begins without an entry.
LEMMA LedgerBegins ==
    ASSUME IInv, IInv', Ledger, NEW x \in Execs, NEW r \in Runs, Submit(x, r) \/ Deliver(x, r)
    PROVE  Ledger'
<1>0. ExecsTyped /\ ExecsTyped' /\ ex[x] \in Executions /\ day \in 0..LastDay /\ Entry(ex[x]) /\ 0 \in 0..LastDay /\ 0 <= day
  <2>1. ExecsTyped /\ ExecsTyped' /\ day \in 0..LastDay /\ Entry(ex[x])
    BY DEF IInv, RowsTyped, Ledger
  <2>2. ex[x] \in Executions
    BY <2>1 DEF ExecsTyped
  <2> QED BY <2>1, <2>2, SandboxAssumption
<1>1. day' = day /\ daily' = daily /\ SameEntry(ex[x], ex'[x]) /\ Entry(ex[x])' /\ \A y \in Execs : y # x => ex'[y] = ex[y]
  BY <1>0 DEF Submit, Deliver, NextCall, SameEntry, Entry, ExecsTyped, Executions
<1> QED BY <1>0, <1>1, EntryMoves

\* The runner, the owner and the leases leave the ledger alone.
LEMMA LedgerElsewhere ==
    ASSUME IInv, IInv', Ledger,
           \/ \E x \in Execs, torn \in BOOLEAN : KillFails(x, torn)
           \/ \E r \in Runs : CodeEnds(r) \/ OwnerLoad(r) \/ Expire(r)
           \/ OwnerWrite \/ ResetSession \/ CloseSession \/ UNCHANGED vars
    PROVE  Ledger'
<1>0. ExecsTyped /\ ExecsTyped' /\ day \in 0..LastDay /\ 0 \in 0..LastDay /\ 0 <= day
  BY SandboxAssumption DEF IInv, RowsTyped
<1>1. CASE UNCHANGED <<ex, day, daily>>
  BY <1>0, <1>1, NoEntryMoves
<1>2. ASSUME NEW r \in Runs, Expire(r) PROVE Ledger'
  <2>1. PICK x : x = lease[r].owner
    OBVIOUS
  <2>2. x \in Execs
    BY <1>2, <2>1 DEF Expire, IInv, Leased, Held
  <2>3. day' = day /\ daily' = daily /\ (ex' = ex \/ ex' = [ex EXCEPT ![x].lapsed = TRUE])
    BY <1>2, <2>1 DEF Expire
  <2>4. CASE ex' = [ex EXCEPT ![x].lapsed = TRUE]
    <3>1. ex[x] \in Executions /\ Entry(ex[x])
      BY <1>0, <2>2 DEF ExecsTyped, Ledger
    <3>2. SameEntry(ex[x], ex'[x]) /\ Entry(ex[x])' /\ \A y \in Execs : y # x => ex'[y] = ex[y]
      BY <1>0, <2>2, <2>3, <2>4, <3>1 DEF SameEntry, Entry, ExecsTyped, Executions
    <3> QED BY <1>0, <2>2, <2>3, <3>2, EntryMoves
  <2> QED BY <1>1, <2>3, <2>4
<1>3. UNCHANGED <<ex, day, daily>> \/ \E r \in Runs : Expire(r)
  BY DEF KillFails, CodeEnds, OwnerLoad, OwnerWrite, ResetSession, CloseSession, vars
<1> QED BY <1>1, <1>2, <1>3

\* Every step keeps the ledger.
LEMMA LedgerStep == IInv /\ IInv' /\ Ledger /\ [Next]_vars => Ledger'
<1> SUFFICES ASSUME IInv, IInv', Ledger, [Next]_vars PROVE Ledger'
  OBVIOUS
<1>0. ExecsTyped /\ ExecsTyped' /\ day \in 0..LastDay
  BY DEF IInv, RowsTyped
<1>1. CASE \E x \in Execs, r \in Runs : Submit(x, r) \/ Deliver(x, r)
  BY <1>1, LedgerBegins
<1>2. ASSUME NEW x \in Execs,
             DenyByPolicy(x) \/ LoseLease(x) \/ CancelCall(x)
               \/ \E applied \in BOOLEAN : CancelEarly(x, applied)
      PROVE  Ledger'
  BY <1>2, LedgerMoves, LedgerReserves
<1>3. ASSUME NEW x \in Execs, Progress(x)
      PROVE  Ledger'
  <2>1. ASSUME NEW spent \in 0..Reserved, Close(x, spent, TRUE, TRUE)
        PROVE  Ledger'
    BY <1>0, <2>1, CloseLedger
  <2> QED BY <1>3, <2>1, LedgerMoves, LedgerReserves DEF Progress
<1>4. ASSUME NEW x \in Execs, Fails(x)
      PROVE  Ledger'
  <2>1. ASSUME NEW settles \in BOOLEAN, NEW releases \in BOOLEAN, Close(x, Reserved, settles, releases)
        PROVE  Ledger'
    <3>1. Reserved \in 0..Reserved
      BY SandboxAssumption
    <3> QED BY <1>0, <2>1, <3>1, CloseLedger
  <2> QED BY <1>4, <2>1, LedgerMoves, LedgerReserves, LedgerElsewhere DEF Fails
<1>5. CASE \E r \in Runs : CodeEnds(r) \/ OwnerLoad(r) \/ Expire(r)
  BY <1>5, LedgerElsewhere
<1>6. CASE OwnerWrite \/ ResetSession \/ CloseSession \/ UNCHANGED vars
  BY <1>6, LedgerElsewhere
<1>7. CASE Midnight \/ \E d \in 0..LastDay : KeyExpires(d)
  BY <1>0, <1>7, MidnightLedger, KeyExpiresLedger
<1> QED BY <1>1, <1>2, <1>3, <1>4, <1>5, <1>6, <1>7 DEF Next

-----------------------------------------------------------------------------
\* What a generation may become in a step.
Numbered(c) ==
    /\ sess' = sess \/ sess'.gen + (IF sess'.status = "active" THEN 0 ELSE 1) <= c + (faults' - faults)
    /\ box' = box \/ (box' \in Nat /\ box' <= c)
    /\ owner'.gen <= c
    /\ \A r \in Runs : run'[r].gen = run[r].gen \/ run'[r].gen <= c
    /\ \A r \in Runs : code'[r] = code[r] \/ code'[r] <= c
    /\ \A x \in Execs : ex'[x].gen = ex[x].gen \/ ex'[x].gen <= c

\* The ceiling is a number no lower than what requests may take.
LEMMA CeilingTyped ==
    ASSUME GensBounded
    PROVE  Ceiling \in Nat /\ LastAdvance \in Nat /\ LastAdvance <= Ceiling /\ LastAdvance > 0
BY SandboxAssumption DEF GensBounded, Ceiling, LastAdvance

\* A step within the ceiling keeps the generations bounded; a fault raises it.
LEMMA GensKept ==
    ASSUME IInv', GensBounded, IInv, UNCHANGED faults \/ Fault, NEW c \in Nat, c = Ceiling, Numbered(c)
    PROVE  GensBounded'
<1>1. faults' \in 0..MaxFaults /\ faults \in 0..MaxFaults /\ faults' >= faults /\ LastAdvance \in Nat
  BY SandboxAssumption DEF GensBounded, Fault, LastAdvance
<1>2. c = Ceiling
  OBVIOUS
<1>3. Ceiling' = c + (faults' - faults) /\ LastAdvance' = LastAdvance
  BY <1>1, <1>2 DEF Ceiling, LastAdvance
<1>4. PICK k \in Nat : k = Ceiling' /\ c <= k
  <2>0. faults' = faults \/ faults' = faults + 1
    BY DEF Fault
  <2>1. faults \in Int
    BY <1>1
  <2>2. faults' - faults = 0 \/ faults' - faults = 1
    BY <2>0, <2>1
  <2>3. PICK f \in Nat : f = faults' - faults
    BY <2>2
  <2>4. c + f \in Nat /\ c <= c + f
    OBVIOUS
  <2> QED BY <1>3, <2>3, <2>4
<1>5. /\ sess.gen \in Nat /\ sess'.gen \in Nat /\ owner'.gen \in Nat
      /\ \A r \in Runs : run[r].gen \in Nat /\ run'[r].gen \in Nat /\ code[r] \in Nat /\ code'[r] \in Nat
      /\ \A x \in Execs : ex[x].gen \in Nat /\ ex'[x].gen \in Nat
  BY DEF IInv, RowsTyped, ExecsTyped, Executions
<1>6. /\ sess.gen + (IF sess.status = "active" THEN 0 ELSE 1) <= c
      /\ box \in Nat /\ box <= c
      /\ \A r \in Runs : run[r].gen <= c /\ code[r] <= c
      /\ \A x \in Execs : ex[x].gen <= c
  BY <1>2 DEF GensBounded
<1>7. /\ sess' = sess \/ sess'.gen + (IF sess'.status = "active" THEN 0 ELSE 1) <= k
      /\ box' = box \/ (box' \in Nat /\ box' <= c)
      /\ owner'.gen <= c
      /\ \A r \in Runs : run'[r].gen = run[r].gen \/ run'[r].gen <= c
      /\ \A r \in Runs : code'[r] = code[r] \/ code'[r] <= c
      /\ \A x \in Execs : ex'[x].gen = ex[x].gen \/ ex'[x].gen <= c
  BY <1>2, <1>3, <1>4 DEF Numbered
<1>8. sess'.gen + (IF sess'.status = "active" THEN 0 ELSE 1) <= k
  <2>1. CASE sess' = sess
    <3>1. sess.gen + (IF sess.status = "active" THEN 0 ELSE 1) \in Nat
      BY <1>5
    <3> QED BY <1>4, <1>6, <2>1, <3>1
  <2> QED BY <1>7, <2>1
<1>9. box' \in Nat /\ box' <= k /\ owner'.gen <= k
  BY <1>4, <1>5, <1>6, <1>7
<1>10. \A r \in Runs : run'[r].gen <= k /\ code'[r] <= k
  BY <1>4, <1>5, <1>6, <1>7
<1>11. \A x \in Execs : ex'[x].gen <= k
  BY <1>4, <1>5, <1>6, <1>7
<1> QED BY <1>1, <1>4, <1>8, <1>9, <1>10, <1>11 DEF GensBounded

\* mark_terminal keeps the generation of a row.
LEMMA MarkNumbers ==
    ASSUME IInv, NEW r, NEW s, MarkTerminal(r, s)
    PROVE  \A q \in Runs : run'[q].gen = run[q].gen
BY DEF MarkTerminal, IInv, RowsTyped

\* A teardown only ends generations.
LEMMA TearNumbers ==
    ASSUME IInv, NEW g, TearDown(g)
    PROVE  (box' = box \/ box' = 0) /\ \A q \in Runs : code'[q] = code[q] \/ code'[q] = 0
BY DEF TearDown, KilledIn

\* advance_generation stops at what requests may take.
LEMMA AdvancedNumbers ==
    ASSUME IInv, GensBounded, NEW g, sess' = Advanced(g), faults' = faults
    PROVE  sess' = sess \/ sess'.gen + (IF sess'.status = "active" THEN 0 ELSE 1) <= Ceiling + (faults' - faults)
<1>1. PICK c \in Nat : c = Ceiling /\ LastAdvance \in Nat /\ LastAdvance <= c
  BY CeilingTyped
<1>2. sess.gen \in Nat /\ faults \in Nat
  BY SandboxAssumption DEF IInv, RowsTyped, GensBounded
<1>3. CASE sess.gen < LastAdvance /\ sess' = [gen |-> sess.gen + 1, status |-> "active"]
  <2>1. sess'.gen = sess.gen + 1 /\ sess'.status = "active"
    BY <1>3
  <2> QED BY <1>1, <1>2, <1>3, <2>1
<1> QED BY <1>3 DEF Advanced

\* One execution moves within its generation, and rows and runner keep theirs.
LEMMA NumbersKept ==
    ASSUME IInv, IInv', GensBounded, UNCHANGED faults \/ Fault,
           sess' = sess \/ sess'.gen + (IF sess'.status = "active" THEN 0 ELSE 1) <= Ceiling + (faults' - faults),
           box' = box \/ box' = 0, owner'.gen = owner.gen \/ owner'.gen = 0,
           \A q \in Runs : run'[q].gen = run[q].gen,
           \A q \in Runs : code'[q] = code[q] \/ code'[q] = 0,
           \A y \in Execs : ex'[y].gen = ex[y].gen \/ ex'[y].gen = 0
    PROVE  GensBounded'
<1>1. PICK c \in Nat : c = Ceiling
  BY CeilingTyped
<1>2. owner'.gen <= c
  BY <1>1 DEF GensBounded
<1>3. Numbered(c)
  BY <1>1, <1>2 DEF Numbered
<1> QED BY <1>1, <1>3, GensKept

\* A call begins without a generation.
LEMMA GensBegin ==
    ASSUME IInv, IInv', GensBounded, NEW x \in Execs, NEW r \in Runs, Submit(x, r) \/ Deliver(x, r)
    PROVE  GensBounded'
<1>1. \A q \in Runs : run'[q].gen = run[q].gen
  BY SMTT(30) DEF Submit, Deliver, IInv, RowsTyped
<1>2. \A y \in Execs : ex'[y].gen = ex[y].gen
  <2>1. ex \in [Execs -> Executions]
    BY DEF IInv, ExecsTyped
  <2>2. CASE Submit(x, r)
    <3>1. ex' = [ex EXCEPT ![x].pc = "admit", ![x].run = r]
      BY <2>2 DEF Submit
    <3> QED BY ONLY x \in Execs, <2>1, <3>1 DEF Executions
  <2>3. CASE Deliver(x, r)
    <3>1. PICK p : ex' = [ex EXCEPT ![x].run = r, ![x].pc = p]
      BY <2>3 DEF Deliver
    <3> QED BY ONLY x \in Execs, <2>1, <3>1 DEF Executions
  <2> QED BY <2>2, <2>3
<1>3. (UNCHANGED faults \/ Fault) /\ UNCHANGED <<sess, box, code, owner>>
  BY DEF Submit, Deliver
<1> QED BY <1>1, <1>2, <1>3, NumbersKept

\* A call that returns has none any more.
LEMMA GensReturn ==
    ASSUME IInv, NEW x \in Execs, Return(x)
    PROVE  \A y \in Execs : ex'[y].gen = ex[y].gen \/ ex'[y].gen = 0
<1>1. PICK e : e = [IdleExec EXCEPT !.pc = "done", !.run = ex[x].run, !.day = ex[x].day, !.broken = ex[x].broken]
  OBVIOUS
<1>2. e.gen = 0
  BY <1>1 DEF IdleExec
<1>3. ex' = [ex EXCEPT ![x] = e]
  BY <1>1 DEF Return
<1> QED BY <1>2, <1>3 DEF IInv, ExecsTyped

\* Moving on keeps it.
LEMMA GensGoto ==
    ASSUME IInv, NEW x \in Execs, NEW pc, Goto(x, pc)
    PROVE  \A y \in Execs : ex'[y].gen = ex[y].gen
BY DEF Goto, IInv, ExecsTyped, Executions

\* Admission and reservation.
LEMMA GensAdmission ==
    ASSUME IInv, IInv', GensBounded, NEW x \in Execs,
           \/ DenyByPolicy(x) \/ Acquire(x) \/ Reserve(x)
           \/ \E applied \in BOOLEAN : AcquireFails(x, applied) \/ ReserveFails(x, applied)
    PROVE  GensBounded'
<1>1. (UNCHANGED faults \/ Fault) /\ UNCHANGED <<sess, box, code, owner>>
  BY DEF DenyByPolicy, Acquire, Reserve, AcquireFails, ReserveFails
<1>2. run' = run \/ \E q, s : MarkTerminal(q, s)
  BY DEF DenyByPolicy, Acquire, Reserve, AcquireFails, ReserveFails
<1>3. \A q \in Runs : run'[q].gen = run[q].gen
  BY <1>2, MarkNumbers
<1>4. \/ Return(x) \/ Goto(x, "close")
      \/ ex' = [ex EXCEPT ![x].pc = "reserve", ![x].beat = TRUE, ![x].day = day]
      \/ ex' = [ex EXCEPT ![x].pc = "ensure", ![x].reserved = TRUE]
  BY DEF DenyByPolicy, Acquire, Reserve, AcquireFails, ReserveFails
<1>5. \A y \in Execs : ex'[y].gen = ex[y].gen \/ ex'[y].gen = 0
  <2>1. CASE Return(x)
    BY <2>1, GensReturn
  <2>2. CASE Goto(x, "close")
    BY <2>2, GensGoto
  <2>3. CASE \/ ex' = [ex EXCEPT ![x].pc = "reserve", ![x].beat = TRUE, ![x].day = day]
             \/ ex' = [ex EXCEPT ![x].pc = "ensure", ![x].reserved = TRUE]
    BY <2>3 DEF IInv, ExecsTyped, Executions
  <2> QED BY <1>4, <2>1, <2>2, <2>3
<1> QED BY <1>1, <1>3, <1>5, NumbersKept

\* The call, its loss and its end.
LEMMA GensCall ==
    ASSUME IInv, IInv', GensBounded, NEW x \in Execs,
           \/ \E status \in {"succeeded", "timeout", "killed"} : Answer(x, status)
           \/ CallFails(x) \/ CommitFails(x) \/ LoseLease(x) \/ CancelCall(x)
           \/ \E applied \in BOOLEAN : CancelEarly(x, applied)
           \/ KillLoop(x) \/ CancelRow(x)
           \/ \E torn \in BOOLEAN : KillFails(x, torn)
    PROVE  GensBounded'
<1>1. (UNCHANGED faults \/ Fault) /\ UNCHANGED <<sess, owner>>
  BY DEF Answer, CallFails, CommitFails, LoseLease, CancelCall, CancelEarly, KillLoop, CancelRow, KillFails
<1>2. run' = run \/ \E q, s : MarkTerminal(q, s)
  BY DEF Answer, CallFails, CommitFails, LoseLease, CancelCall, CancelEarly, KillLoop, CancelRow, KillFails
<1>3. \A q \in Runs : run'[q].gen = run[q].gen
  BY <1>2, MarkNumbers
<1>4. (code' = code /\ (box' = box \/ box' = 0)) \/ \E g : TearDown(g)
  BY DEF Answer, CallFails, CommitFails, LoseLease, CancelCall, CancelEarly, KillLoop, CancelRow, KillFails
<1>5. (box' = box \/ box' = 0) /\ \A q \in Runs : code'[q] = code[q] \/ code'[q] = 0
  BY <1>4, TearNumbers
<1>6. \A y \in Execs : ex'[y].gen = ex[y].gen
  <2>1. CASE LoseLease(x)
    BY <2>1, SMTT(30) DEF LoseLease, IInv, ExecsTyped, Executions
  <2>2. CASE CallFails(x) \/ CommitFails(x)
    BY <2>2 DEF CallFails, CommitFails, IInv, ExecsTyped, Executions
  <2>3. CASE CancelCall(x) \/ \E applied \in BOOLEAN : CancelEarly(x, applied)
    BY <2>3 DEF CancelCall, CancelEarly, IInv, ExecsTyped, Executions
  <2>4. CASE KillLoop(x) \/ \E torn \in BOOLEAN : KillFails(x, torn)
    BY <2>4 DEF KillLoop, KillFails, IInv, ExecsTyped, Executions
  <2>5. CASE CancelRow(x) \/ \E status \in {"succeeded", "timeout", "killed"} : Answer(x, status)
    BY <2>5, GensGoto DEF CancelRow, Answer
  <2> QED BY <2>1, <2>2, <2>3, <2>4, <2>5
<1> QED BY <1>1, <1>3, <1>5, <1>6, NumbersKept

\* So does a close or a crash: the locals are gone.
LEMMA GensEnd ==
    ASSUME IInv, IInv', GensBounded, NEW x \in Execs,
           \/ Crash(x)
           \/ \E spent \in 0..Reserved, settles \in BOOLEAN, releases \in BOOLEAN : Close(x, spent, settles, releases)
    PROVE  GensBounded'
<1>1. (UNCHANGED faults \/ Fault) /\ UNCHANGED <<run, sess, box, code, owner>>
  BY DEF Crash, Close
<1>2. \E e : ex' = [ex EXCEPT ![x] = e] /\ e.gen = 0
  <2>1. CASE Crash(x)
    <3>1. PICK e : e = [IdleExec EXCEPT !.pc = "dead", !.run = ex[x].run,
         !.reserved = ex[x].reserved, !.day = ex[x].day, !.settled = ex[x].settled,
         !.spent = ex[x].spent]
      OBVIOUS
    <3>2. e.gen = 0
      BY <3>1 DEF IdleExec
    <3> QED BY <2>1, <3>1, <3>2 DEF Crash
  <2>2. ASSUME NEW spent \in 0..Reserved, NEW settles \in BOOLEAN, NEW releases \in BOOLEAN, Close(x, spent, settles, releases)
        PROVE  \E e : ex' = [ex EXCEPT ![x] = e] /\ e.gen = 0
    <3>1. PICK e : e = [IdleExec EXCEPT !.run = ex[x].run, !.day = ex[x].day,
         !.reserved = ex[x].reserved, !.settled = TRUE, !.broken = ex[x].broken,
         !.spent = IF ex[x].reserved THEN spent ELSE 0,
         !.pc = IF ex[x].cancelled /\ ~ex[x].pending THEN "row" ELSE "done"]
      OBVIOUS
    <3>2. e.gen = 0
      BY <3>1 DEF IdleExec
    <3> QED BY <2>2, <3>1, <3>2 DEF Close
  <2> QED BY <2>1, <2>2
<1>3. \A y \in Execs : ex'[y].gen = ex[y].gen \/ ex'[y].gen = 0
  BY <1>2 DEF IInv, ExecsTyped
<1> QED BY <1>1, <1>3, NumbersKept

\* The steps that take a generation.
LEMMA GensTaken ==
    ASSUME IInv, IInv', GensBounded, NEW x \in Execs, Ensure(x) \/ Start(x) \/ Execute(x)
    PROVE  GensBounded'
<1>1. PICK c \in Nat : c = Ceiling
  BY CeilingTyped
<1>2. /\ sess.gen \in Nat /\ sess.gen + (IF sess.status = "active" THEN 0 ELSE 1) <= c
      /\ owner.gen <= c /\ ex[x].gen <= c /\ ex[x].gen \in Nat /\ faults \in Nat
  BY <1>1, SandboxAssumption DEF GensBounded, IInv, RowsTyped, ExecsTyped, Executions
<1>3. faults' = faults /\ owner' = owner
  BY DEF Ensure, Start, Execute
<1>4. CASE Ensure(x)
  <2>1. NextGeneration \in Nat /\ NextGeneration <= c
    BY <1>2 DEF NextGeneration
  <2>2. box' = NextGeneration /\ UNCHANGED <<sess, code, run>>
    BY <1>4 DEF Ensure
  <2>3. \A y \in Execs : ex'[y].gen = ex[y].gen \/ ex'[y].gen = NextGeneration
    BY <1>4 DEF Ensure, IInv, ExecsTyped, Executions
  <2>4. Numbered(c)
    BY <1>2, <1>3, <2>1, <2>2, <2>3 DEF Numbered
  <2> QED BY <1>1, <1>3, <2>4, GensKept
<1>5. CASE Start(x)
  <2>1. sess' = sess \/ sess' = [gen |-> ex[x].gen, status |-> "active"]
    BY <1>5 DEF Start
  <2>2. sess' = sess \/ sess'.gen + (IF sess'.status = "active" THEN 0 ELSE 1) <= c + (faults' - faults)
    BY <1>2, <1>3, <2>1
  <2>3. \A q \in Runs : run'[q].gen = run[q].gen \/ run'[q].gen = ex[x].gen
    BY <1>5 DEF Start, MarkTerminal, IInv, RowsTyped
  <2>4. \A y \in Execs : ex'[y].gen = ex[y].gen
    BY <1>5 DEF Start, IInv, ExecsTyped, Executions
  <2>5. UNCHANGED <<box, code>>
    BY <1>5 DEF Start
  <2>6. Numbered(c)
    BY <1>2, <1>3, <2>2, <2>3, <2>4, <2>5 DEF Numbered
  <2> QED BY <1>1, <1>3, <2>6, GensKept
<1>6. CASE Execute(x)
  <2>1. box' = ex[x].gen /\ UNCHANGED <<sess, run>> /\ \A y \in Execs : ex'[y].gen = ex[y].gen
    BY <1>6, GensGoto DEF Execute
  <2>2. \A q \in Runs : code'[q] = code[q] \/ code'[q] = ex[x].gen
    BY <1>6 DEF Execute, IInv, RowsTyped
  <2>3. Numbered(c)
    BY <1>2, <1>3, <2>1, <2>2 DEF Numbered
  <2> QED BY <1>1, <1>3, <2>3, GensKept
<1> QED BY <1>4, <1>5, <1>6

\* The steps that move the session.
LEMMA GensSession ==
    ASSUME IInv, IInv', GensBounded,
           \/ \E x \in Execs : ConfirmKill(x) \/ \E status \in {"denied", "failed"} : EnsureFails(x, status)
           \/ OwnerWrite \/ ResetSession \/ CloseSession
    PROVE  GensBounded'
<1>1. PICK c \in Nat : c = Ceiling /\ LastAdvance \in Nat /\ LastAdvance <= c
  BY CeilingTyped
<1>2. /\ sess.gen \in Nat /\ sess.gen + (IF sess.status = "active" THEN 0 ELSE 1) <= c
      /\ owner.gen <= c /\ faults \in Nat
  BY <1>1, SandboxAssumption DEF GensBounded, IInv, RowsTyped
<1>3. ASSUME NEW x \in Execs, ConfirmKill(x) PROVE GensBounded'
  <2>1. faults' = faults /\ owner' = owner /\ \A y \in Execs : ex'[y].gen = ex[y].gen
    BY <1>3 DEF ConfirmKill, IInv, ExecsTyped, Executions
  <2>2. /\ (UNCHANGED <<box, code>> \/ \E g : TearDown(g)) /\ (sess' = sess \/ \E g : sess' = Advanced(g))
        /\ (run' = run \/ \E q, s : MarkTerminal(q, s))
    BY <1>3 DEF ConfirmKill
  <2>3. (box' = box \/ box' = 0) /\ \A q \in Runs : code'[q] = code[q] \/ code'[q] = 0
    BY <2>2, TearNumbers
  <2>4. sess' = sess \/ sess'.gen + (IF sess'.status = "active" THEN 0 ELSE 1) <= Ceiling + (faults' - faults)
    BY <2>1, <2>2, AdvancedNumbers
  <2>5. \A q \in Runs : run'[q].gen = run[q].gen
    BY <2>2, MarkNumbers
  <2> QED BY <2>1, <2>3, <2>4, <2>5, NumbersKept
<1>4. ASSUME NEW x \in Execs, NEW status \in {"denied", "failed"}, EnsureFails(x, status) PROVE GensBounded'
  <2>1. /\ Fault /\ UNCHANGED <<box, code, owner>> /\ \A y \in Execs : ex'[y].gen = ex[y].gen
        /\ \A q \in Runs : run'[q].gen = run[q].gen
    BY <1>4, GensGoto, MarkNumbers DEF EnsureFails
  <2>2. sess' = sess \/ sess' = [gen |-> NextGeneration, status |-> "error"]
    BY <1>4 DEF EnsureFails
  <2>3. NextGeneration \in Nat /\ NextGeneration <= c
    BY <1>2 DEF NextGeneration
  <2>4. sess' = sess \/ (sess'.gen = NextGeneration /\ sess'.status = "error")
    BY <2>2
  <2>5. faults' - faults = 1
    BY <1>2, <2>1 DEF Fault
  <2>6. sess' = sess \/ sess'.gen + (IF sess'.status = "active" THEN 0 ELSE 1) <= Ceiling + (faults' - faults)
    BY <1>1, <2>3, <2>4, <2>5
  <2> QED BY <2>1, <2>6, NumbersKept
<1>5. CASE OwnerWrite
  <2>1. /\ faults' = faults /\ UNCHANGED <<box, code, ex>> /\ owner'.gen = 0
        /\ \A q \in Runs : run'[q].gen = run[q].gen
    BY <1>5, MarkNumbers DEF OwnerWrite, IInv, RowsTyped
  <2>2. sess' = Advanced(owner.gen)
    BY <1>5 DEF OwnerWrite
  <2>3. sess' = sess \/ sess'.gen + (IF sess'.status = "active" THEN 0 ELSE 1) <= Ceiling + (faults' - faults)
    BY <2>1, <2>2, AdvancedNumbers
  <2> QED BY <2>1, <2>3, NumbersKept
<1>6. CASE ResetSession
  <2>1. /\ faults' = faults /\ UNCHANGED <<run, ex>> /\ owner'.gen = owner.gen
        /\ sess' = [gen |-> sess.gen + 1, status |-> "active"] /\ box' = sess.gen + 1
        /\ sess.gen \in 1..(LastAdvance - 1)
        /\ \A q \in Runs : code'[q] = code[q] \/ code'[q] = 0
    BY <1>6 DEF ResetSession, IInv, RowsTyped, KilledIn
  <2>2. sess.gen + 1 \in Nat /\ sess.gen + 1 <= c
    BY <1>1, <1>2, <2>1
  <2>3. sess'.gen = sess.gen + 1 /\ sess'.status = "active"
    BY <2>1
  <2>4. sess'.gen + (IF sess'.status = "active" THEN 0 ELSE 1) <= c + (faults' - faults)
    BY <1>2, <2>1, <2>2, <2>3
  <2>5. Numbered(c)
    BY <1>2, <2>1, <2>2, <2>4 DEF Numbered
  <2> QED BY <1>1, <2>1, <2>5, GensKept
<1>7. CASE CloseSession
  <2>1. /\ faults' = faults /\ UNCHANGED <<run, ex>> /\ owner'.gen = owner.gen
        /\ sess'.gen = sess.gen /\ sess'.status = "closed"
        /\ sess.gen \in 1..(LastAdvance - 1) /\ TearDown(sess.gen)
    BY <1>7 DEF CloseSession, IInv, RowsTyped
  <2>2. (box' = box \/ box' = 0) /\ \A q \in Runs : code'[q] = code[q] \/ code'[q] = 0
    BY <2>1, TearNumbers
  <2>3. sess'.gen + (IF sess'.status = "active" THEN 0 ELSE 1) <= Ceiling + (faults' - faults)
    BY <1>1, <1>2, <2>1
  <2> QED BY <2>1, <2>2, <2>3, NumbersKept
<1> QED BY <1>3, <1>4, <1>5, <1>6, <1>7

\* Processes, the owner's read, the leases and time take no generation.
LEMMA GensElsewhere ==
    ASSUME IInv, IInv', GensBounded,
           \/ \E r \in Runs : CodeEnds(r) \/ OwnerLoad(r) \/ Expire(r)
           \/ Midnight \/ (\E d \in 0..LastDay : KeyExpires(d)) \/ UNCHANGED vars
    PROVE  GensBounded'
<1>1. ASSUME NEW r \in Runs, CodeEnds(r) PROVE GensBounded'
  <2>1. /\ UNCHANGED <<run, sess, box, ex, owner, faults>>
        /\ \A q \in Runs : code'[q] = code[q] \/ code'[q] = 0
    BY <1>1 DEF CodeEnds, IInv, RowsTyped
  <2> QED BY <2>1, NumbersKept
<1>2. ASSUME NEW r \in Runs, OwnerLoad(r) PROVE GensBounded'
  <2>1. UNCHANGED <<run, sess, ex, faults>> /\ owner'.gen = run[r].gen /\ (UNCHANGED <<box, code>> \/ \E g : TearDown(g))
    BY <1>2 DEF OwnerLoad, IInv, RowsTyped
  <2>2. (box' = box \/ box' = 0) /\ \A q \in Runs : code'[q] = code[q] \/ code'[q] = 0
    BY <2>1, TearNumbers
  <2>3. PICK c \in Nat : c = Ceiling
    BY CeilingTyped
  <2>4. run[r].gen <= c
    BY <2>3 DEF GensBounded
  <2>5. Numbered(c)
    BY <2>1, <2>2, <2>3, <2>4 DEF Numbered
  <2> QED BY <2>1, <2>3, <2>5, GensKept
<1>3. ASSUME NEW r \in Runs, Expire(r) PROVE GensBounded'
  <2>1. UNCHANGED <<run, sess, box, code, owner>> /\ (UNCHANGED faults \/ Fault)
    BY <1>3 DEF Expire
  <2>2. \A y \in Execs : ex'[y].gen = ex[y].gen
    BY <1>3 DEF Expire, IInv, ExecsTyped, Executions
  <2> QED BY <2>1, <2>2, NumbersKept
<1>4. CASE Midnight \/ (\E d \in 0..LastDay : KeyExpires(d)) \/ UNCHANGED vars
  <2>1. UNCHANGED <<run, sess, box, code, ex, owner, faults>>
    BY <1>4 DEF Midnight, KeyExpires, vars
  <2> QED BY <2>1, NumbersKept
<1> QED BY <1>1, <1>2, <1>3, <1>4

\* Every step keeps the generations bounded.
LEMMA GensStep == IInv /\ IInv' /\ GensBounded /\ [Next]_vars => GensBounded'
<1> SUFFICES ASSUME IInv, IInv', GensBounded, [Next]_vars PROVE GensBounded'
  OBVIOUS
<1>1. CASE \E x \in Execs, r \in Runs : Submit(x, r) \/ Deliver(x, r)
  BY <1>1, GensBegin
<1>2. ASSUME NEW x \in Execs,
             DenyByPolicy(x) \/ LoseLease(x) \/ CancelCall(x)
               \/ \E applied \in BOOLEAN : CancelEarly(x, applied)
      PROVE  GensBounded'
  BY <1>2, GensAdmission, GensCall
<1>3. ASSUME NEW x \in Execs, Progress(x)
      PROVE  GensBounded'
  <2>1. ASSUME NEW spent \in 0..Reserved, Close(x, spent, TRUE, TRUE)
        PROVE  GensBounded'
    BY <2>1, GensEnd
  <2> QED BY <1>3, <2>1, GensAdmission, GensTaken, GensCall, GensSession DEF Progress
<1>4. ASSUME NEW x \in Execs, Fails(x)
      PROVE  GensBounded'
  <2>1. ASSUME NEW settles \in BOOLEAN, NEW releases \in BOOLEAN, Close(x, Reserved, settles, releases)
        PROVE  GensBounded'
    <3>1. Reserved \in 0..Reserved
      BY SandboxAssumption
    <3> QED BY <2>1, <3>1, GensEnd
  <2> QED BY <1>4, <2>1, GensAdmission, GensCall, GensSession, GensEnd DEF Fails
<1>5. CASE \E r \in Runs : CodeEnds(r) \/ OwnerLoad(r) \/ Expire(r)
  BY <1>5, GensElsewhere
<1>6. CASE OwnerWrite \/ ResetSession \/ CloseSession
  BY <1>6, GensSession
<1>7. CASE Midnight \/ (\E d \in 0..LastDay : KeyExpires(d)) \/ UNCHANGED vars
  BY <1>7, GensElsewhere
<1> QED BY <1>1, <1>2, <1>3, <1>4, <1>5, <1>6, <1>7 DEF Next

-----------------------------------------------------------------------------
\* Nothing is booked and no generation taken at first.
LEMMA LedgerInit == Init => Ledger /\ GensBounded
<1> SUFFICES ASSUME Init PROVE Ledger /\ GensBounded
  OBVIOUS
<1>1. \A x \in Execs : ex[x].pc = "idle" /\ ~ex[x].reserved /\ ~ex[x].settled /\ ex[x].day = 0 /\ ex[x].gen = 0
  BY DEF Init, IdleExec
<1>2. day = 0 /\ daily = [d \in 0..LastDay |-> 0] /\ ExecsTyped
  BY InitInv DEF Init, IInv
<1>3. Booked = {} /\ Reservations = {} /\ On(ex, day) = {}
  BY <1>1 DEF Booked, Reservations, On
<1>4. IsFiniteSet(Booked)
  BY <1>3, FS_EmptySet
<1>5. MapThenSumSet(Charge, Reservations) = 0
  BY <1>2, <1>3, <1>4, ReservationsTotal, TotalOfNone
<1>6. /\ daily \in [0..LastDay -> Nat] /\ daily[day] = 0
      /\ \A d \in 0..LastDay : daily[d] = 0
  BY <1>2, SandboxAssumption
<1>7. \A x \in Execs : Entry(ex[x])
  BY <1>1, <1>2 DEF Entry
<1>8. Ledger
  BY <1>4, <1>5, <1>6, <1>7, SandboxAssumption DEF Ledger
<1>9. PICK c \in Nat : c = Ceiling /\ c > 0
  BY SandboxAssumption DEF Init, Ceiling, LastAdvance
<1>10. /\ faults \in 0..MaxFaults /\ sess.gen = 0 /\ sess.status = "none" /\ box = 0 /\ owner.gen = 0
       /\ \A r \in Runs : run[r].gen = 0 /\ code[r] = 0
  BY SandboxAssumption DEF Init
<1>11. GensBounded
  BY <1>1, <1>9, <1>10 DEF GensBounded
<1> QED BY <1>8, <1>11

\* So they hold in every reachable state.
LEMMA LedgerInductive == Spec => [](IInv /\ Ledger /\ GensBounded)
<1>1. Init => IInv /\ Ledger /\ GensBounded
  BY InitInv, LedgerInit
<1>2. (IInv /\ Ledger /\ GensBounded) /\ [Next]_vars => (IInv /\ Ledger /\ GensBounded)'
  BY NextInv, LedgerStep, GensStep
<1> QED BY <1>1, <1>2, PTL DEF Spec

\* The accounts of the tenant hold at every moment: executions in progress stay
\* within limits.max_concurrency, and the counter of the day stays within
\* limits.daily_runtime_cap_s while covering every reservation made on it, in
\* full until AdmissionOwnership.close settles it and with what was spent then,
\* across midnights, expired keys, lost answers of Redis and crashes.
THEOREM AccountsAlwaysHold == Spec => []AccountsHold
<1>1. IInv /\ Ledger /\ GensBounded => TypeOK
  <2> SUFFICES ASSUME IInv, Ledger, GensBounded PROVE TypeOK
    OBVIOUS
  <2>1. PICK c \in Nat : c = Ceiling /\ c <= MaxGen
    BY SandboxAssumption DEF GensBounded, Ceiling, LastAdvance
  <2>2. \A n \in Nat : n <= c => n \in 0..MaxGen
    BY <2>1, SandboxAssumption
  <2>3. /\ run \in [Runs -> [status : {"none"} \cup Active \cup Terminal, gen : Nat]]
        /\ sess \in [gen : Nat, status : {"none", "active", "closed", "error"}]
        /\ code \in [Runs -> Nat]
        /\ owner \in [pc : {"idle", "write"}, run : Runs \cup {None}, gen : Nat,
                      ended : SUBSET Runs, asked : BOOLEAN]
        /\ ex \in [Execs -> Executions]
    BY DEF IInv, RowsTyped, ExecsTyped
  <2>4. /\ sess.gen \in 0..MaxGen /\ box \in 0..MaxGen /\ owner.gen \in 0..MaxGen
        /\ \A r \in Runs : run[r].gen \in 0..MaxGen /\ code[r] \in 0..MaxGen
        /\ \A x \in Execs : ex[x].gen \in 0..MaxGen
    <3>1. sess.gen <= c
      <4>1. sess.gen \in Nat /\ sess.gen + (IF sess.status = "active" THEN 0 ELSE 1) <= c
        BY <2>1, <2>3 DEF GensBounded
      <4> QED BY <2>1, <4>1
    <3>2. /\ box \in Nat /\ box <= c /\ owner.gen <= c /\ owner.gen \in Nat /\ sess.gen \in Nat
          /\ \A r \in Runs : run[r].gen <= c /\ code[r] <= c /\ run[r].gen \in Nat /\ code[r] \in Nat
          /\ \A x \in Execs : ex[x].gen <= c /\ ex[x].gen \in Nat
      BY <2>1, <2>3 DEF GensBounded, Executions
    <3> QED BY <2>2, <3>1, <3>2
  <2>5. run \in [Runs -> CodeRuns] /\ sess \in Sessions
    BY <2>3, <2>4 DEF CodeRuns, Sessions
  <2>6. code \in [Runs -> 0..MaxGen]
    BY <2>3, <2>4
  <2>7. owner \in [pc : {"idle", "write"}, run : Runs \cup {None}, gen : 0..MaxGen,
                   ended : SUBSET Runs, asked : BOOLEAN]
    BY <2>3, <2>4
  <2>8. \A x \in Execs : ex[x] \in
         [pc : Pcs, run : Runs \cup {None}, gen : 0..MaxGen, advance : BOOLEAN,
          reserved : BOOLEAN, day : 0..LastDay, spent : 0..Reserved,
          lost : BOOLEAN, lapsed : BOOLEAN, pending : BOOLEAN,
          cause : {"none", "cancelled", "accounting"},
          cancelled : BOOLEAN, beat : BOOLEAN, broken : BOOLEAN,
          settled : BOOLEAN]
    BY <2>3, <2>4 DEF Executions
  <2>9. lease \in [Runs -> [owner : Execs \cup {None}, fresh : BOOLEAN]] /\ day \in 0..LastDay
    BY DEF IInv, RowsTyped
  <2>10. daily \in [0..LastDay -> Nat] /\ faults \in 0..MaxFaults
    BY DEF Ledger, GensBounded
  <2> QED BY <2>3, <2>4, <2>5, <2>6, <2>7, <2>8, <2>9, <2>10 DEF TypeOK
<1>2. IInv /\ Ledger => BudgetHolds
  BY DEF IInv, RowsTyped, Ledger, BudgetHolds
<1> QED BY <1>1, <1>2, LedgerInductive, CapHolds, PTL DEF AccountsHold
=============================================================================
