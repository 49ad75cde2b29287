---------------------------- MODULE Conversation ----------------------------
(***************************************************************************)
(* A session over several messages: what send_message reads of the session  *)
(* memory is assembled into a prompt, the answer loop of chat_runtime fits  *)
(* it to the window of whichever model route serves the turn, retries and   *)
(* falls over to other routes, and the answer becomes a message that the    *)
(* summarizer may fold.  One answer runs at a time in this instance; a      *)
(* message sent meanwhile gets none.                                        *)
(***************************************************************************)
EXTENDS SessionMemory, PromptWindow, SeqFilter

CONSTANTS Window,      \* the input budget of each route: the model, its fallbacks
          MaxTurns,    \* max_tool_turns
          MaxAttempts, \* _turn_attempt_count
          MaxCalls,    \* budgets.max_model_calls
          QuestionSizes, \* the tokens a question may have
          Results      \* the results a turn's tools may return

ASSUME ConversationAssumption ==
    /\ Window \in Seq(Nat) /\ Len(Window) > 0
    /\ MaxTurns \in Nat \ {0} /\ MaxAttempts \in Nat \ {0} /\ MaxCalls \in Nat
    /\ QuestionSizes \subseteq Nat /\ Results \subseteq Seq([size : Nat, cited : BOOLEAN])

Routes == DOMAIN Window

VARIABLES ans,      \* the answer in progress
          prompt,   \* `messages' of the answer loop
          wire,     \* the messages of the attempt: refitted on failover
          usage,    \* tokens of the current route: _Usage
          spent,    \* tokens by route: route_state.spent, and what is recorded
          burned,   \* tokens each route's provider reported (history)
          listed, shown, \* what the send listed, and the summary it read (history)
          gathered  \* the items the loop put after the question (history)

loopVars == <<ans, prompt, wire, usage, spent, burned, listed, shown, gathered>>
vars == <<memoryVars, loopVars>>

NoAnswer == [pc |-> "idle", place |-> 0, question |-> 0, size |-> 0, route |-> 1, tries |-> 0,
             turn |-> 0, mode |-> "loop", calls |-> 0]
NoTokens == [r \in Routes |-> 0]

Init ==
    /\ MemoryInit
    /\ ans = NoAnswer /\ prompt = <<>> /\ wire = <<>>
    /\ usage = 0 /\ spent = NoTokens /\ burned = NoTokens
    /\ listed = {} /\ shown = {} /\ gathered = <<>>

---------------------------------------------------------------------------
(* The send *)

\* The request lists the messages after its cursor, inserts its own and
\* commits; _schedule_answer starts the producer.
SendCommit ==
    /\ sender.pc = "list" /\ ~deleted
    /\ Insert(sender.place) /\ sender' = IdleSender
    /\ IF ans.pc = "idle"
       THEN /\ \E size \in QuestionSizes :
                  ans' = [NoAnswer EXCEPT !.pc = "assemble", !.question = sender.place, !.size = size]
            /\ listed' = ListAfter(Cursor(sender.saw))
            /\ shown' = IF sender.saw.state = "valid" THEN sender.saw.folds ELSE {}
            /\ spent' = NoTokens /\ burned' = NoTokens
       ELSE UNCHANGED <<ans, listed, shown, spent, burned>>
    /\ UNCHANGED <<place, row, task, sends, faults, deleted, prompt, wire, usage, gathered>>

---------------------------------------------------------------------------
(* The answer loop *)

\* An attempt's tokens, when its provider reports them.
Charged(tokens) == burned' = [burned EXCEPT ![ans.route] = @ + tokens]

\* The end of the answer: every route's tokens are recorded under its model.
Close(tokens) ==
    /\ ans' = NoAnswer /\ prompt' = <<>> /\ wire' = <<>> /\ usage' = 0
    /\ spent' = [spent EXCEPT ![ans.route] = @ + usage + tokens] /\ Charged(tokens)
    /\ listed' = {} /\ shown' = {} /\ gathered' = <<>>

\* It ends with an error, and stores nothing.
Fail(tokens) == Close(tokens) /\ UNCHANGED memoryVars

\* It is persisted, and the summarizer asked for.
Finish(tokens) ==
    /\ Close(tokens)
    /\ IF deleted THEN UNCHANGED <<stored, disordered, task, faults>>
       ELSE /\ Insert(ans.place)
            /\ \/ EnqueueSummarize /\ UNCHANGED faults
               \/ faults < MaxFaults /\ faults' = faults + 1 /\ UNCHANGED task
    /\ UNCHANGED <<place, row, sender, sends, deleted>>

\* A continuation that cannot run leaves the answer as it is.
GiveUp(tokens) == IF ans.mode = "continue" THEN Finish(tokens) ELSE Fail(tokens)

\* The producer's transaction starts, which dates the answer's row, and the
\* prompt is assembled for the first route.
AssembleContext ==
    /\ ans.pc = "assemble"
    /\ LET turns == [i \in 1..Cardinality(listed) |-> Turn(Nth(listed, i))]
           built == Assemble(shown # {}, turns, Question(ans.question, ans.size), Window[1])
       IN \/ built = TooLarge /\ Fail(0)
          \/ /\ built # TooLarge
             /\ place' = place + 1
             /\ ans' = [ans EXCEPT !.pc = "fit", !.place = place + 1]
             /\ prompt' = built
             /\ UNCHANGED <<stored, disordered, row, task, sender, sends, faults, deleted,
                            wire, usage, spent, burned, listed, shown, gathered>>

\* fit_transcript before each turn.
FitTurn ==
    /\ ans.pc = "fit"
    /\ LET fitted == FitTranscript(prompt, Window[ans.route])
       IN \/ fitted = TooLarge /\ Fail(0)
          \/ /\ fitted # TooLarge
             /\ ans' = [ans EXCEPT !.pc = "call", !.tries = 0]
             /\ prompt' = fitted /\ wire' = fitted
             /\ UNCHANGED <<memoryVars, usage, spent, burned, listed, shown, gathered>>

\* A failed attempt is charged only if its usage chunk had arrived.
FaultTokens == 0..1

\* _claim_model_call.
Claims == ans.pc = "call" /\ ans.calls < MaxCalls
CallsExhausted == ans.pc = "call" /\ ans.calls >= MaxCalls /\ GiveUp(0)

\* The turn ends without tool calls.
Answer == Claims /\ Finish(1)

\* It ends at the output cap: one continuation follows, with no tools.
Truncated ==
    /\ Claims /\ ans.mode # "continue"
    /\ \/ /\ prompt' = Append(prompt, Item("reply", 1, 1)) /\ gathered' = Append(gathered, 1)
       \/ UNCHANGED <<prompt, gathered>>
    /\ ans' = [ans EXCEPT !.pc = "fit", !.mode = "continue", !.calls = @ + 1]
    /\ usage' = usage + 1 /\ Charged(1)
    /\ UNCHANGED <<memoryVars, wire, spent, listed, shown>>

\* It asks for tools: the calls and their results go on the transcript.
ToolGroup(t, results) ==
    <<Item("call", t, 1)>> \o
    [i \in DOMAIN results |->
        [what |-> "result", id |-> t + i, size |-> results[i].size,
         cited |-> results[i].cited, evidence |-> results[i].cited]]
ToolTurn ==
    /\ Claims /\ ans.mode = "loop"
    /\ \E results \in Results :
          LET group == ToolGroup(10 * (ans.turn + 1), results)
          IN /\ prompt' = prompt \o group
             /\ gathered' = gathered \o [i \in DOMAIN group |-> group[i].id]
    /\ ans' = [ans EXCEPT !.pc = "fit", !.turn = @ + 1, !.calls = @ + 1,
                          !.mode = IF ans.turn + 1 = MaxTurns THEN "wrap" ELSE "loop"]
    /\ usage' = usage + 1 /\ Charged(1)
    /\ UNCHANGED <<memoryVars, wire, spent, listed, shown>>

\* It asks for more external calls than the answer may make: wrap up.
ToolBudgetSpent ==
    /\ Claims /\ ans.mode = "loop"
    /\ ans' = [ans EXCEPT !.pc = "fit", !.mode = "wrap", !.calls = @ + 1]
    /\ usage' = usage + 1 /\ Charged(1)
    /\ UNCHANGED <<memoryVars, prompt, wire, spent, listed, shown, gathered>>

\* A retryable fault with an attempt left.
Retry ==
    /\ Claims /\ ans.tries + 1 < MaxAttempts
    /\ ans' = [ans EXCEPT !.tries = @ + 1, !.calls = @ + 1]
    /\ \E tokens \in FaultTokens : usage' = usage + tokens /\ Charged(tokens)
    /\ UNCHANGED <<memoryVars, prompt, wire, spent, listed, shown, gathered>>

\* The route's attempts are spent: _advance_to_fallback takes the next route
\* that resolves, and the turn is fitted to its window.
Dying == Claims /\ ans.tries + 1 = MaxAttempts /\ ans.mode # "continue"
RefitNothing(r) == prompt
Refit(r) == FitTranscript(prompt, Window[r])
OwingNext(r) == r
Owing(r) == ans.route
Failover ==
    /\ Dying
    /\ \E r \in Routes, tokens \in FaultTokens :
          /\ r > ans.route
          /\ \/ Refit(r) = TooLarge /\ Fail(tokens)
             \/ /\ Refit(r) # TooLarge
                /\ wire' = Refit(r)
                /\ ans' = [ans EXCEPT !.route = r, !.tries = 0, !.calls = @ + 1]
                /\ spent' = [spent EXCEPT ![Owing(r)] = @ + usage + tokens]
                /\ usage' = 0 /\ Charged(tokens)
                /\ UNCHANGED <<memoryVars, prompt, listed, shown, gathered>>

\* A fault that ends the turn: not retryable, after narration, timed out, or
\* with no route left.
TurnFails == Claims /\ \E tokens \in FaultTokens : GiveUp(tokens)

LoopNext ==
    \/ AssembleContext \/ FitTurn \/ CallsExhausted \/ Answer \/ Truncated \/ ToolTurn
    \/ ToolBudgetSpent \/ Retry \/ Failover \/ TurnFails

Next ==
    \/ TaskNext /\ UNCHANGED loopVars
    \/ SendRead /\ UNCHANGED loopVars
    \/ DeleteSession /\ UNCHANGED loopVars
    \/ SendCommit
    \/ LoopNext

Spec == Init /\ [][Next]_vars

---------------------------------------------------------------------------
(* Properties *)

Rows == [state : {"none", "invalid", "valid"}, folds : SUBSET Message,
         boundary : Message \cup {0}, version : Nat]
TypeOK ==
    /\ stored \subseteq Message /\ place \in 0..(Kept + 2 * MaxSends)
    /\ disordered \subseteq Message /\ row \in Rows
    /\ \A t \in Tasks : /\ task[t].pc \in {"none", "queued", "list", "model"}
                        /\ task[t].covers \subseteq Message
                        /\ task[t].pc = "model" => Cardinality(task[t].covers) \in MinBatch..MaxBatch
    /\ ans.route \in Routes /\ ans.tries \in 0..(MaxAttempts - 1)
    /\ ans.turn \in 0..MaxTurns /\ ans.calls \in 0..MaxCalls
    /\ (ans.pc = "idle") => usage = 0
    /\ ans.pc \in {"fit", "call"} => ans.place \notin stored

Sending == ans.pc = "call"
Places(items, what) == {items[i].id : i \in {j \in DOMAIN items : items[j].what = what}}

\* Every request goes out within the window of the route that serves it, also
\* the retry on a fallback whose window is smaller than the one the turn was
\* fitted for (_stream_turn_resilient's refit, fit_transcript).
FitsWindow == Sending => Total(wire) <= Window[ans.route]

\* What a request leaves out is the oldest of the conversation: the system
\* prompt and the question are always there, and everything the loop gathered
\* since the question follows it, complete and in order, so that every call is
\* followed by its results (_oldest_sheddable_span, _compact_oldest_tool_results).
RequestIsWhole ==
    Sending =>
        /\ wire[1] = System /\ Places(wire, "question") = {ans.question}
        /\ LET tail == SubSeq(wire, LastQuestionIndex(wire) + 1, Len(wire))
           IN [i \in DOMAIN tail |-> tail[i].id] = gathered

\* The text an answer cites is in every request that carries the result it
\* came from, however often the result was compacted (_context_digest).
EvidenceIsKept ==
    Sending => \A i \in DOMAIN wire : wire[i].cited => wire[i].evidence

\* No message falls between the summary and the verbatim history: of what was
\* committed when the send listed the session, each message is in the summary
\* the send read or in its list.  The summarizer may advance between the two
\* reads (ChatService.send_message).
NothingForgotten ==
    Sending => {m \in stored : m < ans.question} \ disordered \subseteq listed \cup shown

\* What the window drops of the list is the oldest (assemble_context).
OldestDropped ==
    Sending => LET turns == Places(wire, "turn")
               IN \A m \in listed \ turns : \A k \in turns : m < k

\* The tokens of an answer are recorded under the model that used them, across
\* retries and failovers and however it ends (route_state.spent).
SpendIsAttributed ==
    burned = [spent EXCEPT ![ans.route] = @ + usage]

\* The conversation is remembered whole: the summary stands for its prefix
\* (SummaryIsPrefix) and a send lists the rest (NothingForgotten).
MemoryIsWhole == SummaryIsPrefix /\ NothingForgotten

\* Every request fits its route, is whole, lacks only the oldest messages, keeps
\* its evidence, and is billed to the model that served it (FitsWindow,
\* RequestIsWhole, OldestDropped, EvidenceIsKept, SpendIsAttributed).
RequestIsFit ==
    /\ TypeOK /\ FitsWindow /\ RequestIsWhole /\ OldestDropped /\ EvidenceIsKept
    /\ SpendIsAttributed

=============================================================================
