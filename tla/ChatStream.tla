----------------------------- MODULE ChatStream -----------------------------
(***************************************************************************)
(* One answer: the producer that runs it (services/chat_runtime), the       *)
(* Redis backplane its envelopes go through (realtime/backplane), the       *)
(* sockets that follow it (realtime/chat_ws) and the Stop request           *)
(* (services/stream_cancellation).                                          *)
(*                                                                          *)
(* Text is a sequence of chunks, numbered as they are made, so that what a  *)
(* client shows can be compared with what is stored.  Everything that is    *)
(* neither answer text, a retraction nor a terminal (steps, narration, tool *)
(* calls and results, citations, a question) is an "event" envelope.        *)
(***************************************************************************)
EXTENDS Naturals, Sequences, FiniteSets, SequencesExt

CONSTANTS Clients,    \* sockets that follow the stream
          NoTerm,     \* no terminal
          MaxChunks,  \* bound: pieces of text the model produces
          MaxTurns,   \* bound: tool turns and retried attempts
          MaxReplay,  \* envelopes the replay list keeps
          MaxJoins,   \* bound: subscriptions
          MaxFaults   \* bound: failures of any kind

ASSUME StreamAssumption ==
    /\ MaxChunks \in Nat /\ MaxTurns \in Nat /\ MaxFaults \in Nat /\ MaxJoins \in Nat
    /\ MaxReplay \in Nat \ {0} /\ NoTerm \notin {"done", "error", "cancelled"}

VARIABLES point, after, \* where the producer is, and where a retraction returns
          buf,        \* the coalescer: answer text not yet published
          text,       \* the answer of this turn
          partial,    \* state.partial_answer
          onWire,     \* state.answer_on_wire
          seq, termSeq,
          committed,  \* state.answer_committed
          sent,       \* state.terminal_sent
          stopped,    \* _cancel_requested
          ask,        \* the turn ends in a question to the user
          reply,      \* the assistant message: its finish and its content
          spent, recorded, armed, \* usage billed, usage recorded, salvage armed
          out,        \* the envelope being published
          tries,      \* attempts at the terminal
          stored,     \* the replay list
          flag,       \* the stream's cancel key
          sub,        \* subscriptions
          doubt,      \* a commit or salvage was lost or in doubt (history)
          torn,       \* a retraction was interrupted (history)
          cut,        \* an envelope is in the list, and was not sent (history)
          chunks, turns, joins, faults

producer == <<point, after, buf, text, partial, onWire, seq, termSeq, committed, sent,
              stopped, ask, reply, spent, recorded, armed, tries, doubt, torn, cut, chunks, turns>>
streamVars == <<producer, out, stored, flag, sub, joins, faults>>

Texts == Seq(1..MaxChunks + 2)
Terminals == {"done", "error", "cancelled"}
Kinds == {"start", "delta", "retract", "event", "suggestions"} \cup Terminals
\* The assistant's messages row.
Messages == [finish : {"none", "stop", "cancelled"}, content : Texts]
NoRow == [finish |-> "none", content |-> <<>>]
\* An envelope; "pending" is a done's announcement of suggestions.
Envelope(s, kind, t) == [seq |-> s, kind |-> kind, text |-> t, pending |-> FALSE]
Idle == [stage |-> "none", env |-> Envelope(0, "start", <<>>)]
NoSub == [pc |-> "off", inbox |-> <<>>, last |-> 0, view |-> <<>>, term |-> NoTerm]

\* Where a Stop is still accepted (request_cancel).
Stoppable == {"start", "turn", "retract", "tools", "length", "final", "rewrite", "persist"}
CancelFlow == {"csalvage", "cflush", "cpub"}
ErrorFlow == {"esalvage", "eretract", "epub"}
Points == Stoppable \cup CancelFlow \cup ErrorFlow \cup
       {"send", "commit", "asked", "done", "suggest", "end"}

StreamTypeOK ==
    /\ point \in Points /\ after \in {"none", "tools", "turn", "rewrite", "epub"}
    /\ buf \in Texts /\ text \in Texts /\ partial \in Texts
    /\ onWire \in BOOLEAN /\ committed \in BOOLEAN /\ sent \in BOOLEAN
    /\ stopped \in BOOLEAN /\ ask \in BOOLEAN /\ armed \in BOOLEAN
    /\ seq \in Nat /\ termSeq \in 0..seq
    /\ reply \in Messages
    /\ spent \in 0..MaxTurns + 2 /\ recorded \in Nat /\ tries \in 0..2
    /\ out.stage \in {"none", "push", "send"} /\ out.env.kind \in Kinds
    /\ Len(stored) <= MaxReplay /\ flag \in BOOLEAN
    /\ \A c \in Clients : /\ sub[c].pc \in {"off", "joined", "live", "grace", "closed"}
                          /\ sub[c].view \in Texts /\ sub[c].term \in Terminals \cup {NoTerm}
    /\ doubt \in BOOLEAN /\ torn \in BOOLEAN /\ cut \in BOOLEAN
    /\ chunks \in 0..MaxChunks + 2 /\ turns \in 0..MaxTurns
    /\ joins \in 0..MaxJoins /\ faults \in 0..MaxFaults

StreamInit ==
    /\ point = "send" /\ after = "none" /\ buf = <<>> /\ text = <<>> /\ partial = <<>>
    /\ onWire = FALSE /\ seq = 0 /\ termSeq = 0 /\ committed = FALSE /\ sent = FALSE
    /\ stopped = FALSE /\ ask = FALSE /\ reply = NoRow
    /\ spent = 0 /\ recorded = 0 /\ armed = FALSE
    /\ out = Idle /\ tries = 0 /\ stored = <<>> /\ flag = FALSE
    /\ sub = [c \in Clients |-> NoSub] /\ doubt = FALSE /\ torn = FALSE /\ cut = FALSE
    /\ chunks = 0 /\ turns = 0 /\ joins = 0 /\ faults = 0

Fault == faults < MaxFaults /\ faults' = faults + 1
NothingOut == out.stage = "none"
To(p) == point' = p
Publish(env) == out' = [stage |-> "push", env |-> env]
\* The next envelope: seq is minted as it is made.
Emit(kind, t) == seq' = seq + 1 /\ Publish(Envelope(seq + 1, kind, t))

rest == <<stored, flag, sub, joins>>
answer == <<buf, text, partial, onWire>>
usage == <<spent, recorded, armed>>
terminal == <<seq, termSeq, sent, tries>>
marks == <<committed, stopped, ask, reply, doubt>>
counts == <<chunks, turns>>
wire == <<torn, cut>>

-----------------------------------------------------------------------------
(* The backplane.                                                           *)

\* RPUSH and LTRIM: the list has the envelope before the channel does.
Push ==
    /\ out.stage = "push" /\ out' = [out EXCEPT !.stage = "send"]
    /\ stored' = LET list == Append(stored, out.env) IN
                 IF Len(list) > MaxReplay THEN Tail(list) ELSE list
    /\ UNCHANGED <<producer, flag, sub, joins, faults>>

\* What a subscription relays, and what its client makes of it: nothing after
\* a terminal changes the answer.  It ends with the terminal or, when a done
\* announces suggestions, with those ("grace").
Shown(s, env) ==
    IF s.pc \notin {"live", "grace"} THEN s
    ELSE IF env.kind \in Terminals THEN
       [s EXCEPT !.term = IF @ = NoTerm THEN env.kind ELSE @,
                 !.pc = IF env.pending \/ s.pc = "grace" THEN "grace" ELSE "closed"]
    ELSE IF s.pc = "grace" THEN
       [s EXCEPT !.pc = IF env.kind = "suggestions" THEN "closed" ELSE "grace"]
    ELSE IF env.kind = "delta" THEN [s EXCEPT !.view = @ \o env.text]
    ELSE IF env.kind = "retract" THEN [s EXCEPT !.view = <<>>]
    ELSE s

\* An envelope that is relayed, unless the replay already had it.
Received(s, env) == IF env.seq <= s.last THEN s ELSE Shown(s, env)

\* A sequence of envelopes, one after the other.  (The images of a singleton:
\* TLC evaluates a bound variable once, an operator's argument at every use.)
Relayed(s, envs) ==
    LET upto[i \in 0..Len(envs)] ==
          IF i = 0 THEN {s} ELSE {Received(t, envs[i]) : t \in upto[i - 1]}
    IN  CHOOSE t \in upto[Len(envs)] : TRUE

\* PUBLISH to whoever is subscribed: a subscription that has not replayed yet
\* buffers, a live one is served in order.
Send ==
    /\ out.stage = "send" /\ out' = Idle
    /\ sub' = [c \in Clients |->
                 IF sub[c].pc = "joined" THEN [sub[c] EXCEPT !.inbox = Append(@, out.env)]
                 ELSE Received(sub[c], out.env)]
    /\ UNCHANGED <<producer, stored, flag, joins, faults>>

-----------------------------------------------------------------------------
(* Failures of the producer's awaits.                                       *)

\* run's exception ladder: a Stop before the commit settles as cancelled,
\* everything else as an error.
Raised == point' = IF stopped /\ ~committed THEN "csalvage" ELSE "esalvage"

\* The publish under way is given up: an answer that was being retracted
\* stays on the client's screen, an envelope may be in the list alone.
Interrupted ==
    /\ out' = Idle
    /\ torn' = (torn \/ (~NothingOut /\ out.env.kind = "retract"))
    /\ cut' = (cut \/ out.stage = "send")

\* A provider fault, the deadline, a shutdown or a failed publish, at any
\* await of the answer.
Abort ==
    /\ point \in Stoppable \cup {"asked", "done", "suggest"} /\ Fault
    /\ Raised /\ after' = "none" /\ Interrupted
    /\ UNCHANGED <<answer, usage, terminal, marks, counts, rest>>

\* The terminal's own publish runs out of its time and is repeated once.
TerminalTimeout ==
    /\ point \in {"done", "cpub"} /\ ~NothingOut /\ Fault /\ Interrupted
    /\ UNCHANGED <<point, after, answer, usage, terminal, marks, counts, rest>>

\* A settlement is shielded, but its publishes may fail too, the retraction
\* and the error terminal itself included: it ends without a terminal.  After
\* a terminal, the suggestions' publish fails quietly.
SettlementFails ==
    /\ point \in {"cflush", "eretract", "epub"} \/ (point = "end" /\ sent)
    /\ ~NothingOut /\ Fault
    /\ Interrupted /\ To("end")
    /\ UNCHANGED <<after, answer, usage, terminal, marks, counts, rest>>

-----------------------------------------------------------------------------
(* The answer.                                                              *)

\* send_message binds the stream's owner and commits the question; the
\* answer runs as a task.
Begin ==
    /\ point = "send" /\ To("start")
    /\ UNCHANGED <<after, answer, usage, terminal, marks, wire, counts, out, rest, faults>>

Start ==
    /\ point = "start" /\ NothingOut /\ To("turn") /\ Emit("start", <<>>)
    /\ armed' = TRUE
    /\ UNCHANGED <<after, answer, spent, recorded, termSeq, sent, tries, marks, wire, counts,
                   rest, faults>>

\* The model speaks; the text waits in the coalescer.
Chunk ==
    /\ point = "turn" /\ NothingOut /\ chunks < MaxChunks /\ chunks' = chunks + 1
    /\ buf' = Append(buf, chunks') /\ text' = Append(text, chunks')
    /\ UNCHANGED <<point, after, partial, onWire, usage, terminal, marks, wire, turns, out,
                   rest, faults>>

\* _flush_text: noted as published, then published.
FlushText ==
    /\ point \in {"turn", "persist", "cflush"} /\ NothingOut /\ buf # <<>>
    /\ buf' = <<>> /\ partial' = partial \o buf /\ onWire' = TRUE
    /\ Emit("delta", buf)
    /\ UNCHANGED <<point, after, text, usage, termSeq, sent, tries, marks, wire, counts,
                   rest, faults>>

\* Mutant: the coalescer keeps what it holds.
RetractKeepsBuffer ==
    /\ point = "retract" /\ NothingOut /\ To(after) /\ after' = "none"
    /\ partial' = <<>> /\ onWire' = FALSE
    /\ IF onWire THEN Emit("retract", <<>>) ELSE UNCHANGED <<seq, out>>
    /\ UNCHANGED <<buf, text, usage, termSeq, sent, tries, marks, wire, counts, rest, faults>>

\* _retract_answer: the coalescer is emptied, and what is out is taken back.
Retract ==
    /\ point = "retract" /\ NothingOut /\ To(after) /\ after' = "none"
    /\ buf' = <<>> /\ partial' = <<>> /\ onWire' = FALSE
    /\ IF onWire THEN Emit("retract", <<>>) ELSE UNCHANGED <<seq, out>>
    /\ UNCHANGED <<text, usage, termSeq, sent, tries, marks, wire, counts, rest, faults>>

\* The turn asks for tools: its text was narration.
ToolTurn ==
    /\ point = "turn" /\ NothingOut /\ turns < MaxTurns /\ turns' = turns + 1
    /\ spent' = spent + 1 /\ To("retract") /\ after' = "tools"
    /\ UNCHANGED <<answer, recorded, armed, terminal, marks, wire, chunks, out, rest, faults>>

\* Narration, the batch and its results; then the next turn, or a question.
Tools ==
    /\ point = "tools" /\ NothingOut /\ Emit("event", <<>>) /\ text' = <<>>
    /\ \/ To("turn") /\ UNCHANGED ask
       \/ To("persist") /\ ask' = TRUE
    /\ UNCHANGED <<after, buf, partial, onWire, usage, termSeq, sent, tries, committed,
                   stopped, reply, doubt, wire, counts, rest, faults>>

\* A retryable provider fault: the attempt's text goes, the turn is repeated,
\* on the next model if need be.
Retry ==
    /\ point = "turn" /\ NothingOut /\ turns < MaxTurns /\ turns' = turns + 1
    /\ To("retract") /\ after' = "turn" /\ text' = <<>>
    /\ UNCHANGED <<buf, partial, onWire, usage, terminal, marks, wire, chunks, out, rest,
                   faults>>

\* The turn ends in text, perhaps cut off at the token limit.
EndTurn ==
    /\ point = "turn" /\ NothingOut /\ spent' = spent + 1
    /\ To("final") \/ To("length")
    /\ UNCHANGED <<after, answer, recorded, armed, terminal, marks, wire, counts, out, rest,
                   faults>>

\* One continuation of a cut-off answer, published whole; its failure leaves
\* the answer as it is.
Continue ==
    /\ point = "length" /\ NothingOut /\ To("final")
    /\ \/ /\ chunks' = chunks + 1 /\ spent' = spent + 1
          /\ buf' = Append(buf, chunks') /\ text' = Append(text, chunks')
       \/ UNCHANGED <<chunks, spent, buf, text>>
    /\ UNCHANGED <<after, partial, onWire, recorded, armed, terminal, marks, wire, turns,
                   out, rest, faults>>

\* Citations that do not hold, or no text at all: the answer is replaced.
Final ==
    /\ point = "final" /\ NothingOut
    /\ \/ text # <<>> /\ To("persist") /\ UNCHANGED <<after, text, chunks>>
       \/ /\ To("retract") /\ after' = "rewrite"
          /\ chunks' = chunks + 1 /\ text' = <<chunks'>>
    /\ UNCHANGED <<buf, partial, onWire, usage, terminal, marks, wire, turns, out, rest,
                   faults>>

Rewrite ==
    /\ point = "rewrite" /\ NothingOut /\ To("persist") /\ buf' = text
    /\ UNCHANGED <<after, text, partial, onWire, usage, terminal, marks, wire, counts, out,
                   rest, faults>>

\* Citations and the last step, with the rows still uncommitted.
Persist ==
    /\ point = "persist" /\ NothingOut /\ buf = <<>> /\ To("commit") /\ Emit("event", <<>>)
    /\ UNCHANGED <<after, answer, usage, termSeq, sent, tries, marks, wire, counts, rest,
                   faults>>

\* The commit of message, citations, audit and usage disarms the salvage.
Commit ==
    /\ point = "commit" /\ NothingOut
    /\ reply' = [finish |-> "stop", content |-> text]
    /\ recorded' = recorded + spent /\ armed' = FALSE /\ committed' = TRUE
    /\ IF ask THEN To("asked") ELSE To("done")
    /\ UNCHANGED <<after, answer, spent, terminal, stopped, ask, doubt, wire, counts, out,
                   rest, faults>>

\* The commit fails, or succeeds and its answer is lost.
CommitFails ==
    /\ point = "commit" /\ NothingOut /\ Fault /\ Raised /\ doubt' = TRUE
    /\ \/ UNCHANGED <<reply, recorded>>
       \/ /\ reply' = [finish |-> "stop", content |-> text] /\ recorded' = recorded + spent
    /\ UNCHANGED <<after, answer, spent, armed, terminal, committed, stopped, ask, wire,
                   counts, out, rest>>

\* The question of the assistant, once it is durable.
AskUser ==
    /\ point = "asked" /\ NothingOut /\ To("done") /\ Emit("event", <<>>)
    /\ UNCHANGED <<after, answer, usage, termSeq, sent, tries, marks, wire, counts, rest,
                   faults>>

\* Mutant: every attempt is numbered.
DoneTerminalNumbered ==
    /\ point = "done" /\ NothingOut /\ tries < 2
    /\ tries' = tries + 1
    /\ termSeq' = seq + 1 /\ seq' = seq + 1
    /\ Publish([Envelope(termSeq', "done", <<>>) EXCEPT !.pending = ~ask])
    /\ UNCHANGED <<point, after, answer, usage, sent, marks, wire, counts, rest, faults>>

\* The terminal keeps its seq however often it is published.
DoneTerminal ==
    /\ point = "done" /\ NothingOut /\ tries < 2
    /\ tries' = tries + 1
    /\ termSeq' = IF termSeq = 0 THEN seq + 1 ELSE termSeq
    /\ seq' = IF termSeq = 0 THEN seq + 1 ELSE seq
    /\ Publish([Envelope(termSeq', "done", <<>>) EXCEPT !.pending = ~ask])
    /\ UNCHANGED <<point, after, answer, usage, sent, marks, wire, counts, rest, faults>>

\* It went out, or was given up.
DoneSettled ==
    /\ point = "done" /\ NothingOut /\ tries > 0
    /\ \/ sent' = TRUE /\ \E i \in DOMAIN stored : stored[i].kind = "done"
       \/ sent' = FALSE /\ tries = 2
    /\ IF ask THEN To("end") ELSE To("suggest")
    /\ UNCHANGED <<after, answer, usage, seq, termSeq, tries, marks, wire, counts, out,
                   rest, faults>>

\* Follow-up suggestions, in a transaction of their own, if there are any.
Suggest ==
    /\ point = "suggest" /\ NothingOut /\ To("end")
    /\ \/ Emit("suggestions", <<>>)
       \/ UNCHANGED <<seq, out>>
    /\ UNCHANGED <<after, answer, usage, termSeq, sent, tries, marks, wire, counts, rest,
                   faults>>

-----------------------------------------------------------------------------
(* Settlement.                                                              *)

\* Mutant: the salvage is not disarmed by the commit.
SalvagedAlways(lost) ==
    /\ recorded' = IF ~lost THEN recorded + spent ELSE recorded
    /\ armed' = FALSE /\ doubt' = (doubt \/ lost)

\* _salvage_usage_after_failure: what was billed is recorded all the same.
Salvaged(lost) ==
    /\ recorded' = IF armed /\ ~lost THEN recorded + spent ELSE recorded
    /\ armed' = FALSE /\ doubt' = (doubt \/ lost)

Salvage ==
    /\ point \in {"csalvage", "esalvage"} /\ NothingOut
    /\ IF point = "csalvage" THEN To("cflush") ELSE To("eretract")
    /\ \E lost \in BOOLEAN : (IF lost THEN Fault ELSE UNCHANGED faults) /\ Salvaged(lost)
    /\ UNCHANGED <<after, answer, spent, terminal, committed, stopped, ask, reply, wire,
                   counts, out, rest>>

\* Stop: POST /streams/{id}/cancel, while no terminal is stored.
RequestStop ==
    /\ point # "send" /\ ~flag /\ flag' = TRUE
    /\ \A i \in DOMAIN stored : stored[i].kind \notin Terminals
    /\ UNCHANGED <<producer, out, stored, sub, joins, faults>>

\* request_cancel: refused once the answer is completing or an error settles.
AcceptStop == point \in Stoppable

\* The watcher, the registry or the next check passes the Stop on: the
\* answer's task is cancelled where it stands.
Stop ==
    /\ flag /\ ~stopped /\ AcceptStop /\ stopped' = TRUE
    /\ To("csalvage") /\ after' = "none" /\ Interrupted
    /\ UNCHANGED <<answer, usage, terminal, committed, ask, reply, doubt, counts, rest, faults>>

\* Mutant: the buffered text is saved though it was not published.
SavePartialText ==
    /\ point = "cflush" /\ NothingOut /\ buf = <<>>
    /\ \/ /\ reply' = [finish |-> "cancelled", content |-> text] /\ To("cpub")
          /\ tries' = 0 /\ UNCHANGED faults
       \/ Fault /\ To("eretract") /\ UNCHANGED <<reply, tries>>
    /\ UNCHANGED <<after, answer, usage, seq, termSeq, sent, committed, stopped, ask, doubt,
                   wire, counts, out, rest>>

\* After what was generated before the Stop is out, the partial answer is
\* saved, or the Stop fails as an error.
SavePartial ==
    /\ point = "cflush" /\ NothingOut /\ buf = <<>>
    /\ \/ /\ reply' = [finish |-> "cancelled", content |-> partial] /\ To("cpub")
          /\ tries' = 0 /\ UNCHANGED faults
       \/ Fault /\ To("eretract") /\ UNCHANGED <<reply, tries>>
    /\ UNCHANGED <<after, answer, usage, seq, termSeq, sent, committed, stopped, ask, doubt,
                   wire, counts, out, rest>>

\* The one "cancelled", twice at most.
CancelledTerminal ==
    /\ point = "cpub" /\ NothingOut
    /\ \/ /\ tries < 2 /\ tries' = tries + 1
          /\ termSeq' = IF termSeq = 0 THEN seq + 1 ELSE termSeq
          /\ seq' = IF termSeq = 0 THEN seq + 1 ELSE seq
          /\ Publish(Envelope(termSeq', "cancelled", <<>>))
          /\ UNCHANGED <<point, sent>>
       \/ /\ tries > 0 /\ To("end")
          /\ \/ sent' = TRUE /\ \E i \in DOMAIN stored : stored[i].kind = "cancelled"
             \/ sent' = FALSE /\ tries = 2
          /\ UNCHANGED <<tries, termSeq, seq, out>>
    /\ UNCHANGED <<after, answer, usage, marks, wire, counts, rest, faults>>

\* Mutant: the answer is left on the screen.
ErrorRetractNever ==
    /\ point = "eretract" /\ NothingOut /\ To("epub")
    /\ UNCHANGED <<after, answer, usage, terminal, marks, wire, counts, out, rest, faults>>

\* _terminal_error: what was not committed is taken back.
ErrorRetract ==
    /\ point = "eretract" /\ NothingOut
    /\ IF sent THEN To("end") /\ UNCHANGED <<buf, partial, onWire, seq, out>>
       ELSE /\ To("epub")
            /\ IF committed THEN UNCHANGED <<buf, partial, onWire, seq, out>>
               ELSE /\ buf' = <<>> /\ partial' = <<>> /\ onWire' = FALSE
                    /\ IF onWire THEN Emit("retract", <<>>) ELSE UNCHANGED <<seq, out>>
    /\ UNCHANGED <<after, text, usage, termSeq, sent, tries, marks, wire, counts, rest, faults>>

\* The error terminal, in the place of a terminal already numbered.
ErrorTerminal ==
    /\ point = "epub" /\ NothingOut /\ sent' = TRUE /\ To("end")
    /\ seq' = IF termSeq = 0 THEN seq + 1 ELSE seq
    /\ Publish(Envelope(IF termSeq = 0 THEN seq + 1 ELSE termSeq, "error", <<>>))
    /\ UNCHANGED <<after, answer, usage, termSeq, tries, marks, wire, counts, rest, faults>>

\* The process dies; nothing of it is stored that was not.
ProducerDies ==
    /\ point \notin {"send", "end"} /\ Fault /\ To("end") /\ Interrupted
    /\ after' = "none" /\ doubt' = TRUE
    /\ UNCHANGED <<answer, usage, terminal, committed, stopped, ask, reply, counts, rest>>

-----------------------------------------------------------------------------
(* Subscriptions.                                                           *)

Join(c) ==
    /\ sub[c].pc = "off" /\ point # "send" /\ joins < MaxJoins /\ joins' = joins + 1
    /\ sub' = [sub EXCEPT ![c] = [NoSub EXCEPT !.pc = "joined"]]
    /\ UNCHANGED <<producer, out, stored, flag, faults>>

\* Mutant: the high-water seq is one too high.
ReplayedAhead(s) ==
    LET t == Relayed([s EXCEPT !.pc = "live", !.inbox = <<>>], stored) IN
    [t EXCEPT !.last = IF stored = <<>> THEN 0 ELSE Last(stored).seq + 1]

\* All stored envelopes (s.last is 0, below every seq), and from now on the
\* highest seq among them.
Replayed(s) ==
    LET t == Relayed([s EXCEPT !.pc = "live", !.inbox = <<>>], stored) IN
    [t EXCEPT !.last = IF stored = <<>> THEN 0 ELSE Last(stored).seq]

\* The replay, then what arrived on the channel meanwhile.
Replay(c) ==
    /\ sub[c].pc = "joined"
    /\ sub' = [sub EXCEPT ![c] = Relayed(Replayed(@), @.inbox)]
    /\ UNCHANGED <<producer, out, stored, flag, joins, faults>>

\* The grace for suggestions ends, or the socket goes away.
Leave(c) ==
    /\ sub[c].pc # "off" /\ sub' = [sub EXCEPT ![c] = NoSub]
    /\ UNCHANGED <<producer, out, stored, flag, joins, faults>>

-----------------------------------------------------------------------------
ProducerStep ==
    \/ Push \/ Send \/ Start \/ Chunk \/ FlushText \/ Retract \/ ToolTurn \/ Tools \/ Retry
    \/ EndTurn \/ Continue \/ Final \/ Rewrite \/ Persist \/ Commit \/ AskUser
    \/ DoneTerminal \/ DoneSettled \/ Suggest \/ Salvage \/ SavePartial
    \/ CancelledTerminal \/ ErrorRetract \/ ErrorTerminal

StreamNext ==
    \/ Begin \/ ProducerStep \/ RequestStop \/ Stop
    \/ Abort \/ TerminalTimeout \/ SettlementFails \/ CommitFails \/ ProducerDies
    \/ \E c \in Clients : Join(c) \/ Replay(c) \/ Leave(c)

StreamSpec == StreamInit /\ [][StreamNext]_streamVars

\* The event loop runs the answer and the sockets.
FairStream ==
    /\ StreamSpec /\ WF_streamVars(ProducerStep)
    /\ \A c \in Clients : WF_streamVars(Replay(c))
-----------------------------------------------------------------------------
Trimmed == stored # <<>> /\ Head(stored).kind # "start"

\* "wire == stored": a client that saw the answer complete shows the text of
\* the committed message, however its subscription was cut into replay and
\* live, and whatever was retracted, retried or rewritten on the way.
DoneIsSaved ==
    \A c \in Clients : (sub[c].term = "done" /\ ~Trimmed) =>
       /\ reply.finish = "stop" /\ (torn \/ sub[c].view = reply.content)

\* A client that saw its answer stopped shows nothing the saved partial does
\* not begin with.
CancelledIsSaved ==
    \A c \in Clients : (sub[c].term = "cancelled" /\ ~Trimmed) =>
       /\ reply.finish = "cancelled" /\ (torn \/ IsPrefix(sub[c].view, reply.content))

\* An error leaves no text on the screen that is not durable.
ErrorShowsNothing ==
    \A c \in Clients : (sub[c].term = "error" /\ ~Trimmed /\ ~torn) =>
       \/ sub[c].view = <<>> \/ (committed /\ sub[c].view = reply.content)

\* Every billed token is recorded once, in the answer or by the salvage.
UsageRecordedOnce == (point = "end" /\ ~doubt) => recorded = spent

\* However often a terminal is published, or replaced by an error, it has one
\* seq, and the stream never says done of an answer that was not committed, or
\* cancelled of one that was.
TerminalsAgree ==
    LET ends == {e \in Range(stored) : e.kind \in Terminals}
    IN  \A e, f \in ends : /\ e.seq = f.seq
                           /\ e.kind = "done" => reply.finish = "stop" /\ committed
                           /\ e.kind = "cancelled" => reply.finish = "cancelled" /\ ~committed

\* The late-subscriber fix: between two publishes, a client that joined at
\* any moment shows what one that joins now would be shown.
ReplayIsLive ==
    \A c \in Clients :
       (sub[c].pc \in {"live", "grace", "closed"} /\ NothingOut /\ ~cut /\ ~Trimmed) =>
          LET now == Replayed([NoSub EXCEPT !.pc = "joined"]) IN
          sub[c].view = now.view /\ sub[c].term = now.term

\* A client that follows the answer learns how it ended, unless it leaves or
\* the terminal could not be published.
StreamEnds ==
    \A c \in Clients :
       (sub[c].pc \in {"joined", "live"}) ~>
          \/ sub[c].term # NoTerm \/ sub[c].pc = "off" \/ cut
          \/ faults > 0 /\ point = "end" /\ \A i \in DOMAIN stored : stored[i].kind \notin Terminals

\* What a client is left with is what was saved and paid for, whichever
\* terminal it saw (DoneIsSaved, CancelledIsSaved, ErrorShowsNothing,
\* UsageRecordedOnce, TerminalsAgree).
AnswerIsSettled ==
    /\ StreamTypeOK /\ DoneIsSaved /\ CancelledIsSaved /\ ErrorShowsNothing
    /\ UsageRecordedOnce /\ TerminalsAgree

=============================================================================
