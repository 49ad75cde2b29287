---------------------------- MODULE ModelGateway ----------------------------
(***************************************************************************)
(* One answer of a model as the gateway streams it: the provider's text      *)
(* through the filter that hides reasoning, the fragments of its tool calls, *)
(* the provider stream to be closed and the call's span to be ended, and the *)
(* calls that continue an answer the token limit cut short.                  *)
(*                                                                         *)
(* Text is a sequence of pieces: a "word"; a "start" that may begin a        *)
(* marker; a "part" of one; the end of an opening or a closing reasoning     *)
(* tag or of a control token; "long", the marker's 257th character; "half"   *)
(* and "rest" of a control sentence.  Out of its place a piece is a word.    *)
(* A "start" is a "<".  (A "[" begins control tokens only: it is left out,     *)
(* and so is that a lone one at the end is withheld.)                        *)
(***************************************************************************)
EXTENDS Integers, Sequences, SequencesExt, FiniteSets, SeqFilter

CONSTANTS
    Tags,          \* think, thinking, reasoning, reflection
    MaxNesting,    \* _MAX_NESTING
    ToolIndexes,   \* indexes of the tool calls of a completion
    MaxPieces,     \* bound: pieces of one answer
    MaxToolText,   \* bound: pieces of text of an answer with tool calls (they share no state)
    MaxModelCalls  \* bound: calls of one answer

ASSUME GatewayAssumption ==
    /\ MaxNesting \in Nat /\ ToolIndexes \subseteq Nat
    /\ MaxPieces \in Nat /\ MaxToolText \in Nat /\ MaxModelCalls \in Nat

VARIABLES
    call,        \* state of the model call
    reason,      \* finish_reason
    text,        \* the pieces of the answer so far
    guard,       \* the ReasoningGuard of this call
    published,   \* positions of the pieces the runtime was given
    fragments,   \* history: fragments of each tool call the provider sent
    acc,         \* tool call accumulators: whose fragments each one was fed
    signals,     \* tool_call_started events
    builtCalls,  \* the tool calls of the final event
    spans,       \* "open" | "ok" | "failed" | "abandoned", one per call
    response,    \* the provider's stream: "none" | "open" | "closed" | "lost"
    torn         \* history: a call was cancelled while it closed its response

gatewayVars == <<call, reason, text, guard, published, fragments, acc, signals, builtCalls, spans, response, torn>>

PlainPieces == {"word", "start", "part", "control", "long", "half", "rest"}
TextPieces == [kind : PlainPieces, tag : {"none"}] \cup [kind : {"open", "close"}, tag : Tags]
FreshGuard == [pending |-> <<>>, stack |-> <<>>, sentinel |-> 0, discard |-> FALSE]
Reasons == {"stop", "length", "tool_calls"}


GatewayTypeOK ==
    /\ call \in {"idle", "requested", "streaming", "closing", "done", "failed"}
    /\ reason \in Reasons \cup {"none", "cut"}   \* "cut" is reported as "stop"
    /\ text \in Seq(TextPieces) /\ Len(text) <= MaxPieces
    /\ guard.pending \in Seq(1..Len(text)) /\ guard.sentinel \in 0..Len(text)
    /\ guard.stack \in Seq(Tags) /\ guard.discard \in BOOLEAN
    /\ published \in Seq(1..Len(text))
    /\ fragments \in [ToolIndexes -> 0..2] /\ acc \in [ToolIndexes -> Seq(ToolIndexes)] /\ signals \in 0..1
    /\ builtCalls \in Seq([index : ToolIndexes, whole : BOOLEAN])
    /\ spans \in Seq({"open", "ok", "failed", "abandoned"}) /\ Len(spans) <= MaxModelCalls
    /\ response \in {"none", "open", "closed", "lost"} /\ torn \in BOOLEAN
    \* hidden markup is bounded
    /\ Len(guard.stack) <= MaxNesting

GatewayInit ==
    /\ call = "idle" /\ reason = "none" /\ text = <<>> /\ guard = FreshGuard /\ published = <<>>
    /\ fragments = [i \in ToolIndexes |-> 0] /\ acc = [i \in ToolIndexes |-> <<>>] /\ signals = 0 /\ builtCalls = <<>> /\ spans = <<>>
    /\ response = "none" /\ torn = FALSE

-----------------------------------------------------------------------------
(* The filter *)

\* _visible: text passes unless it may be the beginning of a control sentence; the whole
\* of one drops the rest of the completion.
VisibleOne(state, n, kind) ==
    LET g == state.guard
        held == IF g.sentinel = 0 THEN state.out ELSE Append(state.out, g.sentinel)
    IN
    CASE g.discard -> state
      [] ~g.discard /\ kind = "half" -> [guard |-> [g EXCEPT !.sentinel = n], out |-> held]
      [] ~g.discard /\ kind = "rest" /\ g.sentinel # 0 ->
            [guard |-> [g EXCEPT !.sentinel = 0, !.discard = TRUE], out |-> state.out]
      [] OTHER -> [guard |-> [g EXCEPT !.sentinel = 0], out |-> Append(held, n)]

\* Pieces that turn out to be ordinary text, one after the other, published outside
\* of a block.  (The images of a singleton: TLC evaluates a bound variable once.)
Released(g, positions, txt) ==
    LET quiet == [guard |-> g, out |-> <<>>]
        upto[i \in 0..Len(positions)] ==
          IF i = 0 THEN {quiet}
          ELSE {VisibleOne(state, positions[i], txt[positions[i]].kind) : state \in upto[i - 1]}
    IN  IF g.stack # <<>> THEN quiet ELSE CHOOSE state \in upto[Len(positions)] : TRUE

\* "<<" may only become the control token <<SYS>>.
Doubled(g, txt) == Len(g.pending) > 1 /\ txt[g.pending[2]].kind = "start"

\* A whole opening tag goes one deeper, or drops the rest beyond the nesting bound; a
\* closing tag ends the innermost block if it names it.
Deeper(g, tag) == IF Len(g.stack) >= MaxNesting THEN [g EXCEPT !.discard = TRUE]
                  ELSE [g EXCEPT !.stack = Append(@, tag)]
ShallowerAny(g, tag) == IF g.stack # <<>> THEN [g EXCEPT !.stack = Front(@)] ELSE g
Shallower(g, tag) == IF g.stack # <<>> /\ Last(g.stack) = tag THEN [g EXCEPT !.stack = Front(@)] ELSE g

\* feed: the new guard and the positions published, for the last piece of the text.
Feed(g, txt) ==
    LET n == Len(txt)
        p == txt[n]
        quiet(h) == [guard |-> h, out |-> <<>>]
        unmarked == [g EXCEPT !.pending = <<>>]
    IN
    IF g.discard THEN quiet(g)
    ELSE IF g.pending = <<>>
    THEN IF p.kind = "start" THEN quiet([g EXCEPT !.pending = <<n>>]) ELSE Released(g, <<n>>, txt)
    ELSE CASE p.kind = "part" \/ (p.kind = "start" /\ Len(g.pending) = 1) ->
                quiet([g EXCEPT !.pending = Append(@, n)])
           [] p.kind = "start" /\ Len(g.pending) > 1 ->
                LET freed == Released(unmarked, g.pending, txt) IN [freed EXCEPT !.guard.pending = <<n>>]
           [] p.kind = "long" -> quiet([unmarked EXCEPT !.discard = TRUE])
           [] p.kind = "control" -> quiet(unmarked)
           [] p.kind = "open" /\ ~Doubled(g, txt) -> quiet(Deeper(unmarked, p.tag))
           [] p.kind = "close" /\ ~Doubled(g, txt) -> quiet(Shallower(unmarked, p.tag))
           [] OTHER -> Released(unmarked, Append(g.pending, n), txt)

\* flush on a normal end: an unfinished block or sentence, or what looks like the
\* beginning of a marker, stays hidden.
FlushMarkerOnly(g) ==
    IF g.discard \/ g.stack # <<>> \/ Len(g.pending) # 1 THEN <<>> ELSE g.pending
Flush(g) ==
    IF g.discard \/ g.stack # <<>> THEN <<>>
    ELSE (IF g.sentinel = 0 THEN <<>> ELSE <<g.sentinel>>)
            \o (IF Len(g.pending) = 1 THEN g.pending ELSE <<>>)

ContinuationSafeOpen(g) == g.stack = <<>>
ContinuationSafe(g) == g.pending = <<>> /\ g.stack = <<>> /\ g.sentinel = 0 /\ ~g.discard

-----------------------------------------------------------------------------
(* A call *)

EndSpan(how) == spans' = [spans EXCEPT ![Len(spans)] = how]

\* chat_runtime begins a completion, or continues one that ended for its length: the
\* answer's text goes on, the filter is a new one.
StartCall ==
    /\ call = "idle" \/ (call = "done" /\ reason = "length" /\ builtCalls = <<>>)
    /\ Len(spans) < MaxModelCalls
    /\ call' = "requested" /\ reason' = "none" /\ guard' = FreshGuard
    /\ fragments' = [i \in ToolIndexes |-> 0] /\ acc' = [i \in ToolIndexes |-> <<>>] /\ signals' = 0 /\ builtCalls' = <<>>
    /\ spans' = Append(spans, "open") /\ response' = "none"
    /\ UNCHANGED <<text, published, torn>>

RequestAccepted ==
    /\ call = "requested" /\ call' = "streaming" /\ response' = "open"
    /\ UNCHANGED <<reason, text, guard, published, fragments, acc, signals, builtCalls, spans, torn>>

\* The request fails or is cancelled: there is no response to close.
RequestFails ==
    /\ call = "requested" /\ call' = "failed"
    /\ EndSpan("failed")
    /\ UNCHANGED <<reason, text, guard, published, fragments, acc, signals, builtCalls, response, torn>>

\* A part with text, before or between the fragments of tool calls.
InPlace(p) ==
    LET last == IF text = <<>> THEN "word" ELSE Last(text).kind IN
    /\ p.kind \in {"part", "open", "close", "control", "long"} => last \in {"start", "part"}
    /\ p.kind = "rest" => last = "half"
TextDelta(p) ==
    LET fed == Feed(guard, Append(text, p)) IN
    /\ call = "streaming" /\ reason = "none" /\ Len(text) < MaxPieces
    /\ InPlace(p) /\ (signals = 0 \/ Len(text) < MaxToolText)
    /\ text' = Append(text, p)
    /\ guard' = fed.guard /\ published' = published \o fed.out
    /\ UNCHANGED <<call, reason, fragments, acc, signals, builtCalls, spans, response, torn>>

\* A part with a fragment of a tool call: its id and name first, its arguments after.
FeedsOpen(i) ==
    LET busy == {j \in ToolIndexes : fragments[j] > 0} IN
    [acc EXCEPT ![IF busy = {} THEN i ELSE CHOOSE j \in busy : TRUE] = Append(@, i)]
Feeds(i) == [acc EXCEPT ![i] = Append(@, i)]
ToolFragment(i) ==
    /\ call = "streaming" /\ reason = "none" /\ fragments[i] < 2 /\ Len(text) <= MaxToolText
    /\ acc' = Feeds(i) /\ fragments' = [fragments EXCEPT ![i] = @ + 1]
    /\ signals' = 1
    /\ UNCHANGED <<call, reason, text, guard, published, builtCalls, spans, response, torn>>

\* The last part names why the completion ended.
FinishReason(why) ==
    /\ call = "streaming" /\ reason = "none"
    /\ reason' = why
    /\ UNCHANGED <<call, text, guard, published, fragments, acc, signals, builtCalls, spans, response, torn>>

\* The stream is over.  A length limit inside hidden text ends the answer.
LastText ==
    /\ call = "streaming" /\ reason # "none"
    /\ call' = "closing"
    /\ IF reason = "length" /\ ~ContinuationSafe(guard)
       THEN reason' = "cut" /\ UNCHANGED published
       ELSE published' = published \o Flush(guard) /\ UNCHANGED reason
    /\ UNCHANGED <<text, guard, fragments, acc, signals, builtCalls, spans, response, torn>>

\* The consumer closes the generator at a yield, the provider fails, or the task is
\* cancelled: the span ends, and the response is closed as well as it can be.
EndsEarlyOpen(how) == spans' = spans
EndsEarly(how) == EndSpan(how)
Interrupt(how) ==
    /\ call = "streaming" /\ call' = "failed"
    /\ EndsEarly(how)
    /\ response' \in {"closed", "lost"}
    /\ UNCHANGED <<reason, text, guard, published, fragments, acc, signals, builtCalls, torn>>

\* _aclose: a response without a hook, or one that fails, is left.
CloseResponse ==
    /\ call = "closing" /\ response = "open"
    /\ response' \in {"closed", "lost"}
    /\ UNCHANGED <<call, reason, text, guard, published, fragments, acc, signals, builtCalls, spans, torn>>

\* Cancelled in the await of _aclose, after the last part: neither fail nor succeed runs.
CancelledClosing ==
    /\ call = "closing" /\ response = "open"
    /\ call' = "failed" /\ response' = "lost" /\ torn' = TRUE
    /\ UNCHANGED <<reason, text, guard, published, fragments, acc, signals, builtCalls, spans>>

\* The accumulators in the order of their indexes; arguments that are no JSON are dropped.
Built == LET begun == {i \in ToolIndexes : acc[i] # <<>>}
             final(i) == [index |-> i, whole |-> acc[i] = <<i, i>>]
         IN  [n \in 1..Cardinality(begun) |-> final(Nth(begun, n))]
FinalEvent ==
    /\ call = "closing" /\ response # "open"
    /\ call' = "done" /\ builtCalls' = Built
    /\ EndSpan("ok")
    /\ UNCHANGED <<reason, text, guard, published, fragments, acc, signals, response, torn>>

GatewayNext ==
    \/ StartCall \/ RequestAccepted \/ RequestFails
    \/ \E p \in TextPieces : TextDelta(p)
    \/ \E i \in ToolIndexes : ToolFragment(i)
    \/ \E why \in Reasons : FinishReason(why)
    \/ LastText
    \/ \E how \in {"failed", "abandoned"} : Interrupt(how)
    \/ CloseResponse \/ CancelledClosing \/ FinalEvent

GatewaySpec == GatewayInit /\ [][GatewayNext]_gatewayVars

-----------------------------------------------------------------------------
(* Properties *)

Kind(n) == text[n].kind

\* A marker that begins at `a' and ends at `b'.  Of a run of "<" every second one is the
\* second half of "<<", which begins no tag.
SecondOfTwo(a) ==
    \E r \in 1..a - 1 :
        /\ r % 2 = 1 /\ \A n \in a - r..a : Kind(n) = "start"
        /\ a - r > 1 => Kind(a - r - 1) # "start"
Marker(a, b, kind) ==
    /\ Kind(a) = "start" /\ Kind(b) = kind /\ ~SecondOfTwo(a)
    /\ \A n \in a + 1..b - 1 : Kind(n) = "part"

\* Inside a block of reasoning: its tag was opened and has not been closed since.
InsideBlock(n) ==
    \E a \in 1..n, b \in 1..n - 1 :
        /\ a < b /\ Marker(a, b, "open")
        /\ \A c \in b + 1..n - 1 : ~(Kind(c) = "close" /\ text[c].tag = text[b].tag)

\* No text of a reasoning block is ever published (but after "<<"), across parts, nested and unbalanced
\* tags and the calls that continue an answer; and none after a control sentence.
ReasoningNeverShown ==
    \A k \in 1..Len(published) :
        LET n == published[k] IN
        /\ ~InsideBlock(n)
        /\ Kind(n) = "rest" => ~(n > 1 /\ Kind(n - 1) = "half")

\* An answer without any markup reaches the runtime whole and in order, in however many
\* calls, unless it ends in what might have become a marker.
Ordinary == \A n \in 1..Len(text) : Kind(n) \in {"word", "start", "half"}
OrdinaryTextSurvives ==
    call = "done" /\ Ordinary /\ reason # "cut" /\ Len(guard.pending) <= 1
        => published = [n \in 1..Len(text) |-> n]

\* The final event has every tool call the provider began, in the order of their
\* indexes, each with its own fragments however they were interleaved, and the runtime
\* was told of the first one before.
ToolCallsWhole ==
    call = "done" =>
        /\ ToSet(builtCalls) = {[index |-> i, whole |-> fragments[i] = 2] :
                                    i \in {j \in ToolIndexes : fragments[j] > 0}}
        /\ \A j, k \in DOMAIN builtCalls : j < k => builtCalls[j].index < builtCalls[k].index
        /\ builtCalls # <<>> => signals = 1

\* A call that is over has ended its span exactly once and left no open response, unless
\* it was cancelled in the middle of closing it.
SpanEnds ==
    call \in {"done", "failed"} /\ ~torn => response # "open" /\ \A k \in DOMAIN spans : spans[k] # "open"

\* The runtime is given the answer and nothing else: no reasoning, all of
\* ordinary text, whole tool calls, and a span that ends (ReasoningNeverShown,
\* OrdinaryTextSurvives, ToolCallsWhole, SpanEnds).
StreamIsFaithful ==
    GatewayTypeOK /\ ReasoningNeverShown /\ OrdinaryTextSurvives /\ ToolCallsWhole /\ SpanEnds

=============================================================================
