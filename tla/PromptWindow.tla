---------------------------- MODULE PromptWindow ----------------------------
(***************************************************************************)
(* llm/context.py: what of a conversation is put before a model whose       *)
(* window is limited.  A prompt is a sequence of items.  An item has the    *)
(* tokens it costs on the wire and, for a tool result, whether the answer   *)
(* cites it and whether the cited text is still in it.                      *)
(***************************************************************************)
EXTENDS Naturals, Sequences, SequencesExt, FiniteSets, FiniteSetsExt

CONSTANTS SystemCost,   \* the system prompt, the tools and the framing
          MemoryCost,   \* the memory segment (summary and evidence lines)
          DigestCost,   \* a compacted tool result: compaction_digest_chars
          SnippetCost,  \* the cited text of a result, kept verbatim
          ChunkSize     \* compaction_chunk_size

ASSUME WindowAssumption ==
    /\ SystemCost \in Nat /\ MemoryCost \in Nat /\ DigestCost \in Nat \ {0}
    /\ SnippetCost \in Nat /\ ChunkSize \in Nat \ {0}

Item(what, id, size) ==
    [what |-> what, id |-> id, size |-> size, cited |-> FALSE, evidence |-> FALSE]
System == Item("system", 0, SystemCost)
Memory == Item("memory", 0, MemoryCost)
Turn(n) == Item("turn", n, 1)
Question(n, size) == Item("question", n, size)

\* estimate_message_tokens.
Total(items) ==
    LET sizes == [i \in DOMAIN items |-> items[i].size]
    IN  MapThenSumSet(LAMBDA i : sizes[i], DOMAIN items)

\* The newest messages of `history' that fit `room': the walk of
\* assemble_context from the newest one back, ended by the first that does not.
NewestFitting(history, room) ==
    LET n == Len(history)
        fitting == {k \in 0..n : Total(SubSeq(history, n - k + 1, n)) <= room}
    IN SubSeq(history, n - Max(fitting) + 1, n)

TooLarge == <<>>

\* assemble_context: the memory segment is reserved, and shed whole when the
\* fixed part overflows; TooLarge stands for context_too_large.
Assemble(memory, history, question, budget) ==
    LET bare == SystemCost + question.size
        reserved == IF memory /\ bare + MemoryCost <= budget THEN <<Memory>> ELSE <<>>
        fixed == bare + Total(reserved)
    IN IF fixed > budget THEN TooLarge
       ELSE <<System>> \o reserved \o NewestFitting(history, budget - fixed) \o <<question>>

LastQuestionIndex(items) == CHOOSE i \in DOMAIN items : items[i].what = "question"

\* _oldest_sheddable_span, taken until the prompt fits or the question is next.
Shed(items, budget) ==
    LET tail == LastQuestionIndex(items)
        without(k) == <<items[1]>> \o SubSeq(items, k + 2, Len(items))
        enough == {k \in 0..(tail - 2) : Total(without(k)) <= budget}
    IN without(IF enough = {} THEN tail - 2 ELSE Min(enough))

\* _context_digest: the head of the content, and the cited text it would lose.
DigestLosesEvidence(it) == [it EXCEPT !.size = DigestCost, !.evidence = FALSE]
Digest(it) == [it EXCEPT !.size = DigestCost + (IF it.cited THEN SnippetCost ELSE 0),
                         !.evidence = it.cited]
\* A digest that would not be shorter is not taken.
Compacted(it) == IF Digest(it).size >= it.size THEN it ELSE Digest(it)
CompactAt(items, S) == [i \in DOMAIN items |-> IF i \in S THEN Compacted(items[i]) ELSE items[i]]

\* _last_tool_group_start.
LastToolGroupStart(items) ==
    Max({i \in DOMAIN items : items[i].what = "call"} \cup {0})

\* _compact_superseded_tool_results: cited results before the last tool group.
CompactSuperseded(items) ==
    CompactAt(items, {i \in DOMAIN items : /\ items[i].what = "result" /\ items[i].cited
                                           /\ i < LastToolGroupStart(items)})

\* One tier of _compact_oldest_tool_results: chunks of results, oldest first,
\* until the prompt fits.
Oldest(S, n) == {i \in S : Cardinality({j \in S : j < i}) < n}
CompactTier(items, budget, cited) ==
    LET candidates == {i \in DOMAIN items : items[i].what = "result" /\ items[i].cited = cited}
        after(k) == CompactAt(items, Oldest(candidates, k * ChunkSize))
        enough == {k \in 0..Cardinality(candidates) : Total(after(k)) <= budget}
    IN after(IF enough = {} THEN Cardinality(candidates) ELSE Min(enough))

CompactOldest(items, budget) == CompactTier(CompactTier(items, budget, FALSE), budget, TRUE)

FitBySheddingAnything(items, budget) ==
    LET enough == {k \in 0..(Len(items) - 1) : Total(<<items[1]>> \o SubSeq(items, k + 2, Len(items))) <= budget}
    IN <<items[1]>> \o SubSeq(items, (IF enough = {} THEN Len(items) - 1 ELSE Min(enough)) + 2, Len(items))

\* fit_transcript.
FitTranscript(items, budget) ==
    LET tidy == CompactSuperseded(items)
        shed == Shed(tidy, budget)
        fitted == CompactOldest(shed, budget)
    IN IF Total(fitted) > budget THEN TooLarge ELSE fitted
=============================================================================
