----------------------------- MODULE EmbedCache -----------------------------
(***************************************************************************)
(* Embeddings: a request's texts become vectors, from the provider or, for   *)
(* the single query of a tenant's search, from a bounded cache with a time   *)
(* to live that every request of the process shares.  A provider may answer  *)
(* with any number of items, in any order, and with vectors that are none.   *)
(***************************************************************************)
EXTENDS Integers, Sequences, SequencesExt, FiniteSets

CONSTANTS
    Embedders,         \* concurrent requests
    Texts,             \* texts to embed
    Tenants,           \* cache namespaces
    MaxCached,         \* llm_embed_cache_max_entries
    TimeToLive,        \* llm_embed_cache_ttl_seconds
    LastTime,          \* bound: the clock
    NoNamespace        \* a request that does not use the cache

ASSUME EmbedAssumption ==
    /\ MaxCached \in Nat \ {0} /\ TimeToLive \in Nat /\ LastTime \in Nat /\ NoNamespace \notin Tenants

VARIABLES
    time,      \* the monotonic clock
    cache,     \* entries, least recently used first
    embeds,    \* the requests
    served     \* history: the last answer of any request

embedVars == <<time, cache, embeds, served>>

CacheKeys == [tenant : Tenants, text : Texts]
CacheEntries == [key : CacheKeys, of : CacheKeys, at : 0..LastTime]
Batches == {<<t>> : t \in Texts} \cup {<<t, u>> : t \in Texts, u \in Texts}
IdleEmbed == [at |-> "idle", texts |-> <<>>, ns |-> NoNamespace]
\* An item of the provider's answer: the position it claims and whether its vector has
\* the configured dimensions and finite coordinates.
Items == [index : 0..2, sound : BOOLEAN]
NothingServed == [vectors |-> <<>>, texts |-> <<>>, age |-> 0]

EmbedTypeOK ==
    /\ time \in 0..LastTime
    /\ cache \in Seq(CacheEntries) /\ Len(cache) <= MaxCached
    /\ \A i, j \in DOMAIN cache : cache[i].key = cache[j].key => i = j
    /\ embeds \in [Embedders -> [at : {"idle", "called"}, texts : Batches \cup {<<>>},
                                 ns : Tenants \cup {NoNamespace}]]
    /\ served \in [vectors : Batches \cup {<<>>}, texts : Batches \cup {<<>>}, age : 0..LastTime]

EmbedInit ==
    /\ time = 0 /\ cache = <<>>
    /\ embeds = [e \in Embedders |-> IdleEmbed] /\ served = NothingServed

Cacheable(texts, ns) == ns # NoNamespace /\ Len(texts) = 1
KeyOf(texts, ns) == [tenant |-> ns, text |-> texts[1]]
\* A dictionary in the order of use: a key has one place, or none.
Position(entries, key) == SelectInSeq(entries, LAMBDA entry : entry.key = key)
Without(entries, key) ==
    LET p == Position(entries, key) IN IF p = 0 THEN entries ELSE RemoveAt(entries, p)

FreshAlways(entry) == TRUE
Fresh(entry) == time - entry.at <= TimeToLive

\* The vectors of a request are recorded with the texts they were made from.
Serve(vectors, texts, age) == served' = [vectors |-> vectors, texts |-> texts, age |-> age]

\* embed of a cached query: the entry becomes the most recently used one.
CacheHit(e, texts, ns) ==
    LET p == Position(cache, KeyOf(texts, ns)) IN
    /\ embeds[e].at = "idle" /\ Cacheable(texts, ns)
    /\ p # 0 /\ Fresh(cache[p])
    /\ cache' = Append(Without(cache, KeyOf(texts, ns)), cache[p])
    /\ Serve(<<cache[p].of.text>>, texts, time - cache[p].at)
    /\ UNCHANGED <<time, embeds>>

\* embed of anything else calls the provider; an entry past its time is dropped first.
CallProvider(e, texts, ns) ==
    LET p == IF Cacheable(texts, ns) THEN Position(cache, KeyOf(texts, ns)) ELSE 0 IN
    /\ embeds[e].at = "idle"
    /\ p # 0 => ~Fresh(cache[p])
    /\ embeds' = [embeds EXCEPT ![e] = [at |-> "called", texts |-> texts, ns |-> ns]]
    /\ cache' = IF p = 0 THEN cache ELSE Without(cache, KeyOf(texts, ns))
    /\ UNCHANGED <<time, served>>

\* _ordered_embedding_vectors: one item per text, every position once.
Ordered(texts, data) ==
    /\ Len(data) = Len(texts)
    /\ {data[i].index : i \in DOMAIN data} = 0..Len(texts) - 1
\* _validate_embedding_vectors
Valid(data) == \A i \in DOMAIN data : data[i].sound

\* The vector at position k is the one whose item claims it.
VectorsByArrival(texts, data) == [i \in DOMAIN data |-> texts[data[i].index + 1]]
Vectors(texts, data) == [k \in DOMAIN texts |-> texts[data[CHOOSE i \in DOMAIN data : data[i].index = k - 1].index + 1]]

\* _embed_cache_put: the newest entry, and the oldest one gives way.
Put(entries, entry) ==
    LET all == Append(Without(entries, entry.key), entry) IN
    SubSeq(all, IF Len(all) > MaxCached THEN Len(all) - MaxCached + 1 ELSE 1, Len(all))

ProviderAnswers(e, data) ==
    LET texts == embeds[e].texts
        ns == embeds[e].ns
    IN
    /\ embeds[e].at = "called"
    /\ Ordered(texts, data) /\ Valid(data)
    /\ embeds' = [embeds EXCEPT ![e] = IdleEmbed]
    /\ Serve(Vectors(texts, data), texts, 0)
    /\ cache' = IF Cacheable(texts, ns)
                THEN Put(cache, [key |-> KeyOf(texts, ns), of |-> KeyOf(texts, ns), at |-> time])
                ELSE cache
    /\ UNCHANGED time

\* A malformed answer, a provider's error or a cancellation leaves the cache alone.
EmbedFails(e) ==
    /\ embeds[e].at = "called"
    /\ embeds' = [embeds EXCEPT ![e] = IdleEmbed]
    /\ UNCHANGED <<time, cache, served>>

TimePasses == time < LastTime /\ time' = time + 1 /\ UNCHANGED <<cache, embeds, served>>

EmbedNext ==
    \/ \E e \in Embedders, texts \in Batches, ns \in Tenants \cup {NoNamespace} :
          CacheHit(e, texts, ns) \/ CallProvider(e, texts, ns)
    \/ \E e \in Embedders :
          \/ \E n \in 0..2 : \E data \in [1..n -> Items] : ProviderAnswers(e, data)
          \/ EmbedFails(e)
    \/ TimePasses

EmbedSpec == EmbedInit /\ [][EmbedNext]_embedVars

-----------------------------------------------------------------------------
(* Properties *)

\* Every answer has, at each position, the vector of that position's text, in whatever
\* order the provider sent them and whichever request filled the cache.
VectorsMatchTexts == served.vectors = served.texts

\* A vector is never served after its time to live, though hits keep it at the young end
\* of the cache.
CachedIsFresh == served.age <= TimeToLive

\* Embeddings are right: of their texts (VectorsMatchTexts) and in time
\* (CachedIsFresh).
EmbeddingsAreRight == EmbedTypeOK /\ VectorsMatchTexts /\ CachedIsFresh

=============================================================================
