------------------------- MODULE ConversationProofs -------------------------
(* Proofs about Conversation, EmbedCache, ToolCalls and KeysetPages, for every *)
(* value of their constants.                                                    *)
EXTENDS Conversation, EmbedCache, ToolCalls, KeysetPages, DataInduction, SequenceTheorems

-----------------------------------------------------------------------------
(* Embeddings.  An entry of the cache holds the vector of its own key and was *)
(* made in the past: CacheHonest.                                             *)

EmbedStates == [at : {"idle", "called"}, texts : Batches \cup {<<>>}, ns : Tenants \cup {NoNamespace}]
Honest(entry) == entry.of = entry.key /\ entry.at <= time
KeysOnce(entries) == \A i, j \in DOMAIN entries : entries[i].key = entries[j].key => i = j

CacheHonest ==
    /\ \A i \in DOMAIN cache : Honest(cache[i])
    /\ \A e \in Embedders : embeds[e].at = "called" => embeds[e].texts \in Batches

EmbedInv == EmbeddingsAreRight /\ CacheHonest

\* A sequence without one of its places.
LEMMA OneRemoved ==
    ASSUME NEW S, NEW s \in Seq(S), NEW p \in 1..Len(s)
    PROVE  /\ RemoveAt(s, p) \in Seq(S) /\ Len(RemoveAt(s, p)) = Len(s) - 1
           /\ \A i \in 1..Len(s) - 1 : RemoveAt(s, p)[i] = IF i < p THEN s[i] ELSE s[i + 1]
<1> DEFINE a == SubSeq(s, 1, p - 1)
           b == SubSeq(s, p + 1, Len(s))
<1>1. Len(s) \in Nat /\ p \in Nat
  BY LenProperties
<1>2. a \in Seq(S) /\ Len(a) = p - 1 /\ \A i \in 1..p - 1 : a[i] = s[i]
  BY <1>1, SubSeqProperties
<1>3. b \in Seq(S) /\ Len(b) = Len(s) - p /\ \A i \in 1..Len(s) - p : b[i] = s[p + i]
  BY <1>1, SubSeqProperties
<1> HIDE DEF a, b
<1>4. /\ a \o b \in Seq(S) /\ Len(a \o b) = Len(s) - 1
      /\ \A i \in 1..Len(s) - 1 : (a \o b)[i] = IF i <= p - 1 THEN a[i] ELSE b[i - (p - 1)]
  <2>1. Len(a) + Len(b) = Len(s) - 1
    BY <1>1, <1>2, <1>3
  <2>2. /\ a \o b \in Seq(S) /\ Len(a \o b) = Len(a) + Len(b)
        /\ \A i \in 1..Len(a) + Len(b) : (a \o b)[i] = IF i <= Len(a) THEN a[i] ELSE b[i - Len(a)]
    BY <1>2, <1>3, ConcatProperties
  <2> QED BY <1>2, <2>1, <2>2
<1>5. ASSUME NEW i \in 1..Len(s) - 1 PROVE (a \o b)[i] = IF i < p THEN s[i] ELSE s[i + 1]
  <2>1. CASE i < p
    BY <1>1, <1>2, <1>4, <2>1
  <2>2. CASE i >= p
    <3>1. i - (p - 1) \in 1..Len(s) - p /\ p + (i - (p - 1)) = i + 1
      BY <1>1, <2>2
    <3> QED BY <1>1, <1>3, <1>4, <2>2, <3>1
  <2>3. i \in Int /\ p \in Int
    BY <1>1
  <2>4. i < p \/ i >= p
    BY <2>3
  <2> QED BY <2>1, <2>2, <2>4
<1> QED BY <1>4, <1>5 DEF RemoveAt, a, b

\* Where a key is.
LEMMA PlaceOfKey ==
    ASSUME NEW entries \in Seq(CacheEntries), NEW key
    PROVE  LET p == Position(entries, key) IN
           IF \E i \in DOMAIN entries : entries[i].key = key
           THEN p \in DOMAIN entries /\ entries[p].key = key
           ELSE p = 0
<1> DEFINE I == {i \in 1..Len(entries) : entries[i].key = key}
<1>1. DOMAIN entries = 1..Len(entries) /\ Len(entries) \in Nat
  BY LenProperties
<1>2. Position(entries, key) = IF I # {} THEN Min(I) ELSE 0
  BY DEF Position, SelectInSeq
<1>3. CASE I # {}
  <2>1. I \in SUBSET Nat
    BY <1>1
  <2>2. \E x \in I : \A y \in I : x =< y
    BY <1>3, <2>1, LeastOfSet
  <2>3. Min(I) \in I
    BY <2>2 DEF Min
  <2> QED BY <1>1, <1>2, <1>3, <2>3
<1>4. CASE I = {}
  BY <1>1, <1>2, <1>4
<1> QED BY <1>3, <1>4

\* The entries of other keys stay, in their order.
LEMMA KeyRemoved ==
    ASSUME NEW entries \in Seq(CacheEntries), KeysOnce(entries), NEW key
    PROVE  LET rest == Without(entries, key) IN
           /\ rest \in Seq(CacheEntries) /\ Len(rest) <= Len(entries) /\ KeysOnce(rest)
           /\ \A i \in DOMAIN rest : rest[i].key # key /\ \E j \in DOMAIN entries : rest[i] = entries[j]
           /\ (\E i \in DOMAIN entries : entries[i].key = key) => Len(rest) = Len(entries) - 1
<1> DEFINE p == Position(entries, key)
           rest == Without(entries, key)
<1>1. DOMAIN entries = 1..Len(entries) /\ Len(entries) \in Nat
  BY LenProperties
<1>2. CASE ~\E i \in DOMAIN entries : entries[i].key = key
  <2>1. rest = entries
    BY <1>2, PlaceOfKey DEF Without
  <2> HIDE DEF rest
  <2>2. entries \in Seq(CacheEntries) /\ Len(entries) <= Len(entries) /\ KeysOnce(entries)
        /\ \A i \in DOMAIN entries : entries[i].key # key /\ \E j \in DOMAIN entries : entries[i] = entries[j]
    BY <1>1, <1>2
  <2> QED BY <1>2, <2>1, <2>2 DEF rest
<1>3. CASE \E i \in DOMAIN entries : entries[i].key = key
  <2>1. p \in 1..Len(entries) /\ entries[p].key = key
    BY <1>1, <1>3, PlaceOfKey
  <2>2. rest = RemoveAt(entries, p)
    BY <2>1 DEF Without
  <2> HIDE DEF rest, p
  <2>3. /\ rest \in Seq(CacheEntries) /\ Len(rest) = Len(entries) - 1
        /\ \A i \in 1..Len(entries) - 1 : rest[i] = IF i < p THEN entries[i] ELSE entries[i + 1]
    BY <2>1, <2>2, OneRemoved
  <2>4. DOMAIN rest = 1..Len(entries) - 1
    BY <2>3, LenProperties
  <2>5. ASSUME NEW i \in DOMAIN rest
        PROVE  \E j \in DOMAIN entries : j # p /\ rest[i] = entries[j] /\ j = IF i < p THEN i ELSE i + 1
    BY <1>1, <2>1, <2>3, <2>4, <2>5
  <2>6. \A i \in DOMAIN rest : rest[i].key # key /\ \E j \in DOMAIN entries : rest[i] = entries[j]
    BY <1>1, <2>1, <2>5 DEF KeysOnce
  <2>7. KeysOnce(rest)
    <3> SUFFICES ASSUME NEW i \in DOMAIN rest, NEW j \in DOMAIN rest, rest[i].key = rest[j].key PROVE i = j
      BY DEF KeysOnce
    <3>1. PICK k \in DOMAIN entries : rest[i] = entries[k] /\ k = IF i < p THEN i ELSE i + 1
      BY <2>5
    <3>2. PICK l \in DOMAIN entries : rest[j] = entries[l] /\ l = IF j < p THEN j ELSE j + 1
      BY <2>5
    <3>3. k = l
      BY <3>1, <3>2 DEF KeysOnce
    <3> QED BY <1>1, <2>1, <2>4, <3>1, <3>2, <3>3
  <2> QED BY <1>1, <2>3, <2>6, <2>7 DEF rest
<1> QED BY <1>2, <1>3

\* A newest entry after the entries of other keys.
LEMMA NewestLast ==
    ASSUME NEW entries \in Seq(CacheEntries), KeysOnce(entries), NEW new \in CacheEntries,
           \A i \in DOMAIN entries : entries[i].key # new.key
    PROVE  LET all == Append(entries, new) IN
           /\ all \in Seq(CacheEntries) /\ Len(all) = Len(entries) + 1 /\ KeysOnce(all)
           /\ \A i \in DOMAIN all : all[i] = new \/ \E j \in DOMAIN entries : all[i] = entries[j]
<1> DEFINE all == Append(entries, new)
<1>1. DOMAIN entries = 1..Len(entries) /\ Len(entries) \in Nat
  BY LenProperties
<1>2. /\ all \in Seq(CacheEntries) /\ Len(all) = Len(entries) + 1 /\ DOMAIN all = 1..Len(entries) + 1
      /\ \A i \in 1..Len(entries) : all[i] = entries[i]
      /\ all[Len(entries) + 1] = new
  BY <1>1, AppendProperties
<1> HIDE DEF all
<1>3. \A i \in DOMAIN all : i \in DOMAIN entries \/ i = Len(entries) + 1
  BY <1>1, <1>2
<1>4. KeysOnce(all)
  BY <1>1, <1>2, <1>3 DEF KeysOnce
<1> QED BY <1>1, <1>2, <1>3, <1>4 DEF all

\* The oldest entry gives way.
LEMMA PutKeeps ==
    ASSUME EmbedTypeOK, NEW new \in CacheEntries
    PROVE  LET put == Put(cache, new) IN
           /\ put \in Seq(CacheEntries) /\ Len(put) <= MaxCached /\ KeysOnce(put)
           /\ \A i \in DOMAIN put : put[i] = new \/ \E j \in DOMAIN cache : put[i] = cache[j]
<1> DEFINE rest == Without(cache, new.key)
           all == Append(rest, new)
           n == IF Len(all) > MaxCached THEN Len(all) - MaxCached + 1 ELSE 1
           put == Put(cache, new)
<1>1. cache \in Seq(CacheEntries) /\ KeysOnce(cache) /\ Len(cache) <= MaxCached /\ MaxCached \in Nat \ {0}
  BY EmbedAssumption DEF EmbedTypeOK, KeysOnce
<1>2. /\ rest \in Seq(CacheEntries) /\ Len(rest) <= Len(cache) /\ KeysOnce(rest)
      /\ \A i \in DOMAIN rest : rest[i].key # new.key /\ \E j \in DOMAIN cache : rest[i] = cache[j]
  BY <1>1, KeyRemoved
<1> HIDE DEF rest
<1>3. /\ all \in Seq(CacheEntries) /\ Len(all) = Len(rest) + 1 /\ KeysOnce(all)
      /\ \A i \in DOMAIN all : all[i] = new \/ \E j \in DOMAIN rest : all[i] = rest[j]
  BY <1>2, NewestLast
<1>4. put = SubSeq(all, n, Len(all))
  BY DEF Put, rest
<1> HIDE DEF all, put
<1>5. /\ Len(all) \in Nat /\ DOMAIN all = 1..Len(all) /\ Len(rest) \in Nat /\ Len(cache) \in Nat
      /\ n \in 1..Len(all) /\ Len(all) - n + 1 <= MaxCached
  BY <1>1, <1>2, <1>3, LenProperties
<1> HIDE DEF n
<1>6. /\ put \in Seq(CacheEntries) /\ Len(put) = Len(all) - n + 1
      /\ \A i \in 1..Len(all) - n + 1 : put[i] = all[n + i - 1]
  BY <1>3, <1>4, <1>5, SubSeqProperties
<1>7. DOMAIN put = 1..Len(all) - n + 1
  BY <1>6, LenProperties
<1>8. \A i \in DOMAIN put : n + i - 1 \in DOMAIN all /\ put[i] = all[n + i - 1]
  BY <1>5, <1>6, <1>7
<1>9. KeysOnce(put)
  <2> SUFFICES ASSUME NEW i \in DOMAIN put, NEW j \in DOMAIN put, put[i].key = put[j].key PROVE i = j
    BY DEF KeysOnce
  <2>1. n + i - 1 = n + j - 1
    BY <1>3, <1>8 DEF KeysOnce
  <2> QED BY <1>5, <1>7, <2>1
<1>10. \A i \in DOMAIN put : put[i] = new \/ \E j \in DOMAIN cache : put[i] = cache[j]
  BY <1>2, <1>3, <1>8
<1> QED BY <1>5, <1>6, <1>9, <1>10 DEF put

\* A batch of one text.
LEMMA SingleText ==
    ASSUME NEW texts \in Batches, NEW ns \in Tenants \cup {NoNamespace}, Cacheable(texts, ns)
    PROVE  texts = <<texts[1]>> /\ texts[1] \in Texts /\ KeyOf(texts, ns) \in CacheKeys
           /\ KeyOf(texts, ns).text = texts[1]
<1>1. ns \in Tenants /\ Len(texts) = 1
  BY DEF Cacheable
<1>2. PICK t \in Texts : texts = <<t>>
  <2>1. ASSUME NEW t \in Texts, NEW u \in Texts, texts = <<t, u>> PROVE FALSE
    BY <1>1, <2>1
  <2> QED BY <2>1 DEF Batches
<1>3. texts[1] = t
  BY <1>2
<1>4. KeyOf(texts, ns) = [tenant |-> ns, text |-> t]
  BY <1>3 DEF KeyOf
<1> QED BY <1>1, <1>2, <1>3, <1>4 DEF CacheKeys

\* What a step must leave of the cache.
LEMMA CacheStep ==
    ASSUME EmbedInv, cache' \in Seq(CacheEntries), Len(cache') <= MaxCached, KeysOnce(cache'),
           \A i \in DOMAIN cache' : (cache'[i].of = cache'[i].key /\ cache'[i].at <= time')
                                    \/ \E j \in DOMAIN cache : cache'[i] = cache[j],
           time' \in 0..LastTime, time <= time',
           embeds' \in [Embedders -> EmbedStates],
           \A e \in Embedders : embeds'[e].at = "called" => embeds'[e].texts \in Batches,
           served' \in [vectors : Batches \cup {<<>>}, texts : Batches \cup {<<>>}, age : 0..LastTime],
           served'.vectors = served'.texts, served'.age <= TimeToLive
    PROVE  EmbedInv'
<1>1. EmbedTypeOK'
  BY DEF EmbedTypeOK, KeysOnce, EmbedStates
<1>2. ASSUME NEW i \in DOMAIN cache' PROVE cache'[i].of = cache'[i].key /\ cache'[i].at <= time'
  <2>1. CASE \E j \in DOMAIN cache : cache'[i] = cache[j]
    <3>1. PICK j \in DOMAIN cache : cache'[i] = cache[j]
      BY <2>1
    <3>2. cache[j] \in CacheEntries /\ time \in 0..LastTime
      BY DEF EmbedInv, EmbeddingsAreRight, EmbedTypeOK
    <3>3. cache[j].at \in Int /\ time \in Int /\ time' \in Int
      BY <3>2, EmbedAssumption DEF CacheEntries
    <3>4. cache[j].of = cache[j].key /\ cache[j].at <= time
      BY DEF EmbedInv, CacheHonest, Honest
    <3> QED BY <3>1, <3>3, <3>4
  <2> QED BY <2>1
<1> QED BY <1>1, <1>2 DEF EmbedInv, EmbeddingsAreRight, CacheHonest, Honest, VectorsMatchTexts, CachedIsFresh

\* A hit serves the vector of its own text, while it is fresh.
LEMMA HitStep ==
    ASSUME EmbedInv, NEW e \in Embedders, NEW texts \in Batches, NEW ns \in Tenants \cup {NoNamespace},
           CacheHit(e, texts, ns)
    PROVE  EmbedInv'
<1> DEFINE key == KeyOf(texts, ns)
           p == Position(cache, key)
           rest == Without(cache, key)
<1>1. /\ Cacheable(texts, ns) /\ p # 0 /\ Fresh(cache[p]) /\ cache' = Append(rest, cache[p])
      /\ served' = [vectors |-> <<cache[p].of.text>>, texts |-> texts, age |-> time - cache[p].at]
      /\ time' = time /\ embeds' = embeds
  BY DEF CacheHit, Serve
<1>2. cache \in Seq(CacheEntries) /\ KeysOnce(cache) /\ Len(cache) <= MaxCached
  BY DEF EmbedInv, EmbeddingsAreRight, EmbedTypeOK, KeysOnce
<1>3. texts = <<texts[1]>> /\ key.text = texts[1]
  BY <1>1, SingleText
<1>4. p \in DOMAIN cache /\ cache[p].key = key
  BY <1>1, <1>2, PlaceOfKey
<1>5. /\ rest \in Seq(CacheEntries) /\ KeysOnce(rest) /\ Len(rest) = Len(cache) - 1
      /\ \A i \in DOMAIN rest : rest[i].key # key /\ \E j \in DOMAIN cache : rest[i] = cache[j]
  BY <1>2, <1>4, KeyRemoved
<1> HIDE DEF rest, p, key
<1>6. cache[p] \in CacheEntries
  BY <1>2, <1>4
<1>7. /\ cache' \in Seq(CacheEntries) /\ Len(cache') = Len(rest) + 1 /\ KeysOnce(cache')
      /\ \A i \in DOMAIN cache' : cache'[i] = cache[p] \/ \E j \in DOMAIN rest : cache'[i] = rest[j]
  BY <1>1, <1>4, <1>5, <1>6, NewestLast
<1>8. Len(cache') <= MaxCached /\ \A i \in DOMAIN cache' : \E j \in DOMAIN cache : cache'[i] = cache[j]
  BY <1>2, <1>4, <1>5, <1>7, LenProperties
<1>9. cache[p].of = key /\ cache[p].at <= time /\ cache[p].at \in 0..LastTime /\ time \in 0..LastTime
  BY <1>4, <1>6 DEF EmbedInv, CacheHonest, Honest, CacheEntries, EmbeddingsAreRight, EmbedTypeOK
<1>10. <<cache[p].of.text>> = texts
  BY <1>3, <1>9
<1>11. time - cache[p].at \in 0..LastTime /\ time - cache[p].at <= TimeToLive
  BY <1>1, <1>9, EmbedAssumption DEF Fresh
<1>12. served' \in [vectors : Batches \cup {<<>>}, texts : Batches \cup {<<>>}, age : 0..LastTime]
       /\ served'.vectors = served'.texts /\ served'.age <= TimeToLive
  BY <1>1, <1>10, <1>11
<1>13. embeds' \in [Embedders -> EmbedStates] /\ time' \in 0..LastTime /\ time <= time'
       /\ \A f \in Embedders : embeds'[f].at = "called" => embeds'[f].texts \in Batches
  BY <1>1, <1>9, EmbedAssumption DEF EmbedInv, CacheHonest, EmbeddingsAreRight, EmbedTypeOK, EmbedStates
<1> QED BY <1>7, <1>8, <1>12, <1>13, CacheStep

\* A call drops at most an entry that is past its time.
LEMMA CallStep ==
    ASSUME EmbedInv, NEW e \in Embedders, NEW texts \in Batches, NEW ns \in Tenants \cup {NoNamespace},
           CallProvider(e, texts, ns)
    PROVE  EmbedInv'
<1>1. /\ cache' = cache \/ cache' = Without(cache, KeyOf(texts, ns))
      /\ embeds' = [embeds EXCEPT ![e] = [at |-> "called", texts |-> texts, ns |-> ns]]
      /\ time' = time /\ served' = served
  BY DEF CallProvider
<1>2. cache \in Seq(CacheEntries) /\ KeysOnce(cache) /\ Len(cache) <= MaxCached /\ MaxCached \in Nat
  BY EmbedAssumption DEF EmbedInv, EmbeddingsAreRight, EmbedTypeOK, KeysOnce
<1>3. /\ cache' \in Seq(CacheEntries) /\ KeysOnce(cache') /\ Len(cache') <= Len(cache)
      /\ \A i \in DOMAIN cache' : \E j \in DOMAIN cache : cache'[i] = cache[j]
  <2>1. CASE cache' = cache
    BY <1>2, <2>1, LenProperties
  <2>2. CASE cache' = Without(cache, KeyOf(texts, ns))
    BY <1>2, <2>2, KeyRemoved
  <2> QED BY <1>1, <2>1, <2>2
<1>4. Len(cache') <= MaxCached
  BY <1>2, <1>3, LenProperties
<1>5. /\ embeds' \in [Embedders -> EmbedStates]
      /\ \A f \in Embedders : embeds'[f].at = "called" => embeds'[f].texts \in Batches
  <2>1. PICK s : s = [at |-> "called", texts |-> texts, ns |-> ns]
    OBVIOUS
  <2>2. s \in EmbedStates /\ s.texts \in Batches
    BY <2>1 DEF EmbedStates
  <2>3. embeds \in [Embedders -> EmbedStates]
    BY DEF EmbedInv, EmbeddingsAreRight, EmbedTypeOK, EmbedStates
  <2> QED BY <1>1, <2>1, <2>2, <2>3 DEF EmbedInv, CacheHonest
<1>6. /\ time' \in 0..LastTime /\ time <= time'
      /\ served' \in [vectors : Batches \cup {<<>>}, texts : Batches \cup {<<>>}, age : 0..LastTime]
      /\ served'.vectors = served'.texts /\ served'.age <= TimeToLive
  BY <1>1, EmbedAssumption
     DEF EmbedInv, EmbeddingsAreRight, EmbedTypeOK, VectorsMatchTexts, CachedIsFresh
<1> QED BY <1>3, <1>4, <1>5, <1>6, CacheStep

\* Whatever the order of the items, each position has the vector of its text.
LEMMA VectorsAreOfTexts ==
    ASSUME NEW texts \in Batches, NEW n \in 0..2, NEW data \in [1..n -> Items], Ordered(texts, data)
    PROVE  Vectors(texts, data) = texts
<1>1. DOMAIN texts = 1..Len(texts) /\ Len(texts) \in {1, 2} /\ texts = [k \in DOMAIN texts |-> texts[k]]
  BY DEF Batches
<1>2. ASSUME NEW k \in DOMAIN texts
      PROVE  texts[data[CHOOSE i \in DOMAIN data : data[i].index = k - 1].index + 1] = texts[k]
  <2>1. k - 1 \in {data[i].index : i \in DOMAIN data}
    <3>1. k - 1 \in 0..Len(texts) - 1
      BY <1>1
    <3>2. {data[i].index : i \in DOMAIN data} = 0..Len(texts) - 1
      BY DEF Ordered
    <3> QED BY <3>1, <3>2
  <2>2. \E i \in DOMAIN data : data[i].index = k - 1
    BY <2>1
  <2>3. PICK i : i = CHOOSE j \in DOMAIN data : data[j].index = k - 1
    OBVIOUS
  <2>4. data[i].index = k - 1
    BY <2>2, <2>3
  <2>5. k \in Int
    BY <1>1
  <2> QED BY <2>3, <2>4, <2>5
<1> QED BY <1>1, <1>2 DEF Vectors

\* An answer is served and, for a tenant's query, cached.
LEMMA AnswerStep ==
    ASSUME EmbedInv, NEW e \in Embedders, NEW n \in 0..2, NEW data \in [1..n -> Items],
           ProviderAnswers(e, data)
    PROVE  EmbedInv'
<1> DEFINE texts == embeds[e].texts
           ns == embeds[e].ns
           key == KeyOf(texts, ns)
<1>1. /\ embeds[e].at = "called" /\ Ordered(texts, data)
      /\ embeds' = [embeds EXCEPT ![e] = IdleEmbed] /\ time' = time
      /\ served' = [vectors |-> Vectors(texts, data), texts |-> texts, age |-> 0]
      /\ cache' = IF Cacheable(texts, ns) THEN Put(cache, [key |-> key, of |-> key, at |-> time]) ELSE cache
  BY DEF ProviderAnswers, Serve
<1>2. texts \in Batches /\ ns \in Tenants \cup {NoNamespace} /\ EmbedTypeOK /\ time \in 0..LastTime
  BY <1>1 DEF EmbedInv, CacheHonest, EmbeddingsAreRight, EmbedTypeOK
<1>3. Vectors(texts, data) = texts
  BY <1>1, <1>2, VectorsAreOfTexts
<1> HIDE DEF texts, ns, key
<1>4. /\ served' \in [vectors : Batches \cup {<<>>}, texts : Batches \cup {<<>>}, age : 0..LastTime]
      /\ served'.vectors = served'.texts /\ served'.age <= TimeToLive
  BY <1>1, <1>2, <1>3, EmbedAssumption
<1>5. /\ embeds' \in [Embedders -> EmbedStates] /\ time' \in 0..LastTime /\ time <= time'
      /\ \A f \in Embedders : embeds'[f].at = "called" => embeds'[f].texts \in Batches
  <2>1. IdleEmbed \in EmbedStates /\ IdleEmbed.at = "idle"
    BY DEF IdleEmbed, EmbedStates
  <2> QED BY <1>1, <1>2, <2>1, EmbedAssumption DEF EmbedInv, CacheHonest, EmbedTypeOK, EmbedStates
<1>6. /\ cache' \in Seq(CacheEntries) /\ Len(cache') <= MaxCached /\ KeysOnce(cache')
      /\ \A i \in DOMAIN cache' : (cache'[i].of = cache'[i].key /\ cache'[i].at <= time')
                                  \/ \E j \in DOMAIN cache : cache'[i] = cache[j]
  <2>1. CASE ~Cacheable(texts, ns)
    BY <1>1, <1>2, <2>1 DEF EmbedTypeOK, KeysOnce
  <2>2. CASE Cacheable(texts, ns)
    <3>1. PICK new : new = [key |-> key, of |-> key, at |-> time]
      OBVIOUS
    <3>2. key \in CacheKeys
      BY <1>2, <2>2, SingleText DEF key
    <3>3. new \in CacheEntries /\ new.of = new.key /\ new.at <= time'
      BY <1>1, <1>2, <3>1, <3>2, EmbedAssumption DEF CacheEntries
    <3>4. cache' = Put(cache, new)
      BY <1>1, <2>2, <3>1
    <3> QED BY <1>2, <3>3, <3>4, PutKeeps
  <2> QED BY <2>1, <2>2
<1> QED BY <1>4, <1>5, <1>6, CacheStep

\* Failures and time.
LEMMA OtherEmbedSteps ==
    ASSUME EmbedInv, (\E e \in Embedders : EmbedFails(e)) \/ TimePasses \/ UNCHANGED embedVars
    PROVE  EmbedInv'
<1>1. cache' = cache /\ served' = served /\ (embeds' = embeds \/ \E e \in Embedders : embeds' = [embeds EXCEPT ![e] = IdleEmbed])
      /\ (time' = time \/ (time < LastTime /\ time' = time + 1))
  BY DEF EmbedFails, TimePasses, embedVars
<1>2. /\ cache' \in Seq(CacheEntries) /\ Len(cache') <= MaxCached /\ KeysOnce(cache')
      /\ \A i \in DOMAIN cache' : \E j \in DOMAIN cache : cache'[i] = cache[j]
      /\ served' \in [vectors : Batches \cup {<<>>}, texts : Batches \cup {<<>>}, age : 0..LastTime]
      /\ served'.vectors = served'.texts /\ served'.age <= TimeToLive
  BY <1>1 DEF EmbedInv, EmbeddingsAreRight, EmbedTypeOK, VectorsMatchTexts, CachedIsFresh, KeysOnce
<1>3. time' \in 0..LastTime /\ time <= time'
  BY <1>1, EmbedAssumption DEF EmbedInv, EmbeddingsAreRight, EmbedTypeOK
<1>4. /\ embeds' \in [Embedders -> EmbedStates]
      /\ \A f \in Embedders : embeds'[f].at = "called" => embeds'[f].texts \in Batches
  <2>1. IdleEmbed \in EmbedStates /\ IdleEmbed.at = "idle"
    BY DEF IdleEmbed, EmbedStates
  <2> QED BY <1>1, <2>1 DEF EmbedInv, CacheHonest, EmbeddingsAreRight, EmbedTypeOK, EmbedStates
<1> QED BY <1>2, <1>3, <1>4, CacheStep

\* Whichever request filled the cache, in whatever order the provider answers and however
\* long the cache is, an answer has the vectors of its texts, none past its time.
THEOREM EmbeddingsRight == EmbedSpec => []EmbeddingsAreRight
<1>1. EmbedInit => EmbedInv
  <2> SUFFICES ASSUME EmbedInit PROVE EmbedInv
    OBVIOUS
  <2>1. NothingServed \in [vectors : Batches \cup {<<>>}, texts : Batches \cup {<<>>}, age : 0..LastTime]
        /\ NothingServed.vectors = NothingServed.texts /\ NothingServed.age <= TimeToLive
    BY EmbedAssumption DEF NothingServed
  <2>2. IdleEmbed \in EmbedStates /\ IdleEmbed.at = "idle"
    BY DEF IdleEmbed, EmbedStates
  <2>3. cache \in Seq(CacheEntries) /\ Len(cache) = 0 /\ DOMAIN cache = {}
    BY DEF EmbedInit
  <2>4. EmbedTypeOK
    BY <2>1, <2>2, <2>3, EmbedAssumption DEF EmbedInit, EmbedTypeOK, EmbedStates
  <2> QED BY <2>1, <2>2, <2>3, <2>4
          DEF EmbedInit, EmbedInv, EmbeddingsAreRight, CacheHonest, VectorsMatchTexts, CachedIsFresh
<1>2. EmbedInv /\ [EmbedNext]_embedVars => EmbedInv'
  BY HitStep, CallStep, AnswerStep, OtherEmbedSteps DEF EmbedNext
<1>3. EmbedInv => EmbeddingsAreRight
  BY DEF EmbedInv
<1> QED BY <1>1, <1>2, <1>3, PTL DEF EmbedSpec

-----------------------------------------------------------------------------
(* The memory of a session.  Every summary that was read, by a task or by a   *)
(* send, stands for the messages up to its boundary (StandsFor), and a task's *)
(* batch goes on where the summary it read ends (FoldsOn); a row that is      *)
(* inserted comes after all of them or counts as disordered.                 *)

SummaryRows == [state : {"none", "invalid", "valid"}, folds : SUBSET Nat, boundary : Nat, version : Nat]
TaskStates == [pc : {"none", "queued", "list", "model"}, saw : SummaryRows, covers : SUBSET Nat]
Senders == {IdleSender} \cup [pc : {"list"}, saw : SummaryRows, place : Nat \ {0}]
Answers == [pc : {"idle", "assemble", "fit", "call"}, place : Nat, question : Nat, size : Nat, route : Routes,
            tries : Nat, turn : Nat, mode : {"loop", "continue", "wrap"}, calls : Nat]

StandsFor(saw, rows, late) ==
    saw.state = "valid" =>
        /\ saw.folds \subseteq 1..saw.boundary
        /\ \A m \in rows \ late : m <= saw.boundary => m \in saw.folds
FoldsOn(j, rows, late) ==
    j.pc = "model" =>
        /\ j.covers # {} /\ \A k \in j.covers : k > Cursor(j.saw)
        /\ \A m \in rows \ late, k \in j.covers : m > Cursor(j.saw) /\ m < k => m \in j.covers
\* While the session is there, what was folded is.
BoundaryIn(saw, rows) == saw.state = "valid" => saw.boundary \in rows
CoversIn(j, rows) == j.pc = "model" => j.covers \subseteq rows

MemoryTypes ==
    /\ place \in Nat /\ stored \subseteq 1..place
    /\ row \in SummaryRows /\ task \in [Tasks -> TaskStates] /\ sender \in Senders /\ deleted \in BOOLEAN
    /\ sender.pc = "list" => sender.place <= place
AnswerTypes ==
    /\ ans \in Answers /\ usage \in Nat /\ spent \in [Routes -> Nat] /\ burned \in [Routes -> Nat]
    /\ ans.pc = "idle" => usage = 0
    /\ ans.pc \in {"fit", "call"} => ans.place \in 1..place
SummariesStand ==
    /\ StandsFor(row, stored, disordered) /\ StandsFor(sender.saw, stored, disordered)
    /\ \A t \in Tasks : StandsFor(task[t].saw, stored, disordered) /\ FoldsOn(task[t], stored, disordered)
SummariesIn ==
    deleted \/ /\ BoundaryIn(row, stored) /\ BoundaryIn(sender.saw, stored)
               /\ \A t \in Tasks : BoundaryIn(task[t].saw, stored) /\ CoversIn(task[t], stored)
AnswerListed ==
    ans.pc # "idle" =>
        /\ deleted \/ ans.question \in stored
        /\ \A m \in stored \ disordered : m < ans.question => m \in listed \cup shown

MemoryInv == MemoryTypes /\ SummariesStand /\ SummariesIn
ConversationInv == MemoryInv /\ AnswerTypes /\ AnswerListed /\ SpendIsAttributed

\* The first of a set are not after any that is left out.
LEMMA FirstOnes ==
    ASSUME NEW S \in SUBSET Nat, IsFiniteSet(S), NEW n \in Nat
    PROVE  /\ First(S, n) \subseteq S /\ IsFiniteSet(First(S, n))
           /\ \A m \in First(S, n), k \in S : k < m => k \in First(S, n)
<1>1. First(S, n) \subseteq S
  BY DEF First
<1>2. IsFiniteSet(First(S, n))
  BY <1>1, FS_Subset
<1>3. ASSUME NEW m \in First(S, n), NEW k \in S, k < m PROVE k \in First(S, n)
  <2> DEFINE K == {j \in S : j < k}
             M == {j \in S : j < m}
  <2>0. m \in Nat /\ k \in Nat /\ k < m
    BY <1>1, <1>3
  <2>1. K \subseteq M /\ M \subseteq S
    <3>1. \A j \in S : j < k => j < m
      BY <2>0
    <3> QED BY <3>1
  <2>2. IsFiniteSet(M)
    BY <2>1, FS_Subset
  <2>3. IsFiniteSet(K) /\ Cardinality(K) <= Cardinality(M)
    BY <2>1, <2>2, FS_Subset
  <2>4. Cardinality(K) \in Nat /\ Cardinality(M) \in Nat
    BY <2>2, <2>3, FS_CardinalityType
  <2>5. Cardinality(M) < n
    BY DEF First
  <2>6. Cardinality(K) < n
    BY <2>3, <2>4, <2>5
  <2> QED BY <2>6 DEF First
<1> QED BY <1>1, <1>2, <1>3

\* A batch is what follows the cursor, without a gap.
LEMMA BatchIsPrefix ==
    ASSUME stored \subseteq Nat \ {0}, IsFiniteSet(stored), NEW cursor \in Nat
    PROVE  /\ Batch(cursor) \subseteq stored /\ IsFiniteSet(Batch(cursor))
           /\ \A k \in Batch(cursor) : k > cursor
           /\ \A m \in stored, k \in Batch(cursor) : m > cursor /\ m < k => m \in Batch(cursor)
<1> DEFINE L == ListAfter(cursor)
           limit == MaxBatch + KeepMessages
           fetched == First(L, limit)
           uncovered == {m \in fetched : m > cursor}
           n == IF Cardinality(uncovered) > KeepMessages THEN Cardinality(uncovered) - KeepMessages ELSE 0
           beyond == First(uncovered, n)
           chosen == IF Cardinality(fetched) >= limit THEN uncovered ELSE beyond
<1>0. limit \in Nat /\ MaxBatch \in Nat /\ KeepMessages \in Nat
  BY MemoryAssumption
<1>1. L \subseteq stored /\ L \in SUBSET Nat /\ IsFiniteSet(L) /\ \A m \in stored : m > cursor => m \in L
  BY FS_Subset DEF ListAfter
<1> HIDE DEF L
<1>2. fetched \subseteq L /\ IsFiniteSet(fetched) /\ \A m \in fetched, k \in L : k < m => k \in fetched
  BY <1>0, <1>1, FirstOnes
<1> HIDE DEF fetched
<1>3. /\ uncovered \subseteq fetched /\ uncovered \in SUBSET Nat /\ IsFiniteSet(uncovered)
      /\ \A k \in uncovered : k > cursor
  BY <1>1, <1>2, FS_Subset
<1>4. \A m \in stored, k \in uncovered : m > cursor /\ m < k => m \in uncovered
  BY <1>1, <1>2
<1> HIDE DEF uncovered
<1>5. n \in Nat
  BY <1>0, <1>3, FS_CardinalityType
<1> HIDE DEF n
<1>6. beyond \subseteq uncovered /\ IsFiniteSet(beyond) /\ \A m \in beyond, k \in uncovered : k < m => k \in beyond
  BY <1>3, <1>5, FirstOnes
<1> HIDE DEF beyond
<1>7. /\ chosen \subseteq uncovered /\ IsFiniteSet(chosen)
      /\ \A m \in stored, k \in chosen : m > cursor /\ m < k => m \in chosen
  <2>1. CASE chosen = uncovered
    BY <1>3, <1>4, <2>1
  <2>2. CASE chosen = beyond
    BY <1>4, <1>6, <2>2
  <2> QED BY <2>1, <2>2
<1> HIDE DEF chosen
<1>8. chosen \in SUBSET Nat
  BY <1>3, <1>7
<1>9. /\ First(chosen, MaxBatch) \subseteq chosen /\ IsFiniteSet(First(chosen, MaxBatch))
      /\ \A m \in First(chosen, MaxBatch), k \in chosen : k < m => k \in First(chosen, MaxBatch)
  BY <1>0, <1>7, <1>8, FirstOnes
<1>10. Batch(cursor) = First(chosen, MaxBatch)
  BY DEF Batch, chosen, beyond, n, uncovered, fetched, L
<1>11. \A k \in Batch(cursor) : k \in chosen /\ k \in uncovered /\ k \in stored
  BY <1>1, <1>2, <1>3, <1>7, <1>9, <1>10
<1>12. \A m \in stored, k \in Batch(cursor) : m > cursor /\ m < k => m \in Batch(cursor)
  BY <1>7, <1>9, <1>10, <1>11
<1> QED BY <1>3, <1>9, <1>10, <1>11, <1>12

\* The largest of a finite set of naturals.
LEMMA LargestOne ==
    ASSUME NEW S \in SUBSET Nat, S # {}, NEW n \in Nat, \A k \in S : k <= n
    PROVE  Max(S) \in S /\ \A k \in S : k <= Max(S)
<1> DEFINE T == {n - k : k \in S}
<1>1. T \in SUBSET Nat /\ T # {}
  <2>1. \A k \in S : n - k \in Nat
    OBVIOUS
  <2>2. PICK k \in S : TRUE
    OBVIOUS
  <2>3. n - k \in T
    OBVIOUS
  <2> QED BY <2>1, <2>3
<1>2. PICK x \in T : \A y \in T : x <= y
  BY <1>1, LeastOfSet
<1>3. PICK k \in S : x = n - k
  OBVIOUS
<1>4. \A j \in S : k >= j
  <2> SUFFICES ASSUME NEW j \in S PROVE k >= j
    OBVIOUS
  <2>1. n - j \in T
    OBVIOUS
  <2>2. n - k <= n - j
    BY <1>2, <1>3, <2>1
  <2> QED BY <2>2
<1>5. \E z \in S : \A j \in S : z >= j
  BY <1>4
<1>6. Max(S) \in S /\ \A j \in S : Max(S) >= j
  BY <1>5 DEF Max
<1> QED BY <1>6

\* A row that is inserted comes after what was folded, or is disordered.
LEMMA InsertKeeps ==
    ASSUME NEW S \in SUBSET Nat, NEW D, NEW m \in Nat \ {0}, NEW late,
           late = IF \E later \in S : later > m THEN D \cup {m} ELSE D
    PROVE  /\ \A saw \in SummaryRows :
                StandsFor(saw, S, D) /\ BoundaryIn(saw, S) =>
                    StandsFor(saw, S \cup {m}, late) /\ BoundaryIn(saw, S \cup {m})
           /\ \A j \in TaskStates :
                FoldsOn(j, S, D) /\ CoversIn(j, S) => FoldsOn(j, S \cup {m}, late) /\ CoversIn(j, S \cup {m})
<1>0. D \subseteq late /\ (m \notin late => \A later \in S : later <= m)
  OBVIOUS
<1>1. ASSUME NEW saw \in SummaryRows, StandsFor(saw, S, D), BoundaryIn(saw, S), saw.state = "valid"
      PROVE  StandsFor(saw, S \cup {m}, late) /\ BoundaryIn(saw, S \cup {m})
  <2>1. /\ saw.folds \subseteq 1..saw.boundary /\ saw.boundary \in S /\ saw.boundary \in Nat
        /\ \A k \in S \ D : k <= saw.boundary => k \in saw.folds
    BY <1>1 DEF StandsFor, BoundaryIn, SummaryRows
  <2>2. ASSUME NEW k \in (S \cup {m}) \ late, k <= saw.boundary PROVE k \in saw.folds
    <3>1. CASE k \in S
      BY <1>0, <2>1, <2>2, <3>1
    <3>2. CASE k = m /\ m \notin S
      <4>1. saw.boundary <= m
        BY <1>0, <2>1, <2>2, <3>2
      <4> QED BY <2>1, <2>2, <3>2, <4>1
    <3> QED BY <2>2, <3>1, <3>2
  <2> QED BY <2>1, <2>2 DEF StandsFor, BoundaryIn
<1>2. ASSUME NEW j \in TaskStates, FoldsOn(j, S, D), CoversIn(j, S), j.pc = "model"
      PROVE  FoldsOn(j, S \cup {m}, late) /\ CoversIn(j, S \cup {m})
  <2>1. /\ j.covers # {} /\ (\A k \in j.covers : k > Cursor(j.saw)) /\ j.covers \subseteq S
        /\ \A i \in S \ D, k \in j.covers : i > Cursor(j.saw) /\ i < k => i \in j.covers
    BY <1>2 DEF FoldsOn, CoversIn
  <2>2. ASSUME NEW i \in (S \cup {m}) \ late, NEW k \in j.covers, i > Cursor(j.saw), i < k
        PROVE  i \in j.covers
    <3>1. CASE i \in S
      BY <1>0, <2>1, <2>2, <3>1
    <3>2. CASE i = m /\ m \notin S
      <4>1. k \in Nat /\ k <= m
        BY <1>0, <2>1, <2>2, <3>2
      <4> QED BY <2>2, <3>2, <4>1
    <3> QED BY <2>2, <3>1, <3>2
  <2> QED BY <2>1, <2>2 DEF FoldsOn, CoversIn
<1>3. \A saw \in SummaryRows : saw.state # "valid" => StandsFor(saw, S \cup {m}, late) /\ BoundaryIn(saw, S \cup {m})
  BY DEF StandsFor, BoundaryIn
<1>4. \A j \in TaskStates : j.pc # "model" => FoldsOn(j, S \cup {m}, late) /\ CoversIn(j, S \cup {m})
  BY DEF FoldsOn, CoversIn
<1> QED BY <1>1, <1>2, <1>3, <1>4

\* A cursor is a place.
LEMMA CursorIsPlace == \A saw \in SummaryRows : Cursor(saw) \in Nat
BY DEF Cursor, SummaryRows

\* The rows of a session are at places that were handed out.
LEMMA StoredFinite ==
    ASSUME MemoryInv
    PROVE  stored \subseteq Nat \ {0} /\ IsFiniteSet(stored)
<1>1. place \in Nat /\ stored \subseteq 1..place
  BY DEF MemoryInv, MemoryTypes
<1>2. IsFiniteSet(1..place)
  BY <1>1, FS_Interval
<1>3. IsFiniteSet(stored)
  BY <1>1, <1>2, FS_Subset
<1>4. \A k \in stored : k \in Nat \ {0}
  BY <1>1
<1> QED BY <1>3, <1>4

\* A task moves on with what it read.
LEMMA TaskMoves ==
    ASSUME MemoryInv, NEW t \in Tasks, NEW new \in TaskStates, task' = [task EXCEPT ![t] = new],
           StandsFor(new.saw, stored, disordered), FoldsOn(new, stored, disordered),
           deleted \/ (BoundaryIn(new.saw, stored) /\ CoversIn(new, stored)),
           UNCHANGED <<stored, place, disordered, row, sender, deleted>>
    PROVE  MemoryInv'
<1>1. /\ task' \in [Tasks -> TaskStates] /\ task'[t] = new
      /\ \A u \in Tasks : u # t => task'[u] = task[u]
  BY DEF MemoryInv, MemoryTypes
<1>2. MemoryTypes'
  BY <1>1 DEF MemoryInv, MemoryTypes
<1>3. SummariesStand'
  BY <1>1 DEF MemoryInv, SummariesStand
<1>4. SummariesIn'
  BY <1>1 DEF MemoryInv, SummariesIn
<1> QED BY <1>2, <1>3, <1>4 DEF MemoryInv

\* A task at rest or in the queue has read nothing.
LEMMA NothingRead ==
    ASSUME NEW j, j = IdleTask \/ j = [IdleTask EXCEPT !.pc = "queued"]
    PROVE  /\ j \in TaskStates /\ StandsFor(j.saw, stored, disordered) /\ FoldsOn(j, stored, disordered)
           /\ BoundaryIn(j.saw, stored) /\ CoversIn(j, stored)
<1>1. NoRow \in SummaryRows /\ NoRow.state = "none"
  BY DEF NoRow, SummaryRows
<1>2. j.saw = NoRow /\ j.pc \in {"none", "queued"} /\ j \in TaskStates
  BY <1>1 DEF IdleTask, TaskStates
<1> QED BY <1>1, <1>2 DEF StandsFor, FoldsOn, BoundaryIn, CoversIn

\* The steps of summarize_session but for the write.
LEMMA ReadingSteps ==
    ASSUME MemoryInv, NEW t \in Tasks,
           ReadSummary(t) \/ ListUncovered(t) \/ RefuseSummary(t) \/ SummarizerCrash(t)
    PROVE  MemoryInv' /\ UNCHANGED <<stored, disordered, deleted>>
<1>0. /\ UNCHANGED <<stored, place, disordered, row, sender, deleted>>
      /\ task[t] \in TaskStates
  BY DEF ReadSummary, ListUncovered, RefuseSummary, SummarizerCrash, MemoryInv, MemoryTypes
<1>1. CASE ReadSummary(t)
  <2>1. PICK new : new = [task[t] EXCEPT !.pc = "list", !.saw = row]
    OBVIOUS
  <2>2. new \in TaskStates /\ new.saw = row /\ new.pc = "list"
    BY <1>0, <2>1 DEF TaskStates, MemoryInv, MemoryTypes
  <2>3. task' = [task EXCEPT ![t] = new]
    BY <1>1, <2>1 DEF ReadSummary, SetTask
  <2>4. /\ StandsFor(new.saw, stored, disordered) /\ FoldsOn(new, stored, disordered)
        /\ deleted \/ (BoundaryIn(new.saw, stored) /\ CoversIn(new, stored))
    BY <2>2 DEF MemoryInv, SummariesStand, SummariesIn, FoldsOn, CoversIn
  <2> QED BY <1>0, <2>2, <2>3, <2>4, TaskMoves
<1>2. CASE RefuseSummary(t) \/ SummarizerCrash(t)
  <2>1. PICK new : (new = IdleTask \/ new = [IdleTask EXCEPT !.pc = "queued"]) /\ task' = [task EXCEPT ![t] = new]
    BY <1>2 DEF RefuseSummary, SummarizerCrash, SetTask
  <2> QED BY <1>0, <2>1, NothingRead, TaskMoves
<1>3. CASE ListUncovered(t)
  <2> DEFINE batch == Batch(Cursor(task[t].saw))
             skipped == Cardinality(batch) < MinBatch \/ deleted
  <2>1. PICK new : /\ new = IF skipped THEN IdleTask ELSE [task[t] EXCEPT !.pc = "model", !.covers = batch]
                   /\ task' = [task EXCEPT ![t] = new]
    BY <1>3 DEF ListUncovered, SetTask
  <2>2. CASE skipped
    BY <1>0, <2>1, <2>2, NothingRead, TaskMoves
  <2>3. CASE ~skipped
    <3>1. Cursor(task[t].saw) \in Nat
      BY <1>0, CursorIsPlace DEF TaskStates
    <3>2. /\ batch \subseteq stored /\ IsFiniteSet(batch) /\ \A k \in batch : k > Cursor(task[t].saw)
          /\ \A m \in stored, k \in batch : m > Cursor(task[t].saw) /\ m < k => m \in batch
      BY <3>1, BatchIsPrefix, StoredFinite
    <3>3. batch # {}
      BY <2>3, FS_EmptySet, MemoryAssumption
    <3> HIDE DEF batch
    <3>4. new = [task[t] EXCEPT !.pc = "model", !.covers = batch]
      BY <2>1, <2>3
    <3> batch \in SUBSET Nat
      BY <3>2, StoredFinite
    <3>5. /\ new \in TaskStates /\ new.saw = task[t].saw /\ new.pc = "model" /\ new.covers = batch
      BY <1>0, <3>2, <3>4 DEF TaskStates, MemoryInv, MemoryTypes
    <3>6. /\ StandsFor(new.saw, stored, disordered) /\ FoldsOn(new, stored, disordered)
          /\ deleted \/ (BoundaryIn(new.saw, stored) /\ CoversIn(new, stored))
      BY <3>2, <3>3, <3>5 DEF MemoryInv, SummariesStand, SummariesIn, FoldsOn, CoversIn
    <3> QED BY <1>0, <2>1, <3>5, <3>6, TaskMoves
  <2> QED BY <2>2, <2>3
<1> QED BY <1>0, <1>1, <1>2, <1>3

\* The summary a task writes stands for what it read and what it folded.
LEMMA UpsertStands ==
    ASSUME NEW S \in SUBSET (Nat \ {0}), NEW late, NEW j \in TaskStates, j.pc = "model", NEW n \in Nat,
           StandsFor(j.saw, S, late), FoldsOn(j, S, late), \A k \in j.covers : k <= n,
           NEW new \in SummaryRows, new.state = "valid", new.boundary = Max(j.covers),
           new.folds = (IF j.saw.state = "valid" THEN j.saw.folds ELSE {}) \cup j.covers
    PROVE  StandsFor(new, S, late) /\ (CoversIn(j, S) => BoundaryIn(new, S))
<1>1. j.saw \in SummaryRows /\ j.covers \in SUBSET Nat /\ j.covers # {}
  BY DEF TaskStates, FoldsOn
<1>2. Max(j.covers) \in j.covers /\ \A k \in j.covers : k <= Max(j.covers)
  BY <1>1, LargestOne
<1>3. Cursor(j.saw) \in Nat /\ \A k \in j.covers : k > Cursor(j.saw)
  BY <1>1, CursorIsPlace DEF FoldsOn
<1>4. new.boundary \in j.covers /\ new.boundary \in Nat /\ \A k \in j.covers : k <= new.boundary /\ k \in 1..new.boundary
  BY <1>1, <1>2, <1>3
<1>5. new.folds \subseteq 1..new.boundary
  <2>1. CASE j.saw.state = "valid"
    <3>1. j.saw.folds \subseteq 1..j.saw.boundary /\ Cursor(j.saw) = j.saw.boundary
      BY <2>1 DEF StandsFor, Cursor
    <3>2. j.saw.boundary < new.boundary /\ j.saw.boundary \in Nat
      BY <1>3, <1>4, <3>1
    <3>3. \A k \in 1..j.saw.boundary : k \in 1..new.boundary
      BY <1>4, <3>2
    <3> QED BY <1>4, <2>1, <3>1, <3>3
  <2>2. CASE j.saw.state # "valid"
    BY <1>4, <2>2
  <2> QED BY <2>1, <2>2
<1>6. ASSUME NEW m \in S \ late, m <= new.boundary PROVE m \in new.folds
  <2>1. CASE m > Cursor(j.saw)
    <3>1. m = new.boundary \/ m < new.boundary
      BY <1>4, <1>6
    <3>2. m \in j.covers
      BY <1>4, <2>1, <3>1 DEF FoldsOn
    <3> QED BY <3>2
  <2>2. CASE m <= Cursor(j.saw)
    <3>1. CASE j.saw.state = "valid"
      BY <2>2, <3>1 DEF StandsFor, Cursor
    <3>2. CASE j.saw.state # "valid"
      <4>1. m = 0
        BY <2>2, <3>2 DEF Cursor
      <4> QED BY <4>1
    <3> QED BY <3>1, <3>2
  <2> QED BY <1>3, <2>1, <2>2
<1> QED BY <1>4, <1>5, <1>6 DEF StandsFor, BoundaryIn, CoversIn

LEMMA UpsertStep ==
    ASSUME MemoryInv, NEW t \in Tasks, UpsertSummary(t)
    PROVE  MemoryInv' /\ UNCHANGED <<stored, disordered, deleted>>
<1> DEFINE j == task[t]
           folds == (IF j.saw.state = "valid" THEN j.saw.folds ELSE {}) \cup j.covers
<1>1. /\ j.pc = "model" /\ task' = [task EXCEPT ![t] = IdleTask]
      /\ UNCHANGED <<stored, place, disordered, sender, deleted>>
      /\ \/ row' = row
         \/ ~deleted /\ row' = [state |-> "valid", folds |-> folds, boundary |-> Max(j.covers),
                                version |-> row.version + 1]
  BY DEF UpsertSummary, SetTask, NewBoundary
<1>2. /\ j \in TaskStates /\ StandsFor(j.saw, stored, disordered) /\ FoldsOn(j, stored, disordered)
      /\ deleted \/ CoversIn(j, stored)
  BY DEF MemoryInv, MemoryTypes, SummariesStand, SummariesIn
<1>3. /\ row' \in SummaryRows /\ StandsFor(row', stored, disordered)
      /\ deleted \/ BoundaryIn(row', stored)
  <2>1. CASE row' = row
    BY <2>1 DEF MemoryInv, MemoryTypes, SummariesStand, SummariesIn
  <2>2. CASE ~deleted /\ row' = [state |-> "valid", folds |-> folds, boundary |-> Max(j.covers),
                                 version |-> row.version + 1]
    <3>1. j.covers \subseteq stored /\ j.covers # {} /\ j.saw \in SummaryRows
      BY <1>1, <1>2, <2>2 DEF CoversIn, FoldsOn, TaskStates
    <3>2. place \in Nat /\ j.covers \in SUBSET Nat /\ \A k \in j.covers : k <= place
      <4>1. place \in Nat /\ stored \subseteq 1..place
        BY DEF MemoryInv, MemoryTypes
      <4> HIDE DEF j
      <4>2. \A k \in j.covers : k \in 1..place
        BY <3>1, <4>1
      <4>3. \A k \in j.covers : k \in Nat /\ k <= place
        BY <4>1, <4>2
      <4> QED BY <4>1, <4>3
    <3>3. Max(j.covers) \in j.covers
      BY <3>1, <3>2, LargestOne
    <3>4. folds \in SUBSET Nat
      BY <3>1, <3>2 DEF SummaryRows
    <3> HIDE DEF j, folds
    <3>5. /\ row' \in SummaryRows /\ row'.state = "valid" /\ row'.boundary = Max(j.covers) /\ row'.folds = folds
      BY <2>2, <3>2, <3>3, <3>4 DEF SummaryRows, MemoryInv, MemoryTypes
    <3>6. PICK new : new = row'
      OBVIOUS
    <3>7. stored \in SUBSET (Nat \ {0})
      BY StoredFinite
    <3>8. new.folds = (IF j.saw.state = "valid" THEN j.saw.folds ELSE {}) \cup j.covers
      BY <3>5, <3>6 DEF folds
    <3>9. StandsFor(new, stored, disordered) /\ (CoversIn(j, stored) => BoundaryIn(new, stored))
      BY <1>1, <1>2, <3>2, <3>5, <3>6, <3>7, <3>8, UpsertStands
    <3> QED BY <1>2, <3>5, <3>6, <3>9
  <2> QED BY <1>1, <2>1, <2>2
<1> HIDE DEF j, folds
<1>4. /\ task' \in [Tasks -> TaskStates] /\ task'[t] = IdleTask
      /\ \A u \in Tasks : u # t => task'[u] = task[u]
  BY <1>1, NothingRead DEF MemoryInv, MemoryTypes
<1>5. MemoryTypes'
  BY <1>1, <1>3, <1>4 DEF MemoryInv, MemoryTypes
<1>6. SummariesStand' /\ SummariesIn'
  <2>1. /\ StandsFor(IdleTask.saw, stored, disordered) /\ FoldsOn(IdleTask, stored, disordered)
        /\ BoundaryIn(IdleTask.saw, stored) /\ CoversIn(IdleTask, stored)
    BY NothingRead
  <2> QED BY <1>1, <1>3, <1>4, <2>1 DEF MemoryInv, SummariesStand, SummariesIn
<1> QED BY <1>1, <1>5, <1>6 DEF MemoryInv

\* A send takes a place and reads the summary.
LEMMA SendReadStep ==
    ASSUME MemoryInv, SendRead
    PROVE  MemoryInv' /\ UNCHANGED <<stored, disordered, deleted>> /\ place' = place + 1
<1>1. PICK s : s = [pc |-> "list", saw |-> row, place |-> place + 1]
  OBVIOUS
<1>2. sender' = s /\ place' = place + 1 /\ UNCHANGED <<stored, disordered, row, task, deleted>>
  BY <1>1 DEF SendRead
<1>3. place \in Nat /\ row \in SummaryRows
  BY DEF MemoryInv, MemoryTypes
<1>4. s \in Senders /\ s.saw = row /\ s.place = place + 1
  BY <1>1, <1>3 DEF Senders
<1>5. stored' \subseteq 1..place' /\ place' \in Nat
  BY <1>2, <1>3 DEF MemoryInv, MemoryTypes
<1>6. MemoryTypes'
  BY <1>2, <1>3, <1>4, <1>5 DEF MemoryInv, MemoryTypes
<1> QED BY <1>2, <1>4, <1>6 DEF MemoryInv, SummariesStand, SummariesIn

\* A deleted session has no rows.
LEMMA DeleteStep ==
    ASSUME MemoryInv, DeleteSession
    PROVE  MemoryInv' /\ stored' = {} /\ deleted'
<1>1. deleted' = TRUE /\ stored' = {} /\ row' = NoRow /\ UNCHANGED <<place, disordered, task, sender>>
  BY DEF DeleteSession
<1>2. NoRow \in SummaryRows /\ NoRow.state = "none"
  BY DEF NoRow, SummaryRows
<1>3. MemoryTypes'
  BY <1>1, <1>2 DEF MemoryInv, MemoryTypes
<1>4. SummariesStand'
  BY <1>1, <1>2 DEF MemoryInv, SummariesStand, StandsFor, FoldsOn
<1> QED BY <1>1, <1>3, <1>4 DEF MemoryInv, SummariesIn

\* A row is committed, and perhaps a task enqueued.
LEMMA InsertStep ==
    ASSUME MemoryInv, ~deleted, NEW m \in 1..place, Insert(m),
           UNCHANGED <<place, row, deleted>>, sender' = sender \/ sender' = IdleSender,
           task' = task \/ EnqueueSummarize
    PROVE  MemoryInv'
<1>1. /\ stored' = stored \cup {m}
      /\ disordered' = IF \E later \in stored : later > m THEN disordered \cup {m} ELSE disordered
  BY DEF Insert
<1>2. /\ stored \in SUBSET Nat /\ m \in Nat \ {0} /\ place \in Nat /\ row \in SummaryRows
      /\ sender \in Senders /\ task \in [Tasks -> TaskStates]
  BY DEF MemoryInv, MemoryTypes
<1>3. NoRow \in SummaryRows /\ NoRow.state = "none" /\ IdleSender.saw = NoRow /\ IdleSender.pc = "idle"
  BY DEF NoRow, SummaryRows, IdleSender
<1>4. sender.saw \in SummaryRows
  BY <1>2, <1>3 DEF Senders
<1>5. /\ \A saw \in SummaryRows :
           StandsFor(saw, stored, disordered) /\ BoundaryIn(saw, stored) =>
               StandsFor(saw, stored', disordered') /\ BoundaryIn(saw, stored')
      /\ \A j \in TaskStates :
           FoldsOn(j, stored, disordered) /\ CoversIn(j, stored) =>
               FoldsOn(j, stored', disordered') /\ CoversIn(j, stored')
  <2>1. PICK late : late = IF \E later \in stored : later > m THEN disordered \cup {m} ELSE disordered
    OBVIOUS
  <2>2. stored' = stored \cup {m} /\ disordered' = late
    BY <1>1, <2>1
  <2> QED BY <1>2, <2>1, <2>2, InsertKeeps
<1>6. /\ task' \in [Tasks -> TaskStates]
      /\ \A t \in Tasks : task'[t] = task[t] \/ task'[t] = [IdleTask EXCEPT !.pc = "queued"]
  <2>1. [IdleTask EXCEPT !.pc = "queued"] \in TaskStates
    BY NothingRead
  <2> QED BY <1>2, <2>1 DEF EnqueueSummarize, SetTask
<1>7. MemoryTypes'
  <2>1. stored' \subseteq 1..place' /\ place' \in Nat
    BY <1>1, <1>2 DEF MemoryInv, MemoryTypes
  <2>2. sender' \in Senders /\ (sender'.pc = "list" => sender'.place <= place')
    BY <1>2, <1>3 DEF Senders, MemoryInv, MemoryTypes
  <2> QED BY <1>6, <2>1, <2>2 DEF MemoryInv, MemoryTypes
<1>8. /\ StandsFor(row, stored', disordered') /\ BoundaryIn(row, stored')
      /\ StandsFor(sender.saw, stored', disordered') /\ BoundaryIn(sender.saw, stored')
      /\ \A t \in Tasks : /\ StandsFor(task[t].saw, stored', disordered') /\ BoundaryIn(task[t].saw, stored')
                          /\ FoldsOn(task[t], stored', disordered') /\ CoversIn(task[t], stored')
  BY <1>2, <1>4, <1>5 DEF MemoryInv, SummariesStand, SummariesIn, TaskStates
<1>9. StandsFor(IdleSender.saw, stored', disordered') /\ BoundaryIn(IdleSender.saw, stored')
  BY <1>3 DEF StandsFor, BoundaryIn
<1>10. ASSUME NEW j, j = [IdleTask EXCEPT !.pc = "queued"]
       PROVE  /\ StandsFor(j.saw, stored', disordered') /\ BoundaryIn(j.saw, stored')
              /\ FoldsOn(j, stored', disordered') /\ CoversIn(j, stored')
  <2>1. j.saw = NoRow /\ j.pc = "queued"
    BY <1>10 DEF IdleTask
  <2> QED BY <1>3, <2>1 DEF StandsFor, BoundaryIn, FoldsOn, CoversIn
<1>11. \A t \in Tasks : /\ StandsFor(task'[t].saw, stored', disordered') /\ BoundaryIn(task'[t].saw, stored')
                        /\ FoldsOn(task'[t], stored', disordered') /\ CoversIn(task'[t], stored')
  BY <1>6, <1>8, <1>10
<1>12. SummariesStand' /\ SummariesIn'
  BY <1>8, <1>9, <1>11 DEF SummariesStand, SummariesIn
<1> QED BY <1>7, <1>12 DEF MemoryInv

\* Places may be handed out while the memory stays as it is.
LEMMA MemoryStays ==
    ASSUME MemoryInv, UNCHANGED <<stored, disordered, row, task, sender, deleted>>,
           place' \in Nat, place' >= place
    PROVE  MemoryInv'
<1>1. place \in Nat /\ stored \subseteq 1..place /\ (sender.pc = "list" => sender.place <= place)
  BY DEF MemoryInv, MemoryTypes
<1>2. stored' \subseteq 1..place'
  <2>1. \A k \in 1..place : k \in 1..place'
    BY <1>1
  <2> QED BY <1>1, <2>1
<1>3. sender'.pc = "list" => sender'.place <= place'
  <2>1. sender.pc = "list" => sender.place \in Nat
    BY DEF MemoryInv, MemoryTypes, Senders, IdleSender
  <2> QED BY <1>1, <2>1
<1>4. MemoryTypes'
  BY <1>2, <1>3 DEF MemoryInv, MemoryTypes
<1> QED BY <1>4 DEF MemoryInv, SummariesStand, SummariesIn

\* The tokens of the route in use, point by point.
LEMMA Attribution ==
    ASSUME NEW f \in [Routes -> Nat], NEW g \in [Routes -> Nat], NEW r \in Routes, NEW u \in Nat
    PROVE  g = [f EXCEPT ![r] = @ + u] <=> \A x \in Routes : g[x] = f[x] + (IF x = r THEN u ELSE 0)
<1>1. [f EXCEPT ![r] = @ + u] \in [Routes -> Nat]
  OBVIOUS
<1>2. \A x \in Routes : f[x] \in Nat /\ [f EXCEPT ![r] = @ + u][x] = f[x] + (IF x = r THEN u ELSE 0)
  OBVIOUS
<1> QED BY <1>1, <1>2

LEMMA FirstRoute == 1 \in Routes
BY ConversationAssumption DEF Routes

LEMMA NoAnswerTypes == NoAnswer \in Answers /\ NoAnswer.pc = "idle" /\ NoAnswer.route = 1
BY FirstRoute DEF NoAnswer, Answers

\* A route's spend and what it still uses, moved on by an attempt's tokens.
LEMMA SpendMoves ==
    ASSUME AnswerTypes, SpendIsAttributed, NEW tokens \in Nat, Charged(tokens),
           ans'.route \in Routes,
           \/ ans'.route = ans.route /\ spent' = spent /\ usage' = usage + tokens
           \/ spent' = [spent EXCEPT ![ans.route] = @ + usage + tokens] /\ usage' = 0
    PROVE  /\ SpendIsAttributed' /\ spent' \in [Routes -> Nat] /\ burned' \in [Routes -> Nat] /\ usage' \in Nat
<1>1. /\ ans.route \in Routes /\ usage \in Nat /\ spent \in [Routes -> Nat] /\ burned \in [Routes -> Nat]
  BY DEF AnswerTypes, Answers
<1>2. \A x \in Routes : burned[x] = spent[x] + (IF x = ans.route THEN usage ELSE 0)
  BY <1>1, Attribution DEF SpendIsAttributed
<1>3. /\ burned' \in [Routes -> Nat]
      /\ \A x \in Routes : burned'[x] = burned[x] + (IF x = ans.route THEN tokens ELSE 0)
  BY <1>1 DEF Charged
<1>4. spent' \in [Routes -> Nat] /\ usage' \in Nat
  BY <1>1
<1>5. \A x \in Routes : burned'[x] = spent'[x] + (IF x = ans'.route THEN usage' ELSE 0)
  <2>1. CASE ans'.route = ans.route /\ spent' = spent /\ usage' = usage + tokens
    BY <1>1, <1>2, <1>3, <2>1
  <2>2. CASE spent' = [spent EXCEPT ![ans.route] = @ + usage + tokens] /\ usage' = 0
    <3>1. \A x \in Routes : spent'[x] = spent[x] + (IF x = ans.route THEN usage + tokens ELSE 0)
      BY <1>1, <2>2
    <3> QED BY <1>1, <1>2, <1>3, <2>2, <3>1
  <2> QED BY <2>1, <2>2
<1>6. PICK f, g, r, u : f = spent' /\ g = burned' /\ r = ans'.route /\ u = usage'
  OBVIOUS
<1>7. g = [f EXCEPT ![r] = @ + u]
  BY <1>3, <1>4, <1>5, <1>6, Attribution
<1> QED BY <1>3, <1>4, <1>6, <1>7 DEF SpendIsAttributed

\* An answer that ends has recorded what it used.
LEMMA CloseStep ==
    ASSUME ConversationInv, NEW tokens \in Nat, Close(tokens)
    PROVE  AnswerTypes' /\ AnswerListed' /\ SpendIsAttributed'
<1>1. ans' = NoAnswer /\ usage' = 0 /\ Charged(tokens) /\ spent' = [spent EXCEPT ![ans.route] = @ + usage + tokens]
  BY DEF Close
<1>2. /\ SpendIsAttributed' /\ spent' \in [Routes -> Nat] /\ burned' \in [Routes -> Nat]
  BY <1>1, NoAnswerTypes, FirstRoute, SpendMoves DEF ConversationInv
<1>3. AnswerTypes'
  BY <1>1, <1>2, NoAnswerTypes DEF AnswerTypes
<1>4. AnswerListed'
  BY <1>1, NoAnswerTypes DEF AnswerListed
<1> QED BY <1>2, <1>3, <1>4

LEMMA FailStep ==
    ASSUME ConversationInv, NEW tokens \in Nat, Fail(tokens)
    PROVE  ConversationInv'
<1>1. UNCHANGED <<stored, place, disordered, row, task, sender, deleted>> /\ Close(tokens)
  BY DEF Fail, memoryVars
<1>2. place \in Nat
  BY DEF ConversationInv, MemoryInv, MemoryTypes
<1>3. MemoryInv'
  BY <1>1, <1>2, MemoryStays DEF ConversationInv
<1> QED BY <1>1, <1>3, CloseStep DEF ConversationInv

LEMMA FinishStep ==
    ASSUME ConversationInv, NEW tokens \in Nat, Finish(tokens), ans.pc = "call"
    PROVE  ConversationInv'
<1>1. Close(tokens) /\ UNCHANGED <<place, row, sender, deleted>>
  BY DEF Finish
<1>2. place \in Nat /\ ans.place \in 1..place
  BY DEF ConversationInv, MemoryInv, MemoryTypes, AnswerTypes
<1>3. MemoryInv'
  <2>1. CASE deleted
    <3>1. UNCHANGED <<stored, disordered, task>>
      BY <2>1 DEF Finish
    <3> QED BY <1>1, <1>2, <3>1, MemoryStays DEF ConversationInv
  <2>2. CASE ~deleted
    <3>1. Insert(ans.place) /\ (task' = task \/ EnqueueSummarize)
      BY <2>2 DEF Finish
    <3> QED BY <1>1, <1>2, <2>2, <3>1, InsertStep DEF ConversationInv
  <2> QED BY <2>1, <2>2
<1> QED BY <1>1, <1>3, CloseStep DEF ConversationInv

LEMMA GiveUpStep ==
    ASSUME ConversationInv, NEW tokens \in Nat, GiveUp(tokens), ans.pc = "call"
    PROVE  ConversationInv'
BY FailStep, FinishStep DEF GiveUp

\* The answer goes on: what it was given and the session's rows stay.
LEMMA AnswerGoesOn ==
    ASSUME ConversationInv, ans.pc # "idle", NEW tokens \in Nat,
           UNCHANGED <<stored, disordered, row, task, sender, deleted, listed, shown>>,
           place' \in Nat, place' >= place,
           ans' \in Answers, ans'.question = ans.question, ans'.pc # "idle",
           ans'.pc \in {"fit", "call"} => ans'.place \in 1..place',
           Charged(tokens),
           \/ ans'.route = ans.route /\ spent' = spent /\ usage' = usage + tokens
           \/ spent' = [spent EXCEPT ![ans.route] = @ + usage + tokens] /\ usage' = 0
    PROVE  ConversationInv'
<1>1. MemoryInv'
  BY MemoryStays DEF ConversationInv
<1>2. ans'.route \in Routes
  BY DEF Answers
<1>3. /\ SpendIsAttributed' /\ spent' \in [Routes -> Nat] /\ burned' \in [Routes -> Nat] /\ usage' \in Nat
  BY <1>2, SpendMoves DEF ConversationInv
<1>4. AnswerTypes'
  BY <1>3 DEF AnswerTypes
<1>5. AnswerListed'
  BY DEF ConversationInv, AnswerListed
<1> QED BY <1>1, <1>3, <1>4, <1>5 DEF ConversationInv

\* Nothing was charged.
LEMMA ChargedNothing ==
    ASSUME ConversationInv, burned' = burned, usage' = usage
    PROVE  Charged(0) /\ usage' = usage + 0
<1>1. burned \in [Routes -> Nat] /\ ans.route \in Routes /\ usage \in Nat
  BY DEF ConversationInv, AnswerTypes, Answers
<1>2. \A x \in Routes : burned[x] \in Nat /\ [burned EXCEPT ![ans.route] = @ + 0][x] = burned[x]
  BY <1>1
<1>3. [burned EXCEPT ![ans.route] = @ + 0] \in [Routes -> Nat]
  BY <1>1
<1> QED BY <1>1, <1>2, <1>3 DEF Charged

LEMMA AssembleStep ==
    ASSUME ConversationInv, AssembleContext
    PROVE  ConversationInv'
<1>1. CASE Fail(0)
  BY <1>1, FailStep
<1>2. CASE /\ place' = place + 1 /\ ans' = [ans EXCEPT !.pc = "fit", !.place = place + 1]
           /\ UNCHANGED <<stored, disordered, row, task, sender, deleted, usage, spent, burned, listed, shown>>
  <2>0. place \in Nat /\ ans \in Answers /\ ans.pc = "assemble"
    BY DEF AssembleContext, ConversationInv, MemoryInv, MemoryTypes, AnswerTypes
  <2>a. PICK p \in Nat : p = place + 1
    BY <2>0
  <2>1. PICK new : new = [ans EXCEPT !.pc = "fit", !.place = p]
    OBVIOUS
  <2>2. /\ new \in Answers /\ new.question = ans.question /\ new.pc = "fit" /\ new.place = p
        /\ new.route = ans.route
    BY <2>0, <2>1 DEF Answers
  <2>3. ans' = new /\ place' = place + 1
    BY <1>2, <2>a, <2>1
  <2>4. Charged(0) /\ usage' = usage + 0
    BY <1>2, ChargedNothing
  <2>5. place' \in Nat /\ place' >= place /\ ans'.place \in 1..place'
    BY <2>0, <2>a, <2>2, <2>3
  <2> QED BY <1>2, <2>0, <2>2, <2>3, <2>4, <2>5, AnswerGoesOn
<1> QED BY <1>1, <1>2 DEF AssembleContext

\* The steps of the loop that keep the answer's route: the place is taken.
LEMMA SameRoute ==
    ASSUME ConversationInv, ans.pc \in {"fit", "call"}, NEW tokens \in Nat, Charged(tokens),
           UNCHANGED <<memoryVars, spent, listed, shown>>, usage' = usage + tokens,
           NEW new \in Answers, ans' = new, new.question = ans.question, new.place = ans.place,
           new.route = ans.route, new.pc \in {"fit", "call"}
    PROVE  ConversationInv'
<1>1. place \in Nat /\ ans.place \in 1..place
  BY DEF ConversationInv, MemoryInv, MemoryTypes, AnswerTypes
<1>2. UNCHANGED <<stored, place, disordered, row, task, sender, deleted, listed, shown, spent>>
  BY DEF memoryVars
<1> QED BY <1>1, <1>2, AnswerGoesOn

LEMMA LoopStep ==
    ASSUME ConversationInv, LoopNext
    PROVE  ConversationInv'
<1>0. ans \in Answers /\ usage \in Nat /\ place \in Nat
  BY DEF ConversationInv, AnswerTypes, MemoryInv, MemoryTypes
<1>a. ans.calls + 1 \in Nat /\ ans.turn + 1 \in Nat /\ ans.tries + 1 \in Nat
  BY <1>0 DEF Answers
<1>b. PICK calls \in Nat, turns \in Nat, tries \in Nat, mode \in {"loop", "wrap"} :
           /\ calls = ans.calls + 1 /\ turns = ans.turn + 1 /\ tries = ans.tries + 1
           /\ mode = IF ans.turn + 1 = MaxTurns THEN "wrap" ELSE "loop"
  BY <1>a
<1>1. CASE AssembleContext
  BY <1>1, AssembleStep
<1>2. CASE FitTurn
  <2>1. CASE Fail(0)
    BY <2>1, FailStep
  <2>2. CASE /\ ans' = [ans EXCEPT !.pc = "call", !.tries = 0]
             /\ UNCHANGED <<memoryVars, usage, spent, burned, listed, shown>>
    <3>1. PICK new : new = [ans EXCEPT !.pc = "call", !.tries = 0]
      OBVIOUS
    <3>2. /\ new \in Answers /\ new.question = ans.question /\ new.place = ans.place
          /\ new.route = ans.route /\ new.pc = "call"
      BY <1>0, <3>1 DEF Answers
    <3>3. Charged(0) /\ usage' = usage + 0
      BY <2>2, ChargedNothing
    <3> QED BY <1>2, <2>2, <3>1, <3>2, <3>3, SameRoute DEF FitTurn
  <2> QED BY <1>2, <2>1, <2>2 DEF FitTurn
<1>3. CASE CallsExhausted \/ TurnFails
  <2>1. PICK tokens \in 0..1 : GiveUp(tokens) /\ ans.pc = "call"
    BY <1>3 DEF CallsExhausted, TurnFails, Claims, FaultTokens
  <2> QED BY <2>1, GiveUpStep
<1>4. CASE Answer
  BY <1>4, FinishStep DEF Answer, Claims
<1>5. CASE Truncated
  <2>1. PICK new : new = [ans EXCEPT !.pc = "fit", !.mode = "continue", !.calls = calls]
    OBVIOUS
  <2>2. /\ new \in Answers /\ new.question = ans.question /\ new.place = ans.place
        /\ new.route = ans.route /\ new.pc = "fit"
    BY <1>0, <2>1 DEF Answers
  <2>3. /\ ans' = new /\ ans.pc = "call" /\ Charged(1) /\ usage' = usage + 1
        /\ UNCHANGED <<memoryVars, spent, listed, shown>>
    BY <1>b, <1>5, <2>1 DEF Truncated, Claims
  <2> QED BY <2>2, <2>3, SameRoute
<1>6. CASE ToolTurn
  <2>1. PICK new : new = [ans EXCEPT !.pc = "fit", !.turn = turns, !.calls = calls, !.mode = mode]
    OBVIOUS
  <2>2. /\ new \in Answers /\ new.question = ans.question /\ new.place = ans.place
        /\ new.route = ans.route /\ new.pc = "fit"
    BY <1>0, <2>1 DEF Answers
  <2>3. /\ ans' = new /\ ans.pc = "call" /\ Charged(1) /\ usage' = usage + 1
        /\ UNCHANGED <<memoryVars, spent, listed, shown>>
    BY <1>b, <1>6, <2>1 DEF ToolTurn, Claims
  <2> QED BY <2>2, <2>3, SameRoute
<1>7. CASE ToolBudgetSpent
  <2>1. PICK new : new = [ans EXCEPT !.pc = "fit", !.mode = "wrap", !.calls = calls]
    OBVIOUS
  <2>2. /\ new \in Answers /\ new.question = ans.question /\ new.place = ans.place
        /\ new.route = ans.route /\ new.pc = "fit"
    BY <1>0, <2>1 DEF Answers
  <2>3. /\ ans' = new /\ ans.pc = "call" /\ Charged(1) /\ usage' = usage + 1
        /\ UNCHANGED <<memoryVars, spent, listed, shown>>
    BY <1>b, <1>7, <2>1 DEF ToolBudgetSpent, Claims
  <2> QED BY <2>2, <2>3, SameRoute
<1>8. CASE Retry
  <2>1. PICK new : new = [ans EXCEPT !.tries = tries, !.calls = calls]
    OBVIOUS
  <2>2. /\ new \in Answers /\ new.question = ans.question /\ new.place = ans.place
        /\ new.route = ans.route /\ new.pc = ans.pc
    BY <1>0, <2>1 DEF Answers
  <2>3. PICK tokens \in 0..1 : Charged(tokens) /\ usage' = usage + tokens
    BY <1>8 DEF Retry, FaultTokens
  <2>4. ans' = new /\ ans.pc = "call" /\ UNCHANGED <<memoryVars, spent, listed, shown>>
    BY <1>b, <1>8, <2>1 DEF Retry, Claims
  <2> QED BY <2>2, <2>3, <2>4, SameRoute
<1>9. CASE Failover
  <2>1. PICK r \in Routes, tokens \in 0..1 :
              \/ Fail(tokens)
              \/ /\ ans' = [ans EXCEPT !.route = r, !.tries = 0, !.calls = @ + 1]
                 /\ spent' = [spent EXCEPT ![ans.route] = @ + usage + tokens]
                 /\ usage' = 0 /\ Charged(tokens)
                 /\ UNCHANGED <<memoryVars, listed, shown>>
    BY <1>9 DEF Failover, FaultTokens, Owing
  <2>2. CASE Fail(tokens)
    BY <2>2, FailStep
  <2>3. CASE ~Fail(tokens)
    <3>1. PICK new : new = [ans EXCEPT !.route = r, !.tries = 0, !.calls = calls]
      OBVIOUS
    <3>2. /\ new \in Answers /\ new.question = ans.question /\ new.place = ans.place /\ new.pc = ans.pc
      BY <1>0, <3>1 DEF Answers
    <3>3. /\ ans' = new /\ Charged(tokens) /\ usage' = 0
          /\ spent' = [spent EXCEPT ![ans.route] = @ + usage + tokens]
          /\ UNCHANGED <<stored, place, disordered, row, task, sender, deleted, listed, shown>>
      BY <1>b, <2>1, <2>3, <3>1 DEF memoryVars
    <3>4. ans.pc = "call" /\ ans.place \in 1..place
      BY <1>9 DEF Failover, Dying, Claims, ConversationInv, AnswerTypes
    <3>5. ans'.pc = "call" /\ ans'.place \in 1..place' /\ place' \in Nat /\ place' >= place
      BY <1>0, <3>2, <3>3, <3>4
    <3>6. /\ tokens \in Nat /\ ans.pc # "idle" /\ ans'.pc # "idle" /\ ans' \in Answers
          /\ ans'.question = ans.question
          /\ UNCHANGED <<stored, disordered, row, task, sender, deleted, listed, shown>>
      BY <3>2, <3>3, <3>4, <3>5
    <3> QED BY <3>3, <3>5, <3>6, AnswerGoesOn
  <2> QED BY <2>2, <2>3
<1> QED BY <1>1, <1>2, <1>3, <1>4, <1>5, <1>6, <1>7, <1>8, <1>9, LoopNext DEF LoopNext

\* What a send lists and the summary it read are all that came before.
LEMMA SendCommitStep ==
    ASSUME ConversationInv, SendCommit
    PROVE  ConversationInv'
<1>1. /\ sender.pc = "list" /\ ~deleted /\ Insert(sender.place) /\ sender' = IdleSender
      /\ UNCHANGED <<place, row, task, deleted, usage>>
  BY DEF SendCommit
<1>2. /\ place \in Nat /\ sender \in Senders /\ sender.place <= place /\ stored \subseteq 1..place
      /\ StandsFor(sender.saw, stored, disordered) /\ ans \in Answers
  BY <1>1 DEF ConversationInv, MemoryInv, MemoryTypes, SummariesStand, AnswerTypes
<1>3. sender.saw \in SummaryRows /\ sender.place \in Nat \ {0}
  BY <1>1, <1>2 DEF Senders, IdleSender
<1>4. sender.place \in 1..place
  BY <1>2, <1>3
<1>5. MemoryInv'
  BY <1>1, <1>4, InsertStep DEF ConversationInv
<1>6. /\ stored' = stored \cup {sender.place} /\ disordered \subseteq disordered'
      /\ sender.place \notin disordered' => \A k \in stored : ~(k > sender.place)
  BY <1>1 DEF Insert
<1>7. CASE ans.pc = "idle"
  <2>1. PICK size \in QuestionSizes :
              ans' = [NoAnswer EXCEPT !.pc = "assemble", !.question = sender.place, !.size = size]
    BY <1>7 DEF SendCommit
  <2>2. size \in Nat
    BY ConversationAssumption
  <2>3. PICK new : new = [NoAnswer EXCEPT !.pc = "assemble", !.question = sender.place, !.size = size]
    OBVIOUS
  <2>4. /\ new \in Answers /\ new.question = sender.place /\ new.pc = "assemble" /\ new.route = 1
    BY <1>3, <2>2, <2>3, NoAnswerTypes DEF Answers, NoAnswer
  <2>5. /\ ans' = new /\ listed' = ListAfter(Cursor(sender.saw))
        /\ shown' = IF sender.saw.state = "valid" THEN sender.saw.folds ELSE {}
        /\ spent' = NoTokens /\ burned' = NoTokens
    BY <1>7, <2>1, <2>3 DEF SendCommit
  <2>6. usage' = 0
    BY <1>1, <1>7 DEF ConversationInv, AnswerTypes
  <2>7. NoTokens \in [Routes -> Nat] /\ \A x \in Routes : NoTokens[x] = 0
    BY DEF NoTokens
  <2>8. AnswerTypes'
    BY <2>4, <2>5, <2>6, <2>7 DEF AnswerTypes
  <2>9. SpendIsAttributed'
    <3>1. NoTokens = [NoTokens EXCEPT ![1] = @ + 0]
      BY <2>7, FirstRoute, Attribution
    <3> QED BY <2>4, <2>5, <2>6, <3>1 DEF SpendIsAttributed
  <2>10. ASSUME NEW m \in stored' \ disordered', m < sender.place PROVE m \in listed' \cup shown'
    <3>1. m \in stored /\ m \notin disordered /\ m \in Nat \ {0}
      BY <1>2, <1>3, <1>6, <2>10
    <3>2. Cursor(sender.saw) \in Nat
      BY <1>3, CursorIsPlace
    <3>3. CASE m > Cursor(sender.saw)
      BY <2>5, <3>1, <3>3 DEF ListAfter
    <3>4. CASE m <= Cursor(sender.saw)
      <4>1. sender.saw.state = "valid" /\ Cursor(sender.saw) = sender.saw.boundary
        BY <3>1, <3>4 DEF Cursor
      <4> QED BY <1>2, <2>5, <3>1, <3>4, <4>1 DEF StandsFor
    <3> QED BY <3>1, <3>2, <3>3, <3>4
  <2>11. AnswerListed'
    BY <1>6, <2>4, <2>5, <2>10 DEF AnswerListed
  <2> QED BY <1>5, <2>8, <2>9, <2>11 DEF ConversationInv
<1>8. CASE ans.pc # "idle"
  <2>1. UNCHANGED <<ans, listed, shown, spent, burned, usage, place>>
    BY <1>1, <1>8 DEF SendCommit
  <2>2. AnswerTypes' /\ SpendIsAttributed'
    BY <2>1 DEF ConversationInv, AnswerTypes, SpendIsAttributed
  <2>3. ans.question \in stored /\ ans.question \in Nat
    BY <1>1, <1>2, <1>8 DEF ConversationInv, AnswerListed, Answers
  <2>4. ASSUME NEW m \in stored' \ disordered', m < ans.question PROVE m \in listed \cup shown
    <3>1. m # sender.place
      BY <1>3, <1>6, <2>3, <2>4
    <3>2. m \in stored /\ m \notin disordered
      BY <1>6, <3>1
    <3> QED BY <1>8, <2>4, <3>2 DEF ConversationInv, AnswerListed
  <2>5. AnswerListed'
    BY <1>6, <2>1, <2>3, <2>4 DEF AnswerListed
  <2> QED BY <1>5, <2>2, <2>5 DEF ConversationInv
<1> QED BY <1>7, <1>8

LEMMA MemoryInitial == Init => ConversationInv
<1> SUFFICES ASSUME Init PROVE ConversationInv
  OBVIOUS
<1>0. Kept \in Nat
  BY MemoryAssumption
<1>1. NoRow \in SummaryRows /\ NoRow.state = "none"
  BY DEF NoRow, SummaryRows
<1>2. row \in SummaryRows /\ row.state # "valid"
  <2>1. PICK b \in 0..Kept : row = IF b = 0 THEN NoRow
                                   ELSE [state |-> "invalid", folds |-> {}, boundary |-> b, version |-> 1]
    BY DEF Init, MemoryInit
  <2>2. CASE b = 0
    BY <1>1, <2>1, <2>2
  <2>3. CASE b # 0
    BY <1>0, <2>1, <2>3 DEF SummaryRows
  <2> QED BY <2>2, <2>3
<1>3. task = [t \in Tasks |-> IdleTask] /\ sender = IdleSender /\ place = Kept /\ stored = 1..Kept /\ deleted = FALSE
  BY DEF Init, MemoryInit
<1>4. IdleSender.saw = NoRow /\ IdleSender.pc = "idle" /\ IdleSender \in Senders
  BY DEF IdleSender, Senders
<1>5. \A t \in Tasks : task[t] = IdleTask
  BY <1>3
<1>6. MemoryTypes
  <2>1. IdleTask \in TaskStates
    BY NothingRead
  <2> QED BY <1>0, <1>2, <1>3, <1>4, <2>1 DEF MemoryTypes
<1>7. SummariesStand /\ SummariesIn
  <2>1. /\ StandsFor(IdleTask.saw, stored, disordered) /\ FoldsOn(IdleTask, stored, disordered)
        /\ BoundaryIn(IdleTask.saw, stored) /\ CoversIn(IdleTask, stored)
    BY NothingRead
  <2>2. /\ StandsFor(row, stored, disordered) /\ BoundaryIn(row, stored)
        /\ StandsFor(sender.saw, stored, disordered) /\ BoundaryIn(sender.saw, stored)
    BY <1>1, <1>2, <1>3, <1>4 DEF StandsFor, BoundaryIn
  <2> QED BY <1>5, <2>1, <2>2 DEF SummariesStand, SummariesIn
<1>8. ans = NoAnswer /\ usage = 0 /\ spent = NoTokens /\ burned = NoTokens
  BY DEF Init
<1>9. NoTokens \in [Routes -> Nat] /\ NoTokens = [NoTokens EXCEPT ![1] = @ + 0]
  <2>1. NoTokens \in [Routes -> Nat] /\ \A x \in Routes : NoTokens[x] = 0
    BY DEF NoTokens
  <2> QED BY <2>1, FirstRoute, Attribution
<1>10. AnswerTypes /\ AnswerListed /\ SpendIsAttributed
  BY <1>8, <1>9, NoAnswerTypes DEF AnswerTypes, AnswerListed, SpendIsAttributed
<1> QED BY <1>6, <1>7, <1>10 DEF ConversationInv, MemoryInv

LEMMA ConversationStep == ConversationInv /\ [Next]_vars => ConversationInv'
<1> SUFFICES ASSUME ConversationInv, [Next]_vars PROVE ConversationInv'
  OBVIOUS
<1>0. MemoryInv
  BY DEF ConversationInv
\* A step beside the loop keeps the answer, and has no row for it to miss.
<1>1. ASSUME MemoryInv', UNCHANGED loopVars, place' >= place, place' \in Nat,
             UNCHANGED <<stored, disordered, deleted>> \/ (stored' = {} /\ deleted')
      PROVE  ConversationInv'
  <2>1. UNCHANGED <<ans, usage, spent, burned, listed, shown>>
    BY <1>1 DEF loopVars
  <2>2. place \in Nat
    BY <1>0 DEF MemoryInv, MemoryTypes
  <2>3. \A k \in 1..place : k \in 1..place'
    BY <1>1, <2>2
  <2>4. AnswerTypes' /\ SpendIsAttributed'
    BY <2>1, <2>3 DEF ConversationInv, AnswerTypes, SpendIsAttributed
  <2>5. AnswerListed'
    BY <1>1, <2>1 DEF ConversationInv, AnswerListed
  <2> QED BY <1>1, <2>4, <2>5 DEF ConversationInv
<1>2. place \in Nat
  BY <1>0 DEF MemoryInv, MemoryTypes
<1>3. CASE TaskNext /\ UNCHANGED loopVars
  <2>1. PICK t \in Tasks : \/ ReadSummary(t) \/ ListUncovered(t) \/ RefuseSummary(t)
                           \/ UpsertSummary(t) \/ SummarizerCrash(t)
    BY <1>3 DEF TaskNext
  <2>2. place' = place
    BY <2>1 DEF ReadSummary, ListUncovered, RefuseSummary, UpsertSummary, SummarizerCrash
  <2>3. MemoryInv' /\ UNCHANGED <<stored, disordered, deleted>>
    BY <1>0, <2>1, ReadingSteps, UpsertStep
  <2> QED BY <1>1, <1>2, <1>3, <2>2, <2>3
<1>4. CASE SendRead /\ UNCHANGED loopVars
  BY <1>0, <1>1, <1>2, <1>4, SendReadStep
<1>5. CASE DeleteSession /\ UNCHANGED loopVars
  <2>1. place' = place
    BY <1>5 DEF DeleteSession
  <2>2. MemoryInv' /\ stored' = {} /\ deleted'
    BY <1>0, <1>5, DeleteStep
  <2> QED BY <1>1, <1>2, <1>5, <2>1, <2>2
<1>6. CASE SendCommit
  BY <1>6, SendCommitStep
<1>7. CASE LoopNext
  BY <1>7, LoopStep
<1>8. CASE UNCHANGED vars
  <2>1. UNCHANGED <<stored, place, disordered, row, task, sender, deleted>> /\ UNCHANGED loopVars
    BY <1>8 DEF vars, memoryVars
  <2>2. MemoryInv'
    BY <1>0, <1>2, <2>1, MemoryStays
  <2> QED BY <1>1, <1>2, <2>1, <2>2
<1> QED BY <1>3, <1>4, <1>5, <1>6, <1>7, <1>8 DEF Next

\* A conversation is remembered whole (MemoryIsWhole): whatever summarizer tasks
\* run at the same time, are refused, crash or are redelivered, and however sends
\* and answers interleave with them, the summary stands for the messages up to
\* its boundary and a request lists every other one that was visible in order.
\* The tokens of its answers are recorded under the models that used them,
\* across retries and failovers (SpendIsAttributed).
THEOREM MemoryWhole == Spec => [](MemoryIsWhole /\ SpendIsAttributed)
<1>1. ConversationInv => MemoryIsWhole /\ SpendIsAttributed
  <2> SUFFICES ASSUME ConversationInv PROVE MemoryIsWhole /\ SpendIsAttributed
    OBVIOUS
  <2>1. SummaryIsPrefix
    BY DEF ConversationInv, MemoryInv, SummariesStand, StandsFor, SummaryIsPrefix
  <2>2. NothingForgotten
    BY DEF ConversationInv, AnswerListed, NothingForgotten, Sending
  <2> QED BY <2>1, <2>2 DEF MemoryIsWhole, ConversationInv
<1> QED BY <1>1, MemoryInitial, ConversationStep, PTL DEF Spec

-----------------------------------------------------------------------------
(* The tool calls of an answer.  Phase says which calls may be under way where *)
(* the batch is; a call that is not has no handler, no lock and no search.     *)

Resting == {"idle", "done", "raised"}
Ended == {"done", "raised"}
\* Where a call is before its handler runs.
Unrun == {"idle", "govern", "intent", "scope", "execute"}
Begun == IF turn = 0 THEN {} ELSE IF turn = 1 THEN 1..cut ELSE Calls
Shown(c) == <<"result", c>> \in Range(envelopes)

CallTypes ==
    /\ kind \in [Calls -> Kinds] /\ cut \in 1..N /\ policy \in [Governed -> Policies]
    /\ turn \in 0..2 /\ used \in 0..MaxExternal /\ searches \in Nat
    /\ w \in [Calls -> CallSteps] /\ outcome \in [Calls -> {"none", "denied", "ok", "error"}]
    /\ granted \in [Calls -> Policies \cup {"none"}] /\ ran \subseteq Calls /\ intents \subseteq Calls
    /\ finished \in Seq(Calls)
    /\ web \in [task : {"none", "running", "ok"}, waiters : SUBSET Calls]

\* A call is of a turn that has begun and been counted.
Counted ==
    /\ Cardinality({c \in Begun : External(kind[c])}) <= used
    /\ \A c \in Calls : w[c] # "idle" => c \in Begun
    /\ pc \notin {"turn", "answer", "end"} => turn # 0
    /\ searches <= Cardinality({c \in ran : kind[c] = "search"})

\* Until its handler runs a call has no outcome, and one that writes has passed the gate.
Unstarted == \A c \in Calls : w[c] \in Unrun => c \notin ran /\ outcome[c] = "none"
Authorised ==
    \A c \in Calls : WriteTier(kind[c]) =>
        /\ w[c] # "scope" /\ (w[c] = "intent" => granted[c] = "enabled")
        /\ w[c] = "execute" \/ c \in ran => c \in intents /\ granted[c] = "enabled"

\* A running search has a waiter, and a waiter waits.
Waiting ==
    /\ web.task = "running" => web.waiters # {}
    /\ \A c \in web.waiters : w[c] = "await" /\ outcome[c] = "none"
LockHeld == lock # 0 => lock \in Calls /\ w[lock] = "persist"

Phase ==
    /\ \A i \in DOMAIN finished : w[finished[i]] \in Ended
    /\ \A c \in Calls : Shown(c) => w[c] \in Ended
    /\ pc = "calls" => \A c \in TurnCalls : w[c] = "idle"
    /\ pc \in {"turn", "calls", "serial", "answer", "end"} => \A c \in Calls : w[c] \in Resting
    /\ pc \in {"collect", "cancel", "abort", "gather"} =>
          (\A c \in Calls \ FanOut : w[c] \in Resting) /\ \A c \in Serial : w[c] = "idle"
    /\ pc = "serial" => \A c \in Serial : w[c] = "idle" \/ Shown(c)
    /\ pc = "run" => \E r \in Serial : \A c \in Calls \ {r} :
                        w[c] \in Resting /\ (c \in Serial => w[c] = "idle" \/ Shown(c))

\* An envelope shows a call or its result.
Envelopes == {"call", "result"} \X Calls

EffectsInv ==
    /\ CallTypes /\ Counted /\ Unstarted /\ Authorised /\ Waiting /\ LockHeld /\ Phase
    /\ envelopes \in Seq(Envelopes)
    /\ pc \in {"turn", "calls", "collect", "cancel", "abort", "gather", "serial", "run", "answer", "end"}

\* What one envelope more shows.
LEMMA ShowsOneMore ==
    ASSUME NEW s \in Seq(Envelopes), NEW e \in Envelopes
    PROVE  Append(s, e) \in Seq(Envelopes) /\ \A x : x \in Range(Append(s, e)) <=> x \in Range(s) \/ x = e
<1>1. /\ Append(s, e) \in Seq(Envelopes) /\ DOMAIN Append(s, e) = 1..(Len(s) + 1) /\ DOMAIN s = 1..Len(s)
      /\ Len(s) \in Nat /\ \A i \in 1..(Len(s) + 1) : Append(s, e)[i] = IF i = Len(s) + 1 THEN e ELSE s[i]
  OBVIOUS
<1>2. ASSUME NEW x, x \in Range(Append(s, e)) PROVE x \in Range(s) \/ x = e
  <2>1. PICK i \in DOMAIN Append(s, e) : x = Append(s, e)[i]
    BY <1>2 DEF Range
  <2> QED BY <1>1, <2>1 DEF Range
<1>3. ASSUME NEW x, x \in Range(s) PROVE x \in Range(Append(s, e))
  <2>1. PICK i \in DOMAIN s : x = s[i]
    BY <1>3 DEF Range
  <2>2. i \in 1..(Len(s) + 1) /\ i # Len(s) + 1
    BY <1>1, <2>1
  <2>3. Append(s, e)[i] = x
    BY <1>1, <2>1, <2>2
  <2> QED BY <1>1, <2>2, <2>3 DEF Range
<1>4. e \in Range(Append(s, e))
  <2>1. Len(s) + 1 \in 1..(Len(s) + 1)
    BY <1>1
  <2>2. Append(s, e)[Len(s) + 1] = e
    BY <1>1, <2>1
  <2> QED BY <1>1, <2>1, <2>2 DEF Range
<1> QED BY <1>1, <1>2, <1>3, <1>4

\* What a fan-out is: calls of the turn that write nothing.
LEMMA FanOutIs ==
    ASSUME CallTypes
    PROVE  /\ TurnCalls \subseteq Calls /\ FanOut \subseteq TurnCalls /\ Serial \subseteq TurnCalls
           /\ IsFiniteSet(FanOut) /\ IsFiniteSet(Calls)
           /\ \A c \in FanOut : c \notin Serial /\ kind[c] \in {"read", "search", "unknown"}
           /\ turn # 0 => TurnCalls \subseteq Begun
           /\ Begun \subseteq Calls
<1>1. N \in Nat /\ cut \in 1..N /\ turn \in 0..2 /\ Calls = 1..N
  BY ToolAssumption DEF CallTypes, Calls
<1>2. TurnCalls \subseteq Calls
  BY <1>1 DEF TurnCalls
<1>3. FanOut \subseteq TurnCalls /\ \A c \in FanOut : ConcurrencySafe(c)
  BY DEF FanOut, Safe
<1>4. IsFiniteSet(Calls) /\ IsFiniteSet(FanOut)
  <2>1. IsFiniteSet(Calls)
    BY <1>1, FS_Interval
  <2>2. FanOut \subseteq Calls
    BY <1>2, <1>3
  <2> QED BY <2>1, <2>2, FS_Subset
<1>5. (turn # 0 => TurnCalls \subseteq Begun) /\ Begun \subseteq Calls
  BY <1>1, <1>2 DEF TurnCalls, Begun
<1>6. \A c \in FanOut : kind[c] \in {"read", "search", "unknown"}
  BY <1>3 DEF ConcurrencySafe, ReadOnly
<1> QED BY <1>2, <1>3, <1>4, <1>5, <1>6 DEF Serial

\* The order of a fan-out.
LEMMA InOrderIs ==
    ASSUME NEW S \in SUBSET Calls
    PROVE  \E n \in Nat : /\ n = Cardinality(S) /\ InOrder(S) \in [1..n -> S]
                          /\ \A c \in S : \E i \in 1..n : InOrder(S)[i] = c
                          /\ \A i, j \in 1..n : InOrder(S)[i] = InOrder(S)[j] => i = j
<1> DEFINE R == {e \in S \X S : e[1] < e[2]}
<1>0. N \in Nat /\ Calls = 1..N
  BY ToolAssumption DEF Calls
<1>1. IsFiniteSet(S) /\ S \subseteq Int
  <2>1. IsFiniteSet(Calls)
    BY <1>0, FS_Interval
  <2>2. IsFiniteSet(S)
    BY <2>1, FS_Subset
  <2>3. \A x \in S : x \in Int
    BY <1>0
  <2> QED BY <2>2, <2>3
<1>2. PICK n \in Nat : n = Cardinality(S)
  BY <1>1, FS_CardinalityType
<1>3. \A x, y \in S : <<x, y>> \in R <=> x < y
  OBVIOUS
<1>4. Orders(R, S)
  BY <1>1, <1>3 DEF Orders
<1> HIDE DEF R
<1>5. PICK s : Listing(s, R, S, n)
  BY <1>1, <1>2, <1>4, OrderedListExists
<1> DEFINE Good(t) == (\A c \in S : \E i \in 1..n : t[i] = c) /\ \A i, j \in 1..n : i < j => t[i] < t[j]
<1>6. s \in [1..n -> S] /\ Good(s)
  BY <1>3, <1>5 DEF Listing
<1>7. PICK o : o = CHOOSE t \in [1..n -> S] : Good(t)
  OBVIOUS
<1>8. o \in [1..n -> S] /\ Good(o)
  <2> HIDE DEF Good
  <2> QED BY <1>6, <1>7
<1>9. InOrder(S) = o
  BY <1>2, <1>7 DEF InOrder
<1>10. ASSUME NEW i \in 1..n, NEW j \in 1..n, o[i] = o[j] PROVE i = j
  <2>1. o[i] \in Int /\ o[j] \in Int /\ i \in Int /\ j \in Int
    <3>1. o[i] \in S /\ o[j] \in S
      BY <1>8
    <3>2. \A x \in S : x \in Int
      BY <1>1
    <3>3. \A x \in 1..n : x \in Int
      OBVIOUS
    <3> QED BY <3>1, <3>2, <3>3
  <2>2. ~(i < j) /\ ~(j < i)
    BY <1>8, <1>10, <2>1
  <2> QED BY <2>1, <2>2
<1> QED BY <1>2, <1>8, <1>9, <1>10

\* The turn decides which calls are run together.
LEMMA TurnStays ==
    ASSUME UNCHANGED <<kind, cut, turn>>
    PROVE  TurnCalls' = TurnCalls /\ FanOut' = FanOut /\ Serial' = Serial /\ Begun' = Begun
BY DEF TurnCalls, FanOut, Serial, Begun, Safe, ConcurrencySafe, ReadOnly

\* A call that is under way is one of the fan-out, or the serial one.
LEMMA UnderWay ==
    ASSUME EffectsInv, NEW c \in Calls, w[c] \notin Resting
    PROVE  /\ \/ pc \in {"collect", "cancel", "abort", "gather"} /\ c \in FanOut
              \/ pc = "run" /\ c \in Serial /\ \A d \in Calls \ {c} :
                    w[d] \in Resting /\ (d \in Serial => w[d] = "idle" \/ Shown(d))
           /\ ~Shown(c) /\ \A i \in DOMAIN finished : finished[i] # c
<1>1. ~Shown(c) /\ \A i \in DOMAIN finished : finished[i] # c
  BY DEF EffectsInv, Phase, Resting, Ended
<1>2. pc \in {"collect", "cancel", "abort", "gather"} => c \in FanOut
  BY DEF EffectsInv, Phase
<1>3. pc = "run" => c \in Serial /\ \A d \in Calls \ {c} :
                    w[d] \in Resting /\ (d \in Serial => w[d] = "idle" \/ Shown(d))
  <2> HAVE pc = "run"
  <2>1. PICK r \in Serial : \A d \in Calls \ {r} :
                    w[d] \in Resting /\ (d \in Serial => w[d] = "idle" \/ Shown(d))
    BY DEF EffectsInv, Phase
  <2>2. c = r
    BY <2>1
  <2> QED BY <2>1, <2>2
<1>4. pc \notin {"turn", "calls", "serial", "answer", "end"}
  BY DEF EffectsInv, Phase
<1> QED BY <1>1, <1>2, <1>3, <1>4 DEF EffectsInv

\* A call under way moves on: the batch stays where it is.
LEMMA CallMoves ==
    ASSUME EffectsInv, NEW c \in Calls, w[c] \notin Resting, NEW to \in CallSteps \ {"idle", "govern"},
           w' = [w EXCEPT ![c] = to], UNCHANGED <<kind, cut, turn, pc, envelopes>>,
           finished' = finished \/ (to \in Ended /\ finished' = Append(finished, c))
    PROVE  /\ Phase' /\ w' \in [Calls -> CallSteps] /\ w'[c] = to /\ \A d \in Calls : d # c => w'[d] = w[d]
           /\ finished' \in Seq(Calls) /\ (\A d \in Calls : w'[d] # "idle" => d \in Begun')
<1>1. w \in [Calls -> CallSteps] /\ finished \in Seq(Calls)
  BY DEF EffectsInv, CallTypes
<1>2. w' \in [Calls -> CallSteps] /\ w'[c] = to /\ \A d \in Calls : d # c => w'[d] = w[d]
  BY <1>1
<1>3. finished' \in Seq(Calls)
  BY <1>1
<1>4. /\ ~Shown(c) /\ (\A i \in DOMAIN finished : finished[i] # c)
      /\ \/ pc \in {"collect", "cancel", "abort", "gather"} /\ c \in FanOut
         \/ pc = "run" /\ c \in Serial /\ \A d \in Calls \ {c} :
               w[d] \in Resting /\ (d \in Serial => w[d] = "idle" \/ Shown(d))
  BY UnderWay
<1>5. TurnCalls' = TurnCalls /\ FanOut' = FanOut /\ Serial' = Serial /\ Begun' = Begun
  BY TurnStays
<1>6. \A d \in Calls : Shown(d)' <=> Shown(d)
  BY DEF Shown
<1>7. \A i \in DOMAIN finished' : w'[finished'[i]] \in Ended
  <2>1. \A i \in DOMAIN finished : finished[i] \in Calls /\ w'[finished[i]] \in Ended
    BY <1>1, <1>2, <1>4 DEF EffectsInv, Phase
  <2>2. CASE finished' = finished
    BY <2>1, <2>2
  <2>3. CASE to \in Ended /\ finished' = Append(finished, c)
    <3>1. \A i \in DOMAIN finished' : (i \in DOMAIN finished /\ finished'[i] = finished[i]) \/ finished'[i] = c
      BY <1>1, <2>3
    <3> QED BY <1>2, <2>1, <2>3, <3>1
  <2> QED BY <2>2, <2>3
<1>8. c \in FanOut => c \notin Serial
  BY FanOutIs DEF EffectsInv
<1>9. Serial \subseteq Calls
  BY FanOutIs DEF EffectsInv
<1>10. \A d \in Calls : Shown(d)' => w'[d] \in Ended
  BY <1>2, <1>4, <1>6 DEF EffectsInv, Phase
<1>11. CASE pc \in {"collect", "cancel", "abort", "gather"} /\ c \in FanOut
  <2>1. (\A d \in Calls \ FanOut : w'[d] \in Resting) /\ \A d \in Serial : w'[d] = "idle"
    BY <1>2, <1>8, <1>9, <1>11 DEF EffectsInv, Phase
  <2>2. Phase'
    BY <1>5, <1>7, <1>10, <1>11, <2>1 DEF Phase
  <2> QED BY <1>2, <1>3, <1>5, <2>2 DEF EffectsInv, Counted, Resting
<1>12. CASE pc = "run" /\ c \in Serial /\ \A d \in Calls \ {c} :
               w[d] \in Resting /\ (d \in Serial => w[d] = "idle" \/ Shown(d))
  <2>1. \A d \in Calls \ {c} : w'[d] \in Resting /\ (d \in Serial => w'[d] = "idle" \/ Shown(d)')
    BY <1>2, <1>6, <1>12
  <2>2. \E r \in Serial : \A d \in Calls \ {r} : w'[d] \in Resting /\ (d \in Serial => w'[d] = "idle" \/ Shown(d)')
    BY <1>12, <2>1
  <2>3. Phase'
    BY <1>5, <1>7, <1>10, <1>12, <2>2 DEF Phase
  <2> QED BY <1>2, <1>3, <1>5, <2>3 DEF EffectsInv, Counted, Resting
<1> QED BY <1>4, <1>11, <1>12

\* A call under way moves on and only touches what is its own.
LEMMA CallGoesOn ==
    ASSUME EffectsInv, NEW c \in Calls, w[c] \notin Resting, NEW to \in CallSteps \ {"idle", "govern"},
           w' = [w EXCEPT ![c] = to], UNCHANGED <<kind, cut, turn, pc, envelopes, policy, used>>,
           finished' = finished \/ (to \in Ended /\ finished' = Append(finished, c)),
           outcome' \in [Calls -> {"none", "denied", "ok", "error"}], granted' \in [Calls -> Policies \cup {"none"}],
           ran' \subseteq Calls, intents' \subseteq Calls, searches' \in Nat,
           web' \in [task : {"none", "running", "ok"}, waiters : SUBSET Calls],
           \A d \in Calls \ {c} : /\ outcome'[d] = outcome[d] /\ granted'[d] = granted[d]
                                  /\ (d \in ran' <=> d \in ran) /\ (d \in intents' <=> d \in intents),
           to \in Unrun => c \notin ran' /\ outcome'[c] = "none",
           WriteTier(kind[c]) => /\ to # "scope" /\ (to = "intent" => granted'[c] = "enabled")
                                 /\ to = "execute" \/ c \in ran' => c \in intents' /\ granted'[c] = "enabled",
           searches' <= Cardinality({d \in ran' : kind[d] = "search"}),
           Waiting', LockHeld'
    PROVE  EffectsInv'
<1>1. /\ Phase' /\ w' \in [Calls -> CallSteps] /\ w'[c] = to /\ (\A d \in Calls : d # c => w'[d] = w[d])
      /\ finished' \in Seq(Calls) /\ (\A d \in Calls : w'[d] # "idle" => d \in Begun')
  BY CallMoves
<1>2. CallTypes'
  BY <1>1 DEF EffectsInv, CallTypes
<1>3. Counted'
  <2>1. Begun' = Begun
    BY TurnStays
  <2> QED BY <1>1, <2>1 DEF EffectsInv, Counted
<1>4. Unstarted'
  BY <1>1 DEF EffectsInv, Unstarted
<1>5. Authorised'
  BY <1>1 DEF EffectsInv, Authorised
<1>6. envelopes' \in Seq(Envelopes)' /\ pc' = pc
  BY DEF EffectsInv, Envelopes
<1> QED BY <1>1, <1>2, <1>3, <1>4, <1>5, <1>6 DEF EffectsInv

\* A call under way moves on without an effect.
LEMMA CallQuiet ==
    ASSUME EffectsInv, NEW c \in Calls, w[c] \notin Resting, NEW to \in CallSteps \ {"idle", "govern"},
           w' = [w EXCEPT ![c] = to],
           UNCHANGED <<kind, cut, turn, pc, envelopes, policy, used, ran, searches, web, intents>>,
           finished' = finished \/ (to \in Ended /\ finished' = Append(finished, c)),
           w[c] = "await" => outcome[c] # "none",
           to \in Unrun => w[c] \in Unrun,
           outcome' = outcome \/ (to \notin Unrun /\ \E r \in {"denied", "error"} : outcome' = [outcome EXCEPT ![c] = r]),
           \/ granted' = granted
           \/ w[c] = "govern" /\ \E g \in Policies \cup {"none"} : granted' = [granted EXCEPT ![c] = g],
           WriteTier(kind[c]) => to \notin {"scope", "execute"} /\ (to = "intent" => granted'[c] = "enabled"),
           \/ lock' = lock /\ w[c] # "persist"
           \/ lock' = 0
           \/ lock' = c /\ to = "persist"
    PROVE  EffectsInv'
<1>1. /\ w \in [Calls -> CallSteps] /\ outcome \in [Calls -> {"none", "denied", "ok", "error"}]
      /\ granted \in [Calls -> Policies \cup {"none"}]
      /\ ran \subseteq Calls /\ intents \subseteq Calls /\ searches \in Nat
      /\ web \in [task : {"none", "running", "ok"}, waiters : SUBSET Calls]
  BY DEF EffectsInv, CallTypes
<1>2. /\ outcome' \in [Calls -> {"none", "denied", "ok", "error"}]
      /\ \A d \in Calls \ {c} : outcome'[d] = outcome[d]
  BY <1>1
<1>3. /\ granted' \in [Calls -> Policies \cup {"none"}]
      /\ \A d \in Calls \ {c} : granted'[d] = granted[d]
  BY <1>1
<1>4. w'[c] = to /\ \A d \in Calls \ {c} : w'[d] = w[d]
  BY <1>1
<1>5. to \in Unrun => c \notin ran' /\ outcome'[c] = "none"
  BY <1>1 DEF EffectsInv, Unstarted
<1>6. WriteTier(kind[c]) => (to = "execute" \/ c \in ran' => c \in intents' /\ granted'[c] = "enabled")
  <2>1. w[c] = "govern" => c \notin ran
    BY DEF EffectsInv, Unstarted, Unrun
  <2> QED BY <1>1, <2>1 DEF EffectsInv, Authorised
<1>7. searches' <= Cardinality({d \in ran' : kind[d] = "search"})
  BY DEF EffectsInv, Counted
<1>8. Waiting'
  <2>1. \A d \in web.waiters : d \in Calls /\ d # c /\ w[d] = "await" /\ outcome[d] = "none"
    BY <1>1 DEF EffectsInv, Waiting
  <2> QED BY <1>2, <1>4, <2>1 DEF EffectsInv, Waiting
<1>9. LockHeld'
  BY <1>4 DEF EffectsInv, LockHeld
<1> HIDE DEF EffectsInv
<1> QED BY <1>1, <1>2, <1>3, <1>5, <1>6, <1>7, <1>8, <1>9, CallGoesOn

\* The gate lets a call that writes pass only if its policy is enabled.
LEMMA GateEnables ==
    ASSUME CallTypes, NEW k \in Kinds
    PROVE  /\ Row(k) \in Policies
           /\ WriteTier(k) => AsksGate(k) /\ (GateAllows(k) => Row(k) = "enabled")
BY DEF CallTypes, Row, Policies, Governed, WriteTier, AsksGate, RequiresApproval, GateAllows, DecidedApproval,
       DecidedEnabled, Kinds

LEMMA GovernStep ==
    ASSUME EffectsInv, NEW c \in Calls, Govern(c)
    PROVE  EffectsInv'
<1>0. UNCHANGED <<kind, cut, turn, pc, envelopes, policy, used, ran, searches, web, intents, finished, lock>>
  BY DEF Govern, config, gateVars, durable
<1>1. w[c] = "govern" /\ w[c] \notin Resting /\ w[c] \in Unrun /\ CallTypes
  BY DEF Govern, Resting, Unrun, EffectsInv
<1>2. kind[c] \in Kinds
  BY <1>1 DEF CallTypes
<1>3. CASE /\ outcome' = [outcome EXCEPT ![c] = "denied"] /\ w' = [w EXCEPT ![c] = "finalise"]
           /\ UNCHANGED granted
  BY <1>0, <1>1, <1>3, CallQuiet DEF Unrun, CallSteps, Ended
<1>4. CASE /\ AsksGate(kind[c]) => GateAllows(kind[c])
           /\ granted' = [granted EXCEPT ![c] = IF AsksGate(kind[c]) THEN Row(kind[c]) ELSE "none"]
           /\ w' = [w EXCEPT ![c] = IF AsksGate(kind[c]) /\ WriteTier(kind[c]) THEN "intent"
                                    ELSE IF c \in FanOut /\ RequiresCallScope(c) THEN "scope"
                                    ELSE "execute"]
           /\ UNCHANGED outcome
  <2>1. PICK to : to = IF AsksGate(kind[c]) /\ WriteTier(kind[c]) THEN "intent"
                       ELSE IF c \in FanOut /\ RequiresCallScope(c) THEN "scope" ELSE "execute"
    OBVIOUS
  <2>2. PICK g : g = IF AsksGate(kind[c]) THEN Row(kind[c]) ELSE "none"
    OBVIOUS
  <2>3. g \in Policies \cup {"none"}
    BY <1>1, <1>2, <2>2, GateEnables
  <2>4. to \in {"intent", "scope", "execute"}
    BY <2>1
  <2>5. WriteTier(kind[c]) => to = "intent" /\ g = "enabled"
    BY <1>1, <1>2, <1>4, <2>1, <2>2, GateEnables
  <2>6. w' = [w EXCEPT ![c] = to] /\ granted' = [granted EXCEPT ![c] = g]
    BY <1>4, <2>1, <2>2
  <2>7. granted'[c] = g
    BY <1>1, <2>6 DEF CallTypes
  <2>8. to \in CallSteps \ {"idle", "govern"}
    BY <2>4 DEF CallSteps
  <2>9. WriteTier(kind[c]) => to \notin {"scope", "execute"} /\ (to = "intent" => granted'[c] = "enabled")
    BY <2>5, <2>7
  <2>10. outcome' = outcome /\ (\E h \in Policies \cup {"none"} : granted' = [granted EXCEPT ![c] = h])
    BY <1>4, <2>3, <2>6
  <2> QED BY <1>0, <1>1, <2>6, <2>8, <2>9, <2>10, CallQuiet
<1> QED BY <1>3, <1>4 DEF Govern

\* The steps of a call that have no effect.
LEMMA QuietCallStep ==
    ASSUME EffectsInv, NEW c \in Calls,
           \/ StopWorker(c) \/ GateUnreadable(c) \/ IntentFails(c) \/ EnterScope(c) \/ ScopeFails(c)
           \/ TakeSearch(c) \/ LeaveScope(c) \/ Refuse(c) \/ TakeLock(c) \/ Persist(c)
           \/ PersistFails(c) \/ PersistCancelled(c)
    PROVE  EffectsInv'
<1>1. CASE \/ StopWorker(c) \/ IntentFails(c) \/ ScopeFails(c) \/ Refuse(c)
  <2>1. /\ UNCHANGED <<kind, cut, turn, pc, envelopes, policy, used, ran, searches, web, intents, outcome, granted, lock>>
        /\ w' = [w EXCEPT ![c] = "raised"] /\ w[c] \in {"govern", "intent", "scope", "finalise", "cancelled"}
        /\ finished' = finished \/ finished' = Append(finished, c)
    BY <1>1 DEF StopWorker, IntentFails, ScopeFails, Refuse, Left, config, gateVars, durable, history
  <2> QED BY <2>1, CallQuiet DEF CallSteps, Unrun, Ended, Resting
<1>2. CASE GateUnreadable(c)
  <2>1. /\ UNCHANGED <<kind, cut, turn, pc, envelopes, policy, used, ran, searches, web, intents, granted, lock, finished>>
        /\ w' = [w EXCEPT ![c] = "finalise"] /\ w[c] = "govern" /\ outcome' = [outcome EXCEPT ![c] = "denied"]
    BY <1>2 DEF GateUnreadable, config, gateVars, durable, history
  <2> QED BY <2>1, CallQuiet DEF CallSteps, Unrun, Ended, Resting
<1>3. CASE EnterScope(c)
  <2>1. /\ UNCHANGED <<kind, cut, turn, pc, envelopes, policy, used, ran, searches, web, intents, outcome, granted, lock, finished>>
        /\ w' = [w EXCEPT ![c] = "execute"] /\ w[c] = "scope"
    BY <1>3 DEF EnterScope, config, gateVars, durable, history
  <2>2. ~WriteTier(kind[c])
    BY <2>1 DEF EffectsInv, Authorised
  <2> QED BY <2>1, <2>2, CallQuiet DEF CallSteps, Unrun, Ended, Resting
<1>4. CASE TakeSearch(c) \/ LeaveScope(c)
  <2>1. /\ UNCHANGED <<kind, cut, turn, pc, envelopes, policy, used, ran, searches, web, intents, outcome, granted, lock, finished>>
        /\ \/ w' = [w EXCEPT ![c] = "closing"] /\ w[c] = "await" /\ outcome[c] # "none"
           \/ w' = [w EXCEPT ![c] = "finalise"] /\ w[c] = "closing"
    BY <1>4 DEF TakeSearch, LeaveScope, config, gateVars, durable, history
  <2>2. PICK to \in {"closing", "finalise"} : w' = [w EXCEPT ![c] = to]
    BY <2>1
  <2> QED BY <2>1, <2>2, CallQuiet DEF CallSteps, Unrun, Ended, Resting
<1>5. CASE TakeLock(c)
  <2>1. /\ UNCHANGED <<kind, cut, turn, pc, envelopes, policy, used, ran, searches, web, intents, outcome, granted, finished>>
        /\ w' = [w EXCEPT ![c] = "persist"] /\ w[c] = "finalise" /\ lock' = c
    BY <1>5 DEF TakeLock, config, durable, history
  <2> QED BY <2>1, CallQuiet DEF CallSteps, Unrun, Ended, Resting
<1>6. CASE Persist(c) \/ PersistFails(c)
  <2>1. /\ UNCHANGED <<kind, cut, turn, pc, envelopes, policy, used, ran, searches, web, intents, outcome, granted>>
        /\ w[c] = "persist" /\ lock' = 0 /\ (finished' = finished \/ finished' = Append(finished, c))
        /\ w' = [w EXCEPT ![c] = "done"] \/ w' = [w EXCEPT ![c] = "raised"]
    BY <1>6 DEF Persist, PersistFails, Left, Advance, config, history
  <2>2. PICK to \in Ended : w' = [w EXCEPT ![c] = to]
    BY <2>1 DEF Ended
  <2> QED BY <2>1, <2>2, CallQuiet DEF CallSteps, Unrun, Ended, Resting
<1>7. CASE PersistCancelled(c)
  <2>1. /\ UNCHANGED <<kind, cut, turn, pc, envelopes, policy, used, ran, searches, web, intents, granted, finished, lock>>
        /\ w' = [w EXCEPT ![c] = "raised"] /\ w[c] = "cancelled" /\ outcome' = [outcome EXCEPT ![c] = "error"]
    BY <1>7 DEF PersistCancelled, config, history
  <2> QED BY <2>1, CallQuiet DEF CallSteps, Unrun, Ended, Resting
<1> QED BY <1>1, <1>2, <1>3, <1>4, <1>5, <1>6, <1>7

\* One call more has run.
LEMMA RanGrows ==
    ASSUME CallTypes, Counted, NEW c \in Calls, c \notin ran
    PROVE  /\ searches <= Cardinality({d \in ran \cup {c} : kind[d] = "search"})
           /\ kind[c] = "search" => searches + 1 <= Cardinality({d \in ran \cup {c} : kind[d] = "search"})
<1> DEFINE S == {d \in ran : kind[d] = "search"}
           T == {d \in ran \cup {c} : kind[d] = "search"}
<1>1. searches \in Nat /\ S \subseteq Calls /\ c \notin S /\ searches <= Cardinality(S)
  BY DEF CallTypes, Counted
<1>2. IsFiniteSet(S)
  BY <1>1, FanOutIs, FS_Subset
<1>3. Cardinality(S) \in Nat
  BY <1>2, FS_CardinalityType
<1>4. CASE kind[c] = "search"
  <2>1. T = S \cup {c}
    BY <1>4
  <2>2. Cardinality(T) = Cardinality(S) + 1
    BY <1>1, <1>2, <2>1, FS_AddElement
  <2> QED BY <1>1, <1>3, <1>4, <2>2
<1>5. CASE kind[c] # "search"
  <2>1. T = S
    BY <1>5
  <2> QED BY <1>1, <1>5, <2>1
<1> QED BY <1>4, <1>5

LEMMA IntentStep ==
    ASSUME EffectsInv, NEW c \in Calls, Intent(c)
    PROVE  EffectsInv'
<1>1. /\ UNCHANGED <<kind, cut, turn, pc, envelopes, policy, used, ran, searches, web, outcome, granted, lock, finished>>
      /\ w' = [w EXCEPT ![c] = "execute"] /\ w[c] = "intent" /\ intents' = intents \cup {c}
  BY DEF Intent, config, gateVars, history
<1>2. /\ outcome \in [Calls -> {"none", "denied", "ok", "error"}] /\ granted \in [Calls -> Policies \cup {"none"}]
      /\ ran \subseteq Calls /\ intents' \subseteq Calls /\ searches \in Nat /\ w \in [Calls -> CallSteps]
      /\ web \in [task : {"none", "running", "ok"}, waiters : SUBSET Calls]
  BY <1>1 DEF EffectsInv, CallTypes
<1>3. c \notin ran /\ outcome[c] = "none"
  BY <1>1 DEF EffectsInv, Unstarted, Unrun
<1>4. WriteTier(kind[c]) => granted[c] = "enabled"
  BY <1>1 DEF EffectsInv, Authorised
<1>5. \A d \in Calls : d # c => w'[d] = w[d]
  BY <1>1, <1>2
<1>6. Waiting' /\ LockHeld'
  BY <1>1, <1>2, <1>5 DEF EffectsInv, Waiting, LockHeld
<1>7. searches' <= Cardinality({d \in ran' : kind[d] = "search"})
  BY <1>1 DEF EffectsInv, Counted
<1>8. "execute" \in CallSteps \ {"idle", "govern"} /\ w[c] \notin Resting
  BY <1>1 DEF CallSteps, Resting
<1>9. \A d \in Calls \ {c} : d \in intents' <=> d \in intents
  BY <1>1
<1>10. WriteTier(kind[c]) => c \in intents' /\ granted'[c] = "enabled"
  BY <1>1, <1>4
<1> HIDE DEF EffectsInv
<1> QED BY <1>1, <1>2, <1>3, <1>6, <1>7, <1>8, <1>9, <1>10, CallGoesOn

LEMMA ExecuteStep ==
    ASSUME EffectsInv, NEW c \in Calls, Execute(c)
    PROVE  EffectsInv'
<1>1. /\ UNCHANGED <<kind, cut, turn, pc, envelopes, policy, used, searches, web, intents, granted, lock, finished>>
      /\ w' = [w EXCEPT ![c] = "closing"] /\ w[c] = "execute" /\ ran' = ran \cup {c}
  BY DEF Execute, config, gateVars, durable
<1>2. PICK r \in {"ok", "error"} : outcome' = [outcome EXCEPT ![c] = r]
  BY DEF Execute
<1>3. /\ outcome \in [Calls -> {"none", "denied", "ok", "error"}] /\ granted \in [Calls -> Policies \cup {"none"}]
      /\ ran' \subseteq Calls /\ intents \subseteq Calls /\ searches \in Nat /\ w \in [Calls -> CallSteps]
      /\ web \in [task : {"none", "running", "ok"}, waiters : SUBSET Calls]
  BY <1>1 DEF EffectsInv, CallTypes
<1>4. /\ outcome' \in [Calls -> {"none", "denied", "ok", "error"}]
      /\ \A d \in Calls \ {c} : outcome'[d] = outcome[d] /\ w'[d] = w[d]
  BY <1>1, <1>2, <1>3
<1>5. c \notin ran
  BY <1>1 DEF EffectsInv, Unstarted, Unrun
<1>6. WriteTier(kind[c]) => c \in intents /\ granted[c] = "enabled"
  BY <1>1 DEF EffectsInv, Authorised
<1>7. Waiting' /\ LockHeld'
  BY <1>1, <1>3, <1>4 DEF EffectsInv, Waiting, LockHeld
<1>8. searches' <= Cardinality({d \in ran' : kind[d] = "search"})
  BY <1>1, <1>5, RanGrows DEF EffectsInv
<1>9. "closing" \in CallSteps \ {"idle", "govern"} /\ w[c] \notin Resting /\ "closing" \notin Unrun
  BY <1>1 DEF CallSteps, Resting, Unrun
<1>10. \A d \in Calls \ {c} : d \in ran' <=> d \in ran
  BY <1>1
<1> HIDE DEF EffectsInv
<1> QED BY <1>1, <1>3, <1>4, <1>6, <1>7, <1>8, <1>9, <1>10, CallGoesOn

LEMMA JoinStep ==
    ASSUME EffectsInv, NEW c \in Calls, JoinSearch(c)
    PROVE  EffectsInv'
<1>1. /\ UNCHANGED <<kind, cut, turn, pc, envelopes, policy, used, intents, granted, lock, finished>>
      /\ w' = [w EXCEPT ![c] = "await"] /\ w[c] = "execute" /\ kind[c] = "search" /\ ran' = ran \cup {c}
      /\ web' = IF web.task = "ok" THEN web ELSE [task |-> "running", waiters |-> web.waiters \cup {c}]
      /\ outcome' = IF web.task = "ok" THEN [outcome EXCEPT ![c] = "ok"] ELSE outcome
      /\ searches' = IF web.task = "none" THEN searches + 1 ELSE searches
  BY DEF JoinSearch, config, gateVars, durable
<1>2. /\ outcome \in [Calls -> {"none", "denied", "ok", "error"}] /\ granted \in [Calls -> Policies \cup {"none"}]
      /\ ran' \subseteq Calls /\ intents \subseteq Calls /\ searches \in Nat /\ w \in [Calls -> CallSteps]
      /\ web \in [task : {"none", "running", "ok"}, waiters : SUBSET Calls]
  BY <1>1 DEF EffectsInv, CallTypes
<1>3. /\ outcome' \in [Calls -> {"none", "denied", "ok", "error"}] /\ searches' \in Nat
      /\ \A d \in Calls \ {c} : outcome'[d] = outcome[d] /\ w'[d] = w[d]
  BY <1>1, <1>2
<1>4. web' \in [task : {"none", "running", "ok"}, waiters : SUBSET Calls]
  BY <1>1, <1>2
<1>5. c \notin ran /\ outcome[c] = "none"
  BY <1>1 DEF EffectsInv, Unstarted, Unrun
<1>6. ~WriteTier(kind[c])
  BY <1>1 DEF WriteTier
<1>7. w'[c] = "await"
  BY <1>1, <1>2
<1>8. Waiting'
  <2>1. \A d \in web.waiters : d \in Calls \ {c} /\ w[d] = "await" /\ outcome[d] = "none"
    BY <1>1, <1>2 DEF EffectsInv, Waiting
  <2>2. CASE web.task = "ok"
    BY <1>1, <1>3, <2>1, <2>2 DEF EffectsInv, Waiting
  <2>3. CASE web.task # "ok"
    <3>1. outcome' = outcome /\ web'.waiters = web.waiters \cup {c}
      BY <1>1, <2>3
    <3> QED BY <1>3, <1>5, <1>7, <2>1, <3>1 DEF Waiting
  <2> QED BY <2>2, <2>3
<1>9. LockHeld'
  BY <1>1, <1>2, <1>3 DEF EffectsInv, LockHeld
<1>10. searches' <= Cardinality({d \in ran' : kind[d] = "search"})
  BY <1>1, <1>5, RanGrows DEF EffectsInv
<1>11. "await" \in CallSteps \ {"idle", "govern"} /\ w[c] \notin Resting /\ "await" \notin Unrun
  BY <1>1 DEF CallSteps, Resting, Unrun
<1>12. \A d \in Calls \ {c} : d \in ran' <=> d \in ran
  BY <1>1
<1> HIDE DEF EffectsInv
<1> QED BY <1>1, <1>2, <1>3, <1>4, <1>6, <1>8, <1>9, <1>10, <1>11, <1>12, CallGoesOn

\* Whoever leaves the search, the last one ends it.
LEMMA SearchLeft ==
    ASSUME CallTypes, NEW S
    PROVE  /\ LeaveSearch(S) \in [task : {"none", "running", "ok"}, waiters : SUBSET Calls]
           /\ LeaveSearch(S).waiters \subseteq web.waiters \ S
           /\ LeaveSearch(S).task = "running" => LeaveSearch(S).waiters # {}
<1>1. web \in [task : {"none", "running", "ok"}, waiters : SUBSET Calls]
  BY DEF CallTypes
<1>2. CASE web.waiters \ S = {} /\ web.task = "running"
  BY <1>2 DEF LeaveSearch, NoSearch
<1>3. CASE ~(web.waiters \ S = {} /\ web.task = "running")
  <2>1. PICK v : v = [web EXCEPT !.waiters = web.waiters \ S]
    OBVIOUS
  <2>2. LeaveSearch(S) = v
    BY <1>3, <2>1 DEF LeaveSearch
  <2>3. v \in [task : {"none", "running", "ok"}, waiters : SUBSET Calls] /\ v.waiters = web.waiters \ S /\ v.task = web.task
    BY <1>1, <2>1
  <2> QED BY <1>3, <2>2, <2>3
<1> QED BY <1>2, <1>3

LEMMA InterruptSerialStep ==
    ASSUME EffectsInv, NEW c \in Calls, InterruptSerial(c)
    PROVE  EffectsInv'
<1>1. /\ UNCHANGED <<kind, cut, turn, pc, envelopes, policy, used, searches, intents, granted, outcome, finished>>
      /\ w[c] \in {"govern", "intent", "execute", "await", "finalise", "persist"}
      /\ ran' = (IF w[c] = "execute" /\ kind[c] # "search" THEN ran \cup {c} ELSE ran)
      /\ web' = LeaveSearch({c}) /\ (IF w[c] = "persist" THEN lock' = 0 ELSE lock' = lock)
  BY DEF InterruptSerial, Advance, config, durable
<1>2. PICK to \in {"cancelled", "raised"} : w' = [w EXCEPT ![c] = to]
  BY DEF InterruptSerial
<1>3. /\ outcome \in [Calls -> {"none", "denied", "ok", "error"}] /\ granted \in [Calls -> Policies \cup {"none"}]
      /\ ran' \subseteq Calls /\ intents \subseteq Calls /\ searches \in Nat /\ w \in [Calls -> CallSteps]
      /\ CallTypes /\ ran \subseteq Calls
  BY <1>1 DEF EffectsInv, CallTypes
<1>4. \A d \in Calls \ {c} : w'[d] = w[d]
  BY <1>2, <1>3
<1>5. /\ web' \in [task : {"none", "running", "ok"}, waiters : SUBSET Calls]
      /\ web'.waiters \subseteq web.waiters \ {c} /\ (web'.task = "running" => web'.waiters # {})
  BY <1>1, <1>3, SearchLeft
<1>6. WriteTier(kind[c]) => (c \in ran' => c \in intents /\ granted[c] = "enabled")
  BY <1>1 DEF EffectsInv, Authorised
<1>7. Waiting'
  <2>1. \A d \in web'.waiters : d \in Calls \ {c} /\ w[d] = "await" /\ outcome[d] = "none"
    BY <1>5 DEF EffectsInv, Waiting
  <2> QED BY <1>1, <1>4, <1>5, <2>1 DEF Waiting
<1>8. LockHeld'
  BY <1>1, <1>4 DEF EffectsInv, LockHeld
<1>9. searches' <= Cardinality({d \in ran' : kind[d] = "search"})
  <2>1. CASE w[c] = "execute" /\ kind[c] # "search"
    <3>1. c \notin ran
      BY <2>1 DEF EffectsInv, Unstarted, Unrun
    <3> QED BY <1>1, <2>1, <3>1, RanGrows DEF EffectsInv
  <2>2. CASE ~(w[c] = "execute" /\ kind[c] # "search")
    BY <1>1, <2>2 DEF EffectsInv, Counted
  <2> QED BY <2>1, <2>2
<1>10. to \in CallSteps \ {"idle", "govern"} /\ w[c] \notin Resting /\ to \notin Unrun /\ to \notin {"scope", "intent", "execute"}
  BY <1>1, <1>2 DEF CallSteps, Resting, Unrun
<1>11. \A d \in Calls \ {c} : d \in ran' <=> d \in ran
  BY <1>1
<1> HIDE DEF EffectsInv
<1> QED BY <1>1, <1>2, <1>3, <1>5, <1>6, <1>7, <1>8, <1>9, <1>10, <1>11, CallGoesOn

BatchSteps == {"turn", "calls", "collect", "cancel", "abort", "gather", "serial", "run", "answer", "end"}

\* The coroutine moves on, and the calls stay where they are.
LEMMA BatchMoves ==
    ASSUME EffectsInv, UNCHANGED <<kind, cut, turn, used, searches, w, outcome, granted, ran, intents, web, lock>>,
           policy' \in [Governed -> Policies], finished' \in Seq(Calls), envelopes' \in Seq(Envelopes),
           pc' \in BatchSteps, pc' \notin {"turn", "answer", "end"} => turn # 0, Phase'
    PROVE  EffectsInv'
<1>1. CallTypes' /\ Unstarted' /\ Authorised' /\ Waiting' /\ LockHeld'
  BY DEF EffectsInv, CallTypes, Unstarted, Authorised, Waiting, LockHeld
<1>2. Counted'
  <2>1. Begun' = Begun
    BY TurnStays
  <2> QED BY <2>1 DEF EffectsInv, Counted
<1>3. envelopes' \in Seq(Envelopes)'
  BY DEF Envelopes
<1> QED BY <1>1, <1>2, <1>3 DEF EffectsInv, BatchSteps

\* It comes to a point where no call is under way.
LEMMA BatchRests ==
    ASSUME EffectsInv, \A c \in Calls : w[c] \in Resting, pc' \in {"turn", "answer", "end"},
           UNCHANGED <<kind, cut, turn, used, searches, w, outcome, granted, ran, intents, web, lock, policy, envelopes>>,
           finished' = finished \/ finished' = <<>>
    PROVE  EffectsInv'
<1>1. Phase'
  <2>1. \A c \in Calls : Shown(c)' <=> Shown(c)
    BY DEF Shown
  <2>2. \A i \in DOMAIN finished' : w'[finished'[i]] \in Ended
    BY DEF EffectsInv, Phase
  <2> QED BY <2>1, <2>2 DEF EffectsInv, Phase
<1>2. finished' \in Seq(Calls) /\ envelopes' \in Seq(Envelopes) /\ policy' \in [Governed -> Policies]
  <2>1. <<>> \in Seq(Calls) /\ finished \in Seq(Calls) /\ envelopes \in Seq(Envelopes) /\ policy \in [Governed -> Policies]
    BY DEF EffectsInv, CallTypes
  <2> QED BY <2>1
<1> HIDE DEF EffectsInv
<1> QED BY <1>1, <1>2, BatchMoves DEF BatchSteps

\* The environment's steps, and those that end the answer or its tool phase.
LEMMA RestingSteps ==
    ASSUME EffectsInv, NoticeStop \/ Commit \/ RejectContext \/ RuntimeFails \/ Gather
    PROVE  EffectsInv'
<1>1. /\ UNCHANGED <<kind, cut, turn, used, searches, w, outcome, granted, ran, intents, web, lock, policy, envelopes, finished>>
      /\ pc' = "end"
  BY DEF NoticeStop, Commit, RejectContext, RuntimeFails, Gather, Ends, config, gateVars, history
<1>2. \A c \in Calls : w[c] \in Resting
  <2>1. CASE pc \in {"turn", "calls", "serial", "answer"}
    BY <2>1 DEF EffectsInv, Phase
  <2>2. CASE Gather
    BY <2>2 DEF Gather, EffectsInv, Phase, Resting
  <2> QED BY <2>1, <2>2 DEF NoticeStop, Commit, RejectContext, RuntimeFails
<1> QED BY <1>1, <1>2, BatchRests

LEMMA AsideSteps ==
    ASSUME EffectsInv, SetPolicy \/ Stop \/ Interrupt \/ Abort
    PROVE  EffectsInv'
<1>1. /\ UNCHANGED <<kind, cut, turn, used, searches, w, outcome, granted, ran, intents, web, lock, envelopes, finished>>
      /\ \/ pc' = pc
         \/ pc \in {"collect", "cancel", "abort", "gather"} /\ pc' \in {"cancel", "gather"}
  BY DEF SetPolicy, Stop, Interrupt, Abort, config, gateVars, durable, history
<1>2. policy' \in [Governed -> Policies]
  <2>1. policy \in [Governed -> Policies]
    BY DEF EffectsInv, CallTypes
  <2> QED BY <2>1 DEF SetPolicy, Stop, Interrupt, Abort
<1>3. Phase'
  <2>1. TurnCalls' = TurnCalls /\ FanOut' = FanOut /\ Serial' = Serial /\ \A c \in Calls : Shown(c)' <=> Shown(c)
    BY <1>1, TurnStays DEF Shown
  <2>2. CASE pc' = pc
    BY <1>1, <2>2 DEF EffectsInv, Phase, Shown, TurnCalls, FanOut, Serial, Safe, ConcurrencySafe
  <2>3. CASE pc \in {"collect", "cancel", "abort", "gather"} /\ pc' \in {"cancel", "gather"}
    BY <1>1, <2>1, <2>3 DEF EffectsInv, Phase
  <2> QED BY <1>1, <2>2, <2>3
<1>4. /\ pc' \in BatchSteps /\ finished' \in Seq(Calls) /\ envelopes' \in Seq(Envelopes)
      /\ pc' \notin {"turn", "answer", "end"} => turn # 0
  BY <1>1 DEF EffectsInv, BatchSteps, CallTypes, Counted
<1> HIDE DEF EffectsInv
<1> QED BY <1>1, <1>2, <1>3, <1>4, BatchMoves

LEMMA CollectStep ==
    ASSUME EffectsInv, Collect
    PROVE  EffectsInv'
<1>1. /\ UNCHANGED <<kind, cut, turn, used, searches, w, outcome, granted, ran, intents, web, lock, policy>>
      /\ pc = "collect" /\ finished # <<>>
  BY DEF Collect, config, gateVars, durable, history
<1>2. PICK c : c = Head(finished)
  OBVIOUS
<1>3. finished \in Seq(Calls) /\ envelopes \in Seq(Envelopes) /\ policy \in [Governed -> Policies]
  BY DEF EffectsInv, CallTypes
<1>4. c \in Calls /\ w[c] \in Ended
  <2>1. 1 \in DOMAIN finished /\ c = finished[1]
    BY <1>1, <1>2, <1>3
  <2> QED BY <1>3, <2>1 DEF EffectsInv, Phase
<1>5. TurnCalls' = TurnCalls /\ FanOut' = FanOut /\ Serial' = Serial
  BY <1>1, TurnStays
<1>6. turn # 0 /\ (\A d \in Calls \ FanOut : w[d] \in Resting) /\ \A d \in Serial : w[d] = "idle"
  BY <1>1 DEF EffectsInv, Phase, Counted
<1>7. CASE pc' = "cancel" /\ UNCHANGED <<envelopes, finished>>
  <2>1. Phase'
    <3>1. \A d \in Calls : Shown(d)' <=> Shown(d)
      BY <1>7 DEF Shown
    <3> QED BY <1>1, <1>5, <1>6, <1>7, <3>1 DEF EffectsInv, Phase
  <2> HIDE DEF EffectsInv
  <2> QED BY <1>1, <1>3, <1>6, <1>7, <2>1, BatchMoves DEF BatchSteps
<1>8. CASE /\ envelopes' = Append(envelopes, <<"result", c>>) /\ finished' = Tail(finished)
           /\ pc' = IF \A d \in FanOut : <<"result", d>> \in Range(envelopes') THEN "serial" ELSE pc
  <2>1. <<"result", c>> \in Envelopes
    BY <1>4 DEF Envelopes
  <2>2. envelopes' \in Seq(Envelopes) /\ \A d \in Calls : Shown(d)' <=> Shown(d) \/ d = c
    <3>1. /\ envelopes' \in Seq(Envelopes)
          /\ \A d \in Calls : <<"result", d>> \in Range(envelopes') <=>
                              <<"result", d>> \in Range(envelopes) \/ <<"result", d>> = <<"result", c>>
      BY <1>3, <1>8, <2>1, ShowsOneMore
    <3> QED BY <3>1 DEF Shown
  <2>3. \A d \in Calls : Shown(d)' => w[d] \in Ended
    BY <1>4, <2>2 DEF EffectsInv, Phase
  <2>4. finished' \in Seq(Calls) /\ \A i \in DOMAIN finished' : w[finished'[i]] \in Ended
    <3>1. /\ finished' \in Seq(Calls) /\ \A i \in DOMAIN finished' : i + 1 \in DOMAIN finished /\ finished'[i] = finished[i + 1]
      BY <1>1, <1>3, <1>8
    <3> QED BY <3>1 DEF EffectsInv, Phase
  <2>5. CASE pc' = "collect"
    <3>1. Phase'
      BY <1>1, <1>5, <1>6, <2>3, <2>4, <2>5 DEF Phase
    <3> HIDE DEF EffectsInv
    <3> QED BY <1>1, <1>3, <1>6, <2>2, <2>4, <2>5, <3>1, BatchMoves DEF BatchSteps
  <2>6. CASE pc' = "serial" /\ \A d \in FanOut : Shown(d)'
    <3>1. \A d \in Calls : w[d] \in Resting
      <4>1. \A d \in FanOut : d \in Calls
        BY FanOutIs DEF EffectsInv
      <4> QED BY <1>6, <2>3, <2>6, <4>1 DEF Resting, Ended
    <3>2. Phase'
      BY <1>1, <1>5, <1>6, <2>3, <2>4, <2>6, <3>1 DEF Phase
    <3> HIDE DEF EffectsInv
    <3> QED BY <1>1, <1>3, <1>6, <2>2, <2>4, <2>6, <3>2, BatchMoves DEF BatchSteps
  <2> QED BY <1>1, <1>8, <2>5, <2>6 DEF Shown
<1> QED BY <1>2, <1>7, <1>8 DEF Collect

LEMMA EndSerialStep ==
    ASSUME EffectsInv, NEW c \in Calls, EndSerial(c)
    PROVE  EffectsInv'
<1>1. /\ UNCHANGED <<kind, cut, turn, used, searches, w, outcome, granted, ran, intents, web, lock, policy, finished>>
      /\ pc = "run" /\ c \in Serial /\ w[c] \in Ended /\ ~Shown(c)
      /\ \/ pc' = "end" /\ UNCHANGED envelopes
         \/ pc' = "serial" /\ envelopes' = Append(envelopes, <<"result", c>>)
  BY DEF EndSerial, Ends, Ended, Shown, config, gateVars, history
<1>2. PICK r \in Serial : \A d \in Calls \ {r} : w[d] \in Resting /\ (d \in Serial => w[d] = "idle" \/ Shown(d))
  BY <1>1 DEF EffectsInv, Phase
<1>3. c = r
  BY <1>1, <1>2 DEF Ended
<1>4. \A d \in Calls : w[d] \in Resting
  BY <1>1, <1>2, <1>3 DEF Ended, Resting
<1>5. finished \in Seq(Calls) /\ envelopes \in Seq(Envelopes) /\ policy \in [Governed -> Policies] /\ turn # 0
  BY <1>1 DEF EffectsInv, CallTypes, Counted
<1>6. CASE pc' = "end" /\ UNCHANGED envelopes
  BY <1>1, <1>4, <1>6, BatchRests
<1>7. CASE pc' = "serial" /\ envelopes' = Append(envelopes, <<"result", c>>)
  <2>1. <<"result", c>> \in Envelopes
    BY DEF Envelopes
  <2>2. envelopes' \in Seq(Envelopes) /\ \A d \in Calls : Shown(d)' <=> Shown(d) \/ d = c
    <3>1. /\ envelopes' \in Seq(Envelopes)
          /\ \A d \in Calls : <<"result", d>> \in Range(envelopes') <=>
                              <<"result", d>> \in Range(envelopes) \/ <<"result", d>> = <<"result", c>>
      BY <1>5, <1>7, <2>1, ShowsOneMore
    <3> QED BY <3>1 DEF Shown
  <2>3. Serial' = Serial /\ Serial \subseteq Calls
    BY <1>1, TurnStays, FanOutIs DEF EffectsInv
  <2>4. \A d \in Serial : w[d] = "idle" \/ Shown(d)'
    BY <1>2, <1>3, <2>2, <2>3
  <2>5. Phase'
    BY <1>1, <1>4, <1>7, <2>2, <2>3, <2>4 DEF EffectsInv, Phase
  <2> HIDE DEF EffectsInv
  <2> QED BY <1>1, <1>5, <1>7, <2>2, <2>5, BatchMoves DEF BatchSteps
<1> QED BY <1>1, <1>6, <1>7

\* A turn begins: its calls are counted, and none of them was made before.
LEMMA BeginTurnStep ==
    ASSUME EffectsInv, BeginTurn
    PROVE  EffectsInv'
<1> DEFINE batch == IF turn = 0 THEN 1..cut ELSE (cut + 1)..N
           outside == {c \in batch : External(kind[c])}
           before == {c \in Begun : External(kind[c])}
           ext == Cardinality(outside)
<1>1. /\ UNCHANGED <<kind, cut, policy, searches, w, outcome, granted, ran, intents, web, lock, envelopes>>
      /\ pc = "turn" /\ turn < 2 /\ finished' = <<>>
      /\ \/ pc' = "answer" /\ UNCHANGED <<turn, used>>
         \/ ~(used + ext > MaxExternal) /\ pc' = "calls" /\ turn' = turn + 1 /\ used' = used + ext
  BY DEF BeginTurn, config, gateVars, durable, history
<1>2. /\ N \in Nat /\ cut \in 1..N /\ Calls = 1..N /\ turn \in 0..1 /\ used \in Nat /\ MaxExternal \in Nat
      /\ IsFiniteSet(Calls) /\ CallTypes
  BY <1>1, FanOutIs, ToolAssumption DEF EffectsInv, CallTypes, Calls
<1>3. \A c \in Calls : w[c] \in Resting
  BY <1>1 DEF EffectsInv, Phase
<1>4. CASE pc' = "answer" /\ UNCHANGED <<turn, used>>
  BY <1>1, <1>3, <1>4, BatchRests
<1>5. CASE ~(used + ext > MaxExternal) /\ pc' = "calls" /\ turn' = turn + 1 /\ used' = used + ext
  <2>1. batch \subseteq Calls /\ Begun \subseteq Calls
    BY <1>2, FanOutIs
  <2>2. TurnCalls' = batch /\ Begun' = Begun \cup batch /\ \A c \in batch : c \notin Begun
    BY <1>1, <1>2, <1>5 DEF TurnCalls, Begun
  <2> HIDE DEF batch
  <2>3. IsFiniteSet(outside) /\ IsFiniteSet(before)
    BY <1>2, <2>1, FS_Subset
  <2>4. Cardinality(before) \in Nat /\ ext \in Nat /\ Cardinality(before \cap outside) \in Nat
    <3>1. IsFiniteSet(before \cap outside)
      BY <2>3, FS_Intersection
    <3> QED BY <2>3, <3>1, FS_CardinalityType
  <2>5. Cardinality(before \cup outside) <= Cardinality(before) + ext
    <3>1. Cardinality(before \cup outside) = Cardinality(before) + ext - Cardinality(before \cap outside)
      BY <2>3, FS_Union
    <3> HIDE DEF before, outside, ext
    <3> QED BY <2>4, <3>1
  <2>6. {c \in Begun' : External(kind'[c])} = before \cup outside
    BY <1>1, <2>2 DEF External
  <2>7. Cardinality(before) <= used
    BY DEF EffectsInv, Counted
  <2>8. used' \in 0..MaxExternal /\ Cardinality(before \cup outside) <= used' /\ turn' \in 1..2
    <3>1. Cardinality(before \cup outside) \in Nat
      BY <2>3, FS_Union, FS_CardinalityType
    <3> HIDE DEF before, outside, ext
    <3> QED BY <1>2, <1>5, <2>4, <2>5, <2>7, <3>1
  <2> HIDE DEF before, outside, ext
  <2>9. <<>> \in Seq(Calls)
    OBVIOUS
  <2>10. CallTypes'
    BY <1>1, <2>8, <2>9 DEF EffectsInv, CallTypes
  <2>11. Counted'
    <3>1. Cardinality({c \in Begun' : External(kind'[c])}) <= used'
      BY <2>6, <2>8
    <3>2. \A c \in Calls : w'[c] # "idle" => c \in Begun'
      BY <1>1, <2>2 DEF EffectsInv, Counted
    <3>3. turn' # 0
      BY <2>8
    <3>4. searches' <= Cardinality({c \in ran' : kind'[c] = "search"})
      BY <1>1 DEF EffectsInv, Counted
    <3> QED BY <3>1, <3>2, <3>3, <3>4 DEF Counted, External
  <2>12. Unstarted' /\ Authorised' /\ Waiting' /\ LockHeld'
    BY <1>1 DEF EffectsInv, Unstarted, Authorised, Waiting, LockHeld
  <2>13. \A c \in batch : w'[c] = "idle"
    BY <1>1, <2>1, <2>2 DEF EffectsInv, Counted
  <2>14. Phase'
    <3>1. \A c \in Calls : Shown(c)' <=> Shown(c)
      BY <1>1 DEF Shown
    <3>2. \A c \in Calls : Shown(c)' => w'[c] \in Ended
      BY <1>1, <3>1 DEF EffectsInv, Phase
    <3>3. \A i \in DOMAIN finished' : w'[finished'[i]] \in Ended
      BY <1>1
    <3> QED BY <1>1, <1>3, <1>5, <2>2, <2>13, <3>2, <3>3 DEF Phase
  <2>15. envelopes' \in Seq(Envelopes)'
    BY <1>1 DEF EffectsInv, Envelopes
  <2> QED BY <1>5, <2>10, <2>11, <2>12, <2>14, <2>15 DEF EffectsInv
<1> QED BY <1>1, <1>4, <1>5

\* The fan-out starts: its calls were idle.
LEMMA DispatchStep ==
    ASSUME EffectsInv, Dispatch
    PROVE  EffectsInv'
<1>1. /\ UNCHANGED <<kind, cut, policy, turn, used, searches, outcome, granted, ran, intents, web, lock, finished>>
      /\ pc = "calls" /\ pc' = (IF FanOut = {} THEN "serial" ELSE "collect")
      /\ w' = [c \in Calls |-> IF c \in FanOut THEN "govern" ELSE w[c]]
      /\ envelopes' = envelopes \o [i \in 1..Cardinality(FanOut) |-> <<"call", InOrder(FanOut)[i]>>]
  BY DEF Dispatch, config, durable, history
<1>2. /\ CallTypes /\ FanOut \subseteq TurnCalls /\ TurnCalls \subseteq Calls /\ IsFiniteSet(FanOut)
      /\ (\A c \in FanOut : c \notin Serial /\ kind[c] \in {"read", "search", "unknown"}) /\ Serial \subseteq TurnCalls
  BY FanOutIs DEF EffectsInv
<1>3. /\ turn # 0 /\ (\A c \in TurnCalls : w[c] = "idle") /\ (\A c \in Calls : w[c] \in Resting)
      /\ w \in [Calls -> CallSteps] /\ envelopes \in Seq(Envelopes)
  BY <1>1 DEF EffectsInv, Phase, Counted, CallTypes
<1>4. /\ w' \in [Calls -> CallSteps] /\ \A c \in Calls : w'[c] = IF c \in FanOut THEN "govern" ELSE w[c]
  BY <1>1, <1>3 DEF CallSteps
<1>5. TurnCalls' = TurnCalls /\ FanOut' = FanOut /\ Serial' = Serial /\ Begun' = Begun /\ TurnCalls \subseteq Begun
  BY <1>1, <1>2, <1>3, TurnStays, FanOutIs
<1>6. /\ envelopes' \in Seq(Envelopes) /\ \A c \in Calls : Shown(c)' => Shown(c)
  <2> DEFINE more == [i \in 1..Cardinality(FanOut) |-> <<"call", InOrder(FanOut)[i]>>]
  <2>1. Cardinality(FanOut) \in Nat
    BY <1>2, FS_CardinalityType
  <2>2. \A i \in 1..Cardinality(FanOut) : <<"call", InOrder(FanOut)[i]>> \in Envelopes
    <3>1. FanOut \in SUBSET Calls
      BY <1>2
    <3>2. \A i \in 1..Cardinality(FanOut) : InOrder(FanOut)[i] \in Calls
      BY <3>1, InOrderIs
    <3> QED BY <3>2 DEF Envelopes
  <2>3. more \in Seq(Envelopes) /\ Len(more) = Cardinality(FanOut)
    BY <2>1, <2>2
  <2>4. \A i \in 1..Len(more) : more[i] = <<"call", InOrder(FanOut)[i]>>
    BY <2>1, <2>3
  <2>5. \A i \in 1..Len(more), c \in Calls : more[i] # <<"result", c>>
    <3>1. \A x, c : <<"call", x>> # <<"result", c>>
      OBVIOUS
    <3> HIDE DEF more
    <3> QED BY <2>4, <3>1
  <2> HIDE DEF more
  <2>6. envelopes' = envelopes \o more
    BY <1>1 DEF more
  <2>7. /\ envelopes' \in Seq(Envelopes) /\ Len(envelopes') = Len(envelopes) + Len(more)
        /\ \A i \in 1..(Len(envelopes) + Len(more)) :
              envelopes'[i] = IF i <= Len(envelopes) THEN envelopes[i] ELSE more[i - Len(envelopes)]
    <3>1. envelopes \in Seq(Envelopes) /\ more \in Seq(Envelopes)
      BY <1>3, <2>3
    <3> QED BY <2>6, <3>1, ConcatProperties
  <2>8. ASSUME NEW c \in Calls, Shown(c)' PROVE Shown(c)
    <3>1. PICK i \in DOMAIN envelopes' : envelopes'[i] = <<"result", c>>
      BY <2>8 DEF Shown, Range
    <3>2. i \in 1..(Len(envelopes) + Len(more)) /\ Len(envelopes) \in Nat /\ Len(more) \in Nat
      BY <1>3, <2>3, <2>7
    <3>3. CASE i <= Len(envelopes)
      <4>1. i \in DOMAIN envelopes /\ envelopes[i] = <<"result", c>>
        BY <1>3, <2>7, <3>1, <3>2, <3>3
      <4> QED BY <4>1 DEF Shown, Range
    <3>4. CASE ~(i <= Len(envelopes))
      <4>1. i - Len(envelopes) \in 1..Len(more) /\ more[i - Len(envelopes)] = <<"result", c>>
        BY <2>7, <3>1, <3>2, <3>4
      <4> QED BY <2>5, <4>1
    <3> QED BY <3>3, <3>4
  <2> QED BY <2>7, <2>8
<1>7. \A c \in Calls : w[c] # "idle" => c \notin FanOut /\ w'[c] = w[c]
  BY <1>2, <1>3, <1>4
<1>8. CallTypes' /\ Counted'
  <2>1. CallTypes'
    BY <1>1, <1>4 DEF EffectsInv, CallTypes
  <2>2. \A c \in Calls : w'[c] # "idle" => c \in Begun
    BY <1>2, <1>4, <1>5 DEF EffectsInv, Counted
  <2> QED BY <1>1, <1>3, <1>5, <2>1, <2>2 DEF EffectsInv, Counted
<1>9. Unstarted'
  BY <1>1, <1>2, <1>3, <1>4 DEF EffectsInv, Unstarted, Unrun
<1>10. Authorised'
  <2>1. \A c \in Calls : WriteTier(kind[c]) => w'[c] = w[c]
    BY <1>2, <1>4 DEF WriteTier
  <2> QED BY <1>1, <2>1 DEF EffectsInv, Authorised
<1>11. Waiting' /\ LockHeld'
  <2>1. web.waiters \subseteq Calls
    BY DEF EffectsInv, CallTypes
  <2> QED BY <1>1, <1>7, <2>1 DEF EffectsInv, Waiting, LockHeld
<1>12. Phase'
  <2>1. \A c \in Calls : Shown(c)' => w'[c] \in Ended
    BY <1>6, <1>7 DEF EffectsInv, Phase, Ended
  <2>2. \A i \in DOMAIN finished' : w'[finished'[i]] \in Ended
    <3>1. \A i \in DOMAIN finished : finished[i] \in Calls /\ w[finished[i]] \in Ended
      BY DEF EffectsInv, Phase, CallTypes
    <3> QED BY <1>1, <1>7, <3>1 DEF Ended
  <2>3. (\A c \in Calls \ FanOut : w'[c] \in Resting) /\ \A c \in Serial : w'[c] = "idle"
    BY <1>2, <1>3, <1>4
  <2>4. CASE FanOut = {}
    BY <1>1, <1>5, <2>1, <2>2, <2>3, <2>4 DEF Phase
  <2>5. CASE FanOut # {}
    BY <1>1, <1>5, <2>1, <2>2, <2>3, <2>5 DEF Phase
  <2> QED BY <2>4, <2>5
<1>13. envelopes' \in Seq(Envelopes)' /\ pc' \in BatchSteps
  BY <1>1, <1>6 DEF Envelopes, BatchSteps
<1> QED BY <1>8, <1>9, <1>10, <1>11, <1>12, <1>13 DEF EffectsInv, BatchSteps

\* A serial call starts, and no other is under way.
LEMMA BeginSerialStep ==
    ASSUME EffectsInv, BeginSerial
    PROVE  EffectsInv'
<1> DEFINE left == {c \in Serial : w[c] = "idle"}
<1>1. /\ UNCHANGED <<kind, cut, policy, turn, used, searches, outcome, granted, ran, intents, web, lock, finished>>
      /\ pc = "serial"
      /\ \/ left = {} /\ pc' = "turn" /\ UNCHANGED <<envelopes, w>>
         \/ left # {} /\ envelopes' = Append(envelopes, <<"call", Min(left)>>)
            /\ w' = [w EXCEPT ![Min(left)] = "govern"] /\ pc' = "run"
  BY DEF BeginSerial, config, durable, history
<1>2. /\ (\A c \in Calls : w[c] \in Resting) /\ (\A c \in Serial : w[c] = "idle" \/ Shown(c)) /\ turn # 0
      /\ w \in [Calls -> CallSteps] /\ envelopes \in Seq(Envelopes) /\ CallTypes
  BY <1>1 DEF EffectsInv, Phase, Counted, CallTypes
<1>3. Serial \subseteq Calls /\ Serial \subseteq Begun /\ Calls \subseteq Nat
  BY <1>2, FanOutIs DEF Calls
<1>4. CASE left = {} /\ pc' = "turn" /\ UNCHANGED <<envelopes, w>>
  BY <1>1, <1>2, <1>4, BatchRests
<1>5. CASE left # {} /\ envelopes' = Append(envelopes, <<"call", Min(left)>>)
           /\ w' = [w EXCEPT ![Min(left)] = "govern"] /\ pc' = "run"
  <2>1. Min(left) \in left
    <3>1. left \in SUBSET Nat
      BY <1>3
    <3>2. \E x \in left : \A y \in left : x <= y
      BY <1>5, <3>1, LeastOfSet
    <3> HIDE DEF left
    <3> QED BY <3>2 DEF Min
  <2>2. PICK c \in Serial : c = Min(left) /\ w[c] = "idle"
    BY <2>1
  <2> HIDE DEF left
  <2>3. c \in Calls /\ c \in Begun
    BY <1>3
  <2>4. w' \in [Calls -> CallSteps] /\ w'[c] = "govern" /\ \A d \in Calls : d # c => w'[d] = w[d]
    BY <1>2, <1>5, <2>2, <2>3 DEF CallSteps
  <2>5. <<"call", c>> \in Envelopes
    BY <2>3 DEF Envelopes
  <2>6. envelopes' \in Seq(Envelopes) /\ \A d \in Calls : Shown(d)' <=> Shown(d)
    <3>1. /\ envelopes' \in Seq(Envelopes)
          /\ \A d \in Calls : <<"result", d>> \in Range(envelopes') <=>
                              <<"result", d>> \in Range(envelopes) \/ <<"result", d>> = <<"call", c>>
      BY <1>2, <1>5, <2>2, <2>5, ShowsOneMore
    <3> QED BY <3>1 DEF Shown
  <2>7. TurnCalls' = TurnCalls /\ FanOut' = FanOut /\ Serial' = Serial /\ Begun' = Begun
    BY <1>1, TurnStays
  <2>8. CallTypes' /\ Counted'
    <3>1. CallTypes'
      BY <1>1, <2>4 DEF EffectsInv, CallTypes
    <3>2. \A d \in Calls : w'[d] # "idle" => d \in Begun
      BY <2>3, <2>4 DEF EffectsInv, Counted
    <3> QED BY <1>1, <1>2, <2>7, <3>1, <3>2 DEF EffectsInv, Counted
  <2>9. c \notin ran /\ outcome[c] = "none" /\ ~Shown(c)
    BY <2>2, <2>3 DEF EffectsInv, Unstarted, Unrun, Phase, Ended
  <2>10. Unstarted'
    BY <1>1, <2>4, <2>9 DEF EffectsInv, Unstarted
  <2>11. Authorised'
    BY <1>1, <2>4 DEF EffectsInv, Authorised
  <2>12. Waiting' /\ LockHeld'
    <3>1. web.waiters \subseteq Calls
      BY DEF EffectsInv, CallTypes
    <3> QED BY <1>1, <2>2, <2>4, <3>1 DEF EffectsInv, Waiting, LockHeld
  <2>13. Phase'
    <3>1. \A d \in Calls : Shown(d)' => w'[d] \in Ended
      BY <2>4, <2>6, <2>9 DEF EffectsInv, Phase
    <3>2. \A i \in DOMAIN finished' : w'[finished'[i]] \in Ended
      <4>1. \A i \in DOMAIN finished : finished[i] \in Calls /\ w[finished[i]] \in Ended
        BY DEF EffectsInv, Phase, CallTypes
      <4> QED BY <1>1, <2>2, <2>4, <4>1 DEF Ended
    <3>3. \E r \in Serial : \A d \in Calls \ {r} : w'[d] \in Resting /\ (d \in Serial => w'[d] = "idle" \/ Shown(d)')
      <4>1. \A d \in Calls \ {c} : w'[d] \in Resting /\ (d \in Serial => w'[d] = "idle" \/ Shown(d)')
        BY <1>2, <2>4, <2>6
      <4> QED BY <4>1
    <3> QED BY <1>5, <2>7, <3>1, <3>2, <3>3 DEF Phase
  <2>14. envelopes' \in Seq(Envelopes)'
    BY <2>6 DEF Envelopes
  <2> QED BY <1>5, <2>8, <2>10, <2>11, <2>12, <2>13, <2>14 DEF EffectsInv
<1> HIDE DEF left
<1> QED BY <1>1, <1>4, <1>5

\* Where a cancelled worker goes.
LEMMA CancelledIs ==
    ASSUME NEW p \in CallSteps
    PROVE  /\ Cancelled(p) \in CallSteps \ {"await", "persist", "govern", "execute", "scope"}
           /\ p \in Resting => Cancelled(p) = p
           /\ Cancelled(p) \in Unrun => Cancelled(p) = p
           /\ Cancelled(p) = "idle" <=> p = "idle"
BY DEF Cancelled, CallSteps, Resting, Unrun

\* Every worker of the fan-out is cancelled: none is left with the gate or the search.
LEMMA CancelStep ==
    ASSUME EffectsInv, CancelWorkers
    PROVE  EffectsInv'
<1>1. /\ UNCHANGED <<kind, cut, policy, turn, used, searches, outcome, granted, ran, intents, finished, envelopes>>
      /\ pc = "cancel" /\ pc' = "abort" /\ web' = LeaveSearch(FanOut) /\ lock' = 0
      /\ w' = [c \in Calls |-> IF c \in FanOut THEN Cancelled(w[c]) ELSE w[c]]
  BY DEF CancelWorkers, Advance, config, durable, history
<1>2. /\ w \in [Calls -> CallSteps] /\ CallTypes /\ FanOut \subseteq Calls /\ turn # 0
      /\ \A c \in FanOut : c \notin Serial /\ kind[c] \in {"read", "search", "unknown"}
  BY <1>1, FanOutIs DEF EffectsInv, CallTypes, Counted
<1>3. /\ w' \in [Calls -> CallSteps]
      /\ \A c \in FanOut : /\ w'[c] \in CallSteps \ {"await", "persist", "govern", "execute", "scope"}
                           /\ w[c] \in Resting => w'[c] = w[c]
                           /\ w'[c] \in Unrun => w'[c] = w[c]
                           /\ w'[c] = "idle" <=> w[c] = "idle"
      /\ \A c \in Calls \ FanOut : w'[c] = w[c]
  <2>1. \A c \in Calls : w[c] \in CallSteps
    BY <1>2
  <2>2. \A c \in FanOut : w'[c] = Cancelled(w[c])
    BY <1>1, <1>2
  <2>3. \A c \in Calls \ FanOut : w'[c] = w[c]
    BY <1>1
  <2> QED BY <1>1, <1>2, <2>1, <2>2, <2>3, CancelledIs
<1>4. TurnCalls' = TurnCalls /\ FanOut' = FanOut /\ Serial' = Serial /\ Begun' = Begun
  BY <1>1, TurnStays
<1>5. /\ web' \in [task : {"none", "running", "ok"}, waiters : SUBSET Calls]
      /\ web'.waiters \subseteq web.waiters \ FanOut /\ (web'.task = "running" => web'.waiters # {})
  BY <1>1, <1>2, SearchLeft
<1>6. CallTypes' /\ Counted'
  <2>1. CallTypes'
    BY <1>1, <1>3, <1>5 DEF EffectsInv, CallTypes
  <2>2. \A d \in Calls : w'[d] # "idle" => d \in Begun
    BY <1>3 DEF EffectsInv, Counted
  <2> QED BY <1>1, <1>2, <1>4, <2>1, <2>2 DEF EffectsInv, Counted
<1>7. Unstarted'
  BY <1>1, <1>2, <1>3 DEF EffectsInv, Unstarted
<1>8. Authorised'
  <2>1. \A c \in Calls : WriteTier(kind[c]) => w'[c] = w[c]
    BY <1>2, <1>3 DEF WriteTier
  <2> QED BY <1>1, <2>1 DEF EffectsInv, Authorised
<1>9. Waiting' /\ LockHeld'
  <2>1. \A d \in web'.waiters : d \in Calls \ FanOut /\ w[d] = "await" /\ outcome[d] = "none"
    BY <1>5 DEF EffectsInv, Waiting
  <2> QED BY <1>1, <1>3, <1>5, <2>1 DEF Waiting, LockHeld
<1>10. Phase'
  <2>1. \A c \in Calls : w[c] \in Ended => w'[c] = w[c]
    BY <1>3 DEF Ended, Resting
  <2>2. \A c \in Calls : Shown(c)' => w'[c] \in Ended
    BY <1>1, <2>1 DEF EffectsInv, Phase, Shown
  <2>3. \A i \in DOMAIN finished' : w'[finished'[i]] \in Ended
    <3>1. \A i \in DOMAIN finished : finished[i] \in Calls /\ w[finished[i]] \in Ended
      BY DEF EffectsInv, Phase, CallTypes
    <3> QED BY <1>1, <2>1, <3>1
  <2>4. (\A c \in Calls \ FanOut : w'[c] \in Resting) /\ \A c \in Serial : w'[c] = "idle"
    <3>1. (\A c \in Calls \ FanOut : w[c] \in Resting) /\ (\A c \in Serial : w[c] = "idle") /\ Serial \subseteq Calls
      BY <1>1, FanOutIs DEF EffectsInv, Phase
    <3> QED BY <1>2, <1>3, <3>1
  <2> QED BY <1>1, <1>4, <2>2, <2>3, <2>4 DEF Phase
<1>11. envelopes' \in Seq(Envelopes)'
  BY <1>1 DEF EffectsInv, Envelopes
<1> QED BY <1>1, <1>6, <1>7, <1>8, <1>9, <1>10, <1>11 DEF EffectsInv

\* The shared search ends for all who wait for it.
LEMMA SearchEndsStep ==
    ASSUME EffectsInv, SearchEnds
    PROVE  EffectsInv'
<1>1. UNCHANGED <<kind, cut, policy, turn, used, searches, granted, ran, intents, finished, envelopes, pc, w, lock>>
  BY DEF SearchEnds, config, gateVars, durable, history
<1>2. PICK r \in {"ok", "error"} :
         /\ outcome' = [c \in Calls |-> IF c \in web.waiters THEN r ELSE outcome[c]]
         /\ web' = IF r = "ok" THEN [task |-> "ok", waiters |-> {}] ELSE NoSearch
  BY DEF SearchEnds
<1>3. outcome \in [Calls -> {"none", "denied", "ok", "error"}]
  BY DEF EffectsInv, CallTypes
<1>4. /\ outcome' \in [Calls -> {"none", "denied", "ok", "error"}]
      /\ \A c \in Calls : c \notin web.waiters => outcome'[c] = outcome[c]
  BY <1>2, <1>3
<1>5. /\ web' \in [task : {"none", "running", "ok"}, waiters : SUBSET Calls]
      /\ web'.waiters = {} /\ web'.task # "running"
  BY <1>2 DEF NoSearch
<1>6. CallTypes' /\ Authorised' /\ LockHeld'
  BY <1>1, <1>4, <1>5 DEF EffectsInv, CallTypes, Authorised, LockHeld
<1>7. Counted'
  <2>1. Begun' = Begun
    BY <1>1, TurnStays
  <2> QED BY <1>1, <2>1 DEF EffectsInv, Counted
<1>8. Unstarted'
  BY <1>1, <1>4 DEF EffectsInv, Unstarted, Waiting, Unrun
<1>9. Waiting'
  BY <1>5 DEF Waiting
<1>10. Phase'
  BY <1>1 DEF EffectsInv, Phase, Shown, TurnCalls, FanOut, Serial, Safe, ConcurrencySafe
<1>11. envelopes' \in Seq(Envelopes)'
  BY <1>1 DEF EffectsInv, Envelopes
<1> QED BY <1>1, <1>6, <1>7, <1>8, <1>9, <1>10, <1>11 DEF EffectsInv

LEMMA EffectsInitial == ToolInit => EffectsInv
<1> SUFFICES ASSUME ToolInit PROVE EffectsInv
  OBVIOUS
<1>0. N \in Nat \ {0} /\ MaxExternal \in Nat /\ Plans \subseteq [Calls -> Kinds]
  BY ToolAssumption, PlansAssumption
<1>1. \A c \in Calls : w[c] = "idle" /\ outcome[c] = "none"
  BY DEF ToolInit
<1>2. CallTypes
  <2>1. w \in [Calls -> CallSteps] /\ outcome \in [Calls -> {"none", "denied", "ok", "error"}]
    BY DEF ToolInit, CallSteps
  <2>2. granted \in [Calls -> Policies \cup {"none"}] /\ finished \in Seq(Calls)
    BY DEF ToolInit
  <2>3. web \in [task : {"none", "running", "ok"}, waiters : SUBSET Calls]
    BY DEF ToolInit, NoSearch
  <2> QED BY <1>0, <2>1, <2>2, <2>3 DEF ToolInit, CallTypes
<1>3. Counted
  <2>1. Begun = {} /\ ran = {}
    BY DEF ToolInit, Begun
  <2>2. {c \in Begun : External(kind[c])} = {} /\ {c \in ran : kind[c] = "search"} = {}
    BY <2>1
  <2>3. used = 0 /\ searches = 0 /\ pc = "turn"
    BY DEF ToolInit
  <2>4. Cardinality({}) = 0
    BY FS_EmptySet
  <2>5. /\ Cardinality({c \in Begun : External(kind[c])}) <= used
        /\ searches <= Cardinality({c \in ran : kind[c] = "search"})
    <3>1. PICK A, E : A = {c \in Begun : External(kind[c])} /\ E = {c \in ran : kind[c] = "search"}
      OBVIOUS
    <3>2. Cardinality(A) = 0 /\ Cardinality(E) = 0
      BY ONLY <2>2, <2>4, <3>1
    <3>3. Cardinality(A) <= used /\ searches <= Cardinality(E)
      BY ONLY <2>3, <3>2
    <3> QED BY ONLY <3>1, <3>3
  <2> QED BY <1>1, <2>3, <2>5 DEF Counted
<1>4. Unstarted /\ Authorised
  BY <1>1 DEF ToolInit, Unstarted, Authorised
<1>5. Waiting /\ LockHeld
  BY DEF ToolInit, Waiting, LockHeld, NoSearch
<1>6. Phase
  <2>1. \A c \in Calls : ~Shown(c)
    BY DEF ToolInit, Shown, Range
  <2>2. \A i \in DOMAIN finished : w[finished[i]] \in Ended
    BY DEF ToolInit
  <2> QED BY <1>1, <2>1, <2>2 DEF ToolInit, Phase, Resting
<1>7. envelopes \in Seq(Envelopes) /\ pc = "turn"
  BY DEF ToolInit
<1> QED BY <1>2, <1>3, <1>4, <1>5, <1>6, <1>7 DEF EffectsInv

LEMMA EffectsStep == EffectsInv /\ [ToolNext]_toolVars => EffectsInv'
<1> SUFFICES ASSUME EffectsInv, [ToolNext]_toolVars PROVE EffectsInv'
  OBVIOUS
<1>1. CASE UNCHANGED toolVars
  <2>1. UNCHANGED <<kind, cut, turn, used, searches, w, outcome, granted, ran, intents, web, lock, policy, finished, envelopes, pc>>
    BY <1>1 DEF toolVars, config, gateVars, durable, history
  <2>2. Phase'
    BY <2>1 DEF EffectsInv, Phase, Shown, TurnCalls, FanOut, Serial, Safe, ConcurrencySafe
  <2>3. /\ policy' \in [Governed -> Policies] /\ finished' \in Seq(Calls) /\ envelopes' \in Seq(Envelopes)
        /\ pc' \in BatchSteps /\ (pc' \notin {"turn", "answer", "end"} => turn # 0)
    BY <2>1 DEF EffectsInv, CallTypes, Counted, BatchSteps
  <2> HIDE DEF EffectsInv
  <2> QED BY <2>1, <2>2, <2>3, BatchMoves
<1>2. CASE SetPolicy \/ Stop \/ Interrupt \/ RuntimeFails \/ Runtime
  BY <1>2, AsideSteps, RestingSteps, CollectStep, BeginTurnStep, DispatchStep, BeginSerialStep, CancelStep,
     SearchEndsStep DEF Runtime
<1>3. CASE \E c \in Calls : Call(c)
  <2>1. PICK c \in Calls : Call(c)
    BY <1>3
  <2> QED BY <2>1, GovernStep, QuietCallStep, IntentStep, ExecuteStep, JoinStep, InterruptSerialStep, EndSerialStep DEF Call
<1> QED BY <1>1, <1>2, <1>3 DEF ToolNext

\* A tool call has no effect beyond what the answer was allowed (EffectsAreContained):
\* whatever the calls of a batch do side by side, and however the policy changes, calls
\* fail, are stopped or interrupted meanwhile, a handler that writes has run under a
\* policy that allowed it with its intent on record, external calls stay within the
\* answer's budget, and when the answer ends no worker, write or search is left.
THEOREM EffectsContained == ToolSpec => []EffectsAreContained
<1>1. EffectsInv => EffectsAreContained
  <2> SUFFICES ASSUME EffectsInv PROVE EffectsAreContained
    OBVIOUS
  <2>1. EffectsAuthorised
    BY DEF EffectsInv, Authorised, EffectsAuthorised, CallTypes
  <2>2. ExternalWithinBudget
    <3> DEFINE inside == {c \in ran : External(kind[c])}
               counted == {c \in Begun : External(kind[c])}
    <3>1. inside \subseteq counted /\ counted \subseteq Calls
      <4>1. \A c \in ran : c \in Calls /\ c \in Begun
        BY DEF EffectsInv, CallTypes, Unstarted, Unrun, Counted
      <4>2. Begun \subseteq Calls
        BY FanOutIs DEF EffectsInv
      <4> QED BY <4>1, <4>2
    <3>2. IsFiniteSet(counted)
      BY <3>1, FanOutIs, FS_Subset DEF EffectsInv
    <3>3. Cardinality(inside) <= Cardinality(counted) /\ IsFiniteSet(inside)
      BY <3>1, <3>2, FS_Subset
    <3>4. Cardinality(counted) \in Nat /\ Cardinality(inside) \in Nat
      BY <3>2, <3>3, FS_CardinalityType
    <3>5. Cardinality(counted) <= used /\ used \in 0..MaxExternal /\ MaxExternal \in Nat
      BY ToolAssumption DEF EffectsInv, Counted, CallTypes
    <3> HIDE DEF counted
    <3>6. Cardinality(inside) <= MaxExternal
      BY <3>3, <3>4, <3>5
    <3> QED BY <3>6 DEF EffectsInv, Counted, ExternalWithinBudget
  <2>3. NothingOutlives
    <3>1. web.waiters \subseteq Calls
      BY DEF EffectsInv, CallTypes
    <3> QED BY <3>1 DEF EffectsInv, Waiting, LockHeld, Phase, NothingOutlives, Resting
  <2> QED BY <2>1, <2>2, <2>3 DEF EffectsAreContained
<1> QED BY <1>1, EffectsInitial, EffectsStep, PTL DEF ToolSpec

-----------------------------------------------------------------------------
(* The trace of an answer.  Ordinals are claimed in call order and the gate     *)
(* lets one call through at a time, so that the trace is in their order         *)
(* (Recorded); what has ended without raising continues what was shown along    *)
(* the trace (Continues), so that what is shown next is what was recorded next. *)

Made == {c \in Calls : w[c] # "idle"}
Asked(c) == <<"call", c>> \in Range(envelopes)
Quiet == {"turn", "calls", "serial", "answer"}

\* The calls that were made hold the ordinals up to claimed, each its own.
Tickets ==
    /\ ordinal \in [Calls -> Nat] /\ claimed \in Nat /\ claimed = Cardinality(Made)
    /\ \A c \in Made : ordinal[c] < claimed
    /\ \A c, d \in Made : ordinal[c] = ordinal[d] => c = d
    /\ \A k \in Nat : k < claimed => \E c \in Made : ordinal[c] = k

\* The gate is held by the call whose turn it is.
Gated ==
    /\ next \in Nat /\ next <= claimed
    /\ lock # 0 => lock \in Calls /\ w[lock] = "persist" /\ ordinal[lock] = next
    /\ \A c \in Calls : w[c] = "persist" => lock = c

\* The trace is in the order of the ordinals, of calls that have come to something.
Recorded ==
    /\ trace \in Seq(Calls)
    /\ \A i \in 1..Len(trace) : trace[i] \in Made /\ ordinal[trace[i]] < next /\ outcome[trace[i]] # "none"
    /\ \A i, j \in 1..Len(trace) : i < j => ordinal[trace[i]] < ordinal[trace[j]]
    /\ \A c \in Calls : w[c] \in {"closing", "finalise", "persist", "done"} => outcome[c] # "none"

\* What was shown is the beginning of the trace.
Wired ==
    /\ IsInjective(envelopes) /\ \A c \in Calls : Asked(c) => c \in Made
    /\ answer # "rolledback" =>
         /\ Len(ResultsShown) <= Len(trace)
         /\ \A i \in 1..Len(ResultsShown) : ResultsShown[i] = <<"result", trace[i]>> /\ ordinal[trace[i]] = i - 1

\* What has finished and has not raised continues what was shown along the trace.
Continues ==
    /\ \A j \in 1..Len(finished) : (\A k \in 1..j : w[finished[k]] = "done") =>
          /\ Len(ResultsShown) + j <= Len(trace)
          /\ trace[Len(ResultsShown) + j] = finished[j] /\ ordinal[finished[j]] = Len(ResultsShown) + j - 1
    /\ (\A k \in 1..Len(finished) : w[finished[k]] = "done") =>
          Len(trace) = Len(ResultsShown) + Len(finished) /\ next = Len(trace)
Queued ==
    /\ IsInjective(finished) /\ (pc = "calls" => finished = <<>>)
    /\ pc = "collect" =>
         /\ \A j \in 1..Len(finished) : finished[j] \in FanOut /\ ~Shown(finished[j])
         /\ \A c \in Made : Shown(c) \/ c \in FanOut
         /\ Continues

\* A serial call that was not shown yet is the next of the trace.
OneAhead(c) ==
    /\ ordinal[c] = Len(ResultsShown)
    /\ w[c] = "done" => Len(trace) = Len(ResultsShown) + 1 /\ next = Len(trace) /\ trace[Len(ResultsShown) + 1] = c
    /\ w[c] \notin Ended => Len(trace) = Len(ResultsShown) /\ next = Len(ResultsShown)
Levels ==
    /\ answer \in {"open", "committed", "rolledback", "rejected"} /\ (pc # "end" => answer = "open")
    /\ pc \in Quiet \/ answer \in {"committed", "rejected"} =>
          Len(trace) = claimed /\ Len(ResultsShown) = claimed
    /\ pc \in Quiet => next = claimed
    /\ pc = "run" => claimed = Len(ResultsShown) + 1 /\ \A c \in Made : ~Shown(c) => OneAhead(c)

TraceInv == Tickets /\ Gated /\ Recorded /\ Wired /\ Queued /\ Levels

Odds ==
    /\ allowed \subseteq Kinds /\ approval \subseteq Governed /\ aborted \in BOOLEAN /\ stopped \in BOOLEAN
    /\ settled \subseteq intents

\* Results are the results among the envelopes.
LEMMA ResultsAre ==
    ASSUME EffectsInv
    PROVE  /\ ResultsShown \in Seq(Envelopes) /\ Len(ResultsShown) \in Nat
           /\ \A c \in Calls : Shown(c) <=> \E i \in 1..Len(ResultsShown) : ResultsShown[i] = <<"result", c>>
<1>0. PICK A, E : A = {"result"} \X Calls /\ E = Envelopes
  OBVIOUS
<1>1. envelopes \in Seq(E)
  BY <1>0 DEF EffectsInv
<1>2. PICK s \in Seq(E) : s = envelopes
  BY <1>1
<1>3. PICK r : r = Filtered(s, A)
  OBVIOUS
<1>4. /\ r \in Seq(E)
      /\ \A i \in 1..Len(r) : \E p \in 1..Len(s) : s[p] = r[i]
      /\ \A p \in 1..Len(s) : s[p] \in A => \E i \in 1..Len(r) : r[i] = s[p]
  <2>1. /\ Filtered(s, A) \in Seq(E) /\ Len(Filtered(s, A)) <= Len(s)
        /\ \A i \in 1..Len(Filtered(s, A)) :
              Filtered(s, A)[i] \in A /\ \E p \in 1..Len(s) : s[p] = Filtered(s, A)[i]
        /\ \A p \in 1..Len(s) : s[p] \in A => \E i \in 1..Len(Filtered(s, A)) : Filtered(s, A)[i] = s[p]
    BY FilteredElements, SMTT(30)
  <2> QED BY <1>3, <2>1
<1>5. ResultsShown = r
  BY <1>0, <1>2, <1>3 DEF ResultsShown
<1>6. ASSUME NEW c \in Calls PROVE Shown(c) <=> \E i \in 1..Len(r) : r[i] = <<"result", c>>
  <2>0. DOMAIN s = 1..Len(s)
    OBVIOUS
  <2>1. Shown(c) <=> \E p \in 1..Len(s) : s[p] = <<"result", c>>
    BY <1>2, <2>0 DEF Shown, Range
  <2>2. <<"result", c>> \in A
    BY <1>0
  <2> QED BY <1>4, <2>1, <2>2
<1>7. Len(r) \in Nat
  BY <1>4
<1> QED BY <1>0, <1>4, <1>5, <1>6, <1>7

\* One envelope more.
LEMMA EnvelopeMore ==
    ASSUME EffectsInv, NEW e \in Envelopes, envelopes' = Append(envelopes, e), e \notin Range(envelopes), IsInjective(envelopes)
    PROVE  /\ IsInjective(envelopes') /\ (\A x : x \in Range(envelopes') <=> x \in Range(envelopes) \/ x = e)
           /\ e[1] = "result" => ResultsShown' = Append(ResultsShown, e)
           /\ e[1] = "call" => ResultsShown' = ResultsShown
<1>0. PICK A, E : A = {"result"} \X Calls /\ E = Envelopes
  OBVIOUS
<1>1. PICK s \in Seq(E) : s = envelopes
  BY <1>0 DEF EffectsInv
<1>2. PICK t : t = Append(s, e)
  OBVIOUS
<1>3. PICK n \in Nat : n = Len(s)
  OBVIOUS
<1>4. /\ t \in Seq(E) /\ Len(t) = n + 1 /\ t[n + 1] = e /\ \A i \in 1..n : t[i] = s[i]
  BY <1>0, <1>2, <1>3
<1>5. IsInjective(t)
  <2>1. \A i \in 1..n : s[i] # e
    BY <1>1, <1>3 DEF Range
  <2>2. \A i, j \in 1..n : s[i] = s[j] => i = j
    BY <1>1, <1>3 DEF IsInjective
  <2>3. DOMAIN t = 1..n + 1
    BY <1>4
  <2>4. \A i \in 1..n + 1 : i \in 1..n \/ i = n + 1
    BY <1>3
  <2> QED BY <1>4, <2>1, <2>2, <2>3, <2>4 DEF IsInjective
<1>6. envelopes' = t
  BY <1>1, <1>2
<1>7. \A x : x \in Range(envelopes') <=> x \in Range(envelopes) \/ x = e
  BY <1>0, <1>1, ShowsOneMore
<1>8. ResultsShown = Filtered(s, A) /\ ResultsShown' = Filtered(t, A)
  BY <1>0, <1>1, <1>6 DEF ResultsShown
<1>9. e \in A <=> e[1] = "result"
  BY <1>0 DEF Envelopes
<1>10. /\ (\A i \in Len(s) + 1..Len(t) : t[i] \notin A) => Filtered(t, A) = Filtered(s, A)
       /\ (Len(t) = Len(s) + 1 /\ t[Len(t)] \in A) => Filtered(t, A) = Append(Filtered(s, A), t[Len(t)])
  <2>1. Len(s) <= Len(t) /\ \A i \in 1..Len(s) : t[i] = s[i]
    BY <1>3, <1>4
  <2> QED BY <1>4, <2>1, FilteredExtends, SMTT(30)
<1>11. e[1] = "result" => Filtered(t, A) = Append(Filtered(s, A), e)
  <2>1. Len(t) = Len(s) + 1 /\ t[Len(t)] = e
    BY <1>3, <1>4
  <2> QED BY <1>9, <1>10, <2>1
<1>12. e[1] = "call" => Filtered(t, A) = Filtered(s, A)
  <2>1. \A i \in Len(s) + 1..Len(t) : t[i] = e
    BY <1>3, <1>4
  <2> QED BY <1>9, <1>10, <2>1
<1> QED BY <1>5, <1>6, <1>7, <1>8, <1>11, <1>12

\* A list with one element more, and without its first.
LEMMA OneLonger ==
    ASSUME NEW S, NEW s \in Seq(S), NEW e \in S
    PROVE  \E n \in Nat : /\ n = Len(s) /\ Append(s, e) \in Seq(S) /\ Len(Append(s, e)) = n + 1
                          /\ Append(s, e)[n + 1] = e /\ (\A i \in 1..n : Append(s, e)[i] = s[i])
                          /\ \A i \in 1..(n + 1) : i \in 1..n \/ i = n + 1
                          /\ (IsInjective(s) /\ \A i \in 1..n : s[i] # e) => IsInjective(Append(s, e))
<1>1. PICK n \in Nat : n = Len(s)
  OBVIOUS
<1>2. PICK t : t = Append(s, e)
  OBVIOUS
<1>3. /\ t \in Seq(S) /\ Len(t) = n + 1 /\ t[n + 1] = e /\ DOMAIN t = 1..(n + 1) /\ DOMAIN s = 1..n
      /\ \A i \in 1..n : t[i] = s[i]
  BY <1>1, <1>2
<1>4. \A i \in 1..(n + 1) : i \in 1..n \/ i = n + 1
  OBVIOUS
<1>5. (IsInjective(s) /\ \A i \in 1..n : s[i] # e) => IsInjective(t)
  BY <1>3, <1>4 DEF IsInjective
<1> QED BY <1>1, <1>2, <1>3, <1>4, <1>5

LEMMA OneShorter ==
    ASSUME NEW S, NEW s \in Seq(S), s # <<>>
    PROVE  \E n \in Nat : /\ Len(s) = n + 1 /\ Head(s) = s[1] /\ Tail(s) \in Seq(S) /\ Len(Tail(s)) = n
                          /\ (\A i \in 1..n : i + 1 \in 1..(n + 1) /\ Tail(s)[i] = s[i + 1])
                          /\ IsInjective(s) => IsInjective(Tail(s)) /\ \A i \in 1..n : Tail(s)[i] # Head(s)
<1>1. PICK n \in Nat : Len(s) = n + 1
  <2>1. Len(s) \in Nat /\ Len(s) # 0
    OBVIOUS
  <2>2. Len(s) - 1 \in Nat /\ Len(s) = (Len(s) - 1) + 1
    BY <2>1
  <2> QED BY <2>2
<1>2. PICK t : t = Tail(s)
  OBVIOUS
<1>3. /\ Head(s) = s[1] /\ t \in Seq(S) /\ Len(t) = n /\ DOMAIN t = 1..n /\ DOMAIN s = 1..(n + 1)
      /\ \A i \in 1..n : i + 1 \in 1..(n + 1) /\ t[i] = s[i + 1]
  BY <1>1, <1>2
<1>4. 1 \in 1..(n + 1) /\ (\A i \in 1..n : i + 1 # 1) /\ \A i, j \in 1..n : i + 1 = j + 1 => i = j
  OBVIOUS
<1>5. ASSUME IsInjective(s) PROVE IsInjective(t) /\ \A i \in 1..n : t[i] # s[1]
  <2>1. \A a, b \in 1..(n + 1) : s[a] = s[b] => a = b
    BY <1>3, <1>5 DEF IsInjective
  <2>2. ASSUME NEW i \in 1..n, NEW j \in 1..n, t[i] = t[j] PROVE i = j
    <3>1. i + 1 = j + 1
      BY <1>3, <2>1, <2>2
    <3> QED BY <1>4, <3>1
  <2>3. \A i \in 1..n : t[i] # s[1]
    BY <1>3, <1>4, <2>1
  <2> QED BY <1>3, <2>2, <2>3 DEF IsInjective
<1> QED BY <1>1, <1>2, <1>3, <1>5

\* What the proofs use of the state.
LEMMA TraceTypes ==
    ASSUME EffectsInv, TraceInv
    PROVE  /\ w \in [Calls -> CallSteps] /\ finished \in Seq(Calls) /\ trace \in Seq(Calls)
           /\ ordinal \in [Calls -> Nat] /\ claimed \in Nat /\ next \in Nat
           /\ Len(ResultsShown) \in Nat /\ Len(trace) \in Nat /\ Len(finished) \in Nat
           /\ Calls \subseteq Nat \ {0} /\ Made \subseteq Calls /\ FanOut \subseteq Calls
           /\ IsFiniteSet(Calls) /\ IsFiniteSet(Made)
<1>1. w \in [Calls -> CallSteps] /\ finished \in Seq(Calls) /\ CallTypes
  BY DEF EffectsInv, CallTypes
<1>2. trace \in Seq(Calls) /\ ordinal \in [Calls -> Nat] /\ claimed \in Nat /\ next \in Nat
  BY DEF TraceInv, Recorded, Tickets, Gated
<1>3. Len(ResultsShown) \in Nat /\ Len(trace) \in Nat /\ Len(finished) \in Nat
  BY <1>1, <1>2, ResultsAre
<1>4. Calls \subseteq Nat \ {0} /\ Made \subseteq Calls
  BY ToolAssumption DEF Calls, Made
<1>5. FanOut \subseteq Calls /\ IsFiniteSet(Calls)
  BY <1>1, FanOutIs
<1>6. IsFiniteSet(Made)
  BY <1>4, <1>5, FS_Subset
<1> QED BY <1>1, <1>2, <1>3, <1>4, <1>5, <1>6

\* The envelopes tell what was shown.
LEMMA WireStays ==
    ASSUME UNCHANGED envelopes
    PROVE  ResultsShown' = ResultsShown /\ \A c : (Shown(c)' <=> Shown(c)) /\ (Asked(c)' <=> Asked(c))
BY DEF ResultsShown, Shown, Asked

\* A call moves on that records nothing.
LEMMA CallAside ==
    ASSUME EffectsInv, TraceInv, NEW c \in Calls, w[c] \notin Resting, NEW to \in CallSteps \ {"idle", "done"},
           w' = [w EXCEPT ![c] = to],
           UNCHANGED <<kind, cut, turn, pc, ordinal, claimed, next, trace, envelopes, answer>>,
           \/ lock' = lock /\ w[c] # "persist" /\ to # "persist"
           \/ lock = 0 /\ lock' = c /\ to = "persist" /\ next = ordinal[c],
           \/ finished' = finished
           \/ to = "raised" /\ c \in FanOut /\ finished' = Append(finished, c),
           \A d \in Calls : outcome[d] # "none" => outcome'[d] # "none",
           to \in {"closing", "finalise", "persist"} => outcome'[c] # "none"
    PROVE  TraceInv'
<1>1. /\ w \in [Calls -> CallSteps] /\ finished \in Seq(Calls) /\ Len(finished) \in Nat
      /\ Calls \subseteq Nat \ {0} /\ Made \subseteq Calls
  BY TraceTypes
<1>2. w'[c] = to /\ \A d \in Calls : d # c => w'[d] = w[d]
  BY <1>1
<1>3. Made' = Made /\ c \in Made
  BY <1>2 DEF Made, Resting
<1>4. FanOut' = FanOut /\ ResultsShown' = ResultsShown /\ \A d : (Shown(d)' <=> Shown(d)) /\ (Asked(d)' <=> Asked(d))
  BY TurnStays, WireStays
<1>5. /\ ~Shown(c) /\ (\A i \in DOMAIN finished : finished[i] # c)
      /\ pc \in {"collect", "cancel", "abort", "gather", "run"}
  BY UnderWay
<1>6. Tickets'
  BY <1>3 DEF TraceInv, Tickets
<1>7. Gated'
  <2>1. lock' # 0 => lock' \in Calls /\ w'[lock'] = "persist" /\ ordinal[lock'] = next
    BY <1>2 DEF TraceInv, Gated
  <2>2. \A d \in Calls : w'[d] = "persist" => lock' = d
    BY <1>1, <1>2 DEF TraceInv, Gated
  <2> QED BY <2>1, <2>2 DEF TraceInv, Gated
<1>8. Recorded'
  <2>1. \A i \in 1..Len(trace) : trace[i] \in Made /\ outcome'[trace[i]] # "none"
    BY <1>1 DEF TraceInv, Recorded
  <2>2. \A d \in Calls : w'[d] \in {"closing", "finalise", "persist", "done"} => outcome'[d] # "none"
    BY <1>2 DEF TraceInv, Recorded
  <2> QED BY <1>3, <2>1, <2>2 DEF TraceInv, Recorded
<1>9. Wired'
  BY <1>3, <1>4 DEF TraceInv, Wired
<1>10. Levels'
  <2>1. ASSUME pc = "run", NEW d \in Made, ~Shown(d) PROVE OneAhead(d)'
    <3>1. OneAhead(d)
      BY <2>1 DEF TraceInv, Levels
    <3>2. CASE d = c
      BY <1>2, <1>4, <3>1, <3>2 DEF OneAhead, Resting, Ended
    <3>3. CASE d # c
      <4>1. w'[d] = w[d]
        BY <1>1, <1>2, <3>3
      <4> QED BY <1>4, <3>1, <4>1 DEF OneAhead
    <3> QED BY <3>2, <3>3
  <2> QED BY <1>3, <1>4, <2>1 DEF TraceInv, Levels
<1>11. Queued'
  <2>1. CASE finished' = finished
    <3>1. \A i \in 1..Len(finished) : w'[finished[i]] = w[finished[i]]
      BY <1>1, <1>2, <1>5
    <3>2. Continues => Continues'
      BY <1>4, <2>1, <3>1, SMTT(30) DEF Continues
    <3> QED BY <1>3, <1>4, <2>1, <3>2 DEF TraceInv, Queued
  <2>2. CASE to = "raised" /\ c \in FanOut /\ finished' = Append(finished, c)
    <3>1. PICK n \in Nat : /\ n = Len(finished) /\ finished' \in Seq(Calls) /\ Len(finished') = n + 1
                           /\ finished'[n + 1] = c /\ (\A i \in 1..n : finished'[i] = finished[i])
                           /\ \A i \in 1..(n + 1) : i \in 1..n \/ i = n + 1
                           /\ (IsInjective(finished) /\ \A i \in 1..n : finished[i] # c) => IsInjective(finished')
      BY <1>1, <2>2, OneLonger
    <3>2. \A i \in 1..n : finished[i] \in Calls /\ finished[i] # c /\ w'[finished'[i]] = w[finished[i]]
      BY <1>1, <1>2, <1>5, <3>1
    <3>3. IsInjective(finished')
      BY <3>1, <3>2 DEF TraceInv, Queued
    <3>4. w'[finished'[n + 1]] # "done"
      BY <1>2, <2>2, <3>1
    <3>5. ASSUME Continues PROVE Continues'
      <4>1. ASSUME NEW j \in 1..(n + 1), \A k \in 1..j : w'[finished'[k]] = "done"
            PROVE  j \in 1..n /\ finished'[j] = finished[j] /\ \A k \in 1..j : w[finished[k]] = "done"
        <5>1. j # n + 1
          BY <3>4, <4>1
        <5>2. j \in 1..n /\ \A k \in 1..j : k \in 1..n
          BY <3>1, <5>1
        <5> QED BY <3>1, <3>2, <4>1, <5>2
      <4>2. ~ \A k \in 1..(n + 1) : w'[finished'[k]] = "done"
        BY <3>4
      <4> QED BY <1>4, <3>1, <3>5, <4>1, <4>2, ZenonT(40) DEF Continues
    <3>6. ASSUME pc = "collect", NEW j \in 1..(n + 1) PROVE finished'[j] \in FanOut /\ ~Shown(finished'[j])
      BY <1>5, <2>2, <3>1, <3>6 DEF TraceInv, Queued
    <3> QED BY <1>3, <1>4, <1>5, <3>1, <3>3, <3>5, <3>6 DEF TraceInv, Queued
  <2> QED BY <2>1, <2>2
<1> QED BY <1>6, <1>7, <1>8, <1>9, <1>10, <1>11 DEF TraceInv

\* What the call that holds the gate, or has its turn, is.
LEMMA AtTheGate ==
    ASSUME EffectsInv, TraceInv, NEW c \in Calls, w[c] \notin Resting, ordinal[c] = next
    PROVE  /\ c \in Made /\ ~Shown(c) /\ next < claimed /\ (\A i \in 1..Len(finished) : finished[i] \in Calls \ {c})
           /\ pc \in {"collect", "cancel", "abort", "gather", "run"} /\ (pc # "run" => c \in FanOut)
           /\ pc = "run" => c \notin FanOut
<1>1. /\ \/ pc \in {"collect", "cancel", "abort", "gather"} /\ c \in FanOut
         \/ pc = "run" /\ c \in Serial
      /\ ~Shown(c) /\ \A i \in DOMAIN finished : finished[i] # c
  BY UnderWay
<1>2. c \in Made
  BY DEF Made, Resting
<1>3. next < claimed
  BY <1>2 DEF TraceInv, Tickets
<1>4. finished \in Seq(Calls)
  BY TraceTypes
<1>5. c \in Serial => c \notin FanOut
  BY FanOutIs DEF EffectsInv
<1> QED BY <1>1, <1>2, <1>3, <1>4, <1>5

\* The call at the gate fails, and the next has its turn.
LEMMA CallSkipped ==
    ASSUME EffectsInv, TraceInv, NEW c \in Calls, w[c] = "persist",
           w' = [w EXCEPT ![c] = "raised"], next' = next + 1, lock' = 0,
           UNCHANGED <<kind, cut, turn, pc, ordinal, claimed, trace, envelopes, answer, outcome>>,
           \/ finished' = finished /\ pc # "collect"
           \/ pc = "collect" /\ finished' = Append(finished, c)
    PROVE  TraceInv'
<1>1. /\ w \in [Calls -> CallSteps] /\ finished \in Seq(Calls) /\ Len(finished) \in Nat
      /\ Calls \subseteq Nat \ {0} /\ Made \subseteq Calls /\ next \in Nat /\ claimed \in Nat
      /\ ordinal \in [Calls -> Nat] /\ trace \in Seq(Calls)
  BY TraceTypes
<1>2. w'[c] = "raised" /\ \A d \in Calls : d # c => w'[d] = w[d]
  BY <1>1 DEF CallSteps
<1>3. Made' = Made
  BY <1>2 DEF Made
<1>4. FanOut' = FanOut /\ ResultsShown' = ResultsShown /\ \A d : (Shown(d)' <=> Shown(d)) /\ (Asked(d)' <=> Asked(d))
  BY TurnStays, WireStays
<1>5. lock = c /\ ordinal[c] = next /\ w[c] \notin Resting
  BY <1>1 DEF TraceInv, Gated, Resting
<1>6. /\ c \in Made /\ ~Shown(c) /\ next < claimed /\ (\A i \in 1..Len(finished) : finished[i] \in Calls \ {c})
      /\ pc \in {"collect", "cancel", "abort", "gather", "run"} /\ (pc # "run" => c \in FanOut)
  BY <1>5, AtTheGate
<1>7. Tickets'
  BY <1>3 DEF TraceInv, Tickets
<1>8. Gated'
  <2>1. \A d \in Calls : w'[d] # "persist"
    BY <1>2, <1>5 DEF TraceInv, Gated
  <2> QED BY <1>1, <1>6, <2>1 DEF Gated
<1>9. Recorded'
  <2>1. \A i \in 1..Len(trace) : trace[i] \in Calls /\ ordinal[trace[i]] \in Nat /\ ordinal[trace[i]] < next
    BY <1>1 DEF TraceInv, Recorded
  <2>2. \A i \in 1..Len(trace) : ordinal[trace[i]] < next + 1
    BY <1>1, <2>1
  <2>3. \A d \in Calls : w'[d] \in {"closing", "finalise", "persist", "done"} => outcome[d] # "none"
    BY <1>2 DEF TraceInv, Recorded
  <2> QED BY <1>3, <2>2, <2>3 DEF TraceInv, Recorded
<1>10. Wired'
  BY <1>3, <1>4 DEF TraceInv, Wired
<1>11. Levels'
  <2>1. ASSUME pc = "run", NEW d \in Made, ~Shown(d) PROVE OneAhead(d)'
    <3>1. OneAhead(d) /\ OneAhead(c)
      BY <1>6, <2>1 DEF TraceInv, Levels
    <3>2. d = c
      BY <1>6, <3>1 DEF OneAhead, TraceInv, Tickets
    <3> QED BY <1>2, <1>4, <3>1, <3>2 DEF OneAhead, Ended
  <2> QED BY <1>3, <1>4, <1>6, <2>1 DEF TraceInv, Levels, Quiet
<1>12. Queued'
  <2>1. CASE finished' = finished /\ pc # "collect"
    BY <2>1 DEF TraceInv, Queued
  <2>2. CASE pc = "collect" /\ finished' = Append(finished, c)
    <3>1. PICK n \in Nat : /\ n = Len(finished) /\ finished' \in Seq(Calls) /\ Len(finished') = n + 1
                           /\ finished'[n + 1] = c /\ (\A i \in 1..n : finished'[i] = finished[i])
                           /\ \A i \in 1..(n + 1) : i \in 1..n \/ i = n + 1
                           /\ (IsInjective(finished) /\ \A i \in 1..n : finished[i] # c) => IsInjective(finished')
      <4>1. finished \in Seq(Calls) /\ finished' = Append(finished, c)
        BY <1>1, <2>2
      <4> QED BY ONLY c \in Calls, <4>1, OneLonger
    <3>2. \A i \in 1..n : finished[i] \in Calls /\ finished[i] # c /\ w'[finished'[i]] = w[finished[i]]
      BY <1>2, <1>6, <3>1
    <3>3. IsInjective(finished')
      BY <3>1, <3>2 DEF TraceInv, Queued
    <3>4. w'[finished'[n + 1]] # "done"
      BY <1>2, <2>2, <3>1
    <3>5. Continues'
      <4>0. Continues
        BY <2>2 DEF TraceInv, Queued
      <4>1. ASSUME NEW j \in 1..(n + 1), \A k \in 1..j : w'[finished'[k]] = "done"
            PROVE  j \in 1..n /\ finished'[j] = finished[j] /\ \A k \in 1..j : w[finished[k]] = "done"
        <5>1. j # n + 1
          BY <3>4, <4>1
        <5>2. j \in 1..n /\ \A k \in 1..j : k \in 1..n
          BY <3>1, <5>1
        <5> QED BY <3>1, <3>2, <4>1, <5>2
      <4>2. ~ \A k \in 1..(n + 1) : w'[finished'[k]] = "done"
        <5>1. n + 1 \in 1..(n + 1)
          BY <3>1
        <5> QED BY <3>4, <5>1
      <4>3. \A j \in 1..n : (\A k \in 1..j : w[finished[k]] = "done") =>
               /\ Len(ResultsShown) + j <= Len(trace)
               /\ trace[Len(ResultsShown) + j] = finished[j] /\ ordinal[finished[j]] = Len(ResultsShown) + j - 1
        BY <3>1, <4>0 DEF Continues
      <4>4. ASSUME NEW j \in 1..(n + 1), \A k \in 1..j : w'[finished'[k]] = "done"
            PROVE  /\ Len(ResultsShown) + j <= Len(trace)
                   /\ trace[Len(ResultsShown) + j] = finished'[j] /\ ordinal[finished'[j]] = Len(ResultsShown) + j - 1
        BY <4>1, <4>3, <4>4
      <4> QED BY <1>4, <3>1, <4>2, <4>4 DEF Continues
    <3>6. \A j \in 1..(n + 1) : finished'[j] \in FanOut /\ ~Shown(finished'[j])
      BY <1>6, <2>2, <3>1 DEF TraceInv, Queued
    <3> QED BY <1>3, <1>4, <2>2, <3>1, <3>3, <3>5, <3>6 DEF TraceInv, Queued
  <2> QED BY <2>1, <2>2
<1> QED BY <1>7, <1>8, <1>9, <1>10, <1>11, <1>12 DEF TraceInv

\* The call whose turn it is goes into the trace.
LEMMA TraceGrows ==
    ASSUME EffectsInv, TraceInv, NEW c \in Calls, w[c] \notin Resting, ordinal[c] = next, outcome'[c] # "none",
           trace' = Append(trace, c), next' = next + 1, Made' = Made,
           UNCHANGED <<ordinal, claimed, envelopes, answer>>,
           \A d \in Calls : outcome[d] # "none" => outcome'[d] # "none",
           \A d \in Calls : w'[d] \in {"closing", "finalise", "persist", "done"} =>
                            d = c \/ w[d] \in {"closing", "finalise", "persist", "done"}
    PROVE  /\ Recorded' /\ Wired' /\ next' \in Nat /\ next' <= claimed
           /\ \E n \in Nat : /\ n = Len(trace) /\ Len(trace') = n + 1 /\ trace'[n + 1] = c
                             /\ \A i \in 1..n : trace'[i] = trace[i]
<1>1. /\ trace \in Seq(Calls) /\ Made \subseteq Calls /\ next \in Nat /\ claimed \in Nat
      /\ ordinal \in [Calls -> Nat] /\ Len(ResultsShown) \in Nat
  BY TraceTypes
<1>2. c \in Made /\ next < claimed
  BY AtTheGate
<1>3. PICK n \in Nat : /\ n = Len(trace) /\ trace' \in Seq(Calls) /\ Len(trace') = n + 1 /\ trace'[n + 1] = c
                       /\ (\A i \in 1..n : trace'[i] = trace[i]) /\ \A i \in 1..(n + 1) : i \in 1..n \/ i = n + 1
  BY <1>1, OneLonger
<1>4. \A i \in 1..n : /\ trace[i] \in Calls /\ trace[i] \in Made /\ ordinal[trace[i]] \in Nat
                      /\ ordinal[trace[i]] < next /\ outcome'[trace[i]] # "none"
  BY <1>1, <1>3 DEF TraceInv, Recorded
<1>5. \A i \in 1..(n + 1) : trace'[i] \in Made /\ ordinal[trace'[i]] < next + 1 /\ outcome'[trace'[i]] # "none"
  <2>1. \A i \in 1..n : ordinal[trace[i]] < next + 1
    BY <1>1, <1>4
  <2>2. next < next + 1
    BY <1>1
  <2> QED BY <1>2, <1>3, <1>4, <2>1, <2>2
<1>6. ASSUME NEW i \in 1..(n + 1), NEW j \in 1..(n + 1), i < j PROVE ordinal[trace'[i]] < ordinal[trace'[j]]
  <2>1. i \in 1..n
    BY <1>3, <1>6
  <2>2. CASE j = n + 1
    BY <1>3, <1>4, <2>1, <2>2
  <2>3. CASE j \in 1..n
    BY <1>3, <1>6, <2>1, <2>3 DEF TraceInv, Recorded
  <2> QED BY <1>3, <2>2, <2>3
<1>7. \A d \in Calls : w'[d] \in {"closing", "finalise", "persist", "done"} => outcome'[d] # "none"
  BY DEF TraceInv, Recorded
<1>8. Recorded'
  BY <1>3, <1>5, <1>6, <1>7 DEF Recorded
<1>9. Wired'
  <2>1. ResultsShown' = ResultsShown /\ \A d : Asked(d)' <=> Asked(d)
    BY WireStays
  <2>2. PICK m \in Nat : m = Len(ResultsShown)
    BY <1>1
  <2>3. m <= n => m <= n + 1 /\ \A i \in 1..m : i \in 1..n
    BY <1>3
  <2> QED BY <1>3, <2>1, <2>2, <2>3 DEF TraceInv, Wired
<1>10. next + 1 \in Nat /\ next + 1 <= claimed
  BY <1>1, <1>2
<1> QED BY <1>3, <1>8, <1>9, <1>10

\* A cancelled serial call is recorded: the batch knows of nothing but what it raises.
LEMMA CancelledRecorded ==
    ASSUME EffectsInv, TraceInv, NEW c \in Calls, PersistCancelled(c)
    PROVE  TraceInv'
<1>1. /\ UNCHANGED <<kind, cut, turn, pc, ordinal, claimed, lock, finished, envelopes, answer>>
      /\ w[c] = "cancelled" /\ lock = 0 /\ next = ordinal[c] /\ outcome' = [outcome EXCEPT ![c] = "error"]
      /\ next' = next + 1 /\ trace' = Append(trace, c) /\ w' = [w EXCEPT ![c] = "raised"] /\ c \in Serial
  BY DEF PersistCancelled, MyTurn, config
<1>2. /\ w \in [Calls -> CallSteps] /\ Calls \subseteq Nat \ {0} /\ Made \subseteq Calls
      /\ outcome \in [Calls -> {"none", "denied", "ok", "error"}]
  BY TraceTypes DEF EffectsInv, CallTypes
<1>3. /\ w'[c] = "raised" /\ (\A d \in Calls : d # c => w'[d] = w[d])
      /\ outcome'[c] = "error" /\ \A d \in Calls : d # c => outcome'[d] = outcome[d]
  BY <1>1, <1>2
<1>4. Made' = Made
  BY <1>1, <1>3 DEF Made
<1>5. w[c] \notin Resting /\ c \notin FanOut
  BY <1>1, FanOutIs DEF Resting, EffectsInv
<1>6. /\ c \in Made /\ ~Shown(c) /\ pc = "run"
  BY <1>1, <1>5, AtTheGate
<1>7. /\ Recorded' /\ Wired' /\ next' \in Nat /\ next' <= claimed
  <2>1. \A d \in Calls : w'[d] \in {"closing", "finalise", "persist", "done"} => w[d] \in {"closing", "finalise", "persist", "done"}
    BY <1>3
  <2>2. \A d \in Calls : outcome[d] # "none" => outcome'[d] # "none"
    BY <1>3
  <2>3. outcome'[c] # "none" /\ ordinal[c] = next
    BY <1>1, <1>3
  <2> QED BY <1>1, <1>4, <1>5, <2>1, <2>2, <2>3, TraceGrows
<1>8. FanOut' = FanOut /\ ResultsShown' = ResultsShown /\ \A d : Shown(d)' <=> Shown(d)
  BY <1>1, TurnStays, WireStays
<1>9. Tickets'
  BY <1>1, <1>4 DEF TraceInv, Tickets
<1>10. Gated'
  BY <1>1, <1>3, <1>7 DEF TraceInv, Gated
<1>11. Queued'
  BY <1>1, <1>6 DEF TraceInv, Queued
<1>12. Levels'
  <2>1. ASSUME NEW d \in Made, ~Shown(d) PROVE OneAhead(d)'
    <3>1. OneAhead(d) /\ OneAhead(c)
      BY <1>6, <2>1 DEF TraceInv, Levels
    <3>2. d = c
      BY <1>6, <3>1 DEF OneAhead, TraceInv, Tickets
    <3> QED BY <1>1, <1>3, <1>8, <3>1, <3>2 DEF OneAhead, Ended
  <2> QED BY <1>1, <1>4, <1>6, <1>8, <2>1 DEF TraceInv, Levels, Quiet
<1> QED BY <1>7, <1>9, <1>10, <1>11, <1>12 DEF TraceInv

\* A call is recorded and done: it is the next to be shown, unless one before it raised.
LEMMA CallRecorded ==
    ASSUME EffectsInv, TraceInv, NEW c \in Calls, Persist(c)
    PROVE  TraceInv'
<1>1. /\ UNCHANGED <<kind, cut, turn, pc, ordinal, claimed, envelopes, answer, outcome>>
      /\ w[c] = "persist" /\ lock' = 0
      /\ next' = next + 1 /\ trace' = Append(trace, c) /\ w' = [w EXCEPT ![c] = "done"]
      /\ finished' = IF c \in FanOut /\ pc = "collect" THEN Append(finished, c) ELSE finished
  BY DEF Persist, Advance, Left, config
<1>2. /\ w \in [Calls -> CallSteps] /\ Calls \subseteq Nat \ {0} /\ Made \subseteq Calls
      /\ Len(ResultsShown) \in Nat /\ finished \in Seq(Calls) /\ trace \in Seq(Calls) /\ next \in Nat
  BY TraceTypes
<1>3. w'[c] = "done" /\ \A d \in Calls : d # c => w'[d] = w[d]
  BY <1>1, <1>2
<1>4. Made' = Made
  BY <1>1, <1>3 DEF Made
<1>5. w[c] \notin Resting /\ ordinal[c] = next /\ lock = c /\ outcome'[c] # "none"
  BY <1>1, <1>2 DEF Resting, TraceInv, Gated, Recorded
<1>6. /\ c \in Made /\ ~Shown(c) /\ (\A i \in 1..Len(finished) : finished[i] \in Calls \ {c})
      /\ pc \in {"collect", "cancel", "abort", "gather", "run"} /\ (pc # "run" => c \in FanOut)
  BY <1>5, AtTheGate
<1>7. /\ Recorded' /\ Wired' /\ next' \in Nat /\ next' <= claimed
      /\ \E n \in Nat : /\ n = Len(trace) /\ Len(trace') = n + 1 /\ trace'[n + 1] = c
                        /\ \A i \in 1..n : trace'[i] = trace[i]
  <2>1. \A d \in Calls : w'[d] \in {"closing", "finalise", "persist", "done"} => d = c \/ w[d] \in {"closing", "finalise", "persist", "done"}
    BY <1>3
  <2> QED BY <1>1, <1>4, <1>5, <2>1, TraceGrows
<1>8. PICK n \in Nat : /\ n = Len(trace) /\ Len(trace') = n + 1 /\ trace'[n + 1] = c
                       /\ \A i \in 1..n : trace'[i] = trace[i]
  BY <1>7
<1>9. FanOut' = FanOut /\ ResultsShown' = ResultsShown /\ \A d : Shown(d)' <=> Shown(d)
  BY <1>1, TurnStays, WireStays
<1>10. Tickets'
  BY <1>1, <1>4 DEF TraceInv, Tickets
<1>11. Gated'
  <2>1. \A d \in Calls : w'[d] # "persist"
    BY <1>3, <1>5 DEF TraceInv, Gated
  <2> QED BY <1>1, <1>7, <2>1 DEF Gated
<1>12. Levels'
  <2>1. ASSUME pc = "run", NEW d \in Made, ~Shown(d) PROVE OneAhead(d)'
    <3>1. OneAhead(d) /\ OneAhead(c)
      BY <1>6, <2>1 DEF TraceInv, Levels
    <3>2. d = c
      BY <1>6, <3>1 DEF OneAhead, TraceInv, Tickets
    <3>3. n = Len(ResultsShown) /\ next = n
      BY <1>1, <1>8, <3>1 DEF OneAhead, Ended
    <3> QED BY <1>1, <1>3, <1>8, <1>9, <3>1, <3>2, <3>3 DEF OneAhead, Ended
  <2> QED BY <1>1, <1>4, <1>6, <1>9, <2>1 DEF TraceInv, Levels, Quiet
<1>13. Queued'
  <2>1. CASE pc # "collect"
    BY <1>1, <2>1 DEF TraceInv, Queued
  <2>2. CASE pc = "collect"
    <3>0. finished \in Seq(Calls) /\ finished' = Append(finished, c) /\ c \in FanOut
      BY <1>1, <1>2, <1>6, <2>2
    <3>1. PICK f \in Nat : /\ f = Len(finished) /\ finished' \in Seq(Calls) /\ Len(finished') = f + 1
                           /\ finished'[f + 1] = c /\ (\A i \in 1..f : finished'[i] = finished[i])
                           /\ \A i \in 1..(f + 1) : i \in 1..f \/ i = f + 1
                           /\ (IsInjective(finished) /\ \A i \in 1..f : finished[i] # c) => IsInjective(finished')
      BY ONLY c \in Calls, <3>0, OneLonger
    <3>2. \A i \in 1..f : finished[i] \in Calls /\ finished[i] # c /\ w'[finished'[i]] = w[finished[i]]
      BY <1>3, <1>6, <3>1
    <3>3. IsInjective(finished')
      BY <3>1, <3>2 DEF TraceInv, Queued
    <3>4. PICK m \in Nat : m = Len(ResultsShown)
      BY <1>2
    <3>5. /\ \A j \in 1..f : (\A k \in 1..j : w[finished[k]] = "done") =>
                m + j <= n /\ trace[m + j] = finished[j] /\ ordinal[finished[j]] = m + j - 1
          /\ (\A k \in 1..f : w[finished[k]] = "done") => n = m + f /\ next = n
      BY <1>8, <2>2, <3>1, <3>4 DEF TraceInv, Queued, Continues
    <3>6. ASSUME NEW j \in 1..(f + 1), \A k \in 1..j : w'[finished'[k]] = "done"
          PROVE  m + j <= n + 1 /\ trace'[m + j] = finished'[j] /\ ordinal[finished'[j]] = m + j - 1
      <4>1. CASE j \in 1..f
        <5>1. \A k \in 1..j : k \in 1..f
          BY <4>1
        <5>2. m + j <= n /\ trace[m + j] = finished[j] /\ ordinal[finished[j]] = m + j - 1
          BY <3>1, <3>2, <3>5, <3>6, <4>1, <5>1
        <5>3. m + j \in 1..n /\ m + j <= n + 1
          BY <1>8, <3>1, <3>4, <4>1, <5>2
        <5> QED BY <1>8, <3>1, <4>1, <5>2, <5>3
      <4>2. CASE j = f + 1
        <5>1. \A k \in 1..f : k \in 1..j
          BY <3>1, <4>2
        <5>2. n = m + f /\ next = n
          BY <3>1, <3>2, <3>5, <3>6, <5>1
        <5>3. m + j = n + 1 /\ m + j - 1 = n
          BY <3>1, <3>4, <4>2, <5>2
        <5> QED BY <1>5, <1>8, <3>1, <4>2, <5>2, <5>3
      <4> QED BY <3>1, <4>1, <4>2
    <3>7. ASSUME \A k \in 1..(f + 1) : w'[finished'[k]] = "done" PROVE n + 1 = m + (f + 1) /\ next + 1 = n + 1
      <4>1. \A k \in 1..f : k \in 1..(f + 1)
        BY <3>1
      <4>2. n = m + f /\ next = n
        BY <3>1, <3>2, <3>5, <3>7, <4>1
      <4> QED BY <3>1, <3>4, <4>2
    <3>8. Continues'
      BY <1>1, <1>8, <1>9, <3>1, <3>4, <3>6, <3>7, ZenonT(40) DEF Continues
    <3>9. \A j \in 1..(f + 1) : finished'[j] \in FanOut /\ ~Shown(finished'[j])
      BY <1>6, <2>2, <3>0, <3>1 DEF TraceInv, Queued
    <3> QED BY <1>1, <1>4, <1>9, <2>2, <3>1, <3>3, <3>8, <3>9 DEF TraceInv, Queued
  <2> QED BY <2>1, <2>2
<1> QED BY <1>7, <1>10, <1>11, <1>12, <1>13 DEF TraceInv

\* Where nothing is under way every call that was made has been shown.
LEMMA MadeShown ==
    ASSUME EffectsInv, TraceInv, pc \in Quiet, NEW c \in Made
    PROVE  Shown(c)
<1>1. /\ ordinal \in [Calls -> Nat] /\ claimed \in Nat /\ Made \subseteq Calls /\ trace \in Seq(Calls)
  BY TraceTypes
<1>2. answer = "open" /\ Len(trace) = claimed /\ Len(ResultsShown) = claimed
  BY DEF TraceInv, Levels, Quiet
<1>3. ordinal[c] \in Nat /\ ordinal[c] < claimed
  BY <1>1 DEF TraceInv, Tickets
<1>4. PICK i \in 1..claimed : i = ordinal[c] + 1
  BY <1>1, <1>3
<1>5. ResultsShown[i] = <<"result", trace[i]>> /\ ordinal[trace[i]] = i - 1
  BY <1>2 DEF TraceInv, Wired
<1>6. trace[i] \in Made /\ ordinal[trace[i]] = ordinal[c]
  <2>1. i - 1 = ordinal[c]
    BY <1>3, <1>4
  <2> QED BY <1>2, <1>5, <2>1 DEF TraceInv, Recorded
<1>7. trace[i] = c
  BY <1>6 DEF TraceInv, Tickets
<1> QED BY <1>1, <1>2, <1>5, <1>7, ResultsAre

\* Steps that leave the calls and what was recorded where they are.
LEMMA TraceAside ==
    ASSUME EffectsInv, TraceInv,
           UNCHANGED <<kind, cut, turn, w, ordinal, claimed, next, lock, trace, finished, envelopes, answer>>,
           \A d \in Calls : outcome[d] # "none" => outcome'[d] # "none",
           \/ pc' = pc
           \/ pc \in {"collect", "cancel", "abort", "gather"} /\ pc' \in {"cancel", "gather"}
    PROVE  TraceInv'
<1>1. /\ FanOut' = FanOut /\ ResultsShown' = ResultsShown /\ Made' = Made
      /\ \A d : (Shown(d)' <=> Shown(d)) /\ (Asked(d)' <=> Asked(d))
  BY TurnStays, WireStays DEF Made
<1>2. Tickets' /\ Gated' /\ Wired'
  BY <1>1 DEF TraceInv, Tickets, Gated, Wired
<1>3. Recorded'
  <2>1. \A i \in 1..Len(trace) : trace[i] \in Calls
    BY DEF TraceInv, Recorded
  <2> QED BY <1>1, <2>1 DEF TraceInv, Recorded
<1>4. Queued'
  <2>1. Continues => Continues'
    BY <1>1 DEF Continues
  <2> QED BY <1>1, <2>1 DEF TraceInv, Queued
<1>5. Levels'
  <2>1. \A d : OneAhead(d) => OneAhead(d)'
    BY <1>1 DEF OneAhead
  <2> QED BY <1>1, <2>1 DEF TraceInv, Levels, Quiet
<1> QED BY <1>2, <1>3, <1>4, <1>5 DEF TraceInv

\* The answer ends: with its trace, if it was level, or without one.
LEMMA AnswerCloses ==
    ASSUME EffectsInv, TraceInv, pc' = "end",
           UNCHANGED <<kind, cut, turn, w, outcome, ordinal, claimed, next, lock, finished, envelopes>>,
           \/ answer' = "rolledback" /\ trace' = <<>>
           \/ answer' \in {"committed", "rejected"} /\ trace' = trace /\ pc \in Quiet
    PROVE  TraceInv'
<1>1. /\ ResultsShown' = ResultsShown /\ Made' = Made
      /\ \A d : (Shown(d)' <=> Shown(d)) /\ (Asked(d)' <=> Asked(d))
  BY WireStays DEF Made
<1>2. Tickets' /\ Gated' /\ Queued'
  BY <1>1 DEF TraceInv, Tickets, Gated, Queued
<1>3. CASE answer' = "rolledback" /\ trace' = <<>>
  <2>1. <<>> \in Seq(Calls) /\ Len(<<>>) = 0
    OBVIOUS
  <2>2. Recorded'
    BY <1>1, <1>3, <2>1 DEF TraceInv, Recorded
  <2>3. Wired' /\ Levels'
    BY <1>1, <1>3 DEF TraceInv, Wired, Levels, Quiet
  <2> QED BY <1>2, <2>2, <2>3 DEF TraceInv
<1>4. CASE answer' \in {"committed", "rejected"} /\ trace' = trace /\ pc \in Quiet
  <2>1. answer # "rolledback"
    BY <1>4 DEF TraceInv, Levels, Quiet
  <2>2. Recorded' /\ Wired' /\ Levels'
    BY <1>1, <1>4, <2>1 DEF TraceInv, Recorded, Wired, Levels, Quiet
  <2> QED BY <1>2, <2>2 DEF TraceInv
<1> QED BY <1>3, <1>4

\* A turn begins.
LEMMA TurnBegins ==
    ASSUME EffectsInv, TraceInv, BeginTurn
    PROVE  TraceInv'
<1>1. /\ UNCHANGED <<w, outcome, ordinal, claimed, next, lock, trace, envelopes, answer>>
      /\ finished' = <<>> /\ pc = "turn" /\ pc' \in {"answer", "calls"}
  BY DEF BeginTurn, gateVars, durable
<1>2. /\ ResultsShown' = ResultsShown /\ Made' = Made
      /\ \A d : (Shown(d)' <=> Shown(d)) /\ (Asked(d)' <=> Asked(d))
  BY <1>1, WireStays DEF Made
<1>3. Tickets' /\ Gated' /\ Recorded' /\ Wired' /\ Levels'
  BY <1>1, <1>2 DEF TraceInv, Tickets, Gated, Recorded, Wired, Levels, Quiet
<1>4. Queued'
  <2>1. IsInjective(<<>>)
    BY DEF IsInjective
  <2> QED BY <1>1, <2>1 DEF Queued
<1> QED BY <1>3, <1>4 DEF TraceInv

\* Every worker is cancelled: the gate moves past the one that held it.
LEMMA WorkersCancelled ==
    ASSUME EffectsInv, TraceInv, CancelWorkers
    PROVE  TraceInv'
<1>1. /\ UNCHANGED <<kind, cut, turn, outcome, ordinal, claimed, trace, finished, envelopes, answer>>
      /\ pc = "cancel" /\ pc' = "abort"
      /\ w' = [c \in Calls |-> IF c \in FanOut THEN Cancelled(w[c]) ELSE w[c]]
      /\ IF lock # 0 THEN next' = next + 1 /\ lock' = 0 ELSE next' = next /\ lock' = lock
  BY DEF CancelWorkers, Advance, config, durable
<1>2. /\ w \in [Calls -> CallSteps] /\ Calls \subseteq Nat \ {0} /\ Made \subseteq Calls /\ FanOut \subseteq Calls
      /\ next \in Nat /\ claimed \in Nat /\ ordinal \in [Calls -> Nat] /\ trace \in Seq(Calls)
  BY TraceTypes
<1>3. \A c \in Calls : /\ w'[c] = "idle" <=> w[c] = "idle"
                       /\ w'[c] = "done" => w[c] = "done"
                       /\ w'[c] \in {"closing", "finalise", "persist"} => w'[c] = w[c] /\ c \notin FanOut
  <2>1. \A p \in CallSteps : /\ Cancelled(p) = "idle" <=> p = "idle"
                             /\ Cancelled(p) = "done" => p = "done"
                             /\ Cancelled(p) \notin {"closing", "finalise", "persist"}
    BY DEF Cancelled, CallSteps
  <2>2. \A c \in Calls : w'[c] = IF c \in FanOut THEN Cancelled(w[c]) ELSE w[c]
    BY <1>1
  <2>3. \A c \in Calls : w[c] \in CallSteps
    BY <1>2
  <2> QED BY <2>1, <2>2, <2>3
<1>4. Made' = Made
  BY <1>3 DEF Made
<1>5. /\ ResultsShown' = ResultsShown /\ \A d : (Shown(d)' <=> Shown(d)) /\ (Asked(d)' <=> Asked(d))
  BY <1>1, WireStays
<1>6. Tickets' /\ Wired'
  BY <1>1, <1>4, <1>5 DEF TraceInv, Tickets, Wired
<1>7. \A c \in Calls : w'[c] # "persist"
  <2>1. \A c \in Calls \ FanOut : w[c] # "persist"
    BY <1>1 DEF EffectsInv, Phase, Resting
  <2> QED BY <1>3, <2>1
<1>8. lock' = 0 /\ next' \in Nat /\ next' <= claimed /\ next <= next'
  <2>1. CASE lock # 0
    <3>1. lock \in Calls /\ w[lock] = "persist" /\ ordinal[lock] = next
      BY <2>1 DEF TraceInv, Gated
    <3>2. ordinal[lock] < claimed
      BY <3>1 DEF TraceInv, Tickets, Made
    <3> QED BY <1>1, <1>2, <2>1, <3>1, <3>2
  <2>2. CASE lock = 0
    BY <1>1, <1>2, <2>2 DEF TraceInv, Gated
  <2> QED BY <2>1, <2>2
<1>9. Gated'
  BY <1>1, <1>7, <1>8 DEF Gated
<1>10. Recorded'
  <2>1. \A i \in 1..Len(trace) : trace[i] \in Calls /\ ordinal[trace[i]] \in Nat /\ ordinal[trace[i]] < next
    BY <1>2 DEF TraceInv, Recorded
  <2>2. \A i \in 1..Len(trace) : ordinal[trace[i]] < next'
    BY <1>2, <1>8, <2>1
  <2>3. \A c \in Calls : w'[c] \in {"closing", "finalise", "persist", "done"} => outcome[c] # "none"
    BY <1>3 DEF TraceInv, Recorded
  <2> QED BY <1>1, <1>4, <2>2, <2>3 DEF TraceInv, Recorded
<1>11. Queued' /\ Levels'
  BY <1>1 DEF TraceInv, Queued, Levels, Quiet
<1> QED BY <1>6, <1>9, <1>10, <1>11 DEF TraceInv

\* One result more is shown.
LEMMA ResultMore ==
    ASSUME EffectsInv, TraceInv, NEW c \in Calls, ~Shown(c), envelopes' = Append(envelopes, <<"result", c>>)
    PROVE  /\ IsInjective(envelopes') /\ (\A d : Shown(d)' <=> Shown(d) \/ d = c) /\ (\A d : Asked(d)' <=> Asked(d))
           /\ \E m \in Nat : /\ m = Len(ResultsShown) /\ Len(ResultsShown') = m + 1
                             /\ ResultsShown'[m + 1] = <<"result", c>>
                             /\ (\A i \in 1..m : ResultsShown'[i] = ResultsShown[i])
                             /\ \A i \in 1..(m + 1) : i \in 1..m \/ i = m + 1
<1>1. /\ <<"result", c>> \in Envelopes /\ <<"result", c>>[1] = "result" /\ <<"result", c>>[1] # "call"
      /\ <<"result", c>> \notin Range(envelopes) /\ IsInjective(envelopes)
  BY DEF Envelopes, Shown, TraceInv, Wired
<1>2. /\ IsInjective(envelopes') /\ ResultsShown' = Append(ResultsShown, <<"result", c>>)
      /\ \A x : x \in Range(envelopes') <=> x \in Range(envelopes) \/ x = <<"result", c>>
  BY <1>1, EnvelopeMore
<1>3. (\A d : Shown(d)' <=> Shown(d) \/ d = c) /\ \A d : Asked(d)' <=> Asked(d)
  BY <1>2 DEF Shown, Asked
<1>4. PICK r, e, E : r = ResultsShown /\ e = <<"result", c>> /\ E = Envelopes
  OBVIOUS
<1>5. r \in Seq(E) /\ e \in E
  BY <1>1, <1>4, ResultsAre
<1>6. \E m \in Nat : /\ m = Len(r) /\ Len(Append(r, e)) = m + 1 /\ Append(r, e)[m + 1] = e
                     /\ (\A i \in 1..m : Append(r, e)[i] = r[i])
                     /\ \A i \in 1..(m + 1) : i \in 1..m \/ i = m + 1
  BY ONLY <1>5, OneLonger
<1> QED BY <1>2, <1>3, <1>4, <1>6

\* A task that ended is collected: it is shown if it did not raise.
LEMMA ResultCollected ==
    ASSUME EffectsInv, TraceInv, EffectsInv', Collect
    PROVE  TraceInv'
<1>1. /\ UNCHANGED <<kind, cut, turn, w, outcome, ordinal, claimed, next, lock, trace, answer>>
      /\ pc = "collect" /\ finished # <<>>
  BY DEF Collect, config, gateVars, durable
<1>2. PICK c : c = Head(finished)
  OBVIOUS
<1>3. /\ w \in [Calls -> CallSteps] /\ finished \in Seq(Calls) /\ trace \in Seq(Calls) /\ Made \subseteq Calls
      /\ Len(ResultsShown) \in Nat /\ FanOut \subseteq Calls /\ claimed \in Nat /\ next \in Nat
      /\ ordinal \in [Calls -> Nat]
  BY TraceTypes
<1>4. PICK n \in Nat : /\ Len(finished) = n + 1 /\ c = finished[1] /\ Tail(finished) \in Seq(Calls)
                       /\ Len(Tail(finished)) = n
                       /\ (\A i \in 1..n : i + 1 \in 1..(n + 1) /\ Tail(finished)[i] = finished[i + 1])
                       /\ IsInjective(finished) => IsInjective(Tail(finished)) /\ \A i \in 1..n : Tail(finished)[i] # c
  <2>1. finished \in Seq(Calls) /\ finished # <<>> /\ c = Head(finished)
    BY <1>1, <1>2, <1>3
  <2> QED BY ONLY <2>1, OneShorter
<1>5. 1 \in 1..(n + 1) /\ c \in Calls /\ c \in FanOut /\ ~Shown(c) /\ w[c] \in Ended /\ IsInjective(finished)
  <2>1. 1 \in 1..(n + 1) /\ 1 \in DOMAIN finished
    BY <1>3, <1>4
  <2> QED BY <1>1, <1>3, <1>4, <2>1 DEF TraceInv, Queued, EffectsInv, Phase
<1>6. FanOut' = FanOut /\ Made' = Made
  BY <1>1, TurnStays DEF Made
<1>7. Tickets' /\ Gated' /\ Recorded'
  BY <1>1, <1>6 DEF TraceInv, Tickets, Gated, Recorded
<1>8. CASE pc' = "cancel" /\ UNCHANGED <<envelopes, finished>>
  <2>1. ResultsShown' = ResultsShown /\ \A d : (Shown(d)' <=> Shown(d)) /\ (Asked(d)' <=> Asked(d))
    BY <1>8, WireStays
  <2>2. Wired' /\ Queued' /\ Levels'
    BY <1>1, <1>6, <1>8, <2>1 DEF TraceInv, Wired, Queued, Levels, Quiet
  <2> QED BY <1>7, <2>2 DEF TraceInv
<1>9. CASE /\ ~(w[c] = "raised" \/ stopped)
           /\ envelopes' = Append(envelopes, <<"result", c>>) /\ finished' = Tail(finished)
           /\ pc' = IF \A d \in FanOut : <<"result", d>> \in Range(envelopes') THEN "serial" ELSE pc
  <2>1. /\ IsInjective(envelopes') /\ (\A d : Shown(d)' <=> Shown(d) \/ d = c) /\ (\A d : Asked(d)' <=> Asked(d))
        /\ \E m \in Nat : /\ m = Len(ResultsShown) /\ Len(ResultsShown') = m + 1
                          /\ ResultsShown'[m + 1] = <<"result", c>>
                          /\ (\A i \in 1..m : ResultsShown'[i] = ResultsShown[i])
                          /\ \A i \in 1..(m + 1) : i \in 1..m \/ i = m + 1
    BY <1>5, <1>9, ResultMore
  <2>2. IsInjective(envelopes')
    BY <2>1
  <2>3. (\A d : Shown(d)' <=> Shown(d) \/ d = c) /\ \A d : Asked(d)' <=> Asked(d)
    BY <2>1
  <2>4. PICK m \in Nat : /\ m = Len(ResultsShown) /\ Len(ResultsShown') = m + 1
                         /\ ResultsShown'[m + 1] = <<"result", c>>
                         /\ (\A i \in 1..m : ResultsShown'[i] = ResultsShown[i])
                         /\ \A i \in 1..(m + 1) : i \in 1..m \/ i = m + 1
    BY <2>1
  <2>5. /\ Len(ResultsShown') = m + 1 /\ ResultsShown'[m + 1] = <<"result", c>>
        /\ (\A i \in 1..m : ResultsShown'[i] = ResultsShown[i]) /\ \A i \in 1..(m + 1) : i \in 1..m \/ i = m + 1
    BY <2>4
  <2>6. PICK L \in Nat : L = Len(trace)
    BY <1>3
  <2>7. answer = "open" /\ Continues
    BY <1>1 DEF TraceInv, Levels, Queued
  <2>8. w[c] = "done"
    BY <1>5, <1>9 DEF Ended
  <2>9. /\ \A j \in 1..(n + 1) : (\A k \in 1..j : w[finished[k]] = "done") =>
              m + j <= L /\ trace[m + j] = finished[j] /\ ordinal[finished[j]] = m + j - 1
        /\ (\A k \in 1..(n + 1) : w[finished[k]] = "done") => L = m + (n + 1) /\ next = L
    BY <1>4, <2>4, <2>6, <2>7 DEF Continues
  <2>10. m + 1 <= L /\ trace[m + 1] = c /\ ordinal[c] = (m + 1) - 1
    <3>1. \A k \in 1..1 : k = 1
      OBVIOUS
    <3>2. \A k \in 1..1 : w[finished[k]] = "done"
      BY <1>4, <2>8, <3>1
    <3> QED BY <1>4, <1>5, <2>9, <3>2
  <2>11. Wired'
    <3>1. \A i \in 1..m : ResultsShown[i] = <<"result", trace[i]>> /\ ordinal[trace[i]] = i - 1
      BY <2>4, <2>7 DEF TraceInv, Wired
    <3>2. \A i \in 1..(m + 1) : ResultsShown'[i] = <<"result", trace[i]>> /\ ordinal[trace[i]] = i - 1
      BY <2>5, <2>10, <3>1
    <3>3. \A d \in Calls : Asked(d)' => d \in Made'
      BY <1>6, <2>3 DEF TraceInv, Wired
    <3> QED BY <1>1, <2>2, <2>5, <2>6, <2>10, <3>2, <3>3 DEF Wired
  <2>12. \A k \in 1..n : finished'[k] = finished[k + 1] /\ k + 1 \in 1..(n + 1)
    BY <1>4, <1>9
  <2>13. ASSUME NEW j \in 1..n, \A k \in 1..j : w[finished'[k]] = "done"
         PROVE  \A k \in 1..(j + 1) : w[finished[k]] = "done"
    <3> TAKE k \in 1..(j + 1)
    <3>1. CASE k = 1
      BY <1>4, <2>8, <3>1
    <3>2. CASE k # 1
      <4>1. k - 1 \in 1..j /\ k - 1 \in 1..n /\ (k - 1) + 1 = k
        BY <3>2
      <4> QED BY <2>12, <2>13, <4>1
    <3> QED BY <3>1, <3>2
  <2>14. Continues'
    <3>1. ASSUME NEW j \in 1..n, \A k \in 1..j : w[finished'[k]] = "done"
          PROVE  (m + 1) + j <= L /\ trace[(m + 1) + j] = finished'[j] /\ ordinal[finished'[j]] = (m + 1) + j - 1
      <4>1. m + (j + 1) <= L /\ trace[m + (j + 1)] = finished[j + 1] /\ ordinal[finished[j + 1]] = m + (j + 1) - 1
        BY <2>9, <2>12, <2>13, <3>1
      <4>2. m + (j + 1) = (m + 1) + j
        BY <2>4
      <4> QED BY <2>12, <4>1, <4>2
    <3>2. ASSUME \A k \in 1..n : w[finished'[k]] = "done" PROVE L = (m + 1) + n /\ next = L
      <4>1. \A k \in 1..(n + 1) : w[finished[k]] = "done"
        <5> TAKE k \in 1..(n + 1)
        <5>1. CASE k = 1
          BY <1>4, <2>8, <5>1
        <5>2. CASE k # 1
          <6>1. k - 1 \in 1..n /\ (k - 1) + 1 = k
            BY <1>4, <5>2
          <6> QED BY <2>12, <3>2, <6>1
        <5> QED BY <5>1, <5>2
      <4>2. m + (n + 1) = (m + 1) + n
        BY <1>4, <2>4
      <4> QED BY <2>9, <4>1, <4>2
    <3>3. Len(finished') = n
      BY <1>4, <1>9
    <3> QED BY <1>1, <2>5, <2>6, <3>1, <3>2, <3>3 DEF Continues
  <2>15. /\ IsInjective(finished') /\ Len(finished') = n
         /\ \A j \in 1..n : finished'[j] \in FanOut /\ <<"result", finished'[j]>> \notin Range(envelopes')
    <3>1. IsInjective(finished') /\ Len(finished') = n /\ \A i \in 1..n : finished'[i] # c
      BY <1>4, <1>5, <1>9
    <3>2. \A j \in 1..n : finished[j + 1] \in FanOut /\ ~Shown(finished[j + 1])
      BY <1>1, <1>4 DEF TraceInv, Queued
    <3>3. ASSUME NEW j \in 1..n PROVE finished'[j] \in FanOut /\ <<"result", finished'[j]>> \notin Range(envelopes')
      <4>1. PICK x : x = finished'[j] /\ x = finished[j + 1]
        BY <2>12
      <4>2. x \in FanOut /\ ~Shown(x) /\ x # c
        BY <3>1, <3>2, <4>1
      <4>3. <<"result", x>> \notin Range(envelopes')
        BY <2>3, <4>2 DEF Shown
      <4> QED BY <4>1, <4>2, <4>3
    <3> QED BY <3>1, <3>3
  <2>16. \A d \in Made : Shown(d)' \/ d \in FanOut
    BY <1>1, <2>3 DEF TraceInv, Queued
  <2>17. CASE pc' = "collect"
    <3>1. Queued'
      BY <1>6, <2>14, <2>15, <2>16, <2>17 DEF Queued, Shown
    <3>2. Levels'
      BY <1>1, <2>7, <2>17 DEF Levels, Quiet
    <3> QED BY <1>7, <2>11, <3>1, <3>2 DEF TraceInv
  <2>18. CASE pc' = "serial" /\ \A d \in FanOut : Shown(d)'
    <3>1. n = 0
      <4>1. ASSUME n # 0 PROVE FALSE
        <5>1. 1 \in 1..n
          BY <1>4, <4>1
        <5>2. finished'[1] \in FanOut /\ <<"result", finished'[1]>> \notin Range(envelopes')
          BY <2>15, <5>1
        <5>3. \A d \in FanOut : <<"result", d>> \in Range(envelopes')
          BY <2>18 DEF Shown
        <5> QED BY <5>2, <5>3
      <4> QED BY <4>1
    <3>2. L = m + 1 /\ next = L
      BY <2>9, <2>10, <1>4, <2>8, <3>1
    <3>3. ~(next < claimed)
      <4>1. ASSUME next < claimed PROVE FALSE
        <5>1. PICK d \in Made : ordinal[d] = next
          BY <1>3, <4>1 DEF TraceInv, Tickets
        <5>2. Shown(d)'
          BY <2>16, <2>18, <5>1
        <5>3. PICK i \in 1..(m + 1) : ResultsShown'[i] = <<"result", d>>
          <6>1. d \in Calls /\ (Shown(d)' <=> Shown(d) \/ d = c)
            BY <1>3, <2>3, <5>1
          <6>2. CASE d = c
            <7>1. m + 1 \in 1..(m + 1)
              BY <2>4
            <7> QED BY <2>5, <6>2, <7>1
          <6>3. CASE Shown(d)
            <7>1. PICK q \in 1..m : ResultsShown[q] = <<"result", d>>
              BY <2>4, <6>1, <6>3, ResultsAre
            <7>2. q \in 1..(m + 1)
              BY <2>4
            <7> QED BY <2>5, <7>1, <7>2
          <6> QED BY <5>2, <6>1, <6>2, <6>3
        <5>4. ResultsShown'[i] = <<"result", trace[i]>> /\ ordinal[trace[i]] = i - 1
          BY <1>1, <2>5, <2>7, <2>11 DEF Wired
        <5>5. trace[i] = d
          BY <5>3, <5>4
        <5>6. next = i - 1 /\ i <= m + 1 /\ i \in Int
          BY <5>1, <5>4, <5>5
        <5> QED BY <2>4, <3>2, <5>6
      <4> QED BY <4>1
    <3>4. claimed = L
      BY <1>3, <3>2, <3>3 DEF TraceInv, Gated
    <3>5. Levels'
      BY <1>1, <2>5, <2>6, <2>7, <2>18, <3>2, <3>4 DEF Levels, Quiet
    <3>6. Queued'
      BY <2>15, <2>18 DEF Queued
    <3> QED BY <1>7, <2>11, <3>5, <3>6 DEF TraceInv
  <2> QED BY <1>1, <1>9, <2>17, <2>18 DEF Shown
<1> QED BY <1>2, <1>8, <1>9 DEF Collect

\* The fan-out is asked for and claims its ordinals in call order.
LEMMA FanOutBegins ==
    ASSUME EffectsInv, TraceInv, Dispatch
    PROVE  TraceInv'
<1>1. /\ UNCHANGED <<kind, cut, turn, outcome, next, lock, trace, finished, answer>>
      /\ pc = "calls" /\ pc' = (IF FanOut = {} THEN "serial" ELSE "collect")
      /\ w' = [c \in Calls |-> IF c \in FanOut THEN "govern" ELSE w[c]]
      /\ ordinal' = [c \in Calls |-> IF c \in FanOut THEN claimed + PlaceOf(c, FanOut) - 1 ELSE ordinal[c]]
      /\ claimed' = claimed + Cardinality(FanOut)
      /\ envelopes' = envelopes \o [i \in 1..Cardinality(FanOut) |-> <<"call", InOrder(FanOut)[i]>>]
  BY DEF Dispatch, config, durable
<1>2. /\ w \in [Calls -> CallSteps] /\ Calls \subseteq Nat \ {0} /\ Made \subseteq Calls /\ FanOut \subseteq Calls
      /\ next \in Nat /\ claimed \in Nat /\ ordinal \in [Calls -> Nat] /\ trace \in Seq(Calls)
      /\ IsFiniteSet(Calls) /\ IsFiniteSet(Made)
  BY TraceTypes
<1>3. (\A c \in FanOut : w[c] = "idle" /\ c \notin Made) /\ \A c \in Calls : w[c] \in Resting
  <2>1. FanOut \subseteq TurnCalls /\ TurnCalls \subseteq Calls
    BY FanOutIs DEF EffectsInv
  <2> QED BY <1>1, <2>1 DEF EffectsInv, Phase, Made
<1>4. PICK n \in Nat : /\ n = Cardinality(FanOut) /\ InOrder(FanOut) \in [1..n -> FanOut]
                       /\ \A c \in FanOut : \E i \in 1..n : InOrder(FanOut)[i] = c
                       /\ \A i, j \in 1..n : InOrder(FanOut)[i] = InOrder(FanOut)[j] => i = j
  <2>1. FanOut \in SUBSET Calls
    BY <1>2
  <2> QED BY <2>1, InOrderIs
<1>5. PICK o : o = InOrder(FanOut)
  OBVIOUS
<1>6. /\ o \in [1..n -> FanOut] /\ (\A c \in FanOut : \E i \in 1..n : o[i] = c)
      /\ \A i, j \in 1..n : o[i] = o[j] => i = j
  BY <1>4, <1>5
<1>7. \A c \in FanOut : PlaceOf(c, FanOut) \in 1..n /\ o[PlaceOf(c, FanOut)] = c
  BY <1>4, <1>5, <1>6 DEF PlaceOf
<1>8. /\ \A c \in Calls : c \in FanOut => w'[c] = "govern" /\ ordinal'[c] = claimed + PlaceOf(c, FanOut) - 1
      /\ \A c \in Calls : c \notin FanOut => w'[c] = w[c] /\ ordinal'[c] = ordinal[c]
  BY <1>1
<1>9. Made' = Made \cup FanOut
  BY <1>2, <1>3, <1>8 DEF Made
<1>10. \A c \in Made : c \notin FanOut /\ ordinal'[c] = ordinal[c] /\ ordinal[c] \in Nat /\ ordinal[c] < claimed
  BY <1>2, <1>3, <1>8 DEF TraceInv, Tickets
<1>11. \A c \in FanOut : ordinal'[c] \in Nat /\ claimed <= ordinal'[c] /\ ordinal'[c] < claimed + n
  <2> TAKE c \in FanOut
  <2>1. PICK p \in 1..n : p = PlaceOf(c, FanOut)
    BY <1>7
  <2>2. ordinal'[c] = claimed + p - 1
    BY <1>2, <1>8, <2>1
  <2> QED BY <1>2, <1>4, <2>2
<1>12. Tickets'
  <2>1. ordinal' \in [Calls -> Nat]
    <3>1. \A c \in Calls : ordinal'[c] \in Nat
      BY <1>2, <1>8, <1>11
    <3>2. ordinal' = [c \in Calls |-> ordinal'[c]]
      BY <1>1
    <3> QED BY <3>1, <3>2
  <2>2. claimed' \in Nat /\ claimed' = Cardinality(Made')
    <3>1. IsFiniteSet(FanOut) /\ Made \cap FanOut = {}
      BY <1>2, <1>3, FS_Subset
    <3>2. Cardinality(Made \cup FanOut) = Cardinality(Made) + Cardinality(FanOut) - Cardinality(Made \cap FanOut)
      BY <1>2, <3>1, FS_Union
    <3>3. Cardinality(Made \cap FanOut) = 0
      BY <3>1, FS_EmptySet
    <3>4. Cardinality(Made) = claimed
      BY DEF TraceInv, Tickets
    <3> QED BY <1>1, <1>2, <1>4, <1>9, <3>2, <3>3, <3>4
  <2>3. claimed' = claimed + n
    BY <1>1, <1>4
  <2>4. \A c \in Made' : ordinal'[c] < claimed'
    <3>1. \A c \in Made : ordinal'[c] < claimed + n
      BY <1>2, <1>4, <1>10
    <3> QED BY <1>9, <1>11, <2>3, <3>1
  <2>5. ASSUME NEW c \in Made', NEW d \in Made', ordinal'[c] = ordinal'[d] PROVE c = d
    <3>1. CASE c \in Made /\ d \in Made
      BY <1>10, <2>5, <3>1 DEF TraceInv, Tickets
    <3>2. CASE c \in FanOut /\ d \in FanOut
      <4>1. PICK p \in 1..n, q \in 1..n : p = PlaceOf(c, FanOut) /\ q = PlaceOf(d, FanOut)
        BY <1>7, <3>2
      <4>2. claimed + p - 1 = claimed + q - 1
        BY <1>2, <1>8, <2>5, <3>2, <4>1
      <4>3. p = q
        BY <1>2, <1>4, <4>2
      <4> QED BY <1>7, <3>2, <4>1, <4>3
    <3>3. CASE c \in Made /\ d \in FanOut
      BY <1>2, <1>10, <1>11, <2>5, <3>3
    <3>4. CASE c \in FanOut /\ d \in Made
      BY <1>2, <1>10, <1>11, <2>5, <3>4
    <3> QED BY <1>9, <3>1, <3>2, <3>3, <3>4
  <2>6. ASSUME NEW k \in Nat, k < claimed' PROVE \E c \in Made' : ordinal'[c] = k
    <3>1. CASE k < claimed
      <4>1. PICK c \in Made : ordinal[c] = k
        BY <3>1 DEF TraceInv, Tickets
      <4> QED BY <1>9, <1>10, <4>1
    <3>2. CASE ~(k < claimed)
      <4>1. PICK i \in 1..n : i = k - claimed + 1
        BY <1>2, <1>4, <2>3, <2>6, <3>2
      <4>2. PICK c \in FanOut : c = o[i]
        BY <1>6
      <4>3. PlaceOf(c, FanOut) = i
        BY <1>6, <1>7, <4>2
      <4>4. ordinal'[c] = claimed + i - 1
        BY <1>2, <1>8, <4>3
      <4>5. ordinal'[c] = k
        BY <1>2, <4>1, <4>4
      <4> QED BY <1>9, <4>5
    <3> QED BY <3>1, <3>2
  <2> QED BY <2>1, <2>2, <2>4, <2>5, <2>6 DEF Tickets
<1>13. Gated'
  <2>1. lock = 0
    BY <1>3 DEF TraceInv, Gated, Resting
  <2>2. \A c \in Calls : w'[c] # "persist"
    BY <1>3, <1>8 DEF Resting
  <2>3. next <= claimed'
    BY <1>1, <1>2, <1>4 DEF TraceInv, Gated
  <2> QED BY <1>1, <1>2, <2>1, <2>2, <2>3 DEF Gated
<1>14. Recorded'
  <2>1. \A i \in 1..Len(trace) : trace[i] \in Made
    BY DEF TraceInv, Recorded
  <2>2. \A i \in 1..Len(trace) : trace[i] \in Made' /\ ordinal'[trace[i]] = ordinal[trace[i]]
    BY <1>9, <1>10, <2>1
  <2>3. \A c \in Calls : w'[c] \in {"closing", "finalise", "persist", "done"} => outcome[c] # "none"
    BY <1>8 DEF TraceInv, Recorded
  <2> QED BY <1>1, <2>2, <2>3 DEF TraceInv, Recorded
<1>15. /\ IsInjective(envelopes') /\ ResultsShown' = ResultsShown /\ (\A c \in Calls : Shown(c)' <=> Shown(c))
       /\ \A c \in Calls : Asked(c)' => Asked(c) \/ c \in FanOut
  <2>0. PICK A, E : A = {"result"} \X Calls /\ E = Envelopes
    OBVIOUS
  <2>1. PICK s \in Seq(E) : s = envelopes
    BY <2>0 DEF EffectsInv
  <2>2. PICK more : more = [i \in 1..n |-> <<"call", o[i]>>]
    OBVIOUS
  <2>3. PICK t : t = s \o more
    OBVIOUS
  <2>4. PICK m \in Nat : m = Len(s)
    OBVIOUS
  <2>5. \A i \in 1..n : more[i] = <<"call", o[i]>> /\ o[i] \in Calls /\ more[i] \in E /\ more[i] \notin A
    <3>1. \A i \in 1..n : o[i] \in FanOut /\ o[i] \in Calls
      BY <1>2, <1>6
    <3>2. \A x : <<"call", x>> \notin A
      BY <2>0
    <3> QED BY <2>0, <2>2, <3>1, <3>2 DEF Envelopes
  <2>6. more \in Seq(E) /\ Len(more) = n
    BY <2>2, <2>5
  <2>7. /\ t \in Seq(E) /\ Len(t) = m + n
        /\ \A i \in 1..(m + n) : t[i] = IF i <= m THEN s[i] ELSE more[i - m]
    BY <2>3, <2>4, <2>6, ConcatProperties
  <2>8. envelopes' = t
    BY <1>1, <1>4, <1>5, <2>1, <2>2, <2>3
  <2>9. /\ \A i \in 1..m : i \in 1..(m + n) /\ t[i] = s[i]
        /\ \A i \in (m + 1)..(m + n) : i - m \in 1..n /\ t[i] = more[i - m]
        /\ \A i \in 1..(m + n) : i \in 1..m \/ i \in (m + 1)..(m + n)
    <3>1. \A i \in 1..m : i \in 1..(m + n) /\ i <= m
      BY <1>4, <2>4
    <3>2. \A i \in (m + 1)..(m + n) : i \in 1..(m + n) /\ i - m \in 1..n /\ ~(i <= m)
      BY <1>4, <2>4
    <3>3. \A i \in 1..(m + n) : i \in 1..m \/ i \in (m + 1)..(m + n)
      BY <1>4, <2>4
    <3> QED BY <2>7, <3>1, <3>2, <3>3
  <2>10. Filtered(t, A) = Filtered(s, A)
    <3>1. Len(s) <= Len(t) /\ \A i \in 1..Len(s) : t[i] = s[i]
      BY <1>4, <2>4, <2>7, <2>9
    <3>2. \A i \in Len(s) + 1..Len(t) : t[i] \notin A
      BY <2>4, <2>5, <2>7, <2>9
    <3>3. (\A i \in Len(s) + 1..Len(t) : t[i] \notin A) => Filtered(t, A) = Filtered(s, A)
      BY <2>7, <3>1, FilteredExtends
    <3> QED BY <3>2, <3>3
  <2>11. ResultsShown' = ResultsShown
    BY <2>0, <2>1, <2>8, <2>10 DEF ResultsShown
  <2>12. DOMAIN t = 1..(m + n) /\ DOMAIN s = 1..m
    BY <2>4, <2>7
  <2>13. \A i \in 1..m : s[i] \in Range(envelopes)
    BY <2>1, <2>12 DEF Range
  <2>14. ASSUME NEW i \in (m + 1)..(m + n) PROVE t[i] \notin Range(envelopes)
    <3>1. PICK c \in FanOut : t[i] = <<"call", c>>
      <4>1. PICK p \in 1..n : t[i] = more[p]
        BY <2>9, <2>14
      <4>2. o[p] \in FanOut /\ more[p] = <<"call", o[p]>>
        BY <1>6, <2>5
      <4> QED BY <4>1, <4>2
    <3>2. c \in Calls /\ ~Asked(c)
      BY <1>2, <1>3 DEF TraceInv, Wired
    <3> QED BY <3>1, <3>2 DEF Asked
  <2>15. IsInjective(t)
    <3>1. ASSUME NEW i \in 1..(m + n), NEW j \in 1..(m + n), t[i] = t[j] PROVE i = j
      <4>1. CASE i \in 1..m /\ j \in 1..m
        BY <2>1, <2>9, <2>12, <3>1, <4>1 DEF TraceInv, Wired, IsInjective
      <4>2. CASE i \in (m + 1)..(m + n) /\ j \in (m + 1)..(m + n)
        <5>1. PICK p \in 1..n, q \in 1..n : p = i - m /\ q = j - m /\ t[i] = more[p] /\ t[j] = more[q]
          BY <2>9, <4>2
        <5>2. o[p] = o[q]
          <6>1. <<"call", o[p]>> = <<"call", o[q]>>
            BY <2>5, <3>1, <5>1
          <6> QED BY <6>1
        <5>3. p = q
          BY <1>6, <5>2
        <5> QED BY <2>4, <5>1, <5>3
      <4>3. CASE i \in 1..m /\ j \in (m + 1)..(m + n)
        BY <2>9, <2>13, <2>14, <3>1, <4>3
      <4>4. CASE i \in (m + 1)..(m + n) /\ j \in 1..m
        BY <2>9, <2>13, <2>14, <3>1, <4>4
      <4> QED BY <2>9, <4>1, <4>2, <4>3, <4>4
    <3> QED BY <2>12, <3>1 DEF IsInjective
  <2>16. ASSUME NEW x, x \in Range(t) PROVE x \in Range(s) \/ \E c \in FanOut : x = <<"call", c>>
    <3>1. PICK i \in 1..(m + n) : x = t[i]
      BY <2>12, <2>16 DEF Range
    <3>2. CASE i \in 1..m
      BY <2>9, <2>12, <3>1, <3>2 DEF Range
    <3>3. CASE i \in (m + 1)..(m + n)
      BY <1>6, <2>5, <2>9, <3>1, <3>3
    <3> QED BY <2>9, <3>2, <3>3
  <2>17. \A x \in Range(s) : x \in Range(t)
    <3>1. \A i \in 1..m : i \in 1..(m + n) /\ t[i] = s[i]
      BY <2>9
    <3> QED BY <2>12, <3>1 DEF Range
  <2>18. (\A c \in Calls : Shown(c)' <=> Shown(c)) /\ \A c \in Calls : Asked(c)' => Asked(c) \/ c \in FanOut
    BY <2>1, <2>8, <2>16, <2>17 DEF Shown, Asked
  <2> QED BY <2>8, <2>11, <2>15, <2>18
<1>16. Wired'
  <2>1. \A i \in 1..Len(trace) : trace[i] \in Made
    BY DEF TraceInv, Recorded
  <2>2. \A c \in Calls : Asked(c)' => c \in Made'
    BY <1>9, <1>15 DEF TraceInv, Wired
  <2>3. answer = "open" /\ Len(ResultsShown) <= Len(trace) /\ Len(trace) = claimed /\ Len(ResultsShown) = claimed /\ next = claimed
    BY <1>1, <1>2 DEF TraceInv, Levels, Quiet
  <2>4. \A i \in 1..Len(ResultsShown) : ResultsShown[i] = <<"result", trace[i]>> /\ ordinal'[trace[i]] = i - 1
    BY <1>10, <2>1, <2>3 DEF TraceInv, Wired
  <2> QED BY <1>1, <1>15, <2>2, <2>3, <2>4 DEF Wired
<1>17. answer = "open" /\ Len(trace) = claimed /\ Len(ResultsShown) = claimed /\ next = claimed /\ finished = <<>>
  BY <1>1 DEF TraceInv, Levels, Queued, Quiet
<1>18. FanOut' = FanOut
  BY <1>1, TurnStays
<1>19. CASE FanOut = {}
  <2>1. n = 0
    BY <1>4, <1>19, FS_EmptySet
  <2>2. claimed' = claimed /\ pc' = "serial"
    BY <1>1, <1>2, <1>4, <1>19, <2>1
  <2>3. Queued'
    BY <1>1, <2>2 DEF TraceInv, Queued
  <2>4. Levels'
    BY <1>1, <1>15, <1>17, <2>2 DEF Levels, Quiet
  <2> QED BY <1>12, <1>13, <1>14, <1>16, <2>3, <2>4 DEF TraceInv
<1>20. CASE FanOut # {}
  <2>1. pc' = "collect"
    BY <1>1, <1>20
  <2>2. Levels'
    BY <1>1, <1>17, <2>1 DEF Levels, Quiet
  <2>3. Continues'
    <3>1. Len(finished') = 0
      BY <1>1, <1>17
    <3>2. Len(trace) = Len(ResultsShown) + 0 /\ \A j \in 1..0 : FALSE
      BY <1>2, <1>17
    <3> QED BY <1>1, <1>15, <1>17, <3>1, <3>2 DEF Continues
  <2>4. \A c \in Made' : Shown(c)' \/ c \in FanOut
    <3>1. \A c \in Made : Shown(c)
      BY <1>1, MadeShown DEF Quiet
    <3> QED BY <1>2, <1>9, <1>15, <3>1
  <2>5. \A j \in 1..Len(finished') : FALSE
    BY <1>1, <1>17
  <2>6. Queued'
    BY <1>1, <1>18, <2>1, <2>3, <2>4, <2>5 DEF TraceInv, Queued
  <2> QED BY <1>12, <1>13, <1>14, <1>16, <2>2, <2>6 DEF TraceInv
<1> QED BY <1>19, <1>20

\* A serial call is asked for and claims the next ordinal.
LEMMA SerialBegins ==
    ASSUME EffectsInv, TraceInv, BeginSerial
    PROVE  TraceInv'
<1> DEFINE left == {c \in Serial : w[c] = "idle"}
<1>1. /\ UNCHANGED <<kind, cut, turn, outcome, next, lock, trace, finished, answer>> /\ pc = "serial"
      /\ \/ pc' = "turn" /\ UNCHANGED <<envelopes, w, ordinal, claimed>>
         \/ left # {} /\ envelopes' = Append(envelopes, <<"call", Min(left)>>)
            /\ w' = [w EXCEPT ![Min(left)] = "govern"] /\ pc' = "run"
            /\ ordinal' = [ordinal EXCEPT ![Min(left)] = claimed] /\ claimed' = claimed + 1
  BY DEF BeginSerial, config, durable
<1>2. /\ w \in [Calls -> CallSteps] /\ Calls \subseteq Nat \ {0} /\ Made \subseteq Calls
      /\ next \in Nat /\ claimed \in Nat /\ ordinal \in [Calls -> Nat] /\ trace \in Seq(Calls)
      /\ IsFiniteSet(Made) /\ Len(ResultsShown) \in Nat
  BY TraceTypes
<1>3. answer = "open" /\ Len(trace) = claimed /\ Len(ResultsShown) = claimed /\ next = claimed
  BY <1>1 DEF TraceInv, Levels, Quiet
<1>4. CASE pc' = "turn" /\ UNCHANGED <<envelopes, w, ordinal, claimed>>
  <2>1. /\ ResultsShown' = ResultsShown /\ Made' = Made
        /\ \A d : (Shown(d)' <=> Shown(d)) /\ (Asked(d)' <=> Asked(d))
    BY <1>4, WireStays DEF Made
  <2>2. Tickets' /\ Gated' /\ Recorded' /\ Wired' /\ Levels' /\ Queued'
    BY <1>1, <1>4, <2>1 DEF TraceInv, Tickets, Gated, Recorded, Wired, Levels, Quiet, Queued
  <2> QED BY <2>2 DEF TraceInv
<1>5. CASE left # {} /\ envelopes' = Append(envelopes, <<"call", Min(left)>>)
           /\ w' = [w EXCEPT ![Min(left)] = "govern"] /\ pc' = "run"
           /\ ordinal' = [ordinal EXCEPT ![Min(left)] = claimed] /\ claimed' = claimed + 1
  <2>1. Serial \subseteq Calls
    BY FanOutIs DEF EffectsInv
  <2>2. Min(left) \in left
    <3>1. left \in SUBSET Nat
      BY <1>2, <2>1
    <3>2. \E x \in left : \A y \in left : x <= y
      BY <1>5, <3>1, LeastOfSet
    <3> HIDE DEF left
    <3> QED BY <3>2 DEF Min
  <2>3. PICK c \in Calls : c = Min(left) /\ w[c] = "idle"
    BY <2>1, <2>2
  <2> HIDE DEF left
  <2>4. /\ w'[c] = "govern" /\ (\A d \in Calls : d # c => w'[d] = w[d])
        /\ ordinal' \in [Calls -> Nat] /\ ordinal'[c] = claimed /\ \A d \in Calls : d # c => ordinal'[d] = ordinal[d]
    BY <1>2, <1>5, <2>3
  <2>5. Made' = Made \cup {c} /\ c \notin Made
    BY <2>3, <2>4 DEF Made
  <2>6. \A d \in Made : d \in Calls /\ d # c /\ ordinal'[d] = ordinal[d] /\ ordinal[d] \in Nat /\ ordinal[d] < claimed
    BY <1>2, <2>4, <2>5 DEF TraceInv, Tickets
  <2>7. Tickets'
    <3>1. Cardinality(Made') = claimed + 1
      BY <1>2, <2>5, FS_AddElement DEF TraceInv, Tickets
    <3>2. \A d \in Made' : ordinal'[d] < claimed + 1
      BY <1>2, <2>4, <2>5, <2>6
    <3>3. \A d, e \in Made' : ordinal'[d] = ordinal'[e] => d = e
      <4>1. \A d \in Made : ordinal'[d] # claimed
        BY <1>2, <2>6
      <4> QED BY <2>4, <2>5, <2>6, <4>1 DEF TraceInv, Tickets
    <3>4. ASSUME NEW k \in Nat, k < claimed + 1 PROVE \E d \in Made' : ordinal'[d] = k
      <4>1. CASE k = claimed
        BY <2>4, <2>5, <4>1
      <4>2. CASE k # claimed
        <5>1. k < claimed
          BY <1>2, <3>4, <4>2
        <5>2. PICK d \in Made : ordinal[d] = k
          BY <5>1 DEF TraceInv, Tickets
        <5> QED BY <2>5, <2>6, <5>2
      <4> QED BY <4>1, <4>2
    <3>5. claimed' = claimed + 1 /\ claimed + 1 \in Nat
      BY <1>2, <1>5
    <3> QED BY <2>4, <3>1, <3>2, <3>3, <3>4, <3>5 DEF Tickets
  <2>8. Gated'
    <3>1. \A d \in Calls : w[d] \in Resting
      BY <1>1 DEF EffectsInv, Phase
    <3>2. lock = 0 /\ \A d \in Calls : w'[d] # "persist"
      BY <2>4, <3>1 DEF TraceInv, Gated, Resting
    <3> QED BY <1>1, <1>2, <1>3, <1>5, <3>2 DEF Gated
  <2>9. Recorded'
    <3>1. \A i \in 1..Len(trace) : trace[i] \in Made
      BY DEF TraceInv, Recorded
    <3>2. \A i \in 1..Len(trace) : trace[i] \in Made' /\ ordinal'[trace[i]] = ordinal[trace[i]]
      BY <2>5, <2>6, <3>1
    <3>3. \A d \in Calls : w'[d] \in {"closing", "finalise", "persist", "done"} => outcome[d] # "none"
      BY <2>4 DEF TraceInv, Recorded
    <3> QED BY <1>1, <3>2, <3>3 DEF TraceInv, Recorded
  <2>10. /\ IsInjective(envelopes') /\ ResultsShown' = ResultsShown
         /\ \A x : x \in Range(envelopes') <=> x \in Range(envelopes) \/ x = <<"call", c>>
    <3>1. /\ <<"call", c>> \in Envelopes /\ <<"call", c>>[1] = "call" /\ <<"call", c>>[1] # "result"
          /\ <<"call", c>> \notin Range(envelopes) /\ IsInjective(envelopes)
      BY <2>5 DEF Envelopes, Asked, TraceInv, Wired
    <3>2. envelopes' = Append(envelopes, <<"call", c>>)
      BY <1>5, <2>3
    <3> QED BY <3>1, <3>2, EnvelopeMore
  <2>11. (\A d : Shown(d)' <=> Shown(d)) /\ \A d : Asked(d)' <=> Asked(d) \/ d = c
    BY <2>10 DEF Shown, Asked
  <2>12. Wired'
    <3>1. \A i \in 1..Len(trace) : ordinal'[trace[i]] = ordinal[trace[i]]
      BY <2>6 DEF TraceInv, Recorded
    <3>2. \A d \in Calls : Asked(d)' => d \in Made'
      BY <2>5, <2>11 DEF TraceInv, Wired
    <3>3. \A i \in 1..Len(ResultsShown) : ResultsShown[i] = <<"result", trace[i]>> /\ ordinal'[trace[i]] = i - 1
      BY <1>3, <3>1 DEF TraceInv, Wired
    <3>4. Len(ResultsShown) <= Len(trace)
      BY <1>2, <1>3
    <3> QED BY <1>1, <2>10, <3>2, <3>3, <3>4 DEF Wired
  <2>13. Queued'
    BY <1>1, <1>5 DEF TraceInv, Queued
  <2>14. Levels'
    <3>1. \A d \in Made : Shown(d)
      BY <1>1, MadeShown DEF Quiet
    <3>2. OneAhead(c)'
      BY <1>1, <1>3, <2>4, <2>10 DEF OneAhead
    <3>3. \A d \in Made' : ~Shown(d)' => OneAhead(d)'
      <4>1. \A d \in Made' : ~Shown(d)' => d = c
        BY <2>5, <2>11, <3>1
      <4> QED BY <3>2, <4>1
    <3> QED BY <1>1, <1>3, <1>5, <2>10, <3>3 DEF Levels, Quiet
  <2> QED BY <2>7, <2>8, <2>9, <2>12, <2>13, <2>14 DEF TraceInv
<1> HIDE DEF left
<1> QED BY <1>1, <1>4, <1>5

\* A serial call ends: its result is shown, or the answer ends with it.
LEMMA SerialEnds ==
    ASSUME EffectsInv, TraceInv, NEW c \in Calls, EndSerial(c)
    PROVE  TraceInv'
<1>1. /\ UNCHANGED <<kind, cut, turn, w, outcome, ordinal, claimed, next, lock, finished>>
      /\ pc = "run" /\ c \in Serial /\ w[c] \in Ended /\ ~Shown(c)
      /\ \/ pc' = "end" /\ answer' = "rolledback" /\ trace' = <<>> /\ UNCHANGED envelopes
         \/ /\ w[c] # "raised" /\ pc' = "serial" /\ envelopes' = Append(envelopes, <<"result", c>>)
            /\ UNCHANGED <<answer, trace>>
  BY DEF EndSerial, Ends, Ended, Shown, config, gateVars
<1>2. CASE pc' = "end" /\ answer' = "rolledback" /\ trace' = <<>> /\ UNCHANGED envelopes
  BY <1>1, <1>2, AnswerCloses
<1>3. CASE /\ w[c] # "raised" /\ pc' = "serial" /\ envelopes' = Append(envelopes, <<"result", c>>)
           /\ UNCHANGED <<answer, trace>>
  <2>1. /\ IsInjective(envelopes') /\ (\A d : Shown(d)' <=> Shown(d) \/ d = c) /\ (\A d : Asked(d)' <=> Asked(d))
        /\ \E m \in Nat : /\ m = Len(ResultsShown) /\ Len(ResultsShown') = m + 1
                          /\ ResultsShown'[m + 1] = <<"result", c>>
                          /\ (\A i \in 1..m : ResultsShown'[i] = ResultsShown[i])
                          /\ \A i \in 1..(m + 1) : i \in 1..m \/ i = m + 1
    BY <1>1, <1>3, ResultMore
  <2>2. PICK m \in Nat : /\ m = Len(ResultsShown) /\ Len(ResultsShown') = m + 1
                         /\ ResultsShown'[m + 1] = <<"result", c>>
                         /\ (\A i \in 1..m : ResultsShown'[i] = ResultsShown[i])
                         /\ \A i \in 1..(m + 1) : i \in 1..m \/ i = m + 1
    BY <2>1
  <2>3. Made' = Made /\ c \in Made /\ w[c] = "done"
    BY <1>1, <1>3 DEF Made, Ended
  <2>4. OneAhead(c) /\ claimed = m + 1 /\ answer = "open"
    BY <1>1, <2>2, <2>3 DEF TraceInv, Levels
  <2>5. ordinal[c] = m /\ Len(trace) = m + 1 /\ next = m + 1 /\ trace[m + 1] = c
    BY <2>2, <2>3, <2>4 DEF OneAhead
  <2>6. Tickets' /\ Gated' /\ Recorded' /\ Queued'
    BY <1>1, <1>3, <2>3 DEF TraceInv, Tickets, Gated, Recorded, Queued
  <2>7. Wired'
    <3>1. \A i \in 1..m : ResultsShown[i] = <<"result", trace[i]>> /\ ordinal[trace[i]] = i - 1
      BY <2>2, <2>4 DEF TraceInv, Wired
    <3>2. \A i \in 1..(m + 1) : ResultsShown'[i] = <<"result", trace[i]>> /\ ordinal[trace[i]] = i - 1
      <4>1. m = (m + 1) - 1
        OBVIOUS
      <4> QED BY <2>2, <2>5, <3>1, <4>1
    <3>3. \A d \in Calls : Asked(d)' => d \in Made'
      BY <2>1, <2>3 DEF TraceInv, Wired
    <3>4. Len(ResultsShown') <= Len(trace)
      BY <2>2, <2>5
    <3> QED BY <1>1, <1>3, <2>1, <2>2, <3>2, <3>3, <3>4 DEF Wired
  <2>8. Levels'
    BY <1>1, <1>3, <2>2, <2>4, <2>5 DEF Levels, Quiet
  <2> QED BY <2>6, <2>7, <2>8 DEF TraceInv
<1> QED BY <1>1, <1>2, <1>3

\* The steps of a call.
LEMMA TraceCallStep ==
    ASSUME EffectsInv, TraceInv, NEW c \in Calls, Call(c)
    PROVE  TraceInv'
<1>0. w \in [Calls -> CallSteps] /\ outcome \in [Calls -> {"none", "denied", "ok", "error"}]
  BY DEF EffectsInv, CallTypes
<1> DEFINE Moves(to) ==
      /\ w[c] \notin Resting /\ w' = [w EXCEPT ![c] = to]
      /\ UNCHANGED <<kind, cut, turn, pc, ordinal, claimed, next, trace, envelopes, answer>>
      /\ \/ lock' = lock /\ w[c] # "persist" /\ to # "persist"
         \/ lock = 0 /\ lock' = c /\ to = "persist" /\ next = ordinal[c]
      /\ \/ finished' = finished
         \/ to = "raised" /\ c \in FanOut /\ finished' = Append(finished, c)
      /\ \A d \in Calls : outcome[d] # "none" => outcome'[d] # "none"
      /\ to \in {"closing", "finalise", "persist"} => outcome'[c] # "none"
<1>1. ASSUME NEW to \in CallSteps \ {"idle", "done"}, Moves(to) PROVE TraceInv'
  BY <1>1, CallAside
<1>2. CASE StopWorker(c) \/ ScopeFails(c) \/ Refuse(c)
  <2>1. Moves("raised")
    BY <1>2 DEF StopWorker, ScopeFails, Refuse, Left, config, gateVars, durable, Resting
  <2>2. "raised" \in CallSteps \ {"idle", "done"}
    BY DEF CallSteps
  <2> HIDE DEF Moves
  <2> QED BY <1>1, <2>1, <2>2
<1>3. CASE IntentFails(c)
  <2>1. Moves("raised")
    BY <1>3 DEF IntentFails, config, gateVars, durable, Resting
  <2>2. "raised" \in CallSteps \ {"idle", "done"}
    BY DEF CallSteps
  <2> HIDE DEF Moves
  <2> QED BY <1>1, <2>1, <2>2
<1>4. CASE Govern(c) \/ GateUnreadable(c)
  <2>1. /\ w[c] = "govern" /\ UNCHANGED <<kind, cut, turn, pc, ordinal, claimed, next, lock, trace, envelopes, answer, finished>>
        /\ \/ outcome' = [outcome EXCEPT ![c] = "denied"] /\ w' = [w EXCEPT ![c] = "finalise"]
           \/ /\ \E to \in {"intent", "scope", "execute"} : w' = [w EXCEPT ![c] = to]
              /\ UNCHANGED outcome
    BY <1>4 DEF Govern, GateUnreadable, config, gateVars, durable
  <2>2. CASE outcome' = [outcome EXCEPT ![c] = "denied"] /\ w' = [w EXCEPT ![c] = "finalise"]
    <3>1. \A d \in Calls : outcome'[d] # "none" \/ (d # c /\ outcome'[d] = outcome[d])
      BY <1>0, <2>2
    <3>2. Moves("finalise")
      BY <2>1, <2>2, <3>1 DEF Resting
    <3>3. "finalise" \in CallSteps \ {"idle", "done"}
      BY DEF CallSteps
    <3> HIDE DEF Moves
    <3> QED BY <1>1, <3>2, <3>3
  <2>3. CASE /\ \E to \in {"intent", "scope", "execute"} : w' = [w EXCEPT ![c] = to]
             /\ UNCHANGED outcome
    <3>1. PICK to \in {"intent", "scope", "execute"} : w' = [w EXCEPT ![c] = to]
      BY <2>3
    <3>2. Moves(to)
      BY <2>1, <2>3, <3>1 DEF Resting
    <3>3. to \in CallSteps \ {"idle", "done"}
      BY DEF CallSteps
    <3> HIDE DEF Moves
    <3> QED BY <1>1, <3>2, <3>3
  <2> QED BY <2>1, <2>2, <2>3
<1>5. CASE Intent(c) \/ EnterScope(c)
  <2>1. Moves("execute")
    BY <1>5 DEF Intent, EnterScope, config, gateVars, durable, Resting
  <2>2. "execute" \in CallSteps \ {"idle", "done"}
    BY DEF CallSteps
  <2> HIDE DEF Moves
  <2> QED BY <1>1, <2>1, <2>2
<1>6. CASE Execute(c) \/ TakeSearch(c)
  <2>1. /\ w[c] \in {"execute", "await"} /\ w' = [w EXCEPT ![c] = "closing"]
        /\ UNCHANGED <<kind, cut, turn, pc, ordinal, claimed, next, lock, trace, envelopes, answer, finished>>
        /\ \/ \E r \in {"ok", "error"} : outcome' = [outcome EXCEPT ![c] = r]
           \/ outcome[c] # "none" /\ UNCHANGED outcome
    BY <1>6 DEF Execute, TakeSearch, config, gateVars, durable
  <2>2. outcome'[c] # "none" /\ \A d \in Calls : outcome[d] # "none" => outcome'[d] # "none"
    <3>1. CASE \E r \in {"ok", "error"} : outcome' = [outcome EXCEPT ![c] = r]
      <4>1. PICK r \in {"ok", "error"} : outcome' = [outcome EXCEPT ![c] = r]
        BY <3>1
      <4>2. outcome'[c] = r /\ \A d \in Calls : d # c => outcome'[d] = outcome[d]
        BY <1>0, <4>1
      <4> QED BY <4>2
    <3> QED BY <2>1, <3>1
  <2>3. Moves("closing")
    BY <2>1, <2>2 DEF Resting
  <2>4. "closing" \in CallSteps \ {"idle", "done"}
    BY DEF CallSteps
  <2> HIDE DEF Moves
  <2> QED BY <1>1, <2>3, <2>4
<1>7. CASE JoinSearch(c)
  <2>1. /\ w[c] = "execute" /\ w' = [w EXCEPT ![c] = "await"]
        /\ UNCHANGED <<kind, cut, turn, pc, ordinal, claimed, next, lock, trace, envelopes, answer, finished>>
        /\ outcome' = [outcome EXCEPT ![c] = "ok"] \/ outcome' = outcome
    BY <1>7 DEF JoinSearch, config, gateVars, durable
  <2>2. \A d \in Calls : outcome[d] # "none" => outcome'[d] # "none"
    BY <1>0, <2>1
  <2>3. Moves("await")
    BY <2>1, <2>2 DEF Resting
  <2>4. "await" \in CallSteps \ {"idle", "done"}
    BY DEF CallSteps
  <2> HIDE DEF Moves
  <2> QED BY <1>1, <2>3, <2>4
<1>8. CASE LeaveScope(c)
  <2>1. outcome[c] # "none"
    BY <1>8 DEF LeaveScope, TraceInv, Recorded
  <2>2. Moves("finalise")
    BY <1>8, <2>1 DEF LeaveScope, config, gateVars, durable, Resting
  <2>3. "finalise" \in CallSteps \ {"idle", "done"}
    BY DEF CallSteps
  <2> HIDE DEF Moves
  <2> QED BY <1>1, <2>2, <2>3
<1>9. CASE TakeLock(c)
  <2>1. outcome[c] # "none"
    BY <1>9 DEF TakeLock, TraceInv, Recorded
  <2>2. Moves("persist")
    BY <1>9, <2>1 DEF TakeLock, MyTurn, config, durable, Resting
  <2>3. "persist" \in CallSteps \ {"idle", "done"}
    BY DEF CallSteps
  <2> HIDE DEF Moves
  <2> QED BY <1>1, <2>2, <2>3
<1>10. CASE InterruptSerial(c)
  <2>1. /\ w[c] \notin Resting /\ pc = "run"
        /\ UNCHANGED <<kind, cut, turn, pc, ordinal, claimed, trace, envelopes, answer, finished, outcome>>
        /\ IF w[c] = "persist" THEN next' = next + 1 /\ lock' = 0 ELSE UNCHANGED <<next, lock>>
    BY <1>10 DEF InterruptSerial, Advance, config, durable, Resting
  <2>2. PICK to \in {"cancelled", "raised"} : /\ to = "cancelled" => w[c] \in {"execute", "await"}
                                              /\ w' = [w EXCEPT ![c] = to]
    BY <1>10 DEF InterruptSerial
  <2>3. CASE w[c] = "persist"
    <3>1. to = "raised"
      BY <2>2, <2>3
    <3> QED BY <2>1, <2>2, <2>3, <3>1, CallSkipped
  <2>4. CASE w[c] # "persist"
    <3>1. Moves(to)
      BY <2>1, <2>2, <2>4
    <3>2. to \in CallSteps \ {"idle", "done"}
      BY DEF CallSteps
    <3> HIDE DEF Moves
    <3> QED BY <1>1, <3>1, <3>2
  <2> QED BY <2>3, <2>4
<1>11. CASE PersistFails(c)
  <2>1. /\ w[c] = "persist" /\ next' = next + 1 /\ lock' = 0 /\ w' = [w EXCEPT ![c] = "raised"]
        /\ UNCHANGED <<kind, cut, turn, pc, ordinal, claimed, trace, envelopes, answer, outcome>>
        /\ finished' = IF c \in FanOut /\ pc = "collect" THEN Append(finished, c) ELSE finished
    BY <1>11 DEF PersistFails, Advance, Left, config
  <2>2. pc = "collect" => c \in FanOut
    <3>1. w[c] \notin Resting
      BY <2>1 DEF Resting
    <3> QED BY <3>1, UnderWay
  <2> QED BY <2>1, <2>2, CallSkipped
<1> HIDE DEF Moves
<1> QED BY <1>2, <1>3, <1>4, <1>5, <1>6, <1>7, <1>8, <1>9, <1>10, <1>11, CallRecorded, CancelledRecorded, SerialEnds DEF Call

LEMMA TraceStep == EffectsInv /\ EffectsInv' /\ TraceInv /\ [ToolNext]_toolVars => TraceInv'
<1> SUFFICES ASSUME EffectsInv, EffectsInv', TraceInv, [ToolNext]_toolVars PROVE TraceInv'
  OBVIOUS
<1>1. CASE UNCHANGED toolVars
  BY <1>1, TraceAside DEF toolVars, config, gateVars, durable
<1>2. CASE SetPolicy \/ Stop \/ Interrupt \/ Abort
  <2>1. /\ UNCHANGED <<kind, cut, turn, w, outcome, ordinal, claimed, next, lock, trace, finished, envelopes, answer>>
        /\ \/ pc' = pc
           \/ pc \in {"collect", "cancel", "abort", "gather"} /\ pc' \in {"cancel", "gather"}
    BY <1>2 DEF SetPolicy, Stop, Interrupt, Abort, config, gateVars, durable
  <2> QED BY <2>1, TraceAside
<1>3. CASE SearchEnds
  <2>1. UNCHANGED <<kind, cut, turn, w, ordinal, claimed, next, lock, trace, finished, envelopes, answer, pc>>
    BY <1>3 DEF SearchEnds, config, gateVars, durable
  <2>2. \A d \in Calls : outcome[d] # "none" => outcome'[d] # "none"
    <3>1. PICK r \in {"ok", "error"} : outcome' = [c \in Calls |-> IF c \in web.waiters THEN r ELSE outcome[c]]
      BY <1>3 DEF SearchEnds
    <3>2. \A d \in Calls : outcome'[d] = r \/ outcome'[d] = outcome[d]
      BY <3>1
    <3> QED BY <3>2
  <2> QED BY <2>1, <2>2, TraceAside
<1>4. CASE NoticeStop \/ Commit \/ RejectContext \/ RuntimeFails \/ Gather
  <2>1. /\ UNCHANGED <<kind, cut, turn, w, outcome, ordinal, claimed, next, lock, finished, envelopes>> /\ pc' = "end"
        /\ \/ answer' = "rolledback" /\ trace' = <<>>
           \/ answer' \in {"committed", "rejected"} /\ trace' = trace /\ pc \in Quiet
    BY <1>4 DEF NoticeStop, Commit, RejectContext, RuntimeFails, Gather, Ends, Quiet, config, gateVars
  <2> QED BY <2>1, AnswerCloses
<1>5. CASE \E c \in Calls : Call(c)
  BY <1>5, TraceCallStep
<1> QED BY <1>1, <1>2, <1>3, <1>4, <1>5, TurnBegins, FanOutBegins, ResultCollected, SerialBegins, WorkersCancelled
        DEF ToolNext, Runtime

LEMMA OddsStep == Odds /\ [ToolNext]_toolVars => Odds'
<1> SUFFICES ASSUME Odds, [ToolNext]_toolVars PROVE Odds'
  OBVIOUS
<1>1. ASSUME UNCHANGED <<allowed, approval>>, aborted' = aborted \/ aborted' = TRUE, stopped' = stopped \/ stopped' = TRUE,
             settled' \subseteq intents'
      PROVE  Odds'
  BY <1>1 DEF Odds
<1>2. settled \subseteq intents
  BY DEF Odds
<1>3. CASE UNCHANGED toolVars
  BY <1>1, <1>2, <1>3 DEF toolVars, config, gateVars, durable
<1>4. CASE SetPolicy \/ Stop \/ Interrupt \/ RuntimeFails
  BY <1>1, <1>2, <1>4 DEF SetPolicy, Stop, Interrupt, RuntimeFails, config, gateVars, durable
<1>5. CASE BeginTurn \/ Dispatch \/ Collect \/ BeginSerial \/ SearchEnds
  BY <1>1, <1>2, <1>5 DEF BeginTurn, Dispatch, Collect, BeginSerial, SearchEnds, config, gateVars, durable
<1>6. CASE NoticeStop \/ Commit \/ RejectContext \/ CancelWorkers \/ Abort \/ Gather
  BY <1>1, <1>2, <1>6 DEF NoticeStop, Commit, RejectContext, CancelWorkers, Abort, Gather, config, gateVars, durable
<1>7. ASSUME NEW c \in Calls, Call(c) PROVE Odds'
  <2>1. CASE StopWorker(c) \/ Govern(c) \/ GateUnreadable(c) \/ IntentFails(c) \/ EnterScope(c) \/ ScopeFails(c)
    BY <1>1, <1>2, <2>1 DEF StopWorker, Govern, GateUnreadable, IntentFails, EnterScope, ScopeFails, config, gateVars, durable
  <2>2. CASE Execute(c) \/ JoinSearch(c) \/ TakeSearch(c) \/ LeaveScope(c) \/ InterruptSerial(c) \/ Refuse(c)
    BY <1>1, <1>2, <2>2 DEF Execute, JoinSearch, TakeSearch, LeaveScope, InterruptSerial, Refuse, config, gateVars, durable
  <2>3. CASE TakeLock(c) \/ PersistCancelled(c) \/ EndSerial(c)
    BY <1>1, <1>2, <2>3 DEF TakeLock, PersistCancelled, EndSerial, config, gateVars, durable
  <2>4. CASE Intent(c) \/ Persist(c) \/ PersistFails(c)
    BY <1>1, <1>2, <2>4 DEF Intent, Persist, PersistFails, config, gateVars
  <2> QED BY <1>7, <2>1, <2>2, <2>3, <2>4 DEF Call
<1> QED BY <1>3, <1>4, <1>5, <1>6, <1>7 DEF ToolNext, Runtime

LEMMA TraceInitial == ToolInit => TraceInv /\ Odds
<1> SUFFICES ASSUME ToolInit PROVE TraceInv /\ Odds
  OBVIOUS
<1>1. /\ (\A c \in Calls : w[c] = "idle" /\ outcome[c] = "none" /\ ordinal[c] = 0) /\ ordinal \in [Calls -> Nat]
      /\ claimed = 0 /\ next = 0 /\ lock = 0 /\ trace = <<>> /\ envelopes = <<>> /\ finished = <<>>
      /\ answer = "open" /\ pc = "turn" /\ aborted = FALSE /\ stopped = FALSE /\ settled = {} /\ intents = {}
  BY DEF ToolInit
<1>2. Made = {} /\ Cardinality({}) = 0
  BY <1>1, FS_EmptySet DEF Made
<1>3. <<>> \in Seq(Calls) /\ Len(<<>>) = 0 /\ IsInjective(<<>>) /\ Range(<<>>) = {}
  BY DEF IsInjective, Range
<1>4. Len(ResultsShown) = 0
  <2>1. EffectsInv
    BY EffectsInitial
  <2>2. PICK r : r = ResultsShown
    OBVIOUS
  <2>3. <<>> \in Seq(Envelopes)
    OBVIOUS
  <2>4. PICK A : A = {"result"} \X Calls
    OBVIOUS
  <2>5. PICK E : E = Envelopes
    OBVIOUS
  <2>6. PICK s \in Seq(E) : s = <<>>
    BY <2>3, <2>5
  <2>7. Filtered(s, A) \in Seq(E) /\ Len(Filtered(s, A)) <= Len(s)
    BY FilteredElements
  <2>8. r = Filtered(s, A)
    BY <1>1, <2>2, <2>4, <2>6 DEF ResultsShown
  <2>9. Len(r) \in Nat /\ Len(r) <= 0
    BY <2>6, <2>7, <2>8
  <2> QED BY <2>2, <2>9
<1>5. Tickets /\ Gated
  BY <1>1, <1>2 DEF Tickets, Gated
<1>6. Recorded /\ Wired
  BY <1>1, <1>3, <1>4 DEF Recorded, Wired, Asked
<1>7. Queued /\ Levels
  BY <1>1, <1>3, <1>4 DEF Queued, Levels, Quiet
<1>8. Odds
  BY <1>1 DEF Odds, ToolInit
<1> QED BY <1>5, <1>6, <1>7, <1>8 DEF TraceInv

\* The trace is faithful (TraceIsFaithful): whatever order the handlers of a batch end
\* in, and whichever of them fails, is refused, stopped or interrupted, what the client
\* has been shown is the beginning of the trace in the order of the dispatch, and an
\* answer that is kept, or rejected for its context, keeps the trace of every call it
\* made, each once, with its outcome.
THEOREM TraceFaithful == ToolSpec => []TraceIsFaithful
<1>1. EffectsInv /\ TraceInv /\ Odds => TraceIsFaithful
  <2> SUFFICES ASSUME EffectsInv, TraceInv, Odds PROVE TraceIsFaithful
    OBVIOUS
  <2>1. /\ Made \subseteq Calls /\ IsFiniteSet(Calls) /\ IsFiniteSet(Made) /\ claimed \in Nat /\ next \in Nat
        /\ trace \in Seq(Calls) /\ ordinal \in [Calls -> Nat] /\ Len(ResultsShown) \in Nat
    BY TraceTypes
  <2>2. claimed \in 0..N /\ next \in 0..claimed
    <3>1. N \in Nat /\ Cardinality(Calls) = N
      <4>1. N \in Nat /\ Calls = 1..N
        BY ToolAssumption DEF Calls
      <4>2. Cardinality(1..N) = IF 1 > N THEN 0 ELSE N - 1 + 1
        BY <4>1, FS_Interval
      <4> QED BY <4>1, <4>2
    <3>2. Cardinality(Made) <= Cardinality(Calls)
      BY <2>1, FS_Subset
    <3> QED BY <2>1, <3>1, <3>2 DEF TraceInv, Tickets, Gated
  <2>3. IsInjective(trace)
    <3>1. ASSUME NEW i \in 1..Len(trace), NEW j \in 1..Len(trace), trace[i] = trace[j] PROVE i = j
      <4>1. ordinal[trace[i]] \in Nat /\ ordinal[trace[j]] \in Nat /\ i \in Nat /\ j \in Nat
        BY <2>1
      <4>2. ~(i < j) /\ ~(j < i)
        BY <3>1, <4>1 DEF TraceInv, Recorded
      <4> QED BY <4>1, <4>2
    <3>2. DOMAIN trace = 1..Len(trace)
      BY <2>1
    <3> QED BY <3>1, <3>2 DEF IsInjective
  <2>4. ToolTypeOK
    <3>1. /\ policy \in [Governed -> Policies] /\ turn \in 0..2 /\ used \in 0..MaxExternal
          /\ w \in [Calls -> CallSteps] /\ outcome \in [Calls -> {"none", "denied", "ok", "error"}]
          /\ web.task \in {"none", "running", "ok"} /\ web.waiters \subseteq Calls /\ intents \subseteq Calls
          /\ pc \in BatchSteps
      BY DEF EffectsInv, CallTypes, BatchSteps
    <3>2. allowed \subseteq Kinds /\ approval \subseteq Governed /\ aborted \in BOOLEAN /\ stopped \in BOOLEAN /\ settled \subseteq intents
      BY DEF Odds
    <3>3. /\ lock # 0 => lock \in Calls /\ w[lock] = "persist" /\ ordinal[lock] = next
          /\ IsInjective(finished) /\ IsInjective(envelopes) /\ answer \in {"open", "committed", "rolledback", "rejected"}
      BY DEF TraceInv, Gated, Queued, Wired, Levels
    <3> QED BY <2>1, <2>2, <2>3, <3>1, <3>2, <3>3 DEF ToolTypeOK, BatchSteps
  <2>5. WireFollowsTrace
    <3> SUFFICES ASSUME answer # "rolledback"
                 PROVE  /\ Len(ResultsShown) <= Len(trace)
                        /\ \A i \in 1..Len(ResultsShown) : ResultsShown[i][2] = trace[i] /\ ordinal[trace[i]] = i - 1
      BY DEF WireFollowsTrace
    <3> QED BY DEF TraceInv, Wired
  <2>6. TraceIsExact
    <3> SUFFICES ASSUME answer \in {"committed", "rejected"}
                 PROVE  /\ Len(trace) = claimed /\ Len(ResultsShown) = claimed
                        /\ \A i \in 1..Len(trace) : ordinal[trace[i]] = i - 1 /\ outcome[trace[i]] # "none"
      BY DEF TraceIsExact
    <3>1. Len(trace) = claimed /\ Len(ResultsShown) = claimed
      BY DEF TraceInv, Levels
    <3> QED BY <3>1 DEF TraceInv, Wired, Recorded
  <2> QED BY <2>4, <2>5, <2>6 DEF TraceIsFaithful
<1>2. ToolInit => EffectsInv /\ TraceInv /\ Odds
  BY EffectsInitial, TraceInitial
<1>3. (EffectsInv /\ TraceInv /\ Odds) /\ [ToolNext]_toolVars => (EffectsInv /\ TraceInv /\ Odds)'
  BY EffectsStep, TraceStep, OddsStep
<1> QED BY <1>1, <1>2, <1>3, PTL DEF ToolSpec

-----------------------------------------------------------------------------
(* The lists.  A walk is at its cursor: what keeps its place has been shown  *)
(* and is behind the cursor (Behind), or is still ahead of it (Ahead), since *)
(* the order of a list is total and the cursor only moves along it.          *)

\* What every list is ordered by.
LEMMA ShapeOf ==
    ASSUME NEW l \in Lists
    PROVE  /\ Shapes[l].by \in {"made", "touched", "version", "id"} /\ Shapes[l].newest \in BOOLEAN
           /\ Shapes[l].by = "touched" => Shapes[l].newest
<1>1. l \in {"collections", "sources", "documents", "artifacts", "servers", "assistants", "governed",
             "runs", "deliveries", "schedules", "audit", "messages", "members", "versions",
             "sessions", "searches", "ids"}
  BY DEF Lists, Shapes
<1>2. /\ Shapes["collections"] = CollectionsPage /\ Shapes["sources"] = SourcesPage
      /\ Shapes["documents"] = DocumentsPage /\ Shapes["artifacts"] = ArtifactsPage
      /\ Shapes["servers"] = ServersPage /\ Shapes["assistants"] = AssistantsPage
      /\ Shapes["governed"] = GovernedPage /\ Shapes["runs"] = RunsPage
      /\ Shapes["deliveries"] = DeliveriesPage /\ Shapes["schedules"] = SchedulesPage
      /\ Shapes["audit"] = AuditPage /\ Shapes["messages"] = MessagesPage
      /\ Shapes["members"] = MembersPage /\ Shapes["versions"] = VersionsPage
      /\ Shapes["sessions"] = SessionsPage /\ Shapes["searches"] = SearchesPage
      /\ Shapes["ids"] = DocumentIdsPage
  BY DEF Shapes
<1> DEFINE Sound(p) == /\ p.by \in {"made", "touched", "version", "id"} /\ p.newest \in BOOLEAN
                       /\ p.by = "touched" => p.newest
<1>3. /\ Sound(CollectionsPage) /\ Sound(SourcesPage) /\ Sound(DocumentsPage) /\ Sound(ArtifactsPage)
      /\ Sound(ServersPage) /\ Sound(AssistantsPage) /\ Sound(GovernedPage) /\ Sound(RunsPage)
      /\ Sound(DeliveriesPage) /\ Sound(SchedulesPage) /\ Sound(AuditPage) /\ Sound(MessagesPage)
      /\ Sound(MembersPage) /\ Sound(VersionsPage) /\ Sound(SessionsPage) /\ Sound(SearchesPage)
      /\ Sound(DocumentIdsPage)
  BY DEF Keyset, CollectionsPage, SourcesPage, DocumentsPage, ArtifactsPage, ServersPage,
     AssistantsPage, GovernedPage, RunsPage, DeliveriesPage, SchedulesPage, AuditPage, MessagesPage,
     MembersPage, VersionsPage, SessionsPage, SearchesPage, DocumentIdsPage
<1>4. Sound(Shapes[l])
  <2> HIDE DEF Sound
  <2> QED BY <1>1, <1>2, <1>3
<1> QED BY <1>4

\* The types of what orders a list.
KeysTyped == list \in Lists /\ table \in [RowIds -> TableRows]

\* Keys are numbers.
LEMMA KeyTyped ==
    ASSUME KeysTyped, NEW i \in RowIds
    PROVE  Key(i) \in Nat /\ i \in Nat
<1>1. table[i].made \in Nat /\ table[i].touched \in Nat /\ i \in Nat
  BY KeysetAssumption DEF KeysTyped, TableRows
<1> QED BY <1>1 DEF Key

\* The order of a list is one.
LEMMA FollowsOrders ==
    ASSUME KeysTyped
    PROVE  /\ \A i \in RowIds : ~Follows(i, i)
           /\ \A i, j \in RowIds : i = j \/ Follows(i, j) \/ Follows(j, i)
           /\ \A i, j, k \in RowIds : Follows(i, j) /\ Follows(j, k) => Follows(i, k)
<1>1. \A i \in RowIds : Key(i) \in Nat /\ i \in Nat
  BY KeyTyped
<1> QED BY <1>1 DEF Follows

\* ORDER BY lists a set of rows in the order of the list.
LEMMA OrderedRows ==
    ASSUME KeysTyped, NEW P \in SUBSET RowIds
    PROVE  \E n \in Nat : /\ n = Cardinality(P) /\ RowsInOrder(P) \in [1..n -> P]
                          /\ \A x \in P : \E i \in 1..n : RowsInOrder(P)[i] = x
                          /\ \A i, j \in 1..n : i < j => Follows(RowsInOrder(P)[j], RowsInOrder(P)[i])
<1> DEFINE R == {e \in P \X P : Follows(e[2], e[1])}
<1>1. IsFiniteSet(P)
  BY KeysetAssumption, FS_Subset
<1>2. PICK n \in Nat : n = Cardinality(P)
  BY <1>1, FS_CardinalityType
<1>3. \A x, y \in P : <<x, y>> \in R <=> Follows(y, x)
  OBVIOUS
<1>4. Orders(R, P)
  BY <1>3, FollowsOrders DEF Orders
<1> HIDE DEF R
<1>5. PICK s : Listing(s, R, P, n)
  BY <1>1, <1>2, <1>4, OrderedListExists
<1>6. s \in [1..n -> P] /\ ToSet(s) = P
  BY <1>5 DEF Listing, ToSet
<1>7. \A i, j \in 1..n : i < j => Follows(s[j], s[i])
  BY <1>3, <1>5, <1>6 DEF Listing
<1> DEFINE Good(t) == ToSet(t) = P /\ \A i, j \in 1..n : i < j => Follows(t[j], t[i])
<1>8. PICK o : o = CHOOSE t \in [1..n -> P] : Good(t)
  OBVIOUS
<1>9. o \in [1..n -> P] /\ Good(o)
  <2>1. Good(s)
    BY <1>6, <1>7
  <2> HIDE DEF Good
  <2> QED BY <1>6, <1>8, <2>1
<1>10. RowsInOrder(P) = o
  BY <1>2, <1>8 DEF RowsInOrder
<1>11. \A x \in P : \E i \in 1..n : o[i] = x
  BY <1>9 DEF ToSet
<1> QED BY <1>2, <1>9, <1>10, <1>11

\* The reader was given row i.
Given(i) == \E n \in 1..Len(given) : given[n] = i

\* A steady row has been shown or is still ahead of the cursor.
Ahead == walk = "open" /\ ~cutShort => \A i \in steady : Given(i) \/ Beyond(i)

\* What has been shown is behind the cursor, and once.
Behind ==
    ~rewound => \A i \in steady : \A n \in 1..Len(given) :
        given[n] = i => walk = "done" \/ (boundary # NoCursor /\ ~Follows(i, boundary))
Single == ~rewound => \A i \in steady : \A m, n \in 1..Len(given) : given[m] = i /\ given[n] = i => m = n

\* The inductive invariant of a walk.
KeysetInv == KeysetTypeOK /\ Ahead /\ NothingSkipped /\ Behind /\ Single

\* A page of k rows of P: in order, and the rest comes after its last row.
PageOf(page, k, P) ==
    /\ k \in Nat /\ page \in Seq(RowIds) /\ Len(page) = k
    /\ \A n \in 1..k : page[n] \in P
    /\ \A m, n \in 1..k : m < n => Follows(page[n], page[m])
    /\ \A x \in P : (\E n \in 1..k : page[n] = x) \/ (k > 0 /\ Follows(x, page[k]))

\* Places in two sequences joined.
LEMMA PlacesJoined ==
    ASSUME NEW G \in Nat, NEW k \in Nat
    PROVE  /\ \A n \in 1..(G + k) : n \in 1..G \/ \E q \in 1..k : n = G + q
           /\ (\A n \in 1..G : n \in 1..(G + k)) /\ \A n \in 1..k : G + n \in 1..(G + k)
<1>1. ASSUME NEW n \in 1..(G + k), n \notin 1..G PROVE n - G \in 1..k /\ n = G + (n - G)
  BY <1>1
<1> QED BY <1>1

\* ... which is all of the rows that were read if there is no other page.
FirstPageOf(page, rows, k, P) ==
    /\ PageOf(page, k, P)
    /\ HasMore(rows) => k > 0
    /\ ~HasMore(rows) => \A x \in P : \E n \in 1..k : page[n] = x

\* What is read is such a page.
LEMMA PageRead ==
    ASSUME KeysTyped, NEW P \in SUBSET RowIds, NEW rows, rows = RowsInOrder(P), NEW page,
           page = SubSeq(rows, 1, IF HasMore(rows) THEN PageLimit ELSE Len(rows))
    PROVE  \E k \in Nat : FirstPageOf(page, rows, k, P)
<1>1. PICK L \in Nat : /\ rows \in [1..L -> P]
                       /\ \A x \in P : \E i \in 1..L : rows[i] = x
                       /\ \A i, j \in 1..L : i < j => Follows(rows[j], rows[i])
  BY OrderedRows
<1>2. rows \in Seq(P) /\ Len(rows) = L
  BY <1>1
<1>3. PICK k \in 0..L : k = IF HasMore(rows) THEN PageLimit ELSE L
  BY <1>2, KeysetAssumption DEF HasMore
<1>4. page = SubSeq(rows, 1, k)
  BY <1>2, <1>3
<1>5. page \in Seq(P) /\ Len(page) = k /\ \A n \in 1..k : page[n] = rows[n] /\ n \in 1..L
  BY <1>2, <1>3, <1>4
<1>6. page \in Seq(RowIds) /\ \A n \in 1..k : page[n] \in P
  BY <1>5
<1>7. \A m, n \in 1..k : m < n => Follows(page[n], page[m])
  BY <1>1, <1>5
<1>8. ASSUME NEW x \in P PROVE (\E n \in 1..k : page[n] = x) \/ (k > 0 /\ HasMore(rows) /\ Follows(x, page[k]))
  <2>1. PICK i \in 1..L : rows[i] = x
    BY <1>1
  <2>2. CASE i \in 1..k
    BY <1>5, <2>1, <2>2
  <2>3. CASE i \notin 1..k
    <3>1. k < i /\ k # L
      BY <1>3, <2>3
    <3>2. HasMore(rows) /\ k \in 1..L
      BY <1>3, <3>1, KeysetAssumption
    <3>3. Follows(rows[i], rows[k]) /\ page[k] = rows[k] /\ k > 0
      BY <1>1, <1>5, <3>1, <3>2
    <3> QED BY <2>1, <3>2, <3>3
  <2> QED BY <2>2, <2>3
<1>9. HasMore(rows) => k > 0
  BY <1>3, KeysetAssumption
<1>10. k \in Nat
  BY <1>3
<1>11. PageOf(page, k, P)
  BY <1>5, <1>6, <1>7, <1>8, <1>10 DEF PageOf
<1> QED BY <1>8, <1>9, <1>10, <1>11 DEF FirstPageOf

\* The order of a list is that of its rows.
LEMMA OrderKept ==
    ASSUME UNCHANGED <<list, table>>
    PROVE  /\ \A i, j : Follows(i, j)' <=> Follows(i, j)
           /\ \A i, j : boundary' = j => (Follows(i, boundary)' <=> Follows(i, j))
<1>1. \A i : Key(i)' = Key(i)
  BY DEF Key, Shape
<1>2. Shape' = Shape
  BY DEF Shape
<1>3. \A j : boundary' = j => Key(boundary)' = Key(j)
  BY DEF Key, Shape
<1> QED BY <1>1, <1>2, <1>3 DEF Follows

\* A page is shown, and the cursor moves to its last row or the walk ends.
LEMMA PageShown ==
    ASSUME KeysetInv, walk = "open", UNCHANGED <<list, table, rowEdits, steady, cutShort, rewound>>,
           NEW P, P = {i \in InList : Beyond(i)}, NEW page, NEW k, PageOf(page, k, P), given' = given \o page,
           \/ boundary' = Last(page) /\ walk' = "open" /\ k > 0
           \/ boundary' = NoCursor /\ walk' = "done" /\ \A x \in P : \E n \in 1..k : page[n] = x
    PROVE  KeysetInv'
<1>1. /\ list \in Lists /\ table \in [RowIds -> TableRows] /\ given \in Seq(RowIds) /\ steady \subseteq InList
      /\ boundary \in RowIds \cup {NoCursor} /\ NoCursor \notin RowIds /\ KeysTyped
  BY KeysetAssumption DEF KeysetInv, KeysetTypeOK, KeysTyped, InList
<1>2. /\ k \in Nat /\ page \in Seq(RowIds) /\ Len(page) = k
      /\ (\A n \in 1..k : page[n] \in P)
      /\ (\A m, n \in 1..k : m < n => Follows(page[n], page[m]))
      /\ \A x \in P : (\E n \in 1..k : page[n] = x) \/ (k > 0 /\ Follows(x, page[k]))
  BY DEF PageOf
<1>3. PICK G \in Nat : G = Len(given)
  BY <1>1
<1>4. /\ given' \in Seq(RowIds) /\ Len(given') = G + k
      /\ (\A n \in 1..G : given'[n] = given[n])
      /\ \A n \in 1..k : given'[G + n] = page[n]
  <2>1. given \in Seq(RowIds) /\ page \in Seq(RowIds) /\ G \in Nat /\ k \in Nat
        /\ Len(given) = G /\ Len(page) = k
    BY <1>1, <1>2, <1>3
  <2>2. PICK g : g = given
    OBVIOUS
  <2>3. g \in Seq(RowIds) /\ Len(g) = G
    BY <2>1, <2>2
  <2>4. /\ g \o page \in Seq(RowIds) /\ Len(g \o page) = G + k
        /\ (\A n \in 1..G : (g \o page)[n] = g[n])
        /\ \A n \in 1..k : (g \o page)[G + n] = page[n]
    <3>1. page \in Seq(RowIds) /\ Len(page) = k /\ G \in Nat /\ k \in Nat
      BY <2>1
    <3>2. g \o page \in Seq(RowIds) /\ Len(g \o page) = G + k
      BY ONLY <2>3, <3>1
    <3>3. \A n \in 1..G : (g \o page)[n] = g[n]
      BY ONLY <2>3, <3>1
    <3>4. ASSUME NEW n \in 1..k PROVE (g \o page)[G + n] = page[n]
      BY ONLY <2>3, <3>1, n \in 1..k
    <3> QED BY ONLY <3>2, <3>3, <3>4
  <2> QED BY <2>2, <2>4
<1>5. /\ \A n \in 1..(G + k) : n \in 1..G \/ \E q \in 1..k : n = G + q
      /\ (\A n \in 1..G : n \in 1..(G + k)) /\ \A n \in 1..k : G + n \in 1..(G + k)
  BY <1>2, PlacesJoined
<1>6. (\A n \in 1..G : n \in 1..(G + k)) /\ \A n \in 1..k : G + n \in 1..(G + k)
  BY <1>5
<1>7. P \subseteq RowIds /\ steady \subseteq RowIds /\ \A i \in P : Beyond(i)
  BY DEF InList, KeysetInv, KeysetTypeOK
<1>8. Last(page) = page[k]
  BY <1>2 DEF Last
<1>9. k > 0 => k \in 1..k /\ page[k] \in P /\ page[k] \in RowIds
  BY <1>2, <1>7
<1>10. KeysetTypeOK'
  <2>1. walk' \in {"open", "done"} /\ boundary' \in RowIds \cup {NoCursor}
    BY <1>8, <1>9
  <2>2. walk' = "done" => boundary' = NoCursor
    OBVIOUS
  <2>3. ASSUME boundary' # NoCursor PROVE boundary' = Last(given')
    <3>1. k > 0 /\ boundary' = page[k]
      BY <1>8, <2>3
    <3>2. Last(given') = given'[G + k] /\ given'[G + k] = page[k]
      BY <1>4, <1>9, <3>1 DEF Last
    <3> QED BY <3>1, <3>2
  <2>4. steady' \subseteq {i \in RowIds : table'[i].live /\ table'[i].fits}
    BY <1>1 DEF InList
  <2>5. list' \in Lists /\ table' \in [RowIds -> TableRows] /\ rowEdits' \in 0..MaxRowEdits
        /\ cutShort' \in BOOLEAN /\ rewound' \in BOOLEAN
    BY <1>1 DEF KeysetInv, KeysetTypeOK
  <2> QED BY <1>4, <2>1, <2>2, <2>3, <2>4, <2>5 DEF KeysetTypeOK
<1>11. \A i : Given(i) => Given(i)'
  BY <1>3, <1>4, <1>6 DEF Given
<1>12. \A n \in 1..k : Given(page[n])'
  BY <1>4, <1>6 DEF Given
<1>13. \A i \in steady : ~cutShort => Given(i)' \/ i \in P
  BY <1>1, <1>11 DEF KeysetInv, Ahead
<1>14. Ahead'
  <2> SUFFICES ASSUME walk' = "open", ~cutShort, NEW i \in steady PROVE Given(i)' \/ Beyond(i)'
    BY DEF Ahead
  <2>1. k > 0 /\ boundary' = page[k]
    BY <1>8
  <2>2. CASE i \in P
    <3>1. CASE \E n \in 1..k : page[n] = i
      BY <1>12, <3>1
    <3>2. CASE Follows(i, page[k])
      <4>1. Follows(i, boundary)' 
        BY <2>1, <3>2, OrderKept
      <4>2. table[page[k]].live
        BY <1>2, <1>9, <2>1 DEF InList
      <4> QED BY <2>1, <4>1, <4>2 DEF Beyond
    <3> QED BY <1>2, <2>2, <3>1, <3>2
  <2> QED BY <1>13, <2>2
<1>15. NothingSkipped'
  <2> SUFFICES ASSUME walk' = "done", ~cutShort, NEW i \in steady PROVE Given(i)'
    BY DEF NothingSkipped, Given
  <2>1. \A x \in P : \E n \in 1..k : page[n] = x
    OBVIOUS
  <2> QED BY <1>12, <1>13, <2>1
<1>16. ASSUME NEW i \in steady, NEW n \in 1..G, given[n] = i, ~rewound
       PROVE  boundary # NoCursor /\ boundary \in RowIds /\ ~Follows(i, boundary) /\ i \notin P
  <2>1. boundary # NoCursor /\ ~Follows(i, boundary)
    BY <1>3, <1>16 DEF KeysetInv, Behind
  <2> QED BY <1>1, <1>7, <2>1 DEF Beyond
<1>17. Behind'
  <2> SUFFICES ASSUME ~rewound, NEW i \in steady, NEW n \in 1..(G + k), given'[n] = i, walk' # "done"
               PROVE  boundary' # NoCursor /\ ~Follows(i, boundary)'
    BY <1>4 DEF Behind
  <2>1. k > 0 /\ boundary' = page[k] /\ page[k] \in RowIds /\ page[k] \in P
    BY <1>8, <1>9
  <2>2. ~Follows(i, page[k])
    <3>1. CASE n \in 1..G
      <4>1. boundary # NoCursor /\ boundary \in RowIds /\ ~Follows(i, boundary)
        BY <1>4, <1>16, <3>1
      <4>2. Follows(page[k], boundary)
        BY <1>7, <2>1, <4>1 DEF Beyond
      <4> QED BY <1>1, <1>7, <2>1, <4>1, <4>2, FollowsOrders
    <3>2. CASE \E q \in 1..k : n = G + q
      <4>1. PICK m \in 1..k : page[m] = i
        BY <1>4, <3>2
      <4>2. m = k \/ Follows(page[k], i)
        BY <1>2, <1>9, <2>1, <4>1
      <4> QED BY <1>1, <1>7, <2>1, <4>1, <4>2, FollowsOrders
    <3> QED BY <1>5, <3>1, <3>2
  <2>3. boundary' # NoCursor
    BY <1>1, <2>1
  <2> QED BY <2>1, <2>2, <2>3, OrderKept
<1>18. Single'
  <2> SUFFICES ASSUME ~rewound, NEW i \in steady, NEW m \in 1..(G + k), NEW n \in 1..(G + k),
                      given'[m] = i, given'[n] = i
               PROVE  m = n
    BY <1>4 DEF Single
  <2>1. \A p \in 1..(G + k) : given'[p] = i => (p \in 1..G /\ given[p] = i) \/ \E q \in 1..k : p = G + q /\ page[q] = i
    BY <1>4, <1>5, SMTT(30)
  <2>2. CASE \E p \in 1..G : given[p] = i
    <3>1. i \notin P
      BY <1>16, <2>2
    <3>3. \A q \in 1..k : page[q] # i
      BY <1>2, <3>1
    <3>2. m \in 1..G /\ given[m] = i /\ n \in 1..G /\ given[n] = i
      BY <2>1, <3>3
    <3> QED BY <1>3, <3>2 DEF KeysetInv, Single
  <2>3. CASE ~\E p \in 1..G : given[p] = i
    <3>1. PICK p \in 1..k : m = G + p /\ page[p] = i
      BY <2>1, <2>3
    <3>2. PICK q \in 1..k : n = G + q /\ page[q] = i
      BY <2>1, <2>3
    <3>3. ~(p < q) /\ ~(q < p)
      BY <1>1, <1>2, <1>7, <3>1, <3>2, FollowsOrders
    <3>4. p = q
      <4>1. p \in Int /\ q \in Int
        BY <1>2
      <4> QED BY <3>3, <4>1
    <3> QED BY <3>1, <3>2, <3>4
  <2> QED BY <2>2, <2>3
<1> QED BY <1>10, <1>14, <1>15, <1>17, <1>18 DEF KeysetInv

\* Fetch and ReindexTenant show such a page.
LEMMA FetchStep ==
    ASSUME KeysetInv, (\E l \in Lists : Fetch(l)) \/ ReindexTenant
    PROVE  KeysetInv'
<1>1. KeysTyped /\ walk = "open" /\ UNCHANGED <<list, table, rowEdits, steady, cutShort, rewound>>
  BY DEF KeysetInv, KeysetTypeOK, KeysTyped, Fetch, ReindexTenant
<1>2. PICK P \in SUBSET RowIds : P = {i \in InList : Beyond(i)}
  BY DEF InList
<1>3. PICK page : page = SubSeq(Remaining, 1, IF HasMore(Remaining) THEN PageLimit ELSE Len(Remaining))
  OBVIOUS
<1>4. PICK rows : rows = Remaining
  OBVIOUS
<1>5. KeysTyped /\ rows = RowsInOrder(P) /\ page = SubSeq(rows, 1, IF HasMore(rows) THEN PageLimit ELSE Len(rows))
  BY <1>1, <1>2, <1>3, <1>4 DEF Remaining
<1>6. PICK k \in Nat : FirstPageOf(page, rows, k, P)
  BY <1>5, PageRead
<1>7. /\ PageOf(page, k, P)
      /\ HasMore(rows) => k > 0
      /\ ~HasMore(rows) => \A x \in P : \E n \in 1..k : page[n] = x
  BY <1>6 DEF FirstPageOf
<1>8. given' = given \o page
  BY <1>3 DEF Fetch, ReindexTenant
<1>9. CASE \E l \in Lists : Fetch(l)
  <2>1. \/ HasMore(rows) /\ boundary' = Last(page) /\ walk' = "open"
        \/ ~HasMore(rows) /\ boundary' = NoCursor /\ walk' = "done"
    BY <1>3, <1>9, <1>4 DEF Fetch
  <2>2. \/ boundary' = Last(page) /\ walk' = "open" /\ k > 0
        \/ boundary' = NoCursor /\ walk' = "done" /\ \A x \in P : \E n \in 1..k : page[n] = x
    BY <1>7, <2>1
  <2> QED BY <1>1, <1>2, <1>7, <1>8, <2>2, PageShown
<1>10. CASE ReindexTenant
  <2>1. \/ page # <<>> /\ boundary' = Last(page) /\ walk' = "open"
        \/ page = <<>> /\ boundary' = NoCursor /\ walk' = "done"
    BY <1>3, <1>10 DEF ReindexTenant
  <2>2. page = <<>> <=> k = 0
    BY <1>7 DEF PageOf
  <2>3. k = 0 => P = {}
    BY <1>7 DEF PageOf
  <2>4. \/ boundary' = Last(page) /\ walk' = "open" /\ k > 0
        \/ boundary' = NoCursor /\ walk' = "done" /\ \A x \in P : \E n \in 1..k : page[n] = x
    BY <1>7, <2>1, <2>2, <2>3
  <2> QED BY <1>1, <1>2, <1>7, <1>8, <2>4, PageShown
<1> QED BY <1>9, <1>10

\* A change of one row that keeps the steady rows where they are, relative to the cursor.
LEMMA EditStep ==
    ASSUME KeysetInv, NEW r \in RowIds, NEW entered \in TableRows, Edits(r, entered), steady' \subseteq steady,
           cutShort' \in BOOLEAN, rewound' \in BOOLEAN, cutShort => cutShort', rewound => rewound',
           r \in steady' => entered.live /\ entered.fits,
           r = boundary /\ ~cutShort' => entered.live \/ Shape.by = "id",
           \A i \in steady' : boundary \in RowIds => (Follows(i, boundary) => Follows(i, boundary)'),
           ~rewound' => \A i \in steady' : boundary \in RowIds => (Follows(i, boundary)' => Follows(i, boundary))
    PROVE  KeysetInv'
<1>1. /\ walk = "open" /\ rowEdits < MaxRowEdits /\ rowEdits' = rowEdits + 1 /\ table' = [table EXCEPT ![r] = entered]
      /\ UNCHANGED <<list, walk, boundary, given>> /\ walk' = "open"
  BY DEF Edits
<1>2. /\ list \in Lists /\ table \in [RowIds -> TableRows] /\ boundary \in RowIds \cup {NoCursor}
      /\ given \in Seq(RowIds) /\ rowEdits \in 0..MaxRowEdits /\ NoCursor \notin RowIds
      /\ (boundary # NoCursor => boundary = Last(given)) /\ \A i \in steady : i \in RowIds /\ table[i].live /\ table[i].fits
  BY KeysetAssumption DEF KeysetInv, KeysetTypeOK
<1>3. table' \in [RowIds -> TableRows] /\ table'[r] = entered /\ \A i \in RowIds : i # r => table'[i] = table[i]
  BY <1>1, <1>2
<1>4. \A i \in steady' : i \in RowIds /\ table'[i].live /\ table'[i].fits
  BY <1>2, <1>3
<1>5. KeysetTypeOK'
  <2>1. rowEdits' \in 0..MaxRowEdits
    BY <1>1, <1>2, KeysetAssumption
  <2>2. walk' \in {"open", "done"} /\ walk' # "done"
    BY <1>1
  <2> QED BY <1>1, <1>2, <1>3, <1>4, <2>1, <2>2 DEF KeysetTypeOK
<1>6. \A i : Given(i) => Given(i)'
  BY <1>1 DEF Given
<1>7. ASSUME NEW i \in steady', Beyond(i), ~cutShort' PROVE Beyond(i)'
  <2>1. CASE boundary = NoCursor
    BY <1>1, <2>1 DEF Beyond
  <2>2. CASE boundary # NoCursor
    <3>1. boundary \in RowIds /\ Follows(i, boundary)' /\ (table[boundary].live \/ Shape.by = "id")
      BY <1>2, <1>7, <2>2 DEF Beyond
    <3>2. table'[boundary].live \/ Shape.by = "id"
      BY <1>3, <1>7, <3>1
    <3>3. Shape' = Shape
      BY <1>1 DEF Shape
    <3> QED BY <1>1, <3>1, <3>2, <3>3 DEF Beyond
  <2> QED BY <2>1, <2>2
<1>8. Ahead'
  <2> SUFFICES ASSUME ~cutShort', NEW i \in steady' PROVE Given(i)' \/ Beyond(i)'
    BY DEF Ahead
  <2>1. Given(i) \/ Beyond(i)
    BY <1>1 DEF KeysetInv, Ahead
  <2> QED BY <1>6, <1>7, <2>1
<1>9. NothingSkipped'
  BY <1>1 DEF NothingSkipped
<1>10. Behind'
  <2> SUFFICES ASSUME ~rewound', NEW i \in steady', NEW n \in 1..Len(given), given[n] = i
               PROVE  boundary # NoCursor /\ ~Follows(i, boundary)'
    BY <1>1 DEF Behind
  <2>1. boundary # NoCursor /\ ~Follows(i, boundary)
    BY <1>1 DEF KeysetInv, Behind
  <2> QED BY <1>2, <2>1
<1>11. Single'
  BY <1>1 DEF KeysetInv, Single
<1> QED BY <1>5, <1>8, <1>9, <1>10, <1>11 DEF KeysetInv

\* A row whose key stands keeps its place.
LEMMA PlaceKept ==
    ASSUME UNCHANGED <<list, boundary>>, NEW i, Key(i)' = Key(i), Key(boundary)' = Key(boundary)
    PROVE  Follows(i, boundary)' <=> Follows(i, boundary)
<1>1. Shape' = Shape
  BY DEF Shape
<1> QED BY <1>1 DEF Follows

\* What orders a row is its creation, its last change or its id.
LEMMA KeyKept ==
    ASSUME UNCHANGED list, NEW i, table'[i].made = table[i].made,
           Shape.by = "touched" => table'[i].touched = table[i].touched
    PROVE  Key(i)' = Key(i)
<1>1. Shape' = Shape
  BY DEF Shape
<1>2. CASE Shape.by = "touched"
  BY <1>1, <1>2 DEF Key
<1>3. CASE Shape.by = "id"
  BY <1>1, <1>3 DEF Key
<1>4. CASE Shape.by # "touched" /\ Shape.by # "id"
  BY <1>1, <1>4 DEF Key
<1> QED BY <1>2, <1>3, <1>4

\* A new row is neither steady nor the cursor's.
LEMMA CreateStep ==
    ASSUME KeysetInv, NEW l, NEW r \in RowIds, NEW t \in Times, Create(l, r, t)
    PROVE  KeysetInv'
<1>1. PICK entered : entered = [live |-> TRUE, made |-> t, touched |-> t, fits |-> TRUE]
  OBVIOUS
<1>2. entered \in TableRows /\ Edits(r, entered) /\ r \notin steady /\ boundary # r /\ UNCHANGED <<steady, cutShort, rewound>>
  BY <1>1 DEF Create, TableRows
<1>3. UNCHANGED <<list, boundary>> /\ table' = [table EXCEPT ![r] = entered] /\ table \in [RowIds -> TableRows]
      /\ cutShort \in BOOLEAN /\ rewound \in BOOLEAN /\ steady \subseteq RowIds
  BY <1>2 DEF Edits, KeysetInv, KeysetTypeOK
<1>4. \A i \in RowIds : i # r => table'[i] = table[i]
  BY <1>3
<1>5. \A i \in RowIds : i # r => Key(i)' = Key(i)
  BY <1>3, <1>4, KeyKept
<1>6. Key(boundary)' = Key(boundary) \/ boundary \notin RowIds
  <2> SUFFICES ASSUME boundary \in RowIds PROVE Key(boundary)' = Key(boundary)
    OBVIOUS
  <2>1. table'[boundary] = table[boundary]
    BY <1>2, <1>4
  <2> QED BY <1>3, <2>1 DEF Key, Shape
<1>7. \A i \in steady : boundary \in RowIds => (Follows(i, boundary)' <=> Follows(i, boundary))
  BY <1>2, <1>3, <1>5, <1>6, PlaceKept
<1> QED BY <1>1, <1>2, <1>3, <1>7, EditStep

\* A change moves a row of a list that is ordered by changes, and only forward.
LEMMA TouchStep ==
    ASSUME KeysetInv, NEW l, NEW r \in RowIds, NEW t \in Times, Touched(l, r, t)
    PROVE  KeysetInv'
<1>1. PICK entered : entered = [table[r] EXCEPT !.touched = t]
  OBVIOUS
<1>2. /\ Edits(r, entered) /\ table[r].live /\ t >= table[r].touched /\ UNCHANGED cutShort
      /\ steady' = (IF Shape.by = "touched" THEN steady \ {r} ELSE steady)
      /\ rewound' = (rewound \/ (Shape.by = "touched" /\ r = boundary))
  BY <1>1 DEF Touched
<1>3. UNCHANGED <<list, boundary>> /\ table' = [table EXCEPT ![r] = entered] /\ table \in [RowIds -> TableRows]
      /\ cutShort \in BOOLEAN /\ rewound \in BOOLEAN /\ steady \subseteq RowIds /\ list \in Lists
      /\ \A i \in steady : table[i].live /\ table[i].fits
  BY <1>2 DEF Edits, KeysetInv, KeysetTypeOK
<1>4. /\ entered \in TableRows /\ entered.live = table[r].live /\ entered.fits = table[r].fits /\ entered.made = table[r].made
      /\ entered.touched = t
  BY <1>1, <1>3 DEF TableRows
<1>5. table'[r] = entered /\ \A i \in RowIds : i # r => table'[i] = table[i]
  BY <1>3
<1>6. \A i \in RowIds : i # r \/ Shape.by # "touched" => Key(i)' = Key(i)
  BY <1>3, <1>4, <1>5, KeyKept
<1>7. \A i \in steady' : i \in RowIds /\ i \in steady /\ Key(i)' = Key(i)
  BY <1>2, <1>3, <1>6
<1>8. rewound' \in BOOLEAN /\ (rewound => rewound') /\ (Shape.by = "touched" /\ r = boundary => rewound')
  BY <1>2, <1>3
<1>9. \A i : i = boundary /\ i \in RowIds /\ (i # r \/ Shape.by # "touched") => Key(boundary)' = Key(boundary)
  <2> SUFFICES ASSUME boundary \in RowIds, boundary # r \/ Shape.by # "touched" PROVE Key(boundary)' = Key(boundary)
    OBVIOUS
  <2>1. table'[boundary].made = table[boundary].made /\ (Shape.by = "touched" => table'[boundary].touched = table[boundary].touched)
    BY <1>4, <1>5
  <2>2. Shape' = Shape
    BY <1>3 DEF Shape
  <2>3. CASE Shape.by = "touched"
    BY <1>3, <2>1, <2>2, <2>3 DEF Key
  <2>4. CASE Shape.by = "id"
    BY <1>3, <2>2, <2>4 DEF Key
  <2>5. CASE Shape.by # "touched" /\ Shape.by # "id"
    BY <1>3, <2>1, <2>2, <2>5 DEF Key
  <2> QED BY <2>3, <2>4, <2>5
<1>10. \A i \in steady' : boundary \in RowIds /\ (boundary # r \/ Shape.by # "touched") =>
                              (Follows(i, boundary)' <=> Follows(i, boundary))
  BY <1>3, <1>7, <1>9, PlaceKept
<1>11. ASSUME NEW i \in steady', boundary \in RowIds, Follows(i, boundary), boundary = r, Shape.by = "touched"
       PROVE  Follows(i, boundary)'
  <2>1. Shape' = Shape
    BY <1>3 DEF Shape
  <2>2. Shape.newest
    BY <1>3, <1>11, ShapeOf DEF Shape
  <2>3. Key(boundary) = table[r].touched /\ Key(boundary)' = t
    BY <1>3, <1>4, <1>5, <1>11, <2>1 DEF Key
  <2>4. Key(i)' = Key(i) /\ Key(i) \in Nat /\ table[r].touched \in Nat /\ t \in Nat /\ i \in Nat /\ r \in Nat
    <3>1. KeysTyped
      BY <1>3 DEF KeysTyped
    <3> QED BY <1>3, <1>7, <3>1, KeyTyped, KeysetAssumption DEF TableRows
  <2>5. Key(i) < table[r].touched \/ (Key(i) = table[r].touched /\ i < r)
    BY <1>11, <2>2, <2>3 DEF Follows
  <2>6. Key(i) < t \/ (Key(i) = t /\ i < r)
    BY <1>2, <2>4, <2>5
  <2> QED BY <1>3, <1>11, <2>1, <2>2, <2>3, <2>4, <2>6 DEF Follows
<1>12. steady' \subseteq steady /\ cutShort' \in BOOLEAN /\ (cutShort => cutShort')
  BY <1>2, <1>3
<1>13. r \in steady' => entered.live /\ entered.fits
  BY <1>3, <1>4, <1>12
<1> QED BY <1>2, <1>4, <1>8, <1>10, <1>11, <1>12, <1>13, EditStep

\* Neither the filter nor a deletion moves a row.
LEMMA MarkStep ==
    ASSUME KeysetInv, NEW r \in RowIds, Refilter(r) \/ \E l : Erases(l, r)
    PROVE  KeysetInv'
<1>1. PICK entered : /\ Edits(r, entered) /\ steady' = steady \ {r} /\ rewound' = rewound
                 /\ \/ entered = [table[r] EXCEPT !.fits = ~table[r].fits] /\ table[r].live /\ cutShort' = cutShort
                    \/ /\ entered = [table[r] EXCEPT !.live = FALSE]
                       /\ cutShort' = (cutShort \/ (r = boundary /\ Shape.by # "id"))
  BY DEF Refilter, Erases
<1>2. UNCHANGED <<list, boundary>> /\ table' = [table EXCEPT ![r] = entered] /\ table \in [RowIds -> TableRows]
      /\ cutShort \in BOOLEAN /\ rewound \in BOOLEAN /\ steady \subseteq RowIds
  BY <1>1 DEF Edits, KeysetInv, KeysetTypeOK
<1>3. entered \in TableRows /\ entered.made = table[r].made /\ entered.touched = table[r].touched
  <2>1. table[r] \in TableRows
    BY <1>2
  <2> QED BY <1>1, <2>1 DEF TableRows
<1>4. \A i \in RowIds : table'[i].made = table[i].made /\ table'[i].touched = table[i].touched
  BY <1>2, <1>3
<1>5. \A i \in RowIds : Key(i)' = Key(i)
  BY <1>2, <1>4, KeyKept
<1>6. boundary \in RowIds => Key(boundary)' = Key(boundary)
  BY <1>2, <1>4 DEF Key, Shape
<1>7. \A i \in steady' : boundary \in RowIds => (Follows(i, boundary)' <=> Follows(i, boundary))
  BY <1>1, <1>2, <1>5, <1>6, PlaceKept
<1>8. steady' \subseteq steady /\ r \notin steady' /\ rewound' \in BOOLEAN /\ (rewound => rewound')
  BY <1>1, <1>2
<1>9. /\ cutShort' \in BOOLEAN /\ (cutShort => cutShort')
      /\ r = boundary /\ ~cutShort' => entered.live \/ Shape.by = "id"
  <2>1. CASE entered = [table[r] EXCEPT !.fits = ~table[r].fits] /\ table[r].live /\ cutShort' = cutShort
    <3>1. entered.live = table[r].live
      BY <1>2, <2>1 DEF TableRows
    <3> QED BY <1>2, <2>1, <3>1
  <2>2. CASE cutShort' = (cutShort \/ (r = boundary /\ Shape.by # "id"))
    BY <1>2, <2>2
  <2> QED BY <1>1, <2>1, <2>2
<1> QED BY <1>1, <1>3, <1>7, <1>8, <1>9, EditStep

\* Every step keeps it.
LEMMA KeysetStep ==
    ASSUME KeysetInv, [KeysetNext]_keysetVars
    PROVE  KeysetInv'
<1>1. CASE UNCHANGED keysetVars
  <2>1. \A i : Follows(i, boundary)' <=> Follows(i, boundary)
    BY <1>1, OrderKept DEF keysetVars
  <2>2. \A i : Beyond(i)' <=> Beyond(i)
    BY <1>1, <2>1 DEF keysetVars, Beyond, Shape
  <2> QED BY <1>1, <2>1, <2>2 DEF keysetVars, KeysetInv, KeysetTypeOK, Ahead, NothingSkipped, Behind, Single, Given
<1>2. CASE (\E l \in Lists : Fetch(l)) \/ ReindexTenant
  BY <1>2, FetchStep
<1>3. CASE \E r \in RowIds, t \in Times : \E l : Create(l, r, t) \/ Touched(l, r, t)
  BY <1>3, CreateStep, TouchStep
<1>4. CASE \E r \in RowIds : Refilter(r) \/ \E l : Erases(l, r)
  BY <1>4, MarkStep
<1>5. /\ "collections" \in Lists /\ "sources" \in Lists /\ "documents" \in Lists /\ "artifacts" \in Lists
      /\ "servers" \in Lists /\ "assistants" \in Lists /\ "governed" \in Lists /\ "runs" \in Lists
      /\ "deliveries" \in Lists /\ "schedules" \in Lists /\ "audit" \in Lists /\ "messages" \in Lists
      /\ "members" \in Lists /\ "versions" \in Lists /\ "sessions" \in Lists /\ "searches" \in Lists
  BY DEF Lists, Shapes
<1>6. CASE \/ ListCollections \/ ListSources \/ ListDocuments \/ ListArtifacts \/ ListServers
           \/ ListAssistants \/ ListGoverned \/ ListRuns \/ ListDeliveries \/ ListSchedules
           \/ QueryAudit \/ ListMessages \/ ListMembers \/ ListVersions \/ ListSessions \/ ListSearches
           \/ ReindexTenant
  <2>1. (\E l \in Lists : Fetch(l)) \/ ReindexTenant
    BY <1>5, <1>6 DEF ListCollections, ListSources, ListDocuments, ListArtifacts, ListServers,
       ListAssistants, ListGoverned, ListRuns, ListDeliveries, ListSchedules, QueryAudit, ListMessages,
       ListMembers, ListVersions, ListSessions, ListSearches
  <2> QED BY <1>2, <2>1
<1>7. CASE \E i \in RowIds, t \in Times :
          \/ CreateCollection(i, t) \/ StartSession(i, t) \/ SaveSearch(i, t)
          \/ UpdateCollection(i, t) \/ RenameSession(i, t) \/ TouchSession(i, t) \/ UpdateSearch(i, t)
          \/ \E l \in Lists : CreateElsewhere(l, i, t)
  <2>1. \E r \in RowIds, t \in Times : \E l : Create(l, r, t) \/ Touched(l, r, t)
    BY <1>7 DEF CreateCollection, StartSession, SaveSearch, UpdateCollection, RenameSession, TouchSession,
       UpdateSearch, CreateElsewhere
  <2> QED BY <1>3, <2>1
<1>8. CASE \E i \in RowIds :
          \/ Refilter(i)
          \/ DeleteOwnedCollection(i) \/ DeleteChat(i) \/ DeleteSearch(i)
          \/ \E l \in Lists : RemoveElsewhere(l, i)
  <2>1. \E r \in RowIds : Refilter(r) \/ \E l : Erases(l, r)
    BY <1>8 DEF DeleteOwnedCollection, DeleteChat, DeleteSearch, RemoveElsewhere
  <2> QED BY <1>4, <2>1
<1> QED BY <1>1, <1>6, <1>7, <1>8 DEF KeysetNext

\* A walk through a list shows every row that keeps its place exactly once, for any
\* tables, page sizes and changes between the pages, unless the very row a cursor named
\* was deleted, or moved: whatever ties there are and whatever else comes, goes or moves.
THEOREM ListExact ==
    KeysetSpec => []ListIsExact
<1>1. KeysetInit => KeysetInv
  <2> SUFFICES ASSUME KeysetInit PROVE KeysetInv
    OBVIOUS
  <2>1. /\ given = <<>> /\ given \in Seq(RowIds) /\ Len(given) = 0 /\ boundary = NoCursor /\ walk = "open"
        /\ steady = InList /\ table \in [RowIds -> TableRows] /\ list \in Lists
        /\ rowEdits = 0 /\ cutShort = FALSE /\ rewound = FALSE
    BY DEF KeysetInit
  <2>2. KeysetTypeOK
    <3>1. rowEdits \in 0..MaxRowEdits
      BY <2>1, KeysetAssumption
    <3> QED BY <2>1, <3>1 DEF KeysetTypeOK, InList
  <2>3. 1..Len(given) = {}
    BY <2>1
  <2> QED BY <2>1, <2>2, <2>3 DEF KeysetInv, Ahead, NothingSkipped, Behind, Single, Beyond
<1>2. KeysetInv /\ [KeysetNext]_keysetVars => KeysetInv'
  BY KeysetStep
<1>3. KeysetInv => ListIsExact
  <2> SUFFICES ASSUME KeysetInv PROVE NoRowTwice
    BY DEF KeysetInv, ListIsExact
  <2> SUFFICES ASSUME ~rewound, NEW i \in steady
               PROVE  Cardinality({n \in 1..Len(given) : given[n] = i}) <= 1
    BY DEF NoRowTwice
  <2>1. CASE {n \in 1..Len(given) : given[n] = i} = {}
    BY <2>1, FS_EmptySet
  <2>2. CASE {n \in 1..Len(given) : given[n] = i} # {}
    <3>1. PICK m \in 1..Len(given) : given[m] = i
      BY <2>2
    <3>2. {n \in 1..Len(given) : given[n] = i} = {m}
      BY <3>1 DEF KeysetInv, Single
    <3>3. Cardinality({m}) = 1
      BY FS_Singleton
    <3> QED BY <3>2, <3>3, SMTT(30)
  <2> QED BY <2>1, <2>2
<1> QED BY <1>1, <1>2, <1>3, PTL DEF KeysetSpec


-----------------------------------------------------------------------------
(* The request of an answer.  A prompt is the system item, the newest of the  *)
(* listed messages, the question and what was gathered since (Stands), which  *)
(* shedding and compaction preserve.                                          *)

PromptItems == [what : {"system", "memory", "turn", "question", "call", "result", "reply"},
                id : Nat, size : Nat, cited : BOOLEAN, evidence : BOOLEAN]

\* A prompt with the question q at place p, `tail' gathered since, for the
\* messages `rows'.
Framed(items, p, q, tail) ==
    /\ items \in Seq(PromptItems) /\ p \in 2..Len(items) /\ items[1] = System
    /\ items[p].what = "question" /\ items[p].id = q
    /\ \A i \in 2..(p - 1) : items[i].what \in {"memory", "turn"}
    /\ \A i \in (p + 1)..Len(items) : items[i].what \in {"call", "result", "reply"}
    /\ Len(tail) = Len(items) - p /\ \A j \in 1..Len(tail) : items[p + j].id = tail[j]
TurnAt(items, p, i) == i \in 2..(p - 1) /\ items[i].what = "turn"
NewestTurns(items, p, rows) ==
    /\ \A i \in Nat : TurnAt(items, p, i) => items[i].id \in rows
    /\ \A i, j \in Nat : TurnAt(items, p, i) /\ TurnAt(items, p, j) /\ i < j => items[i].id < items[j].id
    /\ \A m \in rows : \/ \E i \in Nat : TurnAt(items, p, i) /\ items[i].id = m
                       \/ \A j \in Nat : TurnAt(items, p, j) => m < items[j].id
Evident(items) == \A i \in 1..Len(items) : items[i].cited => items[i].evidence
Stands(items, p, q, tail, rows) ==
    Framed(items, p, q, tail) /\ NewestTurns(items, p, rows) /\ Evident(items)

LEMMA SmallestOne ==
    ASSUME NEW S \in SUBSET Nat, S # {}
    PROVE  Min(S) \in S
<1>1. \E x \in S : \A y \in S : x =< y
  BY LeastOfSet
<1> QED BY <1>1 DEF Min

\* What a prompt costs is a number.
LEMMA TotalIsNumber ==
    ASSUME NEW items \in Seq(PromptItems)
    PROVE  Total(items) \in Nat /\ (Len(items) = 0 => Total(items) = 0)
<1> DEFINE f == [i \in DOMAIN items |-> items[i].size]
<1>1. Total(items) = TotalOf(f, DOMAIN items)
  BY ZenonT(40) DEF Total, MapThenSumSet, MapThenFoldSet, TotalOf
<1>2. \A i \in DOMAIN items : f[i] \in Nat
  <2>1. \A i \in DOMAIN items : items[i] \in PromptItems
    OBVIOUS
  <2>2. \A it \in PromptItems : it.size \in Nat
    BY DEF PromptItems
  <2> QED BY <2>1, <2>2
<1>3. DOMAIN items = 1..Len(items) /\ Len(items) \in Nat
  OBVIOUS
<1>4. IsFiniteSet(DOMAIN items)
  BY <1>3, FS_Interval
<1> HIDE DEF f
<1>5. TotalOf(f, DOMAIN items) \in Nat
  BY <1>2, <1>4, TotalsAgree
<1>6. ASSUME Len(items) = 0 PROVE Total(items) = 0
  BY <1>1, <1>3, <1>6, TotalOfNone
<1> QED BY <1>1, <1>5, <1>6

\* The newest messages that fit are the last so many.
LEMMA NewestAreLast ==
    ASSUME NEW past \in Seq(PromptItems), NEW room \in Nat
    PROVE  \E k \in 0..Len(past) :
              NewestFitting(past, room) = SubSeq(past, Len(past) - k + 1, Len(past))
<1>1. PICK n \in Nat : n = Len(past)
  OBVIOUS
<1> DEFINE fitting == {k \in 0..n : Total(SubSeq(past, n - k + 1, n)) <= room}
<1>2. 0 \in fitting
  <2>1. PICK none : none = SubSeq(past, n + 1, n)
    OBVIOUS
  <2>2. none \in Seq(PromptItems) /\ Len(none) = 0
    BY <1>1, <2>1
  <2>3. Total(none) = 0
    BY <2>2, TotalIsNumber
  <2>4. n - 0 + 1 = n + 1
    OBVIOUS
  <2> QED BY <2>1, <2>3, <2>4
<1>3. Max(fitting) \in fitting
  <2>1. fitting \in SUBSET Nat /\ \A k \in fitting : k <= n
    OBVIOUS
  <2> QED BY <1>2, <2>1, LargestOne
<1>4. NewestFitting(past, room) = SubSeq(past, n - Max(fitting) + 1, n)
  BY <1>1 DEF NewestFitting
<1> QED BY <1>1, <1>3, <1>4

\* b is a, with some tool results cut to their digests.
CompactionOf(a, b) ==
    /\ b \in Seq(PromptItems) /\ Len(b) = Len(a)
    /\ \A i \in 1..Len(a) : /\ b[i].what = a[i].what /\ b[i].id = a[i].id /\ b[i].cited = a[i].cited
                            /\ (a[i].cited => a[i].evidence) => (b[i].cited => b[i].evidence)
                            /\ a[i].what # "result" => b[i] = a[i]

LEMMA ItemCompacted ==
    ASSUME NEW it \in PromptItems
    PROVE  /\ Compacted(it) \in PromptItems /\ Compacted(it).what = it.what /\ Compacted(it).id = it.id
           /\ Compacted(it).cited = it.cited
           /\ (it.cited => it.evidence) => (Compacted(it).cited => Compacted(it).evidence)
<1>1. PICK size \in Nat : size = DigestCost + (IF it.cited THEN SnippetCost ELSE 0)
  BY WindowAssumption DEF PromptItems
<1>2. PICK d : d = [it EXCEPT !.size = size, !.evidence = it.cited]
  OBVIOUS
<1>3. /\ d \in PromptItems /\ d.what = it.what /\ d.id = it.id /\ d.cited = it.cited /\ d.evidence = it.cited
  BY <1>2 DEF PromptItems
<1>4. Digest(it) = d
  BY <1>1, <1>2 DEF Digest
<1>5. Compacted(it) = it \/ Compacted(it) = d
  BY <1>4 DEF Compacted
<1> QED BY <1>3, <1>5

\* Compaction at results is one.
LEMMA CompactAtResults ==
    ASSUME NEW items \in Seq(PromptItems), NEW S, \A i \in S \cap DOMAIN items : items[i].what = "result"
    PROVE  CompactionOf(items, CompactAt(items, S))
<1>1. PICK b : b = CompactAt(items, S)
  OBVIOUS
<1>2. DOMAIN items = 1..Len(items) /\ Len(items) \in Nat /\ \A i \in 1..Len(items) : items[i] \in PromptItems
  OBVIOUS
<1>3. b = [i \in 1..Len(items) |-> IF i \in S THEN Compacted(items[i]) ELSE items[i]]
  BY <1>1, <1>2 DEF CompactAt
<1>4. \A i \in 1..Len(items) : b[i] = IF i \in S THEN Compacted(items[i]) ELSE items[i]
  BY <1>3
<1>5. ASSUME NEW i \in 1..Len(items)
      PROVE  /\ b[i] \in PromptItems
             /\ b[i].what = items[i].what /\ b[i].id = items[i].id /\ b[i].cited = items[i].cited
             /\ (items[i].cited => items[i].evidence) => (b[i].cited => b[i].evidence)
             /\ items[i].what # "result" => b[i] = items[i]
  <2>1. CASE i \in S
    <3>1. b[i] = Compacted(items[i]) /\ items[i] \in PromptItems /\ items[i].what = "result"
      BY <1>2, <1>4, <2>1
    <3> QED BY <3>1, ItemCompacted
  <2>2. CASE i \notin S
    <3>1. b[i] = items[i] /\ items[i] \in PromptItems
      BY <1>2, <1>4, <2>2
    <3> QED BY <3>1
  <2> QED BY <2>1, <2>2
<1>6. b \in [1..Len(items) -> PromptItems]
  BY <1>3, <1>5
<1>7. b \in Seq(PromptItems) /\ Len(b) = Len(items)
  BY <1>2, <1>6
<1> QED BY <1>1, <1>5, <1>7 DEF CompactionOf

LEMMA CompactionTwice ==
    ASSUME NEW a, NEW b, NEW c, Len(a) \in Nat, CompactionOf(a, b), CompactionOf(b, c)
    PROVE  CompactionOf(a, c)
<1>1. \A i \in 1..Len(a) : i \in 1..Len(b)
  BY DEF CompactionOf
<1> QED BY <1>1 DEF CompactionOf

\* Of the superseded results, of a tier of the oldest, and of both tiers.
LEMMA PassesCompact ==
    ASSUME NEW items \in Seq(PromptItems), NEW budget \in Nat
    PROVE  /\ CompactionOf(items, CompactSuperseded(items))
           /\ CompactionOf(items, CompactOldest(items, budget))
<1>1. CompactionOf(items, CompactSuperseded(items))
  <2>1. PICK S : S = {i \in DOMAIN items : /\ items[i].what = "result" /\ items[i].cited
                                           /\ i < LastToolGroupStart(items)}
    OBVIOUS
  <2>2. \A i \in S \cap DOMAIN items : items[i].what = "result"
    BY <2>1
  <2>3. CompactSuperseded(items) = CompactAt(items, S)
    BY <2>1 DEF CompactSuperseded
  <2> QED BY <2>2, <2>3, CompactAtResults
<1>2. ASSUME NEW a \in Seq(PromptItems), NEW cited \in BOOLEAN
      PROVE  CompactionOf(a, CompactTier(a, budget, cited))
  <2> DEFINE C == {i \in DOMAIN a : a[i].what = "result" /\ a[i].cited = cited}
             after(k) == CompactAt(a, Oldest(C, k * ChunkSize))
  <2>1. \A k : CompactionOf(a, after(k))
    <3> TAKE k
    <3>1. \A i \in Oldest(C, k * ChunkSize) \cap DOMAIN a : a[i].what = "result"
      BY DEF Oldest
    <3> QED BY <3>1, CompactAtResults
  <2>2. \E k : CompactTier(a, budget, cited) = after(k)
    BY DEF CompactTier
  <2> QED BY <2>1, <2>2
<1>3. PICK t : t = CompactTier(items, budget, FALSE)
  OBVIOUS
<1>4. CompactionOf(items, t) /\ t \in Seq(PromptItems)
  BY <1>2, <1>3 DEF CompactionOf
<1>5. CompactionOf(t, CompactTier(t, budget, TRUE))
  BY <1>2, <1>4
<1>6. CompactOldest(items, budget) = CompactTier(t, budget, TRUE)
  BY <1>3 DEF CompactOldest
<1>7. Len(items) \in Nat
  OBVIOUS
<1> QED BY <1>1, <1>4, <1>5, <1>6, <1>7, CompactionTwice

\* A compacted prompt still stands.
LEMMA CompactionStands ==
    ASSUME NEW a, NEW b, NEW p, NEW q, NEW tail, NEW rows, Stands(a, p, q, tail, rows), CompactionOf(a, b)
    PROVE  Stands(b, p, q, tail, rows)
<1>1. /\ a \in Seq(PromptItems) /\ Len(a) \in Nat /\ p \in 2..Len(a) /\ p \in Nat /\ Len(b) = Len(a)
      /\ b \in Seq(PromptItems)
  BY DEF Stands, Framed, CompactionOf
<1>2. \A i \in 1..Len(a) : b[i].what = a[i].what /\ b[i].id = a[i].id
  BY DEF CompactionOf
<1>3. Framed(b, p, q, tail)
  <2>1. b[1] = System
    <3>1. a[1] = System /\ 1 \in 1..Len(a)
      BY <1>1 DEF Stands, Framed
    <3>2. System.what = "system"
      BY DEF System, Item
    <3> QED BY <3>1, <3>2 DEF CompactionOf
  <2>2. b[p].what = "question" /\ b[p].id = q
    BY <1>1, <1>2 DEF Stands, Framed
  <2>3. \A i \in 2..(p - 1) : b[i].what \in {"memory", "turn"}
    <3>1. \A i \in 2..(p - 1) : i \in 1..Len(a)
      BY <1>1
    <3> QED BY <1>2, <3>1 DEF Stands, Framed
  <2>4. \A i \in (p + 1)..Len(b) : b[i].what \in {"call", "result", "reply"}
    <3>1. \A i \in (p + 1)..Len(a) : i \in 1..Len(a)
      BY <1>1
    <3> QED BY <1>1, <1>2, <3>1 DEF Stands, Framed
  <2>5. Len(tail) = Len(b) - p /\ \A j \in 1..Len(tail) : b[p + j].id = tail[j]
    <3>1. Len(tail) = Len(a) - p /\ \A j \in 1..Len(tail) : a[p + j].id = tail[j]
      BY DEF Stands, Framed
    <3>2. \A j \in 1..Len(tail) : p + j \in 1..Len(a)
      BY <1>1, <3>1
    <3> QED BY <1>1, <1>2, <3>1, <3>2
  <2> QED BY <1>1, <2>1, <2>2, <2>3, <2>4, <2>5 DEF Framed
<1>4. NewestTurns(b, p, rows)
  <2>1. \A i \in Nat : /\ TurnAt(a, p, i) <=> TurnAt(b, p, i)
                       /\ TurnAt(a, p, i) => b[i].id = a[i].id
    <3>1. \A i \in 2..(p - 1) : i \in 1..Len(a)
      BY <1>1
    <3> QED BY <1>2, <3>1 DEF TurnAt
  <2>2. NewestTurns(a, p, rows)
    BY DEF Stands
  <2>3. \A i \in Nat : TurnAt(b, p, i) => b[i].id \in rows
    BY <2>1, <2>2 DEF NewestTurns
  <2>4. \A i, j \in Nat : TurnAt(b, p, i) /\ TurnAt(b, p, j) /\ i < j => b[i].id < b[j].id
    BY <2>1, <2>2 DEF NewestTurns
  <2>5. ASSUME NEW m \in rows
        PROVE  \/ \E i \in Nat : TurnAt(b, p, i) /\ b[i].id = m
               \/ \A j \in Nat : TurnAt(b, p, j) => m < b[j].id
    BY <2>1, <2>2 DEF NewestTurns
  <2> QED BY <2>3, <2>4, <2>5 DEF NewestTurns
<1>5. Evident(b)
  BY DEF Stands, Evident, CompactionOf
<1> QED BY <1>3, <1>4, <1>5 DEF Stands

\* The prompt has one question.
LEMMA QuestionFound ==
    ASSUME NEW items, NEW p, NEW q, NEW tail, Framed(items, p, q, tail)
    PROVE  /\ LastQuestionIndex(items) = p
           /\ \A i \in 1..Len(items) : items[i].what = "question" <=> i = p
<1>1. /\ items \in Seq(PromptItems) /\ Len(items) \in Nat /\ p \in 2..Len(items) /\ p \in Nat
      /\ DOMAIN items = 1..Len(items)
  BY DEF Framed
<1>2. System.what = "system"
  BY DEF System, Item
<1>3. \A i \in 1..Len(items) : i = 1 \/ i = p \/ i \in 2..(p - 1) \/ i \in (p + 1)..Len(items)
  BY <1>1
<1>4. \A i \in 1..Len(items) : items[i].what = "question" <=> i = p
  BY <1>1, <1>2, <1>3 DEF Framed
<1>5. p \in DOMAIN items
  BY <1>1
<1> QED BY <1>1, <1>4, <1>5 DEF LastQuestionIndex

\* The prompt without its k oldest messages after the system item.
LEMMA WithoutOldest ==
    ASSUME NEW items, NEW p, NEW q, NEW tail, NEW rows, rows \subseteq Nat,
           Stands(items, p, q, tail, rows), NEW k \in 0..(p - 2)
    PROVE  Stands(<<items[1]>> \o SubSeq(items, k + 2, Len(items)), p - k, q, tail, rows)
<1>1. /\ items \in Seq(PromptItems) /\ p \in 2..Len(items) /\ items[1] = System
  BY DEF Stands, Framed
<1>2. PICK n \in Nat : n = Len(items)
  BY <1>1
<1>3. p \in 2..n /\ p \in Nat /\ k \in Nat /\ k <= p - 2 /\ p - k \in 2..(n - k)
  BY <1>1, <1>2
<1>4. PICK rest : rest = SubSeq(items, k + 2, n)
  OBVIOUS
<1>5. /\ rest \in Seq(PromptItems) /\ Len(rest) = n - k - 1
      /\ \A i \in 1..(n - k - 1) : rest[i] = items[k + 1 + i]
  BY <1>1, <1>2, <1>3, <1>4
<1>6. items[1] \in PromptItems
  BY <1>1, <1>2, <1>3
<1>7. PICK new : new = <<items[1]>> \o rest
  OBVIOUS
<1>8. /\ new \in Seq(PromptItems) /\ Len(new) = n - k /\ new[1] = items[1]
      /\ \A i \in 2..(n - k) : new[i] = items[k + i]
  <2>1. <<items[1]>> \in Seq(PromptItems) /\ Len(<<items[1]>>) = 1 /\ <<items[1]>>[1] = items[1]
    BY <1>6
  <2>2. new \in Seq(PromptItems) /\ Len(new) = 1 + Len(rest)
    BY <1>5, <1>7, <2>1
  <2>3. new[1] = items[1]
    BY <1>5, <1>7, <2>1
  <2>4. \A i \in 2..(n - k) : i - 1 \in 1..(n - k - 1) /\ new[i] = rest[i - 1]
    BY <1>3, <1>5, <1>7, <2>1
  <2>5. \A i \in 2..(n - k) : rest[i - 1] = items[k + i]
    <3> TAKE i \in 2..(n - k)
    <3>1. k + 1 + (i - 1) = k + i /\ i - 1 \in 1..(n - k - 1)
      BY <1>3
    <3> QED BY <1>5, <3>1
  <2> QED BY <1>3, <1>5, <2>2, <2>3, <2>4, <2>5
<1>9. PICK r \in Nat : r = p - k /\ r \in 2..(n - k)
  BY <1>3
<1>10. Framed(new, r, q, tail)
  <2>1. new[r] = items[p]
    <3>1. k + r = p
      BY <1>3, <1>9
    <3> QED BY <1>8, <1>9, <3>1
  <2>2. ASSUME NEW i \in 2..(r - 1) PROVE new[i].what \in {"memory", "turn"}
    <3>1. i \in 2..(n - k) /\ k + i \in 2..(p - 1)
      BY <1>3, <1>9
    <3> QED BY <1>8, <3>1 DEF Stands, Framed
  <2>3. ASSUME NEW i \in (r + 1)..(n - k) PROVE new[i].what \in {"call", "result", "reply"}
    <3>1. i \in 2..(n - k) /\ k + i \in (p + 1)..n
      BY <1>3, <1>9
    <3> QED BY <1>2, <1>8, <3>1 DEF Stands, Framed
  <2>4. Len(tail) = (n - k) - r
    BY <1>2, <1>3, <1>9 DEF Stands, Framed
  <2>5. ASSUME NEW j \in 1..Len(tail) PROVE new[r + j].id = tail[j]
    <3>1. r + j \in 2..(n - k) /\ k + (r + j) = p + j
      BY <1>3, <1>9, <2>4
    <3> QED BY <1>8, <3>1 DEF Stands, Framed
  <2> QED BY <1>1, <1>8, <1>9, <2>1, <2>2, <2>3, <2>4, <2>5 DEF Stands, Framed
<1>11. NewestTurns(new, r, rows)
  <2>0. NewestTurns(items, p, rows)
    BY DEF Stands
  <2>1. \A i \in Nat : TurnAt(new, r, i) => TurnAt(items, p, k + i) /\ new[i] = items[k + i] /\ k + i \in Nat
    <3> SUFFICES ASSUME NEW i \in Nat, TurnAt(new, r, i)
                 PROVE  TurnAt(items, p, k + i) /\ new[i] = items[k + i] /\ k + i \in Nat
      OBVIOUS
    <3>1. i \in 2..(r - 1) /\ i \in 2..(n - k) /\ k + i \in 2..(p - 1)
      BY <1>3, <1>9 DEF TurnAt
    <3>2. new[i] = items[k + i] /\ k + i \in Nat
      BY <1>3, <1>8, <3>1
    <3>3. new[i].what = "turn"
      BY DEF TurnAt
    <3> QED BY <3>1, <3>2, <3>3 DEF TurnAt
  <2>2. \A i \in Nat : TurnAt(items, p, i) /\ i > k + 1 => TurnAt(new, r, i - k) /\ new[i - k] = items[i] /\ i - k \in Nat
    <3> SUFFICES ASSUME NEW i \in Nat, TurnAt(items, p, i), i > k + 1
                 PROVE  TurnAt(new, r, i - k) /\ new[i - k] = items[i] /\ i - k \in Nat
      OBVIOUS
    <3>1. i - k \in 2..(r - 1) /\ i - k \in 2..(n - k) /\ k + (i - k) = i
      BY <1>3, <1>9 DEF TurnAt
    <3>2. new[i - k] = items[i]
      BY <1>8, <3>1
    <3> QED BY <1>3, <3>1, <3>2 DEF TurnAt
  <2>3. \A i \in Nat : TurnAt(new, r, i) => new[i].id \in rows
    BY <2>0, <2>1 DEF NewestTurns
  <2>4. ASSUME NEW i \in Nat, NEW j \in Nat, TurnAt(new, r, i), TurnAt(new, r, j), i < j PROVE new[i].id < new[j].id
    <3>1. /\ TurnAt(items, p, k + i) /\ TurnAt(items, p, k + j) /\ new[i] = items[k + i] /\ new[j] = items[k + j]
          /\ k + i \in Nat /\ k + j \in Nat /\ k + i < k + j
      BY <1>3, <2>1, <2>4
    <3> QED BY <2>0, <3>1 DEF NewestTurns
  <2>5. ASSUME NEW m \in rows, ~ \E i \in Nat : TurnAt(new, r, i) /\ new[i].id = m,
               NEW j \in Nat, TurnAt(new, r, j)
        PROVE  m < new[j].id
    <3>1. TurnAt(items, p, k + j) /\ new[j] = items[k + j] /\ k + j \in Nat /\ k + j > k + 1
      <4>1. j >= 2
        BY <2>5 DEF TurnAt
      <4> QED BY <1>3, <2>1, <2>5, <4>1
    <3>2. CASE \E i \in Nat : TurnAt(items, p, i) /\ items[i].id = m
      <4>1. PICK i \in Nat : TurnAt(items, p, i) /\ items[i].id = m
        BY <3>2
      <4>2. ~(i > k + 1)
        BY <2>2, <2>5, <4>1
      <4>3. i < k + j
        BY <1>3, <3>1, <4>2
      <4> QED BY <2>0, <3>1, <4>1, <4>3 DEF NewestTurns
    <3>3. CASE ~ \E i \in Nat : TurnAt(items, p, i) /\ items[i].id = m
      BY <2>0, <3>1, <3>3 DEF NewestTurns
    <3> QED BY <3>2, <3>3
  <2> QED BY <2>3, <2>4, <2>5 DEF NewestTurns
<1>12. Evident(new)
  <2> SUFFICES ASSUME NEW i \in 1..(n - k), new[i].cited PROVE new[i].evidence
    BY <1>8 DEF Evident
  <2>1. CASE i = 1
    <3>1. 1 \in 1..n
      BY <1>3
    <3> QED BY <1>2, <1>8, <2>1, <3>1 DEF Stands, Evident
  <2>2. CASE i \in 2..(n - k)
    <3>1. k + i \in 1..n
      BY <1>3, <2>2
    <3> QED BY <1>2, <1>8, <2>2, <3>1 DEF Stands, Evident
  <2> QED BY <1>3, <2>1, <2>2
<1> QED BY <1>2, <1>4, <1>7, <1>9, <1>10, <1>11, <1>12 DEF Stands

\* What is shed are the oldest messages, never the question.
LEMMA ShedStands ==
    ASSUME NEW items, NEW p, NEW q, NEW tail, NEW rows, rows \subseteq Nat,
           Stands(items, p, q, tail, rows), NEW budget \in Nat
    PROVE  \E r \in Nat : Stands(Shed(items, budget), r, q, tail, rows)
<1>1. LastQuestionIndex(items) = p /\ p \in Nat /\ p >= 2
  <2>1. Framed(items, p, q, tail)
    BY DEF Stands
  <2>2. items \in Seq(PromptItems) /\ p \in 2..Len(items)
    BY <2>1 DEF Framed
  <2>3. p \in Nat /\ p >= 2
    BY <2>2
  <2> QED BY <2>1, <2>3, QuestionFound
<1> DEFINE without(k) == <<items[1]>> \o SubSeq(items, k + 2, Len(items))
           enough == {k \in 0..(p - 2) : Total(without(k)) <= budget}
<1>2. PICK k : k = IF enough = {} THEN p - 2 ELSE Min(enough)
  OBVIOUS
<1>3. k \in 0..(p - 2)
  <2>1. CASE enough = {}
    BY <1>1, <1>2, <2>1
  <2>2. CASE enough # {}
    <3>1. enough \in SUBSET Nat
      OBVIOUS
    <3>2. Min(enough) \in enough
      BY <2>2, <3>1, SmallestOne
    <3> QED BY <1>2, <2>2, <3>2
  <2> QED BY <2>1, <2>2
<1>4. Shed(items, budget) = without(k)
  BY <1>1, <1>2 DEF Shed
<1>5. Stands(without(k), p - k, q, tail, rows)
  BY <1>3, WithoutOldest
<1>6. p - k \in Nat
  BY <1>1, <1>3
<1> QED BY <1>4, <1>5, <1>6

\* A fitted transcript stands, within the budget.
LEMMA FitStands ==
    ASSUME NEW items, NEW p, NEW q, NEW tail, NEW rows, rows \subseteq Nat,
           Stands(items, p, q, tail, rows), NEW budget \in Nat, FitTranscript(items, budget) # TooLarge
    PROVE  /\ \E r \in Nat : Stands(FitTranscript(items, budget), r, q, tail, rows)
           /\ Total(FitTranscript(items, budget)) <= budget
<1>1. items \in Seq(PromptItems)
  BY DEF Stands, Framed
<1>2. PICK tidy : tidy = CompactSuperseded(items)
  OBVIOUS
<1>3. Stands(tidy, p, q, tail, rows)
  BY <1>1, <1>2, PassesCompact, CompactionStands
<1>4. PICK shed : shed = Shed(tidy, budget)
  OBVIOUS
<1>5. PICK r \in Nat : Stands(shed, r, q, tail, rows)
  BY <1>3, <1>4, ShedStands
<1>6. shed \in Seq(PromptItems)
  BY <1>5 DEF Stands, Framed
<1>7. PICK fitted : fitted = CompactOldest(shed, budget)
  OBVIOUS
<1>8. Stands(fitted, r, q, tail, rows)
  BY <1>5, <1>6, <1>7, PassesCompact, CompactionStands
<1>9. Total(fitted) \in Nat
  BY <1>8, TotalIsNumber DEF Stands, Framed
<1>10. FitTranscript(items, budget) = IF Total(fitted) > budget THEN TooLarge ELSE fitted
  BY <1>2, <1>4, <1>7 DEF FitTranscript
<1> QED BY <1>8, <1>9, <1>10

\* The assembled prompt stands.
LEMMA AssembledStands ==
    ASSUME NEW rows \in SUBSET Nat, IsFiniteSet(rows), NEW memory \in BOOLEAN, NEW q \in Nat, NEW size \in Nat,
           NEW budget \in Nat, NEW turns, turns = [i \in 1..Cardinality(rows) |-> Turn(Nth(rows, i))],
           NEW built, built = Assemble(memory, turns, Question(q, size), budget), built # TooLarge
    PROVE  \E p \in Nat : Stands(built, p, q, <<>>, rows)
<1>1. PICK n \in Nat : n = Cardinality(rows)
  BY FS_CardinalityType
<1>2. /\ System \in PromptItems /\ Memory \in PromptItems /\ Question(q, size) \in PromptItems
      /\ Memory.what = "memory" /\ Question(q, size).what = "question" /\ Question(q, size).id = q
      /\ ~System.cited /\ ~Memory.cited /\ ~Question(q, size).cited /\ Question(q, size).size = size
  BY WindowAssumption DEF System, Memory, Question, Item, PromptItems
<1>3. \A m \in Nat : Turn(m) \in PromptItems /\ Turn(m).what = "turn" /\ Turn(m).id = m /\ ~Turn(m).cited
  BY DEF Turn, Item, PromptItems
<1>4. /\ \A i \in 1..n : Nth(rows, i) \in rows
      /\ \A x \in rows : \E i \in 1..n : Nth(rows, i) = x
      /\ \A i, j \in 1..n : i < j => Nth(rows, i) < Nth(rows, j)
  BY <1>1, NthListed
<1>5. /\ turns \in Seq(PromptItems) /\ Len(turns) = n
      /\ \A i \in 1..n : turns[i].what = "turn" /\ turns[i].id = Nth(rows, i) /\ ~turns[i].cited
  <2>1. \A i \in 1..n : turns[i] = Turn(Nth(rows, i)) /\ Nth(rows, i) \in Nat
    BY <1>1, <1>4
  <2>2. turns \in [1..n -> PromptItems]
    BY <1>1, <1>3, <1>4
  <2>3. turns \in Seq(PromptItems) /\ Len(turns) = n
    BY <2>2, ListIsSeq
  <2>4. \A i \in 1..n : turns[i].what = "turn" /\ turns[i].id = Nth(rows, i) /\ ~turns[i].cited
    BY <1>3, <2>1
  <2> QED BY <2>3, <2>4
<1>6. PICK question : question = Question(q, size)
  OBVIOUS
<1>7. PICK reserved \in Seq(PromptItems) :
          /\ reserved = IF memory /\ SystemCost + question.size + MemoryCost <= budget THEN <<Memory>> ELSE <<>>
          /\ reserved = <<>> \/ reserved = <<Memory>>
  <2>1. <<>> \in Seq(PromptItems) /\ <<Memory>> \in Seq(PromptItems)
    BY <1>2
  <2> QED BY <2>1
<1>8. PICK l \in 0..1 : l = Len(reserved) /\ \A i \in 1..l : reserved[i].what = "memory" /\ ~reserved[i].cited
  <2>1. CASE reserved = <<>>
    BY <2>1
  <2>2. CASE reserved = <<Memory>>
    <3>1. Len(reserved) = 1 /\ reserved[1] = Memory
      BY <2>2
    <3> QED BY <1>2, <3>1
  <2> QED BY <1>7, <2>1, <2>2
<1>9. PICK fixed \in Nat : fixed = SystemCost + question.size + Total(reserved)
  BY <1>2, <1>6, TotalIsNumber, WindowAssumption
<1>10. built = IF fixed > budget THEN TooLarge
               ELSE <<System>> \o reserved \o NewestFitting(turns, budget - fixed) \o <<question>>
  BY <1>6, <1>7, <1>9 DEF Assemble
<1>11. PICK room \in Nat : room = budget - fixed
  BY <1>10
<1>12. PICK k \in 0..n : NewestFitting(turns, room) = SubSeq(turns, n - k + 1, n)
  BY <1>5, NewestAreLast
<1>13. PICK newest : newest = SubSeq(turns, n - k + 1, n)
  OBVIOUS
<1>14. /\ newest \in Seq(PromptItems) /\ Len(newest) = k
       /\ \A i \in 1..k : newest[i] = turns[n - k + i] /\ n - k + i \in 1..n
  BY <1>5, <1>13, LastOfSeq
<1>a. \A i \in 1..k : newest[i].what = "turn" /\ newest[i].id = Nth(rows, n - k + i) /\ ~newest[i].cited
  <2> TAKE i \in 1..k
  <2>1. newest[i] = turns[n - k + i] /\ n - k + i \in 1..n
    BY <1>14
  <2> QED BY <1>5, <2>1
<1>15. built = <<System>> \o reserved \o newest \o <<question>>
  BY <1>10, <1>11, <1>12, <1>13
<1>16. /\ built \in Seq(PromptItems) /\ Len(built) = l + k + 2 /\ built[1] = System
       /\ \A i \in 1..l : built[1 + i] = reserved[i]
       /\ \A i \in 1..k : built[1 + l + i] = newest[i]
       /\ built[l + k + 2] = question
  <2>1. PICK a : a = <<System>> \o reserved
    OBVIOUS
  <2>2. /\ a \in Seq(PromptItems) /\ Len(a) = l + 1 /\ a[1] = System /\ \A i \in 1..l : a[1 + i] = reserved[i]
    <3>1. <<System>> \in Seq(PromptItems) /\ Len(<<System>>) = 1 /\ <<System>>[1] = System
      BY <1>2
    <3>2. Len(a) = 1 + l
      BY <1>7, <1>8, <2>1, <3>1, SeqsJoined
    <3>3. 1 \in 1..Len(<<System>>)
      BY <3>1
    <3> QED BY <1>7, <1>8, <2>1, <3>1, <3>2, <3>3, SeqsJoined
  <2>3. PICK b : b = a \o newest
    OBVIOUS
  <2>4. /\ b \in Seq(PromptItems) /\ Len(b) = l + k + 1 /\ \A i \in 1..(l + 1) : b[i] = a[i]
        /\ \A i \in 1..k : b[1 + l + i] = newest[i]
    <3>1. Len(b) = (l + 1) + k
      BY <1>14, <2>2, <2>3, SeqsJoined
    <3>2. \A i \in 1..k : b[(l + 1) + i] = newest[i]
      BY <1>14, <2>2, <2>3, SeqsJoined
    <3>3. \A i \in 1..k : (l + 1) + i = 1 + l + i
      OBVIOUS
    <3> QED BY <1>14, <2>2, <2>3, <3>1, <3>2, <3>3, SeqsJoined
  <2>5. built = b \o <<question>>
    BY <1>15, <2>1, <2>3
  <2>6. question \in PromptItems
    BY <1>2, <1>6
  <2>a. PICK last \in Seq(PromptItems) : last = <<question>> /\ Len(last) = 1 /\ last[1] = question
    <3>1. <<question>> \in Seq(PromptItems) /\ Len(<<question>>) = 1 /\ <<question>>[1] = question
      BY <2>6
    <3> QED BY <3>1, Zenon
  <2>b. PICK whole : whole = b \o last /\ whole = built
    BY <2>5, <2>a
  <2>c. /\ whole \in Seq(PromptItems) /\ Len(whole) = Len(b) + 1 /\ whole[Len(b) + 1] = last[1]
        /\ \A i \in 1..Len(b) : whole[i] = b[i]
    <3>1. 1 \in 1..Len(last)
      BY <2>a
    <3> QED BY <2>4, <2>a, <2>b, <3>1, SeqsJoined
  <2>d. Len(b) = l + k + 1 /\ Len(b) + 1 = l + k + 2
    BY <2>4
  <2>7. built \in Seq(PromptItems) /\ Len(built) = l + k + 2 /\ built[l + k + 2] = question
    BY <2>a, <2>b, <2>c, <2>d
  <2>8. \A i \in 1..(l + k + 1) : built[i] = b[i]
    BY <2>b, <2>c, <2>d
  <2>9. 1 \in 1..(l + k + 1) /\ 1 \in 1..(l + 1) /\ \A i \in 1..l : 1 + i \in 1..(l + k + 1) /\ 1 + i \in 1..(l + 1)
    OBVIOUS
  <2>10. \A i \in 1..k : 1 + l + i \in 1..(l + k + 1)
    OBVIOUS
  <2> QED BY <2>2, <2>4, <2>7, <2>8, <2>9, <2>10
<1>17. PICK p \in Nat : p = l + k + 2
  OBVIOUS
<1>18. \A i \in 2..(p - 1) : (i - 1 \in 1..l /\ built[i] = reserved[i - 1])
                             \/ (i - 1 - l \in 1..k /\ built[i] = newest[i - 1 - l])
  <2> TAKE i \in 2..(p - 1)
  <2>1. CASE i <= l + 1
    <3>1. i - 1 \in 1..l /\ 1 + (i - 1) = i
      BY <2>1
    <3> QED BY <1>16, <3>1
  <2>2. CASE i > l + 1
    <3>1. i - 1 - l \in 1..k /\ 1 + l + (i - 1 - l) = i
      BY <1>17, <2>2
    <3> QED BY <1>16, <3>1
  <2> QED BY <2>1, <2>2
<1>19. Framed(built, p, q, <<>>)
  <2>1. p \in 2..Len(built) /\ Len(built) = p
    BY <1>16, <1>17
  <2>2. \A i \in 2..(p - 1) : built[i].what \in {"memory", "turn"}
    <3> TAKE i \in 2..(p - 1)
    <3>1. CASE i - 1 \in 1..l /\ built[i] = reserved[i - 1]
      BY <1>8, <3>1
    <3>2. CASE i - 1 - l \in 1..k /\ built[i] = newest[i - 1 - l]
      BY <1>a, <3>2
    <3> QED BY <1>18, <3>1, <3>2
  <2>3. built[p].what = "question" /\ built[p].id = q
    BY <1>2, <1>6, <1>16, <1>17
  <2>4. (p + 1)..Len(built) = {} /\ Len(<<>>) = Len(built) - p /\ 1..Len(<<>>) = {}
    <3>1. PICK m \in Nat : m = Len(built)
      BY <2>1
    <3>2. m = p /\ (p + 1)..m = {} /\ m - p = 0
      BY <2>1, <3>1
    <3>3. Len(<<>>) = 0 /\ 1..0 = {}
      OBVIOUS
    <3> QED BY <3>1, <3>2, <3>3, Zenon
  <2> QED BY <1>16, <2>1, <2>2, <2>3, <2>4 DEF Framed
<1>20. \A i \in Nat : TurnAt(built, p, i) <=> \E j \in 1..k : i = 1 + l + j
  <2> TAKE i \in Nat
  <2>1. ASSUME TurnAt(built, p, i) PROVE \E j \in 1..k : i = 1 + l + j
    <3>1. i \in 2..(p - 1) /\ built[i].what = "turn"
      BY <2>1 DEF TurnAt
    <3>2. i - 1 - l \in 1..k
      BY <1>8, <1>18, <3>1
    <3>3. i = 1 + l + (i - 1 - l)
      OBVIOUS
    <3> QED BY <3>2, <3>3
  <2>2. ASSUME NEW j \in 1..k, i = 1 + l + j PROVE TurnAt(built, p, i)
    <3>1. i \in 2..(p - 1)
      BY <1>17, <2>2
    <3>2. built[i] = newest[j]
      BY <1>16, <2>2
    <3> QED BY <1>a, <3>1, <3>2 DEF TurnAt
  <2> QED BY <2>1, <2>2
<1>21. \A j \in 1..k : built[1 + l + j].id = Nth(rows, n - k + j) /\ n - k + j \in 1..n
  BY <1>14, <1>16, <1>a
<1>22. NewestTurns(built, p, rows)
  <2>1. \A i \in Nat : TurnAt(built, p, i) => built[i].id \in rows
    BY <1>4, <1>20, <1>21
  <2>2. ASSUME NEW i \in Nat, NEW j \in Nat, TurnAt(built, p, i), TurnAt(built, p, j), i < j
        PROVE  built[i].id < built[j].id
    <3>1. PICK x \in 1..k, y \in 1..k : i = 1 + l + x /\ j = 1 + l + y
      BY <1>20, <2>2
    <3>2. n - k + x < n - k + y
      BY <2>2, <3>1
    <3> QED BY <1>4, <1>21, <3>1, <3>2
  <2>3. ASSUME NEW m \in rows, NEW j \in Nat, TurnAt(built, p, j),
               ~ \E i \in Nat : TurnAt(built, p, i) /\ built[i].id = m
        PROVE  m < built[j].id
    <3>1. PICK y \in 1..k : j = 1 + l + y
      BY <1>20, <2>3
    <3>2. PICK z \in 1..n : Nth(rows, z) = m
      BY <1>4
    <3>3. z <= n - k
      <4> SUFFICES ASSUME z > n - k PROVE FALSE
        OBVIOUS
      <4>1. PICK x \in 1..k : z = n - k + x
        <5>1. z - (n - k) \in 1..k /\ z = n - k + (z - (n - k))
          OBVIOUS
        <5> QED BY <5>1
      <4>2. PICK i \in Nat : i = 1 + l + x
        OBVIOUS
      <4> QED BY <1>20, <1>21, <2>3, <3>2, <4>1, <4>2
    <3>4. z < n - k + y
      BY <3>3
    <3> QED BY <1>4, <1>21, <3>1, <3>2, <3>4
  <2> QED BY <2>1, <2>2, <2>3 DEF NewestTurns
<1>23. Evident(built)
  <2> SUFFICES ASSUME NEW i \in 1..p PROVE ~built[i].cited
    BY <1>16, <1>17 DEF Evident
  <2>1. CASE i = 1
    BY <1>2, <1>16, <2>1
  <2>2. CASE i = p
    BY <1>2, <1>6, <1>16, <1>17, <2>2
  <2>3. CASE i \in 2..(p - 1)
    <3>1. CASE i - 1 \in 1..l /\ built[i] = reserved[i - 1]
      BY <1>8, <3>1
    <3>2. CASE i - 1 - l \in 1..k /\ built[i] = newest[i - 1 - l]
      BY <1>a, <3>2
    <3> QED BY <1>18, <2>3, <3>1, <3>2
  <2> QED BY <2>1, <2>2, <2>3
<1> QED BY <1>19, <1>22, <1>23 DEF Stands

\* What is gathered after the question leaves the rest as it is.
LEMMA GatheredStands ==
    ASSUME NEW items, NEW p, NEW q, NEW tail \in Seq(Nat), NEW rows, Stands(items, p, q, tail, rows),
           NEW more \in Seq(PromptItems), NEW ids \in Seq(Nat), Len(ids) = Len(more),
           \A i \in 1..Len(more) : /\ more[i].what \in {"call", "result", "reply"} /\ more[i].id = ids[i]
                                   /\ more[i].cited => more[i].evidence
    PROVE  Stands(items \o more, p, q, tail \o ids, rows)
<1>1. items \in Seq(PromptItems) /\ p \in 2..Len(items)
  BY DEF Stands, Framed
<1>2. PICK n \in Nat, m \in Nat : n = Len(items) /\ m = Len(more)
  BY <1>1
<1>3. PICK new : new = items \o more
  OBVIOUS
<1>4. /\ new \in Seq(PromptItems) /\ Len(new) = n + m
      /\ \A i \in 1..n : new[i] = items[i]
      /\ \A i \in 1..m : new[n + i] = more[i]
  BY <1>1, <1>2, <1>3, SeqsJoined
<1>5. PICK all : all = tail \o ids
  OBVIOUS
<1>6. PICK t \in Nat : t = Len(tail) /\ t = n - p
  <2>1. Len(tail) \in Nat
    OBVIOUS
  <2>2. Len(tail) = Len(items) - p
    BY DEF Stands, Framed
  <2> QED BY <1>2, <2>1, <2>2
<1>7. /\ Len(all) = t + m /\ \A i \in 1..t : all[i] = tail[i]
      /\ \A i \in 1..m : all[t + i] = ids[i]
  <2>1. /\ Len(tail \o ids) = Len(tail) + Len(ids)
        /\ \A i \in 1..Len(tail) : (tail \o ids)[i] = tail[i]
        /\ \A i \in 1..Len(ids) : (tail \o ids)[Len(tail) + i] = ids[i]
    BY NumbersJoined
  <2>2. Len(ids) = m /\ Len(tail) = t
    BY <1>2, <1>6
  <2> QED BY <1>5, <2>1, <2>2, Zenon
<1>8. p \in 2..n /\ p \in Nat
  BY <1>1, <1>2
<1>9. \A i \in (n + 1)..(n + m) : new[i].what \in {"call", "result", "reply"} /\ (new[i].cited => new[i].evidence)
  <2> TAKE i \in (n + 1)..(n + m)
  <2>1. i - n \in 1..m /\ n + (i - n) = i
    OBVIOUS
  <2>2. new[i] = more[i - n]
    BY <1>4, <2>1
  <2> QED BY <1>2, <2>1, <2>2
<1>10. Framed(new, p, q, all)
  <2>1. p \in 2..Len(new) /\ new[1] = System /\ new[p].what = "question" /\ new[p].id = q
    <3>1. 1 \in 1..n /\ p \in 1..n
      BY <1>8
    <3> QED BY <1>4, <1>8, <3>1 DEF Stands, Framed
  <2>2. \A i \in 2..(p - 1) : new[i].what \in {"memory", "turn"}
    <3>1. \A i \in 2..(p - 1) : i \in 1..n
      BY <1>8
    <3> QED BY <1>4, <3>1 DEF Stands, Framed
  <2>3. \A i \in (p + 1)..(n + m) : new[i].what \in {"call", "result", "reply"}
    <3> TAKE i \in (p + 1)..(n + m)
    <3>1. CASE i <= n
      <4>1. i \in 1..n /\ i \in (p + 1)..n
        BY <1>8, <3>1
      <4> QED BY <1>2, <1>4, <4>1 DEF Stands, Framed
    <3>2. CASE i > n
      <4>1. i \in (n + 1)..(n + m)
        BY <1>8, <3>2
      <4> QED BY <1>9, <4>1
    <3> QED BY <1>8, <3>1, <3>2
  <2>4. Len(all) = Len(new) - p
    BY <1>4, <1>6, <1>7, <1>8
  <2>5. \A j \in 1..(t + m) : new[p + j].id = all[j]
    <3> TAKE j \in 1..(t + m)
    <3>1. CASE j <= t
      <4>1. j \in 1..t /\ p + j \in 1..n
        BY <1>6, <1>8, <3>1
      <4>2. items[p + j].id = tail[j]
        BY <1>6, <4>1 DEF Stands, Framed
      <4> QED BY <1>4, <1>7, <4>1, <4>2
    <3>2. CASE j > t
      <4>a. t = n - p
        BY <1>6
      <4>b. j - t \in 1..m
        BY <3>2
      <4>c. t + (j - t) = j
        OBVIOUS
      <4>d. n + (j - t) = p + j
        BY <1>8, <4>a
      <4>1. j - t \in 1..m /\ t + (j - t) = j /\ n + (j - t) = p + j
        BY <4>b, <4>c, <4>d
      <4>2. new[p + j] = more[j - t] /\ all[j] = ids[j - t]
        BY <1>4, <1>7, <4>1
      <4> QED BY <1>2, <4>1, <4>2
    <3> QED BY <3>1, <3>2
  <2> QED BY <1>4, <1>7, <2>1, <2>2, <2>3, <2>4, <2>5 DEF Framed
<1>11. NewestTurns(new, p, rows)
  <2>1. \A i \in Nat : /\ TurnAt(items, p, i) <=> TurnAt(new, p, i)
                       /\ TurnAt(new, p, i) => new[i].id = items[i].id
    <3>1. \A i \in 2..(p - 1) : i \in 1..n
      BY <1>8
    <3> QED BY <1>4, <3>1 DEF TurnAt
  <2>2. NewestTurns(items, p, rows)
    BY DEF Stands
  <2>3. \A i \in Nat : TurnAt(new, p, i) => new[i].id \in rows
    BY <2>1, <2>2 DEF NewestTurns
  <2>4. \A i, j \in Nat : TurnAt(new, p, i) /\ TurnAt(new, p, j) /\ i < j => new[i].id < new[j].id
    BY <2>1, <2>2 DEF NewestTurns
  <2>5. ASSUME NEW k \in rows
        PROVE  \/ \E i \in Nat : TurnAt(new, p, i) /\ new[i].id = k
               \/ \A j \in Nat : TurnAt(new, p, j) => k < new[j].id
    BY <2>1, <2>2 DEF NewestTurns
  <2> QED BY <2>3, <2>4, <2>5 DEF NewestTurns
<1>12. Evident(new)
  <2> SUFFICES ASSUME NEW i \in 1..(n + m), new[i].cited PROVE new[i].evidence
    BY <1>4 DEF Evident
  <2>1. CASE i \in 1..n
    BY <1>2, <1>4, <2>1 DEF Stands, Evident
  <2>2. CASE i \in (n + 1)..(n + m)
    BY <1>9, <2>2
  <2> QED BY <2>1, <2>2
<1> QED BY <1>3, <1>5, <1>10, <1>11, <1>12 DEF Stands

-----------------------------------------------------------------------------
\* The prompt and the request of an answer under way.
Prompts ==
    /\ gathered \in Seq(Nat) /\ (ans.pc \in {"idle", "assemble"} => gathered = <<>>)
    /\ ans.pc \in {"fit", "call"} => \E p \in Nat : Stands(prompt, p, ans.question, gathered, listed)
    /\ ans.pc = "call" => /\ \E p \in Nat : Stands(wire, p, ans.question, gathered, listed)
                          /\ Total(wire) <= Window[ans.route]

\* Places are handed out twice for a send at most, and all that was read is of
\* such places.
Counts ==
    /\ sends \in 0..MaxSends
    /\ place + (IF sender.pc = "list" THEN 1 ELSE 0) + (IF ans.pc = "assemble" THEN 1 ELSE 0) <= Kept + 2 * sends
ReadWithin(saw, n) == saw.folds \subseteq 1..n /\ saw.boundary \in 0..n
TaskWithin(j, n) ==
    /\ ReadWithin(j.saw, n) /\ j.covers \subseteq 1..n
    /\ j.pc = "model" => Cardinality(j.covers) \in MinBatch..MaxBatch
Within ==
    /\ disordered \subseteq 1..place /\ listed \subseteq 1..place
    /\ ReadWithin(row, place) /\ ReadWithin(sender.saw, place) /\ \A t \in Tasks : TaskWithin(task[t], place)
OwnPlace ==
    ans.pc \in {"fit", "call"} => ans.place \notin stored /\ (sender.pc = "list" => sender.place # ans.place)
LoopBounds ==
    /\ ans.tries \in 0..(MaxAttempts - 1) /\ ans.turn \in 0..MaxTurns /\ ans.calls \in 0..MaxCalls
    /\ ans.mode = "loop" => ans.turn < MaxTurns

RequestInv == ConversationInv /\ Prompts /\ Counts /\ Within /\ OwnPlace /\ LoopBounds

\* An answer that goes on with the same prompt, or with one that stands.
LEMMA PromptsGoOn ==
    ASSUME NEW p \in Nat, gathered' \in Seq(Nat), ans'.pc \in {"fit", "call"},
           Stands(prompt', p, ans'.question, gathered', listed'),
           ans'.pc = "call" => /\ \E r \in Nat : Stands(wire', r, ans'.question, gathered', listed')
                               /\ Total(wire') <= Window[ans'.route]
    PROVE  Prompts'
BY DEF Prompts

LEMMA PromptsClosed ==
    ASSUME NEW tokens, Close(tokens)
    PROVE  Prompts'
<1>1. ans'.pc = "idle" /\ gathered' = <<>>
  BY NoAnswerTypes DEF Close
<1>2. <<>> \in Seq(Nat)
  OBVIOUS
<1> QED BY <1>1, <1>2 DEF Prompts

\* The group of a tool turn.
LEMMA GroupIsTail ==
    ASSUME NEW t \in Nat, NEW results \in Results, NEW group, group = ToolGroup(t, results)
    PROVE  /\ group \in Seq(PromptItems)
           /\ \A i \in 1..Len(group) : /\ group[i].what \in {"call", "result", "reply"}
                                       /\ group[i].cited => group[i].evidence
<1>1. results \in Seq([size : Nat, cited : BOOLEAN])
  BY ConversationAssumption
<1>2. PICK n \in Nat : n = Len(results) /\ DOMAIN results = 1..n
  BY <1>1
<1>3. \A i \in 1..n : results[i].size \in Nat /\ results[i].cited \in BOOLEAN
  <2>1. \A i \in 1..n : results[i] \in [size : Nat, cited : BOOLEAN]
    <3>1. PICK R : R = [size : Nat, cited : BOOLEAN]
      OBVIOUS
    <3>2. results \in Seq(R)
      BY <1>1, <3>1
    <3>3. \A i \in 1..n : results[i] \in R
      BY <1>2, <3>2
    <3> QED BY <3>1, <3>3
  <2>2. \A it \in [size : Nat, cited : BOOLEAN] : it.size \in Nat /\ it.cited \in BOOLEAN
    OBVIOUS
  <2> QED BY <2>1, <2>2
<1>4. PICK a : a = Item("call", t, 1)
  OBVIOUS
<1>5. a \in PromptItems /\ a.what = "call" /\ ~a.cited
  BY <1>4 DEF Item, PromptItems
<1>6. PICK b : b = [i \in 1..n |-> [what |-> "result", id |-> t + i, size |-> results[i].size,
                                    cited |-> results[i].cited, evidence |-> results[i].cited]]
  OBVIOUS
<1>7. \A i \in 1..n : b[i] \in PromptItems /\ b[i].what = "result" /\ (b[i].cited => b[i].evidence)
  <2> TAKE i \in 1..n
  <2>1. b[i] = [what |-> "result", id |-> t + i, size |-> results[i].size,
                cited |-> results[i].cited, evidence |-> results[i].cited]
    BY <1>6
  <2>2. t + i \in Nat
    OBVIOUS
  <2> QED BY <1>3, <2>1, <2>2 DEF PromptItems
<1>8. b \in [1..n -> PromptItems]
  BY <1>6, <1>7
<1>9. b \in Seq(PromptItems) /\ Len(b) = n
  BY <1>8, ListIsSeq
<1>10. PICK c \in Seq(PromptItems) : c = <<a>> /\ Len(c) = 1 /\ c[1] = a
  <2>1. <<a>> \in Seq(PromptItems) /\ Len(<<a>>) = 1 /\ <<a>>[1] = a
    BY <1>5
  <2> QED BY <2>1, Zenon
<1>11. group = c \o b
  BY <1>2, <1>4, <1>6, <1>10 DEF ToolGroup
<1>12. /\ group \in Seq(PromptItems) /\ Len(group) = 1 + n /\ group[1] = a
       /\ \A i \in 1..n : group[1 + i] = b[i]
  <2>1. 1 \in 1..Len(c)
    BY <1>10
  <2> QED BY <1>9, <1>10, <1>11, <2>1, SeqsJoined
<1>13. \A i \in 1..(1 + n) : group[i].what \in {"call", "result", "reply"} /\ (group[i].cited => group[i].evidence)
  <2> TAKE i \in 1..(1 + n)
  <2>1. CASE i = 1
    BY <1>5, <1>12, <2>1
  <2>2. CASE i # 1
    <3>1. i - 1 \in 1..n /\ 1 + (i - 1) = i
      BY <2>2
    <3>2. group[i] = b[i - 1]
      BY <1>12, <3>1
    <3> QED BY <1>7, <3>1, <3>2
  <2> QED BY <2>1, <2>2
<1> QED BY <1>12, <1>13
LEMMA PlacesOfGroup ==
    ASSUME NEW group \in Seq(PromptItems), NEW ids, ids = [i \in DOMAIN group |-> group[i].id]
    PROVE  ids \in Seq(Nat) /\ Len(ids) = Len(group) /\ \A i \in 1..Len(group) : group[i].id = ids[i]
<1>1. PICK n \in Nat : n = Len(group) /\ DOMAIN group = 1..n /\ \A i \in 1..n : group[i] \in PromptItems
  OBVIOUS
<1>2. \A it \in PromptItems : it.id \in Nat
  BY DEF PromptItems
<1>3. ids \in [1..n -> Nat] /\ \A i \in 1..n : group[i].id = ids[i]
  BY <1>1, <1>2
<1>4. ids \in Seq(Nat) /\ Len(ids) = n
  BY <1>3, ListIsSeq
<1> QED BY <1>1, <1>3, <1>4

\* The windows are numbers.
LEMMA WindowsAre == \A r \in Routes : Window[r] \in Nat
BY ConversationAssumption DEF Routes

\* Every step of the loop leaves a prompt that stands, and a request that fits.
LEMMA PromptsStep ==
    ASSUME RequestInv, LoopNext
    PROVE  Prompts'
<1>0. /\ ans \in Answers /\ gathered \in Seq(Nat) /\ listed \subseteq 1..place /\ place \in Nat
      /\ ans.route \in Routes /\ ans.turn \in Nat
  BY DEF RequestInv, ConversationInv, AnswerTypes, Answers, Prompts, Within, MemoryInv, MemoryTypes
<1>a. listed \subseteq Nat /\ listed \in SUBSET Nat /\ IsFiniteSet(listed)
  <2>1. IsFiniteSet(1..place)
    BY <1>0, FS_Interval
  <2>2. IsFiniteSet(listed)
    BY <1>0, <2>1, FS_Subset
  <2>3. \A m \in listed : m \in Nat
    BY <1>0
  <2> QED BY <2>2, <2>3
<1>b. ASSUME ans.pc \in {"fit", "call"} PROVE \E p \in Nat : Stands(prompt, p, ans.question, gathered, listed)
  BY <1>b DEF RequestInv, Prompts
<1>c. \A tokens : Fail(tokens) \/ Finish(tokens) \/ GiveUp(tokens) => Prompts'
  BY PromptsClosed DEF Fail, Finish, GiveUp
<1>1. CASE AssembleContext
  <2> DEFINE turns == [i \in 1..Cardinality(listed) |-> Turn(Nth(listed, i))]
             built == Assemble(shown # {}, turns, Question(ans.question, ans.size), Window[1])
  <2>1. CASE Fail(0)
    BY <1>c, <2>1
  <2>2. CASE /\ built # TooLarge /\ ans' = [ans EXCEPT !.pc = "fit", !.place = place + 1]
             /\ prompt' = built /\ UNCHANGED <<gathered, listed>>
    <3>1. /\ ans.question \in Nat /\ ans.size \in Nat /\ Window[1] \in Nat /\ (shown # {}) \in BOOLEAN
      BY <1>0, WindowsAre, FirstRoute DEF Answers
    <3>2. ans.pc = "assemble" /\ gathered = <<>>
      BY <1>1 DEF AssembleContext, RequestInv, Prompts
    <3>3. PICK p \in Nat : Stands(built, p, ans.question, <<>>, listed)
      BY <1>a, <2>2, <3>1, AssembledStands
    <3>4. ans'.pc = "fit" /\ ans'.question = ans.question
      BY <1>0, <2>2 DEF Answers
    <3> HIDE DEF built
    <3>5. Stands(prompt', p, ans'.question, gathered', listed') /\ gathered' \in Seq(Nat)
      BY <1>0, <2>2, <3>2, <3>3, <3>4
    <3> QED BY <3>4, <3>5, PromptsGoOn
  <2> QED BY <1>1, <2>1, <2>2 DEF AssembleContext
<1>2. CASE FitTurn
  <2>1. CASE Fail(0)
    BY <1>c, <2>1
  <2>2. CASE ~Fail(0)
    <3>1. PICK fitted : /\ fitted = FitTranscript(prompt, Window[ans.route]) /\ fitted # TooLarge
                        /\ ans' = [ans EXCEPT !.pc = "call", !.tries = 0]
                        /\ prompt' = fitted /\ wire' = fitted /\ UNCHANGED <<gathered, listed>>
      BY <1>2, <2>2 DEF FitTurn
    <3>2. PICK p \in Nat : Stands(prompt, p, ans.question, gathered, listed)
      BY <1>2, <1>b DEF FitTurn
    <3>3. Window[ans.route] \in Nat
      BY <1>0, WindowsAre
    <3>4. (\E r \in Nat : Stands(fitted, r, ans.question, gathered, listed)) /\ Total(fitted) <= Window[ans.route]
      BY <1>a, <3>1, <3>2, <3>3, FitStands
    <3>5. ans'.pc = "call" /\ ans'.question = ans.question /\ ans'.route = ans.route
      BY <1>0, <3>1 DEF Answers
    <3>6. PICK r \in Nat : Stands(fitted, r, ans.question, gathered, listed)
      BY <3>4
    <3>7. /\ Stands(prompt', r, ans'.question, gathered', listed') /\ Stands(wire', r, ans'.question, gathered', listed')
          /\ gathered' \in Seq(Nat) /\ Total(wire') <= Window[ans'.route]
      BY <1>0, <3>1, <3>4, <3>5, <3>6
    <3> QED BY <3>5, <3>7, PromptsGoOn
  <2> QED BY <2>1, <2>2
<1>3. CASE CallsExhausted \/ TurnFails \/ Answer
  BY <1>3, <1>c DEF CallsExhausted, TurnFails, Answer
<1>4. CASE Truncated
  <2>1. ans.pc = "call" /\ listed' = listed
    BY <1>4 DEF Truncated, Claims
  <2>2. PICK p \in Nat : Stands(prompt, p, ans.question, gathered, listed)
    BY <1>b, <2>1
  <2>3. ans' = [ans EXCEPT !.pc = "fit", !.mode = "continue", !.calls = @ + 1]
    BY <1>4 DEF Truncated
  <2>4. ans'.pc = "fit" /\ ans'.question = ans.question
    BY <1>0, <2>3 DEF Answers
  <2>5. CASE prompt' = Append(prompt, Item("reply", 1, 1)) /\ gathered' = Append(gathered, 1)
    <3>1. PICK it : it = Item("reply", 1, 1)
      OBVIOUS
    <3>2. it \in PromptItems /\ it.what = "reply" /\ ~it.cited /\ it.id = 1
      BY <3>1 DEF Item, PromptItems
    <3>3. PICK more \in Seq(PromptItems), ids \in Seq(Nat) :
              /\ more = <<it>> /\ Len(more) = 1 /\ more[1] = it
              /\ ids = <<1>> /\ Len(ids) = 1 /\ ids[1] = 1
      <4>1. <<it>> \in Seq(PromptItems) /\ Len(<<it>>) = 1 /\ <<it>>[1] = it
        BY <3>2
      <4>2. <<1>> \in Seq(Nat) /\ Len(<<1>>) = 1 /\ <<1>>[1] = 1
        OBVIOUS
      <4> QED BY <4>1, <4>2, Zenon
    <3>4. \A i \in 1..Len(more) : /\ more[i].what \in {"call", "result", "reply"} /\ more[i].id = ids[i]
                                  /\ more[i].cited => more[i].evidence
      <4>1. \A i \in 1..Len(more) : i = 1
        BY <3>3
      <4> QED BY <3>2, <3>3, <4>1
    <3>5. Len(ids) = Len(more)
      BY <3>3
    <3>6. Stands(prompt \o more, p, ans.question, gathered \o ids, listed)
      <4>1. gathered \in Seq(Nat) /\ more \in Seq(PromptItems) /\ ids \in Seq(Nat)
        BY <1>0, <3>3
      <4> QED BY <2>2, <3>4, <3>5, <4>1, GatheredStands
    <3>7. prompt \in Seq(PromptItems)
      BY <2>2 DEF Stands, Framed
    <3>8. prompt' = prompt \o more /\ gathered' = gathered \o ids
      <4>1. Append(prompt, it) = prompt \o <<it>>
        BY <3>2, <3>7, OneJoined
      <4>2. gathered \in Seq(Nat) /\ 1 \in Nat
        BY <1>0
      <4>3. Append(gathered, 1) = gathered \o <<1>>
        BY <4>2, OneJoined
      <4> QED BY <2>5, <3>1, <3>3, <4>1, <4>3
    <3>9. gathered' \in Seq(Nat)
      BY <1>0, <3>3, <3>8, SeqsJoined
    <3>10. Stands(prompt', p, ans'.question, gathered', listed')
      BY <2>1, <2>4, <3>6, <3>8
    <3> QED BY <2>4, <3>9, <3>10, PromptsGoOn
  <2>6. CASE UNCHANGED <<prompt, gathered>>
    <3>1. Stands(prompt', p, ans'.question, gathered', listed') /\ gathered' \in Seq(Nat)
      BY <1>0, <2>1, <2>2, <2>4, <2>6
    <3> QED BY <2>4, <3>1, PromptsGoOn
  <2> QED BY <1>4, <2>5, <2>6 DEF Truncated
<1>5. CASE ToolTurn
  <2>1. ans.pc = "call" /\ listed' = listed
    BY <1>5 DEF ToolTurn, Claims
  <2>2. PICK p \in Nat : Stands(prompt, p, ans.question, gathered, listed)
    BY <1>b, <2>1
  <2>3. PICK results \in Results : LET group == ToolGroup(10 * (ans.turn + 1), results)
                                   IN /\ prompt' = prompt \o group
                                      /\ gathered' = gathered \o [i \in DOMAIN group |-> group[i].id]
    BY <1>5 DEF ToolTurn
  <2>4. PICK group, ids : /\ group = ToolGroup(10 * (ans.turn + 1), results)
                          /\ ids = [i \in DOMAIN group |-> group[i].id]
    OBVIOUS
  <2>5. prompt' = prompt \o group /\ gathered' = gathered \o ids
    BY <2>3, <2>4
  <2>6. PICK t \in Nat : t = 10 * (ans.turn + 1)
    BY <1>0
  <2>7. /\ group \in Seq(PromptItems) /\ ids \in Seq(Nat) /\ Len(ids) = Len(group)
        /\ \A i \in 1..Len(group) : /\ group[i].what \in {"call", "result", "reply"} /\ group[i].id = ids[i]
                                    /\ group[i].cited => group[i].evidence
    <3>1. group = ToolGroup(t, results)
      BY <2>4, <2>6
    <3>2. /\ group \in Seq(PromptItems)
          /\ \A i \in 1..Len(group) : /\ group[i].what \in {"call", "result", "reply"}
                                      /\ group[i].cited => group[i].evidence
      BY <2>3, <2>6, <3>1, GroupIsTail
    <3>3. ids \in Seq(Nat) /\ Len(ids) = Len(group) /\ \A i \in 1..Len(group) : group[i].id = ids[i]
      BY <2>4, <3>2, PlacesOfGroup
    <3> QED BY <3>2, <3>3
  <2>8. Stands(prompt \o group, p, ans.question, gathered \o ids, listed)
    BY <1>0, <2>2, <2>7, GatheredStands
  <2>9. gathered \o ids \in Seq(Nat)
    BY <1>0, <2>7, SeqsJoined
  <2>10. ans'.pc = "fit" /\ ans'.question = ans.question
    <3>1. ans' = [ans EXCEPT !.pc = "fit", !.turn = @ + 1, !.calls = @ + 1,
                             !.mode = IF ans.turn + 1 = MaxTurns THEN "wrap" ELSE "loop"]
      BY <1>5 DEF ToolTurn
    <3> QED BY <1>0, <3>1 DEF Answers
  <2>11. Stands(prompt', p, ans'.question, gathered', listed') /\ gathered' \in Seq(Nat)
    BY <2>1, <2>5, <2>8, <2>9, <2>10
  <2> QED BY <2>10, <2>11, PromptsGoOn
<1>6. CASE ToolBudgetSpent
  <2>1. ans.pc = "call" /\ UNCHANGED <<prompt, gathered, listed>>
    BY <1>6 DEF ToolBudgetSpent, Claims
  <2>2. PICK p \in Nat : Stands(prompt, p, ans.question, gathered, listed)
    BY <1>b, <2>1
  <2>3. ans'.pc = "fit" /\ ans'.question = ans.question
    <3>1. ans' = [ans EXCEPT !.pc = "fit", !.mode = "wrap", !.calls = @ + 1]
      BY <1>6 DEF ToolBudgetSpent
    <3> QED BY <1>0, <3>1 DEF Answers
  <2>4. Stands(prompt', p, ans'.question, gathered', listed') /\ gathered' \in Seq(Nat)
    BY <1>0, <2>1, <2>2, <2>3
  <2> QED BY <2>3, <2>4, PromptsGoOn
<1>7. CASE Retry
  <2>1. ans.pc = "call" /\ UNCHANGED <<prompt, wire, gathered, listed>>
    BY <1>7 DEF Retry, Claims
  <2>2. ans'.pc = "call" /\ ans'.question = ans.question /\ ans'.route = ans.route
    <3>1. ans' = [ans EXCEPT !.tries = @ + 1, !.calls = @ + 1]
      BY <1>7 DEF Retry
    <3> QED BY <1>0, <2>1, <3>1 DEF Answers
  <2> QED BY <2>1, <2>2 DEF RequestInv, Prompts
<1>8. CASE Failover
  <2>1. PICK r \in Routes, tokens \in 0..1 :
              \/ Fail(tokens)
              \/ /\ Refit(r) # TooLarge /\ wire' = Refit(r)
                 /\ ans' = [ans EXCEPT !.route = r, !.tries = 0, !.calls = @ + 1]
                 /\ UNCHANGED <<prompt, gathered, listed>>
    BY <1>8 DEF Failover, FaultTokens
  <2>2. CASE Fail(tokens)
    BY <1>c, <2>2
  <2>3. CASE ~Fail(tokens)
    <3>1. ans.pc = "call"
      BY <1>8 DEF Failover, Dying, Claims
    <3>2. PICK p \in Nat : Stands(prompt, p, ans.question, gathered, listed)
      BY <1>b, <3>1
    <3>3. PICK fitted : fitted = FitTranscript(prompt, Window[r]) /\ fitted # TooLarge /\ wire' = fitted
      BY <2>1, <2>3 DEF Refit
    <3>4. Window[r] \in Nat
      BY WindowsAre
    <3>5. (\E n \in Nat : Stands(fitted, n, ans.question, gathered, listed)) /\ Total(fitted) <= Window[r]
      BY <1>a, <3>2, <3>3, <3>4, FitStands
    <3>6. ans'.pc = "call" /\ ans'.question = ans.question /\ ans'.route = r
      BY <1>0, <2>1, <2>3, <3>1 DEF Answers
    <3>7. PICK n \in Nat : Stands(fitted, n, ans.question, gathered, listed)
      BY <3>5
    <3>8. /\ Stands(prompt', p, ans'.question, gathered', listed') /\ Stands(wire', n, ans'.question, gathered', listed')
          /\ gathered' \in Seq(Nat) /\ Total(wire') <= Window[ans'.route]
      BY <1>0, <2>1, <2>3, <3>2, <3>3, <3>5, <3>6, <3>7
    <3> QED BY <3>6, <3>8, PromptsGoOn
  <2> QED BY <2>2, <2>3
<1> QED BY <1>1, <1>2, <1>3, <1>4, <1>5, <1>6, <1>7, <1>8 DEF LoopNext


\* What was read at places up to n is at places up to a later one.
LEMMA ReadLater ==
    ASSUME NEW n \in Nat, NEW m \in Nat, n <= m, NEW saw, ReadWithin(saw, n)
    PROVE  ReadWithin(saw, m)
<1>1. \A k \in 1..n : k \in 1..m
  OBVIOUS
<1>2. \A k \in 0..n : k \in 0..m
  OBVIOUS
<1> QED BY <1>1, <1>2 DEF ReadWithin
LEMMA TaskLater ==
    ASSUME NEW n \in Nat, NEW m \in Nat, n <= m, NEW j, TaskWithin(j, n)
    PROVE  TaskWithin(j, m)
<1>1. \A k \in 1..n : k \in 1..m
  OBVIOUS
<1>2. ReadWithin(j.saw, m)
  BY ReadLater DEF TaskWithin
<1> QED BY <1>1, <1>2 DEF TaskWithin

\* A task at rest or in the queue has read nothing.
LEMMA NothingWithin ==
    ASSUME NEW n \in Nat
    PROVE  /\ ReadWithin(NoRow, n) /\ ReadWithin(IdleSender.saw, n)
           /\ \A j : j = IdleTask \/ j = [IdleTask EXCEPT !.pc = "queued"] => TaskWithin(j, n)
<1>1. ReadWithin(NoRow, n) /\ IdleSender.saw = NoRow
  BY DEF ReadWithin, NoRow, IdleSender
<1>2. ASSUME NEW j, j = IdleTask \/ j = [IdleTask EXCEPT !.pc = "queued"] PROVE TaskWithin(j, n)
  <2>1. j.saw = NoRow /\ j.covers = {} /\ j.pc # "model"
    BY <1>2 DEF IdleTask
  <2> QED BY <1>1, <2>1 DEF TaskWithin
<1> QED BY <1>1, <1>2

\* What is read is of places handed out before.
LEMMA WithinGoesOn ==
    ASSUME RequestInv, place' \in Nat, place' >= place,
           \A m \in disordered' : m \in disordered \/ m \in 1..place,
           \A m \in listed' : m \in listed \/ m \in 1..place,
           row' = row \/ ReadWithin(row', place),
           sender'.saw = sender.saw \/ ReadWithin(sender'.saw, place),
           \A t \in Tasks : task'[t] = task[t] \/ TaskWithin(task'[t], place)
    PROVE  Within'
<1>1. place \in Nat /\ Within
  BY DEF RequestInv, ConversationInv, MemoryInv, MemoryTypes
<1>2. PICK n \in Nat : n = place' /\ place <= n
  BY <1>1
<1>3. \A k \in 1..place : k \in 1..n
  BY <1>1, <1>2
<1>4. ReadWithin(row', place) /\ ReadWithin(sender'.saw, place) /\ \A t \in Tasks : TaskWithin(task'[t], place)
  BY <1>1 DEF Within
<1>5. ReadWithin(row', n)
  BY <1>1, <1>2, <1>4, ReadLater
<1>6. ReadWithin(sender'.saw, n)
  BY <1>1, <1>2, <1>4, ReadLater
<1>7. \A t \in Tasks : TaskWithin(task'[t], n)
  BY <1>1, <1>2, <1>4, TaskLater
<1>8. disordered' \subseteq 1..n /\ listed' \subseteq 1..n
  BY <1>1, <1>3 DEF Within
<1> QED BY <1>2, <1>5, <1>6, <1>7, <1>8 DEF Within

\* The batch of a task is no longer than it may be.
LEMMA BatchWithin ==
    ASSUME MemoryInv, NEW cursor \in Nat
    PROVE  Batch(cursor) \subseteq 1..place /\ Cardinality(Batch(cursor)) \in Nat /\ Cardinality(Batch(cursor)) <= MaxBatch
<1>1. place \in Nat /\ stored \subseteq 1..place /\ stored \subseteq Nat \ {0} /\ IsFiniteSet(stored)
  BY StoredFinite DEF MemoryInv, MemoryTypes
<1>2. Batch(cursor) \subseteq stored /\ IsFiniteSet(Batch(cursor))
  BY <1>1, BatchIsPrefix
<1>3. \E S \in SUBSET stored : Batch(cursor) = First(S, MaxBatch)
  <2> DEFINE L == ListAfter(cursor)
             limit == MaxBatch + KeepMessages
             fetched == First(L, limit)
             uncovered == {m \in fetched : m > cursor}
             n == IF Cardinality(uncovered) > KeepMessages THEN Cardinality(uncovered) - KeepMessages ELSE 0
             chosen == IF Cardinality(fetched) >= limit THEN uncovered ELSE First(uncovered, n)
  <2>1. Batch(cursor) = First(chosen, MaxBatch)
    BY DEF Batch
  <2>2. L \subseteq stored
    BY DEF ListAfter
  <2>3. \A S, k : First(S, k) \subseteq S
    BY DEF First
  <2>4. fetched \subseteq stored
    BY <2>2, <2>3
  <2>5. uncovered \subseteq stored
    BY <2>4
  <2>6. First(uncovered, n) \subseteq stored
    BY <2>3, <2>5
  <2>7. chosen \subseteq stored
    BY <2>5, <2>6
  <2> QED BY <2>1, <2>7
<1>4. PICK S \in SUBSET stored : Batch(cursor) = First(S, MaxBatch)
  BY <1>3
<1>5. IsFiniteSet(S) /\ S \in SUBSET Nat
  BY <1>1, <1>4, FS_Subset
<1>6. Cardinality({d \in S : Cardinality({e \in S : e < d}) < MaxBatch}) <= MaxBatch
  BY <1>5, MemoryAssumption, BatchBound
<1>7. Cardinality(Batch(cursor)) <= MaxBatch
  BY <1>4, <1>6 DEF First
<1> QED BY <1>1, <1>2, <1>7, FS_CardinalityType

\* The steps of summarize_session read and write what is within.
LEMMA TaskWithinStep ==
    ASSUME RequestInv, TaskNext, UNCHANGED loopVars
    PROVE  Within' /\ UNCHANGED <<stored, place, sender, sends>>
<1>0. /\ MemoryInv /\ place \in Nat /\ Within /\ task \in [Tasks -> TaskStates]
  BY DEF RequestInv, ConversationInv, MemoryInv, MemoryTypes
<1>1. PICK t \in Tasks : \/ ReadSummary(t) \/ ListUncovered(t) \/ RefuseSummary(t)
                         \/ UpsertSummary(t) \/ SummarizerCrash(t)
  BY DEF TaskNext
<1>2. UNCHANGED <<stored, place, disordered, sender, sends>> /\ listed' = listed
  BY <1>1 DEF ReadSummary, ListUncovered, RefuseSummary, UpsertSummary, SummarizerCrash, loopVars
<1>3. task[t] \in TaskStates /\ task[t].saw \in SummaryRows /\ ReadWithin(row, place) /\ TaskWithin(task[t], place)
  BY <1>0 DEF Within, TaskStates
<1>a. ASSUME NEW new, task' = [task EXCEPT ![t] = new], TaskWithin(new, place)
      PROVE  \A u \in Tasks : task'[u] = task[u] \/ TaskWithin(task'[u], place)
  BY <1>0, <1>a
<1>b. \A j : j = IdleTask \/ j = [IdleTask EXCEPT !.pc = "queued"] => TaskWithin(j, place)
  BY <1>0, NothingWithin
<1>4. \A u \in Tasks : task'[u] = task[u] \/ TaskWithin(task'[u], place)
  <2>1. CASE ReadSummary(t)
    <3>1. PICK new : new = [task[t] EXCEPT !.pc = "list", !.saw = row]
      OBVIOUS
    <3>2. new.saw = row /\ new.covers = task[t].covers /\ new.pc = "list"
      BY <1>3, <3>1 DEF TaskStates
    <3>3. TaskWithin(new, place)
      BY <1>3, <3>2 DEF TaskWithin
    <3> QED BY <1>a, <2>1, <3>1, <3>3 DEF ReadSummary, SetTask
  <2>2. CASE ListUncovered(t)
    <3>1. PICK batch : batch = Batch(Cursor(task[t].saw))
      OBVIOUS
    <3>2. batch \subseteq 1..place /\ Cardinality(batch) \in Nat /\ Cardinality(batch) <= MaxBatch
      BY <1>0, <1>3, <3>1, CursorIsPlace, BatchWithin
    <3>3. PICK new : new = [task[t] EXCEPT !.pc = "model", !.covers = batch]
      OBVIOUS
    <3>4. new.saw = task[t].saw /\ new.covers = batch
      BY <1>3, <3>3 DEF TaskStates
    <3>5. Cardinality(batch) >= MinBatch => TaskWithin(new, place)
      BY <1>3, <3>2, <3>4, MemoryAssumption DEF TaskWithin
    <3>6. \/ task' = [task EXCEPT ![t] = IdleTask]
          \/ task' = [task EXCEPT ![t] = new] /\ ~(Cardinality(batch) < MinBatch)
      BY <2>2, <3>1, <3>3 DEF ListUncovered, SetTask
    <3>7. ~(Cardinality(batch) < MinBatch) => Cardinality(batch) >= MinBatch
      BY <3>2, MemoryAssumption
    <3> QED BY <1>a, <1>b, <3>5, <3>6, <3>7
  <2>3. CASE RefuseSummary(t) \/ UpsertSummary(t)
    BY <1>a, <1>b, <2>3 DEF RefuseSummary, UpsertSummary, SetTask
  <2>4. CASE SummarizerCrash(t)
    BY <1>a, <1>b, <2>4 DEF SummarizerCrash, SetTask
  <2> QED BY <1>1, <2>1, <2>2, <2>3, <2>4
<1>5. row' = row \/ ReadWithin(row', place)
  <2>1. CASE UpsertSummary(t)
    <3>1. PICK j, folds : j = task[t] /\ folds = (IF j.saw.state = "valid" THEN j.saw.folds ELSE {}) \cup j.covers
      OBVIOUS
    <3>2. j.pc = "model" /\ (row' = row \/ row' = [state |-> "valid", folds |-> folds, boundary |-> Max(j.covers),
                                                   version |-> row.version + 1])
      BY <2>1, <3>1 DEF UpsertSummary, NewBoundary
    <3>3. j.covers # {}
      BY <1>0, <3>1, <3>2 DEF MemoryInv, SummariesStand, FoldsOn
    <3>4. j.covers \subseteq 1..place /\ j.saw.folds \subseteq 1..place
      BY <1>3, <3>1 DEF TaskWithin, ReadWithin
    <3>5. j.covers \in SUBSET Nat /\ \A k \in j.covers : k <= place
      BY <1>0, <3>4
    <3>6. Max(j.covers) \in j.covers
      BY <1>0, <3>3, <3>5, LargestOne
    <3>7. Max(j.covers) \in 0..place
      BY <1>0, <3>4, <3>6
    <3>8. folds \subseteq 1..place
      BY <3>1, <3>4
    <3>9. ASSUME NEW new, new = [state |-> "valid", folds |-> folds, boundary |-> Max(j.covers), version |-> row.version + 1]
          PROVE  ReadWithin(new, place)
      <4>1. new.folds = folds /\ new.boundary = Max(j.covers)
        BY <3>9
      <4> QED BY <3>7, <3>8, <4>1 DEF ReadWithin
    <3> QED BY <3>2, <3>9
  <2>2. CASE ~UpsertSummary(t)
    BY <1>1, <2>2 DEF ReadSummary, ListUncovered, RefuseSummary, SummarizerCrash
  <2> QED BY <2>1, <2>2
<1>6. place' \in Nat /\ place' >= place
  BY <1>0, <1>2
<1> QED BY <1>2, <1>4, <1>5, <1>6, WithinGoesOn

\* A row is committed at a place that was handed out, and perhaps a task enqueued.
LEMMA InsertWithin ==
    ASSUME RequestInv, NEW m \in 1..place, Insert(m) \/ UNCHANGED <<stored, disordered>>,
           UNCHANGED <<place, row>>, sender'.saw = sender.saw \/ sender' = IdleSender,
           task' = task \/ EnqueueSummarize, \A k \in listed' : k \in listed \/ k \in 1..place
    PROVE  Within'
<1>1. place \in Nat /\ task \in [Tasks -> TaskStates]
  BY DEF RequestInv, ConversationInv, MemoryInv, MemoryTypes
<1>2. \A k \in disordered' : k \in disordered \/ k \in 1..place
  BY DEF Insert
<1>3. \A t \in Tasks : task'[t] = task[t] \/ task'[t] = [IdleTask EXCEPT !.pc = "queued"]
  BY <1>1 DEF EnqueueSummarize, SetTask
<1>4. /\ ReadWithin(IdleSender.saw, place)
      /\ \A j : j = IdleTask \/ j = [IdleTask EXCEPT !.pc = "queued"] => TaskWithin(j, place)
  BY <1>1, NothingWithin
<1>5. \A t \in Tasks : task'[t] = task[t] \/ TaskWithin(task'[t], place)
  BY <1>3, <1>4
<1>6. sender'.saw = sender.saw \/ ReadWithin(sender'.saw, place)
  BY <1>4
<1>7. place' \in Nat /\ place' >= place
  BY <1>1
<1> QED BY <1>2, <1>5, <1>6, <1>7, WithinGoesOn

\* The answer's own row, and what it may count to.
LEMMA ClosedBounds ==
    ASSUME ans' = NoAnswer
    PROVE  OwnPlace' /\ LoopBounds'
<1>1. ans'.pc = "idle" /\ ans'.tries = 0 /\ ans'.turn = 0 /\ ans'.calls = 0 /\ ans'.mode = "loop"
  BY DEF NoAnswer
<1>2. 0 \in 0..(MaxAttempts - 1) /\ 0 \in 0..MaxTurns /\ 0 \in 0..MaxCalls /\ 0 < MaxTurns
  BY ConversationAssumption
<1> QED BY <1>1, <1>2 DEF OwnPlace, LoopBounds

\* An answer that ends with an error.
LEMMA FailBounds ==
    ASSUME RequestInv, NEW tokens, Fail(tokens)
    PROVE  Counts' /\ Within' /\ OwnPlace' /\ LoopBounds'
<1>1. /\ ans' = NoAnswer /\ listed' = {} /\ UNCHANGED <<stored, place, disordered, row, task, sender, sends>>
  BY DEF Fail, Close, memoryVars
<1>2. place \in Nat /\ sends \in 0..MaxSends /\ NoAnswer.pc = "idle"
  BY NoAnswerTypes DEF RequestInv, ConversationInv, MemoryInv, MemoryTypes, Counts
<1>3. place' \in Nat /\ place' >= place
  BY <1>1, <1>2
<1>4. Within'
  BY <1>1, <1>3, WithinGoesOn
<1>5. Counts'
  BY <1>1, <1>2, MemoryAssumption DEF RequestInv, Counts
<1> QED BY <1>1, <1>4, <1>5, ClosedBounds

\* One that is stored.
LEMMA FinishBounds ==
    ASSUME RequestInv, NEW tokens, Finish(tokens), ans.pc = "call"
    PROVE  Counts' /\ Within' /\ OwnPlace' /\ LoopBounds'
<1>1. /\ ans' = NoAnswer /\ listed' = {} /\ UNCHANGED <<place, row, sender, sends>>
      /\ task' = task \/ EnqueueSummarize
      /\ Insert(ans.place) \/ UNCHANGED <<stored, disordered>>
  BY DEF Finish, Close
<1>2. /\ place \in Nat /\ sends \in 0..MaxSends /\ NoAnswer.pc = "idle" /\ ans.place \in 1..place
  BY NoAnswerTypes DEF RequestInv, ConversationInv, MemoryInv, MemoryTypes, Counts, AnswerTypes
<1>3. Within'
  BY <1>1, <1>2, InsertWithin
<1>4. Counts'
  BY <1>1, <1>2, MemoryAssumption DEF RequestInv, Counts
<1> QED BY <1>1, <1>3, <1>4, ClosedBounds

\* An answer that goes on, at the same place.
LEMMA GoesOnBounds ==
    ASSUME RequestInv, ans.pc \in {"fit", "call"}, ans'.pc \in {"fit", "call"}, ans'.place = ans.place,
           UNCHANGED <<memoryVars, listed>>
    PROVE  Counts' /\ Within' /\ OwnPlace'
<1>1. UNCHANGED <<stored, place, disordered, row, task, sender, sends>>
  BY DEF memoryVars
<1>2. place \in Nat /\ sends \in 0..MaxSends
  BY DEF RequestInv, ConversationInv, MemoryInv, MemoryTypes, Counts
<1>3. place' \in Nat /\ place' >= place
  BY <1>1, <1>2
<1>4. Within'
  BY <1>1, <1>3, WithinGoesOn
<1>5. Counts'
  BY <1>1, <1>2, MemoryAssumption DEF RequestInv, Counts
<1>6. OwnPlace'
  BY <1>1 DEF RequestInv, OwnPlace
<1> QED BY <1>4, <1>5, <1>6

\* The prompt is assembled: the answer takes its place.
LEMMA AssembleBounds ==
    ASSUME RequestInv, AssembleContext
    PROVE  Counts' /\ Within' /\ OwnPlace' /\ LoopBounds'
<1>1. CASE Fail(0)
  BY <1>1, FailBounds
<1>2. CASE /\ place' = place + 1 /\ ans' = [ans EXCEPT !.pc = "fit", !.place = place + 1]
           /\ UNCHANGED <<stored, disordered, row, task, sender, sends, listed>>
  <2>1. /\ place \in Nat /\ stored \subseteq 1..place /\ sender \in Senders /\ ans \in Answers
        /\ sends \in 0..MaxSends /\ (sender.pc = "list" => sender.place <= place) /\ ans.pc = "assemble"
    BY DEF RequestInv, ConversationInv, MemoryInv, MemoryTypes, AnswerTypes, Counts, AssembleContext
  <2>2. /\ ans'.pc = "fit" /\ ans'.place = place + 1 /\ ans'.tries = ans.tries /\ ans'.turn = ans.turn
        /\ ans'.calls = ans.calls /\ ans'.mode = ans.mode
    BY <1>2, <2>1 DEF Answers
  <2>3. place' \in Nat /\ place' >= place
    BY <1>2, <2>1
  <2>4. Within'
    BY <1>2, <2>3, WithinGoesOn
  <2>5. LoopBounds'
    BY <2>2 DEF RequestInv, LoopBounds
  <2>6. Counts'
    BY <1>2, <2>1, <2>2, MemoryAssumption DEF RequestInv, Counts
  <2>7. sender.pc = "list" => sender.place \in Nat
    BY <2>1 DEF Senders, IdleSender
  <2>8. place + 1 \notin stored /\ (sender.pc = "list" => sender.place # place + 1)
    BY <2>1, <2>7
  <2>9. OwnPlace'
    BY <1>2, <2>2, <2>8 DEF OwnPlace
  <2> QED BY <2>4, <2>5, <2>6, <2>9
<1> QED BY <1>1, <1>2 DEF AssembleContext

\* Every step of the loop counts within its bounds.
LEMMA BoundsStep ==
    ASSUME RequestInv, LoopNext
    PROVE  Counts' /\ Within' /\ OwnPlace' /\ LoopBounds'
<1>0. /\ ans \in Answers /\ ans.tries \in 0..(MaxAttempts - 1) /\ ans.turn \in 0..MaxTurns
      /\ ans.calls \in 0..MaxCalls /\ (ans.mode = "loop" => ans.turn < MaxTurns)
  BY DEF RequestInv, ConversationInv, AnswerTypes, LoopBounds
<1>a. MaxTurns \in Nat \ {0} /\ MaxAttempts \in Nat \ {0} /\ MaxCalls \in Nat
  BY ConversationAssumption
<1>1. CASE AssembleContext
  BY <1>1, AssembleBounds
<1>2. CASE FitTurn
  <2>1. CASE Fail(0)
    BY <2>1, FailBounds
  <2>2. CASE ans' = [ans EXCEPT !.pc = "call", !.tries = 0] /\ UNCHANGED <<memoryVars, listed>>
    <3>1. /\ ans'.pc = "call" /\ ans'.place = ans.place /\ ans'.tries = 0 /\ ans'.turn = ans.turn
          /\ ans'.calls = ans.calls /\ ans'.mode = ans.mode
      BY <1>0, <2>2 DEF Answers
    <3>2. ans.pc = "fit"
      BY <1>2 DEF FitTurn
    <3>3. Counts' /\ Within' /\ OwnPlace'
      BY <2>2, <3>1, <3>2, GoesOnBounds
    <3>4. LoopBounds'
      BY <1>0, <1>a, <3>1 DEF LoopBounds
    <3> QED BY <3>3, <3>4
  <2> QED BY <1>2, <2>1, <2>2 DEF FitTurn
<1>3. CASE CallsExhausted \/ TurnFails \/ Answer
  <2>1. PICK tokens \in {0, 1} : ans.pc = "call" /\ (Fail(tokens) \/ Finish(tokens))
    BY <1>3 DEF CallsExhausted, TurnFails, Answer, GiveUp, Claims, FaultTokens
  <2> QED BY <2>1, FailBounds, FinishBounds
<1>b. ASSUME Claims, NEW new, ans' = new, new.pc \in {"fit", "call"}, new.place = ans.place,
             UNCHANGED <<memoryVars, listed>>, new.calls = ans.calls + 1,
             new.tries \in 0..(MaxAttempts - 1), new.turn \in 0..MaxTurns, new.mode = "loop" => new.turn < MaxTurns
      PROVE  Counts' /\ Within' /\ OwnPlace' /\ LoopBounds'
  <2>1. ans.pc = "call" /\ ans.calls < MaxCalls
    BY <1>b DEF Claims
  <2>2. Counts' /\ Within' /\ OwnPlace'
    BY <1>b, <2>1, GoesOnBounds
  <2>3. new.calls \in 0..MaxCalls
    BY <1>0, <1>a, <1>b, <2>1
  <2>4. LoopBounds'
    BY <1>b, <2>3 DEF LoopBounds
  <2> QED BY <2>2, <2>4
<1>4. CASE Truncated
  <2>1. PICK new : new = [ans EXCEPT !.pc = "fit", !.mode = "continue", !.calls = @ + 1]
    OBVIOUS
  <2>2. /\ new.pc = "fit" /\ new.place = ans.place /\ new.calls = ans.calls + 1 /\ new.tries = ans.tries
        /\ new.turn = ans.turn /\ new.mode = "continue"
    BY <1>0, <2>1 DEF Answers
  <2>3. Claims /\ ans' = new /\ UNCHANGED <<memoryVars, listed>>
    BY <1>4, <2>1 DEF Truncated
  <2> QED BY <1>0, <1>b, <2>2, <2>3
<1>5. CASE ToolTurn
  <2>1. PICK mode : mode = IF ans.turn + 1 = MaxTurns THEN "wrap" ELSE "loop"
    OBVIOUS
  <2>2. PICK new : new = [ans EXCEPT !.pc = "fit", !.turn = @ + 1, !.calls = @ + 1, !.mode = mode]
    OBVIOUS
  <2>3. /\ new.pc = "fit" /\ new.place = ans.place /\ new.calls = ans.calls + 1 /\ new.tries = ans.tries
        /\ new.turn = ans.turn + 1 /\ new.mode = mode
    BY <1>0, <2>2 DEF Answers
  <2>4. Claims /\ ans.mode = "loop" /\ ans' = new /\ UNCHANGED <<memoryVars, listed>>
    BY <1>5, <2>1, <2>2 DEF ToolTurn
  <2>5. ans.turn + 1 \in 0..MaxTurns /\ (mode = "loop" => ans.turn + 1 < MaxTurns)
    BY <1>0, <1>a, <2>1, <2>4
  <2> QED BY <1>0, <1>b, <2>3, <2>4, <2>5
<1>6. CASE ToolBudgetSpent
  <2>1. PICK new : new = [ans EXCEPT !.pc = "fit", !.mode = "wrap", !.calls = @ + 1]
    OBVIOUS
  <2>2. /\ new.pc = "fit" /\ new.place = ans.place /\ new.calls = ans.calls + 1 /\ new.tries = ans.tries
        /\ new.turn = ans.turn /\ new.mode = "wrap"
    BY <1>0, <2>1 DEF Answers
  <2>3. Claims /\ ans' = new /\ UNCHANGED <<memoryVars, listed>>
    BY <1>6, <2>1 DEF ToolBudgetSpent
  <2> QED BY <1>0, <1>b, <2>2, <2>3
<1>7. CASE Retry
  <2>1. PICK new : new = [ans EXCEPT !.tries = @ + 1, !.calls = @ + 1]
    OBVIOUS
  <2>2. /\ new.pc = ans.pc /\ new.place = ans.place /\ new.calls = ans.calls + 1 /\ new.tries = ans.tries + 1
        /\ new.turn = ans.turn /\ new.mode = ans.mode
    BY <1>0, <2>1 DEF Answers
  <2>3. Claims /\ ans.pc = "call" /\ ans.tries + 1 < MaxAttempts /\ ans' = new /\ UNCHANGED <<memoryVars, listed>>
    BY <1>7, <2>1 DEF Retry, Claims
  <2>4. ans.tries + 1 \in 0..(MaxAttempts - 1)
    BY <1>0, <1>a, <2>3
  <2> QED BY <1>0, <1>b, <2>2, <2>3, <2>4
<1>8. CASE Failover
  <2>1. PICK r \in Routes, tokens \in FaultTokens :
              \/ Fail(tokens)
              \/ /\ ans' = [ans EXCEPT !.route = r, !.tries = 0, !.calls = @ + 1]
                 /\ UNCHANGED <<memoryVars, listed>>
    BY <1>8 DEF Failover
  <2>2. CASE Fail(tokens)
    BY <2>2, FailBounds
  <2>3. CASE ~Fail(tokens)
    <3>1. PICK new : new = [ans EXCEPT !.route = r, !.tries = 0, !.calls = @ + 1]
      OBVIOUS
    <3>2. /\ new.pc = ans.pc /\ new.place = ans.place /\ new.calls = ans.calls + 1 /\ new.tries = 0
          /\ new.turn = ans.turn /\ new.mode = ans.mode
      BY <1>0, <3>1 DEF Answers
    <3>3. Claims /\ ans.pc = "call" /\ ans' = new /\ UNCHANGED <<memoryVars, listed>>
      BY <1>8, <2>1, <2>3, <3>1 DEF Failover, Dying, Claims
    <3>4. 0 \in 0..(MaxAttempts - 1)
      BY <1>a
    <3> QED BY <1>0, <1>b, <3>2, <3>3, <3>4
  <2> QED BY <2>2, <2>3
<1> QED BY <1>1, <1>2, <1>3, <1>4, <1>5, <1>6, <1>7, <1>8 DEF LoopNext

\* The steps beside the loop.
LEMMA AsideBounds ==
    ASSUME RequestInv, UNCHANGED loopVars,
           TaskNext \/ SendRead \/ DeleteSession \/ UNCHANGED memoryVars
    PROVE  Prompts' /\ Counts' /\ Within' /\ OwnPlace' /\ LoopBounds'
<1>0. /\ UNCHANGED <<ans, prompt, wire, listed, gathered>> /\ place \in Nat /\ sends \in 0..MaxSends
      /\ sender \in Senders /\ ans \in Answers
      /\ ans.pc \in {"fit", "call"} => ans.place \in 1..place
  BY DEF loopVars, RequestInv, ConversationInv, MemoryInv, MemoryTypes, Counts, AnswerTypes
<1>1. Prompts' /\ LoopBounds'
  BY <1>0 DEF RequestInv, Prompts, LoopBounds
<1>2. CASE TaskNext
  <2>1. Within' /\ UNCHANGED <<stored, place, sender, sends>>
    BY <1>2, TaskWithinStep
  <2>2. Counts' /\ OwnPlace'
    BY <1>0, <2>1 DEF RequestInv, Counts, OwnPlace
  <2> QED BY <1>1, <2>1, <2>2
<1>3. CASE SendRead
  <2>1. PICK s : s = [pc |-> "list", saw |-> row, place |-> place + 1]
    OBVIOUS
  <2>2. /\ sender.pc = "idle" /\ sends < MaxSends /\ sends' = sends + 1 /\ place' = place + 1 /\ sender' = s
        /\ UNCHANGED <<stored, disordered, row, task>>
    BY <1>3, <2>1 DEF SendRead
  <2>3. s.pc = "list" /\ s.saw = row /\ s.place = place + 1
    BY <2>1
  <2>4. place' \in Nat /\ place' >= place
    BY <1>0, <2>2
  <2>5. ReadWithin(sender'.saw, place)
    BY <2>2, <2>3 DEF RequestInv, Within
  <2>6. Within'
    BY <1>0, <2>2, <2>4, <2>5, WithinGoesOn
  <2>7. Counts'
    BY <1>0, <2>2, <2>3, MemoryAssumption DEF RequestInv, Counts
  <2>8. ans.pc \in {"fit", "call"} => ans.place # place + 1
    BY <1>0
  <2>9. OwnPlace'
    BY <1>0, <2>2, <2>3, <2>8 DEF RequestInv, OwnPlace
  <2> QED BY <1>1, <2>6, <2>7, <2>9
<1>4. CASE DeleteSession
  <2>1. stored' = {} /\ row' = NoRow /\ UNCHANGED <<place, disordered, task, sender, sends>>
    BY <1>4 DEF DeleteSession
  <2>2. ReadWithin(NoRow, place)
    BY <1>0, NothingWithin
  <2>3. place' \in Nat /\ place' >= place
    BY <1>0, <2>1
  <2>4. Within'
    BY <1>0, <2>1, <2>2, <2>3, WithinGoesOn
  <2>5. Counts' /\ OwnPlace'
    BY <1>0, <2>1 DEF RequestInv, Counts, OwnPlace
  <2> QED BY <1>1, <2>4, <2>5
<1>5. CASE UNCHANGED memoryVars
  <2>1. UNCHANGED <<stored, place, disordered, row, task, sender, sends>>
    BY <1>5 DEF memoryVars
  <2>2. place' \in Nat /\ place' >= place
    BY <1>0, <2>1
  <2>3. Within'
    BY <1>0, <2>1, <2>2, WithinGoesOn
  <2>4. Counts' /\ OwnPlace'
    BY <1>0, <2>1 DEF RequestInv, Counts, OwnPlace
  <2> QED BY <1>1, <2>3, <2>4
<1> QED BY <1>2, <1>3, <1>4, <1>5

\* A send commits, and starts an answer if none runs.
LEMMA SendCommitBounds ==
    ASSUME RequestInv, SendCommit
    PROVE  Prompts' /\ Counts' /\ Within' /\ OwnPlace' /\ LoopBounds'
<1>1. /\ sender.pc = "list" /\ Insert(sender.place) /\ sender' = IdleSender
      /\ UNCHANGED <<place, row, task, sends, prompt, wire, gathered>>
  BY DEF SendCommit
<1>2. /\ place \in Nat /\ sender \in Senders /\ sender.place <= place /\ stored \subseteq 1..place
      /\ sends \in 0..MaxSends /\ ans \in Answers
  BY <1>1 DEF RequestInv, ConversationInv, MemoryInv, MemoryTypes, Counts, AnswerTypes
<1>3. sender.place \in Nat \ {0} /\ IdleSender.pc = "idle"
  BY <1>1, <1>2 DEF Senders, IdleSender
<1>4. sender.place \in 1..place
  BY <1>2, <1>3
<1>5. stored' = stored \cup {sender.place}
  BY <1>1 DEF Insert
<1>6. CASE ans.pc = "idle"
  <2>1. PICK size \in QuestionSizes :
              ans' = [NoAnswer EXCEPT !.pc = "assemble", !.question = sender.place, !.size = size]
    BY <1>6 DEF SendCommit
  <2>2. listed' = ListAfter(Cursor(sender.saw))
    BY <1>6 DEF SendCommit
  <2>3. /\ ans'.pc = "assemble" /\ ans'.tries = 0 /\ ans'.turn = 0 /\ ans'.calls = 0 /\ ans'.mode = "loop"
    BY <2>1 DEF NoAnswer
  <2>4. \A k \in listed' : k \in 1..place
    BY <1>2, <2>2 DEF ListAfter
  <2>5. Within'
    BY <1>1, <1>4, <2>4, InsertWithin
  <2>6. 0 \in 0..(MaxAttempts - 1) /\ 0 \in 0..MaxTurns /\ 0 \in 0..MaxCalls /\ 0 < MaxTurns
    BY ConversationAssumption
  <2>7. LoopBounds' /\ OwnPlace'
    BY <2>3, <2>6 DEF LoopBounds, OwnPlace
  <2>8. Counts'
    BY <1>1, <1>2, <1>3, <1>6, <2>3, MemoryAssumption DEF RequestInv, Counts
  <2>9. Prompts'
    BY <1>1, <1>6, <2>3 DEF RequestInv, Prompts
  <2> QED BY <2>5, <2>7, <2>8, <2>9
<1>7. CASE ans.pc # "idle"
  <2>1. UNCHANGED <<ans, listed>>
    BY <1>7 DEF SendCommit
  <2>2. Within'
    BY <1>1, <1>4, <2>1, InsertWithin
  <2>3. Prompts' /\ LoopBounds'
    BY <1>1, <2>1 DEF RequestInv, Prompts, LoopBounds
  <2>4. Counts'
    BY <1>1, <1>2, <1>3, <2>1, MemoryAssumption DEF RequestInv, Counts
  <2>5. OwnPlace'
    BY <1>1, <1>3, <1>5, <2>1 DEF RequestInv, OwnPlace
  <2> QED BY <2>2, <2>3, <2>4, <2>5
<1> QED BY <1>6, <1>7

LEMMA RequestStep == RequestInv /\ [Next]_vars => RequestInv'
<1> SUFFICES ASSUME RequestInv, [Next]_vars PROVE RequestInv'
  OBVIOUS
<1>1. ConversationInv'
  BY ConversationStep DEF RequestInv
<1>2. CASE LoopNext
  BY <1>1, <1>2, PromptsStep, BoundsStep DEF RequestInv
<1>3. CASE SendCommit
  BY <1>1, <1>3, SendCommitBounds DEF RequestInv
<1>4. CASE (TaskNext \/ SendRead \/ DeleteSession) /\ UNCHANGED loopVars
  BY <1>1, <1>4, AsideBounds DEF RequestInv
<1>5. CASE UNCHANGED vars
  <2>1. UNCHANGED loopVars /\ UNCHANGED memoryVars
    BY <1>5 DEF vars
  <2> QED BY <1>1, <2>1, AsideBounds DEF RequestInv
<1> QED BY <1>2, <1>3, <1>4, <1>5 DEF Next

LEMMA RequestInitial == Init => RequestInv
<1> SUFFICES ASSUME Init PROVE RequestInv
  OBVIOUS
<1>1. /\ stored = 1..Kept /\ place = Kept /\ disordered = {} /\ task = [t \in Tasks |-> IdleTask]
      /\ sender = IdleSender /\ sends = 0 /\ ans = NoAnswer /\ listed = {} /\ gathered = <<>>
  BY DEF Init, MemoryInit
<1>2. /\ ans.pc = "idle" /\ ans.tries = 0 /\ ans.turn = 0 /\ ans.calls = 0 /\ ans.mode = "loop"
      /\ sender.pc = "idle"
  BY <1>1 DEF NoAnswer, IdleSender
<1>3. Kept \in Nat /\ MaxSends \in Nat /\ place \in Nat
  BY <1>1, MemoryAssumption
<1>4. <<>> \in Seq(Nat)
  OBVIOUS
<1>5. Prompts /\ OwnPlace
  BY <1>1, <1>2, <1>4 DEF Prompts, OwnPlace
<1>6. 0 \in 0..(MaxAttempts - 1) /\ 0 \in 0..MaxTurns /\ 0 \in 0..MaxCalls /\ 0 < MaxTurns
  BY ConversationAssumption
<1>7. LoopBounds
  BY <1>2, <1>6 DEF LoopBounds
<1>8. Counts
  BY <1>1, <1>2, <1>3 DEF Counts
<1>9. /\ ReadWithin(NoRow, place) /\ ReadWithin(IdleSender.saw, place)
      /\ TaskWithin(IdleTask, place)
  BY <1>3, NothingWithin
<1>10. ReadWithin(row, place)
  <2>1. PICK b \in 0..Kept : row = IF b = 0 THEN NoRow
                                   ELSE [state |-> "invalid", folds |-> {}, boundary |-> b, version |-> 1]
    BY DEF Init, MemoryInit
  <2>2. CASE b = 0
    BY <1>9, <2>1, <2>2
  <2>3. CASE b # 0
    <3>1. row.folds = {} /\ row.boundary = b
      BY <2>1, <2>3
    <3> QED BY <1>1, <3>1 DEF ReadWithin
  <2> QED BY <2>2, <2>3
<1>11. Within
  BY <1>1, <1>9, <1>10 DEF Within
<1> QED BY <1>5, <1>7, <1>8, <1>11, MemoryInitial DEF RequestInv

\* What stands is a whole request with the newest of the messages.
LEMMA StandsIsWhole ==
    ASSUME NEW items, NEW p \in Nat, NEW q, NEW tail \in Seq(Nat), NEW rows, Stands(items, p, q, tail, rows)
    PROVE  /\ items[1] = System /\ Places(items, "question") = {q}
           /\ LET rest == SubSeq(items, LastQuestionIndex(items) + 1, Len(items))
              IN [i \in DOMAIN rest |-> rest[i].id] = tail
           /\ LET turns == Places(items, "turn")
              IN \A m \in rows \ turns : \A k \in turns : m < k
           /\ \A i \in DOMAIN items : items[i].cited => items[i].evidence
<1>1. /\ items \in Seq(PromptItems) /\ p \in 2..Len(items) /\ items[1] = System /\ items[p].id = q
      /\ Len(tail) = Len(items) - p /\ \A j \in 1..Len(tail) : items[p + j].id = tail[j]
  BY DEF Stands, Framed
<1>2. PICK n \in Nat : n = Len(items) /\ DOMAIN items = 1..n
  BY <1>1
<1>3. LastQuestionIndex(items) = p /\ \A i \in 1..n : items[i].what = "question" <=> i = p
  BY <1>2, QuestionFound DEF Stands
<1>4. Places(items, "question") = {q}
  <2>1. p \in 1..n
    BY <1>1, <1>2
  <2>2. {j \in DOMAIN items : items[j].what = "question"} = {p}
    BY <1>2, <1>3, <2>1
  <2> QED BY <1>1, <2>2 DEF Places
<1>5. PICK rest : rest = SubSeq(items, p + 1, n)
  OBVIOUS
<1>6. rest \in Seq(PromptItems) /\ Len(rest) = n - p /\ \A i \in 1..(n - p) : rest[i] = items[p + i]
  <2>1. p + 1 \in 1..(n + 1)
    BY <1>1, <1>2
  <2>2. rest \in Seq(PromptItems) /\ Len(rest) = n - p
    BY <1>1, <1>2, <1>5, <2>1
  <2>3. ASSUME NEW i \in 1..(n - p) PROVE rest[i] = items[p + i]
    <3>1. SubSeq(items, p + 1, n)[i] = items[p + 1 + i - 1]
      BY <1>1, <1>2
    <3>2. p + 1 + i - 1 = p + i
      OBVIOUS
    <3> QED BY <1>5, <3>1, <3>2
  <2> QED BY <2>2, <2>3
<1>7. [i \in DOMAIN rest |-> rest[i].id] = tail
  <2>1. PICK m \in Nat : m = n - p /\ Len(tail) = m
    <3>1. Len(tail) = n - p
      BY <1>1, <1>2
    <3>2. Len(tail) \in Nat
      OBVIOUS
    <3> QED BY <3>1, <3>2
  <2>2. DOMAIN rest = 1..m
    BY <1>6, <2>1
  <2>3. \A i \in 1..m : rest[i].id = tail[i]
    BY <1>1, <1>6, <2>1
  <2>4. tail = [i \in 1..m |-> tail[i]]
    BY <2>1
  <2> QED BY <2>2, <2>3, <2>4
<1>8. \A j \in DOMAIN items : items[j].what = "turn" <=> TurnAt(items, p, j)
  <2>1. System.what = "system"
    BY DEF System, Item
  <2>2. \A j \in 1..n : j = 1 \/ j = p \/ j \in 2..(p - 1) \/ j \in (p + 1)..n
    BY <1>1, <1>2
  <2>3. \A j \in (p + 1)..n : items[j].what \in {"call", "result", "reply"}
    BY <1>2 DEF Stands, Framed
  <2>4. items[p].what = "question"
    BY DEF Stands, Framed
  <2> QED BY <1>1, <1>2, <2>1, <2>2, <2>3, <2>4 DEF TurnAt
<1>9. ASSUME NEW m \in rows, m \notin Places(items, "turn"), NEW k \in Places(items, "turn") PROVE m < k
  <2>1. PICK j \in DOMAIN items : items[j].what = "turn" /\ k = items[j].id
    BY <1>9 DEF Places
  <2>2. TurnAt(items, p, j) /\ j \in Nat
    BY <1>2, <1>8, <2>1
  <2>3. ASSUME NEW i \in Nat, TurnAt(items, p, i), items[i].id = m PROVE FALSE
    <3>1. i \in DOMAIN items
      BY <1>1, <1>2, <2>3 DEF TurnAt
    <3>2. items[i].what = "turn"
      BY <2>3 DEF TurnAt
    <3> QED BY <1>9, <2>3, <3>1, <3>2 DEF Places
  <2> QED BY <2>1, <2>2, <2>3 DEF Stands, NewestTurns
<1>10. \A i \in DOMAIN items : items[i].cited => items[i].evidence
  BY <1>2 DEF Stands, Evident
<1>11. LET turns == Places(items, "turn") IN \A m \in rows \ turns : \A k \in turns : m < k
  BY <1>9
<1>12. LET back == SubSeq(items, LastQuestionIndex(items) + 1, Len(items)) IN [i \in DOMAIN back |-> back[i].id] = tail
  BY <1>2, <1>3, <1>5, <1>7
<1> QED BY <1>1, <1>4, <1>10, <1>11, <1>12

\* Every request of an answer is fit to be sent (RequestIsFit): whatever
\* fit_transcript sheds, _compact_oldest_tool_results shrinks and _advance_to_fallback refits,
\* a request stays within the window of the route that gets it, has its system item,
\* its question and each tool call with its result, misses only the oldest of the
\* listed messages, keeps the evidence gathered, and its tokens are booked on the
\* route that used them.
THEOREM RequestFit == Spec => []RequestIsFit
<1>1. RequestInv => RequestIsFit
  <2> SUFFICES ASSUME RequestInv PROVE RequestIsFit
    OBVIOUS
  <2>1. TypeOK
    <3>1. /\ place \in Nat /\ stored \subseteq 1..place /\ row \in SummaryRows /\ task \in [Tasks -> TaskStates]
          /\ ans \in Answers /\ (ans.pc = "idle" => usage = 0) /\ Within /\ sends \in 0..MaxSends
      BY DEF RequestInv, ConversationInv, MemoryInv, MemoryTypes, AnswerTypes, Counts
    <3>2. place <= Kept + 2 * MaxSends
      BY <3>1, MemoryAssumption DEF RequestInv, Counts
    <3>3. 1..place \subseteq Message /\ 0..place \subseteq Message \cup {0} /\ place \in 0..(Kept + 2 * MaxSends)
      BY <3>1, <3>2, MemoryAssumption DEF Message
    <3>4. row \in Rows
      <4>1. row.folds \subseteq Message /\ row.boundary \in Message \cup {0}
        BY <3>1, <3>3 DEF Within, ReadWithin
      <4> QED BY <3>1, <4>1 DEF SummaryRows, Rows
    <3>5. ASSUME NEW t \in Tasks
          PROVE  /\ task[t].pc \in {"none", "queued", "list", "model"} /\ task[t].covers \subseteq Message
                 /\ task[t].pc = "model" => Cardinality(task[t].covers) \in MinBatch..MaxBatch
      <4>1. task[t] \in TaskStates /\ TaskWithin(task[t], place)
        BY <3>1 DEF Within
      <4> QED BY <3>3, <4>1 DEF TaskStates, TaskWithin
    <3>6. stored \subseteq Message /\ disordered \subseteq Message
      BY <3>1, <3>3 DEF Within
    <3>7. ans.route \in Routes
      BY <3>1 DEF Answers
    <3>8. /\ ans.tries \in 0..(MaxAttempts - 1) /\ ans.turn \in 0..MaxTurns /\ ans.calls \in 0..MaxCalls
          /\ ans.pc \in {"fit", "call"} => ans.place \notin stored
      BY DEF RequestInv, LoopBounds, OwnPlace
    <3> QED BY <3>1, <3>3, <3>4, <3>5, <3>6, <3>7, <3>8 DEF TypeOK
  <2>2. SpendIsAttributed
    BY DEF RequestInv, ConversationInv
  <2>3. CASE ans.pc = "call"
    <3>1. PICK p \in Nat : Stands(wire, p, ans.question, gathered, listed)
      BY <2>3 DEF RequestInv, Prompts
    <3>2. gathered \in Seq(Nat) /\ Total(wire) <= Window[ans.route]
      BY <2>3 DEF RequestInv, Prompts
    <3>3. /\ wire[1] = System /\ Places(wire, "question") = {ans.question}
          /\ LET rest == SubSeq(wire, LastQuestionIndex(wire) + 1, Len(wire))
             IN [i \in DOMAIN rest |-> rest[i].id] = gathered
          /\ LET turns == Places(wire, "turn")
             IN \A m \in listed \ turns : \A k \in turns : m < k
          /\ \A i \in DOMAIN wire : wire[i].cited => wire[i].evidence
      BY <3>1, <3>2, StandsIsWhole
    <3> QED BY <2>1, <2>2, <3>2, <3>3 DEF RequestIsFit, FitsWindow, RequestIsWhole, OldestDropped, EvidenceIsKept
  <2>4. CASE ans.pc # "call"
    BY <2>1, <2>2, <2>4 DEF RequestIsFit, FitsWindow, RequestIsWhole, OldestDropped, EvidenceIsKept, Sending
  <2> QED BY <2>3, <2>4
<1> QED BY <1>1, RequestInitial, RequestStep, PTL DEF Spec
=============================================================================
