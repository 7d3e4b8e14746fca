---------------------------- MODULE RetrieverProofs ----------------------------
(***************************************************************************)
(* The embedding cache under any number of threads: the dict and the list  *)
(* of its keys stay in step, and every vector belongs to its key.  And the *)
(* retriever on top of it: every text is stored whole, with the vectors    *)
(* of its own chunks, or not at all.                                       *)
(***************************************************************************)
EXTENDS Retriever, ChunkingProofs, SequenceTheorems, TLAPS

-----------------------------------------------------------------------------
(* Lists without duplicates.                                               *)

Distinct(s) == \A i, j \in DOMAIN s : s[i] = s[j] => i = j
Elements(s) == {s[i] : i \in DOMAIN s}

\* Removing an element from a list without duplicates takes out that element only.
LEMMA RemoveFromDistinct ==
  ASSUME NEW S, NEW s \in Seq(S), NEW e, Distinct(s)
  PROVE  /\ RemoveFirst(s, e) \in Seq(S)
         /\ Distinct(RemoveFirst(s, e))
         /\ Elements(RemoveFirst(s, e)) = Elements(s) \ {e}
         /\ Len(RemoveFirst(s, e)) <= Len(s)
         /\ e \in Elements(s) => Len(RemoveFirst(s, e)) = Len(s) - 1
<1>1. CASE e \notin Elements(s)
  <2>1. \A i \in 1..Len(s) : s[i] # e
    BY <1>1 DEF Elements
  <2>2. RemoveFirst(s, e) = s
    BY <2>1 DEF RemoveFirst, RemoveAt, SelectInSeq
  <2> QED BY <1>1, <2>2
<1>2. CASE e \in Elements(s)
  <2>1. PICK p \in 1..Len(s) : s[p] = e
    BY <1>2 DEF Elements
  <2>2. {i \in 1..Len(s) : s[i] = e} = {p}
    BY <2>1 DEF Distinct
  <2>3. Min({p}) = p
    BY <2>1 DEF Min
  <2>4. RemoveFirst(s, e) = SubSeq(s, 1, p - 1) \o SubSeq(s, p + 1, Len(s))
    BY <2>1, <2>2, <2>3 DEF RemoveFirst, RemoveAt, SelectInSeq
  <2> DEFINE r == SubSeq(s, 1, p - 1) \o SubSeq(s, p + 1, Len(s))
  <2>5. /\ r \in Seq(S) /\ Len(r) = Len(s) - 1
        /\ \A i \in 1..Len(s) - 1 : r[i] = IF i < p THEN s[i] ELSE s[i + 1]
    <3> DEFINE front == SubSeq(s, 1, p - 1)
               back == SubSeq(s, p + 1, Len(s))
    <3>1. /\ front \in Seq(S) /\ Len(front) = p - 1
          /\ \A i \in 1..p - 1 : front[i] = s[i]
      BY <2>1
    <3>2. /\ back \in Seq(S) /\ Len(back) = Len(s) - p
          /\ \A i \in 1..Len(s) - p : back[i] = s[p + i]
      BY <2>1
    <3> HIDE DEF front, back
    <3>3. /\ front \o back \in Seq(S) /\ Len(front \o back) = Len(front) + Len(back)
          /\ \A i \in 1..Len(front) + Len(back) :
               (front \o back)[i] = IF i <= Len(front) THEN front[i] ELSE back[i - Len(front)]
      BY <3>1, <3>2, ConcatProperties
    <3>4. ASSUME NEW i \in 1..Len(s) - 1
          PROVE  (front \o back)[i] = IF i < p THEN s[i] ELSE s[i + 1]
      <4>1. CASE i < p
        BY <2>1, <3>1, <3>2, <3>3, <4>1
      <4>2. CASE i >= p
        <5>1. i - (p - 1) \in 1..Len(s) - p /\ p + (i - (p - 1)) = i + 1
          BY <2>1, <4>2
        <5>2. back[i - (p - 1)] = s[i + 1]
          BY <3>2, <5>1
        <5> QED BY <2>1, <3>1, <3>2, <3>3, <4>2, <5>2
      <4>3. i < p \/ i >= p
        OBVIOUS
      <4> QED BY <4>1, <4>2, <4>3
    <3>5. Len(front) + Len(back) = Len(s) - 1
      BY <2>1, <3>1, <3>2
    <3>6. r = front \o back
      BY DEF front, back
    <3> HIDE DEF r
    <3> QED BY <3>3, <3>4, <3>5, <3>6
  <2> HIDE DEF r
  <2>6. Distinct(r)
    BY <2>1, <2>5 DEF Distinct
  <2>7. Elements(r) = Elements(s) \ {e}
    <3>1. ASSUME NEW i \in DOMAIN r PROVE r[i] \in Elements(s) \ {e}
      BY <2>1, <2>5 DEF Elements, Distinct
    <3>2. ASSUME NEW i \in DOMAIN s, s[i] # e PROVE s[i] \in Elements(r)
      <4>1. CASE i < p
        BY <2>1, <2>5, <4>1 DEF Elements
      <4>2. CASE i > p
        BY <2>1, <2>5, <4>2, i - 1 \in DOMAIN r, r[i - 1] = s[i] DEF Elements
      <4> QED BY <2>1, <3>2, <4>1, <4>2
    <3> QED BY <3>1, <3>2 DEF Elements
  <2>8. RemoveFirst(s, e) = r
    BY <2>4 DEF r
  <2>9. Len(s) \in Nat /\ Len(s) - 1 <= Len(s)
    OBVIOUS
  <2> QED BY <1>2, <2>5, <2>6, <2>7, <2>8, <2>9
<1> QED BY <1>1, <1>2

\* Touching a key makes it the last of the list.
LEMMA TouchProperties ==
  ASSUME NEW S, NEW s \in Seq(S), NEW e, Distinct(s)
  PROVE  /\ Touch(s, e) \in Seq(S \cup {e})
         /\ Distinct(Touch(s, e))
         /\ Elements(Touch(s, e)) = Elements(s) \cup {e}
         /\ Len(Touch(s, e)) <= Len(s) + 1
         /\ e \in Elements(s) => Len(Touch(s, e)) = Len(s)
<1> DEFINE r == RemoveFirst(s, e)
<1>1. /\ r \in Seq(S) /\ Distinct(r) /\ Elements(r) = Elements(s) \ {e}
      /\ Len(r) <= Len(s) /\ (e \in Elements(s) => Len(r) = Len(s) - 1)
  BY RemoveFromDistinct
<1>2. Touch(s, e) = Append(r, e)
  BY DEF Touch
<1> HIDE DEF r
<1>3. /\ Append(r, e) \in Seq(S \cup {e}) /\ Len(Append(r, e)) = Len(r) + 1
      /\ \A i \in 1..Len(r) : Append(r, e)[i] = r[i]
      /\ Append(r, e)[Len(r) + 1] = e
  BY <1>1
<1>4. ASSUME NEW i \in 1..Len(r) PROVE r[i] # e
  <2>1. r[i] \in Elements(r)
    BY <1>1 DEF Elements
  <2> QED BY <1>1, <2>1
<1>5. Distinct(Append(r, e))
  BY <1>1, <1>3, <1>4 DEF Distinct
<1>6. Elements(Append(r, e)) = Elements(r) \cup {e}
  BY <1>1, <1>3 DEF Elements
<1> QED BY <1>1, <1>2, <1>3, <1>5, <1>6

\* What is left of a list when its oldest elements are dropped.
LEMMA DropOldest ==
  ASSUME NEW S, NEW s \in Seq(S), Distinct(s), NEW n \in 0..Len(s)
  PROVE  LET rest == SubSeq(s, n + 1, Len(s)) IN
         /\ Distinct(rest) /\ Len(rest) = Len(s) - n
         /\ Elements(rest) = Elements(s) \ {s[i] : i \in 1..n}
         /\ rest \in Seq(Elements(rest))
<1> DEFINE rest == SubSeq(s, n + 1, Len(s))
<1>1. /\ rest \in Seq(S) /\ Len(rest) = Len(s) - n
      /\ \A i \in 1..Len(s) - n : rest[i] = s[n + i]
  OBVIOUS
<1> HIDE DEF rest
<1>2. DOMAIN s = 1..Len(s) /\ DOMAIN rest = 1..Len(s) - n /\ Len(s) \in Nat
  BY <1>1
<1>3. ASSUME NEW i \in DOMAIN rest, NEW j \in DOMAIN rest, rest[i] = rest[j] PROVE i = j
  <2>1. n + i \in DOMAIN s /\ n + j \in DOMAIN s /\ s[n + i] = s[n + j]
    BY <1>1, <1>2, <1>3
  <2>2. n + i = n + j
    BY <2>1 DEF Distinct
  <2> QED BY <1>2, <2>2
<1>4. ASSUME NEW i \in DOMAIN rest PROVE rest[i] \in Elements(s) \ {s[j] : j \in 1..n}
  <2>1. rest[i] = s[n + i] /\ n + i \in DOMAIN s /\ \A j \in 1..n : j \in DOMAIN s /\ j # n + i
    BY <1>1, <1>2
  <2> QED BY <2>1 DEF Distinct, Elements
<1>5. ASSUME NEW i \in DOMAIN s, s[i] \notin {s[j] : j \in 1..n} PROVE s[i] \in Elements(rest)
  <2>1. i > n
    BY <1>2, <1>5
  <2>2. i - n \in DOMAIN rest /\ rest[i - n] = s[i]
    BY <1>1, <1>2, <2>1
  <2> QED BY <2>2 DEF Elements
<1>6. Elements(rest) = Elements(s) \ {s[i] : i \in 1..n}
  BY <1>4, <1>5 DEF Elements
<1>7. rest \in Seq(Elements(rest))
  BY <1>1, <1>2 DEF Elements
<1> QED BY <1>1, <1>3, <1>6, <1>7 DEF rest, Distinct

-----------------------------------------------------------------------------
(* The cache.                                                              *)

HasFields(t) ==
    call[t] = [step |-> call[t].step, text |-> call[t].text,
               attempt |-> call[t].attempt, vector |-> call[t].vector]

\* A vector on its way into the cache is one of the text it was asked for.
VectorsFitTexts == \A t \in Threads : call[t].step = "put" => call[t].vector.of = call[t].text

CallsAreSound ==
    /\ call = [t \in Threads |-> call[t]]
    /\ \A t \in Threads : HasFields(t)
    /\ VectorsFitTexts

CInv ==
    /\ CallsAreSound
    /\ order \in Seq(DOMAIN cache)
    /\ CacheAgrees
    /\ VectorsFitKeys

\* A step that leaves one thread in a sound call, and the others in theirs.
LEMMA OneCallMoves ==
  ASSUME CallsAreSound, NEW t \in Threads, call' = [call EXCEPT ![t] = call'[t]],
         HasFields(t)', call'[t].step = "put" => call'[t].vector.of = call'[t].text
  PROVE  CallsAreSound'
<1>1. /\ call' = [u \in Threads |-> call'[u]]
      /\ \A u \in Threads \ {t} : call'[u] = call[u]
  BY DEF CallsAreSound
<1>2. ASSUME NEW u \in Threads
      PROVE  HasFields(u)' /\ (call'[u].step = "put" => call'[u].vector.of = call'[u].text)
  BY <1>1 DEF CallsAreSound, HasFields, VectorsFitTexts
<1> QED BY <1>1, <1>2 DEF CallsAreSound, VectorsFitTexts

\* A call begins, asks a provider or ends.
LEMMA CallsStaySound ==
  ASSUME CallsAreSound, NEW t \in Threads,
         \/ \E text : Miss(t, text)
         \/ AskProvider(t) \/ NoProvider(t) \/ Put(t)
  PROVE  CallsAreSound'
<1>0. call = [u \in Threads |-> call[u]] /\ HasFields(t)
  BY DEF CallsAreSound
<1>1. ASSUME NEW text, Miss(t, text) PROVE CallsAreSound'
  <2>1. call' = [call EXCEPT ![t] = [NoCall EXCEPT !.step = "openai", !.text = text]]
    BY <1>1 DEF Miss
  <2>2. call' = [call EXCEPT ![t] = call'[t]]
    BY <1>0, <2>1
  <2>3. call'[t] = [step |-> "openai", text |-> text, attempt |-> 0, vector |-> NoVector]
    BY <1>0, <2>1 DEF NoCall
  <2> QED BY <2>2, <2>3, OneCallMoves DEF HasFields
<1>2. ASSUME call' = [call EXCEPT ![t] = NoCall] PROVE CallsAreSound'
  <2>1. call' = [call EXCEPT ![t] = call'[t]] /\ call'[t] = NoCall
    BY <1>0, <1>2
  <2> QED BY <2>1, OneCallMoves DEF HasFields, NoCall
<1>3. ASSUME NEW provider, Embedded(t, provider) PROVE CallsAreSound'
  <2> DEFINE v == [of |-> call[t].text, by |-> provider]
  <2>1. call'[t] = [call[t] EXCEPT !.step = "put", !.vector = v]
    BY <1>0, <1>3 DEF Embedded
  <2>2. call'[t] = [step |-> "put", text |-> call[t].text,
                    attempt |-> call[t].attempt, vector |-> v]
    BY <1>0, <2>1 DEF HasFields
  <2>3. call' = [call EXCEPT ![t] = call'[t]]
    BY <1>0, <1>3 DEF Embedded
  <2> QED BY <2>2, <2>3, OneCallMoves DEF HasFields
<1>4. CASE OpenAIFails(t)
  <2>1. call'[t] = [call[t] EXCEPT !.attempt = call[t].attempt + 1]
    BY <1>0, <1>4 DEF OpenAIFails
  <2>2. call'[t] = [step |-> call[t].step, text |-> call[t].text,
                    attempt |-> call[t].attempt + 1, vector |-> call[t].vector]
    BY <1>0, <2>1 DEF HasFields
  <2>3. call' = [call EXCEPT ![t] = call'[t]] /\ call[t].step = "openai"
    BY <1>0, <1>4 DEF OpenAIFails
  <2> QED BY <2>2, <2>3, OneCallMoves DEF HasFields
<1>5. CASE OpenAIGivesUp(t)
  <2>1. call'[t] = [call[t] EXCEPT !.step = "fallback"]
    BY <1>0, <1>5 DEF OpenAIGivesUp
  <2>2. call'[t] = [step |-> "fallback", text |-> call[t].text,
                    attempt |-> call[t].attempt, vector |-> call[t].vector]
    BY <1>0, <2>1 DEF HasFields
  <2>3. call' = [call EXCEPT ![t] = call'[t]]
    BY <1>0, <1>5 DEF OpenAIGivesUp
  <2> QED BY <2>2, <2>3, OneCallMoves DEF HasFields
<1>6. CASE NoProvider(t) \/ Put(t)
  BY <1>2, <1>6 DEF NoProvider, Put
<1> QED
  BY <1>1, <1>3, <1>4, <1>5, <1>6 DEF AskProvider, OpenAISucceeds, Fallback

LEMMA HitSound ==
  ASSUME CInv, NEW t \in Threads, NEW text, Hit(t, text)
  PROVE  CInv'
<1> DEFINE key == Key(text)
<1>1. /\ order \in Seq(DOMAIN cache) /\ Distinct(order) /\ Elements(order) = DOMAIN cache
      /\ key \in DOMAIN cache /\ order' = Touch(order, key) /\ UNCHANGED <<cache, call>>
  BY DEF CInv, CacheAgrees, Distinct, Elements, Hit
<1> HIDE DEF key
<1>2. /\ order' \in Seq(DOMAIN cache) /\ Distinct(order')
      /\ Elements(order') = DOMAIN cache /\ Len(order') = Len(order)
  <2>1. DOMAIN cache \cup {key} = DOMAIN cache
    BY <1>1
  <2>2. /\ order' \in Seq(DOMAIN cache \cup {key}) /\ Distinct(order')
        /\ Elements(order') = DOMAIN cache \cup {key} /\ Len(order') = Len(order)
    BY <1>1, TouchProperties
  <2> QED BY <2>1, <2>2
<1>3. CacheAgrees'
  BY <1>1, <1>2 DEF CInv, CacheAgrees, Distinct, Elements
<1>4. CallsAreSound' /\ VectorsFitKeys'
  BY <1>1 DEF CInv, CallsAreSound, VectorsFitTexts, HasFields, VectorsFitKeys
<1> QED BY <1>1, <1>2, <1>3, <1>4 DEF CInv

LEMMA PutSound ==
  ASSUME CInv, NEW t \in Threads, Put(t)
  PROVE  CInv'
<1>0. PICK key : key = Key(call[t].text)
  OBVIOUS
<1> DEFINE list == Touch(order, key)
           n == Overflow(list)
           gone == {list[i] : i \in 1..n}
<1>1. /\ order \in Seq(DOMAIN cache) /\ Distinct(order) /\ Elements(order) = DOMAIN cache
      /\ Len(order) <= Capacity
  BY DEF CInv, CacheAgrees, Distinct, Elements
<1>2. /\ call[t].step = "put"
      /\ order' = SubSeq(list, n + 1, Len(list))
      /\ cache' = [k \in (DOMAIN cache \cup {key}) \ gone |->
                     IF k = key THEN call[t].vector ELSE cache[k]]
  BY <1>0 DEF Put
<1>3. /\ list \in Seq(DOMAIN cache \cup {key}) /\ Distinct(list)
      /\ Elements(list) = DOMAIN cache \cup {key}
  <2>1. order \in Seq(DOMAIN cache) /\ Distinct(order)
    BY <1>1
  <2>2. Touch(order, key) \in Seq(DOMAIN cache \cup {key})
    BY ONLY <2>1, TouchProperties
  <2>3. Distinct(Touch(order, key))
    BY ONLY <2>1, TouchProperties
  <2>4. Elements(Touch(order, key)) = Elements(order) \cup {key}
    BY ONLY <2>1, TouchProperties
  <2> QED BY <1>1, <2>2, <2>3, <2>4
<1> HIDE DEF list
<1>4. n \in 0..Len(list) /\ Len(list) - n <= Capacity
  <2>1. Len(list) \in Nat
    BY <1>3
  <2>2. n = IF Len(list) > Capacity THEN Len(list) - Capacity ELSE 0
    BY DEF Overflow
  <2> QED BY <2>1, <2>2, CapacityIsACount
<1> HIDE DEF n
<1>5. /\ Distinct(order') /\ Len(order') = Len(list) - n
      /\ Elements(order') = Elements(list) \ gone /\ order' \in Seq(Elements(order'))
  BY <1>2, <1>3, <1>4, DropOldest
<1> HIDE DEF gone
<1>6. DOMAIN cache' = Elements(order')
  BY <1>2, <1>3, <1>5
<1>7. CacheAgrees' /\ order' \in Seq(DOMAIN cache')
  BY <1>4, <1>5, <1>6 DEF CacheAgrees, Distinct, Elements
<1>8. CallsAreSound'
  BY CallsStaySound DEF CInv
<1>9. ASSUME NEW k \in DOMAIN cache' PROVE Key(cache'[k].of) = k
  <2>1. CASE k = key
    <3>1. cache'[k] = call[t].vector
      BY <1>2, <2>1
    <3>2. call[t].vector.of = call[t].text
      BY <1>2 DEF CInv, CallsAreSound, VectorsFitTexts
    <3> QED BY <1>0, <2>1, <3>1, <3>2
  <2>2. CASE k # key
    <3>1. k \in DOMAIN cache /\ cache'[k] = cache[k]
      BY <1>2, <2>2
    <3> QED BY <3>1 DEF CInv, VectorsFitKeys
  <2> QED BY <2>1, <2>2
<1> QED BY <1>7, <1>8, <1>9 DEF CInv, VectorsFitKeys

LEMMA CacheStaysSound == CInv /\ [Next]_vars => CInv'
<1> SUFFICES ASSUME CInv, [Next]_vars PROVE CInv'
  OBVIOUS
<1>1. CASE UNCHANGED cachevars
  BY <1>1 DEF cachevars, CInv, CallsAreSound, HasFields, VectorsFitTexts, VectorsFitKeys,
              CacheAgrees
<1>2. ASSUME NEW t \in Threads, UNCHANGED <<cache, order>>,
             \/ \E text : Miss(t, text)
             \/ AskProvider(t) \/ NoProvider(t)
      PROVE  CInv'
  BY <1>2, CallsStaySound DEF CInv, CacheAgrees, VectorsFitKeys
<1>3. ASSUME NEW t \in Threads, EmbedNext(t) PROVE CInv'
  <2> DEFINE piece == op[t].pieces[Len(op[t].vectors) + 1]
  <2>1. CASE Hit(t, piece)
    BY <2>1, HitSound
  <2>2. CASE Miss(t, piece)
    BY <1>2, <2>2 DEF Miss
  <2> QED BY <1>3, <2>1, <2>2 DEF EmbedNext
<1>4. ASSUME NEW t \in Threads, Asking(t) PROVE CInv'
  BY <1>2, <1>4 DEF Asking, AskProvider, OpenAISucceeds, OpenAIFails, OpenAIGivesUp, Fallback
<1>5. ASSUME NEW t \in Threads, Inserting(t) PROVE CInv'
  BY <1>5, PutSound DEF Inserting
<1>6. ASSUME NEW t \in Threads, EmbedRaises(t) PROVE CInv'
  BY <1>2, <1>6 DEF EmbedRaises, NoProvider
<1>7. CASE Elsewhere
  <2>1. /\ cache' = <<>> /\ order' = <<>> /\ call' = call
    BY <1>7 DEF Elsewhere, ClearCache
  <2>2. DOMAIN cache' = {} /\ DOMAIN order' = {} /\ Len(order') = 0
    BY <2>1
  <2>3. CacheAgrees' /\ VectorsFitKeys' /\ order' \in Seq(DOMAIN cache')
    BY <2>1, <2>2, CapacityIsACount DEF CacheAgrees, VectorsFitKeys
  <2>4. CallsAreSound'
    BY <2>1 DEF CInv, CallsAreSound, HasFields, VectorsFitTexts
  <2> QED BY <2>3, <2>4 DEF CInv
<1>8. \/ UNCHANGED cachevars
      \/ \E t \in Threads : EmbedNext(t) \/ Asking(t) \/ Inserting(t) \/ EmbedRaises(t)
      \/ Elsewhere
  BY DEF Next, Proceed, Store, Query, Persist, DatabaseRaises, Search, vars, cachevars
<1> QED BY <1>1, <1>3, <1>4, <1>5, <1>6, <1>7, <1>8

LEMMA CacheStartsSound == Init => CInv
<1> SUFFICES ASSUME Init PROVE CInv
  OBVIOUS
<1>1. /\ cache = <<>> /\ order = <<>> /\ call = [t \in Threads |-> NoCall]
  BY DEF Init, CacheInit
<1>2. DOMAIN cache = {} /\ DOMAIN order = {} /\ Len(order) = 0
  BY <1>1
<1>3. CacheAgrees /\ VectorsFitKeys /\ order \in Seq(DOMAIN cache)
  BY <1>1, <1>2, CapacityIsACount DEF CacheAgrees, VectorsFitKeys
<1>4. CallsAreSound
  BY <1>1 DEF CallsAreSound, HasFields, VectorsFitTexts, NoCall
<1> QED BY <1>3, <1>4 DEF CInv

\* The invariant that the dict, the list and the calls under way keep together.
THEOREM CacheInvariance == Spec => []CInv
<1> QED BY CacheStartsSound, CacheStaysSound, PTL DEF Spec

\* However many threads miss, insert, evict and clear, the list has every cached key
\* exactly once and no more than cache_size of them.
THEOREM CacheStaysInStep == Spec => []CacheAgrees
<1>1. CInv => CacheAgrees
  BY DEF CInv
<1> QED BY <1>1, CacheInvariance, PTL

\* A cached vector is never one of another key.
THEOREM VectorsStayWithKeys == Spec => []VectorsFitKeys
<1>1. CInv => VectorsFitKeys
  BY DEF CInv
<1> QED BY <1>1, CacheInvariance, PTL

-----------------------------------------------------------------------------
(* strip().                                                                *)

\* What strip() returns is a text without blanks at its ends, so that stripping it
\* again changes nothing.
LEMMA StripIsKey ==
  ASSUME NEW text \in Texts
  PROVE  Strip(text) \in Texts /\ Strip(Strip(text)) = Strip(text)
<1> DEFINE ink == {i \in DOMAIN text : text[i] # Blank}
<1>0. Len(text) \in Nat /\ DOMAIN text = 1..Len(text)
  BY DEF Texts
<1>1. CASE ink = {}
  <2>1. Strip(text) = <<>> /\ <<>> \in Texts
    BY <1>1 DEF Strip, Texts
  <2>2. Strip(<<>>) = <<>>
    BY DEF Strip
  <2> QED BY <2>1, <2>2
<1>2. CASE ink # {}
  <2> DEFINE lo == Min(ink)
             hi == Max(ink)
             r == SubSeq(text, lo, hi)
             left == {i \in DOMAIN r : r[i] # Blank}
  <2>1. lo \in ink /\ hi \in ink /\ lo <= hi
    <3>1. ink \in SUBSET (1..Len(text))
      BY <1>0
    <3> HIDE DEF ink
    <3> QED BY <1>0, <1>2, <3>1, EndsOf
  <2>2. Strip(text) = r
    BY <1>2 DEF Strip
  <2>3. lo \in 1..Len(text) /\ hi \in 1..Len(text) /\ text[lo] # Blank /\ text[hi] # Blank
    BY <1>0, <2>1
  <2> HIDE DEF lo, hi, ink
  <2>4. /\ r \in Texts /\ Len(r) = hi - lo + 1
        /\ \A i \in 1..hi - lo + 1 : r[i] = text[lo + i - 1]
    BY <1>0, <2>1, <2>3, SubSeqProperties DEF Texts
  <2> HIDE DEF r
  <2>5. DOMAIN r = 1..Len(r) /\ Len(r) \in Nat \ {0}
    BY <2>1, <2>3, <2>4 DEF Texts
  <2>6. 1 \in left /\ Len(r) \in left /\ left \in SUBSET (1..Len(r))
    BY <2>1, <2>3, <2>4, <2>5
  <2>7. Min(left) = 1 /\ Max(left) = Len(r)
    <3> HIDE DEF left
    <3>1. /\ Min(left) \in left /\ \A i \in left : Min(left) <= i
          /\ Max(left) \in left /\ \A i \in left : i <= Max(left)
      BY <2>5, <2>6, EndsOf
    <3>2. Min(left) <= 1 /\ Len(r) <= Max(left)
      BY <2>6, <3>1, Zenon
    <3>3. Min(left) \in 1..Len(r) /\ Max(left) \in 1..Len(r)
      BY <2>6, <3>1, Zenon
    <3>4. \A n \in Nat : \A i, j \in 1..n : i <= 1 /\ n <= j => i = 1 /\ j = n
      OBVIOUS
    <3> QED BY <2>5, <3>2, <3>3, <3>4, Zenon
  <2>8. Strip(r) = SubSeq(r, 1, Len(r))
    BY <2>6, <2>7 DEF Strip
  <2>9. SubSeq(r, 1, Len(r)) = r
    BY <2>4, SubSeqFull DEF Texts
  <2> QED BY <2>2, <2>4, <2>8, <2>9
<1> QED BY <1>1, <1>2

-----------------------------------------------------------------------------
(* Types of the cache.                                                     *)

LEMMA CallTypes ==
  ASSUME CacheTypeOK, NEW t \in Threads,
         \/ \E text \in Texts : Miss(t, text)
         \/ AskProvider(t) \/ NoProvider(t) \/ Put(t)
  PROVE  call' \in [Threads -> Call] /\ call' = [call EXCEPT ![t] = call'[t]]
<1> USE DEF CacheTypeOK
<1>0. NoCall \in Call /\ call[t] \in Call /\ call = [u \in Threads |-> call[u]]
  BY MaxRetriesIsACount DEF NoCall, Call, NoVector, Vector, Texts
<1>1. ASSUME NEW text \in Texts, Miss(t, text)
      PROVE  call' \in [Threads -> Call] /\ call' = [call EXCEPT ![t] = call'[t]]
  <2>1. [NoCall EXCEPT !.step = "openai", !.text = text] \in Call
    BY <1>0 DEF Call, NoCall
  <2> QED BY <1>0, <1>1, <2>1 DEF Miss
<1>2. ASSUME NEW provider \in {"openai", "anthropic"}, Embedded(t, provider)
      PROVE  call' \in [Threads -> Call] /\ call' = [call EXCEPT ![t] = call'[t]]
  <2> DEFINE v == [of |-> call[t].text, by |-> provider]
  <2>1. v \in Vector
    BY <1>0 DEF Call, Vector
  <2>2. [call[t] EXCEPT !.step = "put", !.vector = v] \in Call
    BY <1>0, <2>1 DEF Call
  <2>3. call' = [call EXCEPT ![t] = [call[t] EXCEPT !.step = "put", !.vector = v]]
    BY <1>0, <1>2 DEF Embedded
  <2> QED BY <1>0, <2>2, <2>3
<1>3. CASE OpenAIFails(t)
  <2>1. [call[t] EXCEPT !.attempt = call[t].attempt + 1] \in Call
    BY <1>0, <1>3, MaxRetriesIsACount DEF Call, OpenAIFails
  <2> QED BY <1>0, <1>3, <2>1 DEF OpenAIFails
<1>4. CASE OpenAIGivesUp(t)
  <2>1. [call[t] EXCEPT !.step = "fallback"] \in Call
    BY <1>0 DEF Call
  <2> QED BY <1>0, <1>4, <2>1 DEF OpenAIGivesUp
<1>5. CASE NoProvider(t) \/ Put(t)
  BY <1>0, <1>5 DEF NoProvider, Put
<1> QED
  BY <1>1, <1>2, <1>3, <1>4, <1>5 DEF AskProvider, OpenAISucceeds, Fallback

\* What is in the dict are vectors under stripped texts.
DictTyped == DOMAIN cache \subseteq Keys /\ \A k \in DOMAIN cache : cache[k] \in Vector

LEMMA PutTypes ==
  ASSUME CacheTypeOK, NEW t \in Threads, Put(t)
  PROVE  DictTyped'
<1> DEFINE key == Key(call[t].text)
<1>1. call[t] \in Call
  BY DEF CacheTypeOK
<1>2. key \in Keys /\ call[t].vector \in Vector
  BY <1>1, StripIsKey DEF Call, Key, Keys
<1>3. PICK gone : cache' = [k \in (DOMAIN cache \cup {key}) \ gone |->
                              IF k = key THEN call[t].vector ELSE cache[k]]
  BY DEF Put
<1> QED BY <1>2, <1>3 DEF DictTyped, CacheTypeOK

\* The piece that is embedded next is a text.
LEMMA PieceIsText ==
  ASSUME op \in [Threads -> Op], NEW t \in Threads,
         Len(op[t].vectors) < Len(op[t].pieces)
  PROVE  op[t].pieces[Len(op[t].vectors) + 1] \in Texts
<1>1. op[t].pieces \in Seq(Texts) /\ op[t].vectors \in Seq(Vector)
  BY DEF Op
<1>2. Len(op[t].vectors) + 1 \in 1..Len(op[t].pieces)
  BY <1>1
<1> QED BY <1>1, <1>2

LEMMA CacheStaysTyped ==
  ASSUME TypeOK, CInv, [Next]_vars
  PROVE  CacheTypeOK'
<1>0. CacheTypeOK
  BY DEF TypeOK
<1>1. CInv'
  BY CacheStaysSound
<1>2. providers' \in Configured
  BY <1>0 DEF CacheTypeOK, Next, Proceed, Store, Query, EmbedNext, Asking, Inserting, EmbedRaises,
         Persist, DatabaseRaises, Search, Elsewhere, vars, cachevars, Hit, Miss, AskProvider,
         OpenAISucceeds, OpenAIFails, OpenAIGivesUp, Fallback, NoProvider, Put, ClearCache
<1>3. DictTyped'
  <2>1. ASSUME UNCHANGED cache PROVE DictTyped'
    BY <1>0, <2>1 DEF CacheTypeOK, DictTyped
  <2>2. ASSUME NEW t \in Threads, Inserting(t) PROVE DictTyped'
    BY <1>0, <2>2, PutTypes DEF Inserting
  <2>3. CASE Elsewhere
    BY <2>3 DEF Elsewhere, ClearCache, DictTyped
  <2>4. UNCHANGED cache \/ (\E t \in Threads : Inserting(t)) \/ Elsewhere
    BY DEF Next, Proceed, Store, Query, EmbedNext, Asking, EmbedRaises, Persist,
           DatabaseRaises, Search, vars, cachevars, Hit, Miss, AskProvider, OpenAISucceeds,
           OpenAIFails, OpenAIGivesUp, Fallback, NoProvider
  <2> QED BY <2>1, <2>2, <2>3, <2>4
<1>4. order' \in Seq(Keys)
  <2>1. order' \in Seq(DOMAIN cache') /\ DOMAIN cache' \subseteq Keys
    BY <1>1, <1>3 DEF CInv, DictTyped
  <2> QED BY <2>1
<1>5. call' \in [Threads -> Call]
  <2>1. CASE UNCHANGED call
    BY <1>0, <2>1 DEF CacheTypeOK
  <2>2. ASSUME NEW t \in Threads, EmbedNext(t) PROVE call' \in [Threads -> Call]
    <3> DEFINE piece == op[t].pieces[Len(op[t].vectors) + 1]
    <3>1. CASE Miss(t, piece)
      <4>1. \E text \in Texts : Miss(t, text)
        BY <2>2, <3>1, PieceIsText DEF TypeOK, EmbedNext
      <4> QED BY <1>0, <4>1, CallTypes
    <3>2. CASE Hit(t, piece)
      BY <2>1, <3>2 DEF Hit
    <3> QED BY <2>2, <3>1, <3>2 DEF EmbedNext
  <2>3. ASSUME NEW t \in Threads, Asking(t) \/ Inserting(t) \/ EmbedRaises(t)
        PROVE  call' \in [Threads -> Call]
    BY <1>0, <2>3, CallTypes DEF Asking, Inserting, EmbedRaises
  <2>4. \/ UNCHANGED call
        \/ \E t \in Threads : EmbedNext(t) \/ Asking(t) \/ Inserting(t) \/ EmbedRaises(t)
    BY DEF Next, Proceed, Store, Query, Persist, DatabaseRaises, Search, Elsewhere,
           ClearCache, vars, cachevars
  <2> QED BY <2>1, <2>2, <2>3, <2>4
<1> QED BY <1>2, <1>3, <1>4, <1>5 DEF DictTyped, CacheTypeOK

-----------------------------------------------------------------------------
(* The retriever.                                                          *)

\* The rows that a store of these pieces inserts.
Rows(t) == [i \in DOMAIN op[t].pieces |->
              [chunk |-> op[t].pieces[i], vector |-> op[t].vectors[i]]]

IsStored(t) == op[t].kind = "store" /\ op[t].step = "done"

\* The vectors so far belong to the first pieces; a call under way is for the next one;
\* the pieces of a store split its text, unless it raised; the rows are those of the
\* pieces, once there is a vector for each, and before that there are none.
OpSound(t) ==
    /\ Len(op[t].vectors) <= Len(op[t].pieces)
    /\ \A i \in 1..Len(op[t].vectors) : Key(op[t].vectors[i].of) = Key(op[t].pieces[i])
    /\ call[t].step # "idle" =>
         /\ op[t].step = "embed" /\ Len(op[t].vectors) < Len(op[t].pieces)
         /\ call[t].text = op[t].pieces[Len(op[t].vectors) + 1]
    /\ op[t].kind = "store" /\ op[t].step # "raised" =>
         Splits(op[t].pieces, op[t].text, op[t].size)
    /\ IsStored(t) => Len(op[t].vectors) = Len(op[t].pieces)
    /\ stored[t] = IF IsStored(t) THEN Rows(t) ELSE <<>>

OInv == TypeOK /\ CInv /\ \A t \in Threads : OpSound(t)

\* A step of one thread leaves the others' stores and queries alone.
LEMMA OneOpMoves ==
  ASSUME \A u \in Threads : OpSound(u), NEW t \in Threads,
         \A u \in Threads \ {t} :
           op'[u] = op[u] /\ call'[u] = call[u] /\ stored'[u] = stored[u],
         OpSound(t)'
  PROVE  \A u \in Threads : OpSound(u)'
<1>1. ASSUME NEW u \in Threads \ {t} PROVE OpSound(u)'
  <2>1. OpSound(u) /\ op'[u] = op[u] /\ call'[u] = call[u] /\ stored'[u] = stored[u]
    BY <1>1
  <2>2. Rows(u)' = Rows(u) /\ (IsStored(u)' <=> IsStored(u))
    BY <2>1 DEF Rows, IsStored
  <2> QED BY <2>1, <2>2, Zenon DEF OpSound
<1> QED BY <1>1

\* A step that neither embeds nor stores.
OnlyStep(t, step) ==
    /\ op' = [op EXCEPT ![t].step = step]
    /\ UNCHANGED stored
    /\ op[t].step = "embed"
    /\ step \in {"done", "raised"}
    /\ step = "done" => op[t].kind = "query"

LEMMA StepSound ==
  ASSUME OInv, NEW t \in Threads, NEW step, OnlyStep(t, step),
         \A u \in Threads \ {t} : call'[u] = call[u], call'[t].step = "idle"
  PROVE  op' \in [Threads -> Op] /\ \A u \in Threads : OpSound(u)'
<1>1. op[t] \in Op /\ op \in [Threads -> Op]
  BY DEF OInv, TypeOK
<1>2. [op[t] EXCEPT !.step = step] \in Op
  BY <1>1 DEF Op, OnlyStep
<1>3. op' = [op EXCEPT ![t] = [op[t] EXCEPT !.step = step]]
  BY <1>1 DEF OnlyStep
<1>4. op'[t] = [op[t] EXCEPT !.step = step] /\ op' \in [Threads -> Op]
  BY <1>1, <1>2, <1>3
<1>5. /\ op'[t].step = step /\ op'[t].kind = op[t].kind /\ op'[t].text = op[t].text
      /\ op'[t].size = op[t].size /\ op'[t].pieces = op[t].pieces
      /\ op'[t].vectors = op[t].vectors
  BY <1>1, <1>4 DEF Op
<1>6. OpSound(t)'
  <2>1. OpSound(t) /\ ~ IsStored(t) /\ ~ IsStored(t)'
    BY <1>5 DEF OInv, IsStored, OnlyStep
  <2> QED BY <1>5, <2>1 DEF OpSound, OnlyStep
<1>7. \A u \in Threads \ {t} : op'[u] = op[u] /\ stored'[u] = stored[u]
  BY <1>1, <1>3 DEF OnlyStep
<1>8. \A u \in Threads : OpSound(u)
  BY DEF OInv
<1> QED BY <1>4, <1>6, <1>7, <1>8, OneOpMoves

\* The next piece gets a vector of its own key.
LEMMA TakesSound ==
  ASSUME OInv, NEW t \in Threads, NEW vector \in Vector, Takes(t, vector), UNCHANGED stored,
         op[t].step = "embed", Len(op[t].vectors) < Len(op[t].pieces),
         Key(vector.of) = Key(op[t].pieces[Len(op[t].vectors) + 1]),
         \A u \in Threads \ {t} : call'[u] = call[u], call'[t].step = "idle"
  PROVE  op' \in [Threads -> Op] /\ \A u \in Threads : OpSound(u)'
<1> DEFINE old == op[t].vectors
           new == Append(old, vector)
<1>1. op[t] \in Op /\ op \in [Threads -> Op]
  BY DEF OInv, TypeOK
<1>2. old \in Seq(Vector) /\ op[t].pieces \in Seq(Texts)
  BY <1>1 DEF Op
<1>3. /\ new \in Seq(Vector) /\ Len(new) = Len(old) + 1 /\ new[Len(old) + 1] = vector
      /\ \A i \in 1..Len(old) : new[i] = old[i]
  BY <1>2
<1>4. op' = [op EXCEPT ![t] = [op[t] EXCEPT !.vectors = new]]
  BY <1>1 DEF Takes
<1> HIDE DEF new
<1>5. [op[t] EXCEPT !.vectors = new] \in Op
  BY <1>1, <1>3 DEF Op
<1>6. op'[t] = [op[t] EXCEPT !.vectors = new] /\ op' \in [Threads -> Op]
  BY <1>1, <1>4, <1>5
<1>7. /\ op'[t].step = op[t].step /\ op'[t].kind = op[t].kind /\ op'[t].text = op[t].text
      /\ op'[t].size = op[t].size /\ op'[t].pieces = op[t].pieces /\ op'[t].vectors = new
  BY <1>1, <1>6 DEF Op
<1>8. OpSound(t)'
  <2>1. OpSound(t) /\ ~ IsStored(t) /\ ~ IsStored(t)'
    BY <1>7 DEF OInv, IsStored
  <2>2. Len(new) <= Len(op[t].pieces)
    BY <1>2, <1>3
  <2>3. ASSUME NEW i \in 1..Len(new) PROVE Key(new[i].of) = Key(op[t].pieces[i])
    <3>1. CASE i = Len(old) + 1
      BY <1>3, <3>1
    <3>2. CASE i # Len(old) + 1
      <4>1. i \in 1..Len(old)
        BY <1>2, <1>3, <3>2
      <4> QED BY <1>3, <2>1, <4>1 DEF OpSound
    <3> QED BY <3>1, <3>2
  <2> QED BY <1>7, <2>1, <2>2, <2>3 DEF OpSound
<1>9. \A u \in Threads \ {t} : op'[u] = op[u] /\ stored'[u] = stored[u]
  BY <1>1, <1>4
<1>10. \A u \in Threads : OpSound(u)
  BY DEF OInv
<1> QED BY <1>6, <1>8, <1>9, <1>10, OneOpMoves

\* The chunks of every text that is stored split it, whatever the settings.
LEMMA ChunkerIsRight == ChunkerSplits(Contents, Settings)
<1> SUFFICES ASSUME NEW text \in Contents, NEW s \in Settings
             PROVE  LET chunks == ChunkDocuments(text, s.size, s.overlap) IN
                    chunks \in Seq(Texts) /\ Splits(chunks, text, s.size)
  BY DEF ChunkerSplits
<1>1. text \in Texts /\ s.size \in Nat /\ s.overlap \in Nat /\ s.overlap < s.size
  BY TextsAreTexts, SettingsAreAccepted
<1> QED BY <1>1, DocumentsAreSplit

\* A store or a query begins.
LEMMA BeginSound ==
  ASSUME OInv, NEW t \in Threads,
         \/ \E text \in Contents, s \in Settings : Store(t, text, s)
         \/ \E text \in Queries : Query(t, text)
  PROVE  /\ op' \in [Threads -> Op] /\ stored' \in [Threads -> Seq(Document)]
         /\ \A u \in Threads : OpSound(u)'
<1>1. /\ op[t] \in Op /\ op \in [Threads -> Op] /\ stored \in [Threads -> Seq(Document)]
      /\ OpSound(t)
  BY DEF OInv, TypeOK
<1>2. \A u \in Threads : OpSound(u)
  BY DEF OInv
<1>3. op[t].step = "idle" /\ UNCHANGED <<call, stored>>
  BY DEF Store, Query, cachevars
<1>4. call[t].step = "idle" /\ stored[t] = <<>>
  BY <1>1, <1>3 DEF OpSound, IsStored
<1>5. ASSUME NEW new \in Op, op' = [op EXCEPT ![t] = new],
             new.step = "embed", new.vectors = <<>>,
             new.kind = "store" => Splits(new.pieces, new.text, new.size)
      PROVE  op' \in [Threads -> Op] /\ \A u \in Threads : OpSound(u)'
  <2>1. op'[t] = new /\ op' \in [Threads -> Op] /\ \A u \in Threads \ {t} : op'[u] = op[u]
    BY <1>1, <1>5
  <2>2. Len(new.vectors) = 0 /\ Len(new.pieces) \in Nat
    BY <1>5 DEF Op
  <2>3. OpSound(t)'
    BY <1>3, <1>4, <1>5, <2>1, <2>2 DEF OpSound, IsStored
  <2> QED BY <1>2, <1>3, <2>1, <2>3, OneOpMoves
<1>6. ASSUME NEW text \in Contents, NEW s \in Settings, Store(t, text, s)
      PROVE  op' \in [Threads -> Op] /\ \A u \in Threads : OpSound(u)'
  <2> DEFINE pieces == ChunkDocuments(text, s.size, s.overlap)
             new == [step |-> "embed", kind |-> "store", text |-> text, size |-> s.size,
                     pieces |-> pieces, vectors |-> <<>>]
  <2>1. pieces \in Seq(Texts) /\ Splits(pieces, text, s.size)
    BY ChunkerIsRight DEF ChunkerSplits
  <2>2. op' = [op EXCEPT ![t] = new]
    BY <1>6 DEF Store
  <2> HIDE DEF pieces
  <2>3. text \in Texts /\ s.size \in Nat
    BY TextsAreTexts, SettingsAreAccepted
  <2>4. new \in Op
    BY <2>1, <2>3 DEF Op
  <2> QED BY <1>5, <2>1, <2>2, <2>4
<1>7. ASSUME NEW text \in Queries, Query(t, text)
      PROVE  op' \in [Threads -> Op] /\ \A u \in Threads : OpSound(u)'
  <2> DEFINE new == [step |-> "embed", kind |-> "query", text |-> text, size |-> 0,
                     pieces |-> <<text>>, vectors |-> <<>>]
  <2>1. new = [NoOp EXCEPT !.step = "embed", !.text = text, !.pieces = <<text>>]
    <3>1. PICK b : b = [NoOp EXCEPT !.step = "embed", !.text = text, !.pieces = <<text>>]
      OBVIOUS
    <3>2. b = [step |-> b.step, kind |-> b.kind, text |-> b.text, size |-> b.size,
               pieces |-> b.pieces, vectors |-> b.vectors]
      BY <3>1 DEF NoOp
    <3>3. /\ b.step = "embed" /\ b.kind = "query" /\ b.text = text /\ b.size = 0
          /\ b.pieces = <<text>> /\ b.vectors = <<>>
      BY <3>1 DEF NoOp
    <3> QED BY <3>1, <3>2, <3>3, Zenon
  <2>2. op' = [op EXCEPT ![t] = new]
    BY <1>7, <2>1 DEF Query
  <2>3. new \in Op
    BY TextsAreTexts DEF Op
  <2> QED BY <1>5, <2>2, <2>3
<1> QED BY <1>1, <1>3, <1>6, <1>7

\* The next piece is in the cache, or a call for it begins.
LEMMA EmbedNextSound ==
  ASSUME OInv, NEW t \in Threads, EmbedNext(t)
  PROVE  op' \in [Threads -> Op] /\ \A u \in Threads : OpSound(u)'
<1> DEFINE piece == op[t].pieces[Len(op[t].vectors) + 1]
<1>1. /\ op \in [Threads -> Op] /\ call \in [Threads -> Call] /\ OpSound(t)
      /\ \A u \in Threads : OpSound(u)
  BY DEF OInv, TypeOK, CacheTypeOK
<1>2. op[t].step = "embed" /\ Len(op[t].vectors) < Len(op[t].pieces) /\ UNCHANGED stored
  BY DEF EmbedNext
<1>3. CASE Hit(t, piece) /\ Takes(t, cache[Key(piece)])
  <2>1. Key(piece) \in DOMAIN cache /\ UNCHANGED call /\ call[t].step = "idle"
    BY <1>3 DEF Hit
  <2>2. cache[Key(piece)] \in Vector /\ Key(cache[Key(piece)].of) = Key(piece)
    BY <2>1 DEF OInv, TypeOK, CacheTypeOK, CInv, VectorsFitKeys
  <2> QED BY <1>2, <1>3, <2>1, <2>2, TakesSound
<1>4. CASE Miss(t, piece) /\ UNCHANGED op
  <2>1. call' = [call EXCEPT ![t] = [NoCall EXCEPT !.step = "openai", !.text = piece]]
    BY <1>4 DEF Miss
  <2>2. call'[t].text = piece /\ \A u \in Threads \ {t} : call'[u] = call[u]
    BY <1>1, <2>1 DEF NoCall
  <2>3. OpSound(t)'
    BY <1>1, <1>2, <1>4, <2>2 DEF OpSound, Rows, IsStored
  <2> QED BY <1>1, <1>2, <1>4, <2>2, <2>3, OneOpMoves
<1> QED BY <1>3, <1>4 DEF EmbedNext

\* The call under way keeps its text.
LEMMA AskingSound ==
  ASSUME OInv, NEW t \in Threads, Asking(t)
  PROVE  UNCHANGED <<op, stored>> /\ \A u \in Threads : OpSound(u)'
<1>1. /\ call \in [Threads -> Call] /\ OpSound(t) /\ call[t] \in Call
      /\ \A u \in Threads : OpSound(u)
  BY DEF OInv, TypeOK, CacheTypeOK
<1>2. AskProvider(t) /\ UNCHANGED <<op, stored>>
  BY DEF Asking
<1>3. /\ call[t].step # "idle" /\ call'[t].text = call[t].text
      /\ \A u \in Threads \ {t} : call'[u] = call[u]
  BY <1>1, <1>2 DEF AskProvider, OpenAISucceeds, OpenAIFails, OpenAIGivesUp, Fallback,
                    Embedded, Call
<1>4. OpSound(t)'
  BY <1>1, <1>2, <1>3 DEF OpSound, Rows, IsStored
<1> QED BY <1>1, <1>2, <1>3, <1>4, OneOpMoves

\* The call ends with the vector of the next piece, or the operation ends with it.
LEMMA CallEndSound ==
  ASSUME OInv, NEW t \in Threads, Inserting(t) \/ EmbedRaises(t)
  PROVE  op' \in [Threads -> Op] /\ UNCHANGED stored /\ \A u \in Threads : OpSound(u)'
<1>1. call \in [Threads -> Call] /\ call[t] \in Call /\ OpSound(t)
  BY DEF OInv, TypeOK, CacheTypeOK
<1>2. /\ call' = [call EXCEPT ![t] = NoCall] /\ call[t].step # "idle" /\ UNCHANGED stored
  BY DEF Inserting, EmbedRaises, Put, NoProvider
<1>3. call'[t].step = "idle" /\ \A u \in Threads \ {t} : call'[u] = call[u]
  BY <1>1, <1>2 DEF NoCall
<1>4. /\ op[t].step = "embed" /\ Len(op[t].vectors) < Len(op[t].pieces)
      /\ call[t].text = op[t].pieces[Len(op[t].vectors) + 1]
  BY <1>1, <1>2 DEF OpSound
<1>5. CASE Inserting(t)
  <2>1. call[t].step = "put" /\ Takes(t, call[t].vector)
    BY <1>5 DEF Inserting, Put
  <2>2. call[t].vector \in Vector /\ call[t].vector.of = call[t].text
    BY <1>1, <2>1 DEF Call, OInv, CInv, CallsAreSound, VectorsFitTexts
  <2> QED BY <1>2, <1>3, <1>4, <2>1, <2>2, TakesSound
<1>6. CASE EmbedRaises(t)
  <2>1. OnlyStep(t, "raised")
    BY <1>2, <1>4, <1>6 DEF EmbedRaises, OnlyStep
  <2> QED BY <1>2, <1>3, <2>1, StepSound
<1> QED BY <1>5, <1>6

\* All pieces have their vectors: the rows go in, whole, or none does.
LEMMA EndSound ==
  ASSUME OInv, NEW t \in Threads, Persist(t) \/ DatabaseRaises(t) \/ Search(t)
  PROVE  /\ op' \in [Threads -> Op] /\ stored' \in [Threads -> Seq(Document)]
         /\ \A u \in Threads : OpSound(u)'
<1>1. /\ op[t] \in Op /\ op \in [Threads -> Op] /\ stored \in [Threads -> Seq(Document)]
      /\ OpSound(t) /\ \A u \in Threads : OpSound(u)
  BY DEF OInv, TypeOK
<1>2. /\ op[t].step = "embed" /\ Len(op[t].vectors) = Len(op[t].pieces) /\ UNCHANGED call
  BY DEF Persist, DatabaseRaises, Search, EmbeddedAll, cachevars
<1>3. call[t].step = "idle"
  BY <1>1, <1>2 DEF OpSound, Op
<1>4. CASE DatabaseRaises(t) \/ Search(t)
  <2>1. OnlyStep(t, "raised") \/ OnlyStep(t, "done")
    BY <1>2, <1>4 DEF DatabaseRaises, Search, OnlyStep
  <2>2. stored' = stored
    BY <1>4 DEF DatabaseRaises, Search
  <2> QED BY <1>1, <1>2, <1>3, <2>1, <2>2, StepSound
<1>5. CASE Persist(t)
  <2>1. /\ op' = [op EXCEPT ![t] = [op[t] EXCEPT !.step = "done"]]
        /\ stored' = [stored EXCEPT ![t] = Rows(t)] /\ op[t].kind = "store"
    BY <1>1, <1>5 DEF Persist, Rows
  <2>2. Rows(t) \in Seq(Document)
    <3>1. op[t].pieces \in Seq(Texts) /\ op[t].vectors \in Seq(Vector)
      BY <1>1 DEF Op
    <3>2. \A i \in DOMAIN op[t].pieces :
            op[t].pieces[i] \in Texts /\ op[t].vectors[i] \in Vector
      BY <1>2, <3>1
    <3>3. Rows(t) \in [1..Len(op[t].pieces) -> Document]
      BY <3>1, <3>2 DEF Rows, Document
    <3> QED BY <3>1, <3>3
  <2>3. op'[t] = [op[t] EXCEPT !.step = "done"] /\ [op[t] EXCEPT !.step = "done"] \in Op
    BY <1>1, <2>1 DEF Op
  <2>4. /\ op'[t].step = "done" /\ op'[t].kind = "store" /\ op'[t].text = op[t].text
        /\ op'[t].size = op[t].size /\ op'[t].pieces = op[t].pieces
        /\ op'[t].vectors = op[t].vectors
    BY <1>1, <2>1, <2>3 DEF Op
  <2>5. stored'[t] = Rows(t)' /\ IsStored(t)'
    BY <1>1, <2>1, <2>4 DEF Rows, IsStored
  <2>6. OpSound(t)'
    BY <1>1, <1>2, <1>3, <2>1, <2>4, <2>5 DEF OpSound
  <2>7. /\ op' \in [Threads -> Op] /\ stored' \in [Threads -> Seq(Document)]
        /\ \A u \in Threads \ {t} : op'[u] = op[u] /\ stored'[u] = stored[u]
    BY <1>1, <2>1, <2>2, <2>3
  <2> QED BY <1>1, <1>2, <2>6, <2>7, OneOpMoves
<1> QED BY <1>4, <1>5

LEMMA OpsStartSound == Init => OInv
<1> SUFFICES ASSUME Init PROVE OInv
  OBVIOUS
<1>1. /\ cache = <<>> /\ order = <<>> /\ call = [t \in Threads |-> NoCall]
      /\ op = [t \in Threads |-> NoOp] /\ stored = [t \in Threads |-> <<>>]
      /\ providers \in Configured
  BY DEF Init, CacheInit
<1>2. <<>> \in Texts /\ NoCall \in Call
  BY MaxRetriesIsACount DEF Texts, NoCall, NoVector, Call, Vector
<1>3. NoOp \in Op
  BY <1>2 DEF NoOp, Op
<1>4. TypeOK
  BY <1>1, <1>2, <1>3 DEF TypeOK, CacheTypeOK
<1>5. ASSUME NEW t \in Threads PROVE OpSound(t)
  BY <1>1 DEF OpSound, IsStored, NoOp, NoCall
<1> QED BY <1>4, <1>5, CacheStartsSound DEF OInv

LEMMA OpsStaySound ==
  ASSUME OInv, [Next]_vars
  PROVE  OInv'
<1>1. CInv' /\ CacheTypeOK'
  BY CacheStaysSound, CacheStaysTyped DEF OInv
<1>2. ASSUME UNCHANGED <<call, op, stored>>
      PROVE  op' \in [Threads -> Op] /\ stored' \in [Threads -> Seq(Document)]
             /\ \A u \in Threads : OpSound(u)'
  BY <1>2 DEF OInv, TypeOK, OpSound, Rows, IsStored
<1>3. ASSUME NEW t \in Threads,
             \/ \E text \in Contents, s \in Settings : Store(t, text, s)
             \/ \E text \in Queries : Query(t, text)
             \/ Proceed(t)
      PROVE  op' \in [Threads -> Op] /\ stored' \in [Threads -> Seq(Document)]
             /\ \A u \in Threads : OpSound(u)'
  <2>1. stored \in [Threads -> Seq(Document)] /\ op \in [Threads -> Op]
    BY DEF OInv, TypeOK
  <2>2. CASE EmbedNext(t)
    BY <2>1, <2>2, EmbedNextSound DEF EmbedNext
  <2>3. CASE Asking(t)
    BY <2>1, <2>3, AskingSound
  <2>4. CASE Inserting(t) \/ EmbedRaises(t)
    BY <2>1, <2>4, CallEndSound
  <2>5. CASE Persist(t) \/ DatabaseRaises(t) \/ Search(t)
    BY <2>5, EndSound
  <2> QED BY <1>3, <2>2, <2>3, <2>4, <2>5, BeginSound DEF Proceed
<1>4. \/ UNCHANGED <<call, op, stored>>
      \/ \E t \in Threads :
           \/ \E text \in Contents, s \in Settings : Store(t, text, s)
           \/ \E text \in Queries : Query(t, text)
           \/ Proceed(t)
  BY DEF Next, Elsewhere, ClearCache, vars
<1> QED BY <1>1, <1>2, <1>3, <1>4 DEF OInv, TypeOK

-----------------------------------------------------------------------------
(* What the retriever promises.                                            *)

LEMMA OpsInvariance == Spec => []OInv
<1> QED BY OpsStartSound, OpsStaySound, PTL DEF Spec

\* The cache, the calls and the operations under way keep their types, whatever the
\* providers do.
THEOREM TypeCorrect == Spec => []TypeOK
<1>1. OInv => TypeOK
  BY DEF OInv
<1> QED BY <1>1, OpsInvariance, PTL

\* A text is stored whole, in order, or not at all.
THEOREM TextsStoredWhole == Spec => []StoredIsWhole
<1>1. OInv => StoredIsWhole
  <2> SUFFICES ASSUME OInv, NEW t \in Threads, op[t].kind = "store"
               PROVE  LET chunks == [i \in DOMAIN stored[t] |-> stored[t][i].chunk] IN
                      \/ op[t].step = "done" /\ Splits(chunks, op[t].text, op[t].size)
                      \/ op[t].step # "done" /\ stored[t] = <<>>
    BY DEF StoredIsWhole
  <2>1. OpSound(t) /\ op[t].pieces \in Seq(Texts)
    BY DEF OInv, TypeOK, Op
  <2>2. CASE op[t].step = "done"
    <3>1. stored[t] = Rows(t) /\ Splits(op[t].pieces, op[t].text, op[t].size)
      BY <2>1, <2>2 DEF OpSound, IsStored
    <3>2. /\ DOMAIN stored[t] = DOMAIN op[t].pieces
          /\ \A i \in DOMAIN stored[t] : stored[t][i].chunk = op[t].pieces[i]
      BY <3>1 DEF Rows
    <3>3. op[t].pieces = [i \in DOMAIN op[t].pieces |-> op[t].pieces[i]]
      BY <2>1
    <3>4. [i \in DOMAIN stored[t] |-> stored[t][i].chunk] = op[t].pieces
      BY <3>2, <3>3
    <3> QED BY <2>2, <3>1, <3>4
  <2>3. CASE op[t].step # "done"
    BY <2>1, <2>3 DEF OpSound, IsStored
  <2> QED BY <2>2, <2>3
<1> QED BY <1>1, OpsInvariance, PTL

\* Every stored row has the vector of its own chunk, from whichever thread's call.
THEOREM RowsKeepTheirVectors == Spec => []RowsHaveTheirVectors
<1>1. OInv => RowsHaveTheirVectors
  <2> SUFFICES ASSUME OInv, NEW t \in Threads, NEW i \in DOMAIN stored[t]
               PROVE  Key(stored[t][i].vector.of) = Key(stored[t][i].chunk)
    BY DEF RowsHaveTheirVectors
  <2>1. OpSound(t) /\ op[t].pieces \in Seq(Texts) /\ op[t].vectors \in Seq(Vector)
    BY DEF OInv, TypeOK, Op
  <2>2. IsStored(t) /\ stored[t] = Rows(t) /\ Len(op[t].vectors) = Len(op[t].pieces)
    BY <2>1 DEF OpSound
  <2>3. i \in 1..Len(op[t].vectors)
    BY <2>1, <2>2 DEF Rows
  <2>4. stored[t][i].chunk = op[t].pieces[i] /\ stored[t][i].vector = op[t].vectors[i]
    BY <2>1, <2>2 DEF Rows
  <2> QED BY <2>1, <2>3, <2>4 DEF OpSound
<1> QED BY <1>1, OpsInvariance, PTL

=============================================================================
