---------------------------- MODULE EmbeddingCache ----------------------------
(***************************************************************************)
(* EmbeddingClient.embed, app/rag/embeddings.py: an LRU cache of vectors,  *)
(* a dict and a list of its keys, shared by threads.  The lock is held for *)
(* the lookup and again for the insertion, and not while a provider is     *)
(* asked in between: threads that miss the same key both ask, and insert   *)
(* it one after the other.                                                 *)
(*                                                                         *)
(* A vector is told by the text it was computed from and by its provider.  *)
(* Backoff times and the hit and miss counters are left out.               *)
(***************************************************************************)
EXTENDS Chunking

CONSTANTS
    Threads,    \* callers, each with one call of embed() at a time
    Configured, \* the sets of providers a client may have keys for
    Capacity,   \* cache_size
    MaxRetries  \* calls of the OpenAI provider per embed()

ASSUME ProvidersAreKnown == Configured \subseteq SUBSET {"openai", "anthropic"}
ASSUME CapacityIsACount == Capacity \in Nat
ASSUME MaxRetriesIsACount == MaxRetries \in Nat

VARIABLES
    providers,  \* those whose API key the client was given
    cache,      \* _cache, from keys to vectors
    order,      \* _cache_order, the key used last at the end
    call        \* the embed() each thread is in

cachevars == <<providers, cache, order, call>>

-----------------------------------------------------------------------------

\* SHA-256 of the stripped text, taken to tell apart what the stripped text does.
Key(text) == Strip(text)
Keys == {text \in Texts : text = Strip(text)}

Vector == [of: Texts, by: {"openai", "anthropic"}]
NoVector == [of |-> <<>>, by |-> "openai"]

Call == [step: {"idle", "openai", "fallback", "put"}, text: Texts,
         attempt: 0..MaxRetries, vector: Vector]
NoCall == [step |-> "idle", text |-> <<>>, attempt |-> 0, vector |-> NoVector]

CacheInit ==
    /\ providers \in Configured
    /\ cache = <<>>
    /\ order = <<>>
    /\ call = [t \in Threads |-> NoCall]

\* The key moves to the end of the list.
Touch(list, key) == Append(RemoveFirst(list, key), key)

Overflow(list) == IF Len(list) > Capacity THEN Len(list) - Capacity ELSE 0

Hit(t, text) ==
    /\ call[t].step = "idle"
    /\ Key(text) \in DOMAIN cache
    /\ order' = Touch(order, Key(text))
    /\ UNCHANGED <<providers, cache, call>>

Miss(t, text) ==
    /\ call[t].step = "idle"
    /\ Key(text) \notin DOMAIN cache
    /\ call' = [call EXCEPT ![t] = [NoCall EXCEPT !.step = "openai", !.text = text]]
    /\ UNCHANGED <<providers, cache, order>>

\* Variant: the client keeps the vector where the other threads find it.
EmbeddedShared(t, provider) ==
    call' = [u \in Threads |->
               [call[u] EXCEPT !.step = IF u = t THEN "put" ELSE @,
                               !.vector = [of |-> call[t].text, by |-> provider]]]

Embedded(t, provider) ==
    call' = [call EXCEPT ![t].step = "put",
                         ![t].vector = [of |-> call[t].text, by |-> provider]]

OpenAISucceeds(t) ==
    /\ call[t].step = "openai"
    /\ "openai" \in providers
    /\ call[t].attempt < MaxRetries
    /\ Embedded(t, "openai")
    /\ UNCHANGED <<providers, cache, order>>

\* Variant: one attempt too many.
OpenAIFailsOnceMore(t) ==
    /\ call[t].step = "openai"
    /\ "openai" \in providers
    /\ call[t].attempt <= MaxRetries
    /\ call' = [call EXCEPT ![t].attempt = @ + 1]
    /\ UNCHANGED <<providers, cache, order>>

OpenAIFails(t) ==
    /\ call[t].step = "openai"
    /\ "openai" \in providers
    /\ call[t].attempt < MaxRetries
    /\ call' = [call EXCEPT ![t].attempt = @ + 1]
    /\ UNCHANGED <<providers, cache, order>>

\* Variant: waits for the provider to come back.
OpenAIGivesUpWithoutKey(t) ==
    /\ call[t].step = "openai"
    /\ "openai" \notin providers
    /\ call' = [call EXCEPT ![t].step = "fallback"]
    /\ UNCHANGED <<providers, cache, order>>

\* No key, or no client, or no attempt left: None, and on to the other provider.
OpenAIGivesUp(t) ==
    /\ call[t].step = "openai"
    /\ call[t].attempt \in {0, MaxRetries}
    /\ call' = [call EXCEPT ![t].step = "fallback"]
    /\ UNCHANGED <<providers, cache, order>>

\* The pseudo-embedding, which cannot fail.
Fallback(t) ==
    /\ call[t].step = "fallback"
    /\ "anthropic" \in providers
    /\ Embedded(t, "anthropic")
    /\ UNCHANGED <<providers, cache, order>>

\* RuntimeError: the call ends without a vector.
NoProvider(t) ==
    /\ call[t].step = "fallback"
    /\ "anthropic" \notin providers
    /\ call' = [call EXCEPT ![t] = NoCall]
    /\ UNCHANGED <<providers, cache, order>>

\* Variant: the key was missing at the lookup, so it is put at the end as new.
PutAsNew(t) ==
    LET key == Key(call[t].text)
        list == Append(order, key)
        gone == {list[i] : i \in 1..Overflow(list)}
    IN  /\ call[t].step = "put"
        /\ order' = SubSeq(list, Overflow(list) + 1, Len(list))
        /\ cache' = [k \in (DOMAIN cache \cup {key}) \ gone |->
                       IF k = key THEN call[t].vector ELSE cache[k]]
        /\ call' = [call EXCEPT ![t] = NoCall]
        /\ UNCHANGED providers

Put(t) ==
    LET key == Key(call[t].text)
        list == Touch(order, key)
        gone == {list[i] : i \in 1..Overflow(list)}
    IN  /\ call[t].step = "put"
        /\ order' = SubSeq(list, Overflow(list) + 1, Len(list))
        /\ cache' = [k \in (DOMAIN cache \cup {key}) \ gone |->
                       IF k = key THEN call[t].vector ELSE cache[k]]
        /\ call' = [call EXCEPT ![t] = NoCall]
        /\ UNCHANGED providers

ClearCache ==
    /\ cache' = <<>>
    /\ order' = <<>>
    /\ UNCHANGED <<providers, call>>

\* From a miss to the insertion, or to the exception.
AskProvider(t) ==
    OpenAISucceeds(t) \/ OpenAIFails(t) \/ OpenAIGivesUp(t) \/ Fallback(t)

-----------------------------------------------------------------------------
(* Properties.                                                             *)

CacheTypeOK ==
    /\ providers \in Configured
    /\ DOMAIN cache \subseteq Keys /\ \A k \in DOMAIN cache : cache[k] \in Vector
    /\ order \in Seq(Keys)
    /\ call \in [Threads -> Call]

\* The dict and the list stay in step: the list has every cached key exactly once, and
\* no more than Capacity of them.  Threads that missed the same key, insertions after
\* an eviction or a clear_cache() of the same key must not break this, or keys would
\* be evicted twice, or never.
CacheAgrees ==
    /\ \A i, j \in DOMAIN order : order[i] = order[j] => i = j
    /\ DOMAIN cache = {order[i] : i \in DOMAIN order}
    /\ Len(order) <= Capacity

\* A cached vector belongs to its key: to the text itself, or to one that differs from
\* it in the blanks around.
VectorsFitKeys == \A k \in DOMAIN cache : Key(cache[k].of) = k

=============================================================================
