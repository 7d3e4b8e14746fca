------------------------------- MODULE Retriever -------------------------------
(***************************************************************************)
(* Retriever.store_documents and Retriever.retrieve, app/rag/retriever.py: *)
(* a text is chunked, each chunk embedded through the shared cache, and    *)
(* all chunks are stored with their vectors in one transaction.  A query   *)
(* is embedded through the same cache and then only reads.                 *)
(*                                                                         *)
(* The retrievers of a process share one EmbeddingClient and may differ in *)
(* chunk size and overlap.                                                 *)
(***************************************************************************)
EXTENDS EmbeddingCache

CONSTANTS
    Contents,   \* the texts to store
    Queries,    \* the texts to search for
    Settings    \* the chunk sizes and overlaps of the retrievers

ASSUME TextsAreTexts == Contents \subseteq Texts /\ Queries \subseteq Texts
ASSUME SettingsAreAccepted ==
    Settings \subseteq {s \in [size: Nat, overlap: Nat] : s.overlap < s.size}

VARIABLES
    op,         \* the store or the query each thread is in
    stored      \* the rows of source_documents that a thread's store committed

vars == <<providers, cache, order, call, op, stored>>

-----------------------------------------------------------------------------

\* pieces are the texts to embed, vectors the embeddings of the first of them.
Op == [step: {"idle", "embed", "done", "raised"}, kind: {"store", "query"},
       text: Texts, size: Nat, pieces: Seq(Texts), vectors: Seq(Vector)]
NoOp == [step |-> "idle", kind |-> "query", text |-> <<>>, size |-> 0,
         pieces |-> <<>>, vectors |-> <<>>]

Document == [chunk: Texts, vector: Vector]

Init ==
    /\ CacheInit
    /\ op = [t \in Threads |-> NoOp]
    /\ stored = [t \in Threads |-> <<>>]

\* A text of blanks has no chunks: its list of pieces is exhausted at once.
Store(t, text, s) ==
    /\ op[t].step = "idle"
    /\ op' = [op EXCEPT ![t] =
                [step |-> "embed", kind |-> "store", text |-> text, size |-> s.size,
                 pieces |-> ChunkDocuments(text, s.size, s.overlap), vectors |-> <<>>]]
    /\ UNCHANGED <<cachevars, stored>>

Query(t, text) ==
    /\ op[t].step = "idle"
    /\ op' = [op EXCEPT ![t] = [NoOp EXCEPT !.step = "embed", !.text = text,
                                            !.pieces = <<text>>]]
    /\ UNCHANGED <<cachevars, stored>>

Takes(t, vector) == op' = [op EXCEPT ![t].vectors = Append(@, vector)]

\* Variant: the vectors that are cached already are put first.
EmbedCachedFirst(t) ==
    /\ op[t].step = "embed"
    /\ Len(op[t].vectors) < Len(op[t].pieces)
    /\ LET piece == op[t].pieces[Len(op[t].vectors) + 1] IN
         \/ /\ Hit(t, piece)
            /\ op' = [op EXCEPT ![t].vectors = <<cache[Key(piece)]>> \o @]
         \/ Miss(t, piece) /\ UNCHANGED op
    /\ UNCHANGED stored

\* embed_batch: one piece after the other, each from the cache or from a provider.
EmbedNext(t) ==
    /\ op[t].step = "embed"
    /\ Len(op[t].vectors) < Len(op[t].pieces)
    /\ LET piece == op[t].pieces[Len(op[t].vectors) + 1] IN
         \/ Hit(t, piece) /\ Takes(t, cache[Key(piece)])
         \/ Miss(t, piece) /\ UNCHANGED op
    /\ UNCHANGED stored

Asking(t) ==
    /\ AskProvider(t)
    /\ UNCHANGED <<op, stored>>

Inserting(t) ==
    /\ Put(t)
    /\ Takes(t, call[t].vector)
    /\ UNCHANGED stored

\* Variant: a chunk that cannot be embedded is skipped.
EmbedRaisesSkipping(t) ==
    /\ NoProvider(t)
    /\ LET next == Len(op[t].vectors) + 1 IN
         op' = [op EXCEPT ![t].pieces = RemoveAt(@, next)]
    /\ UNCHANGED stored

\* The exception of embed() ends the store or the query.
EmbedRaises(t) ==
    /\ NoProvider(t)
    /\ op' = [op EXCEPT ![t].step = "raised"]
    /\ UNCHANGED stored

EmbeddedAll(t) == op[t].step = "embed" /\ Len(op[t].vectors) = Len(op[t].pieces)

\* The rows are inserted in one session_scope: all of them or none.  With the table as
\* it is declared DatabaseRaises is what happens (external_id and fetched_at are NOT
\* NULL, and nothing sets them); a table that takes the rows is what the method is for.
Persist(t) ==
    /\ EmbeddedAll(t) /\ op[t].kind = "store"
    /\ stored' = [stored EXCEPT ![t] =
                    [i \in DOMAIN op[t].pieces |->
                       [chunk |-> op[t].pieces[i], vector |-> op[t].vectors[i]]]]
    /\ op' = [op EXCEPT ![t].step = "done"]
    /\ UNCHANGED cachevars

\* The database refuses the rows or the query, or the thread has no event loop to run
\* the transaction on.
DatabaseRaises(t) ==
    /\ EmbeddedAll(t) /\ op[t].pieces # <<>>
    /\ op' = [op EXCEPT ![t].step = "raised"]
    /\ UNCHANGED <<cachevars, stored>>

\* The SELECT over the stored vectors.
Search(t) ==
    /\ EmbeddedAll(t) /\ op[t].kind = "query"
    /\ op' = [op EXCEPT ![t].step = "done"]
    /\ UNCHANGED <<cachevars, stored>>

Elsewhere == ClearCache /\ UNCHANGED <<op, stored>>

Proceed(t) ==
    \/ EmbedNext(t) \/ Asking(t) \/ Inserting(t) \/ EmbedRaises(t)
    \/ Persist(t) \/ DatabaseRaises(t) \/ Search(t)

Next ==
    \/ \E t \in Threads, text \in Contents, s \in Settings : Store(t, text, s)
    \/ \E t \in Threads, text \in Queries : Query(t, text)
    \/ \E t \in Threads : Proceed(t)
    \/ Elsewhere

Spec == Init /\ [][Next]_vars

\* Threads run on; providers answer or fail, the SDK has a timeout.
FairSpec == Spec /\ \A t \in Threads : WF_vars(Proceed(t))

-----------------------------------------------------------------------------
(* Properties.                                                             *)

TypeOK ==
    /\ CacheTypeOK
    /\ op \in [Threads -> Op]
    /\ stored \in [Threads -> Seq(Document)]

\* A stored text is stored whole and in order: its rows cover everything but blanks,
\* whatever chunk size and overlap, however many of its chunks came from the cache,
\* and never for a part of it when a provider or the database failed on the way.
StoredIsWhole ==
    \A t \in Threads : op[t].kind = "store" =>
        LET chunks == [i \in DOMAIN stored[t] |-> stored[t][i].chunk] IN
        \/ op[t].step = "done" /\ Splits(chunks, op[t].text, op[t].size)
        \/ op[t].step # "done" /\ stored[t] = <<>>

\* Every row has the vector of its own chunk, up to blanks around it.
RowsHaveTheirVectors ==
    \A t \in Threads : \A i \in DOMAIN stored[t] :
        Key(stored[t][i].vector.of) = Key(stored[t][i].chunk)

\* Every store and every query ends, with its result or with an exception.
OpsEnd == \A t \in Threads : op[t].step = "embed" ~> op[t].step \in {"done", "raised"}

=============================================================================
