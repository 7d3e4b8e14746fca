------------------------------- MODULE Chunking -------------------------------
(***************************************************************************)
(* chunk_documents, app/rag/retriever.py: the character-based chunker with *)
(* overlap.  A text is a sequence of letters and blanks; the loop over     *)
(* start positions is given by the number of its last round.               *)
(***************************************************************************)
EXTENDS Integers, SequencesExt

CONSTANTS
    Letters,    \* the characters that str.strip() keeps
    Blank       \* the character that it strips

ASSUME BlankIsNoLetter == Blank \notin Letters

Texts == Seq(Letters \cup {Blank})

\* str.strip()
Strip(text) ==
    LET ink == {i \in DOMAIN text : text[i] # Blank}
    IN  IF ink = {} THEN <<>> ELSE SubSeq(text, Min(ink), Max(ink))

\* The first round whose chunk reaches the end of the text; the loop breaks there.
LastRound(len, size, overlap) ==
    CHOOSE k \in 0..len : /\ k * (size - overlap) + size >= len
                          /\ \A j \in 0..k - 1 : j * (size - overlap) + size < len

\* The chunk of a round: a window of the text, without the blanks around it.
Chunk(all, size, overlap, round) ==
    LET start == round * (size - overlap)
    IN  Strip(SubSeq(all, start + 1, Min({start + size, Len(all)})))

\* The numbers of a finite set from the least to the greatest.
InOrder(S) ==
    [i \in 1..Cardinality(S) |-> CHOOSE n \in S : Cardinality({m \in S : m <= n}) = i]

\* For 0 <= overlap < size; anything else is refused with a ValueError.
ChunkDocuments(text, size, overlap) ==
    LET all  == Strip(text)
        kept == {round \in 0..LastRound(Len(all), size, overlap) :
                   Chunk(all, size, overlap, round) # <<>>}
    IN  IF all = <<>> THEN <<>>
        ELSE IF Len(all) <= size THEN <<all>>
        ELSE [i \in 1..Cardinality(kept) |-> Chunk(all, size, overlap, InOrder(kept)[i])]

-----------------------------------------------------------------------------
(* What a list of chunks is for, said without the loop.                    *)

OccursAt(chunk, text, i) ==
    i + Len(chunk) - 1 <= Len(text) /\ SubSeq(text, i, i + Len(chunk) - 1) = chunk

\* The chunks can be laid out over the text from left to right, none longer than size,
\* so that they leave out blanks only.  Around blanks a chunk may lie within the one
\* before, or be the same one again.
Splits(chunks, text, size) ==
    \E at \in [DOMAIN chunks -> DOMAIN text] :
        LET end(c) == at[c] + Len(chunks[c]) - 1 IN
        /\ \A c \in DOMAIN chunks : /\ chunks[c] # <<>> /\ Len(chunks[c]) <= size
                                    /\ OccursAt(chunks[c], text, at[c])
        /\ \A c \in DOMAIN chunks \ {1} : at[c - 1] <= at[c] /\ end(c - 1) <= end(c)
        /\ \A i \in DOMAIN text : text[i] # Blank =>
             \E c \in DOMAIN chunks : at[c] <= i /\ i <= end(c)

\* The chunker splits each of these texts with each of these settings.
ChunkerSplits(texts, settings) ==
    \A text \in texts, s \in settings :
        LET chunks == ChunkDocuments(text, s.size, s.overlap) IN
        chunks \in Seq(Texts) /\ Splits(chunks, text, s.size)

=============================================================================
