----------------------------- MODULE MCRetriever ------------------------------
(* Small instances of Retriever for TLC. *)
EXTENDS Retriever

\* Texts that are one chunk, several, the same chunk again, and blanks at a cut.
MCContents == {<<"b">>, <<"a", "a", "a">>, <<"_", "a", "_", "_", "b">>}
MCQueries == {<<"a">>, <<"a", "_">>}

MCSettings == {[size |-> 1, overlap |-> 0], [size |-> 3, overlap |-> 2]}

\* chunk_documents is right for every text of up to six characters and every setting.
ShortTexts == UNION {[1..n -> {"a", "b", "_"}] : n \in 0..6}
SmallSettings == {s \in [size: 1..4, overlap: 0..3] : s.overlap < s.size}
ASSUME ChunksSplitShortTexts == ChunkerSplits(ShortTexts, SmallSettings)

=============================================================================
