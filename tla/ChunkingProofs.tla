----------------------------- MODULE ChunkingProofs -----------------------------
(***************************************************************************)
(* chunk_documents splits every text with every accepted setting: its      *)
(* chunks lie over the text from left to right, none longer than           *)
(* chunk_size, and leave out blanks only.                                  *)
(***************************************************************************)
EXTENDS Chunking, FiniteSetTheorems, SequenceTheorems, WellFoundedInduction, TLAPS

-----------------------------------------------------------------------------
(* Finite sets of numbers.                                                 *)

\* A nonempty set of naturals has a least element.
LEMMA LeastOf ==
  ASSUME NEW T \in SUBSET Nat, T # {}
  PROVE  \E x \in T : \A y \in T : x <= y
<1> DEFINE R == OpToRel(<, Nat)
<1>1. IsWellFoundedOn(R, Nat)
  BY NatLessThanWellFounded
<1>2. \A x, y \in Nat : y < x => <<y, x>> \in R
  BY DEF OpToRel
<1> HIDE DEF R
<1>3. PICK x \in T : \A y \in T : ~ (<<y, x>> \in R)
  BY <1>1, WFMin
<1>4. ASSUME NEW y \in T PROVE x <= y
  <2>1. ~ (y < x)
    BY <1>2, <1>3, Zenon
  <2> QED BY <2>1
<1> QED BY <1>4

\* Min and Max of a set of positions.
LEMMA EndsOf ==
  ASSUME NEW n \in Nat, NEW T \in SUBSET (1..n), T # {}
  PROVE  /\ Min(T) \in T /\ \A i \in T : Min(T) <= i
         /\ Max(T) \in T /\ \A i \in T : i <= Max(T)
<1>1. PICK lo \in T : \A i \in T : lo <= i
  BY LeastOf
<1>2. Min(T) \in T /\ \A i \in T : Min(T) <= i
  BY <1>1, Zenon DEF Min
<1>3. PICK hi \in T : \A i \in T : i <= hi
  <2> DEFINE D == {n - i : i \in T}
  <2>1. D \in SUBSET Nat /\ D # {}
    OBVIOUS
  <2>2. PICK d \in D : \A e \in D : d <= e
    BY <2>1, LeastOf
  <2>3. PICK hi \in T : d = n - hi
    OBVIOUS
  <2>4. ASSUME NEW i \in T PROVE i <= hi
    <3>1. n - i \in D
      OBVIOUS
    <3>2. n - hi <= n - i
      BY <2>2, <2>3, <3>1
    <3> QED BY <3>2
  <2> QED BY <2>4
<1>4. Max(T) \in T /\ \A i \in T : Max(T) >= i
  <2>1. \A i \in T : hi >= i
    BY <1>3
  <2> QED BY <2>1, Zenon DEF Max
<1> QED BY <1>2, <1>4

\* InOrder lists all numbers of a set, each once, in ascending order.
LEMMA InOrderAscends ==
  ASSUME NEW top \in Nat, NEW S \in SUBSET (0..top)
  PROVE  /\ Cardinality(S) \in Nat
         /\ \A i \in 1..Cardinality(S) : InOrder(S)[i] \in S
         /\ \A i, j \in 1..Cardinality(S) : i < j => InOrder(S)[i] < InOrder(S)[j]
         /\ \A n \in S : \E i \in 1..Cardinality(S) : InOrder(S)[i] = n
<1> DEFINE upTo(n) == {m \in S : m <= n}
           rank == [n \in S |-> Cardinality(upTo(n))]
           size == Cardinality(S)
<1>1. IsFiniteSet(S) /\ size \in Nat
  <2>1. IsFiniteSet(0..top)
    BY FS_Interval
  <2>2. IsFiniteSet(S)
    BY <2>1, FS_Subset
  <2> QED BY <2>2, FS_CardinalityType
<1>2. ASSUME NEW n \in S
      PROVE  IsFiniteSet(upTo(n)) /\ rank[n] = Cardinality(upTo(n)) /\ rank[n] \in 1..size
  <2>1. upTo(n) \in SUBSET S /\ n \in upTo(n)
    OBVIOUS
  <2>2. IsFiniteSet(upTo(n)) /\ Cardinality(upTo(n)) <= size
    BY <1>1, <2>1, FS_Subset
  <2>3. Cardinality(upTo(n)) \in Nat /\ Cardinality(upTo(n)) # 0
    BY <2>1, <2>2, FS_CardinalityType, FS_EmptySet
  <2> QED BY <1>1, <2>2, <2>3
<1>3. ASSUME NEW m \in S, NEW n \in S, m < n PROVE rank[m] < rank[n]
  <2>1. upTo(m) \in SUBSET upTo(n) /\ upTo(m) # upTo(n)
    <3>1. \A i \in S : i <= m => i <= n
      BY <1>3
    <3>2. n \in upTo(n) /\ n \notin upTo(m)
      BY <1>3
    <3> QED BY <3>1, <3>2
  <2>2. Cardinality(upTo(m)) <= Cardinality(upTo(n)) /\ Cardinality(upTo(m)) # Cardinality(upTo(n))
    BY <1>2, <2>1, FS_Subset
  <2> QED BY <1>1, <1>2, <2>2
<1>4. \A m, n \in S : rank[m] = rank[n] => m = n
  <2> SUFFICES ASSUME NEW m \in S, NEW n \in S, rank[m] = rank[n], m # n PROVE FALSE
    OBVIOUS
  <2>1. m < n \/ n < m
    OBVIOUS
  <2>2. rank[m] < rank[n] \/ rank[n] < rank[m]
    BY <1>3, <2>1
  <2> QED BY <1>1, <1>2, <2>2
<1> HIDE DEF upTo
<1>5. \A i \in 1..size : \E n \in S : rank[n] = i
  <2>1. rank \in [S -> 1..size]
    BY <1>2
  <2>2. rank \in Injection(S, 1..size)
    BY <1>4, <2>1 DEF Injection, IsInjective
  <2>3. IsFiniteSet(1..size) /\ Cardinality(1..size) = size
    BY <1>1, FS_Interval
  <2> HIDE DEF rank
  <2>4. rank \in Surjection(S, 1..size)
    BY <2>2, <2>3, FS_Injection
  <2> QED BY <2>4 DEF Surjection
<1>6. ASSUME NEW i \in 1..size PROVE InOrder(S)[i] \in S /\ rank[InOrder(S)[i]] = i
  <2>1. InOrder(S)[i] = CHOOSE n \in S : Cardinality(upTo(n)) = i
    BY DEF InOrder, upTo
  <2>2. PICK n \in S : Cardinality(upTo(n)) = i
    BY <1>2, <1>5
  <2>3. InOrder(S)[i] \in S /\ Cardinality(upTo(InOrder(S)[i])) = i
    BY <2>1, <2>2, Zenon
  <2> QED BY <1>2, <2>3
<1> HIDE DEF rank
<1>7. ASSUME NEW i \in 1..size, NEW j \in 1..size, i < j PROVE InOrder(S)[i] < InOrder(S)[j]
  <2> DEFINE m == InOrder(S)[i]
             n == InOrder(S)[j]
  <2>1. m \in S /\ n \in S /\ rank[m] = i /\ rank[n] = j
    BY <1>6
  <2> HIDE DEF m, n
  <2>2. m # n /\ ~ (n < m)
    BY <1>1, <1>3, <1>7, <2>1
  <2>3. m < n
    BY <2>1, <2>2
  <2> QED BY <2>3 DEF m, n
<1>8. ASSUME NEW n \in S PROVE \E i \in 1..size : InOrder(S)[i] = n
  <2>1. rank[n] \in 1..size
    BY <1>2
  <2>2. InOrder(S)[rank[n]] = n
    BY <1>4, <1>6, <2>1
  <2> QED BY <2>1, <2>2
<1> QED BY <1>1, <1>6, <1>7, <1>8

-----------------------------------------------------------------------------
(* Stripping a window of a text.                                           *)

\* The positions from a to b that str.strip() does not take for blanks.
InkIn(text, a, b) == {i \in a..b : text[i] # Blank}

\* The part of a text between two positions.
LEMMA PartOfText ==
  ASSUME NEW text \in Texts, NEW a \in 1..Len(text), NEW b \in a..Len(text)
  PROVE  /\ SubSeq(text, a, b) \in Texts
         /\ Len(SubSeq(text, a, b)) = b - a + 1
         /\ \A j \in 1..b - a + 1 : SubSeq(text, a, b)[j] = text[a + j - 1]
<1>1. Len(text) \in Nat /\ \A i \in 1..Len(text) : text[i] \in Letters \cup {Blank}
  BY DEF Texts
<1>2. \A i \in a..b : text[i] \in Letters \cup {Blank}
  BY <1>1
<1>3. a \in Int /\ b \in Int /\ a <= b
  BY <1>1
<1> QED BY <1>2, <1>3, SubSeqProperties DEF Texts

\* A part of a part is a part.
LEMMA PartOfPart ==
  ASSUME NEW text \in Texts, NEW a \in 1..Len(text), NEW b \in a..Len(text),
         NEW c \in a..b, NEW d \in c..b
  PROVE  SubSeq(SubSeq(text, a, b), c - a + 1, d - a + 1) = SubSeq(text, c, d)
<1> DEFINE w == SubSeq(text, a, b)
           v == SubSeq(w, c - a + 1, d - a + 1)
           u == SubSeq(text, c, d)
<1>1. w \in Texts /\ Len(w) = b - a + 1 /\ \A j \in 1..b - a + 1 : w[j] = text[a + j - 1]
  BY PartOfText
<1>2. Len(text) \in Nat
  BY DEF Texts
<1>3. c \in 1..Len(text) /\ d \in c..Len(text)
  BY <1>2
<1>4. u \in Texts /\ Len(u) = d - c + 1 /\ \A j \in 1..d - c + 1 : u[j] = text[c + j - 1]
  BY <1>3, PartOfText
<1> HIDE DEF w
<1>5. c - a + 1 \in 1..Len(w) /\ d - a + 1 \in c - a + 1..Len(w)
  BY <1>1, <1>2
<1>6. /\ v \in Texts /\ Len(v) = (d - a + 1) - (c - a + 1) + 1
      /\ \A j \in 1..(d - a + 1) - (c - a + 1) + 1 : v[j] = w[(c - a + 1) + j - 1]
  BY <1>1, <1>5, PartOfText
<1>7. (d - a + 1) - (c - a + 1) + 1 = d - c + 1
  BY <1>2
<1> HIDE DEF u, v
<1>8. ASSUME NEW j \in 1..d - c + 1 PROVE v[j] = u[j]
  <2>1. v[j] = w[(c - a + 1) + j - 1]
    BY <1>6, <1>7
  <2>2. (c - a + 1) + j - 1 \in 1..b - a + 1 /\ a + ((c - a + 1) + j - 1) - 1 = c + j - 1
    BY <1>2
  <2> QED BY <1>1, <1>4, <2>1, <2>2
<1>9. v = u
  BY <1>4, <1>6, <1>7, <1>8, SeqEqual DEF Texts
<1> QED BY <1>9 DEF u, v, w

\* What strip() leaves of a part of a text reaches from its first ink to its last.
LEMMA StripOfPart ==
  ASSUME NEW text \in Texts, NEW a \in 1..Len(text), NEW b \in a..Len(text)
  PROVE  LET ink == InkIn(text, a, b) IN
         Strip(SubSeq(text, a, b)) =
           IF ink = {} THEN <<>> ELSE SubSeq(text, Min(ink), Max(ink))
<1> DEFINE ink == InkIn(text, a, b)
           w == SubSeq(text, a, b)
           inkOfW == {j \in DOMAIN w : w[j] # Blank}
<1>1. w \in Texts /\ Len(w) = b - a + 1 /\ \A j \in 1..b - a + 1 : w[j] = text[a + j - 1]
  BY PartOfText
<1>2. Len(text) \in Nat /\ DOMAIN w = 1..b - a + 1
  BY <1>1 DEF Texts
<1> HIDE DEF w
<1>3. \A i \in ink : i - a + 1 \in inkOfW
  BY <1>1, <1>2 DEF InkIn
<1>4. \A j \in inkOfW : a + j - 1 \in ink
  BY <1>1, <1>2 DEF InkIn
<1>5. ink \in SUBSET (1..Len(text)) /\ ink \in SUBSET (a..b)
  BY <1>2 DEF InkIn
<1>6. inkOfW \in SUBSET (1..b - a + 1) /\ b - a + 1 \in Nat
  BY <1>2
<1>7. Strip(w) = IF inkOfW = {} THEN <<>> ELSE SubSeq(w, Min(inkOfW), Max(inkOfW))
  BY DEF Strip
<1> HIDE DEF ink, inkOfW
<1>8. CASE ink = {}
  <2>1. inkOfW = {}
    BY <1>4, <1>8
  <2> QED BY <1>7, <1>8, <2>1 DEF ink, w
<1>9. CASE ink # {}
  <2>1. inkOfW # {}
    BY <1>3, <1>9
  <2> DEFINE lo == Min(ink)
             hi == Max(ink)
             l == Min(inkOfW)
             h == Max(inkOfW)
  <2>2. lo \in ink /\ hi \in ink /\ \A i \in ink : lo <= i /\ i <= hi
    BY <1>2, <1>5, <1>9, EndsOf
  <2>3. l \in inkOfW /\ h \in inkOfW /\ \A j \in inkOfW : l <= j /\ j <= h
    BY <1>6, <2>1, EndsOf
  <2> HIDE DEF lo, hi, l, h
  <2>4. lo \in a..b /\ hi \in a..b /\ l \in 1..b - a + 1 /\ h \in 1..b - a + 1
    BY <1>5, <1>6, <2>2, <2>3
  <2>5. l <= lo - a + 1 /\ hi - a + 1 <= h /\ lo <= a + l - 1 /\ a + h - 1 <= hi
    BY <1>3, <1>4, <2>2, <2>3
  <2>6. l = lo - a + 1 /\ h = hi - a + 1 /\ hi \in lo..b
    BY <1>2, <2>2, <2>4, <2>5
  <2>7. SubSeq(w, l, h) = SubSeq(text, lo, hi)
    BY <2>4, <2>6, PartOfPart DEF w
  <2> QED BY <1>7, <1>9, <2>1, <2>7 DEF lo, hi, l, h, ink, w
<1> QED BY <1>8, <1>9

\* What strip() leaves of a text.
LEMMA StripOfText ==
  ASSUME NEW text \in Texts
  PROVE  LET ink == InkIn(text, 1, Len(text)) IN
         Strip(text) = IF ink = {} THEN <<>> ELSE SubSeq(text, Min(ink), Max(ink))
<1>1. Len(text) \in Nat /\ DOMAIN text = 1..Len(text)
  BY DEF Texts
<1> QED BY <1>1 DEF Strip, InkIn

-----------------------------------------------------------------------------
(* The rounds of the loop.                                                 *)

\* Where the rounds start: each a step after the one before.
LEMMA RoundsStep ==
  ASSUME NEW step \in Nat \ {0}
  PROVE  /\ 0 * step = 0
         /\ \A k \in Nat : k * step \in Nat /\ (k + 1) * step = k * step + step
         /\ \A k, l \in Nat : k < l => k * step + step <= l * step
         /\ \A k \in Nat : k <= k * step
<1>1. \A k \in Nat : k * step \in Nat /\ (k + 1) * step = k * step + step
  OBVIOUS
<1>2. \A m \in Nat : m * step >= m
  <2> SUFFICES ASSUME NEW m \in Nat PROVE m * step >= m
    OBVIOUS
  <2>1. m * step = m + m * (step - 1) /\ m * (step - 1) >= 0
    OBVIOUS
  <2> QED BY <1>1, <2>1
<1>3. ASSUME NEW k \in Nat, NEW l \in Nat, k < l PROVE k * step + step <= l * step
  <2>1. l * step = k * step + step + (l - (k + 1)) * step
    OBVIOUS
  <2>2. l - (k + 1) \in Nat
    BY <1>3
  <2>3. (l - (k + 1)) * step \in Nat
    BY <1>1, <2>2
  <2> QED BY <1>1, <2>1, <2>3
<1> QED BY <1>1, <1>2, <1>3

\* The first round whose window reaches a position.
LEMMA FirstRoundTo ==
  ASSUME NEW size \in Nat, NEW step \in Nat \ {0}, NEW i \in Nat
  PROVE  \E k \in 0..i : /\ i <= k * step + size
                         /\ \A j \in 0..k - 1 : j * step + size < i
                         /\ k > 0 => (k - 1) * step + size < i
<1> DEFINE reaching == {k \in Nat : i <= k * step + size}
<1>1. i \in reaching
  BY RoundsStep
<1>2. PICK k \in reaching : \A j \in reaching : k <= j
  BY <1>1, LeastOf
<1>3. k \in 0..i
  BY <1>1, <1>2
<1>4. ASSUME NEW j \in Nat, j < k PROVE j * step + size < i
  <2>1. j \notin reaching
    BY <1>2, <1>4
  <2>2. j * step \in Nat
    BY RoundsStep
  <2> QED BY <2>1, <2>2
<1>5. \A j \in 0..k - 1 : j * step + size < i
  BY <1>3, <1>4
<1>6. k > 0 => (k - 1) * step + size < i
  BY <1>3, <1>4
<1> QED BY <1>2, <1>3, <1>5, <1>6

\* The loop ends: some round reaches the end of the text, and no round before it does.
LEMMA LoopEnds ==
  ASSUME NEW len \in Nat, NEW size \in Nat, NEW overlap \in Nat, overlap < size
  PROVE  LET last == LastRound(len, size, overlap) IN
         /\ last \in 0..len
         /\ last * (size - overlap) + size >= len
         /\ \A j \in 0..last - 1 : j * (size - overlap) + size < len
<1>1. size - overlap \in Nat \ {0}
  OBVIOUS
<1> DEFINE step == size - overlap
<1> HIDE DEF step
<1>2. PICK k \in 0..len : /\ len <= k * step + size
                          /\ \A j \in 0..k - 1 : j * step + size < len
  BY <1>1, FirstRoundTo DEF step
<1>3. k * step + size >= len
  BY <1>1, <1>2, RoundsStep DEF step
<1>4. \E m \in 0..len : /\ m * step + size >= len
                        /\ \A j \in 0..m - 1 : j * step + size < len
  BY <1>2, <1>3
<1>5. LastRound(len, size, overlap) =
        CHOOSE m \in 0..len : /\ m * step + size >= len
                              /\ \A j \in 0..m - 1 : j * step + size < len
  BY DEF LastRound, step
<1> HIDE DEF LastRound
<1> QED BY <1>4, <1>5, Zenon DEF step

-----------------------------------------------------------------------------
(* The chunks over the text.                                               *)

\* Parts of a text that ascend, and leave out blanks only, split it.
LEMMA AscendingPartsSplit ==
  ASSUME NEW text \in Texts, NEW size \in Nat, NEW n \in Nat,
         NEW first \in [1..n -> 1..Len(text)], NEW last \in [1..n -> 1..Len(text)],
         \A c \in 1..n : first[c] <= last[c] /\ last[c] - first[c] + 1 <= size,
         \A c \in 1..n \ {1} : first[c - 1] <= first[c] /\ last[c - 1] <= last[c],
         \A i \in 1..Len(text) : text[i] # Blank =>
           \E c \in 1..n : first[c] <= i /\ i <= last[c]
  PROVE  LET chunks == [c \in 1..n |-> SubSeq(text, first[c], last[c])] IN
         chunks \in Seq(Texts) /\ Splits(chunks, text, size)
<1> DEFINE chunks == [c \in 1..n |-> SubSeq(text, first[c], last[c])]
           end(c) == first[c] + Len(chunks[c]) - 1
<1>1. Len(text) \in Nat /\ DOMAIN text = 1..Len(text) /\ DOMAIN chunks = 1..n
  BY DEF Texts
<1>2. ASSUME NEW c \in 1..n
      PROVE  /\ chunks[c] \in Texts /\ chunks[c] # <<>> /\ Len(chunks[c]) <= size
             /\ end(c) = last[c] /\ OccursAt(chunks[c], text, first[c])
  <2>1. first[c] \in 1..Len(text) /\ last[c] \in first[c]..Len(text)
    BY <1>1
  <2>2. /\ chunks[c] = SubSeq(text, first[c], last[c])
        /\ chunks[c] \in Texts /\ Len(chunks[c]) = last[c] - first[c] + 1
    BY <2>1, PartOfText
  <2> HIDE DEF chunks
  <2>3. end(c) = last[c] /\ Len(chunks[c]) > 0
    BY <1>1, <2>1, <2>2
  <2>4. chunks[c] # <<>>
    BY <2>3
  <2>5. OccursAt(chunks[c], text, first[c])
    <3>1. last[c] <= Len(text)
      BY <1>1, <2>1
    <3>2. first[c] + Len(chunks[c]) - 1 = last[c]
      BY <2>3
    <3> QED BY <2>2, <3>1, <3>2, Zenon DEF OccursAt
  <2> QED BY <2>2, <2>3, <2>4, <2>5
<1>3. chunks \in Seq(Texts)
  <2>1. chunks \in [1..n -> Texts]
    BY <1>2
  <2> QED BY <2>1
<1>4. first \in [DOMAIN chunks -> DOMAIN text]
  BY <1>1
<1> HIDE DEF chunks
<1>5. \A c \in DOMAIN chunks \ {1} : first[c - 1] <= first[c] /\ end(c - 1) <= end(c)
  <2> SUFFICES ASSUME NEW c \in 1..n \ {1}
               PROVE  first[c - 1] <= first[c] /\ end(c - 1) <= end(c)
    BY <1>1
  <2>1. c - 1 \in 1..n
    OBVIOUS
  <2> QED BY <1>2, <2>1
<1>6. \A i \in DOMAIN text : text[i] # Blank =>
        \E c \in DOMAIN chunks : first[c] <= i /\ i <= end(c)
  <2> SUFFICES ASSUME NEW i \in 1..Len(text), text[i] # Blank
               PROVE  \E c \in 1..n : first[c] <= i /\ i <= end(c)
    BY <1>1
  <2>1. PICK c \in 1..n : first[c] <= i /\ i <= last[c]
    OBVIOUS
  <2>2. end(c) = last[c]
    BY <1>2
  <2> QED BY <2>1, <2>2
<1>7. Splits(chunks, text, size)
  BY <1>1, <1>2, <1>4, <1>5, <1>6 DEF Splits
<1> QED BY <1>3, <1>7 DEF chunks

\* What a round leaves of the window that begins at its start.
Window(all, size, start) == Strip(SubSeq(all, start + 1, Min({start + size, Len(all)})))

\* The end of a window of a text that ends at hi.
EndOf(from, size, hi) == IF from + size - 1 <= hi THEN from + size - 1 ELSE hi

\* What is cut from a text that was stripped first, in positions of that text: the part
\* from the first ink of the window to the last.
LEMMA WindowOfStripped ==
  ASSUME NEW text \in Texts, NEW lo \in 1..Len(text), NEW hi \in lo..Len(text),
         NEW size \in Nat \ {0}, NEW start \in Nat, start < hi - lo + 1
  PROVE  LET all  == SubSeq(text, lo, hi)
             from == lo + start
             to   == EndOf(from, size, hi)
             ink  == InkIn(text, from, to)
         IN  /\ from \in lo..hi /\ to \in from..hi
             /\ Window(all, size, start) =
                  IF ink = {} THEN <<>> ELSE SubSeq(text, Min(ink), Max(ink))
<1> DEFINE all == SubSeq(text, lo, hi)
           len == hi - lo + 1
           from == lo + start
           to == EndOf(from, size, hi)
           ends == {start + size, len}
<1>1. Len(text) \in Nat
  BY DEF Texts
<1>2. Len(all) = len /\ len \in Nat
  BY <1>1, PartOfText
<1> HIDE DEF all
<1>3. Min(ends) = to - lo + 1
  <2>1. ends \in SUBSET (1..start + size + len) /\ ends # {} /\ start + size + len \in Nat
    BY <1>1, <1>2
  <2> HIDE DEF ends
  <2>2. Min(ends) \in ends /\ \A i \in ends : Min(ends) <= i
    BY <2>1, EndsOf
  <2>3. \/ Min(ends) = start + size /\ start + size <= len
        \/ Min(ends) = len /\ len <= start + size
    BY <1>1, <1>2, <2>2 DEF ends
  <2> QED BY <1>1, <1>2, <2>3 DEF EndOf
<1>4. from \in lo..hi /\ to \in from..hi /\ start + 1 = from - lo + 1
  BY <1>1 DEF EndOf
<1> HIDE DEF ends, from, to
<1>5. SubSeq(all, start + 1, Min(ends)) = SubSeq(text, from, to)
  BY <1>1, <1>3, <1>4, PartOfPart DEF all
<1>6. from \in 1..Len(text) /\ to \in from..Len(text)
  BY <1>1, <1>4
<1>7. LET ink == InkIn(text, from, to) IN
      Strip(SubSeq(text, from, to)) = IF ink = {} THEN <<>> ELSE SubSeq(text, Min(ink), Max(ink))
  BY <1>6, StripOfPart
<1> QED BY <1>2, <1>4, <1>5, <1>7 DEF from, to, all, ends, Window

\* The chunks of a text that is longer than a chunk.
LEMMA RoundsSplit ==
  ASSUME NEW text \in Texts, NEW lo \in 1..Len(text), NEW hi \in lo..Len(text),
         \A i \in 1..Len(text) : text[i] # Blank => lo <= i /\ i <= hi,
         NEW size \in Nat, NEW overlap \in Nat, overlap < size, size < hi - lo + 1
  PROVE  LET all  == SubSeq(text, lo, hi)
             kept == {round \in 0..LastRound(Len(all), size, overlap) :
                        Chunk(all, size, overlap, round) # <<>>}
             chunks == [i \in 1..Cardinality(kept) |->
                          Chunk(all, size, overlap, InOrder(kept)[i])]
         IN  chunks \in Seq(Texts) /\ Splits(chunks, text, size)
<1> DEFINE step == size - overlap
           all == SubSeq(text, lo, hi)
           len == hi - lo + 1
           end == LastRound(Len(all), size, overlap)
           from(k) == lo + k * step
           to(k) == EndOf(from(k), size, hi)
           ink(k) == InkIn(text, from(k), to(k))
           kept == {k \in 0..end : Chunk(all, size, overlap, k) # <<>>}
           n == Cardinality(kept)
           first == [c \in 1..n |-> Min(ink(InOrder(kept)[c]))]
           last == [c \in 1..n |-> Max(ink(InOrder(kept)[c]))]
<1>1. /\ Len(text) \in Nat /\ step \in Nat \ {0} /\ step <= size
      /\ Len(all) = len /\ len \in Nat
  <2>1. Len(text) \in Nat
    BY DEF Texts
  <2> QED BY <2>1, PartOfText
<1>2. /\ end \in 0..len /\ end * step + size >= len
      /\ \A j \in 0..end - 1 : j * step + size < len
  BY <1>1, LoopEnds
<1> HIDE DEF step, all, len, end
<1>3. ASSUME NEW k \in 0..end PROVE k \in Nat /\ k * step \in Nat /\ k * step < len
  <2>1. k \in Nat /\ k * step \in Nat /\ 0 * step = 0
    BY <1>1, <1>2, RoundsStep
  <2>2. CASE k = 0
    BY <1>1, <2>1, <2>2 DEF len
  <2>3. CASE k > 0
    <3>1. k - 1 \in 0..end - 1 /\ k - 1 \in Nat
      BY <1>1, <1>2, <2>3
    <3>2. (k - 1) * step + size < len /\ (k - 1) * step \in Nat
      BY <1>1, <1>2, <3>1, RoundsStep
    <3>3. ((k - 1) + 1) * step = (k - 1) * step + step /\ (k - 1) + 1 = k
      BY <1>1, <3>1, RoundsStep
    <3> QED BY <1>1, <2>1, <3>2, <3>3
  <2> QED BY <2>1, <2>2, <2>3
<1>4. ASSUME NEW k \in 0..end
      PROVE  /\ from(k) \in lo..hi /\ to(k) \in from(k)..hi
             /\ Chunk(all, size, overlap, k) =
                  IF ink(k) = {} THEN <<>> ELSE SubSeq(text, Min(ink(k)), Max(ink(k)))
  <2> DEFINE start == k * step
             f == lo + start
             t == EndOf(f, size, hi)
             part == InkIn(text, f, t)
  <2>1. start \in Nat /\ start < hi - lo + 1 /\ size \in Nat \ {0}
    BY <1>1, <1>3 DEF len
  <2>2. Chunk(all, size, overlap, k) = Window(all, size, start)
    BY Zenon DEF Chunk, Window, step
  <2> HIDE DEF start
  <2>3. /\ f \in lo..hi /\ t \in f..hi
        /\ Window(all, size, start) =
             IF part = {} THEN <<>> ELSE SubSeq(text, Min(part), Max(part))
    BY <2>1, WindowOfStripped DEF all
  <2> QED BY <2>2, <2>3, Zenon DEF start
<1>5. ASSUME NEW k \in 0..end, ink(k) # {}
      PROVE  /\ Min(ink(k)) \in ink(k) /\ Max(ink(k)) \in ink(k)
             /\ \A i \in ink(k) : Min(ink(k)) <= i /\ i <= Max(ink(k))
  <2>1. from(k) \in lo..hi /\ to(k) \in from(k)..hi
    BY <1>4
  <2>2. ink(k) \in SUBSET (1..Len(text))
    BY <1>1, <2>1 DEF InkIn
  <2> QED BY <1>1, <1>5, <2>2, EndsOf
<1>6. \A k \in 0..end : \A i \in ink(k) :
        /\ i \in 1..Len(text) /\ i \in lo..hi /\ text[i] # Blank
        /\ lo + k * step <= i /\ i <= lo + k * step + size - 1
  <2> SUFFICES ASSUME NEW k \in 0..end, NEW i \in ink(k)
               PROVE  /\ i \in 1..Len(text) /\ i \in lo..hi /\ text[i] # Blank
                      /\ lo + k * step <= i /\ i <= lo + k * step + size - 1
    OBVIOUS
  <2>1. from(k) \in lo..hi /\ to(k) \in from(k)..hi /\ k * step \in Nat
    BY <1>3, <1>4
  <2> QED BY <1>1, <2>1 DEF InkIn, EndOf
<1>7. \A k \in 0..end : \A i \in 1..Len(text) :
        text[i] # Blank /\ lo + k * step <= i /\ i <= lo + k * step + size - 1 => i \in ink(k)
  <2> SUFFICES ASSUME NEW k \in 0..end, NEW i \in 1..Len(text), text[i] # Blank,
                      lo + k * step <= i, i <= lo + k * step + size - 1
               PROVE  i \in ink(k)
    OBVIOUS
  <2>1. k * step \in Nat
    BY <1>3
  <2> QED BY <1>1, <2>1 DEF InkIn, EndOf
<1>8. \A k \in 0..end : k \in kept <=> ink(k) # {}
  <2> SUFFICES ASSUME NEW k \in 0..end PROVE k \in kept <=> ink(k) # {}
    OBVIOUS
  <2>1. CASE ink(k) = {}
    BY <1>4, <2>1
  <2>2. CASE ink(k) # {}
    <3> DEFINE a == Min(ink(k))
               b == Max(ink(k))
    <3>1. a \in 1..Len(text) /\ b \in 1..Len(text) /\ a <= b
      BY <1>5, <1>6, <2>2
    <3>2. Chunk(all, size, overlap, k) = SubSeq(text, a, b)
      BY <1>4, <2>2
    <3> HIDE DEF a, b, ink
    <3>3. b \in a..Len(text)
      BY <1>1, <3>1
    <3>4. Len(SubSeq(text, a, b)) = b - a + 1
      BY <3>1, <3>3, PartOfText
    <3>5. SubSeq(text, a, b) # <<>>
      BY <1>1, <3>1, <3>4
    <3> QED BY <2>2, <3>2, <3>5
  <2> QED BY <2>1, <2>2
<1> HIDE DEF ink
<1>9. /\ n \in Nat /\ \A c \in 1..n : InOrder(kept)[c] \in kept
      /\ \A c, d \in 1..n : c < d => InOrder(kept)[c] < InOrder(kept)[d]
      /\ \A k \in kept : \E c \in 1..n : InOrder(kept)[c] = k
  <2>1. kept \in SUBSET (0..end) /\ end \in Nat
    BY <1>1, <1>2
  <2> HIDE DEF kept
  <2> QED BY <2>1, InOrderAscends
<1>10. \A k \in kept : k \in 0..end /\ ink(k) # {}
  BY <1>8
<1>11. /\ first \in [1..n -> 1..Len(text)] /\ last \in [1..n -> 1..Len(text)]
       /\ \A c \in 1..n : first[c] <= last[c] /\ last[c] - first[c] + 1 <= size
  <2> SUFFICES ASSUME NEW c \in 1..n
               PROVE  /\ first[c] \in 1..Len(text) /\ last[c] \in 1..Len(text)
                      /\ first[c] <= last[c] /\ last[c] - first[c] + 1 <= size
    OBVIOUS
  <2> DEFINE k == InOrder(kept)[c]
  <2>1. k \in 0..end /\ ink(k) # {} /\ k * step \in Nat
    BY <1>3, <1>9, <1>10
  <2>2. first[c] = Min(ink(k)) /\ last[c] = Max(ink(k))
    OBVIOUS
  <2> HIDE DEF k, first, last, kept
  <2>3. first[c] \in ink(k) /\ last[c] \in ink(k) /\ first[c] <= last[c]
    BY <1>5, <2>1, <2>2
  <2>4. /\ first[c] \in 1..Len(text) /\ last[c] \in 1..Len(text)
        /\ lo + k * step <= first[c] /\ last[c] <= lo + k * step + size - 1
    BY <1>6, <2>1, <2>3
  <2> QED BY <1>1, <2>1, <2>3, <2>4
<1>12. ASSUME NEW c \in 1..n \ {1}
       PROVE  first[c - 1] <= first[c] /\ last[c - 1] <= last[c]
  <2> DEFINE k == InOrder(kept)[c - 1]
             l == InOrder(kept)[c]
  <2>1. c - 1 \in 1..n /\ c \in 1..n /\ c - 1 < c
    BY <1>9
  <2>2. k \in 0..end /\ l \in 0..end /\ k < l /\ ink(k) # {} /\ ink(l) # {}
    BY <1>9, <1>10, <2>1
  <2>3. /\ first[c - 1] = Min(ink(k)) /\ last[c - 1] = Max(ink(k))
        /\ first[c] = Min(ink(l)) /\ last[c] = Max(ink(l))
    BY <2>1
  <2> HIDE DEF k, l, first, last, kept
  <2>4. /\ first[c - 1] \in ink(k) /\ last[c - 1] \in ink(k)
        /\ \A i \in ink(k) : first[c - 1] <= i /\ i <= last[c - 1]
        /\ first[c] \in ink(l) /\ last[c] \in ink(l)
        /\ \A i \in ink(l) : first[c] <= i /\ i <= last[c]
    BY <1>5, <2>2, <2>3
  <2>5. k * step \in Nat /\ l * step \in Nat /\ k * step <= l * step
    <3>1. k \in Nat /\ l \in Nat
      BY <1>3, <2>2
    <3> QED BY <1>1, <2>2, <3>1, RoundsStep
  <2>6. /\ first[c - 1] \in 1..Len(text) /\ last[c - 1] \in 1..Len(text)
        /\ text[last[c - 1]] # Blank
        /\ first[c - 1] <= lo + k * step + size - 1 /\ last[c - 1] <= lo + k * step + size - 1
    BY <1>6, <2>2, <2>4
  <2>7. /\ first[c] \in 1..Len(text) /\ last[c] \in 1..Len(text)
        /\ text[first[c]] # Blank
        /\ lo + l * step <= first[c] /\ lo + l * step <= last[c]
    BY <1>6, <2>2, <2>4
  <2>8. first[c - 1] <= first[c]
    <3>1. CASE first[c] <= lo + k * step + size - 1
      <4>1. lo + k * step <= first[c]
        BY <1>1, <2>5, <2>7
      <4>2. first[c] \in ink(k)
        BY <1>7, <2>2, <2>7, <3>1, <4>1
      <4> QED BY <2>4, <4>2
    <3>2. CASE ~ (first[c] <= lo + k * step + size - 1)
      <4> DEFINE reach == lo + k * step + size - 1
      <4>1. reach \in Int /\ first[c - 1] <= reach /\ ~ (first[c] <= reach)
        BY <2>5, <2>6, <3>2
      <4> HIDE DEF reach
      <4> QED BY <1>1, <2>6, <2>7, <4>1
    <3> QED BY <3>1, <3>2
  <2>9. last[c - 1] <= last[c]
    <3>1. CASE lo + l * step <= last[c - 1]
      <4>1. last[c - 1] <= lo + l * step + size - 1
        BY <1>1, <2>5, <2>6
      <4>2. last[c - 1] \in ink(l)
        BY <1>7, <2>2, <2>6, <3>1, <4>1
      <4> QED BY <2>4, <4>2
    <3>2. CASE ~ (lo + l * step <= last[c - 1])
      <4> DEFINE start == lo + l * step
      <4>1. start \in Int /\ start <= last[c] /\ ~ (start <= last[c - 1])
        BY <2>5, <2>7, <3>2
      <4> HIDE DEF start
      <4> QED BY <1>1, <2>6, <2>7, <4>1
    <3> QED BY <3>1, <3>2
  <2> QED BY <2>8, <2>9
<1>13. ASSUME NEW i \in 1..Len(text), text[i] # Blank
       PROVE  \E c \in 1..n : first[c] <= i /\ i <= last[c]
  <2> DEFINE at == i - lo + 1
  <2>1. lo <= i /\ i <= hi /\ at \in Nat /\ 1 <= at /\ at <= len
    BY <1>1, <1>13 DEF len
  <2> HIDE DEF at
  <2>2. PICK k \in 0..at : /\ at <= k * step + size
                           /\ \A j \in 0..k - 1 : j * step + size < at
                           /\ k > 0 => (k - 1) * step + size < at
    BY <1>1, <2>1, FirstRoundTo
  <2>3. k \in 0..end
    <3>1. CASE k <= end
      BY <1>1, <1>2, <2>1, <2>2, <3>1
    <3>2. CASE k > end
      <4>1. end \in 0..k - 1
        BY <1>1, <1>2, <2>1, <2>2, <3>2
      <4>2. end * step + size < at /\ end * step \in Nat
        BY <1>1, <1>2, <2>2, <4>1, RoundsStep
      <4> QED BY <1>1, <1>2, <2>1, <4>2
    <3>3. k <= end \/ k > end
      BY <1>1, <1>2, <2>1, <2>2
    <3> QED BY <3>1, <3>2, <3>3
  <2>4. k * step < at /\ k * step \in Nat
    <3>1. k \in Nat /\ k * step \in Nat /\ 0 * step = 0
      BY <1>1, <1>3, <2>3, RoundsStep
    <3>2. CASE k = 0
      BY <2>1, <3>1, <3>2
    <3>3. CASE k > 0
      <4>1. k - 1 \in Nat /\ (k - 1) + 1 = k
        BY <3>1, <3>3
      <4>2. (k - 1) * step \in Nat /\ k * step = (k - 1) * step + step
        BY <1>1, <4>1, RoundsStep
      <4> QED BY <1>1, <2>1, <2>2, <3>1, <3>3, <4>2
    <3> QED BY <3>1, <3>2, <3>3
  <2>5. lo + k * step <= i /\ i <= lo + k * step + size - 1
    BY <1>1, <2>1, <2>2, <2>4 DEF at
  <2>6. i \in ink(k)
    BY <1>7, <1>13, <2>3, <2>5
  <2>7. k \in kept
    BY <1>8, <2>3, <2>6
  <2>8. PICK c \in 1..n : InOrder(kept)[c] = k
    BY <1>9, <2>7
  <2>9. first[c] = Min(ink(k)) /\ last[c] = Max(ink(k))
    BY <2>8
  <2> QED BY <1>5, <2>3, <2>6, <2>9
<1>14. [c \in 1..n |-> Chunk(all, size, overlap, InOrder(kept)[c])]
         = [c \in 1..n |-> SubSeq(text, first[c], last[c])]
  <2>1. ASSUME NEW c \in 1..n
        PROVE  Chunk(all, size, overlap, InOrder(kept)[c]) = SubSeq(text, first[c], last[c])
    <3>1. InOrder(kept)[c] \in 0..end /\ ink(InOrder(kept)[c]) # {}
      BY <1>9, <1>10
    <3> QED BY <1>4, <3>1 DEF ink
  <2> HIDE DEF first, last, kept
  <2> QED BY <2>1
<1> HIDE DEF first, last
<1>15. LET chunks == [c \in 1..n |-> SubSeq(text, first[c], last[c])] IN
       chunks \in Seq(Texts) /\ Splits(chunks, text, size)
  <2> HIDE DEF n
  <2> QED BY <1>9, <1>11, <1>12, <1>13, AscendingPartsSplit
<1> QED BY <1>14, <1>15 DEF kept, all, end

\* chunk_documents splits every text, with every setting that it accepts.
THEOREM DocumentsAreSplit ==
  ASSUME NEW text \in Texts, NEW size \in Nat, NEW overlap \in Nat, overlap < size
  PROVE  LET chunks == ChunkDocuments(text, size, overlap) IN
         chunks \in Seq(Texts) /\ Splits(chunks, text, size)
<1> DEFINE ink == InkIn(text, 1, Len(text))
           lo == Min(ink)
           hi == Max(ink)
           all == Strip(text)
           one == [c \in 1..1 |-> lo]
           other == [c \in 1..1 |-> hi]
           kept == {round \in 0..LastRound(Len(all), size, overlap) :
                      Chunk(all, size, overlap, round) # <<>>}
<1>1. Len(text) \in Nat /\ \A i \in 1..Len(text) : text[i] # Blank <=> i \in ink
  BY DEF Texts, InkIn
<1>2. all = IF ink = {} THEN <<>> ELSE SubSeq(text, lo, hi)
  BY StripOfText
<1>3. ChunkDocuments(text, size, overlap) =
        IF all = <<>> THEN <<>>
        ELSE IF Len(all) <= size THEN <<all>>
        ELSE [i \in 1..Cardinality(kept) |-> Chunk(all, size, overlap, InOrder(kept)[i])]
  BY Zenon DEF ChunkDocuments
<1>4. CASE ink = {}
  <2> DEFINE none == [c \in 1..0 |-> 1]
             chunks == [c \in 1..0 |-> SubSeq(text, none[c], none[c])]
  <2>1. none \in [1..0 -> 1..Len(text)]
    BY <1>1
  <2> HIDE DEF none
  <2>2. chunks \in Seq(Texts) /\ Splits(chunks, text, size)
    <3>1. \A c \in 1..0 : FALSE
      OBVIOUS
    <3>2. \A i \in 1..Len(text) : ~ (text[i] # Blank)
      BY <1>1, <1>4
    <3> HIDE DEF ink
    <3> QED BY <2>1, <3>1, <3>2, AscendingPartsSplit
  <2>3. chunks = <<>>
    OBVIOUS
  <2>4. ChunkDocuments(text, size, overlap) = <<>>
    BY <1>2, <1>3, <1>4
  <2> QED BY <2>2, <2>3, <2>4
<1>5. CASE ink # {}
  <2>1. ink \in SUBSET (1..Len(text))
    BY <1>1 DEF InkIn
  <2>2. lo \in ink /\ hi \in ink /\ \A i \in ink : lo <= i /\ i <= hi
    BY <1>1, <1>5, <2>1, EndsOf
  <2>3. all = SubSeq(text, lo, hi)
    BY <1>2, <1>5
  <2> HIDE DEF ink, lo, hi, all
  <2>4. lo \in 1..Len(text) /\ hi \in lo..Len(text)
    BY <1>1, <2>1, <2>2
  <2>5. all \in Texts /\ Len(all) = hi - lo + 1 /\ Len(all) > 0
    BY <1>1, <2>3, <2>4, PartOfText
  <2>6. all # <<>>
    BY <2>5
  <2>7. CASE Len(all) <= size
    <3> DEFINE chunks == [c \in 1..1 |-> SubSeq(text, one[c], other[c])]
    <3>1. /\ one \in [1..1 -> 1..Len(text)] /\ other \in [1..1 -> 1..Len(text)]
          /\ \A c \in 1..1 : one[c] = lo /\ other[c] = hi
      BY <1>1, <2>4
    <3>2. chunks = <<all>>
      BY <2>3, <3>1
    <3>3. \A c \in 1..1 : one[c] <= other[c] /\ other[c] - one[c] + 1 <= size
      BY <1>1, <2>4, <2>5, <2>7, <3>1
    <3>4. \A i \in 1..Len(text) : text[i] # Blank => \E c \in 1..1 : one[c] <= i /\ i <= other[c]
      <4>1. \A i \in 1..Len(text) : text[i] # Blank => lo <= i /\ i <= hi
        BY <1>1, <2>2
      <4>2. 1 \in 1..1
        OBVIOUS
      <4> QED BY <3>1, <4>1, <4>2
    <3> HIDE DEF one, other
    <3>5. chunks \in Seq(Texts) /\ Splits(chunks, text, size)
      <4>1. \A c \in 1..1 \ {1} : one[c - 1] <= one[c] /\ other[c - 1] <= other[c]
        OBVIOUS
      <4>2. 1 \in Nat
        OBVIOUS
      <4>3. one \in [1..1 -> 1..Len(text)] /\ other \in [1..1 -> 1..Len(text)]
        BY <3>1
      <4> QED BY <3>3, <3>4, <4>1, <4>2, <4>3, AscendingPartsSplit, Zenon
    <3>6. ChunkDocuments(text, size, overlap) = <<all>>
      BY <1>3, <2>6, <2>7
    <3> QED BY <3>2, <3>5, <3>6
  <2>8. CASE ~ (Len(all) <= size)
    <3>1. ChunkDocuments(text, size, overlap) =
            [i \in 1..Cardinality(kept) |-> Chunk(all, size, overlap, InOrder(kept)[i])]
      BY <1>3, <2>6, <2>8
    <3>2. size < hi - lo + 1
      BY <1>1, <2>4, <2>5, <2>8
    <3>3. \A i \in 1..Len(text) : text[i] # Blank => lo <= i /\ i <= hi
      BY <1>1, <2>2
    <3>4. LET all_ == SubSeq(text, lo, hi)
              kept_ == {round \in 0..LastRound(Len(all_), size, overlap) :
                          Chunk(all_, size, overlap, round) # <<>>}
              chunks == [i \in 1..Cardinality(kept_) |->
                           Chunk(all_, size, overlap, InOrder(kept_)[i])]
          IN  chunks \in Seq(Texts) /\ Splits(chunks, text, size)
      BY <2>4, <3>2, <3>3, RoundsSplit
    <3> QED BY <2>3, <3>1, <3>4, Zenon
  <2> QED BY <2>7, <2>8
<1> QED BY <1>4, <1>5

=============================================================================
