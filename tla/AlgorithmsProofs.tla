--------------------------- MODULE AlgorithmsProofs ---------------------------
(***************************************************************************)
(* The algorithms, for every value of the constants: chunking for every    *)
(* text, target and overlap, the evaluation for every number of runs,      *)
(* files and questions, the usage roll-up for every number of records, the *)
(* parsers for every Markdown file and every HTML page, the citations of   *)
(* every answer, the fusion of any two rankings.  Each from an inductive   *)
(* invariant of its own.                                                   *)
(***************************************************************************)
EXTENDS MCAlgorithms, Integers, FiniteSetTheorems, WellFoundedInduction, TLAPS

-----------------------------------------------------------------------------
(* The chunker: the inductive invariant. *)

\* Where current and carried begin: at a unit, or they are empty.
Bounds ==
    /\ \A s \in starts : s < pos
    /\ lo < pos => lo \in starts
    /\ lo = pos => size = 0
    /\ pc = "loop" => (hasNew <=> lo < pos) /\ (lo = pos => pos = 1)
    /\ pc \in {"carry", "append"} => pos <= words
    /\ pc = "done" => lo = pos /\ words < pos

\* While units are carried over: the chunk just emitted is still current.
Carrying ==
    pc = "carry" =>
        /\ lo < pos
        /\ lo <= cut
        /\ cut < pos => cut \in starts
        /\ cut = pos => budget = 0
        /\ budget <= Overlap
        /\ chunks # <<>>
        /\ chunks[Len(chunks)] = [first |-> lo, last |-> pos - 1, tokens |-> size]

\* The size of current, before and after a unit is appended.
Sizes ==
    /\ pc \in {"loop", "carry"} => size <= Target + Overlap
    /\ pc = "append" => size <= Overlap \/ size + Tokens(pos) <= Target

\* The last chunk and the place reached in the text.
LastChunk ==
    chunks # <<>> /\ pc # "done" =>
        LET c == chunks[Len(chunks)]
        IN  /\ c.first <= lo /\ (pc # "carry" => c.first < lo)
            /\ lo <= c.last + 1
            /\ IF pc = "loop" THEN c.last < pos - 1
               ELSE IF pc = "append" THEN c.last <= pos - 1
               ELSE c.last = pos - 1
            /\ c.last < words

\* Every word before current is in a chunk.
Covered ==
    \A w \in 1..words : w < lo => \E k \in 1..Len(chunks) : w \in chunks[k].first..chunks[k].last

\* PackedFull, and the same for the last chunk until the text ends.
Packed ==
    \A w \in 1..words : \A k \in 1..Len(chunks) :
        /\ k < Len(chunks) \/ pc # "done"
        /\ w = chunks[k].last + 1
        => chunks[k].tokens + Tokens(w) > Target

\* Every chunk but the last ends before the text does.
Inner == \A k \in 1..(Len(chunks) - 1) : chunks[k].last < words

IInv ==
    /\ TypeOK /\ Bounds /\ Carrying /\ Sizes /\ LastChunk /\ Covered
    /\ ChunkFits /\ Progress /\ Packed /\ Inner

-----------------------------------------------------------------------------
(* Least and greatest numbers. *)

\* A nonempty set of numbers has a least element.
LEMMA LeastNat ==
    ASSUME NEW T \in SUBSET Nat, T # {}
    PROVE  \E x \in T : \A y \in T : x <= y
<1>1. IsWellFoundedOn(OpToRel(<, Nat), Nat)
  BY NatLessThanWellFounded
<1>2. \E x \in T : \A y \in T : ~(<<y, x>> \in OpToRel(<, Nat))
  BY <1>1, WFMin, Zenon
<1>3. PICK x \in T : \A y \in T : ~(<<y, x>> \in OpToRel(<, Nat))
  BY <1>2
<1>4. ASSUME NEW y \in T PROVE x <= y
  <2>1. ~(y < x)
    BY <1>3 DEF OpToRel
  <2>. QED BY <2>1
<1>. QED BY <1>4

\* A set of numbers with elements below w has a greatest one below w.
LEMMA GreatestBelow ==
    ASSUME NEW T \in SUBSET Nat, NEW w \in Nat, \E s \in T : s < w
    PROVE  \E x \in T : x < w /\ \A y \in T : y < w => y <= x
<1>. DEFINE D == {w - y : y \in {s \in T : s < w}}
<1>1. D \in SUBSET Nat /\ D # {}
  OBVIOUS
<1>2. PICK d \in D : \A e \in D : d <= e
  <2>. HIDE DEF D
  <2>. QED BY <1>1, LeastNat
<1>3. PICK x \in T : x < w /\ d = w - x
  OBVIOUS
<1>4. ASSUME NEW y \in T, y < w PROVE y <= x
  <2>1. w - y \in D
    BY <1>4
  <2>2. d <= w - y
    <3>. HIDE DEF D
    <3>. QED BY <1>2, <2>1
  <2>. QED BY <2>2, <1>3
<1>. QED BY <1>3, <1>4

-----------------------------------------------------------------------------
(* Units. *)

\* A piece of Step words fits in a chunk.
LEMMA EstimateFits ==
    ASSUME NEW k \in Nat, k >= 1
    PROVE  /\ Estimate(k) \in Nat
           /\ k <= Step => Estimate(k) <= Target
  BY ChunkingAssumption DEF Estimate, Step

\* A word's sentence ends in the text, no earlier than the word.
LEMMA SentenceEnds ==
    ASSUME TypeOK, NEW w \in 1..words
    PROVE  SentenceEnd(w) \in w..words
<1>. DEFINE T == {e \in ends : e >= w}
<1>0. words \in Nat /\ ends \subseteq 1..words /\ words \in ends
  BY ChunkingAssumption DEF TypeOK
<1>1. T \in SUBSET Nat /\ T # {}
  <2>1. words \in T
    BY <1>0
  <2>2. \A e \in T : e \in Nat
    BY <1>0
  <2>. HIDE DEF T
  <2>. QED BY <2>1, <2>2
<1>2. PICK x \in T : \A y \in T : x <= y
  <2>. HIDE DEF T
  <2>. QED BY <1>1, LeastNat
<1>3. \E e \in ends : e >= w /\ \A f \in ends : f >= w => e <= f
  BY <1>2
<1>4. SentenceEnd(w) \in ends /\ SentenceEnd(w) >= w
  BY <1>3 DEF SentenceEnd
<1>5. SentenceEnd(w) \in 1..words
  BY <1>0, <1>4
<1>. QED BY <1>0, <1>4, <1>5

\* A unit lies in the text and fits in a chunk.
LEMMA UnitFits ==
    ASSUME TypeOK, NEW w \in 1..words
    PROVE  /\ UnitEnd(w) \in w..words
           /\ Tokens(w) \in 0..Target
<1>1. SentenceEnd(w) \in w..words
  BY SentenceEnds
<1>2. Step \in Nat /\ Step >= 1
  BY ChunkingAssumption DEF Step
<1>3. words \in Nat
  BY ChunkingAssumption DEF TypeOK
<1>4. UnitEnd(w) \in w..words
  BY <1>1, <1>2, <1>3 DEF UnitEnd
<1>5. Tokens(w) \in Nat
  BY <1>4, <1>3, EstimateFits DEF Tokens
<1>6. Tokens(w) <= Target
  <2>. DEFINE e == SentenceEnd(w)
  <2>1. CASE BeginsSentence(w) /\ Estimate(e - w + 1) <= Target
    BY <2>1 DEF Tokens, UnitEnd
  <2>2. CASE ~(BeginsSentence(w) /\ Estimate(e - w + 1) <= Target)
    <3>1. UnitEnd(w) - w + 1 <= Step
      BY <2>2, <1>1, <1>2, <1>3 DEF UnitEnd
    <3>. QED BY <3>1, <1>4, <1>3, EstimateFits DEF Tokens
  <2>. QED BY <2>1, <2>2
<1>. QED BY <1>4, <1>5, <1>6

\* The unit before one that begins after lo begins at lo or later.
LEMMA PreviousUnit ==
    ASSUME TypeOK, lo \in starts, NEW w \in Nat, lo < w
    PROVE  Previous(w) \in starts /\ lo <= Previous(w) /\ Previous(w) < w
<1>1. starts \in SUBSET Nat
  BY ChunkingAssumption DEF TypeOK
<1>2. \E x \in starts : x < w /\ \A y \in starts : y < w => y <= x
  BY <1>1, GreatestBelow
<1>. QED BY <1>2 DEF Previous

-----------------------------------------------------------------------------
(* The steps. *)

\* What depends on the document alone does not change.
LEMMA DocumentFixed ==
    ASSUME UNCHANGED document
    PROVE  /\ words' = words /\ ends' = ends
           /\ \A w : Tokens(w)' = Tokens(w)
  BY DEF document, Tokens, UnitEnd, SentenceEnd, BeginsSentence

\* A chunk that goes on where the last one ended may be emitted.
LEMMA EmitKeeps ==
    ASSUME chunks \in Seq(Chunks), words' = words, ChunkFits, Progress, Inner,
           NEW c \in Chunks, c.tokens <= Target + Overlap,
           chunks # <<>> =>
               /\ chunks[Len(chunks)].first < c.first
               /\ chunks[Len(chunks)].last  < c.last
               /\ c.first <= chunks[Len(chunks)].last + 1
               /\ chunks[Len(chunks)].last < words,
           chunks' = Append(chunks, c)
    PROVE  /\ chunks' \in Seq(Chunks)
           /\ chunks' # <<>> /\ chunks'[Len(chunks')] = c
           /\ ChunkFits' /\ Progress' /\ Inner'
<1>. DEFINE n == Len(chunks)
<1>1. n \in Nat /\ Len(chunks') = n + 1 /\ chunks' \in Seq(Chunks)
  OBVIOUS
<1>2. \A k \in 1..n : chunks'[k] = chunks[k]
  OBVIOUS
<1>3. chunks'[n + 1] = c
  OBVIOUS
<1>4. chunks' # <<>> /\ chunks'[Len(chunks')] = c
  BY <1>1, <1>3
<1>5. n > 0 => chunks # <<>>
  OBVIOUS
<1>. HIDE DEF n
<1>6. ChunkFits'
  <2>. SUFFICES ASSUME NEW k \in 1..(n + 1) PROVE chunks'[k].tokens <= Target + Overlap
    BY <1>1 DEF ChunkFits
  <2>1. CASE k = n + 1
    BY <2>1, <1>3
  <2>2. CASE k # n + 1
    BY <2>2, <1>1, <1>2 DEF ChunkFits, n
  <2>. QED BY <2>1, <2>2
<1>7. Progress'
  <2>. SUFFICES ASSUME NEW k \in 1..n
                PROVE  /\ chunks'[k].first < chunks'[k + 1].first
                       /\ chunks'[k].last  < chunks'[k + 1].last
                       /\ chunks'[k + 1].first <= chunks'[k].last + 1
    BY <1>1 DEF Progress
  <2>1. CASE k = n
    BY <2>1, <1>1, <1>2, <1>3, <1>5 DEF n
  <2>2. CASE k # n
    <3>1. k \in 1..(n - 1) /\ k + 1 \in 1..n
      BY <2>2, <1>1
    <3>. QED BY <3>1, <1>1, <1>2 DEF Progress, n
  <2>. QED BY <2>1, <2>2
<1>8. Inner'
  <2>. SUFFICES ASSUME NEW k \in 1..n PROVE chunks'[k].last < words
    BY <1>1 DEF Inner
  <2>1. CASE k = n
    BY <2>1, <1>1, <1>2, <1>5 DEF n
  <2>2. CASE k # n
    BY <2>2, <1>1, <1>2 DEF Inner, n
  <2>. QED BY <2>1, <2>2
<1>. QED BY <1>1, <1>4, <1>6, <1>7, <1>8

\* The words of an emitted chunk are covered, and those covered before still are.
LEMMA EmitCovers ==
    ASSUME chunks \in Seq(Chunks), words' = words, Covered,
           lo \in Nat, pos \in Nat,
           chunks' = Append(chunks, Chunk)
    PROVE  \A w \in 1..words : w < pos =>
               \E k \in 1..Len(chunks') : w \in chunks'[k].first..chunks'[k].last
<1>. DEFINE n == Len(chunks)
<1>1. n \in Nat /\ Len(chunks') = n + 1
  OBVIOUS
<1>2. \A k \in 1..n : chunks'[k] = chunks[k]
  OBVIOUS
<1>3. chunks'[n + 1].first = lo /\ chunks'[n + 1].last = pos - 1
  BY DEF Chunk
<1>. SUFFICES ASSUME NEW w \in 1..words, w < pos
              PROVE  \E k \in 1..(n + 1) : w \in chunks'[k].first..chunks'[k].last
  BY <1>1
<1>4. w \in Int
  OBVIOUS
<1>5. CASE w < lo
  <2>1. PICK k \in 1..n : w \in chunks[k].first..chunks[k].last
    BY <1>5 DEF Covered
  <2>2. k \in 1..(n + 1) /\ chunks'[k] = chunks[k]
    BY <1>1, <1>2
  <2>. QED BY <2>1, <2>2
<1>6. CASE ~(w < lo)
  <2>1. w \in chunks'[n + 1].first..chunks'[n + 1].last
    BY <1>3, <1>4, <1>6
  <2>. QED BY <2>1, <1>1
<1>. QED BY <1>5, <1>6

\* Reading a unit: it is appended, or the chunk is emitted first.
LEMMA ReadKeeps == IInv /\ Read => IInv'
<1>. SUFFICES ASSUME IInv, Read PROVE IInv'
  OBVIOUS
<1>1. /\ words' = words /\ ends' = ends
      /\ \A w : Tokens(w)' = Tokens(w)
  BY DocumentFixed DEF Read
<1>2. /\ words \in Nat /\ pos \in 1..words /\ lo \in Nat /\ lo <= pos
      /\ size \in Nat /\ chunks \in Seq(Chunks)
      /\ pc = "loop"
  BY ChunkingAssumption DEF IInv, TypeOK, Read
<1>3. Tokens(pos) \in 0..Target
  BY <1>2, UnitFits DEF IInv
<1>4. UNCHANGED <<pos, starts, lo, size, hasNew>>
  BY DEF Read
<1>5. CASE Full
  <2>1. /\ lo < pos /\ size + Tokens(pos) > Target
        /\ chunks' = Append(chunks, Chunk)
        /\ cut' = pos /\ budget' = 0 /\ pc' = "carry"
    BY <1>5 DEF Full, Read
  <2>2. Chunk \in Chunks /\ Chunk.tokens <= Target + Overlap
    BY <1>2 DEF Chunk, Chunks, IInv, Sizes
  <2>3. chunks # <<>> =>
            /\ chunks[Len(chunks)].first < Chunk.first
            /\ chunks[Len(chunks)].last  < Chunk.last
            /\ Chunk.first <= chunks[Len(chunks)].last + 1
            /\ chunks[Len(chunks)].last < words
    BY <1>2 DEF Chunk, IInv, LastChunk
  <2>4. /\ chunks' \in Seq(Chunks)
        /\ chunks' # <<>> /\ chunks'[Len(chunks')] = Chunk
        /\ ChunkFits' /\ Progress' /\ Inner'
    BY <1>1, <1>2, <2>1, <2>2, <2>3, EmitKeeps DEF IInv
  <2>5. TypeOK'
    BY <1>1, <1>2, <1>4, <2>1, <2>4 DEF IInv, TypeOK
  <2>6. Bounds' /\ Sizes'
    BY <1>1, <1>2, <1>4, <2>1 DEF IInv, Bounds, Sizes
  <2>7. Carrying'
    BY <1>2, <1>4, <2>1, <2>4, ChunkingAssumption DEF Carrying, Chunk
  <2>8. LastChunk'
    BY <1>1, <1>2, <1>4, <2>1, <2>4 DEF LastChunk, Chunk
  <2>9. Covered'
    <3>1. \A w \in 1..words : w < pos =>
              \E k \in 1..Len(chunks') : w \in chunks'[k].first..chunks'[k].last
      BY <1>1, <1>2, <2>1, EmitCovers DEF IInv
    <3>2. \A w \in 1..words : w < lo => w < pos
      BY <1>2
    <3>. QED BY <3>1, <3>2, <1>1, <1>4 DEF Covered
  <2>10. Packed'
    <3>1. SUFFICES ASSUME NEW w \in 1..words, NEW k \in 1..Len(chunks'),
                          w = chunks'[k].last + 1
                   PROVE  chunks'[k].tokens + Tokens(w) > Target
      BY <1>1 DEF Packed
    <3>2. CASE k = Len(chunks')
      <4>1. w = pos /\ chunks'[k].tokens = size
        BY <3>1, <3>2, <2>4, <1>2 DEF Chunk
      <4>. QED BY <4>1, <2>1
    <3>3. CASE k # Len(chunks')
      <4>1. k \in 1..Len(chunks) /\ chunks'[k] = chunks[k]
        BY <3>1, <3>3, <2>1, <1>2
      <4>. QED BY <4>1, <3>1, <1>2 DEF IInv, Packed
    <3>. QED BY <3>2, <3>3
  <2>. QED BY <2>4, <2>5, <2>6, <2>7, <2>8, <2>9, <2>10 DEF IInv
<1>6. CASE ~Full
  <2>1. pc' = "append" /\ UNCHANGED <<cut, budget, chunks>>
    BY <1>6 DEF Read
  <2>2. lo = pos \/ size + Tokens(pos) <= Target
    BY <1>6, <1>2, <1>3, ChunkingAssumption DEF Full
  <2>3. TypeOK'
    BY <1>1, <1>4, <2>1 DEF IInv, TypeOK
  <2>4. Bounds' /\ Carrying'
    BY <1>1, <1>2, <1>4, <2>1 DEF IInv, Bounds, Carrying
  <2>5. Sizes'
    <3>1. size <= Overlap \/ size + Tokens(pos) <= Target
      BY <2>2, ChunkingAssumption DEF IInv, Bounds
    <3>. QED BY <3>1, <2>1, <1>1, <1>4 DEF Sizes
  <2>6. LastChunk'
    <3>1. chunks # <<>> => chunks[Len(chunks)] \in Chunks
      BY <1>2
    <3>. QED BY <3>1, <1>1, <1>2, <1>4, <2>1 DEF IInv, LastChunk, Chunks
  <2>7. Covered' /\ ChunkFits' /\ Progress' /\ Inner'
    BY <1>1, <1>4, <2>1 DEF IInv, Covered, ChunkFits, Progress, Inner
  <2>8. Packed'
    BY <1>1, <1>2, <2>1 DEF IInv, Packed
  <2>. QED BY <2>3, <2>4, <2>5, <2>6, <2>7, <2>8 DEF IInv
<1>. QED BY <1>5, <1>6

\* Carrying another unit: carried still begins inside current, within the overlap.
LEMMA CarryKeeps == IInv /\ CarryUnit => IInv'
<1>. SUFFICES ASSUME IInv, CarryUnit PROVE IInv'
  OBVIOUS
<1>1. /\ words' = words /\ ends' = ends
      /\ \A w : Tokens(w)' = Tokens(w)
  BY DocumentFixed DEF CarryUnit
<1>2. /\ words \in Nat /\ pos \in Nat /\ lo \in Nat /\ cut \in 1..pos
      /\ starts \subseteq 1..words /\ chunks \in Seq(Chunks)
      /\ budget \in Nat /\ pc = "carry" /\ lo \in starts /\ lo < cut
      /\ \A s \in starts : s < pos
  BY ChunkingAssumption DEF IInv, TypeOK, Bounds, Carrying, CarryUnit, CarriesAnother
<1>3. UNCHANGED <<pc, pos, starts, lo, size, hasNew, chunks>>
  BY DEF CarryUnit
<1>4. cut' = Previous(cut) /\ cut' \in starts /\ lo <= cut' /\ cut' < cut
  BY <1>2, PreviousUnit DEF CarryUnit, IInv
<1>5. cut' \in Nat
  BY <1>2, <1>4
<1>6. budget' \in Nat /\ budget' <= Overlap
  <2>1. Estimate(cut - Previous(cut)) \in Nat
    BY <1>2, <1>4, <1>5, EstimateFits
  <2>. QED BY <2>1, <1>2 DEF CarryUnit, CarriesAnother
<1>7. TypeOK'
  BY <1>1, <1>2, <1>3, <1>4, <1>5, <1>6 DEF IInv, TypeOK
<1>8. Bounds' /\ Sizes'
  BY <1>1, <1>3 DEF IInv, Bounds, Sizes
<1>9. Carrying'
  BY <1>2, <1>3, <1>4, <1>5, <1>6 DEF IInv, Carrying
<1>10. LastChunk' /\ Covered' /\ ChunkFits' /\ Progress' /\ Inner'
  BY <1>1, <1>3 DEF IInv, LastChunk, Covered, ChunkFits, Progress, Inner
<1>11. Packed'
  BY <1>1, <1>2, <1>3 DEF IInv, Packed
<1>. QED BY <1>7, <1>8, <1>9, <1>10, <1>11 DEF IInv

\* The overlap is complete: current is what was carried, and begins after the chunk.
LEMMA EndCarryKeeps == IInv /\ EndCarry => IInv'
<1>. SUFFICES ASSUME IInv, EndCarry PROVE IInv'
  OBVIOUS
<1>1. /\ words' = words /\ ends' = ends
      /\ \A w : Tokens(w)' = Tokens(w)
  BY DocumentFixed DEF EndCarry
<1>2. /\ words \in Nat /\ pos \in 1..words /\ lo \in Nat /\ cut \in 1..pos
      /\ starts \subseteq 1..words /\ chunks \in Seq(Chunks)
      /\ budget \in Nat /\ pc = "carry" /\ lo < pos /\ lo <= cut
  BY ChunkingAssumption DEF IInv, TypeOK, Bounds, Carrying, EndCarry
<1>3. /\ UNCHANGED <<pos, starts, cut, budget, chunks>>
      /\ pc' = "append" /\ hasNew' = FALSE
  BY DEF EndCarry
<1>4. /\ lo' \in Nat /\ lo < lo' /\ lo' <= pos
      /\ size' \in Nat /\ size' <= Overlap
      /\ lo' < pos => lo' \in starts
      /\ lo' = pos => size' = 0
  BY <1>2, ChunkingAssumption DEF EndCarry, IInv, Carrying
<1>5. chunks # <<>> /\ chunks[Len(chunks)] = [first |-> lo, last |-> pos - 1, tokens |-> size]
  BY <1>2 DEF IInv, Carrying
<1>6. TypeOK'
  <2>1. lo' \in 1..pos
    BY <1>2, <1>4
  <2>2. hasNew' \in BOOLEAN
    BY <1>3
  <2>. QED BY <2>1, <2>2, <1>1, <1>2, <1>3, <1>4 DEF IInv, TypeOK
<1>7. Bounds' /\ Carrying' /\ Sizes'
  BY <1>1, <1>2, <1>3, <1>4 DEF IInv, Bounds, Carrying, Sizes
<1>8. LastChunk'
  BY <1>1, <1>2, <1>3, <1>4, <1>5 DEF LastChunk
<1>9. Covered'
  <2>. SUFFICES ASSUME NEW w \in 1..words, w < lo'
                PROVE  \E k \in 1..Len(chunks) : w \in chunks[k].first..chunks[k].last
    BY <1>1, <1>3 DEF Covered
  <2>1. w \in Int
    OBVIOUS
  <2>2. CASE w < lo
    BY <2>2 DEF IInv, Covered
  <2>3. CASE ~(w < lo)
    <3>1. w \in chunks[Len(chunks)].first..chunks[Len(chunks)].last
      BY <1>2, <1>4, <1>5, <2>1, <2>3
    <3>2. Len(chunks) \in 1..Len(chunks)
      BY <1>2, <1>5
    <3>. QED BY <3>1, <3>2
  <2>. QED BY <2>2, <2>3
<1>10. ChunkFits' /\ Progress' /\ Inner'
  BY <1>1, <1>3 DEF IInv, ChunkFits, Progress, Inner
<1>11. Packed'
  BY <1>1, <1>2, <1>3 DEF IInv, Packed
<1>. QED BY <1>6, <1>7, <1>8, <1>9, <1>10, <1>11 DEF IInv

\* Appending a unit: what was carried and a unit exceed the target by no more than the
\* overlap.
LEMMA AppendKeeps == IInv /\ AppendUnit => IInv'
<1>. SUFFICES ASSUME IInv, AppendUnit PROVE IInv'
  OBVIOUS
<1>1. /\ words' = words /\ ends' = ends
      /\ \A w : Tokens(w)' = Tokens(w)
  BY DocumentFixed DEF AppendUnit
<1>2. /\ words \in Nat /\ pos \in 1..words /\ lo \in 1..pos
      /\ starts \subseteq 1..words /\ chunks \in Seq(Chunks)
      /\ size \in Nat /\ pc = "append"
  BY ChunkingAssumption DEF IInv, TypeOK, Bounds, AppendUnit
<1>3. UnitEnd(pos) \in pos..words /\ Tokens(pos) \in 0..Target
  BY <1>2, UnitFits DEF IInv
<1>4. /\ UNCHANGED <<lo, cut, budget, chunks>>
      /\ pc' = "loop" /\ hasNew' = TRUE
      /\ starts' = starts \cup {pos}
      /\ size' = size + Tokens(pos)
      /\ pos' = UnitEnd(pos) + 1
  BY DEF AppendUnit
<1>5. pos' \in 1..(words + 1) /\ pos < pos'
  BY <1>2, <1>3, <1>4
<1>6. size' \in Nat /\ size' <= Target + Overlap
  BY <1>2, <1>3, <1>4, ChunkingAssumption DEF IInv, Sizes
<1>7. TypeOK'
  <2>1. lo' \in 1..pos' /\ cut' \in 1..pos'
    BY <1>2, <1>4, <1>5 DEF IInv, TypeOK
  <2>2. starts' \subseteq 1..words'
    BY <1>1, <1>2, <1>4
  <2>. QED BY <2>1, <2>2, <1>1, <1>2, <1>4, <1>5, <1>6 DEF IInv, TypeOK
<1>8. Bounds'
  <2>1. \A s \in starts' : s < pos'
    BY <1>2, <1>4, <1>5 DEF IInv, Bounds
  <2>2. lo \in starts'
    BY <1>2, <1>4 DEF IInv, Bounds
  <2>. QED BY <2>1, <2>2, <1>2, <1>4, <1>5 DEF Bounds
<1>9. Carrying' /\ Sizes'
  BY <1>4, <1>6 DEF Carrying, Sizes
<1>10. LastChunk'
  <2>. DEFINE c == chunks[Len(chunks)]
  <2>1. /\ chunks' = chunks /\ lo' = lo /\ words' = words
        /\ pos' >= pos + 1 /\ pc' = "loop"
    BY <1>1, <1>2, <1>4, <1>5
  <2>2. ASSUME chunks # <<>>
        PROVE  c.first < lo /\ lo <= c.last + 1 /\ c.last < pos' - 1 /\ c.last < words
    <3>1. c \in Chunks
      BY <1>2, <2>2
    <3>2. c.first \in Nat /\ c.last \in Nat
      BY <3>1 DEF Chunks
    <3>3. /\ c.first < lo /\ lo <= c.last + 1
          /\ c.last <= pos - 1 /\ c.last < words
      BY <1>2, <2>2 DEF IInv, LastChunk
    <3>. QED BY <1>2, <1>5, <2>1, <3>2, <3>3
  <2>. QED
    <3>. HIDE DEF c
    <3>1. (chunks[Len(chunks)])' = c
      BY <2>1 DEF c
    <3>2. ASSUME chunks # <<>>
          PROVE  c.first <= lo /\ c.first < lo
      <4>1. c \in Chunks
        BY <1>2, <3>2 DEF c
      <4>. QED BY <1>2, <2>2, <3>2, <4>1 DEF Chunks
    <3>. QED BY <2>1, <2>2, <3>1, <3>2 DEF LastChunk
<1>11. Covered' /\ ChunkFits' /\ Progress' /\ Inner'
  BY <1>1, <1>4 DEF IInv, Covered, ChunkFits, Progress, Inner
<1>12. Packed'
  BY <1>1, <1>2, <1>4 DEF IInv, Packed
<1>. QED BY <1>7, <1>8, <1>9, <1>10, <1>11, <1>12 DEF IInv

\* The end of the text: what is left is emitted.
LEMMA FinishKeeps == IInv /\ Finish => IInv'
<1>. SUFFICES ASSUME IInv, Finish PROVE IInv'
  OBVIOUS
<1>1. /\ words' = words /\ ends' = ends
      /\ \A w : Tokens(w)' = Tokens(w)
  BY DocumentFixed DEF Finish
<1>2. /\ words \in Nat /\ pos \in Nat /\ lo \in 1..pos /\ words < pos
      /\ size \in Nat /\ chunks \in Seq(Chunks)
      /\ pc = "loop" /\ (hasNew <=> lo < pos)
  BY ChunkingAssumption DEF IInv, TypeOK, Bounds, Finish
<1>3. pc' = "done" /\ UNCHANGED <<pos, starts, cut, budget>>
  BY DEF Finish
<1>4. CASE hasNew
  <2>1. /\ lo < pos /\ chunks' = Append(chunks, Chunk)
        /\ lo' = pos /\ size' = 0 /\ hasNew' = FALSE
    BY <1>2, <1>4 DEF Finish
  <2>2. Chunk \in Chunks /\ Chunk.tokens <= Target + Overlap
    BY <1>2 DEF Chunk, Chunks, IInv, Sizes
  <2>3. chunks # <<>> =>
            /\ chunks[Len(chunks)].first < Chunk.first
            /\ chunks[Len(chunks)].last  < Chunk.last
            /\ Chunk.first <= chunks[Len(chunks)].last + 1
            /\ chunks[Len(chunks)].last < words
    BY <1>2 DEF Chunk, IInv, LastChunk
  <2>4. /\ chunks' \in Seq(Chunks)
        /\ chunks' # <<>> /\ chunks'[Len(chunks')] = Chunk
        /\ ChunkFits' /\ Progress' /\ Inner'
    BY <1>1, <1>2, <2>1, <2>2, <2>3, EmitKeeps DEF IInv
  <2>5. TypeOK'
    <3>1. lo' \in 1..pos /\ size' \in Nat
      BY <1>2, <2>1
    <3>2. hasNew' \in BOOLEAN
      BY <2>1
    <3>. QED BY <3>1, <3>2, <1>1, <1>2, <1>3, <2>4 DEF IInv, TypeOK
  <2>6. Bounds' /\ Carrying' /\ Sizes' /\ LastChunk'
    <3>1. Bounds' /\ Carrying'
      BY <1>1, <1>2, <1>3, <2>1 DEF IInv, Bounds, Carrying
    <3>2. Sizes'
      BY <1>1, <1>2, <1>3, <2>1 DEF IInv, Sizes
    <3>3. LastChunk'
      BY <1>1, <1>2, <1>3, <2>1 DEF IInv, LastChunk
    <3>. QED BY <3>1, <3>2, <3>3
  <2>7. Covered'
    <3>1. \A w \in 1..words : w < pos =>
              \E k \in 1..Len(chunks') : w \in chunks'[k].first..chunks'[k].last
      BY <1>1, <1>2, <2>1, EmitCovers DEF IInv
    <3>. QED BY <3>1, <2>1, <1>1 DEF Covered
  <2>8. Packed'
    <3>1. SUFFICES ASSUME NEW w \in 1..words, NEW k \in 1..Len(chunks'), k < Len(chunks'),
                          w = chunks'[k].last + 1
                   PROVE  chunks'[k].tokens + Tokens(w) > Target
      BY <1>1, <1>3 DEF Packed
    <3>2. k \in 1..Len(chunks) /\ chunks'[k] = chunks[k]
      BY <3>1, <2>1, <1>2
    <3>. QED BY <3>1, <3>2, <1>2 DEF IInv, Packed
  <2>. QED BY <2>4, <2>5, <2>6, <2>7, <2>8 DEF IInv
<1>5. CASE ~hasNew
  <2>1. lo = pos /\ UNCHANGED <<lo, size, hasNew, chunks>>
    BY <1>2, <1>5 DEF Finish
  <2>2. TypeOK'
    BY <1>1, <1>3, <2>1 DEF IInv, TypeOK
  <2>3. Bounds' /\ Carrying' /\ Sizes' /\ LastChunk'
    BY <1>1, <1>2, <1>3, <2>1 DEF IInv, Bounds, Carrying, Sizes, LastChunk
  <2>4. Covered' /\ ChunkFits' /\ Progress' /\ Inner'
    BY <1>1, <2>1 DEF IInv, Covered, ChunkFits, Progress, Inner
  <2>5. Packed'
    BY <1>1, <1>2, <1>3, <2>1 DEF IInv, Packed
  <2>. QED BY <2>2, <2>3, <2>4, <2>5 DEF IInv
<1>. QED BY <1>4, <1>5

-----------------------------------------------------------------------------
\* The chunker keeps its inductive invariant.
THEOREM Invariance == Spec => []IInv
<1>1. Init => IInv
  <2>. SUFFICES ASSUME Init PROVE IInv
    OBVIOUS
  <2>1. words \in Nat /\ words \in 0..MaxWords /\ Len(chunks) = 0
    BY ChunkingAssumption DEF Init
  <2>2. TypeOK
    <3>1. pos \in 1..(words + 1) /\ lo \in 1..pos /\ cut \in 1..pos
      BY <2>1 DEF Init
    <3>2. ends \subseteq 1..words /\ (words > 0 => words \in ends)
      BY DEF Init
    <3>3. chunks \in Seq(Chunks)
      BY DEF Init
    <3>. QED BY <2>1, <3>1, <3>2, <3>3 DEF Init, TypeOK
  <2>3. Bounds /\ Carrying /\ Sizes /\ LastChunk
    BY <2>1, ChunkingAssumption DEF Init, Bounds, Carrying, Sizes, LastChunk
  <2>4. Covered /\ ChunkFits /\ Progress /\ Packed /\ Inner
    BY <2>1 DEF Init, Covered, ChunkFits, Progress, Packed, Inner
  <2>. QED BY <2>2, <2>3, <2>4 DEF IInv
<1>2. IInv /\ [Next]_vars => IInv'
  <2>. SUFFICES ASSUME IInv, [Next]_vars PROVE IInv'
    OBVIOUS
  <2>1. CASE Next
    BY <2>1, ReadKeeps, CarryKeeps, EndCarryKeeps, AppendKeeps, FinishKeeps DEF Next
  <2>2. CASE UNCHANGED vars
    <3>1. /\ words' = words /\ ends' = ends
          /\ \A w : Tokens(w)' = Tokens(w)
      BY <2>2, DocumentFixed DEF vars
    <3>2. UNCHANGED <<pc, pos, starts, lo, size, hasNew, cut, budget, chunks>>
      BY <2>2 DEF vars
    <3>3. TypeOK' /\ Bounds' /\ Carrying' /\ LastChunk'
      BY <3>1, <3>2 DEF IInv, TypeOK, Bounds, Carrying, LastChunk
    <3>4. Sizes' /\ Covered' /\ ChunkFits' /\ Progress' /\ Inner'
      <4>1. Sizes'
        BY <3>1, <3>2, ChunkingAssumption DEF IInv, TypeOK, Bounds, Sizes
      <4>. QED BY <4>1, <3>1, <3>2 DEF IInv, Covered, ChunkFits, Progress, Inner
    <3>5. Packed'
      <4>1. words \in Nat /\ chunks \in Seq(Chunks)
        BY ChunkingAssumption DEF IInv, TypeOK
      <4>. QED BY <4>1, <3>1, <3>2 DEF IInv, Packed
    <3>. QED BY <3>3, <3>4, <3>5 DEF IInv
  <2>. QED BY <2>1, <2>2
<1>. QED BY <1>1, <1>2, PTL DEF Spec

\* Type correctness of the chunker.
THEOREM TypeCorrect == Spec => []TypeOK
<1>1. IInv => TypeOK
  BY DEF IInv
<1>. QED BY <1>1, Invariance, PTL

\* No chunk exceeds the target by more than the overlap, for any target, overlap and text.
THEOREM ChunksFit == Spec => []ChunkFits
<1>1. IInv => ChunkFits
  BY DEF IInv
<1>. QED BY <1>1, Invariance, PTL

\* No word of any text is lost.
THEOREM Complete == Spec => []NothingLost
<1>1. IInv => NothingLost
  <2>. SUFFICES ASSUME IInv, pc = "done", NEW w \in 1..words
                PROVE  \E k \in 1..Len(chunks) : w \in chunks[k].first..chunks[k].last
    BY DEF NothingLost
  <2>1. words \in Nat /\ lo \in Nat /\ words < lo
    BY ChunkingAssumption DEF IInv, TypeOK, Bounds
  <2>2. w < lo
    BY <2>1
  <2>. QED BY <2>2 DEF IInv, Covered
<1>. QED BY <1>1, Invariance, PTL

\* The chunks of any text move forward, without gaps.
THEOREM MovesForward == Spec => []Progress
<1>1. IInv => Progress
  BY DEF IInv
<1>. QED BY <1>1, Invariance, PTL

\* No chunk of any text is closed while the next unit fits.
THEOREM PacksGreedily == Spec => []PackedFull
<1>1. IInv => PackedFull
  <2>. SUFFICES ASSUME IInv, NEW k \in 1..(Len(chunks) - 1)
                PROVE  chunks[k].tokens + Tokens(chunks[k].last + 1) > Target
    BY DEF PackedFull
  <2>1. words \in Nat /\ chunks \in Seq(Chunks)
    BY ChunkingAssumption DEF IInv, TypeOK
  <2>2. k \in 1..Len(chunks) /\ k < Len(chunks) /\ chunks[k] \in Chunks
    BY <2>1
  <2>3. chunks[k].last \in Nat /\ chunks[k].last < words
    BY <2>2 DEF IInv, Inner, Chunks
  <2>4. chunks[k].last + 1 \in 1..words
    BY <2>1, <2>3
  <2>. QED BY <2>2, <2>4 DEF IInv, Packed
<1>. QED BY <1>1, Invariance, PTL

-----------------------------------------------------------------------------
(* Sentences are not split. *)

\* No sentence that fits in a chunk lies on both sides of the place before word p.
Clean(p) ==
    \A w \in 1..words : BeginsSentence(w) /\ Whole(w) => w >= p \/ SentenceEnd(w) < p

\* The text is cut at clean places only: between units, hence between chunks.
CleanCuts ==
    /\ Clean(pos)
    /\ \A s \in starts : Clean(s)
    /\ \A k \in 1..Len(chunks) : Clean(chunks[k].first) /\ Clean(chunks[k].last + 1)

\* The end of a word's sentence is the first one from the word on.
LEMMA SentenceEndIs ==
    ASSUME TypeOK, NEW w \in 1..words
    PROVE  /\ SentenceEnd(w) \in ends /\ SentenceEnd(w) >= w
           /\ \A f \in ends : f >= w => SentenceEnd(w) <= f
<1>. DEFINE T == {e \in ends : e >= w}
<1>0. words \in Nat /\ ends \subseteq 1..words /\ words \in ends
  BY ChunkingAssumption DEF TypeOK
<1>1. T \in SUBSET Nat /\ T # {}
  <2>1. words \in T
    BY <1>0
  <2>2. \A e \in T : e \in Nat
    BY <1>0
  <2>. HIDE DEF T
  <2>. QED BY <2>1, <2>2
<1>2. PICK x \in T : \A y \in T : x <= y
  <2>. HIDE DEF T
  <2>. QED BY <1>1, LeastNat
<1>3. \E e \in ends : e >= w /\ \A f \in ends : f >= w => e <= f
  BY <1>2
<1>. QED BY <1>3 DEF SentenceEnd

\* After a unit that begins at a clean place comes a clean place.
LEMMA UnitEndsClean ==
    ASSUME TypeOK, NEW p \in 1..words, Clean(p)
    PROVE  Clean(UnitEnd(p) + 1)
<1>. DEFINE e == SentenceEnd(p)
<1>1. words \in Nat /\ e \in p..words /\ UnitEnd(p) \in p..words
  <2>1. words \in Nat
    BY ChunkingAssumption DEF TypeOK
  <2>2. e \in p..words
    BY SentenceEnds
  <2>3. UnitEnd(p) \in p..words
    BY UnitFits
  <2>. QED BY <2>1, <2>2, <2>3
<1>2. UnitEnd(p) <= e
  <2>1. Step \in Nat
    BY ChunkingAssumption DEF Step
  <2>. QED BY <1>1, <2>1 DEF UnitEnd
<1>3. SUFFICES ASSUME NEW w \in 1..words, BeginsSentence(w), Whole(w), w <= UnitEnd(p)
               PROVE  SentenceEnd(w) <= UnitEnd(p)
  <2>1. \A w \in 1..words : SentenceEnd(w) \in Nat
    BY SentenceEnds, <1>1
  <2>. QED BY <1>1, <2>1 DEF Clean
<1>4. CASE w < p
  <2>1. SentenceEnd(w) < p /\ SentenceEnd(w) \in Nat
    BY <1>1, <1>3, <1>4, SentenceEnds DEF Clean
  <2>. QED BY <1>1, <2>1
<1>5. CASE w = p
  <2>1. UnitEnd(p) = e
    BY <1>3, <1>5 DEF UnitEnd, Whole
  <2>. QED BY <1>1, <1>5, <2>1
<1>6. CASE w > p
  <2>1. w - 1 \in ends /\ w - 1 >= p
    BY <1>3, <1>6 DEF BeginsSentence
  <2>2. e <= w - 1
    BY <2>1, SentenceEndIs
  <2>. QED BY <1>1, <1>2, <1>3, <2>2
<1>. QED BY <1>3, <1>4, <1>5, <1>6

\* A step cuts at clean places.
LEMMA CleanStep == IInv /\ CleanCuts /\ [Next]_vars => CleanCuts'
<1>. SUFFICES ASSUME IInv, CleanCuts, [Next]_vars PROVE CleanCuts'
  OBVIOUS
<1>1. UNCHANGED document
  BY DEF Next, Read, CarryUnit, EndCarry, AppendUnit, Finish, vars
<1>2. /\ words \in Nat /\ pos \in 1..(words + 1) /\ lo \in 1..pos /\ chunks \in Seq(Chunks)
      /\ lo < pos => lo \in starts
  BY ChunkingAssumption DEF IInv, TypeOK, Bounds
<1>3. words' = words /\ ends' = ends
  BY <1>1 DEF document
<1>4. ASSUME Clean(pos'), \A s \in starts' : Clean(s),
             \A k \in 1..Len(chunks') : Clean(chunks'[k].first) /\ Clean(chunks'[k].last + 1)
      PROVE  CleanCuts'
  BY <1>3, <1>4 DEF CleanCuts, Clean, BeginsSentence, Whole, SentenceEnd
<1>5. CASE UNCHANGED <<pos, starts, chunks>>
  BY <1>4, <1>5 DEF CleanCuts
<1>6. CASE chunks' = Append(chunks, Chunk) /\ lo < pos /\ UNCHANGED <<pos, starts>>
  <2>1. Clean(lo) /\ Clean(pos)
    BY <1>2, <1>6 DEF CleanCuts
  <2>2. /\ Len(chunks') = Len(chunks) + 1 /\ Len(chunks) \in Nat
        /\ chunks'[Len(chunks) + 1] = Chunk
        /\ \A k \in 1..Len(chunks) : chunks'[k] = chunks[k]
    BY <1>2, <1>6
  <2>3. Chunk.first = lo /\ Chunk.last + 1 = pos
    BY <1>2 DEF Chunk
  <2>4. \A k \in 1..Len(chunks') : Clean(chunks'[k].first) /\ Clean(chunks'[k].last + 1)
    BY <2>1, <2>2, <2>3 DEF CleanCuts
  <2>. QED BY <1>4, <1>6, <2>4 DEF CleanCuts
<1>7. CASE AppendUnit
  <2>1. pos \in 1..words
    BY <1>7 DEF AppendUnit, IInv, Bounds, TypeOK
  <2>2. Clean(UnitEnd(pos) + 1)
    BY <2>1, UnitEndsClean DEF CleanCuts, IInv
  <2>. QED BY <1>4, <1>7, <2>2 DEF AppendUnit, CleanCuts
<1>. QED
  BY <1>2, <1>5, <1>6, <1>7
     DEF Next, Read, CarryUnit, EndCarry, Finish, Full, vars, IInv, Bounds

\* No sentence that fits in a chunk is split between chunks.
THEOREM KeepsSentences == Spec => []SentencesKept
<1>1. Init => CleanCuts
  <2>. SUFFICES ASSUME Init PROVE CleanCuts
    OBVIOUS
  <2>1. pos = 1 /\ starts = {} /\ Len(chunks) = 0
    BY DEF Init
  <2>2. Clean(1)
    BY DEF Clean
  <2>. QED BY <2>1, <2>2 DEF CleanCuts
<1>2. IInv /\ CleanCuts => SentencesKept
  <2>. SUFFICES ASSUME IInv, CleanCuts, NEW k \in 1..Len(chunks), NEW w \in 1..words,
                       BeginsSentence(w), Whole(w)
                PROVE  \/ SentenceEnd(w) < chunks[k].first
                       \/ chunks[k].last < w
                       \/ chunks[k].first <= w /\ SentenceEnd(w) <= chunks[k].last
    BY DEF SentencesKept
  <2>1. chunks[k].first \in Nat /\ chunks[k].last \in Nat
    <3>1. chunks \in Seq(Chunks)
      BY DEF IInv, TypeOK
    <3>2. chunks[k] \in Chunks
      BY <3>1
    <3>. QED BY <3>2 DEF Chunks
  <2>2. SentenceEnd(w) \in Nat
    BY SentenceEnds, ChunkingAssumption DEF IInv, TypeOK
  <2>3. w >= chunks[k].first \/ SentenceEnd(w) < chunks[k].first
    BY DEF CleanCuts, Clean
  <2>4. w >= chunks[k].last + 1 \/ SentenceEnd(w) < chunks[k].last + 1
    BY DEF CleanCuts, Clean
  <2>. QED BY <2>1, <2>2, <2>3, <2>4
<1>. QED BY <1>1, <1>2, CleanStep, Invariance, PTL DEF Spec

-----------------------------------------------------------------------------
(* The retrieval evaluation. *)

\* The evaluation: what the tables of each run are made of.
EvalTypes ==
    /\ sizes \in [Runs -> Nat] /\ present \in [Runs -> Nat]
    /\ phase \in [Runs -> {"prepare", "ingest", "score", "support", "done", "dead"}]
    /\ fed \in [Runs -> SUBSET Files]
    /\ asked \in [Runs -> 0..Questions] /\ supported \in [Runs -> Nat]
    /\ hits \in [Runs -> [Eval!Cutoffs -> Nat]] /\ points \in [Runs -> Nat]

\* The corpus is what the run that owns the tenant has ingested, all of it once it scores.
OwnCorpus ==
    \A r \in Runs :
        /\ tenant = Eval!Mine(r) /\ phase[r] \in {"ingest", "score", "support"}
               => corpus = fed[r] \X {present[r]}
        /\ phase[r] \in {"score", "support"} => fed[r] = Files

\* The scores of the questions asked so far: a hit within a cutoff is one within the next.
Scored(r) ==
    /\ phase[r] \in {"prepare", "ingest"} => hits[r][5] = 0 /\ asked[r] = 0
    /\ hits[r][1] <= hits[r][3] /\ hits[r][3] <= hits[r][5]
    /\ hits[r][5] <= (IF phase[r] = "score" THEN asked[r] ELSE Questions)
    /\ 60 * hits[r][1] <= points[r] /\ points[r] <= 60 * hits[r][5]
    /\ phase[r] \in {"prepare", "ingest", "score"} => supported[r] = 0
    /\ supported[r] <= (IF phase[r] = "support" THEN asked[r] ELSE Questions)

EvalInv == EvalTypes /\ OwnCorpus /\ \A r \in Runs : Scored(r)

\* What one rank adds to the scores.
LEMMA RankAdds ==
    ASSUME NEW rank \in 0..Shown
    PROVE  /\ Eval!Counted(1, rank) => Eval!Counted(3, rank)
           /\ Eval!Counted(3, rank) => Eval!Counted(5, rank)
           /\ rank # 0 => /\ Eval!Counted(5, rank) /\ 60 \div rank \in 0..60
                          /\ Eval!Counted(1, rank) => 60 \div rank = 60
           /\ rank = 0 => ~Eval!Counted(5, rank)
<1>1. rank \in 0..5
  BY ScoringAssumption DEF Eval!ScoringAssumption
<1>2. rank = 0 \/ rank = 1 \/ rank = 2 \/ rank = 3 \/ rank = 4 \/ rank = 5
  BY <1>1
<1>. QED
  BY <1>2 DEF Eval!Counted

\* The evaluation starts in the invariant.
LEMMA EvalInit == Eval!Init => EvalInv
<1>. SUFFICES ASSUME Eval!Init PROVE EvalInv
  OBVIOUS
<1>1. Questions \in Nat /\ MaxSizes \in Nat
  BY ScoringAssumption DEF Eval!ScoringAssumption
<1>2. hits = [r \in Runs |-> Eval!NoHits] /\ Eval!NoHits \in [Eval!Cutoffs -> Nat]
  BY DEF Eval!Init, Eval!NoHits
<1>3. EvalTypes
  BY <1>1, <1>2 DEF Eval!Init, EvalTypes
<1>4. OwnCorpus
  BY DEF Eval!Init, OwnCorpus
<1>5. \A r \in Runs : hits[r][1] = 0 /\ hits[r][3] = 0 /\ hits[r][5] = 0
  BY <1>2 DEF Eval!NoHits, Eval!Cutoffs
<1>6. \A r \in Runs : Scored(r)
  BY <1>1, <1>5 DEF Eval!Init, Scored
<1>. QED
  BY <1>3, <1>4, <1>6 DEF EvalInv

\* A run that does not move keeps its scores.
LEMMA ScoredElsewhere ==
    ASSUME NEW r \in Runs, Scored(r), phase'[r] = phase[r], asked'[r] = asked[r],
           hits'[r] = hits[r], points'[r] = points[r], supported'[r] = supported[r]
    PROVE  Scored(r)'
  BY DEF Scored

\* Prepare keeps the invariant.
LEMMA PrepareKeeps ==
    ASSUME EvalInv, NEW r \in Runs, Eval!Prepare(r)
    PROVE  EvalInv'
<1>. USE DEF Eval!Prepare, Eval!Goto, Eval!scoreVars
<1>1. EvalTypes'
  BY DEF EvalInv, EvalTypes
<1>2. OwnCorpus'
  <2>1. fed'[r] = {} /\ corpus' = {} /\ phase'[r] = "ingest" /\ tenant' = Eval!Mine(r)
        /\ \A q \in Runs \ {r} : phase'[q] = phase[q] /\ fed'[q] = fed[q]
    BY DEF EvalInv, EvalTypes
  <2>2. \A q \in Runs : tenant' = Eval!Mine(q)' => q = r
    BY <2>1 DEF Eval!Mine
  <2>. QED
    BY <2>1, <2>2 DEF EvalInv, OwnCorpus
<1>3. ASSUME NEW q \in Runs PROVE Scored(q)'
  <2>1. CASE q = r
    <3>1. phase[r] = "prepare" /\ phase'[r] = "ingest" /\ Scored(r)
      BY DEF EvalInv, EvalTypes
    <3>. QED
      BY <2>1, <3>1 DEF Scored
  <2>2. CASE q # r
    BY <2>2, ScoredElsewhere DEF EvalInv, EvalTypes
  <2>. QED
    BY <2>1, <2>2
<1>. QED
  BY <1>1, <1>2, <1>3 DEF EvalInv

\* Ingest keeps the invariant.
LEMMA IngestKeeps ==
    ASSUME EvalInv, NEW r \in Runs, Eval!Ingest(r)
    PROVE  EvalInv'
<1>1. PICK f \in Files \ fed[r] : /\ fed' = [fed EXCEPT ![r] = @ \cup {f}]
                                  /\ corpus' = corpus \cup {<<f, present[r]>>}
  BY DEF Eval!Ingest
<1>2. /\ phase[r] = "ingest" /\ tenant = Eval!Mine(r)
      /\ phase' = [phase EXCEPT ![r] = IF fed'[r] = Files THEN "score" ELSE "ingest"]
      /\ UNCHANGED <<tenant, sizes, present, asked, hits, points, supported>>
  BY DEF Eval!Ingest, Eval!Goto, Eval!scoreVars
<1>3. fed'[r] = fed[r] \cup {f} /\ \A q \in Runs \ {r} : fed'[q] = fed[q] /\ phase'[q] = phase[q]
  BY <1>1, <1>2 DEF EvalInv, EvalTypes
<1>4. phase'[r] = (IF fed'[r] = Files THEN "score" ELSE "ingest")
  BY <1>2 DEF EvalInv, EvalTypes
<1>5. EvalTypes'
  BY <1>1, <1>2 DEF EvalInv, EvalTypes
<1>6. OwnCorpus'
  <2>1. corpus' = fed'[r] \X {present'[r]}
    <3>1. corpus = fed[r] \X {present[r]}
      BY <1>2 DEF EvalInv, OwnCorpus
    <3>2. (fed[r] \cup {f}) \X {present[r]} = (fed[r] \X {present[r]}) \cup {<<f, present[r]>>}
      OBVIOUS
    <3>. QED
      BY <1>1, <1>2, <1>3, <3>1, <3>2
  <2>2. \A q \in Runs : tenant' = Eval!Mine(q)' => q = r
    BY <1>2 DEF Eval!Mine
  <2>. QED
    BY <1>3, <1>4, <2>1, <2>2 DEF EvalInv, OwnCorpus
<1>7. ASSUME NEW q \in Runs PROVE Scored(q)'
  <2>1. CASE q = r
    <3>1. Scored(r) /\ hits[r][5] \in Nat /\ Questions \in Nat
      BY ScoringAssumption DEF EvalInv, EvalTypes, Eval!Cutoffs, Eval!ScoringAssumption
    <3>. QED
      BY <1>2, <1>4, <2>1, <3>1 DEF Scored
  <2>2. CASE q # r
    BY <1>2, <1>3, <2>2, ScoredElsewhere DEF EvalInv
  <2>. QED
    BY <2>1, <2>2
<1>. QED
  BY <1>5, <1>6, <1>7 DEF EvalInv

\* Score keeps the invariant.
LEMMA ScoreKeeps ==
    ASSUME EvalInv, NEW r \in Runs, Eval!Score(r)
    PROVE  EvalInv'
<1>1. PICK rank \in 0..Shown :
          /\ hits' = [hits EXCEPT ![r] = [k \in Eval!Cutoffs |->
                                            @[k] + IF Eval!Counted(k, rank) THEN 1 ELSE 0]]
          /\ points' = [points EXCEPT ![r] = @ + IF rank = 0 THEN 0 ELSE 60 \div rank]
  <2>1. (IF tenant = Eval!Mine(r) THEN 0..Shown ELSE {0}) \subseteq 0..Shown
    BY ScoringAssumption DEF Eval!ScoringAssumption
  <2>2. \E rank \in IF tenant = Eval!Mine(r) THEN 0..Shown ELSE {0} :
          /\ hits' = [hits EXCEPT ![r] = [k \in Eval!Cutoffs |->
                                            @[k] + IF Eval!Counted(k, rank) THEN 1 ELSE 0]]
          /\ points' = [points EXCEPT ![r] = @ + IF rank = 0 THEN 0 ELSE 60 \div rank]
    BY Zenon DEF Eval!Score, Eval!Sixty
  <2>. QED
    BY <2>1, <2>2, Zenon
<1>2. /\ phase[r] = "score" /\ asked[r] < Questions /\ asked' = [asked EXCEPT ![r] = @ + 1]
      /\ UNCHANGED <<tenant, corpus, phase, sizes, present, fed, supported>>
  BY DEF Eval!Score
<1>3. /\ hits[r] \in [Eval!Cutoffs -> Nat] /\ points[r] \in Nat /\ asked[r] \in Nat
      /\ Questions \in Nat
      /\ hits[r][1] \in Nat /\ hits[r][3] \in Nat /\ hits[r][5] \in Nat
  BY ScoringAssumption DEF EvalInv, EvalTypes, Eval!Cutoffs, Eval!ScoringAssumption
<1>4. /\ \A k \in Eval!Cutoffs : hits'[r][k] = hits[r][k] + IF Eval!Counted(k, rank) THEN 1 ELSE 0
      /\ points'[r] = points[r] + IF rank = 0 THEN 0 ELSE 60 \div rank
      /\ asked'[r] = asked[r] + 1
  BY <1>1, <1>2 DEF EvalInv, EvalTypes
<1>5. EvalTypes'
  <2>1. hits' \in [Runs -> [Eval!Cutoffs -> Nat]]
    <3>1. [k \in Eval!Cutoffs |-> hits[r][k] + IF Eval!Counted(k, rank) THEN 1 ELSE 0]
              \in [Eval!Cutoffs -> Nat]
      BY <1>3
    <3>. QED
      BY <1>1, <3>1 DEF EvalInv, EvalTypes
  <2>2. points' \in [Runs -> Nat]
    <3>1. points[r] + (IF rank = 0 THEN 0 ELSE 60 \div rank) \in Nat
      BY <1>3, RankAdds
    <3>. QED
      BY <1>1, <3>1 DEF EvalInv, EvalTypes
  <2>3. asked' \in [Runs -> 0..Questions]
    BY <1>2, <1>3 DEF EvalInv, EvalTypes
  <2>. QED
    BY <1>2, <2>1, <2>2, <2>3 DEF EvalInv, EvalTypes
<1>6. OwnCorpus'
  BY <1>2 DEF EvalInv, OwnCorpus, Eval!Mine
<1>7. ASSUME NEW q \in Runs PROVE Scored(q)'
  <2>1. CASE q = r
    <3>1. Scored(r)
      BY DEF EvalInv
    <3>2. /\ hits'[r][1] = hits[r][1] + IF Eval!Counted(1, rank) THEN 1 ELSE 0
          /\ hits'[r][3] = hits[r][3] + IF Eval!Counted(3, rank) THEN 1 ELSE 0
          /\ hits'[r][5] = hits[r][5] + IF Eval!Counted(5, rank) THEN 1 ELSE 0
      BY <1>4 DEF Eval!Cutoffs
    <3>3. hits'[r][1] <= hits'[r][3] /\ hits'[r][3] <= hits'[r][5] /\ hits'[r][5] <= asked'[r]
      BY <1>2, <1>3, <1>4, <3>1, <3>2, RankAdds DEF Scored
    <3>4. 60 * hits'[r][1] <= points'[r] /\ points'[r] <= 60 * hits'[r][5]
      <4>1. CASE rank = 0
        BY <1>3, <1>4, <3>1, <3>2, <4>1, RankAdds DEF Scored
      <4>2. CASE rank # 0
        BY <1>3, <1>4, <3>1, <3>2, <4>2, RankAdds DEF Scored
      <4>. QED
        BY <4>1, <4>2
    <3>. QED
      BY <1>2, <2>1, <3>1, <3>3, <3>4 DEF Scored
  <2>2. CASE q # r
    BY <1>1, <1>2, <2>2, ScoredElsewhere DEF EvalInv, EvalTypes
  <2>. QED
    BY <2>1, <2>2
<1>. QED
  BY <1>5, <1>6, <1>7 DEF EvalInv

\* Report keeps the invariant.
LEMMA ReportKeeps ==
    ASSUME EvalInv, NEW r \in Runs, Eval!Report(r)
    PROVE  EvalInv'
<1>1. /\ phase[r] = "score" /\ asked[r] = Questions /\ asked' = [asked EXCEPT ![r] = 0]
      /\ UNCHANGED <<tenant, corpus, sizes, fed, supported>>
  BY DEF Eval!Report
<1>2. /\ sizes[r] \in Nat /\ present[r] \in Nat /\ Questions \in Nat
      /\ hits[r][1] \in Nat /\ hits[r][3] \in Nat /\ hits[r][5] \in Nat
  BY ScoringAssumption DEF EvalInv, EvalTypes, Eval!Cutoffs, Eval!ScoringAssumption
<1>3. Scored(r) /\ fed[r] = Files
  BY <1>1 DEF EvalInv, OwnCorpus
<1>4. /\ Eval!NoHits \in [Eval!Cutoffs -> Nat]
      /\ Eval!NoHits[1] = 0 /\ Eval!NoHits[3] = 0 /\ Eval!NoHits[5] = 0
  BY DEF Eval!NoHits, Eval!Cutoffs
<1>5. asked' \in [Runs -> 0..Questions] /\ asked'[r] = 0 /\ \A q \in Runs \ {r} : asked'[q] = asked[q]
  BY <1>1, <1>2 DEF EvalInv, EvalTypes
<1>6. CASE present[r] < sizes[r] /\ present' = [present EXCEPT ![r] = @ + 1]
           /\ Eval!Goto(r, "prepare") /\ Eval!ResetScores(r)
  <2>1. EvalTypes'
    BY <1>1, <1>2, <1>4, <1>5, <1>6 DEF EvalInv, EvalTypes, Eval!Goto, Eval!ResetScores
  <2>2. /\ phase'[r] = "prepare" /\ hits'[r] = Eval!NoHits /\ points'[r] = 0
        /\ \A q \in Runs \ {r} : phase'[q] = phase[q] /\ hits'[q] = hits[q]
                                 /\ points'[q] = points[q] /\ present'[q] = present[q]
    BY <1>6 DEF EvalInv, EvalTypes, Eval!Goto, Eval!ResetScores
  <2>3. OwnCorpus'
    BY <1>1, <2>2 DEF EvalInv, OwnCorpus, Eval!Mine
  <2>4. Scored(r)'
    BY <1>1, <1>2, <1>3, <1>4, <1>5, <2>2 DEF Scored
  <2>5. \A q \in Runs : Scored(q)'
    BY <1>1, <1>5, <2>2, <2>4, ScoredElsewhere DEF EvalInv
  <2>. QED
    BY <2>1, <2>3, <2>5 DEF EvalInv
<1>7. CASE sizes[r] = 1 /\ Eval!ResetScores(r) /\ UNCHANGED <<phase, present>>
  <2>1. EvalTypes'
    BY <1>1, <1>4, <1>5, <1>7 DEF EvalInv, EvalTypes, Eval!ResetScores
  <2>2. /\ hits'[r] = Eval!NoHits /\ points'[r] = 0
        /\ \A q \in Runs \ {r} : hits'[q] = hits[q] /\ points'[q] = points[q]
    BY <1>7 DEF EvalInv, EvalTypes, Eval!ResetScores
  <2>3. OwnCorpus'
    BY <1>1, <1>7 DEF EvalInv, OwnCorpus, Eval!Mine
  <2>4. Scored(r)'
    BY <1>1, <1>2, <1>3, <1>4, <1>5, <1>7, <2>2 DEF Scored
  <2>5. \A q \in Runs : Scored(q)'
    BY <1>1, <1>5, <1>7, <2>2, <2>4, ScoredElsewhere DEF EvalInv
  <2>. QED
    BY <2>1, <2>3, <2>5 DEF EvalInv
<1>8. CASE /\ Eval!Goto(r, IF sizes[r] = 1 THEN "support" ELSE "done")
           /\ UNCHANGED <<present, hits, points>>
  <2>1. EvalTypes'
    BY <1>1, <1>5, <1>8 DEF EvalInv, EvalTypes, Eval!Goto
  <2>2. /\ phase'[r] \in {"support", "done"}
        /\ \A q \in Runs \ {r} : phase'[q] = phase[q]
    BY <1>8 DEF EvalInv, EvalTypes, Eval!Goto
  <2>3. OwnCorpus'
    BY <1>1, <1>3, <1>8, <2>2 DEF EvalInv, OwnCorpus, Eval!Mine
  <2>4. Scored(r)'
    BY <1>1, <1>2, <1>3, <1>5, <1>8, <2>2 DEF Scored
  <2>5. \A q \in Runs : Scored(q)'
    BY <1>1, <1>5, <1>8, <2>2, <2>4, ScoredElsewhere DEF EvalInv
  <2>. QED
    BY <2>1, <2>3, <2>5 DEF EvalInv
<1>. QED
  BY <1>6, <1>7, <1>8 DEF Eval!Report

\* Support keeps the invariant.
LEMMA SupportKeeps ==
    ASSUME EvalInv, NEW r \in Runs, Eval!Support(r)
    PROVE  EvalInv'
<1>1. phase[r] = "support" /\ UNCHANGED <<tenant, corpus, sizes, present, fed, hits, points>>
  BY DEF Eval!Support
<1>2. Scored(r) /\ asked[r] \in 0..Questions /\ supported[r] \in Nat /\ Questions \in Nat
  BY ScoringAssumption DEF EvalInv, EvalTypes, Eval!ScoringAssumption
<1>3. CASE asked[r] < Questions
  <2>1. PICK n \in {0, 1} : supported' = [supported EXCEPT ![r] = @ + n]
    BY <1>3 DEF Eval!Support
  <2>2. asked' = [asked EXCEPT ![r] = @ + 1] /\ UNCHANGED phase
    BY <1>3 DEF Eval!Support
  <2>3. EvalTypes'
    BY <1>1, <1>2, <1>3, <2>1, <2>2 DEF EvalInv, EvalTypes
  <2>4. OwnCorpus'
    BY <1>1, <2>2 DEF EvalInv, OwnCorpus, Eval!Mine
  <2>5. /\ asked'[r] = asked[r] + 1 /\ supported'[r] = supported[r] + n
        /\ \A q \in Runs \ {r} : asked'[q] = asked[q] /\ supported'[q] = supported[q]
    BY <2>1, <2>2 DEF EvalInv, EvalTypes
  <2>6. Scored(r)'
    BY <1>1, <1>2, <2>2, <2>5 DEF Scored
  <2>7. \A q \in Runs : Scored(q)'
    BY <1>1, <2>2, <2>5, <2>6, ScoredElsewhere DEF EvalInv
  <2>. QED
    BY <2>3, <2>4, <2>7 DEF EvalInv
<1>4. CASE Eval!Goto(r, "done") /\ UNCHANGED <<asked, supported>>
  <2>1. phase'[r] = "done" /\ \A q \in Runs \ {r} : phase'[q] = phase[q]
    BY <1>4 DEF EvalInv, EvalTypes, Eval!Goto
  <2>2. EvalTypes'
    BY <1>1, <1>4 DEF EvalInv, EvalTypes, Eval!Goto
  <2>3. OwnCorpus'
    BY <1>1, <2>1 DEF EvalInv, OwnCorpus, Eval!Mine
  <2>4. Scored(r)'
    BY <1>1, <1>2, <1>4, <2>1 DEF Scored
  <2>5. \A q \in Runs : Scored(q)'
    BY <1>1, <1>4, <2>1, <2>4, ScoredElsewhere DEF EvalInv
  <2>. QED
    BY <2>2, <2>3, <2>5 DEF EvalInv
<1>. QED
  BY <1>3, <1>4 DEF Eval!Support

\* Die keeps the invariant.
LEMMA DieKeeps ==
    ASSUME EvalInv, NEW r \in Runs, Eval!Die(r)
    PROVE  EvalInv'
<1>1. /\ phase[r] \in {"prepare", "ingest", "score", "support"}
      /\ UNCHANGED <<tenant, corpus, sizes, present, fed, asked, hits, points, supported>>
  BY DEF Eval!Die, Eval!scoreVars
<1>2. phase'[r] = "dead" /\ \A q \in Runs \ {r} : phase'[q] = phase[q]
  BY DEF Eval!Die, Eval!Goto, EvalInv, EvalTypes
<1>3. EvalTypes'
  BY <1>1 DEF Eval!Die, Eval!Goto, EvalInv, EvalTypes
<1>4. OwnCorpus'
  BY <1>1, <1>2 DEF EvalInv, OwnCorpus, Eval!Mine
<1>5. Scored(r)'
  <2>1. /\ Scored(r) /\ asked[r] \in 0..Questions /\ Questions \in Nat
        /\ hits[r][5] \in Nat /\ supported[r] \in Nat
    BY ScoringAssumption DEF EvalInv, EvalTypes, Eval!Cutoffs, Eval!ScoringAssumption
  <2>. QED
    BY <1>1, <1>2, <2>1 DEF Scored
<1>6. \A q \in Runs : Scored(q)'
  BY <1>1, <1>2, <1>5, ScoredElsewhere DEF EvalInv
<1>. QED
  BY <1>3, <1>4, <1>6 DEF EvalInv

\* run_eval.py: "every run measures a known corpus, never leftovers from a previous
\* configuration", for any runs that overlap or die, any corpus and any sweep; and a table
\* of scores agrees with itself.
THEOREM ScoresMeanSomethingHolds == Eval!Spec => []ScoresMeanSomething
<1>1. EvalInv /\ [Eval!Next]_(Eval!vars) => EvalInv'
  <2>. SUFFICES ASSUME EvalInv, [Eval!Next]_(Eval!vars) PROVE EvalInv'
    OBVIOUS
  <2>1. CASE UNCHANGED Eval!vars
    BY <2>1 DEF Eval!vars, Eval!scoreVars, EvalInv, EvalTypes, OwnCorpus, Scored, Eval!Mine
  <2>. QED
    BY <2>1, PrepareKeeps, IngestKeeps, ScoreKeeps, ReportKeeps, SupportKeeps, DieKeeps DEF Eval!Next
<1>2. EvalInv => ScoresMeanSomething
  <2>. SUFFICES ASSUME EvalInv PROVE ScoresMeanSomething
    OBVIOUS
  <2>1. Eval!KnownCorpus
    BY DEF EvalInv, OwnCorpus, Eval!KnownCorpus
  <2>2. ASSUME NEW r \in Runs
        PROVE  hits[r][5] <= Questions /\ supported[r] <= Questions
    <3>1. /\ Scored(r) /\ asked[r] \in 0..Questions /\ Questions \in Nat
          /\ hits[r][5] \in Nat /\ supported[r] \in Nat
      BY ScoringAssumption DEF EvalInv, EvalTypes, Eval!Cutoffs, Eval!ScoringAssumption
    <3>. QED
      BY <3>1 DEF Scored
  <2>3. Eval!ScoresAgree
    BY <2>2 DEF EvalInv, Scored, Eval!ScoresAgree, Eval!Sixty
  <2>. QED
    BY <2>1, <2>3 DEF ScoresMeanSomething
<1>. QED
  BY <1>1, <1>2, EvalInit, PTL DEF Eval!Spec

-----------------------------------------------------------------------------
(* Sums over finite sets. *)

\* A nonempty set of subsets of a finite set has a member without a proper subset in it.
LEMMA SmallestSubset ==
    ASSUME NEW S, IsFiniteSet(S), NEW C \in SUBSET (SUBSET S), C # {}
    PROVE  \E T \in C : \A U \in C : U \subseteq T => U = T
<1>1. IsWellFoundedOn(StrictSubsetOrdering(S), SUBSET S)
  BY FS_StrictSubsetOrderingWellFounded, FS_FiniteSubsetsOfFinite
<1>2. \E T \in C : \A U \in C : ~ (<<U, T>> \in StrictSubsetOrdering(S))
  BY <1>1, WFMin
<1>. QED
  BY <1>2 DEF StrictSubsetOrdering

\* The element that the fold of a sum takes first, and its recursive function: a solution
\* `g` of the equation that adds up f over the subsets of S.
First(s)         == CHOOSE x \in s : TRUE
AddUp(f, g, s)   == IF s = {} THEN 0 ELSE f[First(s)] + g[s \ {First(s)}]
AddsUp(f, S, g)  == g = [s \in SUBSET S |-> AddUp(f, g, s)]
SumOf(f, S)      == (CHOOSE g : AddsUp(f, S, g))[S]

\* There is one.
LEMMA SumExists ==
    ASSUME NEW f, NEW S, IsFiniteSet(S)
    PROVE  \E g : AddsUp(f, S, g)
<1>. DEFINE D(n)   == {s \in SUBSET S : Cardinality(s) <= n}
            Sol(n) == \E g : g = [s \in D(n) |-> AddUp(f, g, s)]
            Bad    == {n \in Nat : ~ Sol(n)}
<1>1. \A s \in SUBSET S : IsFiniteSet(s) /\ Cardinality(s) \in Nat
  BY FS_Subset, FS_CardinalityType
<1>2. Sol(0)
  <2>1. \A s \in D(0) : s = {}
    BY <1>1, FS_EmptySet
  <2>2. [s \in D(0) |-> 0] = [s \in D(0) |-> AddUp(f, [u \in D(0) |-> 0], s)]
    BY <2>1 DEF AddUp
  <2>. QED
    BY <2>2
<1>3. ASSUME NEW n \in Nat, Sol(n)
      PROVE  Sol(n + 1)
  <2>1. PICK g : g = [s \in D(n) |-> AddUp(f, g, s)]
    BY <1>3
  <2>. DEFINE h == [s \in D(n + 1) |-> AddUp(f, g, s)]
  <2>2. \A s \in D(n) : s \in D(n + 1) /\ h[s] = g[s]
    BY <2>1, <1>1
  <2>3. ASSUME NEW s \in D(n + 1), s # {}
        PROVE  s \ {First(s)} \in D(n)
    <3>1. First(s) \in s
      BY <2>3 DEF First
    <3>2. Cardinality(s \ {First(s)}) = Cardinality(s) - 1
      BY <3>1, <1>1, FS_RemoveElement
    <3>. QED
      BY <3>2, <1>1
  <2>4. ASSUME NEW s \in D(n + 1)
        PROVE  AddUp(f, g, s) = AddUp(f, h, s)
    <3>1. CASE s = {}
      BY <3>1 DEF AddUp
    <3>2. CASE s # {}
      <4>1. h[s \ {First(s)}] = g[s \ {First(s)}]
        BY <3>2, <2>2, <2>3
      <4>. HIDE DEF h
      <4>. QED
        BY <4>1, <3>2 DEF AddUp
    <3>. QED
      BY <3>1, <3>2
  <2>5. h = [s \in D(n + 1) |-> AddUp(f, h, s)]
    BY <2>4
  <2>. QED
    BY <2>5
<1>4. Bad = {}
  <2>1. SUFFICES ASSUME Bad # {}
                 PROVE  FALSE
    OBVIOUS
  <2>2. PICK m \in Bad : \A k \in Bad : m <= k
    BY <2>1, LeastNat
  <2>3. m \in Nat /\ ~ Sol(m)
    OBVIOUS
  <2>. HIDE DEF Sol
  <2>4. m # 0 /\ m - 1 \in Nat
    BY <1>2, <2>3
  <2>5. m - 1 \notin Bad
    <3>1. m \in Nat /\ ~ (m <= m - 1)
      BY <2>3
    <3>. HIDE DEF Bad
    <3>. QED
      BY <2>2, <3>1
  <2>6. Sol((m - 1) + 1) /\ (m - 1) + 1 = m
    BY <1>3, <2>3, <2>4, <2>5
  <2>. QED
    BY <2>3, <2>6
<1>5. Sol(Cardinality(S))
  <2>1. Cardinality(S) \in Nat
    BY FS_CardinalityType
  <2>. QED
    BY <2>1, <1>4
<1>6. D(Cardinality(S)) = SUBSET S
  BY FS_Subset
<1>. QED
  BY <1>5, <1>6 DEF AddsUp

\* There is no other, whatever larger set it is a solution for.
LEMMA SumUnique ==
    ASSUME NEW f, NEW S, NEW T, NEW U \in SUBSET (S \cap T), IsFiniteSet(U),
           NEW g, AddsUp(f, S, g), NEW h, AddsUp(f, T, h)
    PROVE  g[U] = h[U]
<1>. DEFINE C == {V \in SUBSET U : g[V] # h[V]}
<1>1. ASSUME C # {}
      PROVE  FALSE
  <2>1. PICK V \in C : \A W \in C : W \subseteq V => W = V
    <3>1. C \in SUBSET (SUBSET U)
      OBVIOUS
    <3>. HIDE DEF C
    <3>. QED
      BY <1>1, <3>1, SmallestSubset
  <2>2. \A W \in SUBSET U : g[W] = AddUp(f, g, W) /\ h[W] = AddUp(f, h, W)
    BY DEF AddsUp
  <2>3. V # {}
    BY <2>1, <2>2 DEF AddUp
  <2>4. First(V) \in V
    BY <2>3 DEF First
  <2>5. g[V \ {First(V)}] = h[V \ {First(V)}]
    BY <2>1, <2>4
  <2>. QED
    BY <2>1, <2>2, <2>5 DEF AddUp
<1>. QED
  BY <1>1

\* The sum over a set, as one element and the sum over the rest.
LEMMA SumUnfolds ==
    ASSUME NEW f, NEW S, IsFiniteSet(S)
    PROVE  SumOf(f, S) = IF S = {} THEN 0 ELSE f[First(S)] + SumOf(f, S \ {First(S)})
<1>. DEFINE Sol(T) == CHOOSE g : AddsUp(f, T, g)
<1>1. \A T \in SUBSET S : AddsUp(f, T, Sol(T))
  BY FS_Subset, SumExists
<1>2. SumOf(f, S) = AddUp(f, Sol(S), S)
  <2>1. SumOf(f, S) = Sol(S)[S] /\ AddsUp(f, S, Sol(S))
    BY <1>1, Zenon DEF SumOf
  <2>. HIDE DEF Sol
  <2>. QED
    BY <2>1 DEF AddsUp
<1>3. ASSUME NEW T \in SUBSET S
      PROVE  Sol(S)[T] = SumOf(f, T)
  <2>1. IsFiniteSet(T) /\ AddsUp(f, T, Sol(T)) /\ AddsUp(f, S, Sol(S)) /\ T \in SUBSET (S \cap T)
    BY <1>1, FS_Subset
  <2>. HIDE DEF Sol
  <2>2. Sol(S)[T] = Sol(T)[T]
    BY <2>1, SumUnique
  <2>. QED
    BY <2>2 DEF SumOf, Sol
<1>. QED
  BY <1>2, <1>3 DEF AddUp

\* Nothing adds up to nothing.
LEMMA SumEmpty ==
    ASSUME NEW f
    PROVE  SumOf(f, {}) = 0
BY FS_EmptySet, SumUnfolds

\* Numbers add up to a number.
LEMMA SumType ==
    ASSUME NEW f, NEW S, IsFiniteSet(S), \A x \in S : f[x] \in Nat
    PROVE  SumOf(f, S) \in Nat
<1>. DEFINE C == {T \in SUBSET S : SumOf(f, T) \notin Nat}
<1>1. ASSUME C # {}
      PROVE  FALSE
  <2>1. PICK T \in C : \A U \in C : U \subseteq T => U = T
    <3>1. C \in SUBSET (SUBSET S)
      OBVIOUS
    <3>. HIDE DEF C
    <3>. QED
      BY <1>1, <3>1, SmallestSubset
  <2>2. IsFiniteSet(T) /\ SumOf(f, T) \notin Nat
    BY FS_Subset
  <2>3. T # {}
    BY <2>2, SumEmpty
  <2>4. First(T) \in T
    BY <2>3 DEF First
  <2>5. SumOf(f, T \ {First(T)}) \in Nat
    BY <2>1, <2>4
  <2>6. SumOf(f, T) = f[First(T)] + SumOf(f, T \ {First(T)})
    BY <2>2, <2>3, SumUnfolds
  <2>. QED
    BY <2>2, <2>4, <2>5, <2>6
<1>. QED
  BY <1>1

\* The order makes no difference.
LEMMA SumSplits ==
    ASSUME NEW f, NEW S, IsFiniteSet(S), \A x \in S : f[x] \in Nat, NEW x \in S
    PROVE  SumOf(f, S) = f[x] + SumOf(f, S \ {x})
<1>. DEFINE C == {T \in SUBSET S : \E y \in T : SumOf(f, T) # f[y] + SumOf(f, T \ {y})}
<1>1. ASSUME C # {}
      PROVE  FALSE
  <2>1. PICK T \in C : \A U \in C : U \subseteq T => U = T
    <3>1. C \in SUBSET (SUBSET S)
      OBVIOUS
    <3>. HIDE DEF C
    <3>. QED
      BY <1>1, <3>1, SmallestSubset
  <2>2. IsFiniteSet(T)
    BY FS_Subset
  <2>3. PICK y \in T : SumOf(f, T) # f[y] + SumOf(f, T \ {y})
    OBVIOUS
  <2>. DEFINE c == First(T)
  <2>4. c \in T
    BY <2>3 DEF First
  <2>5. SumOf(f, T) = f[c] + SumOf(f, T \ {c})
    BY <2>2, <2>3, SumUnfolds
  <2>6. c # y
    BY <2>3, <2>5
  <2>7. T \ {c} \notin C /\ T \ {y} \notin C
    BY <2>1, <2>4
  <2>8. SumOf(f, T \ {c}) = f[y] + SumOf(f, (T \ {c}) \ {y})
    BY <2>6, <2>7
  <2>9. SumOf(f, T \ {y}) = f[c] + SumOf(f, (T \ {y}) \ {c})
    BY <2>4, <2>6, <2>7
  <2>10. (T \ {c}) \ {y} = (T \ {y}) \ {c}
    OBVIOUS
  <2>11. f[c] \in Nat /\ f[y] \in Nat
    BY <2>4
  <2>12. IsFiniteSet((T \ {y}) \ {c}) /\ \A z \in (T \ {y}) \ {c} : f[z] \in Nat
    BY <2>2, FS_Subset
  <2>13. SumOf(f, (T \ {y}) \ {c}) \in Nat
    BY <2>12, SumType
  <2>. HIDE DEF c, C
  <2>14. SumOf(f, T) = f[c] + (f[y] + SumOf(f, (T \ {y}) \ {c}))
    BY <2>5, <2>8, <2>10
  <2>15. SumOf(f, T) = f[y] + (f[c] + SumOf(f, (T \ {y}) \ {c}))
    BY <2>11, <2>13, <2>14
  <2>. QED
    BY <2>3, <2>9, <2>15
<1>2. S \notin C
  BY <1>1
<1>. QED
  BY <1>2

\* Two sets without a common element.
LEMMA SumUnion ==
    ASSUME NEW f, NEW A, NEW B, IsFiniteSet(A), IsFiniteSet(B), A \cap B = {},
           \A x \in A \cup B : f[x] \in Nat
    PROVE  SumOf(f, A \cup B) = SumOf(f, A) + SumOf(f, B)
<1>. DEFINE Good(U) == SumOf(f, A \cup U) = SumOf(f, A) + SumOf(f, U)
            C == {U \in SUBSET B : ~ Good(U)}
<1>1. ASSUME C # {}
      PROVE  FALSE
  <2>1. PICK U \in C : \A W \in C : W \subseteq U => W = U
    <3>1. C \in SUBSET (SUBSET B)
      OBVIOUS
    <3>. HIDE DEF C
    <3>. QED
      BY <1>1, <3>1, SmallestSubset
  <2>2. U \in SUBSET B /\ ~ Good(U)
    OBVIOUS
  <2>3. SumOf(f, A) \in Nat
    BY SumType
  <2>4. U # {}
    <3>1. A \cup {} = A
      OBVIOUS
    <3>2. Good({})
      BY <2>3, <3>1, SumEmpty
    <3>. QED
      BY <2>2, <3>2
  <2>5. PICK x \in U : TRUE
    BY <2>4
  <2>. DEFINE V == U \ {x}
  <2>6. V \in SUBSET B /\ V # U /\ V \subseteq U /\ x \in B
    BY <2>2, <2>5
  <2>7. Good(V)
    <3>1. V \notin C
      <4>. HIDE DEF C, V
      <4>. QED
        BY <2>1, <2>6
    <3>. HIDE DEF Good, V
    <3>. QED
      BY <2>6, <3>1
  <2>8. IsFiniteSet(U) /\ IsFiniteSet(V) /\ IsFiniteSet(A \cup U)
    BY <2>2, <2>6, FS_Subset, FS_Union
  <2>9. x \in A \cup U /\ (A \cup U) \ {x} = A \cup V /\ f[x] \in Nat
    BY <2>2, <2>5
  <2>10. SumOf(f, V) \in Nat
    BY <2>6, <2>8, SumType
  <2>. HIDE DEF V, C
  <2>11. SumOf(f, A \cup U) = f[x] + SumOf(f, A \cup V)
    <3>1. \A z \in A \cup U : f[z] \in Nat
      BY <2>2
    <3>. QED
      BY <2>8, <2>9, <3>1, SumSplits
  <2>12. SumOf(f, U) = f[x] + SumOf(f, V)
    <3>1. \A z \in U : f[z] \in Nat
      BY <2>2
    <3>. QED
      BY <2>5, <2>8, <3>1, SumSplits DEF V
  <2>13. SumOf(f, A \cup U) = SumOf(f, A) + SumOf(f, U)
    BY <2>3, <2>7, <2>9, <2>10, <2>11, <2>12
  <2>. QED
    BY <2>2, <2>13
<1>2. B \notin C
  BY <1>1
<1>. QED
  BY <1>2

\* Numbers of at most m each.
LEMMA SumBounded ==
    ASSUME NEW f, NEW S, IsFiniteSet(S), NEW m \in Nat, \A x \in S : f[x] \in 0..m
    PROVE  SumOf(f, S) <= Cardinality(S) * m
<1>. DEFINE C == {U \in SUBSET S : ~ (SumOf(f, U) <= Cardinality(U) * m)}
<1>1. ASSUME C # {}
      PROVE  FALSE
  <2>1. PICK U \in C : \A W \in C : W \subseteq U => W = U
    <3>1. C \in SUBSET (SUBSET S)
      OBVIOUS
    <3>. HIDE DEF C
    <3>. QED
      BY <1>1, <3>1, SmallestSubset
  <2>2. U \in SUBSET S /\ ~ (SumOf(f, U) <= Cardinality(U) * m)
    OBVIOUS
  <2>3. U # {}
    <3>1. SumOf(f, {}) = 0 /\ Cardinality({}) = 0 /\ 0 <= 0 * m
      BY SumEmpty, FS_EmptySet
    <3>. QED
      BY <2>2, <3>1
  <2>4. PICK x \in U : TRUE
    BY <2>3
  <2>. DEFINE V == U \ {x}
  <2>5. SumOf(f, V) <= Cardinality(V) * m
    BY <2>1, <2>4
  <2>6. /\ IsFiniteSet(U) /\ IsFiniteSet(V)
        /\ Cardinality(V) \in Nat /\ Cardinality(U) = Cardinality(V) + 1
    <3>1. IsFiniteSet(U) /\ Cardinality(U) \in Nat
      BY <2>2, FS_Subset, FS_CardinalityType
    <3>2. IsFiniteSet(V) /\ Cardinality(V) = Cardinality(U) - 1
      <4>. HIDE DEF C
      <4>. QED
        BY <2>4, <3>1, FS_RemoveElement
    <3>3. Cardinality(V) \in Nat
      BY <3>2, FS_CardinalityType
    <3>. QED
      BY <3>1, <3>2, <3>3
  <2>7. SumOf(f, U) = f[x] + SumOf(f, V) /\ SumOf(f, V) \in Nat /\ f[x] \in 0..m
    <3>1. \A z \in U : f[z] \in Nat
      BY <2>2
    <3>. QED
      BY <2>2, <2>4, <2>6, <3>1, SumSplits, SumType
  <2>. HIDE DEF V, C
  <2>. DEFINE k == Cardinality(V)
  <2>8. (k + 1) * m = k * m + m /\ k * m \in Nat
    BY <2>6
  <2>. QED
    BY <2>2, <2>5, <2>6, <2>7, <2>8
<1>2. S \notin C
  BY <1>1
<1>. QED
  BY <1>2

\* Sums of the parts of a set, added up.
LEMMA SumOfParts ==
    ASSUME NEW f, NEW D, IsFiniteSet(D), \A x \in D : f[x] \in Nat,
           NEW U, IsFiniteSet(U), NEW part \in [U -> SUBSET D],
           \A m, n \in U : m # n => part[m] \cap part[n] = {},
           NEW h, \A m \in U : h[m] = SumOf(f, part[m])
    PROVE  SumOf(h, U) = SumOf(f, UNION {part[m] : m \in U})
<1>. DEFINE All(V)  == UNION {part[m] : m \in V}
            Good(V) == SumOf(h, V) = SumOf(f, All(V))
            C == {V \in SUBSET U : ~ Good(V)}
<1>1. ASSUME C # {}
      PROVE  FALSE
  <2>1. PICK V \in C : \A W \in C : W \subseteq V => W = V
    <3>1. C \in SUBSET (SUBSET U)
      OBVIOUS
    <3>. HIDE DEF C
    <3>. QED
      BY <1>1, <3>1, SmallestSubset
  <2>2. V \in SUBSET U /\ ~ Good(V)
    OBVIOUS
  <2>3. V # {}
    <3>1. All({}) = {}
      OBVIOUS
    <3>2. Good({})
      BY <3>1, SumEmpty
    <3>. QED
      BY <2>2, <3>2
  <2>4. PICK x \in V : TRUE
    BY <2>3
  <2>. DEFINE W == V \ {x}
  <2>5. W \in SUBSET U /\ W \subseteq V /\ W # V /\ x \in U
    BY <2>2, <2>4
  <2>6. Good(W)
    <3>1. W \notin C
      <4>. HIDE DEF C, W
      <4>. QED
        BY <2>1, <2>5
    <3>. HIDE DEF Good, W
    <3>. QED
      BY <2>5, <3>1
  <2>7. All(V) = part[x] \cup All(W)
    BY <2>4
  <2>8. part[x] \cap All(W) = {}
    BY <2>2, <2>5
  <2>9. All(W) \in SUBSET D /\ part[x] \in SUBSET D
    BY <2>2, <2>5
  <2>10. IsFiniteSet(V) /\ IsFiniteSet(All(W)) /\ IsFiniteSet(part[x])
    <3>. HIDE DEF All
    <3>. QED
      BY <2>2, <2>9, FS_Subset
  <2>11. \A m \in V : h[m] \in Nat
    <3>1. ASSUME NEW m \in V PROVE h[m] \in Nat
      <4>1. part[m] \in SUBSET D /\ IsFiniteSet(part[m]) /\ h[m] = SumOf(f, part[m])
        BY <2>2, FS_Subset
      <4>. QED
        BY <4>1, SumType
    <3>. QED
      BY <3>1
  <2>. HIDE DEF All, C
  <2>12. SumOf(h, V) = h[x] + SumOf(h, W)
    BY <2>4, <2>10, <2>11, SumSplits
  <2>13. SumOf(f, part[x] \cup All(W)) = SumOf(f, part[x]) + SumOf(f, All(W))
    <3>1. \A z \in part[x] \cup All(W) : f[z] \in Nat
      BY <2>9
    <3>. HIDE DEF W
    <3>. QED
      BY <2>8, <2>10, <3>1, SumUnion
  <2>14. Good(V)
    BY <2>5, <2>6, <2>7, <2>12, <2>13
  <2>. QED
    BY <2>2, <2>14
<1>2. U \notin C
  BY <1>1
<1>. QED
  BY <1>2

-----------------------------------------------------------------------------
(* The usage roll-up. *)

\* What the records are, and today's date.
Records ==
    /\ today \in Nat
    /\ rows \in Seq([model : Models, tokens : 0..MaxCost,
                     cost : (0..MaxCost) \cup {Usage!Unknown}, day : Nat])
    /\ Len(rows) <= MaxRows

\* What a record adds to a sum: SUM ignores NULL.
Costs == [i \in DOMAIN rows |-> IF rows[i].cost = Usage!Unknown THEN 0 ELSE rows[i].cost]

\* The sums of the model are sums over functions.
AddUpCosts(g, s) ==
    IF s = {} THEN 0
    ELSE (IF rows[First(s)].cost = Usage!Unknown THEN 0 ELSE rows[First(s)].cost) + g[s \ {First(s)}]

\* The sum of the model adds up the same.
LEMMA SumIsSumOf ==
    ASSUME NEW S \in SUBSET (DOMAIN rows), IsFiniteSet(S)
    PROVE  Usage!Sum(S) = SumOf(Costs, S)
<1>1. Usage!Sum(S) = (CHOOSE g : g = [s \in SUBSET S |-> AddUpCosts(g, s)])[S]
  BY Zenon DEF Usage!Sum, Usage!MapThenSumSet, Usage!MapThenFoldSet, AddUpCosts, First
<1>2. ASSUME NEW g
      PROVE  [s \in SUBSET S |-> AddUpCosts(g, s)] = [s \in SUBSET S |-> AddUp(Costs, g, s)]
  <2>1. ASSUME NEW s \in SUBSET S PROVE AddUpCosts(g, s) = AddUp(Costs, g, s)
    <3>1. s # {} => First(s) \in DOMAIN rows
      BY DEF First
    <3>. QED
      BY <3>1 DEF AddUpCosts, AddUp, Costs
  <2>. QED
    BY <2>1
<1>. DEFINE sol == CHOOSE g : g = [s \in SUBSET S |-> AddUpCosts(g, s)]
            std == CHOOSE g : AddsUp(Costs, S, g)
<1>3. sol = [s \in SUBSET S |-> AddUpCosts(sol, s)]
  <2>1. PICK g : AddsUp(Costs, S, g)
    BY SumExists
  <2>2. g = [s \in SUBSET S |-> AddUpCosts(g, s)]
    BY <1>2, <2>1, Zenon DEF AddsUp
  <2>. QED
    BY <2>2, Zenon
<1>4. AddsUp(Costs, S, std)
  BY SumExists, Zenon
<1>. HIDE DEF sol, std
<1>5. AddsUp(Costs, S, sol)
  BY <1>2, <1>3, Zenon DEF AddsUp
<1>6. S \in SUBSET (S \cap S)
  OBVIOUS
<1>7. sol[S] = std[S]
  BY <1>4, <1>5, <1>6, SumUnique
<1>. QED
  BY <1>1, <1>7, Zenon DEF sol, std, SumOf

GroupCosts == [m \in Usage!Used |-> Usage!GroupCost(m)]

AddUpModels(g, s) ==
    IF s = {} THEN 0 ELSE Usage!ByModel[First(s)].cost + g[s \ {First(s)}]

\* What a group of calls costs.
LEMMA CostByModel ==
    ASSUME NEW m \in Usage!Used
    PROVE  Usage!ByModel[m].cost = GroupCosts[m] /\ GroupCosts[m] = Usage!GroupCost(m)
BY DEF Usage!ByModel, GroupCosts

\* What all calls cost.
LEMMA TotalIsSumOf ==
    ASSUME IsFiniteSet(Usage!Used)
    PROVE  Usage!MapThenSumSet(LAMBDA m : Usage!ByModel[m].cost, Usage!Used) = SumOf(GroupCosts, Usage!Used)
<1>. DEFINE S == Usage!Used
<1>1. Usage!MapThenSumSet(LAMBDA m : Usage!ByModel[m].cost, S)
          = (CHOOSE g : g = [s \in SUBSET S |-> AddUpModels(g, s)])[S]
  BY Zenon DEF Usage!MapThenSumSet, Usage!MapThenFoldSet, AddUpModels, First
<1>2. ASSUME NEW g
      PROVE  [s \in SUBSET S |-> AddUpModels(g, s)] = [s \in SUBSET S |-> AddUp(GroupCosts, g, s)]
  <2>1. ASSUME NEW s \in SUBSET S PROVE AddUpModels(g, s) = AddUp(GroupCosts, g, s)
    <3>1. s # {} => First(s) \in S
      BY DEF First
    <3>. QED
      BY <3>1, CostByModel DEF AddUpModels, AddUp
  <2>. QED
    BY <2>1
<1>. DEFINE sol == CHOOSE g : g = [s \in SUBSET S |-> AddUpModels(g, s)]
            std == CHOOSE g : AddsUp(GroupCosts, S, g)
<1>3. sol = [s \in SUBSET S |-> AddUpModels(sol, s)]
  <2>1. PICK g : AddsUp(GroupCosts, S, g)
    BY SumExists
  <2>2. g = [s \in SUBSET S |-> AddUpModels(g, s)]
    BY <1>2, <2>1, Zenon DEF AddsUp
  <2>. QED
    BY <2>2, Zenon
<1>4. AddsUp(GroupCosts, S, std)
  BY SumExists, Zenon
<1>. HIDE DEF sol, std
<1>5. AddsUp(GroupCosts, S, sol)
  BY <1>2, <1>3, Zenon DEF AddsUp
<1>6. S \in SUBSET (S \cap S)
  OBVIOUS
<1>7. sol[S] = std[S]
  BY <1>4, <1>5, <1>6, SumUnique
<1>. QED
  BY <1>1, <1>7, Zenon DEF sol, std, SumOf

\* The groups of the models in use are the parts of what is recent, and small enough for
\* their costs never to look unknown.
LEMMA Groups ==
    ASSUME Records
    PROVE  /\ Usage!Recent \in SUBSET (DOMAIN rows) /\ IsFiniteSet(Usage!Recent)
           /\ Cardinality(Usage!Recent) <= MaxRows
           /\ IsFiniteSet(Usage!Used)
           /\ \A i \in Usage!Recent : rows[i].model \in Usage!Used
           /\ \A i \in DOMAIN rows : Costs[i] \in 0..MaxCost
<1>1. /\ DOMAIN rows = 1..Len(rows) /\ Len(rows) \in Nat /\ Len(rows) <= MaxRows
      /\ MaxRows \in Nat /\ MaxCost \in Nat
      /\ \A i \in DOMAIN rows :
            rows[i].model \in Models /\ rows[i].cost \in (0..MaxCost) \cup {Usage!Unknown}
  <2>. DEFINE R == [model : Models, tokens : 0..MaxCost,
                    cost : (0..MaxCost) \cup {Usage!Unknown}, day : Nat]
  <2>1. rows \in Seq(R) /\ Len(rows) <= MaxRows /\ MaxRows \in Nat /\ MaxCost \in Nat
    BY BoundsAssumption DEF Records, Usage!BoundsAssumption
  <2>2. \A r \in R : r.model \in Models /\ r.cost \in (0..MaxCost) \cup {Usage!Unknown}
    OBVIOUS
  <2>. HIDE DEF R
  <2>3. DOMAIN rows = 1..Len(rows) /\ Len(rows) \in Nat /\ \A i \in DOMAIN rows : rows[i] \in R
    BY <2>1
  <2>. QED
    BY <2>1, <2>2, <2>3
<1>2. Usage!Recent \in SUBSET (1..Len(rows))
  BY <1>1 DEF Usage!Recent
<1>3. IsFiniteSet(1..Len(rows)) /\ Cardinality(1..Len(rows)) = Len(rows)
  <2>1. \A n \in Nat : IsFiniteSet(1..n) /\ Cardinality(1..n) = n
    <3>1. ASSUME NEW n \in Nat PROVE IsFiniteSet(1..n) /\ Cardinality(1..n) = n
      <4>1. IsFiniteSet(1..n) /\ Cardinality(1..n) = IF 1 > n THEN 0 ELSE n - 1 + 1
        BY FS_Interval
      <4>. QED
        BY <4>1
    <3>. QED
      BY <3>1
  <2>. QED
    BY <1>1, <2>1
<1>4. /\ IsFiniteSet(Usage!Recent) /\ Cardinality(Usage!Recent) \in Nat
      /\ Cardinality(Usage!Recent) <= Len(rows)
  BY <1>2, <1>3, FS_Subset, FS_CardinalityType
<1>5. IsFiniteSet(Usage!Used)
  <2>. DEFINE Some(m) == CHOOSE i \in Usage!Recent : rows[i].model = m
              f == [m \in Usage!Used |-> Some(m)]
  <2>1. ASSUME NEW m \in Usage!Used PROVE Some(m) \in Usage!Recent /\ rows[Some(m)].model = m
    <3>1. \E i \in Usage!Recent : rows[i].model = m
      BY DEF Usage!Used, Usage!Group
    <3>. QED
      BY <3>1, Zenon
  <2>. HIDE DEF Some
  <2>2. f \in Injection(Usage!Used, Usage!Recent)
    BY <2>1 DEF Injection, IsInjective
  <2>. QED
    BY <1>4, <2>2, FS_Injection
<1>6. ASSUME NEW i \in Usage!Recent PROVE rows[i].model \in Usage!Used
  <2>1. i \in DOMAIN rows /\ rows[i].model \in Models
    BY <1>1, <1>2
  <2>. QED
    BY <2>1 DEF Usage!Used, Usage!Group
<1>7. ASSUME NEW i \in DOMAIN rows PROVE Costs[i] \in 0..MaxCost
  BY <1>1 DEF Costs
<1>. QED
  BY <1>1, <1>2, <1>4, <1>5, <1>6, <1>7

\* Known costs never add up to what looks unknown.
LEMMA KnownSum ==
    ASSUME Records, NEW S \in SUBSET Usage!Recent
    PROVE  /\ IsFiniteSet(S) /\ Usage!Sum(S) = SumOf(Costs, S)
           /\ Usage!Sum(S) \in Nat /\ Usage!Sum(S) # Usage!Unknown
<1>1. /\ IsFiniteSet(S) /\ Cardinality(S) \in Nat /\ Cardinality(S) <= MaxRows
      /\ S \in SUBSET (DOMAIN rows)
      /\ MaxRows \in Nat /\ MaxCost \in Nat
  <2>1. /\ Usage!Recent \in SUBSET (DOMAIN rows) /\ IsFiniteSet(Usage!Recent)
        /\ Cardinality(Usage!Recent) <= MaxRows
        /\ Cardinality(Usage!Recent) \in Nat /\ MaxRows \in Nat /\ MaxCost \in Nat
    BY Groups, FS_CardinalityType, BoundsAssumption DEF Usage!BoundsAssumption
  <2>2. IsFiniteSet(S) /\ Cardinality(S) \in Nat /\ Cardinality(S) <= Cardinality(Usage!Recent)
    BY <2>1, FS_Subset, FS_CardinalityType
  <2>. QED
    BY <2>1, <2>2
<1>2. Usage!Sum(S) = SumOf(Costs, S)
  BY <1>1, SumIsSumOf
<1>3. \A i \in S : Costs[i] \in 0..MaxCost
  BY <1>1, Groups
<1>4. SumOf(Costs, S) \in Nat
  <2>1. \A i \in S : Costs[i] \in Nat
    BY <1>1, <1>3
  <2>. QED
    BY <1>1, <2>1, SumType
<1>5. SumOf(Costs, S) <= Cardinality(S) * MaxCost
  BY <1>1, <1>3, SumBounded
<1>. DEFINE c == Cardinality(S)
<1>6. c * MaxCost <= MaxCost * MaxRows /\ c * MaxCost \in Nat /\ MaxCost * MaxRows \in Nat
  <2>1. \A a, b, m \in Nat : a <= b => a * m <= m * b /\ a * m \in Nat /\ m * b \in Nat
    <3>1. ASSUME NEW a \in Nat, NEW b \in Nat, NEW m \in Nat, a <= b
          PROVE  a * m <= m * b /\ a * m \in Nat /\ m * b \in Nat
      <4>1. b - a \in Nat /\ b = a + (b - a)
        BY <3>1
      <4>2. (b - a) * m \in Nat /\ m * b = a * m + (b - a) * m
        BY <4>1
      <4>. QED
        BY <4>2
    <3>. QED
      BY <3>1
  <2>. QED
    BY <1>1, <2>1
<1>. HIDE DEF c
<1>7. SumOf(Costs, S) # MaxCost * MaxRows + 1
  BY <1>4, <1>5, <1>6 DEF c
<1>. QED
  BY <1>1, <1>2, <1>4, <1>7 DEF Usage!Unknown

\* The roll-up of good records.
LEMMA RecordsAddUp ==
    ASSUME Records
    PROVE  NoPartialTotal
<1>. DEFINE Null(i) == rows[i].cost = Usage!Unknown
<1>1. CASE \E i \in Usage!Recent : Null(i)
  <2>1. PICK i \in Usage!Recent : Null(i)
    BY <1>1
  <2>. DEFINE m == rows[i].model
  <2>2. m \in Usage!Used /\ i \in Usage!Group(m)
    BY Groups DEF Usage!Group
  <2>3. Usage!GroupCost(m) = Usage!Unknown
    BY <2>1, <2>2 DEF Usage!GroupCost
  <2>4. Usage!ByModel[m].cost = Usage!Unknown
    BY <2>2, <2>3, CostByModel
  <2>5. Usage!TotalCost = Usage!Unknown
    BY <2>2, <2>4, Zenon DEF Usage!TotalCost
  <2>. QED
    BY <1>1, <2>5, Zenon DEF NoPartialTotal, Usage!NoPartialTotal
<1>2. CASE ~ \E i \in Usage!Recent : Null(i)
  <2>1. ASSUME NEW m \in Usage!Used
        PROVE  /\ Usage!Group(m) \in SUBSET Usage!Recent
               /\ GroupCosts[m] = SumOf(Costs, Usage!Group(m))
               /\ Usage!ByModel[m].cost # Usage!Unknown
    <3>1. Usage!Group(m) \in SUBSET Usage!Recent
      BY DEF Usage!Group
    <3>2. Usage!GroupCost(m) = Usage!Sum(Usage!Group(m))
      BY <1>2, <3>1 DEF Usage!GroupCost
    <3>. QED
      BY <3>1, <3>2, KnownSum, CostByModel
  <2>2. Usage!TotalCost = SumOf(GroupCosts, Usage!Used)
    <3>1. Usage!TotalCost = Usage!MapThenSumSet(LAMBDA m : Usage!ByModel[m].cost, Usage!Used)
      BY <2>1, Zenon DEF Usage!TotalCost
    <3>2. IsFiniteSet(Usage!Used)
      BY Groups
    <3>. QED
      BY <3>1, <3>2, TotalIsSumOf, Zenon
  <2>. DEFINE part == [m \in Usage!Used |-> Usage!Group(m)]
  <2>3. /\ part \in [Usage!Used -> SUBSET Usage!Recent]
        /\ \A m \in Usage!Used : GroupCosts[m] = SumOf(Costs, part[m])
    BY <2>1
  <2>4. \A m, n \in Usage!Used : m # n => part[m] \cap part[n] = {}
    BY DEF Usage!Group
  <2>5. UNION {part[m] : m \in Usage!Used} = Usage!Recent
    <3>1. \A i \in Usage!Recent : i \in part[rows[i].model] /\ rows[i].model \in Usage!Used
      BY Groups DEF Usage!Group
    <3>2. \A m \in Usage!Used : part[m] \in SUBSET Usage!Recent
      BY <2>3
    <3>. HIDE DEF part
    <3>. QED
      BY <3>1, <3>2, Zenon
  <2>6. /\ IsFiniteSet(Usage!Recent) /\ IsFiniteSet(Usage!Used)
        /\ \A i \in Usage!Recent : Costs[i] \in Nat
    BY Groups, BoundsAssumption DEF Usage!BoundsAssumption
  <2>. HIDE DEF part
  <2>7. SumOf(GroupCosts, Usage!Used) = SumOf(Costs, UNION {part[m] : m \in Usage!Used})
    BY <2>3, <2>4, <2>6, SumOfParts
  <2>8. Usage!TotalCost = Usage!Sum(Usage!Recent)
    BY <2>2, <2>5, <2>7, KnownSum
  <2>. QED
    BY <1>2, <2>8, Zenon DEF NoPartialTotal, Usage!NoPartialTotal
<1>. QED
  BY <1>1, <1>2

\* "A partial sum presented as the total would be a lie": whatever was recorded while prices
\* came and went, a total is shown exactly when every call in the window has a cost, and
\* it is their sum.
THEOREM NoPartialTotalHolds == Usage!Spec => []NoPartialTotal
<1>1. Usage!Init => Records
  <2>. SUFFICES ASSUME Usage!Init PROVE Records
    OBVIOUS
  <2>. QED
    BY BoundsAssumption DEF Usage!Init, Records, Usage!BoundsAssumption
<1>2. Records /\ [Usage!Next]_(Usage!vars) => Records'
  <2>. SUFFICES ASSUME Records, [Usage!Next]_(Usage!vars) PROVE Records'
    OBVIOUS
  <2>1. ASSUME NEW m \in Models, NEW n \in 0..MaxCost, Usage!Record(m, n) PROVE Records'
    <3>. DEFINE R == [model : Models, tokens : 0..MaxCost,
                      cost : (0..MaxCost) \cup {Usage!Unknown}, day : Nat]
                new == [model |-> m, tokens |-> n, cost |-> Usage!Cost(n), day |-> today]
    <3>1. /\ rows \in Seq(R) /\ Len(rows) < MaxRows /\ MaxRows \in Nat
          /\ rows' = Append(rows, new) /\ today' = today /\ today \in Nat
      BY <2>1, BoundsAssumption DEF Records, Usage!Record, Usage!BoundsAssumption
    <3>2. new \in R
      BY <3>1 DEF Usage!Cost
    <3>. HIDE DEF R, new
    <3>3. rows' \in Seq(R) /\ Len(rows') = Len(rows) + 1 /\ Len(rows) \in Nat
      BY <3>1, <3>2
    <3>4. Len(rows') <= MaxRows
      BY <3>1, <3>3
    <3>. QED
      BY <3>1, <3>3, <3>4 DEF Records, R, Usage!Unknown
  <2>2. CASE Usage!Configure \/ Usage!NextDay \/ UNCHANGED Usage!vars
    BY <2>2 DEF Records, Usage!Configure, Usage!NextDay, Usage!vars, Usage!Unknown
  <2>. QED
    BY <2>1, <2>2 DEF Usage!Next
<1>. QED
  BY <1>1, <1>2, RecordsAddUp, PTL DEF Usage!Spec

-----------------------------------------------------------------------------
(* What sequences hold, and functions defined along another. *)

\* A function that is defined along `prev`, each value from an earlier one, exists.
WellFounded(N, V, c, prev, rule) ==
    /\ N \in Nat /\ c \in V
    /\ \A n \in 1..N : prev[n] \in 0..(n - 1) /\ \A v \in V : rule[n][v] \in V
Follows(g, N, V, c, prev, rule) ==
    g \in [0..N -> V] /\ g[0] = c /\ \A n \in 1..N : g[n] = rule[n][g[prev[n]]]

\* By the smallest number up to which no solution exists.
LEMMA RecursionExists ==
    ASSUME NEW N, NEW V, NEW c, NEW prev, NEW rule, WellFounded(N, V, c, prev, rule)
    PROVE  \E g : Follows(g, N, V, c, prev, rule)
<1>. USE DEF WellFounded
<1>. DEFINE Sol(m) == \E g \in [0..m -> V] : g[0] = c /\ \A n \in 1..m : g[n] = rule[n][g[prev[n]]]
            Bad    == {m \in 0..N : ~ Sol(m)}
<1>1. Sol(0)
  <2>1. [i \in 0..0 |-> c] \in [0..0 -> V] /\ [i \in 0..0 |-> c][0] = c /\ 1..0 = {}
    OBVIOUS
  <2>. QED
    BY <2>1
<1>2. ASSUME NEW m \in 1..N, Sol(m - 1) PROVE Sol(m)
  <2>1. PICK g \in [0..(m - 1) -> V] :
            g[0] = c /\ \A n \in 1..(m - 1) : g[n] = rule[n][g[prev[n]]]
    BY <1>2
  <2>. DEFINE h == [i \in 0..m |-> IF i = m THEN rule[m][g[prev[m]]] ELSE g[i]]
  <2>2. prev[m] \in 0..(m - 1) /\ rule[m][g[prev[m]]] \in V
    OBVIOUS
  <2>3. h \in [0..m -> V] /\ \A i \in 0..(m - 1) : h[i] = g[i] /\ h[m] = rule[m][g[prev[m]]]
    <3>1. \A i \in 0..m : i = m \/ i \in 0..(m - 1)
      OBVIOUS
    <3>2. \A i \in 0..(m - 1) : i \in 0..m /\ i # m
      OBVIOUS
    <3>. QED
      BY <2>2, <3>1, <3>2
  <2>. HIDE DEF h
  <2>4. ASSUME NEW n \in 1..m PROVE h[n] = rule[n][h[prev[n]]]
    <3>1. CASE n = m
      BY <2>2, <2>3, <3>1
    <3>2. CASE n # m
      <4>1. n \in 1..(m - 1) /\ n \in 1..N /\ n \in 0..(m - 1)
        BY <3>2
      <4>2. prev[n] \in 0..(m - 1)
        BY <4>1
      <4>. QED
        BY <2>1, <2>3, <4>1, <4>2
    <3>. QED
      BY <3>1, <3>2
  <2>5. h[0] = c
    BY <2>1, <2>3
  <2>. QED
    BY <2>3, <2>4, <2>5
<1>3. Bad = {}
  <2>. SUFFICES ASSUME Bad # {} PROVE FALSE
    OBVIOUS
  <2>1. Bad \in SUBSET Nat
    OBVIOUS
  <2>. HIDE DEF Bad
  <2>2. PICK m \in Bad : \A y \in Bad : m <= y
    BY <2>1, LeastNat
  <2>. USE DEF Bad
  <2>. HIDE DEF Sol
  <2>3. m \in 0..N /\ ~ Sol(m) /\ m # 0
    BY <1>1, <2>2
  <2>4. m \in 1..N /\ m - 1 \in 0..N /\ ~ m <= m - 1
    BY <2>3
  <2>5. Sol(m - 1)
    BY <2>2, <2>4
  <2>. QED
    BY <1>2, <2>3, <2>4, <2>5
<1>4. Sol(N)
  <2>. HIDE DEF Sol
  <2>. QED
    BY <1>3
<1>. QED
  BY <1>4 DEF Follows

-----------------------------------------------------------------------------
(* The heading stack of the Markdown and the HTML parser. *)

\* Of the headings H, with their levels, those that no later one has closed; the path of
\* them in s; and what is left of s when a heading of level x pops.
OpenOf(H, lev)       == {h \in H : \A g \in H : h < g => lev[h] < lev[g]}
IsPath(s, H, lev)    ==
    /\ s \in Seq(H)
    /\ \A i, j \in DOMAIN s : i < j => s[i] < s[j] /\ lev[s[i]] < lev[s[j]]
    /\ \A h : h \in ToSet(s) <=> h \in OpenOf(H, lev)
PopTo(s, lev, x)     == {k \in 0..Len(s) : \A i \in (k + 1)..Len(s) : lev[s[i]] >= x}
PopAbove(s, lev, x)  == SubSeq(s, 1, CHOOSE k \in PopTo(s, lev, x) : \A j \in PopTo(s, lev, x) : k <= j)

\* The while loop leaves the part of the path of a lower level.
LEMMA PopAboveIs ==
    ASSUME NEW H \in SUBSET Nat, NEW D, NEW lev \in [D -> Nat], H \subseteq D, NEW x \in Nat,
           NEW s, IsPath(s, H, lev)
    PROVE  \E k \in 0..Len(s) :
               /\ PopAbove(s, lev, x) = SubSeq(s, 1, k)
               /\ \A i \in 1..Len(s) : i <= k <=> lev[s[i]] < x
<1>. DEFINE L    == Len(s)
            kept == PopTo(s, lev, x)
            k0   == CHOOSE k \in kept : \A j \in kept : k <= j
<1>1. /\ L \in Nat /\ s \in Seq(H) /\ DOMAIN s = 1..L
      /\ \A i, j \in 1..L : i < j => lev[s[i]] < lev[s[j]]
      /\ \A i \in 1..L : lev[s[i]] \in Nat
  <2>1. L \in Nat /\ s \in Seq(H) /\ DOMAIN s = 1..L
    BY DEF IsPath
  <2>2. ASSUME NEW i \in 1..L PROVE lev[s[i]] \in Nat
    <3>1. s[i] \in H
      BY <2>1
    <3>2. s[i] \in D
      BY <3>1
    <3>. QED
      BY <3>2
  <2>. QED
    BY <2>1, <2>2 DEF IsPath
<1>2. \A k : k \in kept <=> k \in 0..L /\ \A i \in (k + 1)..L : lev[s[i]] >= x
  BY DEF PopTo
<1>3. PopAbove(s, lev, x) = SubSeq(s, 1, k0)
  BY DEF PopAbove
<1>4. k0 \in kept /\ \A j \in kept : k0 <= j
  <2>1. L \in kept /\ kept \subseteq Nat
    BY <1>1, <1>2
  <2>. HIDE DEF kept
  <2>2. \E k \in kept : \A j \in kept : k <= j
    BY <2>1, LeastNat
  <2>. QED
    BY <2>2
<1>. HIDE DEF k0, kept
<1>5. k0 \in 0..L /\ \A i \in 1..L : i > k0 => lev[s[i]] >= x
  BY <1>1, <1>2, <1>4
<1>6. ASSUME NEW i \in 1..L, i <= k0 PROVE lev[s[i]] < x
  <2>1. k0 - 1 \in 0..L /\ k0 \in 1..L /\ ~ k0 <= k0 - 1
    BY <1>1, <1>5, <1>6
  <2>2. k0 - 1 \notin kept
    BY <1>4, <2>1
  <2>3. PICK j \in k0..L : ~ lev[s[j]] >= x
    <3>1. (k0 - 1) + 1 = k0
      BY <2>1
    <3>2. ~ \A j \in ((k0 - 1) + 1)..L : lev[s[j]] >= x
      BY <1>2, <2>1, <2>2, Zenon
    <3>. QED
      BY <3>1, <3>2
  <2>4. j \in 1..L /\ ~ j > k0
    BY <1>1, <1>5, <2>1, <2>3
  <2>5. j = k0
    BY <2>1, <2>3, <2>4
  <2>6. lev[s[k0]] < x
    BY <1>1, <2>1, <2>3, <2>5
  <2>7. i = k0 \/ lev[s[i]] < lev[s[k0]]
    <3>1. i < k0 \/ i = k0
      BY <1>6, <2>1
    <3>. QED
      BY <1>1, <2>1, <3>1
  <2>. QED
    BY <1>1, <2>1, <2>6, <2>7
<1>7. \A i \in 1..L : i <= k0 <=> lev[s[i]] < x
  BY <1>1, <1>5, <1>6
<1>. QED
  BY <1>3, <1>5, <1>7

\* A sequence of some numbers is a sequence of numbers.
LEMMA SeqOfNat ==
    ASSUME NEW S \in SUBSET Nat, NEW s \in Seq(S)
    PROVE  s \in Seq(Nat)
<1>1. Len(s) \in Nat /\ s = [i \in 1..Len(s) |-> s[i]] /\ \A i \in 1..Len(s) : s[i] \in S
  OBVIOUS
<1>2. \A i \in 1..Len(s) : s[i] \in Nat
  BY <1>1
<1>. QED
  BY <1>1, <1>2

\* What a longer sequence holds.
LEMMA AppendHolds ==
    ASSUME NEW S, NEW s \in Seq(S), NEW x
    PROVE  /\ ToSet(Append(s, x)) = ToSet(s) \cup {x}
           /\ DOMAIN Append(s, x) = 1..(Len(s) + 1) /\ DOMAIN s = 1..Len(s) /\ Len(s) \in Nat
           /\ \A i \in DOMAIN s : Append(s, x)[i] = s[i]
           /\ Append(s, x)[Len(s) + 1] = x
<1>1. /\ DOMAIN Append(s, x) = 1..(Len(s) + 1) /\ DOMAIN s = 1..Len(s) /\ Len(s) \in Nat
      /\ \A i \in DOMAIN s : Append(s, x)[i] = s[i]
      /\ Append(s, x)[Len(s) + 1] = x
  OBVIOUS
<1>2. ToSet(Append(s, x)) \subseteq ToSet(s) \cup {x}
  BY <1>1 DEF ToSet
<1>3. ToSet(s) \cup {x} \subseteq ToSet(Append(s, x))
  <2>1. \A i \in 1..Len(s) : i \in 1..(Len(s) + 1)
    BY <1>1
  <2>2. Len(s) + 1 \in 1..(Len(s) + 1)
    BY <1>1
  <2>. QED
    BY <1>1, <2>1, <2>2 DEF ToSet
<1>. QED
  BY <1>1, <1>2, <1>3

\* What a sequence holds that is cut short and then appended to.
LEMMA PrefixAppended ==
    ASSUME NEW S, NEW s \in Seq(S), NEW k \in 0..Len(s), NEW x
    PROVE  LET t == Append(SubSeq(s, 1, k), x)
           IN  /\ k \in Nat /\ t \in Seq(S \cup {x}) /\ DOMAIN t = 1..(k + 1)
               /\ \A i \in 1..k : t[i] = s[i] /\ i \in 1..Len(s)
               /\ t[k + 1] = x
               /\ \A h : h \in ToSet(t) <=> h = x \/ \E i \in 1..k : h = s[i]
<1>. DEFINE t == Append(SubSeq(s, 1, k), x)
<1>1. /\ k \in Nat /\ SubSeq(s, 1, k) \in Seq(S) /\ Len(SubSeq(s, 1, k)) = k
      /\ \A i \in 1..k : SubSeq(s, 1, k)[i] = s[i] /\ i \in 1..Len(s)
  OBVIOUS
<1>2. PICK u : u = SubSeq(s, 1, k)
  OBVIOUS
<1>3. u \in Seq(S) /\ Len(u) = k /\ t = Append(u, x) /\ \A i \in 1..k : u[i] = s[i]
  BY <1>1, <1>2
<1>. HIDE DEF t
<1>4. /\ t \in Seq(S \cup {x}) /\ DOMAIN t = 1..(k + 1) /\ \A i \in 1..k : t[i] = s[i]
      /\ t[k + 1] = x /\ ToSet(t) = ToSet(u) \cup {x} /\ DOMAIN u = 1..k
  <2>1. /\ ToSet(t) = ToSet(u) \cup {x} /\ DOMAIN t = 1..(Len(u) + 1) /\ DOMAIN u = 1..Len(u)
        /\ \A i \in DOMAIN u : t[i] = u[i]
        /\ t[Len(u) + 1] = x
    <3>1. /\ ToSet(Append(u, x)) = ToSet(u) \cup {x}
          /\ DOMAIN Append(u, x) = 1..(Len(u) + 1) /\ DOMAIN u = 1..Len(u)
          /\ \A i \in DOMAIN u : Append(u, x)[i] = u[i]
          /\ Append(u, x)[Len(u) + 1] = x
      <4>1. u \in Seq(S)
        BY <1>3
      <4>. QED
        BY <4>1, AppendHolds
    <3>. QED
      BY <1>3, <3>1
  <2>2. t \in Seq(S \cup {x})
    <3>1. u \in Seq(S \cup {x})
      BY <1>3
    <3>. QED
      BY <1>3, <3>1
  <2>. QED
    BY <1>3, <2>1, <2>2
<1>5. \A h : h \in ToSet(u) <=> \E i \in 1..k : h = s[i]
  BY <1>3, <1>4 DEF ToSet
<1>6. \A h : h \in ToSet(t) <=> h = x \/ \E i \in 1..k : h = s[i]
  BY <1>4, <1>5
<1>. QED
  BY <1>1, <1>4, <1>6 DEF t

\* A heading pops and is pushed: the path goes on.
LEMMA PathGrows ==
    ASSUME NEW H \in SUBSET Nat, NEW D, NEW lev \in [D -> Nat], H \subseteq D,
           NEW n \in Nat, n \in D, \A h \in H : h < n,
           NEW s, IsPath(s, H, lev)
    PROVE  IsPath(Append(PopAbove(s, lev, lev[n]), n), H \cup {n}, lev)
<1>1. PICK k \in 0..Len(s) :
          /\ PopAbove(s, lev, lev[n]) = SubSeq(s, 1, k)
          /\ \A i \in 1..Len(s) : i <= k <=> lev[s[i]] < lev[n]
  <2>1. lev[n] \in Nat
    OBVIOUS
  <2>. QED
    BY <2>1, PopAboveIs
<1>2. PICK t : t = Append(PopAbove(s, lev, lev[n]), n)
  OBVIOUS
<1>3. /\ Len(s) \in Nat /\ s \in Seq(H) /\ DOMAIN s = 1..Len(s)
      /\ \A i, j \in 1..Len(s) : i < j => s[i] < s[j] /\ lev[s[i]] < lev[s[j]]
      /\ \A i \in 1..Len(s) : s[i] \in H
      /\ \A h : h \in ToSet(s) <=> h \in OpenOf(H, lev)
  BY DEF IsPath
<1>4. /\ k \in Nat /\ t \in Seq(H \cup {n}) /\ DOMAIN t = 1..(k + 1)
      /\ \A i \in 1..k : t[i] = s[i] /\ i \in 1..Len(s)
      /\ t[k + 1] = n
      /\ \A h : h \in ToSet(t) <=> h = n \/ \E i \in 1..k : h = s[i]
  <2>1. s \in Seq(H) /\ t = Append(SubSeq(s, 1, k), n)
    BY <1>1, <1>2, <1>3
  <2>. QED
    BY <2>1, PrefixAppended
<1>5. ASSUME NEW x \in 1..(k + 1), NEW y \in 1..(k + 1), x < y
      PROVE  t[x] < t[y] /\ lev[t[x]] < lev[t[y]]
  <2>0. k \in Nat
    BY <1>4
  <2>1. x \in 1..k /\ (y \in 1..k \/ y = k + 1)
    BY <1>5, <2>0
  <2>2. x \in 1..Len(s) /\ x <= k /\ t[x] = s[x] /\ s[x] \in H
    BY <1>3, <1>4, <2>0, <2>1
  <2>3. CASE y \in 1..k
    BY <1>3, <1>4, <1>5, <2>2, <2>3
  <2>4. CASE y = k + 1
    BY <1>1, <1>4, <2>2, <2>4
  <2>. QED
    BY <2>1, <2>3, <2>4
<1>6. ASSUME NEW h
      PROVE  (\E i \in 1..k : h = s[i]) <=> h \in OpenOf(H, lev) /\ lev[h] < lev[n]
  <2>1. h \in OpenOf(H, lev) <=> \E i \in 1..Len(s) : h = s[i]
    BY <1>3 DEF ToSet
  <2>2. \A i \in 1..k : i \in 1..Len(s) /\ lev[s[i]] < lev[n]
    BY <1>1, <1>4
  <2>3. \A i \in 1..Len(s) : lev[s[i]] < lev[n] => i \in 1..k
    BY <1>1, <1>4
  <2>. QED
    BY <2>1, <2>2, <2>3
<1>7. ASSUME NEW h
      PROVE  h \in OpenOf(H \cup {n}, lev) <=> h = n \/ (h \in OpenOf(H, lev) /\ lev[h] < lev[n])
  <2>1. \A g \in H : g < n /\ ~ n < g /\ g # n
    OBVIOUS
  <2>2. h \in OpenOf(H \cup {n}, lev)
          <=> h \in H \cup {n} /\ \A g \in H \cup {n} : h < g => lev[h] < lev[g]
    BY Zenon DEF OpenOf
  <2>3. h \in OpenOf(H, lev) <=> h \in H /\ \A g \in H : h < g => lev[h] < lev[g]
    BY Zenon DEF OpenOf
  <2>4. CASE h = n
    <3>1. ~ n < n
      OBVIOUS
    <3>. QED
      BY <2>1, <2>2, <2>4, <3>1
  <2>5. CASE h \in H
    <3>1. h < n /\ h # n
      BY <2>1, <2>5
    <3>. QED
      BY <2>2, <2>3, <2>5, <3>1
  <2>. QED
    BY <2>2, <2>3, <2>4, <2>5
<1>8. \A h : h \in ToSet(t) <=> h \in OpenOf(H \cup {n}, lev)
  BY <1>4, <1>6, <1>7, Zenon
<1>9. \A i, j \in DOMAIN t : i < j => t[i] < t[j] /\ lev[t[i]] < lev[t[j]]
  BY <1>4, <1>5, Zenon
<1>. QED
  BY <1>2, <1>4, <1>8, <1>9, Zenon DEF IsPath

-----------------------------------------------------------------------------
(* The Markdown parser. *)

LineLevels == [n \in 1..Len(lines) |-> lines[n].level]

\* A block, and where the scan stands.
ScanTypes ==
    /\ lines \in Seq(Parser!Line)
    /\ at \in 1..(Len(lines) + 1)
    /\ buf \in Seq(1..Len(lines))
    /\ blocks \in Seq([text : Seq(1..Len(lines)), path : Seq(Nat)])
    /\ scan # "scan" => buf = <<>> /\ at > Len(lines)

\* The lines that are in the buffer or in a block.
Text(i) == ToSet(blocks[i].text)
Filed   == ToSet(buf) \cup UNION {Text(i) : i \in DOMAIN blocks}

\* Every line that was scanned is filed once, or a heading, or blank.
FiledOnce ==
    /\ \A n \in Filed : n \in 1..(at - 1)
    /\ \A i \in DOMAIN blocks : ToSet(buf) \cap Text(i) = {}
    /\ \A i \in DOMAIN blocks : Text(i) # {}
    /\ \A i, j \in DOMAIN blocks : i # j => Text(i) \cap Text(j) = {}
    /\ \A n \in 1..(at - 1) : Parser!Kind(n) \in {"heading", "blank"} \/ n \in Filed

\* The stack is the path of the headings so far, which come before the buffer.
StackIsPath ==
    /\ IsPath(stack, Parser!Headings, LineLevels)
    /\ \A n \in ToSet(buf) : \A h \in Parser!Headings : h < n

\* The i-th block has the path of the headings above it, wherever in it one looks.
Above(n) == {h \in Parser!Headings : h < n}
PathIsEnclosing(i) ==
    \E H : IsPath(blocks[i].path, H, LineLevels) /\ \A n \in Text(i) : Above(n) = H

ScanInv == ScanTypes /\ FiledOnce /\ StackIsPath /\ \A i \in DOMAIN blocks : PathIsEnclosing(i)

\* The headings are the heading lines that are not filed.
LEMMA HeadingsAre ==
    /\ \A n : n \in Parser!Headings <=> n \in 1..(at - 1) /\ Parser!Kind(n) = "heading" /\ n \notin Filed
    /\ \A n : n \in Parser!Headings' <=>
              n \in 1..(at' - 1) /\ Parser!Kind(n)' = "heading" /\ n \notin Filed'
<1>1. ToSet(blocks) = {blocks[i] : i \in DOMAIN blocks}
      /\ ToSet(blocks') = {blocks'[i] : i \in DOMAIN blocks'}
  BY DEF ToSet
<1>2. \A n : (\A b \in ToSet(blocks) : n \notin ToSet(b.text))
                <=> (\A i \in DOMAIN blocks : n \notin ToSet(blocks[i].text))
  BY <1>1
<1>3. \A n : (\A b \in ToSet(blocks') : n \notin ToSet(b.text))
                <=> (\A i \in DOMAIN blocks' : n \notin ToSet(blocks'[i].text))
  BY <1>1
<1>4. \A n : n \in Filed <=> n \in ToSet(buf) \/ \E i \in DOMAIN blocks : n \in ToSet(blocks[i].text)
  BY DEF Filed, Text
<1>5. \A n : n \in Filed' <=> n \in ToSet(buf') \/ \E i \in DOMAIN blocks' : n \in ToSet(blocks'[i].text)
  BY DEF Filed, Text
<1>6. \A n : n \in Parser!Headings <=>
             n \in 1..(at - 1) /\ Parser!Kind(n) = "heading" /\ n \notin ToSet(buf)
             /\ \A b \in ToSet(blocks) : n \notin ToSet(b.text)
  BY Zenon DEF Parser!Headings, Parser!ToSet, ToSet
<1>7. \A n : n \in Parser!Headings' <=>
             n \in 1..(at' - 1) /\ Parser!Kind(n)' = "heading" /\ n \notin ToSet(buf')
             /\ \A b \in ToSet(blocks') : n \notin ToSet(b.text)
  BY Zenon DEF Parser!Headings, Parser!ToSet, ToSet
<1>8. \A n : n \in Parser!Headings <=> n \in 1..(at - 1) /\ Parser!Kind(n) = "heading" /\ n \notin Filed
  BY <1>2, <1>4, <1>6, Zenon
<1>9. \A n : n \in Parser!Headings' <=>
             n \in 1..(at' - 1) /\ Parser!Kind(n)' = "heading" /\ n \notin Filed'
  BY <1>3, <1>5, <1>7, Zenon
<1>. QED
  BY <1>8, <1>9

\* What the fields of a line are.
LEMMA LineIs ==
    ASSUME ScanTypes
    PROVE  /\ LineLevels \in [1..Len(lines) -> Nat]
           /\ \A n \in 1..Len(lines) : /\ lines[n] \in Parser!Line
                                       /\ LineLevels[n] = Parser!Level(n)
                                       /\ Parser!Kind(n) \in {"text", "blank", "heading", "fence"}
<1>1. ASSUME NEW n \in 1..Len(lines)
      PROVE  /\ lines[n] \in Parser!Line /\ lines[n].level \in Nat
             /\ lines[n].kind \in {"text", "blank", "heading", "fence"}
  <2>1. lines[n] \in Parser!Line
    BY DEF ScanTypes
  <2>2. Levels \subseteq Nat
    BY LinesAssumption DEF Parser!LinesAssumption
  <2>3. \/ lines[n].kind \in {"text", "blank", "fence"} /\ lines[n].level = 0
        \/ lines[n].kind = "heading" /\ lines[n].level \in Levels
    BY <2>1 DEF Parser!Line
  <2>4. lines[n].level \in Nat
    <3>1. 0 \in Nat
      OBVIOUS
    <3>. QED
      BY <2>2, <2>3, <3>1, Zenon
  <2>5. lines[n].kind \in {"text", "blank", "heading", "fence"}
    BY <2>3, Zenon
  <2>. QED
    BY <2>1, <2>4, <2>5
<1>. QED
  BY <1>1 DEF LineLevels, Parser!Level, Parser!Kind

\* A line of text, of code, or a fence.
LEMMA LineKept ==
    ASSUME ScanInv, scan = "scan", at <= Len(lines), Parser!Kind(at) # "heading" \/ inFence,
           buf' = Append(buf, at), at' = at + 1, UNCHANGED <<lines, stack, blocks, scan>>
    PROVE  ScanInv' /\ Parser!Headings' = Parser!Headings
<1>1. /\ buf \in Seq(1..Len(lines)) /\ at \in 1..Len(lines) /\ Len(lines) \in Nat
      /\ at' \in 1..(Len(lines) + 1)
  BY DEF ScanInv, ScanTypes
<1>2. ScanTypes'
  BY <1>1 DEF ScanInv, ScanTypes
<1>3. Filed' = Filed \cup {at} /\ ToSet(buf') = ToSet(buf) \cup {at} /\ \A i : Text(i)' = Text(i)
  BY <1>1, AppendHolds DEF Filed, Text
<1>4. \A n \in Filed : n \in 1..(at - 1)
  BY DEF ScanInv, FiledOnce
<1>5. \A n : Parser!Kind(n)' = Parser!Kind(n) /\ Parser!Level(n)' = Parser!Level(n)
  BY DEF Parser!Kind, Parser!Level
<1>6. FiledOnce'
  <2>1. \A n \in Filed' : n \in 1..(at' - 1)
    BY <1>1, <1>3, <1>4
  <2>2. \A i \in DOMAIN blocks' : ToSet(buf') \cap Text(i)' = {}
    <3>1. \A i \in DOMAIN blocks : at \notin Text(i)
      <4>1. at \notin 1..(at - 1)
        BY <1>1
      <4>. QED
        BY <1>4, <4>1, Zenon DEF Filed
    <3>. QED
      BY <1>3, <3>1 DEF ScanInv, FiledOnce
  <2>3. \A n \in 1..(at' - 1) : Parser!Kind(n)' \in {"heading", "blank"} \/ n \in Filed'
    BY <1>1, <1>3, <1>5 DEF ScanInv, FiledOnce
  <2>. QED
    BY <1>3, <2>1, <2>2, <2>3 DEF ScanInv, FiledOnce
<1>7. Parser!Headings' = Parser!Headings
  <2>1. at' - 1 = at /\ 1..at = 1..(at - 1) \cup {at}
    BY <1>1
  <2>2. \A n : n \in Parser!Headings' <=> n \in Parser!Headings
    BY <1>3, <1>5, <2>1, HeadingsAre
  <2>. QED
    BY <2>2, Zenon
<1>8. LineLevels' = LineLevels /\ \A n : Above(n)' = Above(n)
  BY <1>7 DEF LineLevels, Above
<1>9. StackIsPath'
  <2>1. IsPath(stack, Parser!Headings, LineLevels)'
    BY <1>7, <1>8 DEF ScanInv, StackIsPath
  <2>2. \A n \in ToSet(buf') : \A h \in Parser!Headings' : h < n
    BY <1>1, <1>3, <1>7, HeadingsAre DEF ScanInv, StackIsPath
  <2>. QED
    BY <2>1, <2>2 DEF StackIsPath
<1>10. ASSUME NEW i \in DOMAIN blocks' PROVE PathIsEnclosing(i)'
  BY <1>3, <1>8 DEF ScanInv, PathIsEnclosing
<1>. QED
  BY <1>2, <1>6, <1>7, <1>9, <1>10 DEF ScanInv

\* flush(): what was in the buffer is in a block, or blank.
LEMMA Flushed ==
    ASSUME ScanInv, Parser!Flush, buf' = <<>>, lines' = lines
    PROVE  /\ \A n \in Filed' : n \in Filed
           /\ \A n \in Filed : n \in Filed' \/ Parser!Kind(n) = "blank"
           /\ blocks' \in Seq([text : Seq(1..Len(lines)), path : Seq(Nat)])
           /\ \A i \in DOMAIN blocks' : Text(i)' # {}
           /\ \A i, j \in DOMAIN blocks' : i # j => Text(i)' \cap Text(j)' = {}
           /\ \A i \in DOMAIN blocks' : \/ i \in DOMAIN blocks /\ blocks'[i] = blocks[i]
                                        \/ blocks'[i] = [text |-> buf, path |-> stack]
<1>. DEFINE new == [text |-> buf, path |-> stack]
            Block == [text : Seq(1..Len(lines)), path : Seq(Nat)]
<1>1. blocks \in Seq(Block) /\ new \in Block
  <2>1. stack \in Seq(Nat)
    <3>1. Parser!Headings \subseteq Nat
      BY HeadingsAre DEF ScanInv, ScanTypes
    <3>2. stack \in Seq(Parser!Headings)
      BY DEF ScanInv, StackIsPath, IsPath
    <3>. QED
      BY <3>1, <3>2, SeqOfNat
  <2>. QED
    BY <2>1 DEF ScanInv, ScanTypes
<1>2. ToSet(buf') = {}
  BY DEF ToSet
<1>3. /\ \A i \in DOMAIN blocks : ToSet(buf) \cap Text(i) = {}
      /\ \A i, j \in DOMAIN blocks : i # j => Text(i) \cap Text(j) = {}
  BY DEF ScanInv, FiledOnce
<1>4. CASE \E n \in ToSet(buf) : Parser!Kind(n) # "blank"
  <2>1. blocks' = Append(blocks, new)
    BY <1>4, Zenon DEF Parser!Flush, Parser!ToSet, ToSet
  <2>. HIDE DEF new, Block
  <2>0. PICK N \in Nat : N = Len(blocks)
    BY <1>1
  <2>2. /\ N \in Nat /\ DOMAIN blocks = 1..N /\ DOMAIN blocks' = 1..(N + 1)
        /\ \A i \in 1..N : blocks'[i] = blocks[i]
        /\ blocks'[N + 1] = new /\ blocks' \in Seq(Block)
    BY <1>1, <2>0, <2>1, AppendHolds
  <2>3. /\ \A i \in 1..N : Text(i)' = Text(i)
        /\ Text(N + 1)' = ToSet(buf)
    BY <2>2 DEF Text, new
  <2>4. \A i \in 1..(N + 1) : i \in 1..N \/ i = N + 1
    BY <2>2
  <2>5. \A n : n \in Filed' <=> n \in Filed
    <3>1. \A n : n \in Filed' <=> \E i \in 1..(N + 1) : n \in Text(i)'
      BY <1>2, <2>2 DEF Filed
    <3>2. \A n : n \in Filed <=> n \in ToSet(buf) \/ \E i \in 1..N : n \in Text(i)
      BY <2>2 DEF Filed
    <3>3. N + 1 \in 1..(N + 1) /\ \A i \in 1..N : i \in 1..(N + 1)
      BY <2>2
    <3>4. ASSUME NEW n, n \in Filed PROVE n \in Filed'
      <4>1. CASE n \in ToSet(buf)
        BY <2>3, <3>1, <3>3, <4>1
      <4>2. CASE \E i \in 1..N : n \in Text(i)
        BY <2>3, <3>1, <3>3, <4>2
      <4>. QED
        BY <3>2, <3>4, <4>1, <4>2
    <3>5. ASSUME NEW n, n \in Filed' PROVE n \in Filed
      <4>1. PICK i \in 1..(N + 1) : n \in Text(i)'
        BY <3>1, <3>5
      <4>. QED
        BY <2>3, <2>4, <3>2, <4>1
    <3>. QED
      BY <3>4, <3>5
  <2>6. \A i, j \in DOMAIN blocks' : i # j => Text(i)' \cap Text(j)' = {}
    <3>1. ASSUME NEW i \in 1..(N + 1), NEW j \in 1..(N + 1), i # j
          PROVE  Text(i)' \cap Text(j)' = {}
      <4>1. CASE i \in 1..N /\ j \in 1..N
        <5>1. i \in DOMAIN blocks /\ j \in DOMAIN blocks
          BY <2>2, <4>1
        <5>2. Text(i) \cap Text(j) = {}
          BY <1>3, <3>1, <5>1, Zenon
        <5>. QED
          BY <2>3, <4>1, <5>2, Zenon
      <4>2. CASE i = N + 1 /\ j \in 1..N
        <5>1. ToSet(buf) \cap Text(j) = {}
          BY <1>3, <2>2, <4>2
        <5>2. Text(i)' = ToSet(buf) /\ Text(j)' = Text(j)
          BY <2>3, <4>2
        <5>. QED
          BY <5>1, <5>2
      <4>3. CASE j = N + 1 /\ i \in 1..N
        <5>1. ToSet(buf) \cap Text(i) = {}
          BY <1>3, <2>2, <4>3
        <5>2. Text(j)' = ToSet(buf) /\ Text(i)' = Text(i)
          BY <2>3, <4>3
        <5>. QED
          BY <5>1, <5>2
      <4>. QED
        BY <2>4, <3>1, <4>1, <4>2, <4>3
    <3>. QED
      BY <2>2, <3>1
  <2>7. \A i \in DOMAIN blocks' : Text(i)' # {}
    <3>1. \A i \in 1..N : Text(i) # {}
      BY <2>2 DEF ScanInv, FiledOnce
    <3>2. ToSet(buf) # {}
      BY <1>4
    <3>. QED
      BY <2>2, <2>3, <2>4, <3>1, <3>2
  <2>. QED
    BY <2>2, <2>4, <2>5, <2>6, <2>7 DEF new, Block
<1>5. CASE ~ \E n \in ToSet(buf) : Parser!Kind(n) # "blank"
  <2>1. blocks' = blocks
    BY <1>5, Zenon DEF Parser!Flush, Parser!ToSet, ToSet
  <2>2. \A i : Text(i)' = Text(i)
    BY <2>1 DEF Text
  <2>. QED
    BY <1>1, <1>2, <1>3, <1>5, <2>1, <2>2 DEF Filed, ScanInv, FiledOnce
<1>. QED
  BY <1>4, <1>5


\* Blocks keep their path, and the one that is flushed has that of its lines.
LEMMA PathsKept ==
    ASSUME ScanInv, Parser!Flush, buf' = <<>>, lines' = lines,
           \A h : h \in Parser!Headings' /\ h # at <=> h \in Parser!Headings
    PROVE  \A i \in DOMAIN blocks' : PathIsEnclosing(i)'
<1>1. /\ \A n \in Filed : n < at
      /\ \A h \in Parser!Headings : h \in Nat
      /\ LineLevels' = LineLevels
  BY HeadingsAre DEF ScanInv, ScanTypes, FiledOnce, LineLevels
<1>2. ASSUME NEW n \in Filed PROVE Above(n)' = Above(n)
  <2>1. ~ at < n
    BY <1>1 DEF ScanInv, ScanTypes, FiledOnce
  <2>2. \A h : h \in Parser!Headings' /\ h < n <=> h \in Parser!Headings /\ h < n
    BY <2>1
  <2>. QED
    BY <2>2 DEF Above
<1>3. ASSUME NEW i \in DOMAIN blocks' PROVE PathIsEnclosing(i)'
  <2>1. CASE i \in DOMAIN blocks /\ blocks'[i] = blocks[i]
    <3>1. Text(i)' = Text(i) /\ Text(i) \subseteq Filed
      BY <2>1 DEF Text, Filed
    <3>2. PICK H : IsPath(blocks[i].path, H, LineLevels) /\ \A n \in Text(i) : Above(n) = H
      BY <2>1 DEF ScanInv, PathIsEnclosing
    <3>. QED
      BY <1>1, <1>2, <2>1, <3>1, <3>2 DEF PathIsEnclosing
  <2>2. CASE blocks'[i] = [text |-> buf, path |-> stack]
    <3>1. Text(i)' = ToSet(buf) /\ ToSet(buf) \subseteq Filed
      BY <2>2 DEF Text, Filed
    <3>2. \A n \in ToSet(buf) : Above(n) = Parser!Headings
      BY DEF ScanInv, StackIsPath, Above
    <3>3. IsPath(stack, Parser!Headings, LineLevels)
      BY DEF ScanInv, StackIsPath
    <3>. QED
      BY <1>1, <1>2, <2>2, <3>1, <3>2, <3>3 DEF PathIsEnclosing
  <2>. QED
    BY <2>1, <2>2, Flushed
<1>. QED
  BY <1>3

\* A heading opens a section, and the file goes on.
LEMMA HeadingKept ==
    ASSUME ScanInv, Parser!ScanHeading
    PROVE  ScanInv' /\ \A n : n \in Parser!Headings' <=> n \in Parser!Headings \/ n = at
<1>1. /\ at \in 1..Len(lines) /\ Len(lines) \in Nat /\ at' = at + 1
      /\ buf' = <<>> /\ lines' = lines /\ Parser!Kind(at) = "heading" /\ Parser!Flush
      /\ scan = "scan" /\ scan' = scan
      /\ stack' = Append(Parser!OpenAbove(at), at)
  BY DEF ScanInv, ScanTypes, Parser!ScanHeading
<1>2. \A n : Parser!Kind(n)' = Parser!Kind(n)
  BY <1>1 DEF Parser!Kind
<1>3. /\ \A n \in Filed' : n \in Filed
      /\ \A n \in Filed : n \in Filed' \/ Parser!Kind(n) = "blank"
      /\ blocks' \in Seq([text : Seq(1..Len(lines)), path : Seq(Nat)])
      /\ \A i \in DOMAIN blocks' : Text(i)' # {}
      /\ \A i, j \in DOMAIN blocks' : i # j => Text(i)' \cap Text(j)' = {}
  BY <1>1, Flushed
<1>4. ToSet(buf') = {}
  BY <1>1 DEF ToSet
<1>5. at' - 1 = at /\ 1..at = 1..(at - 1) \cup {at} /\ at \notin 1..(at - 1)
      /\ 1..(at - 1) \subseteq 1..Len(lines) /\ \A h \in 1..(at - 1) : h < at /\ h \in Nat
  BY <1>1
<1>6. ScanTypes'
  <2>1. at' \in 1..(Len(lines') + 1)
    BY <1>1
  <2>. QED
    BY <1>1, <1>3, <2>1 DEF ScanInv, ScanTypes
<1>7. FiledOnce'
  <2>1. \A n \in Filed' : n \in 1..(at' - 1)
    BY <1>3, <1>5 DEF ScanInv, FiledOnce
  <2>2. \A n \in 1..(at' - 1) : Parser!Kind(n)' \in {"heading", "blank"} \/ n \in Filed'
    BY <1>1, <1>2, <1>3, <1>5 DEF ScanInv, FiledOnce
  <2>. QED
    BY <1>3, <1>4, <2>1, <2>2 DEF FiledOnce
<1>8. ASSUME NEW n PROVE n \in Parser!Headings' <=> n \in Parser!Headings \/ n = at
  <2>1. at \notin Filed
    BY <1>5 DEF ScanInv, FiledOnce
  <2>. QED
    BY <1>1, <1>2, <1>3, <1>5, <2>1, HeadingsAre
<1>9. \A h \in Parser!Headings : h \in 1..(at - 1)
  BY HeadingsAre
<1>10. \A i \in DOMAIN blocks' : PathIsEnclosing(i)'
  <2>1. \A h : h \in Parser!Headings' /\ h # at <=> h \in Parser!Headings
    BY <1>5, <1>8, <1>9
  <2>. QED
    BY <1>1, <2>1, PathsKept
<1>11. /\ Parser!Headings \in SUBSET Nat /\ Parser!Headings \subseteq 1..Len(lines)
       /\ \A h \in Parser!Headings : h < at
       /\ IsPath(stack, Parser!Headings, LineLevels)
  BY <1>5, <1>9 DEF ScanInv, StackIsPath
<1>12. LineLevels \in [1..Len(lines) -> Nat]
       /\ \A n \in 1..Len(lines) : LineLevels[n] = Parser!Level(n)
  BY LineIs DEF ScanInv
<1>13. Parser!OpenAbove(at) = PopAbove(stack, LineLevels, LineLevels[at])
  <2>1. Len(stack) \in Nat /\ \A i \in 1..Len(stack) : LineLevels[stack[i]] = Parser!Level(stack[i])
    <3>1. stack \in Seq(Parser!Headings)
      BY <1>11 DEF IsPath
    <3>2. ASSUME NEW i \in 1..Len(stack) PROVE stack[i] \in 1..Len(lines)
      <4>1. stack[i] \in Parser!Headings
        BY <3>1
      <4>. QED
        BY <1>11, <4>1
    <3>. QED
      BY <1>12, <3>1, <3>2
  <2>2. {k \in 0..Len(stack) : \A i \in (k + 1)..Len(stack) : Parser!Level(stack[i]) >= Parser!Level(at)}
          = PopTo(stack, LineLevels, LineLevels[at])
    <3>1. ASSUME NEW k \in 0..Len(stack)
          PROVE  (\A i \in (k + 1)..Len(stack) : Parser!Level(stack[i]) >= Parser!Level(at))
                   <=> (\A i \in (k + 1)..Len(stack) : LineLevels[stack[i]] >= LineLevels[at])
      <4>1. \A i \in (k + 1)..Len(stack) : i \in 1..Len(stack)
        BY <2>1
      <4>. QED
        BY <1>1, <1>12, <2>1, <4>1
    <3>. QED
      BY <3>1 DEF PopTo
  <2>. QED
    BY <2>2, Zenon DEF Parser!OpenAbove, PopAbove
<1>14. IsPath(stack', Parser!Headings', LineLevels')
  <2>1. IsPath(stack', Parser!Headings \cup {at}, LineLevels)
    <3>1. at \in Nat /\ at \in 1..Len(lines) /\ LineLevels \in [1..Len(lines) -> Nat]
      BY <1>1, <1>12
    <3>2. IsPath(Append(PopAbove(stack, LineLevels, LineLevels[at]), at), Parser!Headings \cup {at}, LineLevels)
      BY <1>11, <3>1, PathGrows
    <3>. QED
      BY <1>1, <1>13, <3>2
  <2>2. Parser!Headings' = Parser!Headings \cup {at} /\ LineLevels' = LineLevels
    BY <1>1, <1>8 DEF LineLevels
  <2>. QED
    BY <2>1, <2>2
<1>15. StackIsPath'
  BY <1>4, <1>14 DEF StackIsPath
<1>. QED
  BY <1>6, <1>7, <1>8, <1>10, <1>15 DEF ScanInv

\* The end of the file: the last block is closed.
LEMMA EndKept ==
    ASSUME ScanInv, Parser!EndOfFile
    PROVE  ScanInv' /\ Parser!Headings' = Parser!Headings
<1>1. /\ at \in 1..(Len(lines) + 1) /\ at > Len(lines) /\ Len(lines) \in Nat
      /\ buf' = <<>> /\ UNCHANGED <<lines, at, stack>> /\ Parser!Flush
  BY DEF ScanInv, ScanTypes, Parser!EndOfFile
<1>2. LineLevels' = LineLevels /\ \A n : Parser!Kind(n)' = Parser!Kind(n)
  BY <1>1 DEF Parser!Kind, LineLevels
<1>3. /\ \A n \in Filed' : n \in Filed
      /\ \A n \in Filed : n \in Filed' \/ Parser!Kind(n) = "blank"
      /\ blocks' \in Seq([text : Seq(1..Len(lines)), path : Seq(Nat)])
      /\ \A i \in DOMAIN blocks' : Text(i)' # {}
      /\ \A i, j \in DOMAIN blocks' : i # j => Text(i)' \cap Text(j)' = {}
  BY <1>1, Flushed
<1>4. ToSet(buf') = {}
  BY <1>1 DEF ToSet
<1>5. ScanTypes'
  BY <1>1, <1>3 DEF ScanInv, ScanTypes
<1>6. FiledOnce'
  <2>1. \A n \in Filed' : n \in 1..(at' - 1)
    BY <1>1, <1>3 DEF ScanInv, FiledOnce
  <2>2. \A n \in 1..(at' - 1) : Parser!Kind(n)' \in {"heading", "blank"} \/ n \in Filed'
    BY <1>1, <1>2, <1>3 DEF ScanInv, FiledOnce
  <2>. QED
    BY <1>3, <1>4, <2>1, <2>2 DEF FiledOnce
<1>7. Parser!Headings' = Parser!Headings
  <2>1. ASSUME NEW n PROVE n \in Parser!Headings' <=> n \in Parser!Headings
    BY <1>1, <1>2, <1>3, HeadingsAre
  <2>. QED
    BY <2>1
<1>8. \A i \in DOMAIN blocks' : PathIsEnclosing(i)'
  <2>1. at \notin Parser!Headings
    BY <1>1, HeadingsAre
  <2>. QED
    BY <1>1, <1>7, <2>1, PathsKept
<1>9. StackIsPath'
  BY <1>1, <1>2, <1>4, <1>7 DEF ScanInv, StackIsPath
<1>. QED
  BY <1>5, <1>6, <1>7, <1>8, <1>9 DEF ScanInv

\* The scanner starts in the invariant, above all headings.
LEMMA ScanInit == Parser!Init => ScanInv /\ Parser!Headings = {}
<1>. SUFFICES ASSUME Parser!Init PROVE ScanInv /\ Parser!Headings = {}
  OBVIOUS
<1>1. lines \in Seq(Parser!Line)
  BY DEF Parser!Init, Parser!SeqOf
<1>2. Len(lines) \in Nat /\ ToSet(buf) = {} /\ ToSet(stack) = {} /\ DOMAIN blocks = {}
  BY <1>1 DEF Parser!Init, ToSet
<1>3. ScanTypes
  BY <1>1, <1>2 DEF Parser!Init, ScanTypes
<1>4. Filed = {} /\ at = 1
  BY <1>2 DEF Filed, Parser!Init
<1>5. Parser!Headings = {}
  BY <1>4, HeadingsAre
<1>6. IsPath(stack, {}, LineLevels)
  <2>1. stack \in Seq({}) /\ DOMAIN stack = {}
    BY DEF Parser!Init
  <2>. QED
    BY <1>2, <2>1 DEF IsPath, OpenOf
<1>. QED
  BY <1>2, <1>3, <1>4, <1>5, <1>6 DEF ScanInv, FiledOnce, StackIsPath

\* What a step does to the headings.
LEMMA ScanStep ==
    ASSUME ScanInv, [Parser!Next]_(Parser!vars)
    PROVE  /\ ScanInv'
           /\ \/ Parser!ScanHeading /\ \A n : n \in Parser!Headings' <=> n \in Parser!Headings \/ n = at
              \/ Parser!Headings' = Parser!Headings
<1>1. CASE Parser!ScanFence
  <2>1. at \in 1..Len(lines)
    BY <1>1 DEF ScanInv, ScanTypes, Parser!ScanFence
  <2>2. Parser!Kind(at) # "heading"
    BY <1>1, <2>1, LineIs DEF ScanInv, Parser!ScanFence
  <2>. QED
    BY <1>1, <2>2, LineKept DEF Parser!ScanFence
<1>2. CASE Parser!ScanHeading
  BY <1>2, HeadingKept
<1>3. CASE Parser!ScanText
  <2>1. Parser!Kind(at) # "heading" \/ inFence
    BY <1>3 DEF Parser!ScanText
  <2>. QED
    BY <1>3, <2>1, LineKept DEF Parser!ScanText
<1>4. CASE Parser!EndOfFile
  BY <1>4, EndKept
<1>5. CASE UNCHANGED Parser!vars
  <2>1. UNCHANGED <<lines, at, stack, buf, blocks, scan>>
    BY <1>5 DEF Parser!vars
  <2>2. LineLevels' = LineLevels /\ \A n : Parser!Kind(n)' = Parser!Kind(n)
    BY <2>1 DEF Parser!Kind, LineLevels
  <2>3. Filed' = Filed /\ \A i : Text(i)' = Text(i)
    BY <2>1 DEF Filed, Text
  <2>4. Parser!Headings' = Parser!Headings
    <3>1. ASSUME NEW n PROVE n \in Parser!Headings' <=> n \in Parser!Headings
      BY <2>1, <2>2, <2>3, HeadingsAre
    <3>. QED
      BY <3>1
  <2>5. ScanTypes' /\ FiledOnce'
    BY <2>1, <2>2, <2>3 DEF ScanInv, ScanTypes, FiledOnce
  <2>6. StackIsPath'
    BY <2>1, <2>2, <2>4 DEF ScanInv, StackIsPath
  <2>7. \A i \in DOMAIN blocks' : PathIsEnclosing(i)'
    BY <2>1, <2>2, <2>3, <2>4 DEF ScanInv, PathIsEnclosing, Above
  <2>. QED
    BY <2>4, <2>5, <2>6, <2>7 DEF ScanInv
<1>. QED
  BY <1>1, <1>2, <1>3, <1>4, <1>5 DEF Parser!Next

\* The invariant of the scanner, of its specification.
LEMMA ScanInvHolds == Parser!Spec => []ScanInv
<1>1. ScanInv /\ [Parser!Next]_(Parser!vars) => ScanInv'
  BY ScanStep
<1>. QED
  BY <1>1, ScanInit, PTL DEF Parser!Spec

\* The path of a block is what encloses its lines.
LEMMA MarkdownPaths == ScanInv => Parser!PathsAreEnclosing
<1>. SUFFICES ASSUME ScanInv, NEW b \in ToSet(blocks)
              PROVE  /\ \A n \in ToSet(b.text) : Parser!Enclosing(n, Parser!Headings) = ToSet(b.path)
                     /\ \A x, y \in DOMAIN b.path :
                            x < y => /\ b.path[x] < b.path[y]
                                     /\ Parser!Level(b.path[x]) < Parser!Level(b.path[y])
  BY Zenon DEF Parser!PathsAreEnclosing, Parser!ToSet, ToSet
<1>1. PICK i \in DOMAIN blocks : b = blocks[i]
  BY DEF ToSet
<1>2. PICK H : IsPath(b.path, H, LineLevels) /\ \A n \in ToSet(b.text) : Above(n) = H
  BY <1>1 DEF ScanInv, PathIsEnclosing, Text
<1>3. \A h \in Parser!Headings : h \in 1..Len(lines) /\ h \in Nat /\ LineLevels[h] \in Nat
                                 /\ LineLevels[h] = Parser!Level(h)
  <2>1. \A h \in 1..(at - 1) : h \in 1..Len(lines) /\ h \in Nat
    BY DEF ScanInv, ScanTypes
  <2>. QED
    BY <2>1, HeadingsAre, LineIs DEF ScanInv
<1>4. ASSUME NEW n \in ToSet(b.text)
      PROVE  Parser!Enclosing(n, Parser!Headings) = ToSet(b.path)
  <2>1. H = Above(n)
    BY <1>2
  <2>2. ASSUME NEW h
        PROVE  h \in Parser!Enclosing(n, Parser!Headings) <=> h \in OpenOf(H, LineLevels)
    <3>1. h \in Parser!Enclosing(n, Parser!Headings)
            <=> /\ h \in Parser!Headings /\ h < n
                /\ ~ \E g \in Parser!Headings : h < g /\ g < n /\ Parser!Level(g) <= Parser!Level(h)
      BY Zenon DEF Parser!Enclosing
    <3>2. h \in OpenOf(H, LineLevels)
            <=> /\ h \in Parser!Headings /\ h < n
                /\ \A g \in Parser!Headings : g < n /\ h < g => LineLevels[h] < LineLevels[g]
      BY <2>1 DEF OpenOf, Above
    <3>. QED
      BY <1>3, <3>1, <3>2
  <2>3. \A h : h \in ToSet(b.path) <=> h \in OpenOf(H, LineLevels)
    BY <1>2 DEF IsPath
  <2>. QED
    BY <2>2, <2>3
<1>5. ASSUME NEW n \in ToSet(b.text)
      PROVE  \A x, y \in DOMAIN b.path :
                 x < y => b.path[x] < b.path[y] /\ Parser!Level(b.path[x]) < Parser!Level(b.path[y])
  <2>1. b.path \in Seq(H) /\ H \subseteq Parser!Headings
    BY <1>2, <1>5 DEF IsPath, Above
  <2>2. \A x \in DOMAIN b.path : b.path[x] \in Parser!Headings
    BY <2>1
  <2>. QED
    BY <1>2, <1>3, <2>2 DEF IsPath
<1>6. \E n : n \in ToSet(b.text)
  BY <1>1 DEF ScanInv, FiledOnce, Text
<1>. QED
  BY <1>4, <1>5, <1>6

\* A line is in the block that it was filed in.
LEMMA MarkdownText == ScanInv => Parser!TextIsKept
<1>. SUFFICES ASSUME ScanInv, scan # "scan", NEW n \in 1..Len(lines),
                     Parser!Kind(n) # "blank", n \notin Parser!Headings
              PROVE  \E i \in DOMAIN blocks :
                         /\ n \in ToSet(blocks[i].text)
                         /\ \A j \in DOMAIN blocks : n \in ToSet(blocks[j].text) => i = j
  BY Zenon DEF Parser!TextIsKept, Parser!ToSet, ToSet
<1>1. n \in 1..(at - 1) /\ ToSet(buf) = {}
  BY DEF ScanInv, ScanTypes, ToSet
<1>2. n \in Filed
  BY <1>1, HeadingsAre DEF ScanInv, FiledOnce
<1>3. PICK i \in DOMAIN blocks : n \in Text(i)
  BY <1>1, <1>2 DEF Filed
<1>. QED
  BY <1>3 DEF ScanInv, FiledOnce, Text

-----------------------------------------------------------------------------
(* Code in a Markdown file. *)

\* The fence whose code is open after line n, from that after the line before it.
OpenAfter(n, before) ==
    IF Parser!Kind(n) # "fence" THEN before
    ELSE IF before = 0 THEN n
    ELSE IF Parser!Closes(n, before) THEN 0
    ELSE before
CodeEquation(g) == g = [n \in 0..Len(lines) |-> IF n = 0 THEN 0 ELSE OpenAfter(n, g[n - 1])]
Open == CHOOSE g : CodeEquation(g)

\* No piece of code quotes a fence in the first n lines.
NoneQuoted(n) == \A m \in Parser!Quoted : m > n

\* What is open after each line, by what was open before it.
LEMMA OpenUnfolds ==
    ASSUME ScanTypes
    PROVE  /\ Parser!Opening = Open
           /\ Open[0] = 0
           /\ \A n \in 1..Len(lines) : Open[n] = OpenAfter(n, Open[n - 1])
<1>. DEFINE N    == Len(lines)
            V    == 0..N
            prev == [n \in 1..N |-> n - 1]
            rule == [n \in 1..N |-> [v \in V |-> OpenAfter(n, v)]]
<1>1. N \in Nat
  BY DEF ScanTypes
<1>2. PICK g : CodeEquation(g)
  <2>1. \A n \in 1..N : prev[n] = n - 1 /\ prev[n] \in 0..(n - 1)
    BY <1>1
  <2>2. ASSUME NEW n \in 1..N, NEW v \in V PROVE rule[n][v] = OpenAfter(n, v) /\ rule[n][v] \in V
    <3>1. n \in V /\ 0 \in V
      BY <1>1
    <3>2. OpenAfter(n, v) \in V
      BY <3>1, Zenon DEF OpenAfter
    <3>. QED
      BY <3>2
  <2>3. 0 \in V
    BY <1>1
  <2>. HIDE DEF V, prev, rule, N
  <2>4. PICK g : Follows(g, N, V, 0, prev, rule)
    <3>1. WellFounded(N, V, 0, prev, rule)
      BY <1>1, <2>1, <2>2, <2>3 DEF WellFounded
    <3>. QED
      BY <3>1, RecursionExists
  <2>5. ASSUME NEW n \in 0..N PROVE g[n] = IF n = 0 THEN 0 ELSE OpenAfter(n, g[n - 1])
    <3>1. CASE n = 0
      BY <2>4, <3>1 DEF Follows
    <3>2. CASE n # 0
      <4>1. n \in 1..N /\ n - 1 \in 0..N
        BY <1>1, <3>2
      <4>. QED
        BY <2>1, <2>2, <2>4, <3>2, <4>1 DEF Follows
    <3>. QED
      BY <3>1, <3>2
  <2>6. g = [n \in 0..N |-> IF n = 0 THEN 0 ELSE OpenAfter(n, g[n - 1])]
    BY <2>4, <2>5 DEF Follows
  <2>. QED
    BY <2>6, Zenon DEF CodeEquation, N
<1>3. CodeEquation(Open)
  BY <1>2, Zenon DEF Open
<1>4. Open = [n \in 0..N |-> IF n = 0 THEN 0 ELSE OpenAfter(n, Open[n - 1])]
  BY <1>3, Zenon DEF CodeEquation
<1>5. Parser!Opening = Open
  BY Zenon DEF Parser!Opening, Open, CodeEquation, OpenAfter
<1>. HIDE DEF N
<1>6. Open[0] = 0 /\ \A n \in 1..N : Open[n] = OpenAfter(n, Open[n - 1])
  <2>1. 0 \in 0..N /\ \A n \in 1..N : n \in 0..N /\ n # 0
    BY <1>1
  <2>. QED
    BY <1>4, <2>1
<1>. QED
  BY <1>5, <1>6 DEF N

\* Until a fence is quoted, the flag is up in code, and what looks like a heading is one
\* exactly where the flag is down.
CodeInv ==
    /\ ScanInv
    /\ inFence \in BOOLEAN
    /\ NoneQuoted(at - 1) => (inFence <=> Open[at - 1] # 0)
    /\ \A n \in 1..(at - 1) :
          Parser!Kind(n) = "heading" /\ NoneQuoted(n) => (n \in Parser!Headings <=> Open[n] = 0)

\* A step of the scanner keeps the flag true.
LEMMA CodeStep ==
    ASSUME CodeInv, [Parser!Next]_(Parser!vars)
    PROVE  CodeInv'
<1>1. /\ ScanInv' /\ ScanInv /\ ScanTypes /\ ScanTypes' /\ lines' = lines
      /\ \/ Parser!ScanHeading /\ \A n : n \in Parser!Headings' <=> n \in Parser!Headings \/ n = at
         \/ Parser!Headings' = Parser!Headings
  BY ScanStep DEF CodeInv, ScanInv, Parser!Next, Parser!vars, Parser!ScanFence, Parser!ScanHeading,
                  Parser!ScanText, Parser!EndOfFile
<1>2. Open' = Open /\ \A n : Parser!Kind(n)' = Parser!Kind(n)
  BY <1>1 DEF Open, CodeEquation, OpenAfter, Parser!Kind, Parser!Closes, Parser!Fence
<1>3. \A n : NoneQuoted(n)' <=> NoneQuoted(n)
  <2>1. Parser!Opening' = Parser!Opening
    BY <1>1 DEF Parser!Opening, Parser!Kind, Parser!Closes, Parser!Fence
  <2>2. Parser!Quoted' = Parser!Quoted
    BY <1>1, <2>1 DEF Parser!Quoted, Parser!Kind, Parser!Closes, Parser!Fence
  <2>. QED
    BY <2>2 DEF NoneQuoted
<1>4. CASE at' = at /\ inFence' = inFence /\ ~ Parser!ScanHeading
  BY <1>1, <1>2, <1>3, <1>4 DEF CodeInv
<1>5. CASE at \in 1..Len(lines) /\ at' = at + 1
  <2>1. at' - 1 = at /\ Open[at] = OpenAfter(at, Open[at - 1])
    BY <1>1, <1>5, OpenUnfolds
  <2>2. NoneQuoted(at) => NoneQuoted(at - 1)
    <3>1. \A m \in Parser!Quoted : m \in Nat
      BY <1>1 DEF ScanTypes, Parser!Quoted
    <3>. QED
      BY <1>5, <3>1 DEF NoneQuoted
  <2>3. \A n \in 1..at : n \in 1..(at - 1) \/ n = at
    BY <1>5
  <2>4. ASSUME NEW n \in 1..(at - 1), Parser!Kind(n) = "heading", NoneQuoted(n)
        PROVE  n \in Parser!Headings' <=> Open[n] = 0
    <3>1. n # at
      BY <1>5
    <3>. QED
      BY <1>1, <2>4, <3>1 DEF CodeInv
  <2>5. CASE Parser!ScanFence
    <3>1. Parser!Kind(at) = "fence" /\ inFence' = ~ inFence
      BY <2>5 DEF Parser!ScanFence
    <3>2. ASSUME NoneQuoted(at) PROVE inFence' <=> Open[at] # 0
      <4>1. at \notin Parser!Quoted
        BY <1>5, <3>2 DEF NoneQuoted
      <4>2. Open[at - 1] = 0 \/ Parser!Closes(at, Open[at - 1])
        BY <1>1, <1>5, <3>1, <4>1, OpenUnfolds DEF Parser!Quoted
      <4>3. Open[at] # 0 <=> Open[at - 1] = 0
        BY <1>5, <2>1, <3>1, <4>2 DEF OpenAfter
      <4>. QED
        BY <2>2, <3>1, <3>2, <4>3 DEF CodeInv
    <3>. QED
      BY <1>1, <1>2, <1>3, <2>1, <2>3, <2>4, <3>1, <3>2 DEF CodeInv
  <2>6. CASE Parser!ScanText \/ Parser!ScanHeading
    <3>1. Parser!Kind(at) # "fence"
      BY <2>6 DEF Parser!ScanText, Parser!ScanHeading
    <3>2. Open[at] = Open[at - 1] /\ inFence' = inFence
      BY <2>1, <2>6, <3>1 DEF OpenAfter, Parser!ScanText, Parser!ScanHeading
    <3>3. ASSUME Parser!Kind(at) = "heading" PROVE at \in Parser!Headings' <=> ~ inFence
      <4>1. at \notin Parser!Headings
        BY <1>5, HeadingsAre
      <4>2. CASE Parser!ScanHeading
        BY <1>1, <4>2, HeadingKept DEF Parser!ScanHeading
      <4>3. CASE Parser!ScanText
        BY <1>1, <3>3, <4>1, <4>3 DEF Parser!ScanText, Parser!ScanHeading
      <4>. QED
        BY <2>6, <4>2, <4>3
    <3>. QED
      BY <1>1, <1>2, <1>3, <2>1, <2>2, <2>3, <2>4, <3>2, <3>3 DEF CodeInv
  <2>. QED
    BY <1>5, <2>5, <2>6 DEF Parser!Next, Parser!EndOfFile, Parser!vars, CodeInv, ScanInv, ScanTypes
<1>6. \/ at' = at /\ inFence' = inFence /\ ~ Parser!ScanHeading
      \/ at \in 1..Len(lines) /\ at' = at + 1
  BY DEF CodeInv, ScanInv, ScanTypes, Parser!Next, Parser!vars, Parser!ScanFence, Parser!ScanHeading,
         Parser!ScanText, Parser!EndOfFile
<1>. QED
  BY <1>4, <1>5, <1>6

\* Down to the first fence quoted in code, the headings are what CommonMark has for them.
LEMMA CodeIsCodeHolds == Parser!Spec => []Parser!CodeIsCode
<1>1. Parser!Init => CodeInv
  <2>. SUFFICES ASSUME Parser!Init PROVE CodeInv
    OBVIOUS
  <2>1. ScanInv /\ at = 1 /\ inFence = FALSE
    BY ScanInit DEF Parser!Init
  <2>2. Open[0] = 0 /\ at - 1 = 0 /\ 1..(at - 1) = {}
    BY <2>1, OpenUnfolds DEF ScanInv
  <2>. QED
    BY <2>1, <2>2 DEF CodeInv
<1>2. CodeInv /\ [Parser!Next]_(Parser!vars) => CodeInv'
  BY CodeStep
<1>3. CodeInv => Parser!CodeIsCode
  BY OpenUnfolds DEF CodeInv, ScanInv, NoneQuoted, Parser!CodeIsCode
<1>. QED
  BY <1>1, <1>2, <1>3, PTL DEF Parser!Spec

-----------------------------------------------------------------------------
(* How the elements of an HTML page nest. *)

\* An element comes after the one that encloses it.
InOrder ==
    /\ page \in Seq(Html!Element)
    /\ \A n \in 1..Len(page) : page[n].parent \in 0..(n - 1)

UpEquation(p, g) == g = [i \in 0..Len(p) |-> IF i = 0 THEN {} ELSE {p[i].parent} \cup g[p[i].parent]]
Up == CHOOSE g : UpEquation(page, g)
Outer(n) == Html!Ancestors(page, n)

\* The outermost elements around an element, by its parent.
LEMMA OuterUnfolds ==
    ASSUME InOrder
    PROVE  /\ Outer(0) = {}
           /\ \A n \in 1..Len(page) :
                  Outer(n) = IF page[n].parent = 0 THEN {} ELSE {page[n].parent} \cup Outer(page[n].parent)
<1>. DEFINE V    == SUBSET Nat
            N    == Len(page)
            prev == [n \in 1..N |-> page[n].parent]
            rule == [n \in 1..N |-> [v \in V |-> {page[n].parent} \cup v]]
<1>1. N \in Nat /\ \A n \in 1..N : page[n].parent \in 0..(n - 1) /\ page[n].parent \in Nat
  BY DEF InOrder
<1>2. PICK g : UpEquation(page, g)
  <2>1. \A n \in 1..N : prev[n] = page[n].parent /\ prev[n] \in 0..(n - 1)
    BY <1>1
  <2>2. ASSUME NEW n \in 1..N, NEW v \in V
        PROVE  rule[n][v] = {page[n].parent} \cup v /\ rule[n][v] \in V
    BY <1>1
  <2>3. {} \in V
    OBVIOUS
  <2>. HIDE DEF V, prev, rule, N
  <2>4. PICK g : Follows(g, N, V, {}, prev, rule)
    <3>1. WellFounded(N, V, {}, prev, rule)
      BY <1>1, <2>1, <2>2, <2>3 DEF WellFounded
    <3>. QED
      BY <3>1, RecursionExists
  <2>5. ASSUME NEW n \in 0..N PROVE g[n] = IF n = 0 THEN {} ELSE {page[n].parent} \cup g[page[n].parent]
    <3>1. CASE n = 0
      BY <2>4, <3>1 DEF Follows
    <3>2. CASE n # 0
      <4>1. n \in 1..N /\ page[n].parent \in 0..N
        BY <1>1, <3>2
      <4>2. g[page[n].parent] \in V
        BY <2>4, <4>1 DEF Follows
      <4>3. g[n] = rule[n][g[page[n].parent]]
        BY <2>1, <2>4, <4>1 DEF Follows
      <4>. QED
        BY <2>2, <3>2, <4>1, <4>2, <4>3
    <3>. QED
      BY <3>1, <3>2
  <2>6. g = [n \in 0..N |-> IF n = 0 THEN {} ELSE {page[n].parent} \cup g[page[n].parent]]
    BY <2>4, <2>5 DEF Follows
  <2>. QED
    BY <2>6, Zenon DEF UpEquation, N
<1>3. UpEquation(page, Up)
  BY <1>2, Zenon DEF Up
<1>4. Up = [i \in 0..N |-> IF i = 0 THEN {} ELSE {page[i].parent} \cup Up[page[i].parent]]
  BY <1>3, Zenon DEF UpEquation
<1>5. \A n : Outer(n) = Up[n] \ {0}
  BY Zenon DEF Outer, Html!Ancestors, Up, UpEquation
<1>. HIDE DEF N
<1>6. Up[0] = {} /\ \A n \in 1..N : Up[n] = {page[n].parent} \cup Up[page[n].parent]
  <2>1. 0 \in 0..N /\ \A n \in 1..N : n \in 0..N /\ n # 0
    BY <1>1
  <2>. QED
    BY <1>4, <2>1
<1>7. ASSUME NEW n \in 1..N
      PROVE  Outer(n) = IF page[n].parent = 0 THEN {} ELSE {page[n].parent} \cup Outer(page[n].parent)
  <2>1. Outer(n) = ({page[n].parent} \cup Up[page[n].parent]) \ {0} /\ Outer(page[n].parent) = Up[page[n].parent] \ {0}
    BY <1>5, <1>6
  <2>. QED
    BY <1>6, <2>1
<1>. QED
  BY <1>5, <1>6, <1>7 DEF N

\* What encloses an element comes before it, and encloses it with all that encloses
\* that; of two elements that enclose a third, the earlier one encloses the later one.
NestsUpTo(n) ==
    /\ Outer(n) \subseteq 1..(n - 1)
    /\ \A b \in Outer(n) : Outer(b) \subseteq Outer(n)
    /\ \A a, b \in Outer(n) : a < b => a \in Outer(b)

\* The elements around an element are around each other.
LEMMA Nests ==
    ASSUME InOrder, NEW n \in 1..Len(page)
    PROVE  NestsUpTo(n)
<1>. DEFINE Bad == {m \in 1..Len(page) : ~ NestsUpTo(m)}
<1>. SUFFICES ASSUME Bad # {} PROVE FALSE
  OBVIOUS
<1>1. Bad \in SUBSET Nat
  BY DEF InOrder
<1>. HIDE DEF Bad
<1>2. PICK m \in Bad : \A y \in Bad : m <= y
  BY <1>1, LeastNat
<1>. DEFINE p == page[m].parent
<1>3. m \in 1..Len(page) /\ ~ NestsUpTo(m) /\ Len(page) \in Nat
  BY <1>2 DEF Bad, InOrder
<1>4. p \in 0..(m - 1) /\ Outer(m) = IF p = 0 THEN {} ELSE {p} \cup Outer(p)
  BY <1>3, OuterUnfolds DEF InOrder
<1>. HIDE DEF p
<1>5. p # 0
  <2>1. CASE p = 0
    <3>1. Outer(m) = {}
      BY <1>4, <2>1
    <3>. QED
      BY <1>3, <3>1 DEF NestsUpTo
  <2>. QED
    BY <2>1
<1>6. p \in 1..Len(page) /\ p \in 1..(m - 1) /\ ~ m <= p
  BY <1>3, <1>4, <1>5
<1>7. NestsUpTo(p)
  BY <1>2, <1>6 DEF Bad
<1>8. Outer(m) = {p} \cup Outer(p)
  BY <1>4, <1>5
<1>9. /\ \A b \in Outer(p) : b \in 1..(p - 1) /\ Outer(b) \subseteq Outer(p)
      /\ \A a, b \in Outer(p) : a < b => a \in Outer(b)
  BY <1>7 DEF NestsUpTo
<1>10. Outer(m) \subseteq 1..(m - 1)
  <2>1. \A b \in 1..(p - 1) : b \in 1..(m - 1)
    BY <1>3, <1>6
  <2>. QED
    BY <1>6, <1>8, <1>9, <2>1
<1>11. \A b \in Outer(m) : Outer(b) \subseteq Outer(m)
  BY <1>8, <1>9, Zenon
<1>12. ASSUME NEW a \in Outer(m), NEW b \in Outer(m), a < b PROVE a \in Outer(b)
  <2>1. CASE a \in Outer(p) /\ b \in Outer(p)
    BY <1>9, <1>12, <2>1
  <2>2. CASE b = p
    <3>1. a # p
      BY <1>6, <1>12, <2>2
    <3>. QED
      BY <1>8, <2>2, <3>1
  <2>3. CASE a = p /\ b \in Outer(p)
    BY <1>6, <1>9, <1>12, <2>3
  <2>. QED
    BY <1>8, <2>1, <2>2, <2>3
<1>. QED
  BY <1>3, <1>10, <1>11, <1>12 DEF NestsUpTo

-----------------------------------------------------------------------------
(* The HTML parser. *)

HtmlLevels == [n \in 1..Len(page) |-> page[n].level]

\* The titled headings before element n, and whether it becomes a block.
Titled(n)  == {h \in 1..(n - 1) : Html!Tag(h) = "heading" /\ Html!HasText(h)}
IsBlock(n) == Html!Tag(n) = "text" /\ Html!Outermost(n) /\ Html!HasText(n)

\* Where the walk over the page stands.
WalkTypes ==
    /\ InOrder
    /\ visit \in 1..(Len(page) + 1)
    /\ found \in Seq([of : Nat, path : Seq(Nat)])
    /\ walk = "read" => visit = 1 /\ ranks = <<>> /\ found = <<>>
    /\ walk \in {"parsed", "rejected"} => visit > Len(page)

\* The blocks are the text elements that it has visited, each once.
FoundOnce ==
    /\ \A i \in DOMAIN found : found[i].of \in 1..(visit - 1) /\ IsBlock(found[i].of)
    /\ \A i, j \in DOMAIN found : found[i].of = found[j].of => i = j
    /\ \A n \in 1..(visit - 1) : IsBlock(n) => \E i \in DOMAIN found : found[i].of = n

RanksArePath ==
    /\ IsPath(ranks, Titled(visit), HtmlLevels)
    /\ \A i \in DOMAIN found : IsPath(found[i].path, Titled(found[i].of), HtmlLevels)

WalkInv == WalkTypes /\ FoundOnce /\ RanksArePath

\* What the fields of an element are.
LEMMA ElementIs ==
    ASSUME InOrder
    PROVE  /\ HtmlLevels \in [1..Len(page) -> Nat]
           /\ \A n \in 1..Len(page) : HtmlLevels[n] = Html!Level(n)
           /\ Len(page) \in Nat /\ DOMAIN page = 1..Len(page)
<1>1. ASSUME NEW n \in 1..Len(page)
      PROVE  page[n].level \in Nat
  <2>1. page[n] \in Html!Element
    BY DEF InOrder
  <2>2. TagLevels \subseteq Nat
    BY ElementsAssumption DEF Html!ElementsAssumption
  <2>3. page[n].level = 0 \/ page[n].level \in TagLevels
    BY <2>1 DEF Html!Element
  <2>4. 0 \in Nat
    OBVIOUS
  <2>. QED
    BY <2>2, <2>3, <2>4, Zenon
<1>. QED
  BY <1>1 DEF HtmlLevels, Html!Level, InOrder

\* While the page is read, no heading and no block has been met.
LEMMA ReadKept ==
    ASSUME WalkInv, walk = "read", InOrder', UNCHANGED <<visit, ranks, found>>, walk' \in {"read", "walk"}
    PROVE  WalkInv'
<1>1. visit = 1 /\ ranks = <<>> /\ found = <<>> /\ Len(page') \in Nat
  BY DEF WalkInv, WalkTypes, InOrder
<1>2. WalkTypes'
  BY <1>1 DEF WalkInv, WalkTypes
<1>3. 1..(visit' - 1) = {} /\ DOMAIN found' = {}
  BY <1>1
<1>4. FoundOnce'
  BY <1>3 DEF FoundOnce
<1>5. Titled(visit)' = {}
  BY <1>3 DEF Titled
<1>6. IsPath(ranks', {}, HtmlLevels')
  <2>1. ranks' \in Seq({}) /\ DOMAIN ranks' = {}
    BY <1>1
  <2>. QED
    BY <2>1 DEF IsPath, OpenOf, ToSet
<1>. QED
  BY <1>2, <1>3, <1>4, <1>5, <1>6 DEF WalkInv, RanksArePath

\* An element that is read is the last one, and what encloses it comes before it.
LEMMA ElementRead ==
    ASSUME WalkInv, Html!ReadElement
    PROVE  WalkInv'
<1>1. PICK e \in Html!Element : Html!MayHold(page, e.parent) /\ page' = Append(page, e)
  BY DEF Html!ReadElement
<1>2. InOrder /\ page \in Seq(Html!Element) /\ Len(page) \in Nat
  BY DEF WalkInv, WalkTypes, InOrder
<1>3. e.parent \in 0..Len(page)
  <2>1. e.parent = 0 \/ e.parent = Len(page) \/ e.parent \in Outer(Len(page))
    BY <1>1 DEF Html!MayHold, Outer
  <2>2. ASSUME e.parent \in Outer(Len(page)) PROVE e.parent \in 0..Len(page)
    <3>1. Len(page) # 0
      BY <1>2, <2>2, OuterUnfolds
    <3>2. Len(page) \in 1..Len(page)
      BY <1>2, <3>1
    <3>3. Outer(Len(page)) \subseteq 1..(Len(page) - 1)
      BY <1>2, <3>2, Nests DEF NestsUpTo
    <3>4. \A m \in 1..(Len(page) - 1) : m \in 0..Len(page)
      BY <1>2
    <3>. QED
      BY <2>2, <3>3, <3>4
  <2>. QED
    BY <1>2, <2>1, <2>2
<1>4. InOrder'
  <2>1. PICK N \in Nat : N = Len(page)
    BY <1>2
  <2>2. /\ page' \in Seq(Html!Element) /\ Len(page') = N + 1
        /\ \A n \in 1..N : page'[n] = page[n]
        /\ page'[N + 1] = e
    BY <1>1, <1>2, <2>1
  <2>3. ASSUME NEW n \in 1..(N + 1) PROVE page'[n].parent \in 0..(n - 1)
    <3>1. CASE n \in 1..N
      BY <1>2, <2>1, <2>2, <3>1 DEF InOrder
    <3>2. CASE n = N + 1
      BY <1>3, <2>1, <2>2, <3>2
    <3>. QED
      BY <3>1, <3>2
  <2>. QED
    BY <2>2, <2>3 DEF InOrder
<1>. QED
  BY <1>4, ReadKept DEF Html!ReadElement

\* Nothing about an element changes while the page stays.
LEMMA PageKept ==
    ASSUME page' = page
    PROVE  /\ InOrder' = InOrder /\ HtmlLevels' = HtmlLevels
           /\ \A n : IsBlock(n)' = IsBlock(n) /\ Titled(n)' = Titled(n)
<1>1. \A n : /\ Html!Tag(n)' = Html!Tag(n) /\ Html!HasText(n)' = Html!HasText(n)
             /\ Html!Outermost(n)' = Html!Outermost(n)
  BY DEF Html!Tag, Html!HasText, Html!Inside, Html!Outermost
<1>. QED
  BY <1>1 DEF InOrder, HtmlLevels, IsBlock, Titled

\* What the next element adds.
LEMMA Visited ==
    ASSUME WalkInv, page' = page, visit <= Len(page), visit' = visit + 1
    PROVE  /\ visit \in 1..Len(page) /\ visit' \in 1..(Len(page) + 1)
           /\ \A n : n \in 1..(visit' - 1) <=> n \in 1..(visit - 1) \/ n = visit
           /\ visit \notin 1..(visit - 1) /\ \A h \in Titled(visit) : h < visit /\ h \in 1..Len(page)
           /\ IF Html!Tag(visit) = "heading" /\ Html!HasText(visit)
              THEN Titled(visit)' = Titled(visit) \cup {visit}
              ELSE Titled(visit)' = Titled(visit)
<1>1. /\ visit \in 1..Len(page) /\ visit' \in 1..(Len(page) + 1) /\ visit' - 1 = visit
      /\ 1..visit = 1..(visit - 1) \cup {visit} /\ visit \notin 1..(visit - 1)
      /\ \A h \in 1..(visit - 1) : h < visit /\ h \in 1..Len(page)
  BY DEF WalkInv, WalkTypes, InOrder
<1>2. \A n : Html!Tag(n)' = Html!Tag(n) /\ Html!HasText(n)' = Html!HasText(n)
  BY DEF Html!Tag, Html!HasText, Html!Inside
<1>3. \A h \in Titled(visit) : h < visit /\ h \in 1..Len(page)
  BY <1>1 DEF Titled
<1>4. \A h : h \in Titled(visit)' <=> h \in 1..visit /\ Html!Tag(h) = "heading" /\ Html!HasText(h)
  BY <1>1, <1>2 DEF Titled
<1>5. \A h : h \in Titled(visit) <=> h \in 1..(visit - 1) /\ Html!Tag(h) = "heading" /\ Html!HasText(h)
  BY DEF Titled
<1>6. IF Html!Tag(visit) = "heading" /\ Html!HasText(visit)
      THEN Titled(visit)' = Titled(visit) \cup {visit}
      ELSE Titled(visit)' = Titled(visit)
  BY <1>1, <1>4, <1>5
<1>. QED
  BY <1>1, <1>3, <1>6

\* A heading, with a title or without, or an element of another kind.
LEMMA NoBlockKept ==
    ASSUME WalkInv, Html!VisitHeading \/ Html!PassOver
    PROVE  WalkInv'
<1>1. /\ page' = page /\ walk = "walk" /\ walk' = walk /\ found' = found
      /\ visit <= Len(page) /\ visit' = visit + 1 /\ Html!Tag(visit) # "text"
  BY DEF Html!VisitHeading, Html!PassOver
<1>2. /\ visit \in 1..Len(page) /\ visit' \in 1..(Len(page) + 1)
      /\ \A n : n \in 1..(visit' - 1) <=> n \in 1..(visit - 1) \/ n = visit
      /\ \A h \in Titled(visit) : h < visit /\ h \in 1..Len(page)
      /\ IF Html!Tag(visit) = "heading" /\ Html!HasText(visit)
         THEN Titled(visit)' = Titled(visit) \cup {visit}
         ELSE Titled(visit)' = Titled(visit)
  BY <1>1, Visited
<1>3. /\ InOrder' = InOrder /\ HtmlLevels' = HtmlLevels
      /\ \A n : IsBlock(n)' = IsBlock(n) /\ Titled(n)' = Titled(n)
  BY <1>1, PageKept
<1>4. InOrder /\ Len(page) \in Nat /\ IsPath(ranks, Titled(visit), HtmlLevels)
  BY DEF WalkInv, WalkTypes, RanksArePath, InOrder
<1>5. WalkTypes'
  BY <1>1, <1>2, <1>3 DEF WalkInv, WalkTypes
<1>6. FoundOnce'
  BY <1>1, <1>2, <1>3 DEF WalkInv, FoundOnce, IsBlock
<1>7. IsPath(ranks', Titled(visit)', HtmlLevels')
  <2>1. CASE Html!Tag(visit) = "heading" /\ Html!HasText(visit)
    <3>1. ranks' = Append(Html!OpenAbove(visit), visit)
      BY <2>1 DEF Html!VisitHeading, Html!PassOver
    <3>2. /\ HtmlLevels \in [1..Len(page) -> Nat]
          /\ \A n \in 1..Len(page) : HtmlLevels[n] = Html!Level(n)
      BY <1>4, ElementIs
    <3>3. Len(ranks) \in Nat /\ \A i \in 1..Len(ranks) : HtmlLevels[ranks[i]] = Html!Level(ranks[i])
      <4>1. ranks \in Seq(Titled(visit))
        BY <1>4 DEF IsPath
      <4>2. ASSUME NEW i \in 1..Len(ranks) PROVE ranks[i] \in 1..Len(page)
        <5>1. ranks[i] \in Titled(visit)
          BY <4>1
        <5>. QED
          BY <1>2, <5>1
      <4>. QED
        BY <3>2, <4>1, <4>2
    <3>4. {k \in 0..Len(ranks) : \A i \in (k + 1)..Len(ranks) : Html!Level(ranks[i]) >= Html!Level(visit)}
            = PopTo(ranks, HtmlLevels, HtmlLevels[visit])
      <4>1. ASSUME NEW k \in 0..Len(ranks)
            PROVE  (\A i \in (k + 1)..Len(ranks) : Html!Level(ranks[i]) >= Html!Level(visit))
                     <=> (\A i \in (k + 1)..Len(ranks) : HtmlLevels[ranks[i]] >= HtmlLevels[visit])
        <5>1. \A i \in (k + 1)..Len(ranks) : i \in 1..Len(ranks)
          BY <3>3
        <5>. QED
          BY <1>2, <3>2, <3>3, <5>1
      <4>. QED
        BY <4>1 DEF PopTo
    <3>5. Html!OpenAbove(visit) = PopAbove(ranks, HtmlLevels, HtmlLevels[visit])
      BY <3>4, Zenon DEF Html!OpenAbove, PopAbove
    <3>6. IsPath(Append(PopAbove(ranks, HtmlLevels, HtmlLevels[visit]), visit),
                 Titled(visit) \cup {visit}, HtmlLevels)
      <4>1. /\ visit \in Nat /\ visit \in 1..Len(page) /\ Titled(visit) \in SUBSET Nat
            /\ Titled(visit) \subseteq 1..Len(page) /\ \A h \in Titled(visit) : h < visit
        BY <1>2
      <4>. QED
        BY <1>4, <3>2, <4>1, PathGrows
    <3>. QED
      BY <1>2, <1>3, <2>1, <3>1, <3>5, <3>6
  <2>2. CASE ~ (Html!Tag(visit) = "heading" /\ Html!HasText(visit))
    <3>1. ranks' = ranks
      BY <2>2 DEF Html!VisitHeading, Html!PassOver
    <3>2. Titled(visit)' = Titled(visit)
      BY <1>2, <2>2
    <3>. QED
      BY <1>3, <1>4, <3>1, <3>2
  <2>. QED
    BY <2>1, <2>2
<1>8. \A i \in DOMAIN found' : IsPath(found'[i].path, Titled(found[i].of)', HtmlLevels')
  <2>1. \A i \in DOMAIN found : IsPath(found[i].path, Titled(found[i].of), HtmlLevels)
    BY DEF WalkInv, RanksArePath
  <2>2. \A i : Titled(found[i].of)' = Titled(found[i].of)
    BY <1>1, PageKept DEF Titled, Html!Tag, Html!HasText, Html!Inside
  <2>. QED
    BY <1>1, <1>3, <2>1, <2>2
<1>. QED
  BY <1>5, <1>6, <1>7, <1>8 DEF WalkInv, RanksArePath

\* A text element becomes a block when no other encloses it.
LEMMA BlockKept ==
    ASSUME WalkInv, Html!VisitText
    PROVE  WalkInv'
<1>1. /\ page' = page /\ walk = "walk" /\ walk' = walk /\ ranks' = ranks
      /\ visit <= Len(page) /\ visit' = visit + 1 /\ Html!Tag(visit) = "text"
      /\ found' = IF IsBlock(visit) THEN Append(found, [of |-> visit, path |-> ranks]) ELSE found
  BY DEF Html!VisitText, IsBlock
<1>2. /\ visit \in 1..Len(page) /\ visit' \in 1..(Len(page) + 1)
      /\ \A n : n \in 1..(visit' - 1) <=> n \in 1..(visit - 1) \/ n = visit
      /\ visit \notin 1..(visit - 1)
      /\ \A h \in Titled(visit) : h < visit /\ h \in 1..Len(page)
      /\ Titled(visit)' = Titled(visit)
  BY <1>1, Visited
<1>3. /\ InOrder' = InOrder /\ HtmlLevels' = HtmlLevels
      /\ \A n : IsBlock(n)' = IsBlock(n)
  BY <1>1, PageKept
<1>4. /\ InOrder /\ IsPath(ranks, Titled(visit), HtmlLevels)
      /\ \A i \in DOMAIN found : /\ found[i].of \in 1..(visit - 1) /\ IsBlock(found[i].of)
                                 /\ IsPath(found[i].path, Titled(found[i].of), HtmlLevels)
      /\ \A i, j \in DOMAIN found : found[i].of = found[j].of => i = j
      /\ \A n \in 1..(visit - 1) : IsBlock(n) => \E i \in DOMAIN found : found[i].of = n
      /\ found \in Seq([of : Nat, path : Seq(Nat)])
  BY DEF WalkInv, WalkTypes, FoundOnce, RanksArePath
<1>5. ASSUME NEW f, f = found',
             \A i \in DOMAIN f : IsPath(f[i].path, Titled(f[i].of), HtmlLevels)
      PROVE  RanksArePath'
  <2>1. \A i : Titled(found[i].of)' = Titled(f[i].of)
    BY <1>1, <1>5 DEF Titled, Html!Tag, Html!HasText, Html!Inside
  <2>. QED
    BY <1>1, <1>2, <1>3, <1>4, <1>5, <2>1 DEF RanksArePath
<1>6. CASE ~ IsBlock(visit)
  <2>1. found' = found
    BY <1>1, <1>6
  <2>2. WalkTypes' /\ FoundOnce'
    BY <1>1, <1>2, <1>3, <1>4, <1>6, <2>1 DEF WalkInv, WalkTypes, FoundOnce
  <2>3. RanksArePath'
    BY <1>4, <1>5, <2>1
  <2>. QED
    BY <2>2, <2>3 DEF WalkInv
<1>7. CASE IsBlock(visit)
  <2>. DEFINE new == [of |-> visit, path |-> ranks]
              Block == [of : Nat, path : Seq(Nat)]
  <2>1. new \in Block
    <3>1. visit \in Nat /\ Titled(visit) \in SUBSET Nat /\ ranks \in Seq(Titled(visit))
      BY <1>2, <1>4 DEF IsPath
    <3>. QED
      BY <3>1, SeqOfNat
  <2>2. new.of = visit /\ new.path = ranks /\ found' = Append(found, new)
    BY <1>1, <1>7
  <2>. HIDE DEF new, Block
  <2>3. PICK N \in Nat : N = Len(found)
    BY <1>4
  <2>4. /\ DOMAIN found = 1..N /\ DOMAIN found' = 1..(N + 1)
        /\ \A i \in 1..N : found'[i] = found[i]
        /\ found'[N + 1] = new
    BY <1>4, <2>2, <2>3, AppendHolds
  <2>5. \A i \in 1..(N + 1) : i \in 1..N \/ i = N + 1
    BY <2>3
  <2>6. found' \in Seq([of : Nat, path : Seq(Nat)])
    BY <1>4, <2>1, <2>2 DEF Block
  <2>7. WalkTypes'
    BY <1>1, <1>2, <1>3, <2>6 DEF WalkInv, WalkTypes
  <2>8. FoundOnce'
    <3>1. \A i \in DOMAIN found' : found'[i].of \in 1..(visit' - 1) /\ IsBlock(found'[i].of)
      BY <1>2, <1>4, <1>7, <2>2, <2>4, <2>5
    <3>2. ASSUME NEW i \in DOMAIN found', NEW j \in DOMAIN found', found'[i].of = found'[j].of
          PROVE  i = j
      <4>1. \A k \in 1..N : found'[k].of \in 1..(visit - 1) /\ found'[k].of # found'[N + 1].of
        <5>1. \A k \in 1..N : found'[k].of \in 1..(visit - 1)
          BY <1>4, <2>4
        <5>2. found'[N + 1].of = visit
          BY <2>2, <2>4, Zenon
        <5>. QED
          BY <1>2, <5>1, <5>2, Zenon
      <4>2. \A k, m \in 1..N : found'[k].of = found'[m].of => k = m
        BY <1>4, <2>4
      <4>. QED
        BY <2>4, <2>5, <3>2, <4>1, <4>2
    <3>3. \A n \in 1..(visit' - 1) : IsBlock(n) => \E i \in DOMAIN found' : found'[i].of = n
      <4>1. N + 1 \in 1..(N + 1) /\ \A i \in 1..N : i \in 1..(N + 1)
        BY <2>3
      <4>2. ASSUME NEW n \in 1..(visit' - 1), IsBlock(n)
            PROVE  \E i \in 1..(N + 1) : found'[i].of = n
        <5>1. CASE n = visit
          BY <2>2, <2>4, <4>1, <5>1
        <5>2. CASE n \in 1..(visit - 1)
          <6>1. PICK i \in 1..N : found[i].of = n
            BY <1>4, <2>4, <4>2, <5>2
          <6>. QED
            BY <2>4, <4>1, <6>1
        <5>. QED
          BY <1>2, <4>2, <5>1, <5>2
      <4>. QED
        BY <2>4, <4>2
    <3>4. \A i : IsBlock(found[i].of)' = IsBlock(found'[i].of)
      BY <1>1 DEF IsBlock, Html!Tag, Html!HasText, Html!Inside, Html!Outermost
    <3>. QED
      BY <1>3, <3>1, <3>2, <3>3, <3>4 DEF FoundOnce
  <2>9. RanksArePath'
    <3>1. \A i \in DOMAIN found' : IsPath(found'[i].path, Titled(found'[i].of), HtmlLevels)
      BY <1>4, <2>2, <2>4, <2>5
    <3>. QED
      BY <1>5, <3>1
  <2>. QED
    BY <2>7, <2>8, <2>9 DEF WalkInv
<1>. QED
  BY <1>6, <1>7

\* The invariant of the walk, of its specification.
LEMMA WalkInvHolds == Html!Spec => []WalkInv
<1>1. Html!Init => WalkInv
  <2>. SUFFICES ASSUME Html!Init PROVE WalkInv
    OBVIOUS
  <2>1. /\ page = <<>> /\ visit = 1 /\ ranks = <<>> /\ found = <<>> /\ walk = "read"
        /\ Len(page) = 0
    BY DEF Html!Init
  <2>2. InOrder /\ WalkTypes
    BY <2>1 DEF InOrder, WalkTypes
  <2>3. 1..(visit - 1) = {} /\ DOMAIN found = {}
    BY <2>1
  <2>4. FoundOnce /\ Titled(visit) = {}
    BY <2>3 DEF FoundOnce, Titled
  <2>5. IsPath(ranks, {}, HtmlLevels)
    <3>1. ranks \in Seq({}) /\ DOMAIN ranks = {}
      BY <2>1
    <3>. QED
      BY <3>1 DEF IsPath, OpenOf, ToSet
  <2>. QED
    BY <2>2, <2>3, <2>4, <2>5 DEF WalkInv, RanksArePath
<1>2. WalkInv /\ [Html!Next]_(Html!vars) => WalkInv'
  <2>. SUFFICES ASSUME WalkInv, [Html!Next]_(Html!vars) PROVE WalkInv'
    OBVIOUS
  <2>1. CASE Html!ReadElement
    BY <2>1, ElementRead
  <2>2. CASE Html!ReadEnd
    <3>1. InOrder' /\ walk = "read" /\ UNCHANGED <<visit, ranks, found>> /\ walk' = "walk"
      BY <2>2 DEF WalkInv, WalkTypes, InOrder, Html!ReadEnd
    <3>. QED
      BY <3>1, ReadKept
  <2>3. CASE Html!VisitHeading \/ Html!PassOver
    BY <2>3, NoBlockKept
  <2>4. CASE Html!VisitText
    BY <2>4, BlockKept
  <2>5. CASE Html!EndOfPage \/ UNCHANGED Html!vars
    <3>1. /\ UNCHANGED <<page, visit, ranks, found>>
          /\ walk' = walk \/ (walk = "walk" /\ walk' \in {"parsed", "rejected"} /\ visit > Len(page))
      BY <2>5 DEF Html!EndOfPage, Html!vars
    <3>2. WalkTypes'
      BY <3>1 DEF WalkInv, WalkTypes, InOrder
    <3>3. FoundOnce'
      <4>1. \A n : IsBlock(n)' = IsBlock(n)
        BY <3>1, PageKept
      <4>2. \A i : IsBlock(found[i].of)' = IsBlock(found[i].of)
        BY <3>1 DEF IsBlock, Html!Tag, Html!HasText, Html!Inside, Html!Outermost
      <4>. QED
        BY <3>1, <4>1, <4>2 DEF WalkInv, FoundOnce
    <3>4. RanksArePath'
      <4>1. Titled(visit)' = Titled(visit) /\ \A i : Titled(found[i].of)' = Titled(found[i].of)
        BY <3>1 DEF Titled, Html!Tag, Html!HasText, Html!Inside
      <4>2. HtmlLevels' = HtmlLevels
        BY <3>1, PageKept
      <4>. QED
        BY <3>1, <4>1, <4>2 DEF WalkInv, RanksArePath
    <3>. QED
      BY <3>2, <3>3, <3>4 DEF WalkInv
  <2>. QED
    BY <2>1, <2>2, <2>3, <2>4, <2>5 DEF Html!Next
<1>. QED
  BY <1>1, <1>2, PTL DEF Html!Spec

\* The path of a block is the headings that no later one before the block has closed.
LEMMA HtmlPaths == WalkInv => Html!PathsAreEnclosing
<1>. SUFFICES ASSUME WalkInv, NEW b \in ToSet(found)
              PROVE  /\ ToSet(b.path) = {h \in Titled(b.of) :
                                             \A g \in Titled(b.of) : h < g => Html!Level(g) > Html!Level(h)}
                     /\ \A x, y \in DOMAIN b.path : x < y => b.path[x] < b.path[y]
  BY Zenon DEF Html!PathsAreEnclosing, Html!ToSet, ToSet, Titled
<1>1. PICK i \in DOMAIN found : b = found[i]
  BY DEF ToSet
<1>2. IsPath(b.path, Titled(b.of), HtmlLevels) /\ b.of \in 1..(visit - 1) /\ InOrder
  BY <1>1 DEF WalkInv, WalkTypes, FoundOnce, RanksArePath
<1>3. \A h \in Titled(b.of) : HtmlLevels[h] = Html!Level(h) /\ HtmlLevels[h] \in Nat
  <2>1. \A h \in 1..(b.of - 1) : h \in 1..Len(page)
    <3>1. visit \in 1..(Len(page) + 1) /\ Len(page) \in Nat
      BY DEF WalkInv, WalkTypes, InOrder
    <3>. QED
      BY <1>2, <3>1
  <2>. QED
    BY <1>2, <2>1, ElementIs DEF Titled
<1>4. \A h : h \in OpenOf(Titled(b.of), HtmlLevels)
               <=> h \in Titled(b.of) /\ \A g \in Titled(b.of) : h < g => Html!Level(g) > Html!Level(h)
  <2>1. \A h : h \in OpenOf(Titled(b.of), HtmlLevels)
                 <=> h \in Titled(b.of) /\ \A g \in Titled(b.of) : h < g => HtmlLevels[h] < HtmlLevels[g]
    BY Zenon DEF OpenOf
  <2>. QED
    BY <1>3, <2>1
<1>5. \A h : h \in ToSet(b.path) <=> h \in OpenOf(Titled(b.of), HtmlLevels)
  BY <1>2 DEF IsPath
<1>6. ToSet(b.path) = {h \in Titled(b.of) : \A g \in Titled(b.of) : h < g => Html!Level(g) > Html!Level(h)}
  BY <1>4, <1>5
<1>. QED
  BY <1>2, <1>6 DEF IsPath

\* What is said is in the block of the outermost text element around it, and in no other.
LEMMA HtmlText == WalkInv => Html!TextOnce
<1>. SUFFICES ASSUME WalkInv, walk \in {"parsed", "rejected"}, NEW n \in DOMAIN page,
                     page[n].said, Html!Tag(n) = "text" \/ ~ Html!Outermost(n)
              PROVE  \E i \in DOMAIN found :
                         \A j \in DOMAIN found : n \in Html!Inside(found[j].of) <=> i = j
  BY Zenon DEF Html!TextOnce
<1>. DEFINE Self == {n} \cup Outer(n)
            T    == {m \in Self : Html!Tag(m) = "text"}
<1>1. /\ InOrder /\ Len(page) \in Nat /\ DOMAIN page = 1..Len(page) /\ n \in 1..Len(page)
      /\ \A m \in 1..Len(page) : m \in 1..(visit - 1)
  BY DEF WalkInv, WalkTypes, InOrder
<1>2. NestsUpTo(n)
  BY <1>1, Nests
<1>3. /\ Outer(n) \subseteq 1..(n - 1)
      /\ \A b \in Outer(n) : Outer(b) \subseteq Outer(n)
      /\ \A a, b \in Outer(n) : a < b => a \in Outer(b)
  BY <1>2 DEF NestsUpTo
<1>4. \A m \in 1..(n - 1) : m \in 1..Len(page) /\ m < n /\ m \in Nat
  BY <1>1
<1>5. \A m \in Self : /\ m \in 1..Len(page) /\ m \in Nat /\ Outer(m) \subseteq Self
                      /\ \A a \in Self : a < m => a \in Outer(m)
  <2>1. \A a \in Self : a < n => a \in Outer(n)
    BY <1>1
  <2>2. ASSUME NEW m \in Outer(n), NEW a \in Self, a < m PROVE a \in Outer(m)
    <3>1. m < n /\ m \in Nat
      BY <1>3, <1>4
    <3>2. a # n
      BY <1>1, <2>2, <3>1
    <3>. QED
      BY <1>3, <2>2, <3>2
  <2>. QED
    BY <1>1, <1>3, <1>4, <2>1, <2>2
<1>6. ASSUME NEW m
      PROVE  n \in Html!Inside(m) <=> m \in Self
  BY <1>1 DEF Html!Inside, Outer
<1>7. ASSUME NEW m PROVE Html!Outermost(m) <=> \A a \in Outer(m) : Html!Tag(a) # "text"
  BY DEF Html!Outermost, Outer
<1>8. T # {}
  BY <1>7
<1>9. PICK k \in T : \A m \in T : k <= m
  <2>1. T \in SUBSET Nat
    BY <1>5
  <2>. HIDE DEF T
  <2>. QED
    BY <1>8, <2>1, LeastNat
<1>10. IsBlock(k)
  <2>1. Html!Outermost(k)
    <3>1. ASSUME NEW a \in Outer(k) PROVE Html!Tag(a) # "text"
      <4>1. a \in Self /\ a < k
        <5>1. k \in 1..Len(page) /\ Outer(k) \subseteq Self
          BY <1>5
        <5>2. Outer(k) \subseteq 1..(k - 1)
          BY <1>1, <5>1, Nests DEF NestsUpTo
        <5>3. \A m \in 1..(k - 1) : m < k
          BY <5>1
        <5>. QED
          BY <5>1, <5>2, <5>3
      <4>2. ~ k <= a
        BY <1>5, <4>1
      <4>. QED
        BY <1>9, <4>1, <4>2
    <3>. QED
      BY <1>7, <3>1
  <2>2. Html!HasText(k)
    BY <1>6 DEF Html!HasText
  <2>. QED
    BY <2>1, <2>2 DEF IsBlock
<1>11. PICK i \in DOMAIN found : found[i].of = k
  BY <1>1, <1>5, <1>10 DEF WalkInv, FoundOnce
<1>12. ASSUME NEW j \in DOMAIN found, found[j].of \in Self PROVE found[j].of = k
  <2>1. IsBlock(found[j].of)
    BY DEF WalkInv, FoundOnce
  <2>2. found[j].of \in T
    BY <1>12, <2>1 DEF IsBlock
  <2>3. k <= found[j].of /\ k \in Nat /\ found[j].of \in Nat
    BY <1>5, <1>9, <2>2
  <2>4. ~ k < found[j].of
    <3>1. k < found[j].of => k \in Outer(found[j].of)
      BY <1>5, <1>12
    <3>. QED
      BY <1>7, <2>1, <3>1 DEF IsBlock
  <2>. QED
    BY <2>3, <2>4
<1>13. ASSUME NEW j \in DOMAIN found PROVE n \in Html!Inside(found[j].of) <=> i = j
  <2>1. CASE i = j
    BY <1>6, <1>11, <2>1
  <2>2. CASE n \in Html!Inside(found[j].of)
    <3>1. found[j].of = found[i].of
      BY <1>6, <1>11, <1>12, <2>2
    <3>. QED
      BY <2>2, <3>1 DEF WalkInv, FoundOnce
  <2>. QED
    BY <2>1, <2>2
<1>. QED
  BY <1>13

-----------------------------------------------------------------------------
(* Both parsers, as parts of the run. *)

\* A behaviour of the run is one of each parser, which may stand still.
LEMMA PartsOfTheRun == AnySpec => Parser!Spec /\ Html!Spec
<1>1. AnyInit => Parser!Init
  <2>. SUFFICES ASSUME AnyInit, NoFile PROVE Parser!Init
    BY DEF AnyInit
  <2>1. lines \in Parser!SeqOf(Parser!Line, MaxLines)
    <3>1. <<>> \in [1..0 -> Parser!Line] /\ 0 \in 0..MaxLines
      BY LinesAssumption DEF Parser!LinesAssumption
    <3>. QED
      BY <3>1, Zenon DEF Parser!SeqOf, NoFile
  <2>. QED
    BY <2>1 DEF NoFile, Parser!Init
<1>2. AnyInit => Html!Init
  BY DEF AnyInit
<1>3. [AnyNext]_<<running, vars, parserVars, htmlVars, citeVars, searchVars, usageVars, evalVars>>
        => [Parser!Next]_(Parser!vars) /\ [Html!Next]_(Html!vars)
  BY DEF AnyNext, parserVars, htmlVars, Parser!vars, Html!vars
<1>. QED
  BY <1>1, <1>2, <1>3, PTL DEF AnySpec, Parser!Spec, Html!Spec

\* Sections and HtmlBlocks: a Markdown and an HTML block are cited under exactly the
\* headings that enclose it, whatever fences the file has; and down to the first fence
\* that a piece of code quotes, what looks like a heading is one exactly outside of code.
THEOREM PathsAreEnclosingHolds == AnySpec => []PathsAreEnclosing
<1>1. Parser!Spec => []Parser!PathsAreEnclosing
  BY ScanInvHolds, MarkdownPaths, PTL
<1>2. Parser!Spec => []Parser!CodeIsCode
  BY CodeIsCodeHolds
<1>3. Html!Spec => []Html!PathsAreEnclosing
  BY WalkInvHolds, HtmlPaths, PTL
<1>. QED
  BY <1>1, <1>2, <1>3, PartsOfTheRun, PTL DEF PathsAreEnclosing

\* Sections and HtmlBlocks: every line, and everything that is said in a text element, is
\* in exactly one block when the file is parsed, however elements nest.
THEOREM TextIsKeptHolds == AnySpec => []TextIsKept
<1>1. Parser!Spec => []Parser!TextIsKept
  BY ScanInvHolds, MarkdownText, PTL
<1>2. Html!Spec => []Html!TextOnce
  BY WalkInvHolds, HtmlText, PTL
<1>. QED
  BY <1>1, <1>2, PartsOfTheRun, PTL DEF TextIsKept

-----------------------------------------------------------------------------
(* Sorting by counting what comes before. *)

\* R orders S strictly and totally.
Orders(R, S) ==
    /\ \A x \in S : <<x, x>> \notin R
    /\ \A x, y, z \in S : <<x, y>> \in R /\ <<y, z>> \in R => <<x, z>> \in R
    /\ \A x, y \in S : x # y => <<x, y>> \in R \/ <<y, x>> \in R

\* s lists the elements of S in the order R, each once.
Lists(s, S, R) ==
    /\ Cardinality(S) \in Nat
    /\ s \in [1..Cardinality(S) -> S]
    /\ \A x \in S : \E i \in 1..Cardinality(S) : s[i] = x
    /\ \A i, j \in 1..Cardinality(S) : i < j <=> <<s[i], s[j]>> \in R

\* The sequence that has at each place an element with as many before it, if there is
\* one, lists the set in order.
LEMMA CountingSorts ==
    ASSUME NEW S, IsFiniteSet(S), NEW R, Orders(R, S),
           NEW s, s = [i \in 1..Cardinality(S) |-> s[i]],
           \A i \in 1..Cardinality(S) : \A x \in S :
               Cardinality({y \in S : <<y, x>> \in R}) = i - 1
                   => s[i] \in S /\ Cardinality({y \in S : <<y, s[i]>> \in R}) = i - 1
    PROVE  Lists(s, S, R)
<1>. DEFINE n        == Cardinality(S)
            below(x) == {y \in S : <<y, x>> \in R}
            place    == [x \in S |-> Cardinality(below(x)) + 1]
<1>1. n \in Nat
  BY FS_CardinalityType
<1>2. ASSUME NEW x \in S
      PROVE  IsFiniteSet(below(x)) /\ Cardinality(below(x)) \in Nat /\ Cardinality(below(x)) < n
  <2>1. below(x) \in SUBSET (S \ {x})
    BY DEF Orders
  <2>2. IsFiniteSet(S \ {x}) /\ Cardinality(S \ {x}) = n - 1
    BY FS_RemoveElement
  <2>. HIDE DEF below, n
  <2>3. IsFiniteSet(below(x)) /\ Cardinality(below(x)) <= n - 1
    BY <2>1, <2>2, FS_Subset
  <2>4. Cardinality(below(x)) \in Nat
    BY <2>3, FS_CardinalityType
  <2>. QED
    BY <1>1, <2>3, <2>4
<1>3. ASSUME NEW x \in S, NEW y \in S, <<x, y>> \in R
      PROVE  Cardinality(below(x)) < Cardinality(below(y))
  <2>1. x \notin below(x) /\ below(x) \cup {x} \in SUBSET below(y)
    BY <1>3 DEF Orders
  <2>. HIDE DEF below
  <2>2. Cardinality(below(x) \cup {x}) = Cardinality(below(x)) + 1
    BY <1>2, <2>1, FS_AddElement
  <2>3. Cardinality(below(x) \cup {x}) <= Cardinality(below(y))
    BY <1>2, <2>1, FS_Subset
  <2>. QED
    BY <1>2, <2>2, <2>3
<1>4. ASSUME NEW x \in S, NEW y \in S
      PROVE  Cardinality(below(x)) < Cardinality(below(y)) <=> <<x, y>> \in R
  <2>. HIDE DEF below
  <2>1. CASE x = y
    BY <1>2, <2>1 DEF Orders
  <2>2. CASE x # y
    <3>1. <<x, y>> \in R => Cardinality(below(x)) < Cardinality(below(y))
      BY <1>3
    <3>2. <<y, x>> \in R => Cardinality(below(y)) < Cardinality(below(x))
      BY <1>3
    <3>3. <<x, y>> \in R \/ <<y, x>> \in R
      BY <2>2 DEF Orders
    <3>4. Cardinality(below(x)) \in Nat /\ Cardinality(below(y)) \in Nat
      BY <1>2
    <3>. QED
      BY <3>1, <3>2, <3>3, <3>4
  <2>. QED
    BY <2>1, <2>2
<1>. HIDE DEF below
<1>5. place \in Injection(S, 1..n)
  <2>1. \A x \in S : place[x] = Cardinality(below(x)) + 1 /\ place[x] \in 1..n
    BY <1>1, <1>2
  <2>2. place \in [S -> 1..n]
    BY <2>1
  <2>3. ASSUME NEW x \in S, NEW y \in S, place[x] = place[y] PROVE x = y
    <3>1. Cardinality(below(x)) = Cardinality(below(y))
      BY <1>2, <2>1, <2>3
    <3>2. <<x, y>> \notin R /\ <<y, x>> \notin R
      BY <1>2, <1>4, <3>1
    <3>. QED
      BY <3>2 DEF Orders
  <2>. HIDE DEF place
  <2>4. IsInjective(place)
    BY <2>2, <2>3 DEF IsInjective
  <2>. QED
    BY <2>2, <2>4 DEF Injection
<1>6. place \in Surjection(S, 1..n)
  <2>1. IsFiniteSet(1..n) /\ Cardinality(1..n) = n
    BY <1>1, FS_Interval
  <2>. HIDE DEF place
  <2>. QED
    BY <1>5, <2>1, FS_Injection
<1>7. ASSUME NEW i \in 1..n PROVE s[i] \in S /\ Cardinality(below(s[i])) = i - 1
  <2>1. PICK x \in S : place[x] = i
    <3>. HIDE DEF place
    <3>. QED
      BY <1>6 DEF Surjection
  <2>2. Cardinality(below(x)) = i - 1
    BY <1>2, <2>1
  <2>. QED
    BY <2>2 DEF below
<1>8. s \in [1..n -> S]
  BY <1>7
<1>9. ASSUME NEW x \in S PROVE \E i \in 1..n : s[i] = x
  <2>1. Cardinality(below(x)) + 1 \in 1..n
    BY <1>1, <1>2
  <2>. DEFINE i == Cardinality(below(x)) + 1
  <2>2. s[i] \in S /\ Cardinality(below(s[i])) = Cardinality(below(x))
    BY <1>2, <1>7, <2>1
  <2>3. <<x, s[i]>> \notin R /\ <<s[i], x>> \notin R
    BY <1>2, <1>4, <2>2
  <2>4. s[i] = x
    BY <2>2, <2>3 DEF Orders
  <2>. QED
    BY <2>1, <2>4
<1>10. ASSUME NEW i \in 1..n, NEW j \in 1..n PROVE i < j <=> <<s[i], s[j]>> \in R
  BY <1>1, <1>4, <1>7
<1>. QED
  BY <1>1, <1>8, <1>9, <1>10 DEF Lists

-----------------------------------------------------------------------------
(* The citations: the inductive invariant. *)

Passage == {run \in (DOMAIN sentences) \X (DOMAIN sentences) : run[1] <= run[2]}
Cited   == [i \in DOMAIN passages |->
               [marker |-> i, of |-> passages[i], location |-> Cite!Location(passages[i])]]

CiteTypes ==
    /\ step \in {"parse", "rejected", "retrieve", "prompt", "generate", "cite", "done"}
    /\ paged \in BOOLEAN
    /\ parts \in Seq(Nat)
    /\ passages \in Seq(Passage)
    /\ answer \in Seq(Nat)

\* What each step has left behind it.
CiteInv ==
    /\ CiteTypes
    /\ sentences = IF step = "parse" THEN <<>> ELSE Cite!Blocks
    /\ step \in {"generate", "cite", "done"} => prompt = passages /\ citations = Cited
    /\ step \notin {"generate", "cite", "done"} => citations = <<>>
    /\ step \in {"parse", "rejected", "retrieve"} => passages = <<>>
    /\ step = "done" => cited = [i \in DOMAIN Cite!Used |-> citations[Cite!Used[i]]]

\* A bounded sequence is a sequence.
LEMMA BoundedIsSeq ==
    ASSUME NEW S, NEW n \in Nat, NEW s \in Cite!SeqOf(S, n)
    PROVE  s \in Seq(S)
<1>1. PICK m \in 0..n : s \in [1..m -> S]
  BY Zenon DEF Cite!SeqOf
<1>. QED
  BY <1>1

\* The pipeline starts in the invariant.
LEMMA CiteInit == Cite!Init => CiteInv
<1>. SUFFICES ASSUME Cite!Init PROVE CiteInv
  OBVIOUS
<1>1. parts \in Seq(Nat)
  <2>1. parts \in Seq(0..MaxSentences)
    BY PartsAssumption, BoundedIsSeq DEF Cite!Init, Cite!PartsAssumption
  <2>. QED
    BY <2>1, PartsAssumption DEF Cite!PartsAssumption
<1>2. passages \in Seq(Passage) /\ answer \in Seq(Nat)
  BY DEF Cite!Init
<1>. QED
  BY <1>1, <1>2 DEF Cite!Init, CiteInv, CiteTypes

\* A step of it keeps the invariant.
LEMMA CiteStep ==
    ASSUME CiteInv, [Cite!Next]_(Cite!vars)
    PROVE  CiteInv'
<1>. USE DEF CiteInv, CiteTypes
<1>1. CASE Cite!Parse
  <2>1. /\ UNCHANGED <<paged, parts, passages, prompt, citations, answer, cited>> /\ step = "parse"
        /\ sentences' = Cite!Blocks /\ step' \in {"rejected", "retrieve"}
    BY <1>1 DEF Cite!Parse
  <2>2. Cite!Blocks' = Cite!Blocks
    BY <2>1 DEF Cite!Blocks
  <2>3. passages' = <<>> /\ passages' \in Seq(Passage')
    BY <2>1
  <2>. QED
    BY <2>1, <2>2, <2>3
<1>2. CASE Cite!Retrieve
  <2>1. UNCHANGED <<paged, parts, sentences, prompt, citations, answer, cited>> /\ step = "retrieve" /\ step' = "prompt"
    BY <1>2 DEF Cite!Retrieve
  <2>2. Cite!Blocks' = Cite!Blocks /\ Passage' = Passage
    BY <2>1 DEF Cite!Blocks, Passage
  <2>3. passages' \in Cite!SeqOf(Passage, MaxPassages)
    BY <1>2, Zenon DEF Cite!Retrieve, Passage
  <2>4. passages' \in Seq(Passage)
    BY <2>3, BoundedIsSeq, PartsAssumption DEF Cite!PartsAssumption
  <2>. QED
    BY <2>1, <2>2, <2>4
<1>3. CASE Cite!Prepare
  <2>1. UNCHANGED <<paged, parts, sentences, passages, answer, cited>> /\ step = "prompt" /\ step' = "generate"
    BY <1>3 DEF Cite!Prepare
  <2>2. /\ Cite!Blocks' = Cite!Blocks /\ Passage' = Passage
        /\ Cited' = Cited
    BY <2>1 DEF Cite!Blocks, Passage, Cited, Cite!Location
  <2>3. prompt' = passages' /\ citations' = Cited
    BY <1>3, <2>1 DEF Cite!Prepare, Cited
  <2>. QED
    BY <2>1, <2>2, <2>3
<1>4. CASE Cite!Generate
  <2>1. UNCHANGED <<paged, parts, sentences, passages, prompt, citations, cited>> /\ step = "generate" /\ step' = "cite"
    BY <1>4 DEF Cite!Generate
  <2>2. /\ Cite!Blocks' = Cite!Blocks /\ Passage' = Passage
        /\ Cited' = Cited
    BY <2>1 DEF Cite!Blocks, Passage, Cited, Cite!Location
  <2>3. answer' \in Seq(0..(MaxPassages + 1))
    BY <1>4, PartsAssumption, BoundedIsSeq DEF Cite!Generate, Cite!PartsAssumption
  <2>4. answer' \in Seq(Nat)
    BY <2>3, PartsAssumption DEF Cite!PartsAssumption
  <2>. QED
    BY <2>1, <2>2, <2>4
<1>5. CASE Cite!Cite
  <2>1. UNCHANGED <<paged, parts, sentences, passages, prompt, citations, answer>> /\ step = "cite" /\ step' = "done"
    BY <1>5 DEF Cite!Cite
  <2>2. /\ Cite!Blocks' = Cite!Blocks /\ Passage' = Passage
        /\ Cited' = Cited /\ Cite!Used' = Cite!Used
    BY <2>1 DEF Cite!Blocks, Passage, Cited, Cite!Location, Cite!Used
  <2>3. cited' = [i \in DOMAIN Cite!Used |-> citations[Cite!Used[i]]]
    BY <1>5 DEF Cite!Cite
  <2>. QED
    BY <2>1, <2>2, <2>3
<1>6. CASE UNCHANGED Cite!vars
  <2>1. UNCHANGED <<step, paged, parts, sentences, passages, prompt, citations, answer, cited>>
    BY <1>6 DEF Cite!vars
  <2>2. /\ Cite!Blocks' = Cite!Blocks /\ Passage' = Passage
        /\ Cited' = Cited /\ Cite!Used' = Cite!Used
    BY <2>1 DEF Cite!Blocks, Passage, Cited, Cite!Location, Cite!Used
  <2>. QED
    BY <2>1, <2>2
<1>. QED
  BY <1>1, <1>2, <1>3, <1>4, <1>5, <1>6 DEF Cite!Next

\* The invariant, of the specification.
LEMMA CiteInvHolds == Cite!Spec => []CiteInv
BY CiteInit, CiteStep, PTL DEF Cite!Spec

\* The markers used are listed in order.
Known == Cite!ToSet(answer) \cap DOMAIN citations
Less  == {p \in Nat \X Nat : p[1] < p[2]}

\* The instance counts as this module does.
LEMMA SameCardinality == \A S : Cite!Cardinality(S) = Cardinality(S)
BY Zenon DEF Cite!Cardinality, Cardinality

\* _cited_only() lists the passages named, by marker.
LEMMA UsedLists ==
    ASSUME CiteInv, step = "done"
    PROVE  Lists(Cite!Used, Known, Less) /\ Known \subseteq 1..Len(passages)
<1>. DEFINE N == Len(passages)
            s == Cite!Used
            n == Cardinality(Known)
<1>1. N \in Nat /\ DOMAIN citations = 1..N
  BY DEF CiteInv, CiteTypes, Cited
<1>. HIDE DEF N
<1>2. Known \in SUBSET (1..N)
  BY <1>1 DEF Known
<1>3. IsFiniteSet(Known)
  <2>1. IsFiniteSet(1..N)
    BY <1>1, FS_Interval
  <2>. QED
    BY <1>2, <2>1, FS_Subset
<1>. DEFINE f == [i \in 1..n |-> CHOOSE m \in Known : Cite!Cardinality({k \in Known : k < m}) = i - 1]
<1>4. s = f
  <2>1. s = [i \in 1..Cite!Cardinality(Known) |->
               CHOOSE m \in Known : Cite!Cardinality({k \in Known : k < m}) = i - 1]
    BY Zenon DEF Cite!Used, Known
  <2>2. Cite!Cardinality(Known) = n
    BY SameCardinality
  <2>. QED
    BY <2>1, <2>2
<1>5. ASSUME NEW x \in Known PROVE {y \in Known : <<y, x>> \in Less} = {k \in Known : k < x}
  <2>1. \A y \in Known : <<y, x>> \in Less <=> y < x
    BY <1>2 DEF Less
  <2>. QED
    BY <2>1
<1>. HIDE DEF s
<1>6. ASSUME NEW i \in 1..n, NEW x \in Known, Cardinality({y \in Known : <<y, x>> \in Less}) = i - 1
      PROVE  s[i] \in Known /\ Cardinality({y \in Known : <<y, s[i]>> \in Less}) = i - 1
  <2>1. Cardinality({k \in Known : k < x}) = i - 1
    BY <1>5, <1>6
  <2>2. s[i] = CHOOSE m \in Known : Cite!Cardinality({k \in Known : k < m}) = i - 1
    BY <1>4
  <2>3. Cite!Cardinality({k \in Known : k < x}) = i - 1
    BY <2>1, SameCardinality
  <2>4. s[i] \in Known /\ Cite!Cardinality({k \in Known : k < s[i]}) = i - 1
    BY <2>2, <2>3
  <2>5. Cardinality({k \in Known : k < s[i]}) = i - 1
    BY <2>4, SameCardinality
  <2>. QED
    BY <1>5, <2>4, <2>5
<1>7. s = [i \in 1..n |-> s[i]]
  <2>1. f = [i \in 1..n |-> f[i]]
    OBVIOUS
  <2>. HIDE DEF f
  <2>. QED
    BY <1>4, <2>1
<1>8. Orders(Less, Known)
  BY <1>1, <1>2 DEF Orders, Less
<1>9. Lists(s, Known, Less)
  BY <1>3, <1>6, <1>7, <1>8, CountingSorts
<1>. QED
  BY <1>2, <1>9 DEF s, N

\* The citations returned are those.
LEMMA CitedIsUsedFollows == CiteInv => Cite!CitedIsUsed
<1>. SUFFICES ASSUME CiteInv, step = "done" PROVE Cite!CitedIsUsed
  BY DEF Cite!CitedIsUsed
<1>. DEFINE s == Cite!Used
            n == Cardinality(Known)
<1>1. /\ n \in Nat /\ s \in [1..n -> Known]
      /\ \A x \in Known : \E i \in 1..n : s[i] = x
      /\ \A i, j \in 1..n : i < j <=> <<s[i], s[j]>> \in Less
  BY UsedLists DEF Lists
<1>2. Known \subseteq 1..Len(passages) /\ Len(passages) \in Nat
  BY UsedLists DEF CiteInv, CiteTypes
<1>3. /\ prompt = passages /\ DOMAIN passages = 1..Len(passages) /\ DOMAIN citations = 1..Len(passages)
      /\ \A k \in 1..Len(passages) : citations[k].marker = k /\ citations[k].of = passages[k]
  BY DEF CiteInv, CiteTypes, Cited
<1>4. DOMAIN s = 1..n /\ cited = [i \in 1..n |-> citations[s[i]]]
  BY <1>1 DEF CiteInv
<1>. HIDE DEF s, n
<1>5. \A i \in 1..n : cited[i].marker = s[i] /\ cited[i].of = prompt[s[i]]
  BY <1>1, <1>2, <1>3, <1>4
<1>6. ASSUME NEW i \in DOMAIN cited, NEW j \in DOMAIN cited, i < j
      PROVE  cited[i].marker < cited[j].marker
  <2>1. i \in 1..n /\ j \in 1..n
    BY <1>4
  <2>2. <<s[i], s[j]>> \in Less
    BY <1>1, <1>6, <2>1
  <2>3. s[i] < s[j]
    BY <2>2 DEF Less
  <2>. QED
    BY <1>5, <2>1, <2>3
<1>7. Cite!ToSet(cited) = {cited[i] : i \in 1..n}
  BY <1>4 DEF Cite!ToSet
<1>8. {c.marker : c \in Cite!ToSet(cited)} = Known
  BY <1>1, <1>5, <1>7
<1>9. \A c \in Cite!ToSet(cited) : c.of = prompt[c.marker]
  BY <1>1, <1>5, <1>7
<1>10. Known = Cite!ToSet(answer) \cap DOMAIN prompt
  BY <1>3 DEF Known
<1>. QED
  BY <1>6, <1>8, <1>9, <1>10 DEF Cite!CitedIsUsed

-----------------------------------------------------------------------------
(* The parts of the file that the sentences stand in. *)

FlattenEquation(g, seqs) ==
    g = [i \in 1..Len(seqs) |-> IF i = 1 THEN seqs[i] ELSE g[i - 1] \o seqs[i]]

\* A concatenation, by its beginnings.
LEMMA FlattenUnfolds ==
    ASSUME NEW V, NEW seqs \in Seq(Seq(V)), seqs # <<>>
    PROVE  \E g \in [1..Len(seqs) -> Seq(V)] :
               /\ g[1] = seqs[1]
               /\ \A n \in 2..Len(seqs) : g[n] = g[n - 1] \o seqs[n]
               /\ Cite!FlattenSeq(seqs) = g[Len(seqs)]
<1>. DEFINE N    == Len(seqs)
            W    == Seq(V)
            prev == [n \in 1..N |-> n - 1]
            rule == [n \in 1..N |-> [v \in W |-> IF n = 1 THEN seqs[n] ELSE v \o seqs[n]]]
<1>1. N \in Nat /\ N # 0 /\ \A n \in 1..N : seqs[n] \in W
  OBVIOUS
<1>2. PICK f : FlattenEquation(f, seqs)
  <2>1. \A n \in 1..N : prev[n] = n - 1 /\ prev[n] \in 0..(n - 1)
    BY <1>1
  <2>2. ASSUME NEW n \in 1..N, NEW v \in W
        PROVE  rule[n][v] = (IF n = 1 THEN seqs[n] ELSE v \o seqs[n]) /\ rule[n][v] \in W
    <3>1. v \o seqs[n] \in W
      BY <1>1
    <3>. QED
      BY <1>1, <3>1
  <2>3. <<>> \in W
    OBVIOUS
  <2>. HIDE DEF W, prev, rule, N
  <2>4. PICK g : Follows(g, N, W, <<>>, prev, rule)
    <3>1. WellFounded(N, W, <<>>, prev, rule)
      BY <1>1, <2>1, <2>2, <2>3 DEF WellFounded
    <3>. QED
      BY <3>1, RecursionExists
  <2>. DEFINE h == [i \in 1..N |-> g[i]]
  <2>5. ASSUME NEW n \in 1..N PROVE h[n] = IF n = 1 THEN seqs[n] ELSE h[n - 1] \o seqs[n]
    <3>1. g[n] = IF n = 1 THEN seqs[n] ELSE g[n - 1] \o seqs[n]
      <4>1. n - 1 \in 0..N
        BY <1>1
      <4>2. g[n - 1] \in W
        BY <2>4, <4>1 DEF Follows
      <4>3. g[n] = rule[n][g[n - 1]]
        BY <2>1, <2>4 DEF Follows
      <4>. QED
        BY <2>2, <4>2, <4>3
    <3>2. n # 1 => n - 1 \in 1..N
      BY <1>1
    <3>. QED
      BY <3>1, <3>2
  <2>6. h = [i \in 1..N |-> h[i]]
    OBVIOUS
  <2>. HIDE DEF h
  <2>7. h = [i \in 1..N |-> IF i = 1 THEN seqs[i] ELSE h[i - 1] \o seqs[i]]
    BY <2>5, <2>6
  <2>. QED
    BY <2>7, Zenon DEF FlattenEquation, N
<1>. DEFINE g == CHOOSE x : FlattenEquation(x, seqs)
<1>3. FlattenEquation(g, seqs)
  BY <1>2, Zenon
<1>4. g = [i \in 1..N |-> IF i = 1 THEN seqs[i] ELSE g[i - 1] \o seqs[i]]
  BY <1>3, Zenon DEF FlattenEquation
<1>5. Cite!FlattenSeq(seqs) = g[Len(seqs)]
  <2>1. ~ Len(seqs) = 0
    BY <1>1
  <2>. QED
    BY <2>1, Zenon DEF Cite!FlattenSeq, FlattenEquation
<1>. HIDE DEF g, N
<1>6. g[1] = seqs[1]
  BY <1>1, <1>4
<1>7. ASSUME NEW n \in 2..N PROVE g[n] = g[n - 1] \o seqs[n]
  <2>1. n \in 1..N /\ n # 1
    BY <1>1
  <2>. QED
    BY <1>4, <2>1
<1>. DEFINE Bad == {n \in 1..N : g[n] \notin W}
<1>8. Bad = {}
  <2>. SUFFICES ASSUME Bad # {} PROVE FALSE
    OBVIOUS
  <2>1. Bad \in SUBSET Nat
    BY <1>1
  <2>. HIDE DEF Bad
  <2>2. PICK n \in Bad : \A y \in Bad : n <= y
    BY <2>1, LeastNat
  <2>. USE DEF Bad
  <2>3. n \in 1..N /\ g[n] \notin W /\ n # 1
    BY <1>1, <1>6, <2>2
  <2>4. n \in 2..N /\ n - 1 \in 1..N /\ ~ n <= n - 1
    BY <1>1, <2>3
  <2>5. g[n - 1] \in W
    BY <2>2, <2>4
  <2>6. g[n - 1] \o seqs[n] \in W
    BY <1>1, <2>3, <2>5
  <2>. QED
    BY <1>7, <2>3, <2>4, <2>6
<1>9. g \in [1..N -> W]
  BY <1>4, <1>8
<1>. QED
  BY <1>5, <1>6, <1>7, <1>9 DEF N

\* The sentences of the first p parts.
UptoEquation(u) == u = [p \in 0..Len(parts) |-> IF p = 0 THEN 0 ELSE u[p - 1] + parts[p]]
Upto            == CHOOSE u : UptoEquation(u)

\* The counting of sentences, part by part.
LEMMA UptoUnfolds ==
    ASSUME parts \in Seq(Nat)
    PROVE  /\ Upto \in [0..Len(parts) -> Nat]
           /\ Upto[0] = 0
           /\ \A p \in 1..Len(parts) : Upto[p] = Upto[p - 1] + parts[p]
           /\ \A i : Cite!PartOf(i) = CHOOSE p \in DOMAIN parts : Upto[p - 1] < i /\ i <= Upto[p]
<1>. DEFINE N    == Len(parts)
            prev == [n \in 1..N |-> n - 1]
            rule == [n \in 1..N |-> [v \in Nat |-> v + parts[n]]]
<1>1. N \in Nat /\ \A n \in 1..N : parts[n] \in Nat
  OBVIOUS
<1>2. \E g : UptoEquation(g) /\ g \in [0..N -> Nat]
  <2>1. \A n \in 1..N : prev[n] = n - 1 /\ prev[n] \in 0..(n - 1)
    BY <1>1
  <2>2. ASSUME NEW n \in 1..N, NEW v \in Nat PROVE rule[n][v] = v + parts[n] /\ rule[n][v] \in Nat
    BY <1>1
  <2>. HIDE DEF prev, rule, N
  <2>3. PICK g : Follows(g, N, Nat, 0, prev, rule)
    <3>1. WellFounded(N, Nat, 0, prev, rule)
      BY <1>1, <2>1, <2>2 DEF WellFounded
    <3>. QED
      BY <3>1, RecursionExists
  <2>4. g \in [0..N -> Nat]
    BY <2>3 DEF Follows
  <2>5. ASSUME NEW n \in 0..N PROVE g[n] = IF n = 0 THEN 0 ELSE g[n - 1] + parts[n]
    <3>1. CASE n = 0
      BY <2>3, <3>1 DEF Follows
    <3>2. CASE n # 0
      <4>1. n \in 1..N /\ n - 1 \in 0..N
        BY <1>1, <3>2
      <4>2. g[n - 1] \in Nat
        BY <2>4, <4>1
      <4>3. g[n] = rule[n][g[n - 1]]
        BY <2>1, <2>3, <4>1 DEF Follows
      <4>4. rule[n][g[n - 1]] = g[n - 1] + parts[n]
        BY <2>2, <4>1, <4>2
      <4>. QED
        BY <3>2, <4>3, <4>4
    <3>. QED
      BY <3>1, <3>2
  <2>6. g = [n \in 0..N |-> IF n = 0 THEN 0 ELSE g[n - 1] + parts[n]]
    BY <2>4, <2>5
  <2>7. UptoEquation(g)
    BY <2>6, Zenon DEF UptoEquation, N
  <2>. QED
    BY <2>4, <2>7
<1>3. UptoEquation(Upto)
  BY <1>2, Zenon DEF Upto
<1>4. Upto = [n \in 0..N |-> IF n = 0 THEN 0 ELSE Upto[n - 1] + parts[n]]
  BY <1>3, Zenon DEF UptoEquation
<1>5. \A i : Cite!PartOf(i) = CHOOSE p \in DOMAIN parts : Upto[p - 1] < i /\ i <= Upto[p]
  BY Zenon DEF Cite!PartOf, Upto, UptoEquation
<1>. HIDE DEF N
<1>6. Upto[0] = 0
  BY <1>1, <1>4
<1>7. \A p \in 1..N : Upto[p] = Upto[p - 1] + parts[p]
  BY <1>1, <1>4
<1>. DEFINE Bad == {n \in 0..N : Upto[n] \notin Nat}
<1>8. Bad = {}
  <2>. SUFFICES ASSUME Bad # {} PROVE FALSE
    OBVIOUS
  <2>1. Bad \in SUBSET Nat
    BY <1>1
  <2>. HIDE DEF Bad
  <2>2. PICK n \in Bad : \A y \in Bad : n <= y
    BY <2>1, LeastNat
  <2>. USE DEF Bad
  <2>3. n \in 0..N /\ Upto[n] \notin Nat /\ n # 0
    BY <1>1, <1>6, <2>2
  <2>4. n \in 1..N /\ n - 1 \in 0..N /\ ~ n <= n - 1
    BY <1>1, <2>3
  <2>5. Upto[n - 1] \in Nat
    BY <2>2, <2>4
  <2>6. Upto[n] = Upto[n - 1] + parts[n] /\ parts[n] \in Nat
    BY <1>1, <1>7, <2>4
  <2>. QED
    BY <2>3, <2>5, <2>6
<1>9. Upto \in [0..N -> Nat]
  BY <1>4, <1>8
<1>. QED
  BY <1>5, <1>6, <1>7, <1>9 DEF N

\* It never falls.
LEMMA UptoGrows ==
    ASSUME parts \in Seq(Nat), NEW n \in 0..Len(parts), NEW m \in 0..n
    PROVE  Upto[m] <= Upto[n]
<1>. DEFINE N   == Len(parts)
            Bad == {k \in m..N : Upto[k] < Upto[m]}
<1>1. N \in Nat /\ \A k \in 1..N : parts[k] \in Nat
  OBVIOUS
<1>2. /\ \A k \in 0..N : Upto[k] \in Nat
      /\ \A k \in 1..N : Upto[k] = Upto[k - 1] + parts[k]
  BY UptoUnfolds
<1>. HIDE DEF N
<1>3. m \in Nat /\ m \in 0..N /\ n \in m..N
  BY <1>1 DEF N
<1>4. Bad = {}
  <2>. SUFFICES ASSUME Bad # {} PROVE FALSE
    OBVIOUS
  <2>1. Bad \in SUBSET Nat
    BY <1>1, <1>3
  <2>. HIDE DEF Bad
  <2>2. PICK k \in Bad : \A y \in Bad : k <= y
    BY <2>1, LeastNat
  <2>. USE DEF Bad
  <2>3. k \in m..N /\ Upto[k] < Upto[m] /\ k # m /\ k \in 0..N
    BY <1>1, <1>2, <1>3, <2>2
  <2>4. k \in 1..N /\ k - 1 \in m..N /\ k - 1 \in 0..N /\ ~ k <= k - 1
    BY <1>1, <1>3, <2>3
  <2>5. ~ Upto[k - 1] < Upto[m]
    BY <2>2, <2>4
  <2>6. Upto[k] = Upto[k - 1] + parts[k] /\ parts[k] \in Nat
    BY <1>1, <1>2, <2>4
  <2>7. Upto[k - 1] \in Nat /\ Upto[m] \in Nat
    BY <1>2, <1>3, <2>4
  <2>. QED
    BY <2>3, <2>5, <2>6, <2>7
<1>. QED
  BY <1>1, <1>2, <1>3, <1>4 DEF N

\* Sentence i stands in part p.
StandsIn(i, p) == p \in 1..Len(parts) /\ Upto[p - 1] < i /\ i <= Upto[p]

\* A later sentence stands in no earlier part.
LEMMA OnePart ==
    ASSUME parts \in Seq(Nat), NEW i \in Nat, NEW j \in Nat, i <= j,
           NEW p, StandsIn(i, p), NEW q, StandsIn(j, q)
    PROVE  p <= q
<1>. SUFFICES ASSUME q < p PROVE FALSE
  BY DEF StandsIn
<1>1. Len(parts) \in Nat /\ p \in 1..Len(parts) /\ q \in 1..Len(parts)
  BY DEF StandsIn
<1>2. p - 1 \in 0..Len(parts) /\ q \in 0..(p - 1)
  BY <1>1
<1>3. Upto[q] <= Upto[p - 1]
  BY <1>2, UptoGrows
<1>4. Upto[q] \in Nat /\ Upto[p - 1] \in Nat
  <2>1. Upto \in [0..Len(parts) -> Nat]
    BY UptoUnfolds
  <2>2. q \in 0..Len(parts)
    BY <1>1
  <2>. QED
    BY <1>2, <2>1, <2>2
<1>. QED
  BY <1>3, <1>4 DEF StandsIn

\* So a sentence stands in one part, the one that counting finds.
LEMMA PartOfIs ==
    ASSUME parts \in Seq(Nat), NEW i \in Nat, NEW p, StandsIn(i, p)
    PROVE  Cite!PartOf(i) = p
<1>1. Cite!PartOf(i) = CHOOSE x \in DOMAIN parts : Upto[x - 1] < i /\ i <= Upto[x]
  BY UptoUnfolds
<1>2. p \in DOMAIN parts /\ Upto[p - 1] < i /\ i <= Upto[p]
  BY DEF StandsIn
<1>. DEFINE q == CHOOSE x \in DOMAIN parts : Upto[x - 1] < i /\ i <= Upto[x]
<1>3. q \in DOMAIN parts /\ Upto[q - 1] < i /\ i <= Upto[q]
  BY <1>2
<1>. HIDE DEF q
<1>4. StandsIn(i, q)
  BY <1>3 DEF StandsIn
<1>5. p <= q /\ q <= p
  BY <1>4, OnePart
<1>6. p = q
  BY <1>5, <1>4 DEF StandsIn
<1>. QED
  BY <1>1, <1>6 DEF q

\* Two sequences one after the other.
LEMMA ConcatIs ==
    ASSUME NEW V, NEW a \in Seq(V), NEW b \in Seq(V)
    PROVE  /\ Len(a \o b) = Len(a) + Len(b)
           /\ \A i \in 1..(Len(a) + Len(b)) :
                  (a \o b)[i] = IF i <= Len(a) THEN a[i] ELSE b[i - Len(a)]
OBVIOUS

\* Every sentence is labelled with the part that it stands in.
LEMMA BlocksStand ==
    ASSUME parts \in Seq(Nat)
    PROVE  Cite!Blocks \in Seq(Nat) /\ \A i \in DOMAIN Cite!Blocks : StandsIn(i, Cite!Blocks[i])
<1>. DEFINE N    == Len(parts)
            seqs == [p \in DOMAIN parts |-> [i \in 1..parts[p] |-> p]]
<1>1. N \in Nat /\ DOMAIN parts = 1..N /\ \A k \in 1..N : parts[k] \in Nat
  OBVIOUS
<1>2. Cite!Blocks = Cite!FlattenSeq(seqs)
  BY DEF Cite!Blocks
<1>3. CASE N = 0
  <2>1. seqs = <<>>
    BY <1>3
  <2>2. Cite!FlattenSeq(<<>>) = <<>>
    BY DEF Cite!FlattenSeq
  <2>3. Cite!Blocks = <<>>
    BY <1>2, <2>1, <2>2, Zenon
  <2>. QED
    BY <2>3
<1>4. CASE N # 0
  <2>1. /\ seqs \in Seq(Seq(Nat)) /\ Len(seqs) = N /\ seqs # <<>>
        /\ \A p \in 1..N : seqs[p] = [i \in 1..parts[p] |-> p]
    <3>1. \A p \in 1..N : [i \in 1..parts[p] |-> p] \in Seq(Nat)
      BY <1>1
    <3>2. seqs \in [1..N -> Seq(Nat)] /\ \A p \in 1..N : seqs[p] = [i \in 1..parts[p] |-> p]
      BY <1>1, <3>1
    <3>. HIDE DEF N, seqs
    <3>3. seqs \in Seq(Seq(Nat)) /\ Len(seqs) = N
      BY <1>1, <3>2
    <3>4. seqs # <<>>
      BY <1>1, <1>4, <3>3
    <3>. QED
      BY <3>2, <3>3, <3>4
  <2>. HIDE DEF seqs
  <2>2. PICK g \in [1..N -> Seq(Nat)] :
            /\ g[1] = seqs[1]
            /\ \A n \in 2..N : g[n] = g[n - 1] \o seqs[n]
            /\ Cite!FlattenSeq(seqs) = g[N]
    <3>1. \E g \in [1..Len(seqs) -> Seq(Nat)] :
              /\ g[1] = seqs[1]
              /\ \A n \in 2..Len(seqs) : g[n] = g[n - 1] \o seqs[n]
              /\ Cite!FlattenSeq(seqs) = g[Len(seqs)]
      BY <2>1, FlattenUnfolds
    <3>2. Len(seqs) = N
      BY <2>1
    <3>. HIDE DEF N
    <3>. QED
      BY <3>1, <3>2, Zenon
  <2>3. /\ \A k \in 0..N : Upto[k] \in Nat
        /\ Upto[0] = 0
        /\ \A k \in 1..N : Upto[k] = Upto[k - 1] + parts[k]
    BY UptoUnfolds
  <2>. HIDE DEF N
  <2>. DEFINE Good(n) == /\ Len(g[n]) = Upto[n]
                         /\ \A i \in 1..Upto[n] : StandsIn(i, g[n][i])
              Bad     == {n \in 1..N : ~ Good(n)}
  <2>4. Good(1)
    <3>1. 1 \in 1..N /\ 0 \in 0..N /\ 1 - 1 = 0
      BY <1>1, <1>4
    <3>2. Upto[1] = parts[1] /\ parts[1] \in Nat
      BY <1>1, <2>3, <3>1
    <3>3. g[1] = [i \in 1..parts[1] |-> 1]
      BY <2>1, <2>2, <3>1
    <3>4. Len(g[1]) = Upto[1] /\ \A i \in 1..Upto[1] : g[1][i] = 1
      BY <3>2, <3>3
    <3>5. \A i \in 1..Upto[1] : 0 < i /\ i <= Upto[1]
      BY <3>2
    <3>. QED
      BY <2>3, <3>1, <3>4, <3>5 DEF StandsIn, N
  <2>5. ASSUME NEW n \in 2..N, Good(n - 1) PROVE Good(n)
    <3>1. n \in 1..N /\ n - 1 \in 1..N /\ n - 1 \in 0..N /\ n \in 0..N
      BY <1>1
    <3>. DEFINE a == g[n - 1]
                b == seqs[n]
                u == Upto[n - 1]
                w == parts[n]
                v == Upto[n]
    <3>2. a \in Seq(Nat) /\ Len(a) = u /\ g[n] = a \o b
      BY <2>2, <2>5, <3>1
    <3>3. b \in Seq(Nat) /\ Len(b) = w /\ w \in Nat /\ \A i \in 1..w : b[i] = n
      BY <1>1, <2>1, <3>1
    <3>4. u \in Nat /\ v \in Nat /\ v = u + w
      BY <2>3, <3>1
    <3>5. \A i \in 1..u : StandsIn(i, a[i])
      BY <2>5
    <3>6. \A i : u < i /\ i <= v => StandsIn(i, n)
      BY <3>1 DEF StandsIn, N
    <3>. HIDE DEF a, b, u, v, w
    <3>7. /\ Len(a \o b) = v
          /\ \A i \in 1..v : (a \o b)[i] = IF i <= u THEN a[i] ELSE b[i - u]
      <4>1. Len(a) + Len(b) = v
        BY <3>2, <3>3, <3>4
      <4>. QED
        BY <3>2, <3>3, <4>1, ConcatIs
    <3>8. ASSUME NEW i \in 1..v PROVE StandsIn(i, (a \o b)[i])
      <4>1. CASE i <= u
        <5>1. i \in 1..u /\ (a \o b)[i] = a[i]
          BY <3>4, <3>7, <4>1
        <5>. QED
          BY <3>5, <5>1
      <4>2. CASE ~ i <= u
        <5>1. i - u \in 1..w /\ u < i /\ i <= v
          BY <3>3, <3>4, <4>2
        <5>2. (a \o b)[i] = n
          BY <3>3, <3>7, <4>2, <5>1
        <5>. QED
          BY <3>6, <5>1, <5>2
      <4>. QED
        BY <4>1, <4>2
    <3>. QED
      BY <3>2, <3>7, <3>8 DEF v
  <2>6. Bad = {}
    <3>. SUFFICES ASSUME Bad # {} PROVE FALSE
      OBVIOUS
    <3>1. Bad \in SUBSET Nat
      BY <1>1
    <3>. HIDE DEF Bad
    <3>2. PICK n \in Bad : \A y \in Bad : n <= y
      BY <3>1, LeastNat
    <3>. USE DEF Bad
    <3>. HIDE DEF Good
    <3>3. n \in 1..N /\ ~ Good(n) /\ n # 1
      BY <2>4, <3>2
    <3>4. n \in 2..N /\ n - 1 \in 1..N /\ ~ n <= n - 1
      BY <1>1, <3>3
    <3>5. Good(n - 1)
      BY <3>2, <3>4
    <3>. QED
      BY <2>5, <3>3, <3>4, <3>5
  <2>7. N \in 1..N
    BY <1>1, <1>4
  <2>8. Good(N)
    <3>. HIDE DEF Good
    <3>. QED
      BY <2>6, <2>7
  <2>9. Cite!Blocks = g[N] /\ g[N] \in Seq(Nat)
    BY <1>2, <2>2, <2>7
  <2>10. DOMAIN Cite!Blocks = 1..Upto[N]
    BY <2>8, <2>9
  <2>. QED
    BY <2>8, <2>9, <2>10
<1>. QED
  BY <1>3, <1>4

\* The labels of a passage lie between those of its ends.
LEMMA LocationFollows == CiteInv => Cite!LocationIsTrue
<1>. SUFFICES ASSUME CiteInv, NEW c \in Cite!ToSet(citations)
     PROVE  c.location = CASE paged -> [from |-> Cite!PartOf(c.of[1]), to |-> Cite!PartOf(c.of[2])]
                       [] ~paged /\ Cite!PartOf(c.of[1]) > 1 -> [from |-> Cite!PartOf(c.of[1]), to |-> Cite!PartOf(c.of[1])]
                       [] OTHER -> Cite!Nowhere
  BY DEF Cite!LocationIsTrue
<1>1. PICK k \in DOMAIN citations : c = citations[k]
  BY DEF Cite!ToSet
<1>2. citations = Cited /\ step # "parse"
  BY <1>1 DEF CiteInv
<1>3. k \in DOMAIN passages /\ c.of = passages[k] /\ c.location = Cite!Location(passages[k])
  <2>1. \A l \in DOMAIN passages : Cited[l].of = passages[l] /\ Cited[l].location = Cite!Location(passages[l])
    BY Zenon DEF Cited
  <2>2. DOMAIN Cited = DOMAIN passages
    BY DEF Cited
  <2>. QED
    BY <1>1, <1>2, <2>1, <2>2
<1>. DEFINE run == passages[k]
<1>4. run \in Passage
  BY <1>3 DEF CiteInv, CiteTypes
<1>. HIDE DEF run
<1>5. parts \in Seq(Nat) /\ sentences = Cite!Blocks
  BY <1>2 DEF CiteInv, CiteTypes
<1>6. sentences \in Seq(Nat) /\ \A i \in DOMAIN sentences : StandsIn(i, sentences[i])
  BY <1>5, BlocksStand
<1>7. /\ run[1] \in DOMAIN sentences /\ run[2] \in DOMAIN sentences /\ run[1] <= run[2]
      /\ run[1] \in Nat /\ run[2] \in Nat
  <2>1. run[1] \in DOMAIN sentences /\ run[2] \in DOMAIN sentences /\ run[1] <= run[2]
    BY <1>4 DEF Passage
  <2>2. DOMAIN sentences \subseteq Nat
    BY <1>6
  <2>. QED
    BY <2>1, <2>2
<1>8. Cite!PartOf(run[1]) = sentences[run[1]] /\ Cite!PartOf(run[2]) = sentences[run[2]]
  BY <1>5, <1>6, <1>7, PartOfIs
<1>9. ASSUME NEW i \in run[1]..run[2]
      PROVE  /\ sentences[i] \in Nat /\ sentences[run[1]] \in Nat /\ sentences[run[2]] \in Nat
             /\ sentences[run[1]] <= sentences[i] /\ sentences[i] <= sentences[run[2]]
  <2>1. i \in DOMAIN sentences /\ i \in Nat /\ run[1] <= i /\ i <= run[2]
    BY <1>6, <1>7
  <2>2. StandsIn(i, sentences[i]) /\ StandsIn(run[1], sentences[run[1]]) /\ StandsIn(run[2], sentences[run[2]])
    BY <1>6, <1>7, <2>1
  <2>3. sentences[i] \in Nat /\ sentences[run[1]] \in Nat /\ sentences[run[2]] \in Nat
    BY <1>6, <1>7, <2>1
  <2>. QED
    BY <1>5, <1>7, <2>1, <2>2, <2>3, OnePart
<1>. DEFINE named == {sentences[i] : i \in run[1]..run[2]}
            f     == sentences[run[1]]
            l     == sentences[run[2]]
<1>10. /\ f \in named /\ l \in named /\ f \in Nat
       /\ \A x \in named : x \in Nat /\ f <= x /\ x <= l
  <2>1. run[1] \in run[1]..run[2] /\ run[2] \in run[1]..run[2]
    BY <1>7
  <2>. QED
    BY <1>9, <2>1
<1>11. c.location = CASE paged            -> [from |-> Cite!Min(named), to |-> Cite!Max(named)]
                      [] ~paged /\ f > 1 -> [from |-> f, to |-> f]
                      [] OTHER           -> Cite!Nowhere
  BY <1>3, Zenon DEF Cite!Location, run
<1>. HIDE DEF named, f, l
<1>12. Cite!Min(named) = f
  <2>1. \A x \in named : (\A y \in named : x <= y) => x = f
    BY <1>10
  <2>. QED
    BY <1>10, <2>1 DEF Cite!Min
<1>13. Cite!Max(named) = l
  <2>1. \A x \in named : (\A y \in named : x >= y) => x = l
    BY <1>10
  <2>2. \A y \in named : l >= y
    BY <1>10
  <2>. QED
    BY <1>10, <2>1, <2>2 DEF Cite!Max
<1>14. c.of[1] = run[1] /\ c.of[2] = run[2]
  BY <1>3 DEF run
<1>15. Cite!PartOf(c.of[1]) = f /\ Cite!PartOf(c.of[2]) = l
  BY <1>8, <1>14, Zenon DEF f, l
<1>. QED
  BY <1>11, <1>12, <1>13, <1>15, Zenon

-----------------------------------------------------------------------------
(* The scores of reciprocal rank fusion. *)

\* Multiplication keeps order.
LEMMA TimesGrows ==
    ASSUME NEW a \in Nat, NEW b \in Nat, NEW c \in Nat, a <= b
    PROVE  a * c <= b * c /\ c * a <= c * b
<1>. DEFINE d == b - a
<1>1. d \in Nat /\ b = a + d
  OBVIOUS
<1>. HIDE DEF d
<1>2. d * c \in Nat
  BY <1>1
<1>3. (a + d) * c = a * c + d * c
  BY <1>1
<1>4. a * c <= b * c
  BY <1>1, <1>2, <1>3
<1>. QED
  BY <1>4

\* Of two factorings the one with the smaller divisor has the larger quotient.
LEMMA SmallerDivisor ==
    ASSUME NEW p \in Nat, NEW q \in Nat, NEW d \in Nat, NEW e \in Nat, p * d = q * e, d < e, p >= 1
    PROVE  p > q
<1>. SUFFICES ASSUME p <= q PROVE FALSE
  OBVIOUS
<1>1. p * (d + 1) <= p * e
  BY TimesGrows
<1>2. p * (d + 1) = p * d + p
  OBVIOUS
<1>3. p * e <= q * e
  BY TimesGrows
<1>4. p * d \in Nat /\ p * e \in Nat /\ q * e \in Nat
  OBVIOUS
<1>. QED
  BY <1>1, <1>2, <1>3, <1>4

\* Two shares with small divisors outweigh one with a divisor of at least the half.
LEMMA TwoOutweighOne ==
    ASSUME NEW s \in Nat, s >= 1, NEW k \in Nat,
           NEW p \in Nat, NEW d \in 0..(2 * k + 1), p * d = s,
           NEW q \in Nat, NEW e \in 0..(2 * k + 1), q * e = s,
           NEW r \in Nat, NEW f \in Nat, f >= k + 1, r * f = s
    PROVE  p + q > r
<1>. SUFFICES ASSUME p + q <= r PROVE FALSE
  OBVIOUS
<1>. DEFINE D == 2 * k + 1
<1>1. D \in Nat /\ d \in Nat /\ e \in Nat /\ d <= D /\ e <= D /\ D = 2 * k + 1
  OBVIOUS
<1>. HIDE DEF D
<1>2. s <= p * D /\ s <= q * D
  BY <1>1, TimesGrows
<1>3. r * (k + 1) <= s
  BY TimesGrows
<1>4. (p + q) * D <= r * D
  <2>1. p + q \in Nat
    OBVIOUS
  <2>. QED
    BY <1>1, <2>1, TimesGrows
<1>5. (p + q) * D = p * D + q * D
  BY <1>1
<1>6. r * D = 2 * (r * (k + 1)) - r
  BY <1>1
<1>7. r >= 1
  <2>. SUFFICES ASSUME r = 0 PROVE FALSE
    OBVIOUS
  <2>1. 0 * f = 0
    OBVIOUS
  <2>. QED
    BY <2>1
<1>8. p * D \in Nat /\ q * D \in Nat /\ r * D \in Nat /\ r * (k + 1) \in Nat
  BY <1>1
<1>. QED
  BY <1>2, <1>3, <1>4, <1>5, <1>6, <1>7, <1>8

ProductEquation(g) == g = [n \in 0..K |-> IF n = 0 THEN 1 ELSE g[n - 1] * (RrfK + n)]

\* Every denominator divides the scale.
LEMMA ScaleDivides ==
    /\ Search!Scale \in Nat /\ Search!Scale >= 1
    /\ \A m \in 1..K : \E q \in Nat : q >= 1 /\ Search!Scale = q * (RrfK + m)
<1>. DEFINE prev == [n \in 1..K |-> n - 1]
            rule == [n \in 1..K |-> [v \in Nat |-> v * (RrfK + n)]]
<1>1. K \in Nat /\ RrfK \in Nat
  BY RankAssumption DEF Search!RankAssumption
<1>2. \E g : ProductEquation(g)
  <2>1. \A n \in 1..K : prev[n] = n - 1 /\ prev[n] \in 0..(n - 1)
    BY <1>1
  <2>2. ASSUME NEW n \in 1..K, NEW v \in Nat PROVE rule[n][v] = v * (RrfK + n) /\ rule[n][v] \in Nat
    BY <1>1
  <2>. HIDE DEF prev, rule
  <2>3. PICK g : Follows(g, K, Nat, 1, prev, rule)
    <3>1. WellFounded(K, Nat, 1, prev, rule)
      BY <1>1, <2>1, <2>2 DEF WellFounded
    <3>. QED
      BY <3>1, RecursionExists
  <2>4. g \in [0..K -> Nat]
    BY <2>3 DEF Follows
  <2>5. ASSUME NEW n \in 0..K PROVE g[n] = IF n = 0 THEN 1 ELSE g[n - 1] * (RrfK + n)
    <3>1. CASE n = 0
      BY <2>3, <3>1 DEF Follows
    <3>2. CASE n # 0
      <4>1. n \in 1..K /\ n - 1 \in 0..K
        BY <1>1, <3>2
      <4>2. g[n - 1] \in Nat
        BY <2>4, <4>1
      <4>3. g[n] = rule[n][g[n - 1]]
        BY <2>1, <2>3, <4>1 DEF Follows
      <4>4. rule[n][g[n - 1]] = g[n - 1] * (RrfK + n)
        BY <2>2, <4>1, <4>2
      <4>. QED
        BY <3>2, <4>3, <4>4
    <3>. QED
      BY <3>1, <3>2
  <2>6. g = [n \in 0..K |-> IF n = 0 THEN 1 ELSE g[n - 1] * (RrfK + n)]
    BY <2>4, <2>5
  <2>. QED
    BY <2>6, Zenon DEF ProductEquation
<1>. DEFINE g == CHOOSE x : ProductEquation(x)
<1>3. ProductEquation(g)
  BY <1>2, Zenon
<1>4. g = [n \in 0..K |-> IF n = 0 THEN 1 ELSE g[n - 1] * (RrfK + n)]
  BY <1>3, Zenon DEF ProductEquation
<1>5. Search!Scale = g[K]
  BY Zenon DEF Search!Scale, ProductEquation
<1>. HIDE DEF g
<1>. DEFINE Good(n) == /\ g[n] \in Nat /\ g[n] >= 1
                       /\ \A m \in 1..n : \E q \in Nat : q >= 1 /\ g[n] = q * (RrfK + m)
            Bad     == {n \in 0..K : ~ Good(n)}
<1>6. Good(0)
  <2>1. g[0] = 1 /\ 1..0 = {}
    BY <1>1, <1>4
  <2>. QED
    BY <2>1
<1>7. ASSUME NEW n \in 1..K, Good(n - 1) PROVE Good(n)
  <2>. DEFINE a == g[n - 1]
              b == RrfK + n
  <2>1. g[n] = a * b
    BY <1>1, <1>4
  <2>2. a \in Nat /\ a >= 1 /\ b \in Nat /\ b >= 1 /\ \A m \in 1..(n - 1) : \E q \in Nat : q >= 1 /\ a = q * (RrfK + m)
    BY <1>1, <1>7
  <2>3. \A m \in 1..n : m \in 1..(n - 1) \/ RrfK + m = b
    OBVIOUS
  <2>. HIDE DEF a, b
  <2>4. ASSUME NEW x \in Nat, x >= 1, NEW y \in Nat, y >= 1 PROVE x * y \in Nat /\ x * y >= 1
    <3>1. 1 * y <= x * y
      BY <2>4, TimesGrows
    <3>. QED
      BY <2>4, <3>1
  <2>5. ASSUME NEW m \in 1..n PROVE \E q \in Nat : q >= 1 /\ g[n] = q * (RrfK + m)
    <3>1. CASE RrfK + m = b
      BY <2>1, <2>2, <3>1
    <3>2. CASE m \in 1..(n - 1)
      <4>1. PICK q \in Nat : q >= 1 /\ a = q * (RrfK + m)
        BY <2>2, <3>2
      <4>2. q * b \in Nat /\ q * b >= 1
        BY <2>2, <2>4, <4>1
      <4>3. RrfK + m \in Nat
        BY <1>1
      <4>4. (q * (RrfK + m)) * b = (q * b) * (RrfK + m)
        <5>. DEFINE c == RrfK + m
        <5>1. c \in Nat
          BY <4>3
        <5>. HIDE DEF c
        <5>2. (q * c) * b = (q * b) * c
          BY <2>2, <5>1
        <5>. QED
          BY <5>2 DEF c
      <4>. QED
        BY <2>1, <4>1, <4>2, <4>4
    <3>. QED
      BY <2>3, <3>1, <3>2
  <2>. QED
    BY <2>1, <2>2, <2>4, <2>5
<1>8. Bad = {}
  <2>. SUFFICES ASSUME Bad # {} PROVE FALSE
    OBVIOUS
  <2>1. Bad \in SUBSET Nat
    BY <1>1
  <2>. HIDE DEF Bad
  <2>2. PICK n \in Bad : \A y \in Bad : n <= y
    BY <2>1, LeastNat
  <2>. USE DEF Bad
  <2>. HIDE DEF Good
  <2>3. n \in 0..K /\ ~ Good(n) /\ n # 0
    BY <1>6, <2>2
  <2>4. n \in 1..K /\ n - 1 \in 0..K /\ ~ n <= n - 1
    BY <1>1, <2>3
  <2>5. Good(n - 1)
    BY <2>2, <2>4
  <2>. QED
    BY <1>7, <2>3, <2>4, <2>5
<1>9. Good(K)
  <2>1. K \in 0..K
    BY <1>1
  <2>. HIDE DEF Good
  <2>. QED
    BY <1>8, <2>1
<1>. QED
  BY <1>5, <1>9

\* What one ranking adds to the score of a chunk in it.
LEMMA ShareDivides ==
    ASSUME NEW m \in 1..K
    PROVE  /\ Search!Scale \div (RrfK + m) \in Nat /\ Search!Scale \div (RrfK + m) >= 1
           /\ (Search!Scale \div (RrfK + m)) * (RrfK + m) = Search!Scale
<1>1. PICK q \in Nat : q >= 1 /\ Search!Scale = q * (RrfK + m)
  BY ScaleDivides
<1>2. RrfK + m \in Nat /\ RrfK + m >= 1
  BY RankAssumption DEF Search!RankAssumption
<1>3. ASSUME NEW d \in Nat, d >= 1 PROVE (q * d) \div d = q
  <2>. DEFINE x == q * d
              y == x \div d
  <2>1. x \in Nat
    OBVIOUS
  <2>2. y \in Nat /\ y * d <= x /\ x < y * d + d
    <3>. HIDE DEF x
    <3>. QED
      BY <1>3, <2>1
  <2>. HIDE DEF y
  <2>3. CASE y < q
    <3>1. (y + 1) * d <= q * d
      BY <1>3, <2>2, <2>3, TimesGrows
    <3>2. (y + 1) * d = y * d + d
      BY <2>2
    <3>. QED
      BY <2>1, <2>2, <3>1, <3>2
  <2>4. CASE y > q
    <3>1. (q + 1) * d <= y * d
      BY <1>3, <2>2, <2>4, TimesGrows
    <3>2. (q + 1) * d = q * d + d
      OBVIOUS
    <3>. QED
      BY <1>3, <2>1, <2>2, <3>1, <3>2
  <2>. QED
    BY <2>2, <2>3, <2>4 DEF y
<1>. QED
  BY <1>1, <1>2, <1>3

-----------------------------------------------------------------------------
(* The search: what sorting returns. *)

ByScore(S, score) == {p \in S \X S : Search!Before(p[1], p[2], score)}

\* The instance counts as this module does.
LEMMA SearchCardinality == \A S : Search!Cardinality(S) = Cardinality(S)
BY Zenon DEF Search!Cardinality, Cardinality

\* sorted() by falling score lists the set by score, then by id.
LEMMA SortByLists ==
    ASSUME NEW S \in SUBSET Nat, IsFiniteSet(S), NEW score \in [S -> Nat]
    PROVE  Lists(Search!SortBy(S, score), S, ByScore(S, score))
<1>. DEFINE R == ByScore(S, score)
            s == Search!SortBy(S, score)
            n == Cardinality(S)
            f == [i \in 1..n |->
                     CHOOSE x \in S : Search!Cardinality({y \in S : Search!Before(y, x, score)}) = i - 1]
<1>1. s = f
  <2>1. s = [i \in 1..Search!Cardinality(S) |->
               CHOOSE x \in S : Search!Cardinality({y \in S : Search!Before(y, x, score)}) = i - 1]
    BY Zenon DEF Search!SortBy
  <2>2. Search!Cardinality(S) = n
    BY SearchCardinality
  <2>. QED
    BY <2>1, <2>2
<1>2. ASSUME NEW x \in S PROVE {y \in S : <<y, x>> \in R} = {y \in S : Search!Before(y, x, score)}
  <2>1. \A y \in S : <<y, x>> \in R <=> Search!Before(y, x, score)
    BY DEF ByScore
  <2>. QED
    BY <2>1
<1>3. Orders(R, S)
  <2>1. \A x, y \in S : <<x, y>> \in R <=> score[x] > score[y] \/ (score[x] = score[y] /\ x < y)
    BY DEF ByScore, Search!Before
  <2>2. \A x \in S : x \in Nat /\ score[x] \in Nat
    OBVIOUS
  <2>. HIDE DEF R
  <2>. QED
    BY <2>1, <2>2 DEF Orders
<1>. HIDE DEF s, R
<1>4. ASSUME NEW i \in 1..n, NEW x \in S, Cardinality({y \in S : <<y, x>> \in R}) = i - 1
      PROVE  s[i] \in S /\ Cardinality({y \in S : <<y, s[i]>> \in R}) = i - 1
  <2>1. Search!Cardinality({y \in S : Search!Before(y, x, score)}) = i - 1
    BY <1>2, <1>4, SearchCardinality
  <2>2. s[i] = CHOOSE m \in S : Search!Cardinality({y \in S : Search!Before(y, m, score)}) = i - 1
    BY <1>1
  <2>3. s[i] \in S /\ Search!Cardinality({y \in S : Search!Before(y, s[i], score)}) = i - 1
    BY <2>1, <2>2
  <2>4. Cardinality({y \in S : Search!Before(y, s[i], score)}) = i - 1
    BY <2>3, SearchCardinality
  <2>. QED
    BY <1>2, <2>3, <2>4
<1>5. s = [i \in 1..n |-> s[i]]
  <2>1. f = [i \in 1..n |-> f[i]]
    OBVIOUS
  <2>. HIDE DEF f
  <2>. QED
    BY <1>1, <2>1
<1>. HIDE DEF f
<1>6. Lists(s, S, R)
  BY <1>3, <1>4, <1>5, CountingSorts
<1>. QED
  BY <1>6 DEF s, R

\* A ranking of distinct ids, and the number of ids in it.
Ranking(s) == /\ s \in Seq(Ids) /\ Len(s) <= K
              /\ \A i, j \in DOMAIN s : s[i] = s[j] => i = j

\* A ranking that the database returns.
LEMMA RankingsRank == ASSUME NEW s \in Search!Rankings PROVE Ranking(s)
<1>1. s \in Search!SeqOf(Ids, K) /\ \A i, j \in DOMAIN s : s[i] = s[j] => i = j
  BY Zenon DEF Search!Rankings, Search!IsInjective
<1>2. PICK m \in 0..K : s \in [1..m -> Ids]
  BY <1>1, Zenon DEF Search!SeqOf
<1>3. K \in Nat
  BY RankAssumption DEF Search!RankAssumption
<1>. QED
  BY <1>1, <1>2, <1>3 DEF Ranking

\* It holds as many chunks as it has places.
LEMMA RankingCounts ==
    ASSUME NEW s, Ranking(s)
    PROVE  /\ IsFiniteSet(Search!ToSet(s)) /\ Cardinality(Search!ToSet(s)) = Len(s)
           /\ Search!ToSet(s) \in SUBSET Nat /\ Search!ToSet(s) \in SUBSET Ids
<1>. DEFINE T == Search!ToSet(s)
            N == Len(s)
<1>1. N \in Nat /\ DOMAIN s = 1..N /\ T = {s[i] : i \in 1..N} /\ s \in [1..N -> Ids]
  BY DEF Search!ToSet, Ranking
<1>2. T \in SUBSET Ids /\ Ids \subseteq Nat
  BY <1>1, RankAssumption DEF Search!RankAssumption
<1>. HIDE DEF T, N
<1>3. s \in [1..N -> T]
  BY <1>1
<1>4. s \in Surjection(1..N, T)
  BY <1>1, <1>3 DEF Surjection
<1>5. IsInjective(s)
  BY <1>1 DEF Ranking, IsInjective
<1>6. s \in Injection(1..N, T)
  BY <1>3, <1>5 DEF Injection
<1>7. IsFiniteSet(1..N) /\ Cardinality(1..N) = N
  BY <1>1, FS_Interval
<1>8. IsFiniteSet(T) /\ Cardinality(T) = Cardinality(1..N)
  BY <1>4, <1>6, <1>7, FS_Surjection
<1>. QED
  BY <1>2, <1>7, <1>8 DEF T, N

\* The rank of a chunk, and its share of the score.
LEMMA RankOfIs ==
    ASSUME NEW s, Ranking(s), NEW i \in 1..Len(s)
    PROVE  Search!In(s[i], s) /\ Search!RankOf(s[i], s) = i
<1>1. DOMAIN s = 1..Len(s)
  BY DEF Ranking
<1>2. Search!In(s[i], s)
  BY <1>1 DEF Search!In, Search!ToSet
<1>3. \A j \in DOMAIN s : s[j] = s[i] => j = i
  BY <1>1 DEF Ranking
<1>. QED
  BY <1>1, <1>2, <1>3 DEF Search!RankOf

\* The rank is the place.
LEMMA InRanking ==
    ASSUME NEW s, Ranking(s), NEW x, Search!In(x, s)
    PROVE  Search!RankOf(x, s) \in 1..Len(s) /\ s[Search!RankOf(x, s)] = x
<1>1. PICK i \in DOMAIN s : x = s[i]
  BY DEF Search!In, Search!ToSet
<1>2. DOMAIN s = 1..Len(s)
  BY DEF Ranking
<1>. QED
  BY <1>1, <1>2, RankOfIs

\* A share is the whole divided by the rank, or nothing.
LEMMA PartIs ==
    ASSUME NEW s, Ranking(s), NEW x
    PROVE  /\ Search!Part(x, s) \in Nat
           /\ ~ Search!In(x, s) => Search!Part(x, s) = 0
           /\ Search!In(x, s) => /\ Search!RankOf(x, s) \in 1..K
                                 /\ Search!Part(x, s) >= 1
                                 /\ Search!Part(x, s) * (RrfK + Search!RankOf(x, s)) = Search!Scale
<1>1. CASE ~ Search!In(x, s)
  BY <1>1 DEF Search!Part
<1>2. CASE Search!In(x, s)
  <2>. DEFINE r == Search!RankOf(x, s)
  <2>1. r \in 1..Len(s)
    BY <1>2, InRanking
  <2>2. r \in 1..K
    BY <2>1, RankAssumption DEF Ranking, Search!RankAssumption
  <2>3. Search!Part(x, s) = Search!Scale \div (RrfK + r)
    BY <1>2 DEF Search!Part
  <2>. HIDE DEF r
  <2>4. /\ Search!Part(x, s) \in Nat /\ Search!Part(x, s) >= 1
        /\ Search!Part(x, s) * (RrfK + r) = Search!Scale
    BY <2>2, <2>3, ShareDivides
  <2>. QED
    BY <1>2, <2>2, <2>4 DEF r
<1>. QED
  BY <1>1, <1>2

\* A better place is a larger share.
LEMMA BetterCounts ==
    ASSUME NEW s, Ranking(s), NEW x, NEW y, Search!Better(x, y, s)
    PROVE  Search!Part(x, s) > Search!Part(y, s)
<1>1. Search!In(x, s)
  BY DEF Search!Better
<1>2. CASE ~ Search!In(y, s)
  BY <1>1, <1>2, PartIs
<1>3. CASE Search!In(y, s)
  <2>. DEFINE p == Search!Part(x, s)
              q == Search!Part(y, s)
              d == RrfK + Search!RankOf(x, s)
              e == RrfK + Search!RankOf(y, s)
  <2>1. Search!RankOf(x, s) < Search!RankOf(y, s)
    BY <1>3 DEF Search!Better
  <2>2. p \in Nat /\ p >= 1 /\ p * d = Search!Scale /\ Search!RankOf(x, s) \in 1..K
    BY <1>1, PartIs
  <2>3. q \in Nat /\ q * e = Search!Scale /\ Search!RankOf(y, s) \in 1..K
    BY <1>3, PartIs
  <2>4. d \in Nat /\ e \in Nat /\ d < e
    BY <2>1, <2>2, <2>3, RankAssumption DEF Search!RankAssumption
  <2>. HIDE DEF p, q, d, e
  <2>5. p > q
    BY <2>2, <2>3, <2>4, SmallerDivisor
  <2>. QED
    BY <2>5 DEF p, q
<1>. QED
  BY <1>2, <1>3

\* In both rankings, or in one.
LEMMA BothCount ==
    ASSUME NEW s, Ranking(s), NEW t, Ranking(t), NEW x, Search!In(x, s), Search!In(x, t),
           NEW y, ~ (Search!In(y, s) /\ Search!In(y, t))
    PROVE  Search!Part(x, s) + Search!Part(x, t) > Search!Part(y, s) + Search!Part(y, t)
<1>. DEFINE p == Search!Part(x, s)
            q == Search!Part(x, t)
            d == RrfK + Search!RankOf(x, s)
            e == RrfK + Search!RankOf(x, t)
<1>1. p \in Nat /\ p >= 1 /\ p * d = Search!Scale /\ Search!RankOf(x, s) \in 1..K
  BY PartIs
<1>2. q \in Nat /\ q >= 1 /\ q * e = Search!Scale /\ Search!RankOf(x, t) \in 1..K
  BY PartIs
<1>3. RrfK \in Nat /\ K \in Nat /\ K < RrfK + 2
  BY RankAssumption DEF Search!RankAssumption
<1>4. d \in 0..(2 * RrfK + 1) /\ e \in 0..(2 * RrfK + 1)
  BY <1>1, <1>2, <1>3
<1>5. Search!Scale \in Nat /\ Search!Scale >= 1
  BY ScaleDivides
<1>. HIDE DEF p, q, d, e
<1>6. ASSUME NEW u, Ranking(u), Search!In(y, u) PROVE p + q > Search!Part(y, u)
  <2>. DEFINE r == Search!Part(y, u)
              f == RrfK + Search!RankOf(y, u)
  <2>1. r \in Nat /\ r * f = Search!Scale /\ Search!RankOf(y, u) \in 1..K
    BY <1>6, PartIs
  <2>2. f \in Nat /\ f >= RrfK + 1
    BY <1>3, <2>1
  <2>. HIDE DEF r, f
  <2>3. p + q > r
    BY <1>1, <1>2, <1>3, <1>4, <1>5, <2>1, <2>2, TwoOutweighOne
  <2>. QED
    BY <2>3 DEF r
<1>7. Search!Part(y, s) \in Nat /\ Search!Part(y, t) \in Nat
  BY PartIs
<1>8. p + q > Search!Part(y, s) + Search!Part(y, t)
  <2>1. CASE ~ Search!In(y, s) /\ ~ Search!In(y, t)
    <3>1. Search!Part(y, s) = 0 /\ Search!Part(y, t) = 0
      BY <2>1, PartIs
    <3>. QED
      BY <1>1, <1>2, <3>1
  <2>2. CASE Search!In(y, s) /\ ~ Search!In(y, t)
    <3>1. Search!Part(y, t) = 0 /\ p + q > Search!Part(y, s)
      BY <1>6, <2>2, PartIs
    <3>. QED
      BY <1>7, <3>1
  <2>3. CASE ~ Search!In(y, s) /\ Search!In(y, t)
    <3>1. Search!Part(y, s) = 0 /\ p + q > Search!Part(y, t)
      BY <1>6, <2>3, PartIs
    <3>. QED
      BY <1>7, <3>1
  <2>. QED
    BY <2>1, <2>2, <2>3
<1>. QED
  BY <1>8 DEF p, q

-----------------------------------------------------------------------------
(* The search: the inductive invariant. *)

SearchTypes ==
    /\ stage \in {"dense", "keyword", "fuse", "rerank", "cut", "done"}
    /\ mode \in {"hybrid", "dense", "keyword"}
    /\ reranker \in BOOLEAN
    /\ Ranking(dense) /\ Ranking(keyword)

\* The candidates, each once.
Candidates ==
    /\ ordered \in Seq(Search!Found) /\ Len(ordered) = Cardinality(Search!Found)
    /\ \A x \in Search!Found : \E i \in DOMAIN ordered : ordered[i] = x
    /\ \A i, j \in DOMAIN ordered : ordered[i] = ordered[j] => i = j

\* What orders them: the fused scores, until they are reranked.
SearchInv ==
    /\ SearchTypes
    /\ stage = "dense" \/ mode = "keyword" => dense = <<>>
    /\ stage \in {"dense", "keyword"} \/ mode = "dense" => keyword = <<>>
    /\ stage = "rerank" => reranker
    /\ stage \in {"rerank", "cut", "done"} => Candidates
    /\ stage \in {"rerank", "cut", "done"} /\ mode = "hybrid" /\ ~reranker
           => Lists(ordered, Search!Found, ByScore(Search!Found, Search!Fused))
    /\ stage \in {"cut", "done"} /\ reranker =>
           \A i, j \in DOMAIN ordered : i < j => rerank[ordered[i]] >= rerank[ordered[j]]
    /\ stage \in {"cut", "done"} /\ reranker => \A x \in Search!Found : rerank[x] \in Nat
    /\ stage = "done" => results = SubSeq(ordered, 1, Search!Min({TopN, Len(ordered)}))

\* The candidates are finitely many ids.
LEMMA FoundIsFinite ==
    ASSUME Ranking(dense), Ranking(keyword)
    PROVE  IsFiniteSet(Search!Found) /\ Search!Found \in SUBSET Nat /\ Search!Found \in SUBSET Ids
  BY RankingCounts, FS_Union DEF Search!Found

\* The fused score of each candidate.
LEMMA FusedIs ==
    ASSUME Ranking(dense), Ranking(keyword)
    PROVE  /\ Search!Fused \in [Search!Found -> Nat] /\ DOMAIN Search!Fused = Search!Found
           /\ \A x \in Search!Found : Search!Fused[x] = Search!Part(x, dense) + Search!Part(x, keyword)
<1>1. \A x : Search!Part(x, dense) \in Nat /\ Search!Part(x, keyword) \in Nat
  BY PartIs
<1>. QED
  BY <1>1 DEF Search!Fused, Search!Found

\* A list of a set holds each element once.
LEMMA ListsOnce ==
    ASSUME NEW S, NEW R, NEW s, Lists(s, S, R), Orders(R, S)
    PROVE  /\ s \in Seq(S) /\ Len(s) = Cardinality(S)
           /\ \A x \in S : \E i \in DOMAIN s : s[i] = x
           /\ \A i, j \in DOMAIN s : s[i] = s[j] => i = j
<1>. DEFINE n == Cardinality(S)
<1>1. /\ n \in Nat /\ s \in [1..n -> S]
      /\ \A x \in S : \E i \in 1..n : s[i] = x
      /\ \A i, j \in 1..n : i < j <=> <<s[i], s[j]>> \in R
  BY DEF Lists
<1>. HIDE DEF n
<1>2. s \in Seq(S) /\ Len(s) = n /\ DOMAIN s = 1..n
  BY <1>1
<1>3. ASSUME NEW i \in 1..n, NEW j \in 1..n, s[i] = s[j] PROVE i = j
  <2>1. <<s[i], s[j]>> \notin R /\ <<s[j], s[i]>> \notin R
    BY <1>1, <1>3 DEF Orders
  <2>2. ~ i < j /\ ~ j < i
    BY <1>1, <2>1
  <2>. QED
    BY <1>1, <2>2
<1>. QED
  BY <1>1, <1>2, <1>3 DEF n

\* Scores and ids order any set of ids.
LEMMA ByScoreOrders ==
    ASSUME NEW S \in SUBSET Nat, NEW score \in [S -> Nat]
    PROVE  Orders(ByScore(S, score), S)
<1>1. \A x, y \in S : <<x, y>> \in ByScore(S, score) <=> score[x] > score[y] \/ (score[x] = score[y] /\ x < y)
  BY DEF ByScore, Search!Before
<1>2. \A x \in S : x \in Nat /\ score[x] \in Nat
  OBVIOUS
<1>. QED
  BY <1>1, <1>2 DEF Orders

\* A search starts in the invariant.
LEMMA SearchInit == Search!Init => SearchInv
<1>. SUFFICES ASSUME Search!Init PROVE SearchInv
  OBVIOUS
<1>1. Ranking(<<>>)
  BY RankAssumption DEF Ranking, Search!RankAssumption
<1>. QED
  BY <1>1 DEF Search!Init, SearchInv, SearchTypes

\* The fused list holds every candidate once, by score.
LEMMA FuseStep ==
    ASSUME SearchInv, Search!Fuse
    PROVE  SearchInv'
<1>. DEFINE F == Search!Found
<1>1. /\ stage = "fuse" /\ stage' \in {"rerank", "cut"}
      /\ UNCHANGED <<mode, reranker, dense, keyword, rerank, results>>
      /\ stage' = IF reranker /\ ordered' # <<>> THEN "rerank" ELSE "cut"
  BY DEF Search!Fuse
<1>2. SearchTypes /\ SearchTypes'
  BY <1>1 DEF SearchInv, SearchTypes, Ranking
<1>3. Search!Found' = F /\ Search!Fused' = Search!Fused
  BY <1>1 DEF Search!Found, Search!Fused, Search!Part, Search!In, Search!RankOf
<1>4. IsFiniteSet(F) /\ F \in SUBSET Nat /\ F \in SUBSET Ids
  BY <1>2, FoundIsFinite DEF SearchTypes
<1>5. CASE mode = "hybrid"
  <2>1. Search!Fused \in [F -> Nat] /\ DOMAIN Search!Fused = F
    BY <1>2, FusedIs DEF SearchTypes
  <2>2. ordered' = Search!SortBy(F, Search!Fused)
    BY <1>5, <2>1 DEF Search!Fuse
  <2>. HIDE DEF F
  <2>3. Lists(ordered', F, ByScore(F, Search!Fused)) /\ Orders(ByScore(F, Search!Fused), F)
    BY <1>4, <2>1, <2>2, SortByLists, ByScoreOrders
  <2>4. /\ ordered' \in Seq(F) /\ Len(ordered') = Cardinality(F)
        /\ \A x \in F : \E i \in DOMAIN ordered' : ordered'[i] = x
        /\ \A i, j \in DOMAIN ordered' : ordered'[i] = ordered'[j] => i = j
    BY <2>3, ListsOnce
  <2>5. Candidates'
    BY <1>3, <2>4 DEF Candidates, F
  <2>6. Lists(ordered, Search!Found, ByScore(Search!Found, Search!Fused))'
    BY <1>3, <2>3 DEF Lists, ByScore, Search!Before, F
  <2>7. reranker /\ stage' = "cut" => DOMAIN ordered' = {} /\ F = {}
    <3>1. reranker /\ stage' = "cut" => ordered' = <<>>
      BY <1>1
    <3>. QED
      BY <2>4, <3>1
  <2>. QED
    BY <1>1, <1>2, <1>3, <1>5, <2>5, <2>6, <2>7 DEF SearchInv, F
<1>6. CASE mode # "hybrid"
  <2>1. ordered' = IF mode = "dense" THEN dense ELSE keyword
    <3>1. CASE mode = "dense"
      BY <3>1 DEF Search!Fuse
    <3>2. CASE mode = "keyword"
      BY <3>2 DEF Search!Fuse
    <3>. QED
      BY <1>2, <1>6, <3>1, <3>2 DEF SearchTypes
  <2>2. Ranking(ordered') /\ Search!ToSet(ordered') = F
    <3>1. Search!ToSet(<<>>) = {}
      BY DEF Search!ToSet
    <3>2. CASE mode = "dense"
      <4>1. ordered' = dense /\ keyword = <<>>
        BY <2>1, <3>2 DEF SearchInv
      <4>. QED
        BY <1>2, <3>1, <4>1 DEF SearchTypes, Search!Found
    <3>3. CASE mode = "keyword"
      <4>1. ordered' = keyword /\ dense = <<>>
        BY <2>1, <3>3 DEF SearchInv
      <4>. QED
        BY <1>2, <3>1, <4>1 DEF SearchTypes, Search!Found
    <3>. QED
      BY <1>2, <1>6, <3>2, <3>3 DEF SearchTypes
  <2>. HIDE DEF F
  <2>3. Cardinality(F) = Len(ordered')
    BY <2>2, RankingCounts
  <2>4. /\ ordered' \in Seq(F)
        /\ \A x \in F : \E i \in DOMAIN ordered' : ordered'[i] = x
    <3>1. F = {ordered'[i] : i \in DOMAIN ordered'}
      BY <2>2 DEF Search!ToSet
    <3>2. ordered' \in [1..Len(ordered') -> F] /\ Len(ordered') \in Nat
      BY <2>2, <3>1 DEF Ranking
    <3>. QED
      BY <3>1, <3>2
  <2>5. Candidates'
    BY <1>3, <2>2, <2>3, <2>4 DEF Candidates, F, Ranking
  <2>6. reranker /\ stage' = "cut" => DOMAIN ordered' = {} /\ F = {}
    <3>1. reranker /\ stage' = "cut" => ordered' = <<>>
      BY <1>1
    <3>. QED
      BY <2>4, <3>1
  <2>. QED
    BY <1>1, <1>2, <1>3, <1>6, <2>5, <2>6 DEF SearchInv, F
<1>. QED
  BY <1>5, <1>6

\* The reranker reorders the same candidates.
LEMMA RerankStep ==
    ASSUME SearchInv, Search!Rerank
    PROVE  SearchInv'
<1>. DEFINE F == Search!Found
<1>1. /\ stage = "rerank" /\ stage' = "cut"
      /\ UNCHANGED <<mode, reranker, dense, keyword, results>>
  BY DEF Search!Rerank
<1>2. SearchTypes /\ SearchTypes' /\ reranker /\ Candidates
  BY <1>1 DEF SearchInv, SearchTypes, Ranking
<1>3. Search!Found' = F /\ Search!Fused' = Search!Fused
  BY <1>1 DEF Search!Found, Search!Fused, Search!Part, Search!In, Search!RankOf
<1>4. IsFiniteSet(F) /\ F \in SUBSET Nat /\ F \in SUBSET Ids
  BY <1>2, FoundIsFinite DEF SearchTypes
<1>5. Search!ToSet(ordered) = F
  <2>1. ordered \in Seq(F) /\ \A x \in F : \E i \in DOMAIN ordered : ordered[i] = x
    BY <1>2 DEF Candidates
  <2>. HIDE DEF F
  <2>2. \A i \in DOMAIN ordered : ordered[i] \in F
    BY <2>1
  <2>. QED
    BY <2>1, <2>2 DEF Search!ToSet
<1>6. PICK scores \in [F -> 0..MaxScore] :
          /\ rerank'  = [x \in Ids |-> IF Search!In(x, ordered) THEN scores[x] ELSE 0]
          /\ ordered' = Search!SortBy(F, scores)
  <2>1. \E scores \in [Search!ToSet(ordered) -> 0..MaxScore] :
            /\ rerank'  = [x \in Ids |-> IF Search!In(x, ordered) THEN scores[x] ELSE 0]
            /\ ordered' = Search!SortBy(Search!ToSet(ordered), scores)
    BY Zenon DEF Search!Rerank
  <2>. HIDE DEF F
  <2>. QED
    BY <1>5, <2>1
<1>7. scores \in [F -> Nat]
  BY <1>6, RankAssumption DEF Search!RankAssumption
<1>8. \A x \in F : rerank'[x] = scores[x]
  BY <1>4, <1>5, <1>6 DEF Search!In
<1>. HIDE DEF F
<1>9. Lists(ordered', F, ByScore(F, scores)) /\ Orders(ByScore(F, scores), F)
  BY <1>4, <1>6, <1>7, SortByLists, ByScoreOrders
<1>10. /\ ordered' \in Seq(F) /\ Len(ordered') = Cardinality(F)
       /\ \A x \in F : \E i \in DOMAIN ordered' : ordered'[i] = x
       /\ \A i, j \in DOMAIN ordered' : ordered'[i] = ordered'[j] => i = j
  BY <1>9, ListsOnce
<1>11. Candidates'
  BY <1>3, <1>10 DEF Candidates, F
<1>12. ASSUME NEW i \in DOMAIN ordered', NEW j \in DOMAIN ordered', i < j
       PROVE  rerank'[ordered'[i]] >= rerank'[ordered'[j]]
  <2>1. <<ordered'[i], ordered'[j]>> \in ByScore(F, scores)
    BY <1>9, <1>10, <1>12 DEF Lists
  <2>2. Search!Before(ordered'[i], ordered'[j], scores)
    BY <2>1 DEF ByScore
  <2>3. ordered'[i] \in F /\ ordered'[j] \in F
    BY <1>10
  <2>. QED
    BY <1>7, <1>8, <2>2, <2>3 DEF Search!Before
<1>13. \A x \in F : rerank'[x] \in Nat
  BY <1>7, <1>8
<1>. QED
  BY <1>1, <1>2, <1>3, <1>11, <1>12, <1>13 DEF SearchInv, F

\* A step of the search keeps the invariant.
LEMMA SearchStep ==
    ASSUME SearchInv, [Search!Next]_(Search!vars)
    PROVE  SearchInv'
<1>1. CASE Search!SearchDense
  <2>1. stage = "dense" /\ stage' = "keyword" /\ UNCHANGED <<mode, reranker, keyword, rerank, ordered, results>>
    BY <1>1 DEF Search!SearchDense
  <2>2. dense' \in IF mode \in {"hybrid", "dense"} THEN Search!Rankings ELSE {<<>>}
    BY <1>1, Zenon DEF Search!SearchDense
  <2>3. Ranking(<<>>)
    BY RankAssumption DEF Ranking, Search!RankAssumption
  <2>4. Ranking(dense') /\ (mode = "keyword" => dense' = <<>>)
    BY <2>2, <2>3, RankingsRank
  <2>5. Ranking(keyword') /\ Ranking(dense)'
    BY <2>1, <2>4 DEF SearchInv, SearchTypes, Ranking
  <2>. QED
    BY <2>1, <2>4, <2>5 DEF SearchInv, SearchTypes
<1>2. CASE Search!SearchKeyword
  <2>1. stage = "keyword" /\ stage' = "fuse" /\ UNCHANGED <<mode, reranker, dense, rerank, ordered, results>>
    BY <1>2 DEF Search!SearchKeyword
  <2>2. keyword' \in IF mode \in {"hybrid", "keyword"} THEN Search!Rankings ELSE {<<>>}
    BY <1>2, Zenon DEF Search!SearchKeyword
  <2>3. Ranking(<<>>)
    BY RankAssumption DEF Ranking, Search!RankAssumption
  <2>4. Ranking(keyword') /\ (mode = "dense" => keyword' = <<>>)
    BY <2>2, <2>3, RankingsRank
  <2>5. Ranking(dense') /\ Ranking(keyword)'
    BY <2>1, <2>4 DEF SearchInv, SearchTypes, Ranking
  <2>. QED
    BY <2>1, <2>4, <2>5 DEF SearchInv, SearchTypes
<1>3. CASE Search!Fuse
  BY <1>3, FuseStep
<1>4. CASE Search!Rerank
  BY <1>4, RerankStep
<1>5. CASE Search!Cut \/ UNCHANGED Search!vars
  <2>1. /\ UNCHANGED <<mode, reranker, dense, keyword, rerank, ordered>>
        /\ \/ stage = "cut" /\ stage' = "done" /\ results' = SubSeq(ordered, 1, Search!Min({TopN, Len(ordered)}))
           \/ stage' = stage /\ results' = results
    BY <1>5 DEF Search!Cut, Search!vars
  <2>2. Search!Found' = Search!Found /\ Search!Fused' = Search!Fused
    BY <2>1 DEF Search!Found, Search!Fused, Search!Part, Search!In, Search!RankOf
  <2>3. SearchTypes'
    BY <2>1 DEF SearchInv, SearchTypes, Ranking
  <2>4. Candidates => Candidates'
    BY <2>1, <2>2 DEF Candidates
  <2>5. Lists(ordered, Search!Found, ByScore(Search!Found, Search!Fused))
            => Lists(ordered, Search!Found, ByScore(Search!Found, Search!Fused))'
    BY <2>1, <2>2 DEF Lists, ByScore, Search!Before
  <2>. QED
    BY <2>1, <2>2, <2>3, <2>4, <2>5 DEF SearchInv
<1>. QED
  BY <1>1, <1>2, <1>3, <1>4, <1>5 DEF Search!Next

\* The invariant, of the specification.
LEMMA SearchInvHolds == Search!Spec => []SearchInv
BY SearchInit, SearchStep, PTL DEF Search!Spec

\* What is cut off is the end of the list.
LEMMA CutIs ==
    ASSUME SearchInv, stage = "done"
    PROVE  /\ ordered \in Seq(Search!Found) /\ Search!Found \in SUBSET Nat
           /\ \E m \in 0..Len(ordered) :
                 /\ m = Search!Min({TopN, Len(ordered)})
                 /\ results \in Seq(Search!Found) /\ Len(results) = m
                 /\ \A i \in 1..m : results[i] = ordered[i]
<1>. DEFINE F == Search!Found
            L == Len(ordered)
            m == Search!Min({TopN, L})
<1>1. F \in SUBSET Nat
  BY FoundIsFinite DEF SearchInv, SearchTypes
<1>2. ordered \in Seq(F) /\ results = SubSeq(ordered, 1, m)
  BY DEF SearchInv, Candidates
<1>. HIDE DEF F, m
<1>3. L \in Nat /\ TopN \in Nat
  BY <1>2, RankAssumption DEF Search!RankAssumption
<1>4. m \in 0..L
  <2>1. m = IF TopN <= L THEN TopN ELSE L
    <3>1. \E x \in {TopN, L} : \A y \in {TopN, L} : x <= y
      BY <1>3
    <3>. HIDE DEF L
    <3>2. m \in {TopN, L} /\ \A y \in {TopN, L} : m <= y
      BY <3>1, Zenon DEF Search!Min, m
    <3>. QED
      BY <1>3, <3>2
  <2>. QED
    BY <1>3, <2>1
<1>5. results \in Seq(F) /\ Len(results) = m /\ \A i \in 1..m : results[i] = ordered[i]
  BY <1>2, <1>3, <1>4
<1>. QED
  BY <1>1, <1>2, <1>4, <1>5 DEF F, m

\* Of two candidates in order, the later one is returned only after the earlier one.
LEMMA EarlierBeats ==
    ASSUME SearchInv, stage = "done", NEW i \in DOMAIN ordered, NEW j \in DOMAIN ordered, i < j
    PROVE  Search!Beats(ordered[i], ordered[j]) \/ ~ Search!In(ordered[j], results)
<1>. SUFFICES ASSUME Search!In(ordered[j], results) PROVE Search!Beats(ordered[i], ordered[j])
  OBVIOUS
<1>1. PICK m \in 0..Len(ordered) :
          /\ results \in Seq(Search!Found) /\ Len(results) = m
          /\ \A k \in 1..m : results[k] = ordered[k]
  BY CutIs
<1>2. /\ ordered \in Seq(Search!Found)
      /\ \A k, l \in DOMAIN ordered : ordered[k] = ordered[l] => k = l
  BY DEF SearchInv, Candidates
<1>3. Len(ordered) \in Nat /\ DOMAIN ordered = 1..Len(ordered) /\ DOMAIN results = 1..m
  BY <1>1, <1>2
<1>4. ASSUME NEW k \in 1..m
      PROVE  Search!RankOf(ordered[k], results) = k /\ Search!In(ordered[k], results)
  <2>1. k \in DOMAIN results /\ results[k] = ordered[k]
    BY <1>1, <1>3
  <2>2. \A l \in DOMAIN results : results[l] = ordered[k] => l = k
    BY <1>1, <1>2, <1>3
  <2>3. Search!RankOf(ordered[k], results) = k
    BY <2>1, <2>2 DEF Search!RankOf
  <2>. QED
    BY <2>1, <2>3 DEF Search!In, Search!ToSet
<1>5. j \in 1..m
  <2>1. PICK k \in DOMAIN results : ordered[j] = results[k]
    BY DEF Search!In, Search!ToSet
  <2>2. k \in 1..m /\ k \in DOMAIN ordered /\ ordered[j] = ordered[k]
    BY <1>1, <1>3, <2>1
  <2>. QED
    BY <1>2, <2>2
<1>6. i \in 1..m
  BY <1>3, <1>5
<1>. QED
  BY <1>4, <1>5, <1>6 DEF Search!Beats

\* A better score is an earlier place.
LEMMA ScoreBeats ==
    ASSUME SearchInv, Search!FusedOnly, NEW x \in Search!Found, NEW y \in Search!Found,
           Search!Fused[x] > Search!Fused[y]
    PROVE  Search!Beats(x, y) \/ ~ Search!In(y, results)
<1>. DEFINE F == Search!Found
            R == ByScore(F, Search!Fused)
<1>1. stage = "done" /\ Lists(ordered, F, R) /\ Candidates
  BY DEF Search!FusedOnly, SearchInv
<1>2. PICK i \in DOMAIN ordered : ordered[i] = x
  BY <1>1 DEF Candidates
<1>3. PICK j \in DOMAIN ordered : ordered[j] = y
  BY <1>1 DEF Candidates
<1>4. <<x, y>> \in R
  BY DEF ByScore, Search!Before
<1>. HIDE DEF F, R
<1>5. i < j
  <2>1. DOMAIN ordered = 1..Cardinality(F)
    BY <1>1 DEF Lists
  <2>. QED
    BY <1>1, <1>2, <1>3, <1>4, <2>1 DEF Lists
<1>. QED
  BY <1>1, <1>2, <1>3, <1>5, EarlierBeats

\* Two shares outweigh one of any rank.
LEMMA AgreementWinsFollows == SearchInv => Search!AgreementWins
<1>. SUFFICES ASSUME SearchInv, Search!FusedOnly,
                     NEW x \in Search!ToSet(dense) \cap Search!ToSet(keyword),
                     NEW y \in Search!Found \ {x},
                     ~ (Search!In(y, dense) /\ Search!In(y, keyword))
              PROVE  Search!Beats(x, y) \/ ~ Search!In(y, results)
  BY DEF Search!AgreementWins
<1>1. Ranking(dense) /\ Ranking(keyword)
  BY DEF SearchInv, SearchTypes
<1>2. Search!In(x, dense) /\ Search!In(x, keyword) /\ x \in Search!Found
  BY DEF Search!In, Search!Found
<1>3. Search!Part(x, dense) + Search!Part(x, keyword) > Search!Part(y, dense) + Search!Part(y, keyword)
  BY <1>1, <1>2, BothCount
<1>4. Search!Fused[x] > Search!Fused[y]
  BY <1>1, <1>2, <1>3, FusedIs
<1>. QED
  BY <1>2, <1>4, ScoreBeats

\* The better rank in both searches is the larger share in both.
LEMMA RespectsBothFollows == SearchInv => Search!RespectsBoth
<1>. SUFFICES ASSUME SearchInv, Search!FusedOnly,
                     NEW x \in Search!Found, NEW y \in Search!Found,
                     Search!Better(x, y, dense), Search!Better(x, y, keyword)
              PROVE  Search!Beats(x, y) \/ ~ Search!In(y, results)
  BY DEF Search!RespectsBoth
<1>1. Ranking(dense) /\ Ranking(keyword)
  BY DEF SearchInv, SearchTypes
<1>2. Search!Part(x, dense) > Search!Part(y, dense) /\ Search!Part(x, keyword) > Search!Part(y, keyword)
  BY <1>1, BetterCounts
<1>3. /\ Search!Part(x, dense) \in Nat /\ Search!Part(y, dense) \in Nat
      /\ Search!Part(x, keyword) \in Nat /\ Search!Part(y, keyword) \in Nat
  BY <1>1, PartIs
<1>4. Search!Fused[x] > Search!Fused[y]
  BY <1>1, <1>2, <1>3, FusedIs
<1>. QED
  BY <1>4, ScoreBeats

\* The list is sorted by the new scores before it is cut.
LEMMA BestAreReturnedFollows == SearchInv => Search!BestAreReturned
<1>. SUFFICES ASSUME SearchInv, stage = "done", reranker PROVE Search!BestAreReturned
  BY DEF Search!BestAreReturned
<1>. DEFINE F == Search!Found
<1>1. PICK m \in 0..Len(ordered) :
          /\ m = Search!Min({TopN, Len(ordered)})
          /\ results \in Seq(F) /\ Len(results) = m
          /\ \A k \in 1..m : results[k] = ordered[k]
  BY CutIs
<1>2. /\ ordered \in Seq(F) /\ Len(ordered) = Cardinality(F)
      /\ \A x \in F : \E i \in DOMAIN ordered : ordered[i] = x
      /\ \A i, j \in DOMAIN ordered : i < j => rerank[ordered[i]] >= rerank[ordered[j]]
  BY DEF SearchInv, Candidates
<1>3. Len(results) = Search!Min({TopN, Search!Cardinality(F)})
  <2>1. Search!Cardinality(F) = Len(ordered)
    BY <1>2, SearchCardinality
  <2>. QED
    BY <1>1, <2>1
<1>. HIDE DEF F
<1>4. Len(ordered) \in Nat /\ DOMAIN ordered = 1..Len(ordered) /\ DOMAIN results = 1..m
  BY <1>1, <1>2
<1>5. ASSUME NEW x \in Search!ToSet(results), NEW y \in F \ Search!ToSet(results)
      PROVE  rerank[x] >= rerank[y]
  <2>1. PICK i \in 1..m : x = ordered[i]
    BY <1>1, <1>4 DEF Search!ToSet
  <2>2. PICK j \in 1..Len(ordered) : y = ordered[j]
    BY <1>2, <1>4
  <2>3. ~ j \in 1..m
    BY <1>1, <1>4, <1>5, <2>2 DEF Search!ToSet
  <2>4. i < j /\ i \in DOMAIN ordered /\ j \in DOMAIN ordered
    BY <1>4, <2>1, <2>2, <2>3
  <2>. QED
    BY <1>2, <2>1, <2>2, <2>4
<1>. QED
  BY <1>3, <1>5 DEF Search!BestAreReturned, F

-----------------------------------------------------------------------------
(* The citations and the search, as parts of the run. *)

\* A behaviour of the run is one of each, which may stand still.
LEMMA AnswersInTheRun == AnySpec => Cite!Spec /\ Search!Spec
<1>1. AnyInit => Cite!Init
  <2>. SUFFICES ASSUME AnyInit, NoReply PROVE Cite!Init
    BY DEF AnyInit
  <2>1. parts \in Cite!SeqOf(0..MaxSentences, MaxParts)
    <3>1. <<>> \in [1..0 -> 0..MaxSentences] /\ 0 \in 0..MaxParts
      BY PartsAssumption DEF Cite!PartsAssumption
    <3>. QED
      BY <3>1, Zenon DEF Cite!SeqOf, NoReply
  <2>. QED
    BY <2>1 DEF NoReply, Cite!Init
<1>2. AnyInit => Search!Init
  BY DEF AnyInit, NoQuery, Search!Init
<1>3. [AnyNext]_<<running, vars, parserVars, htmlVars, citeVars, searchVars, usageVars, evalVars>>
        => [Cite!Next]_(Cite!vars) /\ [Search!Next]_(Search!vars)
  BY DEF AnyNext, citeVars, searchVars, Cite!vars, Search!vars
<1>. QED
  BY <1>1, <1>2, <1>3, PTL DEF AnySpec, Cite!Spec, Search!Spec

\* Citations: whatever markers the model writes, the citations returned are exactly the
\* passages they name, each once, in order, under the numbers the model was given.
THEOREM CitedIsUsedHolds == AnySpec => []CitedIsUsed
<1>1. Cite!Spec => []Cite!CitedIsUsed
  BY CiteInvHolds, CitedIsUsedFollows, PTL
<1>. QED
  BY <1>1, AnswersInTheRun, PTL DEF CitedIsUsed

\* Citations: every citation names the first and the last page of its passage, or the
\* heading above it, however many pages or sections are blank.
THEOREM LocationIsTrueHolds == AnySpec => []LocationIsTrue
<1>1. Cite!Spec => []Cite!LocationIsTrue
  BY CiteInvHolds, LocationFollows, PTL
<1>. QED
  BY <1>1, AnswersInTheRun, PTL DEF LocationIsTrue

\* Retrieval: for every rrf_k and every length of the rankings up to rrf_k + 1, a chunk
\* that both searches find outranks every chunk that one of them finds, and the fused
\* order never contradicts both.
THEOREM FusionIsFairHolds == AnySpec => []FusionIsFair
<1>1. Search!Spec => []Search!AgreementWins
  BY SearchInvHolds, AgreementWinsFollows, PTL
<1>2. Search!Spec => []Search!RespectsBoth
  BY SearchInvHolds, RespectsBothFollows, PTL
<1>. QED
  BY <1>1, <1>2, AnswersInTheRun, PTL DEF FusionIsFair

\* Retrieval: with a reranker the results are the best of all candidates by its scores.
THEOREM BestAreReturnedHolds == AnySpec => []BestAreReturned
<1>1. Search!Spec => []Search!BestAreReturned
  BY SearchInvHolds, BestAreReturnedFollows, PTL
<1>. QED
  BY <1>1, AnswersInTheRun, PTL DEF BestAreReturned

=============================================================================
