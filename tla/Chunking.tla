------------------------------ MODULE Chunking ------------------------------
(***************************************************************************)
(* The chunker: a document's words are read in units (a sentence, or a     *)
(* piece of one too long for a chunk), packed greedily into chunks, and    *)
(* the last units of a chunk are carried into the next one as its overlap. *)
(*                                                                         *)
(* The words are 1..words, in reading order over all blocks, and ends      *)
(* holds the last word of every sentence.  A unit or a chunk is contiguous *)
(* and is given by its first and last word.  Sizes are estimated tokens.   *)
(***************************************************************************)
EXTENDS Naturals, Sequences

CONSTANTS
    Target,    \* target_tokens
    Overlap,   \* overlap_tokens
    MaxWords   \* bound: the longest document

ASSUME ChunkingAssumption ==
    Target \in Nat /\ Overlap \in Nat /\ Overlap < Target /\ MaxWords \in Nat

VARIABLES
    words,   \* the document's length
    ends,    \* the words that end a sentence
    pc,
    pos,     \* the next word to read
    starts,  \* first words of the units read so far
    lo,      \* current: the units of lo..(pos - 1)
    size,    \* current_tokens
    hasNew,
    cut,     \* carried: the units of cut..(pos - 1)
    budget,  \* tokens carried
    chunks

document == <<words, ends>>
vars     == <<document, pc, pos, starts, lo, size, hasNew, cut, budget, chunks>>

-----------------------------------------------------------------------------
(* Units. *)

\* round(k / 0.75) for k > 0 words: thirds never tie.
Estimate(k) == (4 * k + 1) \div 3

\* int(hard_limit * 0.75), at least one: the words of a piece.
Step == IF Target < 2 THEN 1 ELSE (3 * Target) \div 4

BeginsSentence(w) == w = 1 \/ w - 1 \in ends
SentenceEnd(w)    == CHOOSE e \in ends : e >= w /\ \A f \in ends : f >= w => e <= f

\* Mutant: every sentence is cut into pieces.
UnitEndPieces(w) ==
    LET e == SentenceEnd(w) IN IF e < w + Step THEN e ELSE w + Step - 1

\* The unit that begins at w: the sentence when it fits, else a piece of it.
UnitEnd(w) ==
    LET e == SentenceEnd(w)
    IN  IF (BeginsSentence(w) /\ Estimate(e - w + 1) <= Target) \/ e < w + Step
        THEN e
        ELSE w + Step - 1

Tokens(w) == Estimate(UnitEnd(w) - w + 1)

\* The unit of the document that precedes word w.
Previous(w) == CHOOSE s \in starts : s < w /\ \A t \in starts : t < w => t <= s

-----------------------------------------------------------------------------
Init ==
    /\ words \in 0..MaxWords
    /\ ends \in {e \in SUBSET (1..words) : words > 0 => words \in e}
    /\ pc = "loop"
    /\ pos = 1 /\ starts = {}
    /\ lo = 1 /\ size = 0 /\ hasNew = FALSE
    /\ cut = 1 /\ budget = 0
    /\ chunks = <<>>

Chunk == [first |-> lo, last |-> pos - 1, tokens |-> size]

Full == lo < pos /\ size + Tokens(pos) > Target

\* Another unit: emit first when it does not fit.
Read ==
    /\ pc = "loop"
    /\ pos <= words
    /\ IF Full
       THEN /\ chunks' = Append(chunks, Chunk)
            /\ cut' = pos
            /\ budget' = 0
            /\ pc' = "carry"
       ELSE /\ pc' = "append"
            /\ UNCHANGED <<cut, budget, chunks>>
    /\ UNCHANGED <<document, pos, starts, lo, size, hasNew>>

\* Mutant: the unit that exceeds the overlap is carried too.
CarriesAnotherLate == cut > lo /\ budget <= Overlap

\* The loop over reversed(current) goes on.
CarriesAnother == cut > lo /\ budget + Estimate(cut - Previous(cut)) <= Overlap

CarryUnit ==
    /\ pc = "carry"
    /\ CarriesAnother
    /\ budget' = budget + Estimate(cut - Previous(cut))
    /\ cut' = Previous(cut)
    /\ UNCHANGED <<document, pc, pos, starts, lo, size, hasNew, chunks>>

\* Mutant: the overlap may be the whole chunk.
EndCarryWhole ==
    /\ pc = "carry"
    /\ ~CarriesAnother
    /\ lo' = cut /\ size' = budget
    /\ hasNew' = FALSE
    /\ pc' = "append"
    /\ UNCHANGED <<document, pos, starts, cut, budget, chunks>>

\* The overlap must never be the whole chunk.
EndCarry ==
    /\ pc = "carry"
    /\ ~CarriesAnother
    /\ IF cut = lo THEN lo' = pos /\ size' = 0 ELSE lo' = cut /\ size' = budget
    /\ hasNew' = FALSE
    /\ pc' = "append"
    /\ UNCHANGED <<document, pos, starts, cut, budget, chunks>>

AppendUnit ==
    /\ pc = "append"
    /\ starts' = starts \cup {pos}
    /\ pos' = UnitEnd(pos) + 1
    /\ size' = size + Tokens(pos)
    /\ hasNew' = TRUE
    /\ pc' = "loop"
    /\ UNCHANGED <<document, lo, cut, budget, chunks>>

\* Mutant: the rest is dropped.
FinishWithoutRest ==
    /\ pc = "loop"
    /\ pos > words
    /\ pc' = "done"
    /\ UNCHANGED <<document, pos, starts, lo, size, hasNew, cut, budget, chunks>>

\* The end of the text: what is left becomes the last chunk, and carries nothing.
Finish ==
    /\ pc = "loop"
    /\ pos > words
    /\ IF hasNew
       THEN /\ chunks' = Append(chunks, Chunk)
            /\ lo' = pos /\ size' = 0 /\ hasNew' = FALSE
       ELSE UNCHANGED <<lo, size, hasNew, chunks>>
    /\ pc' = "done"
    /\ UNCHANGED <<document, pos, starts, cut, budget>>

Next == Read \/ CarryUnit \/ EndCarry \/ AppendUnit \/ Finish

Spec == Init /\ [][Next]_vars

-----------------------------------------------------------------------------
(* Properties. *)

Chunks == [first : Nat, last : Nat, tokens : Nat]

TypeOK ==
    /\ words \in 0..MaxWords
    /\ ends \subseteq 1..words
    /\ words > 0 => words \in ends
    /\ pc \in {"loop", "carry", "append", "done"}
    /\ pos \in 1..(words + 1)
    /\ starts \subseteq 1..words
    /\ lo \in 1..pos
    /\ cut \in 1..pos
    /\ size \in Nat
    /\ hasNew \in BOOLEAN
    /\ budget \in Nat
    /\ chunks \in Seq(Chunks)

\* Whatever the sentences, no chunk exceeds the target by more than the overlap: the
\* bound that keeps 400 + 60 under the embedding model's 512 tokens.
ChunkFits == \A k \in 1..Len(chunks) : chunks[k].tokens <= Target + Overlap

\* No word of the document is lost: when the chunker is done each is in some chunk.
NothingLost ==
    pc = "done" =>
        \A w \in 1..words : \E k \in 1..Len(chunks) : w \in chunks[k].first..chunks[k].last

\* Each chunk begins after the previous one began and ends after it ended, with no gap
\* between them: the overlap never makes the chunker emit the same text again.
Progress ==
    \A k \in 1..(Len(chunks) - 1) :
        /\ chunks[k].first < chunks[k + 1].first
        /\ chunks[k].last  < chunks[k + 1].last
        /\ chunks[k + 1].first <= chunks[k].last + 1

\* A chunk is closed only when the next unit does not fit: chunks are not smaller than
\* they need to be.
PackedFull ==
    \A k \in 1..(Len(chunks) - 1) :
        chunks[k].tokens + Tokens(chunks[k].last + 1) > Target

\* Sentences are never split, except those longer than the whole budget.
Whole(w) == Estimate(SentenceEnd(w) - w + 1) <= Target
SentencesKept ==
    \A k \in 1..Len(chunks) : \A w \in 1..words :
        BeginsSentence(w) /\ Whole(w) =>
            \/ SentenceEnd(w) < chunks[k].first
            \/ chunks[k].last < w
            \/ chunks[k].first <= w /\ SentenceEnd(w) <= chunks[k].last

=============================================================================
