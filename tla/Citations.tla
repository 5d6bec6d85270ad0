------------------------------ MODULE Citations ------------------------------
(***************************************************************************)
(* Where an answer says its facts come from: the parts of a file with text *)
(* in them (PDF pages, or sections of a text file) become blocks, a chunk  *)
(* is a run of their sentences and carries their pages or its heading, the *)
(* retrieved chunks are numbered in the prompt, and the markers found in   *)
(* the answer select the citations shown.                                  *)
(***************************************************************************)
EXTENDS Naturals, Sequences, FiniteSetsExt, SequencesExt

CONSTANTS
    MaxParts,      \* bound: pages, or sections, of the file
    MaxSentences,  \* bound: sentences of one of them
    MaxPassages,   \* bound: chunks retrieved
    MaxMarkers     \* bound: markers in an answer

\* Of the constants.
PartsAssumption ==
    MaxParts \in Nat /\ MaxSentences \in Nat /\ MaxPassages \in Nat /\ MaxMarkers \in Nat

VARIABLES
    pc,
    paged,      \* a PDF; else section 1 is what precedes the first heading
    parts,      \* the sentences of each page or section
    sentences,  \* of all blocks, each as the part its meta names
    passages,   \* what was retrieved, best first: runs of sentences
    prompt,     \* the numbered passages, as the model sees them
    citations,  \* by marker: each passage and its location
    answer,     \* the markers in it, in order of appearance
    cited       \* the citations returned

vars == <<pc, paged, parts, sentences, passages, prompt, citations, answer, cited>>

Init ==
    /\ pc = "parse"
    /\ paged \in BOOLEAN
    /\ parts \in SeqOf(0..MaxSentences, MaxParts)
    /\ sentences = <<>> /\ passages = <<>> /\ prompt = <<>> /\ citations = <<>>
    /\ answer = <<>> /\ cited = <<>>

\* Mutant: the blocks are counted, not the pages.
BlocksCounted ==
    LET filled == SelectSeq(parts, LAMBDA n : n > 0)
    IN  FlattenSeq([b \in DOMAIN filled |-> [i \in 1..filled[b] |-> b]])

\* A part without text is no block, but it counts.
Blocks == FlattenSeq([p \in DOMAIN parts |-> [i \in 1..parts[p] |-> p]])

\* No text at all is a ParseError.
Parse ==
    /\ pc = "parse"
    /\ sentences' = Blocks
    /\ pc' = IF sentences' = <<>> THEN "rejected" ELSE "retrieve"
    /\ UNCHANGED <<paged, parts, passages, prompt, citations, answer, cited>>

\* Any runs of sentences may be the chunks found; they overlap.
Retrieve ==
    /\ pc = "retrieve"
    /\ LET runs == {run \in (DOMAIN sentences) \X (DOMAIN sentences) : run[1] <= run[2]}
       IN  passages' \in {s \in SeqOf(runs, MaxPassages) : s # <<>> /\ IsInjective(s)}
    /\ pc' = "prompt"
    /\ UNCHANGED <<paged, parts, sentences, prompt, citations, answer, cited>>

\* _merge_meta() and format_location(): the pages of all sentences, or the heading of the
\* first one, which text before the first heading does not have.
Nowhere   == [from |-> 0, to |-> 0]
Location(run) ==
    LET named == {sentences[i] : i \in run[1]..run[2]}
        first == sentences[run[1]]
    IN  CASE paged               -> [from |-> Min(named), to |-> Max(named)]
          [] ~paged /\ first > 1 -> [from |-> first, to |-> first]
          [] OTHER               -> Nowhere

\* Both are numbered from 1, in the order of the search.
Prepare ==
    /\ pc = "prompt"
    /\ prompt' = passages
    /\ citations' = [i \in DOMAIN passages |->
           [marker |-> i, of |-> passages[i], location |-> Location(passages[i])]]
    /\ pc' = "generate"
    /\ UNCHANGED <<paged, parts, sentences, passages, answer, cited>>

\* The model writes any markers: out of order, repeated, or of no passage.
Generate ==
    /\ pc = "generate"
    /\ answer' \in SeqOf(0..(MaxPassages + 1), MaxMarkers)
    /\ pc' = "cite"
    /\ UNCHANGED <<paged, parts, sentences, passages, prompt, citations, cited>>

\* Mutant: the order of appearance, with the repetitions.
AsTheyAppear == SelectSeq(answer, LAMBDA m : m \in DOMAIN citations)

\* _cited_only(): each once, by marker.
Used ==
    LET known == ToSet(answer) \cap DOMAIN citations
    IN  [i \in 1..Cardinality(known) |-> CHOOSE m \in known : Cardinality({k \in known : k < m}) = i - 1]

Cite ==
    /\ pc = "cite"
    /\ cited' = [i \in DOMAIN Used |-> citations[Used[i]]]
    /\ pc' = "done"
    /\ UNCHANGED <<paged, parts, sentences, passages, prompt, citations, answer>>

Next == Parse \/ Retrieve \/ Prepare \/ Generate \/ Cite

Spec == Init /\ [][Next]_vars

-----------------------------------------------------------------------------
(* Properties. *)

\* "Only citations the answer actually used": every marker of the answer that has a
\* passage is cited, each once and in order, and nothing else; and a marker names for the
\* reader the passage that it named for the model.
CitedIsUsed ==
    pc = "done" =>
        /\ \A i, j \in DOMAIN cited : i < j => cited[i].marker < cited[j].marker
        /\ {c.marker : c \in ToSet(cited)} = ToSet(answer) \cap DOMAIN prompt
        /\ \A c \in ToSet(cited) : c.of = prompt[c.marker]

\* The part of the file in which sentence i stands, found by counting.
PartOf(i) ==
    LET upto[p \in 0..Len(parts)] == IF p = 0 THEN 0 ELSE upto[p - 1] + parts[p]
    IN  CHOOSE p \in DOMAIN parts : upto[p - 1] < i /\ i <= upto[p]

\* A citation leads to its text: it names the first and the last page that the passage
\* stands on, blank pages counted, or the heading under which it begins, or nothing when
\* there is no heading yet.
LocationIsTrue ==
    \A c \in ToSet(citations) :
        c.location = CASE paged -> [from |-> PartOf(c.of[1]), to |-> PartOf(c.of[2])]
                       [] ~paged /\ PartOf(c.of[1]) > 1 -> [from |-> PartOf(c.of[1]), to |-> PartOf(c.of[1])]
                       [] OTHER -> Nowhere

=============================================================================
