---------------------------- MODULE MCAlgorithms ----------------------------
(***************************************************************************)
(* The sequential algorithms of the platform, each on every input of a     *)
(* small size: the chunker, the Markdown and the HTML parser, the search   *)
(* of one request, the citations of one answer, the usage roll-up; and the *)
(* retrieval evaluation.  They share nothing, so a behaviour runs one of   *)
(* them while the others stay at their first step.                         *)
(***************************************************************************)
EXTENDS Chunking, SequencesExt

CONSTANTS
    Levels, Fences, MaxLines,                             \* see Sections
    TagLevels, MaxElements,                               \* see HtmlBlocks
    MaxParts, MaxSentences, MaxPassages, MaxMarkers,      \* see Citations
    Ids, K, RrfK, TopN, MaxScore,                         \* see Retrieval
    Models, MaxCost, MaxRows, Window, MaxDays,            \* see UsageSummary
    Runs, Files, Questions, MaxSizes, Shown               \* see Evaluation

VARIABLES
    running,                                              \* the algorithm that runs
    lines, at, stack, buf, inFence, blocks, scan,         \* scan: pc of Sections
    page, visit, ranks, found, walk,                      \* at, stack, blocks, pc of HtmlBlocks
    step, paged, parts, sentences, passages, prompt, citations, answer, cited, \* step: pc of Citations
    mode, reranker, dense, keyword, rerank, ordered, results, stage, \* stage: pc of Retrieval
    rows, priced, today,
    tenant, corpus, phase, sizes, present, fed, asked, hits, points, supported
                                                          \* phase, present: pc, size of Evaluation

parserVars == <<lines, at, stack, buf, inFence, blocks, scan>>
htmlVars   == <<page, visit, ranks, found, walk>>
citeVars   == <<step, paged, parts, sentences, passages, prompt, citations, answer, cited>>
searchVars == <<mode, reranker, dense, keyword, rerank, ordered, results, stage>>
usageVars  == <<rows, priced, today>>
evalVars   == <<tenant, corpus, phase, sizes, present, fed, asked, hits, points, supported>>

Parser == INSTANCE Sections WITH pc <- scan
Html   == INSTANCE HtmlBlocks
              WITH Levels <- TagLevels, at <- visit, stack <- ranks, blocks <- found, pc <- walk
Cite   == INSTANCE Citations WITH pc <- step
Search == INSTANCE Retrieval WITH pc <- stage
Usage  == INSTANCE UsageSummary
Eval   == INSTANCE Evaluation WITH TopN <- Shown, pc <- phase, size <- present

ASSUME LinesAssumption    == Parser!LinesAssumption
ASSUME ElementsAssumption == Html!ElementsAssumption
ASSUME PartsAssumption    == Cite!PartsAssumption
ASSUME RankAssumption     == Search!RankAssumption
ASSUME BoundsAssumption   == Usage!BoundsAssumption
ASSUME ScoringAssumption  == Eval!ScoringAssumption

NoText  == words = 0 /\ ends = {} /\ pc = "loop" /\ pos = 1 /\ starts = {} /\ lo = 1
           /\ size = 0 /\ hasNew = FALSE /\ cut = 1 /\ budget = 0 /\ chunks = <<>>
NoFile  == lines = <<>> /\ at = 1 /\ stack = <<>> /\ buf = <<>> /\ inFence = FALSE
           /\ blocks = <<>> /\ scan = "scan"
NoReply == step = "parse" /\ paged = FALSE /\ parts = <<>> /\ sentences = <<>> /\ passages = <<>>
           /\ prompt = <<>> /\ citations = <<>> /\ answer = <<>> /\ cited = <<>>
NoQuery == mode = "hybrid" /\ reranker = FALSE /\ dense = <<>> /\ keyword = <<>>
           /\ rerank = Search!NoScores /\ ordered = <<>> /\ results = <<>> /\ stage = "dense"
NoCalls == rows = <<>> /\ priced = FALSE /\ today = 0
NoSweep == sizes = [r \in Runs |-> 1]

\* The one that runs starts on any of its inputs.
AnyInit ==
    /\ running \in {"chunker", "markdown", "html", "citations", "search", "usage", "evaluation"}
    /\ IF running = "chunker"    THEN Init         ELSE NoText
    /\ IF running = "markdown"   THEN Parser!Init  ELSE NoFile
    /\ Html!Init
    /\ IF running = "citations"  THEN Cite!Init    ELSE NoReply
    /\ IF running = "search"     THEN Search!Init  ELSE NoQuery
    /\ IF running = "usage"      THEN Usage!Init   ELSE NoCalls
    /\ Eval!Init /\ (running # "evaluation" => NoSweep)

AnyNext ==
    \/ running = "chunker" /\ Next
       /\ UNCHANGED <<running, parserVars, htmlVars, citeVars, searchVars, usageVars, evalVars>>
    \/ running = "markdown" /\ Parser!Next
       /\ UNCHANGED <<running, vars, htmlVars, citeVars, searchVars, usageVars, evalVars>>
    \/ running = "html" /\ Html!Next
       /\ UNCHANGED <<running, vars, parserVars, citeVars, searchVars, usageVars, evalVars>>
    \/ running = "citations" /\ Cite!Next
       /\ UNCHANGED <<running, vars, parserVars, htmlVars, searchVars, usageVars, evalVars>>
    \/ running = "search" /\ Search!Next
       /\ UNCHANGED <<running, vars, parserVars, htmlVars, citeVars, usageVars, evalVars>>
    \/ running = "usage" /\ Usage!Next
       /\ UNCHANGED <<running, vars, parserVars, htmlVars, citeVars, searchVars, evalVars>>
    \/ running = "evaluation" /\ Eval!Next
       /\ UNCHANGED <<running, vars, parserVars, htmlVars, citeVars, searchVars, usageVars>>

AnySpec ==
    AnyInit /\ [][AnyNext]_<<running, vars, parserVars, htmlVars, citeVars, searchVars, usageVars, evalVars>>

\* Sections: short and long fences, with an info string and of the other mark.
SomeFences ==
    {[mark |-> "backticks", length |-> 3, info |-> FALSE],
     [mark |-> "backticks", length |-> 3, info |-> TRUE],
     [mark |-> "backticks", length |-> 4, info |-> FALSE],
     [mark |-> "tildes",    length |-> 3, info |-> FALSE]}

-----------------------------------------------------------------------------
\* Sections and HtmlBlocks: every block is cited under exactly the headings that enclose
\* it, and "# ..." in code is not one of them, down to a fence quoted in code.
PathsAreEnclosing == Parser!PathsAreEnclosing /\ Parser!CodeIsCode /\ Html!PathsAreEnclosing

\* Sections and HtmlBlocks: no text is lost or filed twice.
TextIsKept == Parser!TextIsKept /\ Html!TextOnce

\* Citations: the citations of an answer are exactly the passages that it refers to.
CitedIsUsed == Cite!CitedIsUsed

\* Citations: a citation names the pages, or the heading, where its passage stands.
LocationIsTrue == Cite!LocationIsTrue

\* Retrieval: the fused order agrees with both searches where they agree, and a chunk
\* found by both outranks one found by one of them.
FusionIsFair == Search!AgreementWins /\ Search!RespectsBoth

\* Retrieval: no candidate is left out for one the reranker scores worse.
BestAreReturned == Search!BestAreReturned

\* UsageSummary: a total is shown exactly when every call has a cost.
NoPartialTotal == Usage!NoPartialTotal

\* Evaluation: what is scored is the whole corpus of this run, whatever ran before, and
\* the numbers of one table agree.
ScoresMeanSomething == Eval!KnownCorpus /\ Eval!ScoresAgree

=============================================================================
