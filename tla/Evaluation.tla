----------------------------- MODULE Evaluation -----------------------------
(***************************************************************************)
(* The retrieval evaluation, run_eval.py: a run recreates the evaluation   *)
(* tenant, ingests the corpus into it and scores the questions, once, or   *)
(* once for each chunk size of a sweep.  Runs may overlap and may die; the *)
(* database holds one evaluation tenant, whose slug is unique.             *)
(***************************************************************************)
EXTENDS Naturals, FiniteSets

CONSTANTS
    Runs,       \* processes
    Files,      \* the corpus
    Questions,  \* how many are asked, each with its expected file and fact
    MaxSizes,   \* bound: how many chunk sizes are swept
    TopN        \* results of a search

\* Of the constants.  With more results than five a rank beyond them counts in the mean
\* reciprocal rank "@5", too.
ScoringAssumption == Questions \in Nat /\ MaxSizes \in Nat \ {0} /\ TopN \in 0..5

VARIABLES
    tenant,     \* <<run, size>> the tenant was created for, or NoTenant
    corpus,     \* its completed documents, as <<file, size>>
    pc,         \* "prepare", "ingest", "score", "support", "done", "dead"
    sizes,      \* how many chunk sizes each run sweeps; 1: no sweep
    size,       \* the chunk size it is at
    fed,        \* files each run has ingested
    asked,      \* questions each run has asked
    hits,       \* of each run: hits[k], how many had the expected file in the first k
    points,     \* sum of the reciprocal ranks, in sixtieths
    supported   \* questions whose fact is in what was retrieved

scoreVars == <<asked, hits, points, supported>>
vars      == <<tenant, corpus, pc, sizes, size, fed, scoreVars>>

NoTenant == <<>>
Mine(r)  == <<r, size[r]>>
Cutoffs  == {1, 3, 5}
Sixty    == 60
NoHits   == [k \in Cutoffs |-> 0]

Init ==
    /\ tenant = NoTenant /\ corpus = {}
    /\ pc    = [r \in Runs |-> "prepare"]
    /\ sizes \in [Runs -> 1..MaxSizes]
    /\ size  = [r \in Runs |-> 1]
    /\ fed   = [r \in Runs |-> {}]
    /\ asked = [r \in Runs |-> 0] /\ supported = [r \in Runs |-> 0]
    /\ hits  = [r \in Runs |-> NoHits] /\ points = [r \in Runs |-> 0]

Goto(r, label) == pc' = [pc EXCEPT ![r] = label]

\* DELETE, which cascades, INSERT and COMMIT in one transaction.
Prepare(r) ==
    /\ pc[r] = "prepare"
    /\ tenant' = Mine(r) /\ corpus' = {}
    /\ fed' = [fed EXCEPT ![r] = {}]
    /\ Goto(r, "ingest")
    /\ UNCHANGED <<sizes, size, scoreVars>>

\* Mutant: a file that cannot be ingested is skipped.
IngestOrSkip(r) ==
    /\ pc[r] = "ingest"
    /\ \E f \in Files \ fed[r] :
          /\ fed' = [fed EXCEPT ![r] = @ \cup {f}]
          /\ corpus' \in {corpus, corpus \cup {<<f, size[r]>>}}
    /\ Goto(r, IF fed'[r] = Files THEN "score" ELSE "ingest")
    /\ UNCHANGED <<tenant, sizes, size, scoreVars>>

\* ingest() of one file.  It raises when the tenant is gone, which ends the run (Die).
Ingest(r) ==
    /\ pc[r] = "ingest"
    /\ tenant = Mine(r)
    /\ \E f \in Files \ fed[r] :
          /\ fed' = [fed EXCEPT ![r] = @ \cup {f}]
          /\ corpus' = corpus \cup {<<f, size[r]>>}
    /\ Goto(r, IF fed'[r] = Files THEN "score" ELSE "ingest")
    /\ UNCHANGED <<tenant, sizes, size, scoreVars>>

Counted(k, rank) == rank # 0 /\ rank <= k

\* A search in the run's own tenant finds the expected file at some rank, or not (0); when
\* another run has recreated the tenant it finds nothing, and says nothing of it.
Score(r) ==
    /\ pc[r] = "score" /\ asked[r] < Questions
    /\ \E rank \in IF tenant = Mine(r) THEN 0..TopN ELSE {0} :
          /\ hits'   = [hits EXCEPT ![r] = [k \in Cutoffs |-> @[k] + IF Counted(k, rank) THEN 1 ELSE 0]]
          /\ points' = [points EXCEPT ![r] = @ + IF rank = 0 THEN 0 ELSE Sixty \div rank]
    /\ asked' = [asked EXCEPT ![r] = @ + 1]
    /\ UNCHANGED <<tenant, corpus, pc, sizes, size, fed, supported>>

ResetScores(r) == hits' = [hits EXCEPT ![r] = NoHits] /\ points' = [points EXCEPT ![r] = 0]

\* The scores of one mode, or of one size of the sweep, are complete.
Report(r) ==
    /\ pc[r] = "score" /\ asked[r] = Questions
    /\ asked' = [asked EXCEPT ![r] = 0]
    /\ \/ size[r] < sizes[r] /\ size' = [size EXCEPT ![r] = @ + 1] /\ Goto(r, "prepare") /\ ResetScores(r)
       \/ sizes[r] = 1 /\ ResetScores(r) /\ UNCHANGED <<pc, size>>
       \/ /\ size[r] = sizes[r]
          /\ Goto(r, IF sizes[r] = 1 THEN "support" ELSE "done")
          /\ UNCHANGED <<size, hits, points>>
    /\ UNCHANGED <<tenant, corpus, sizes, fed, supported>>

\* Without a sweep the questions are asked again: is the fact in any retrieved chunk?
Support(r) ==
    /\ pc[r] = "support"
    /\ IF asked[r] < Questions
       THEN /\ asked' = [asked EXCEPT ![r] = @ + 1]
            /\ \E found \in IF tenant = Mine(r) THEN {0, 1} ELSE {0} :
                  supported' = [supported EXCEPT ![r] = @ + found]
            /\ UNCHANGED pc
       ELSE Goto(r, "done") /\ UNCHANGED <<asked, supported>>
    /\ UNCHANGED <<tenant, corpus, sizes, size, fed, hits, points>>

\* The process is killed, or raises: no table, no exit status 0.
Die(r) ==
    /\ pc[r] \in {"prepare", "ingest", "score", "support"}
    /\ Goto(r, "dead")
    /\ UNCHANGED <<tenant, corpus, sizes, size, fed, scoreVars>>

Next == \E r \in Runs : Prepare(r) \/ Ingest(r) \/ Score(r) \/ Report(r) \/ Support(r) \/ Die(r)

Spec == Init /\ [][Next]_vars

-----------------------------------------------------------------------------
(* Properties. *)

\* "Every run measures a known corpus, never leftovers from a previous configuration":
\* what a run can find while it scores is the whole corpus, cut at the run's present size,
\* whatever runs died before it or overlap it; or nothing, when another run has recreated
\* the tenant meanwhile.
KnownCorpus ==
    \A r \in Runs :
        pc[r] \in {"score", "support"} /\ tenant = Mine(r) => corpus = Files \X {size[r]}

\* The numbers of one table agree: a deeper cutoff never scores lower, and the mean
\* reciprocal rank lies between the first cutoff and the last.
ScoresAgree ==
    \A r \in Runs :
        /\ hits[r][1] <= hits[r][3] /\ hits[r][3] <= hits[r][5] /\ hits[r][5] <= Questions
        /\ Sixty * hits[r][1] <= points[r] /\ points[r] <= Sixty * hits[r][5]
        /\ supported[r] <= Questions

=============================================================================
