------------------------- MODULE IngestionRefinement -------------------------
(***************************************************************************)
(* Ingestion implements DocumentLifecycle: the queue, the workers and the  *)
(* retries are hidden, and an id that had a row once is deleted for good.  *)
(***************************************************************************)
EXTENDS Ingestion

LifecycleState ==
    [d \in Docs |-> IF status[d] # "absent" THEN status[d]
                    ELSE IF uploads[d] = "none" THEN "unborn" ELSE "deleted"]

LifecycleSearchable == {d \in Docs : chunks[d] > 0}

Strict == INSTANCE DocumentLifecycle
    WITH state <- LifecycleState, searchable <- LifecycleSearchable, Relapses <- FALSE

Loose == INSTANCE DocumentLifecycle
    WITH state <- LifecycleState, searchable <- LifecycleSearchable, Relapses <- TRUE

\* In Calm the documented promise is kept: every document goes forward only, once, and
\* settles for good, although the broker may refuse what an upload publishes.  (That a
\* worker can always publish its retry is part of Calm.)
KeepsStrictLifecycle == Strict!FairSpec

\* With the weaker promise implemented a document may relapse, but stays searchable.
\* That it settles again holds as long as nothing is lost for good (Lossless): with host
\* crashes, repeated deliveries and ambiguous publishes, but with a broker that keeps its
\* messages and accepts every retry.
KeepsLooseLifecycle == Loose!FairSpec

=============================================================================
