---------------------------- MODULE MCIngestion ----------------------------
(***************************************************************************)
(* Instances of Ingestion for TLC.  The workers are interchangeable.       *)
(***************************************************************************)
EXTENDS IngestionRefinement, TLC

WorkerSymmetry == Permutations(Workers)

=============================================================================
