--------------------------- MODULE MCParallelBuild ---------------------------
(***************************************************************************)
(* The instance of MCInvertedIndex, with bulk loads long enough for both   *)
(* of two cores and two terms for one of the merge workers.                *)
(***************************************************************************)
EXTENDS ParallelBuild, MCInvertedIndex

MCHash == [t \in MCTerm |-> IF t = "dog" THEN 7 ELSE 4]

MCParallelBatches ==
    MCBatches \union {<<"dogfox2", "catdog1", "empty2", "cat1">>}

=============================================================================
