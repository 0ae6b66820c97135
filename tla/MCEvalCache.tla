---------------------------- MODULE MCEvalCache ----------------------------
(* A five-vector line on which neighbours match, for model checking.       *)
EXTENDS EvalCache

MCPoints == 0 .. 4
MCNearPairs == {pq \in MCPoints \X MCPoints : pq[1] - pq[2] \in -1 .. 1}
MCStoreScores == {-1, 2}
=============================================================================
