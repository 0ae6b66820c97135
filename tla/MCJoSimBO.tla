----------------------------- MODULE MCJoSimBO -----------------------------
(* A three-vector line on which neighbours match, for model checking.      *)
EXTENDS JoSimBO

MCPoints == 0 .. 2
MCNearPairs == {pq \in MCPoints \X MCPoints : pq[1] - pq[2] \in -1 .. 1}
=============================================================================
