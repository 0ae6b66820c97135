---------------------------- MODULE MCSimAnneal ----------------------------
(* Two parameters of two values, one vector that the reject function       *)
(* forbids, and a schedule whose last step alone is cold.                  *)
EXTENDS SimAnneal

CONSTANTS p1, p2

MCParams == {p1, p2}
MCPhysical == [v \in 0 .. Grid |-> v + 5]
MCRejected == {[p \in MCParams |-> 1]}
MCSchedule == << [temp |-> 2, n_steps |-> 3], [temp |-> 1, n_steps |-> 3] >>
=============================================================================
