---------------------------- MODULE MCBeamSearch ----------------------------
(* A clean fit, one that ran out of retries, and refusals that are repaired   *)
(* always, sometimes and never; two of them fit best.                        *)
EXTENDS BeamSearch

Land(ec, reasons, res, at) == [ec |-> ec, reasons |-> reasons, res |-> res, at |-> at]
MCLandings ==
    { Land(Converged, {}, 20, 1), Land(Constrained, {"max_a"}, 30, 2),
      Land(Constrained, {"cntr_esc"}, 19, 3), Land(Constrained, {"f_escape"}, 19, 3),
      Land(Constrained, {"fs2small"}, 10, 4) }

Points(p, f, c) == [pass |-> p, fail |-> f, cut |-> c]
MCExplored == {Points(1, 2, 1), Points(2, 0, 0)}

\* Two rounds and three, tight budgets, ample ones, and some below what the rays
\* along the axes take; the tightest are run, of those with three rounds one
\* without a shell probe of its own and one with one in each round.
Plan(d, i, n, b) == [n_dim |-> d, n_iter |-> i, probes |-> n, sim_budget |-> b]
MCPlanInputs == {Plan(2, 2, 1, b) : b \in {3, 5, 7, 16}} \cup
                {Plan(2, 3, n, b) : n \in 1 .. 2, b \in {5, 6, 13, 30}}
=============================================================================
