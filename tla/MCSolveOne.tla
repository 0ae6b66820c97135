----------------------------- MODULE MCSolveOne -----------------------------
(* Three places, one with a slope that is refused, and a fourth parameter    *)
(* vector whose shape is refused as well.                                    *)
EXTENDS SolveOne

At(x, shape, slope_) == [at |-> x, shape |-> shape, slope |-> slope_]
MCParams == {At(1, {}, {}), At(2, {}, {}), At(3, {}, {"max_a"}),
             At(3, {"cntr_esc"}, {"min_a"})}

\* Landscapes that do not depend on the slope, one that gets worse as the slope
\* grows, and one with a point where a datum cannot be added.
Flat(f) == [s \in 0 .. MaxSlope |-> f]
MCCosts == {Flat(<<2, 1, 0>>), Flat(<<0, 1, 2>>),
            [s \in 0 .. MaxSlope |-> <<1 + s, s, BadDatum>>]}
=============================================================================
