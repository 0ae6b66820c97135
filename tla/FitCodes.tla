------------------------------ MODULE FitCodes -------------------------------
(***************************************************************************)
(* The codes with which an ellipsoid fit answers: why it stopped, and why  *)
(* its parameters were refused.  SolveOne.tla is the program behind an     *)
(* answer, BeamSearch.tla the caller that relies on it.                    *)
(***************************************************************************)
EXTENDS Integers

\* The failure flags of bef_functions.h: those that concern the shape of the
\* ellipsoid and those that concern the slope <a> of the sigmoid.
ShapeReasons == {"f_escape", "cntr_esc", "f_merge", "scale", "fs2small"}
SlopeReasons == {"min_a", "max_a"}
Reasons == ShapeReasons \cup SlopeReasons

\* The codes solve_1s() returns.
GoesOn      ==  0
Converged   ==  1
NoProgress  == -1
Singular    == -2
Constrained == -3
OutOfOrder  == -4
TooFewData  == -5
Codes == TooFewData .. Converged

\* A refusal is the only end that leaves reasons, and the only one that
\* leaves parameters that are not viable.
Answers ==
    {a \in [ec : Codes, reasons : SUBSET Reasons, viable : BOOLEAN] :
        /\ (a.reasons # {}) <=> (a.ec = Constrained)
        /\ a.viable <=> (a.ec # Constrained)}

NoAnswer == [ec |-> GoesOn, reasons |-> {}, viable |-> FALSE]
=============================================================================
