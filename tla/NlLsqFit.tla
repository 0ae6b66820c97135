------------------------------ MODULE NlLsqFit ------------------------------
(***************************************************************************)
(* The Levenberg-Marquardt solver (nl_lsq_fit.cpp) with external data      *)
(* storage, the way the ellipsoid fit uses it: the data are added again    *)
(* before each step.  A fit object is a record and every member function   *)
(* an operator on it.                                                      *)
(*                                                                         *)
(* The numbers are abstracted.  A parameter vector is a member of Params;  *)
(* where a step leads, whether it is small enough to have converged and    *)
(* whether the equations can be solved is left open; the damping factor,   *)
(* which only scales the step, is left out.  The residual is kept: what    *)
(* the solver decides, it decides by comparing residuals.                  *)
(***************************************************************************)
EXTENDS Integers, FiniteSets, FitCodes

CONSTANTS
    Params,       \* parameter vectors: [at, shape, slope], the place and
                  \* the reasons of either kind to refuse it
    NParams,      \* n_e_params: the parameters a fit determines, the slope included
    RetryLimit    \* _NL_LSQ_FIT_LINE_RETRY_LIMIT

ASSUME FitAssumption ==
    /\ \A p \in Params : p.shape \subseteq ShapeReasons /\ p.slope \subseteq SlopeReasons
    /\ NParams \in Nat \ {0} /\ RetryLimit \in Nat

Garbage == -1             \* an uninitialized double
Residual == Nat \cup {Garbage}

\* bef_param_ok() and, for the fit without a slope, bef_param_ok_sa(): what
\* they leave in bef_pok_fail_reason.
CheckParams(sans_a, p) == IF sans_a THEN p.shape ELSE p.shape \cup p.slope
Viable(sans_a, p) == CheckParams(sans_a, p) = {}

FitState == {"ALLOCATED", "INITIALIZED", "DATA_ADDED", "SOLVED"}
Fit == [state : FitState, parameters : Params, para_last : Params,
        res : Nat, res_last : Nat, n_dp : Nat, n_retry : Nat, n_iteration : Nat]

Allocated(p) == [state |-> "ALLOCATED", parameters |-> p, para_last |-> p,
                 res |-> 0, res_last |-> 0, n_dp |-> 0, n_retry |-> 0,
                 n_iteration |-> 0]

Clear(f) == [f EXCEPT !.res = 0, !.n_dp = 0, !.state = "INITIALIZED"]

\* init(): nothing of the fit before it is left.
InitFit(f, sans_a, p) ==
    IF Viable(sans_a, p)
    THEN [Clear([f EXCEPT !.parameters = p]) EXCEPT !.n_retry = 0,
                                                    !.n_iteration = 0]
    ELSE [f EXCEPT !.parameters = p, !.state = "ALLOCATED"]

\* add_datum() for each of n points whose squared errors sum to r.
AddData(f, n, r) ==
    IF n = 0 THEN f
    ELSE LET g == IF f.state = "SOLVED" THEN Clear(f) ELSE f
         IN [g EXCEPT !.state = "DATA_ADDED", !.res = @ + r, !.n_dp = @ + n]

(***************************************************************************)
(* solve_1s(): the possible outcomes, [fit, ec, cur_res].  The two         *)
(* results are left alone (Garbage stands for that) when it fails before   *)
(* it has moved.                                                           *)
(***************************************************************************)
Outcome(f, ec, cur) == [fit |-> f, ec |-> ec, cur_res |-> cur]

Uphill(f) == f.n_iteration > 0 /\ f.res_last < f.res

\* The last step made things worse: undo it, or give up.
Retry(f) ==
    IF f.n_retry > RetryLimit
    THEN Outcome(f, NoProgress, Garbage)
    ELSE Outcome([f EXCEPT !.n_retry = @ + 1, !.parameters = f.para_last,
                           !.state = "SOLVED"],
                 GoesOn, f.res_last)

\* Progress, or the first step.
AcceptKeepingLast(f) == [f EXCEPT !.n_retry = 0,
                                  !.res_last = IF f.n_iteration = 0 THEN f.res ELSE @]
Accept(f) == [f EXCEPT !.n_retry = IF f.n_iteration > 0 THEN 0 ELSE @,
                       !.res_last = f.res]

\* The cuts are used up and the parameters taken as they are.
MoveUnchecked(f, sans_a, p, ec) ==
    Outcome([Accept(f) EXCEPT !.para_last = f.parameters, !.parameters = p,
                              !.n_iteration = @ + 1, !.state = "SOLVED"], ec, f.res)

\* The step, cut until the parameters pass, or refused however much it is cut.
Move(f, sans_a, p, ec) ==
    LET moved == [Accept(f) EXCEPT !.para_last = f.parameters, !.parameters = p]
    IN IF Viable(sans_a, p)
       THEN Outcome([moved EXCEPT !.n_iteration = @ + 1, !.state = "SOLVED"], ec, f.res)
       ELSE Outcome(moved, Constrained, f.res)

Steps(f, sans_a) ==
    {Outcome(Accept(f), Singular, Garbage)} \cup
    {Move(f, sans_a, p, ec) : p \in Params, ec \in {GoesOn, Converged}}

\* The slope is not a parameter of the fit without it.
Underdetermined(f, sans_a) == f.n_dp <= (IF sans_a THEN NParams - 1 ELSE NParams)

Solve1s(f, sans_a) ==
    IF f.state # "DATA_ADDED" THEN {Outcome(f, OutOfOrder, Garbage)}
    ELSE IF Underdetermined(f, sans_a) THEN {Outcome(f, TooFewData, Garbage)}
    ELSE IF Uphill(f) THEN {Retry(f)}
    ELSE Steps(f, sans_a)
=============================================================================
