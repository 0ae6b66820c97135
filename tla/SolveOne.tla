------------------------------ MODULE SolveOne ------------------------------
(***************************************************************************)
(* One ellipsoid fit, bin_ellipsoid_fit::solve_one(), on top of the        *)
(* solver of NlLsqFit.tla.  There are two solver objects, for the fit with *)
(* the slope <a> of the sigmoid and for the one without it (sans a), in    *)
(* which the slope is set from outside and may change with every step.     *)
(* The objects and the reasons of the last parameter check outlive a fit.  *)
(*                                                                         *)
(* Cost[s][x] is the residual of the data, added at slope s, for the       *)
(* parameters at place x; BadDatum when a data point cannot be added.      *)
(***************************************************************************)
EXTENDS NlLsqFit, Sequences

CONSTANTS
    Costs,        \* the landscapes a fit may meet
    DataSizes,    \* how many data points are not outliers
    MaxIter,      \* n_lm_iteration
    MaxSlope,     \* the slopes are 0 .. MaxSlope, 0 in the fit that has its own
    MaxFits       \* bound on the fits made one after the other

BadDatum == -1
Infinite == 1000          \* more than any residual

ASSUME SolveAssumption ==
    /\ DataSizes \subseteq Nat
    /\ MaxIter \in Nat \ {0} /\ MaxSlope \in Nat \ {0} /\ MaxFits \in Nat \ {0}
    /\ Params # {}
    /\ \A c \in Costs, s \in 0 .. MaxSlope, p \in Params :
           c[s][p.at] \in 0 .. Infinite - 1 \cup {BadDatum}

VARIABLES
    pc,        \* "idle", "scan", "step", "answered", "exit" or "abort"
    fit,       \* the two solver objects, by sans_a
    sans_a, slope, a_incr,     \* of the fit being made
    sol,       \* its lm_solution: [begin_res, end_res, ec, pok_fail, param_final]
    cur_res,   \* the local variable, uninitialized at first
    reasons,   \* bef_pok_fail_reason
    iter, cost, n_data, fits,
    least,     \* history: the least residual of this fit so far
    uphill     \* history: steps tried in vain since the last one that helped

dataVars == <<cost, n_data>>
kindVars == <<sans_a, a_incr>>
history == <<least, uphill>>
vars == <<pc, fit, kindVars, slope, sol, cur_res, reasons, iter, dataVars, fits,
          history>>

\* A solution nothing has been written to.
Blank == [begin_res |-> Garbage, end_res |-> Garbage, ec |-> GoesOn,
          pok_fail |-> {}, param_final |-> CHOOSE p \in Params : TRUE]

Init ==
    /\ pc = "idle"
    /\ fit = [k \in BOOLEAN |-> Allocated(CHOOSE p \in Params : TRUE)]
    /\ sans_a = FALSE /\ slope = 0 /\ a_incr = 0
    /\ sol = Blank
    /\ cur_res = Garbage /\ reasons = {} /\ iter = 0
    /\ cost \in Costs /\ n_data \in DataSizes
    /\ fits = 0
    /\ least = Infinite /\ uphill = 0

\* A fit of the kind <sans_a> from <param_init>; the data may have changed.
\* Parameters that are not viable end the program.
BeginFit ==
    /\ pc \in {"idle", "answered"} /\ fits < MaxFits
    /\ fits' = fits + 1
    /\ \E k \in BOOLEAN, p \in Params, incr \in {0, 1} :
        /\ incr = 0 \/ k
        /\ sans_a' = k /\ a_incr' = incr
        /\ slope' = 0
        /\ fit' = [fit EXCEPT ![k] = InitFit(@, k, p)]
        /\ reasons' = CheckParams(k, p)
        /\ pc' = IF Viable(k, p) THEN "scan" ELSE "exit"
    /\ cur_res' = Garbage /\ iter' = 0
    /\ IF fits = 0 THEN UNCHANGED dataVars ELSE cost' \in Costs /\ n_data' \in DataSizes
    /\ sol' = Blank
    /\ least' = Infinite /\ uphill' = 0

ThisFit == fit[sans_a]

\* Add every data point; assert() that all are accepted.
AddDataPoints ==
    /\ pc = "scan"
    /\ \E r \in {cost[slope][ThisFit.parameters.at]} :
        IF r = BadDatum /\ n_data > 0
        THEN pc' = "abort" /\ UNCHANGED <<fit, least>>
        ELSE /\ pc' = "step"
             /\ fit' = [fit EXCEPT ![sans_a] = AddData(@, n_data, r)]
             /\ least' = IF r < least THEN r ELSE least
    /\ UNCHANGED <<kindVars, slope, sol, cur_res, reasons, iter, dataVars, fits, uphill>>

\* The check of the parameters is the last thing a step does, if it moves at all.
Checked(f, out) ==
    IF out.ec \in {Converged, Constrained} \/ out.fit.n_iteration > f.n_iteration
    THEN CheckParams(sans_a, out.fit.parameters) ELSE reasons

\* Whether a step tried before this one has helped.
Helped(f, out) == out.fit.n_iteration > 1 /\ out.fit.n_iteration > f.n_iteration
                      /\ f.res < f.res_last

ExhaustedLate == iter = MaxIter
Exhausted == iter + 1 = MaxIter

\* solve_1s(), and what solve_one() records of it.
Step ==
    /\ pc = "step"
    /\ \E out \in Solve1s(ThisFit, sans_a) :
        /\ fit' = [fit EXCEPT ![sans_a] = out.fit]
        /\ cur_res' = IF out.cur_res = Garbage THEN cur_res ELSE out.cur_res
        /\ reasons' = Checked(ThisFit, out)
        /\ sol' = [begin_res |-> IF iter = 0 THEN cur_res' ELSE sol.begin_res,
                   end_res |-> cur_res', ec |-> out.ec, pok_fail |-> reasons',
                   param_final |-> out.fit.parameters]
        /\ pc' = IF out.ec # GoesOn \/ Exhausted THEN "answered" ELSE "scan"
        /\ uphill' = CASE Uphill(ThisFit) -> uphill + 1
                       [] Helped(ThisFit, out) -> 0
                       [] OTHER -> uphill
    /\ slope' = IF slope + a_incr > MaxSlope THEN slope ELSE slope + a_incr
    /\ iter' = iter + 1
    /\ UNCHANGED <<kindVars, dataVars, fits, least>>

Next == BeginFit \/ AddDataPoints \/ Step

Spec == Init /\ [][Next]_vars

(***************************************************************************)
(* Properties                                                              *)
(***************************************************************************)
\* Every variable keeps its type: the states of a solver object, the codes
\* and reasons of an answer, iterations within the limit.
SolveTypeOK ==
    /\ pc \in {"idle", "scan", "step", "answered", "exit", "abort"}
    /\ fit \in [BOOLEAN -> Fit]
    /\ sans_a \in BOOLEAN /\ slope \in 0 .. MaxSlope /\ a_incr \in {0, 1}
    /\ sol \in [begin_res : Residual, end_res : Residual, ec : Codes,
                pok_fail : SUBSET Reasons, param_final : Params]
    /\ cur_res \in Residual /\ reasons \subseteq Reasons
    /\ iter \in 0 .. MaxIter /\ fits \in 0 .. MaxFits
    /\ cost \in Costs /\ n_data \in DataSizes

\* What the caller sees of an answer.  The reasons are those of the last
\* parameter check anywhere in the program; they must be those of this fit.
Answer ==
    IF pc = "answered"
    THEN [ec |-> sol.ec, reasons |-> sol.pok_fail,
          viable |-> Viable(sans_a, sol.param_final)]
    ELSE NoAnswer

Contract == INSTANCE FitContract WITH answer <- Answer

\* The fit implements its contract: its caller may conclude from reasons left
\* by the parameter check that this fit ended constrained, and from any other
\* end that the parameters are viable, although checks, refusals and retries
\* of earlier fits share the solver objects and the reasons
\* (param_recovery() asserts it).
KeepsContract == Contract!ContractSpec

\* A fit whose slope stays put, and that did not fail before its last step,
\* reports the least residual it has seen, and never more than it began with:
\* steps that made things worse were undone (solve_1s(), solve_one()).
Reported == pc = "answered" /\ a_incr = 0
EndResIsLeast ==
    /\ Reported /\ sol.ec \in {GoesOn, Converged, Constrained} => sol.end_res = least
    /\ Reported /\ sol.ec = Singular => sol.end_res <= sol.begin_res
    /\ Reported /\ sol.ec \in {OutOfOrder, TooFewData} => sol.end_res = Garbage

\* "Re-try limit (before giving up)" (nl_lsq_fit.h:34): a fit whose steps all
\* make things worse gives up once RetryLimit + 1 retries were in vain.
RetriesLimited == uphill <= RetryLimit + 2
=============================================================================
