----------------------------- MODULE BeamSearch -----------------------------
(***************************************************************************)
(* The ellipsoid run, bin_ellipsoid_fit::run(): rounds of exploring the    *)
(* shell of the current ellipsoid, filtering the points, and fitting a new *)
(* ellipsoid with a beam of solutions (binary_ellipsoid_fit.cpp).          *)
(*                                                                         *)
(* A fit is an answer of FitContract.tla with a residual and the place its *)
(* parameters ended at, which decides whether two solutions are the same.  *)
(* The points are counted by kind; which of them a filter picks is left    *)
(* open.  What repairing refused parameters achieves depends on the        *)
(* reason: some repairs always help, some cannot, others may.              *)
(***************************************************************************)
EXTENDS BefPlan, FitCodes, Sequences, FiniteSets, SequencesExt

CONSTANTS
    Landings,      \* how a fit may end: [ec, reasons, res, at]
    Explored,      \* points the constructor may find: [pass, fail, cut]
    MinPasses,     \* n_dim + 2
    NBest,         \* n_best_solutions
    Spare,         \* places kept free for derived solutions
    Derive,        \* solutions others are derived from
    MaxLevel,      \* the slopes of fits sans a: 1 .. MaxLevel, 0 is none
    Outlier,       \* one point in Outlier is rejected: 1 / outlier_frac
    WallPoints,    \* points a wall is built of
    PlanInputs,    \* the plans tried
    MaxShell       \* bound: plans with more shell probes are not run

ASSUME BeamAssumption ==
    /\ \A l \in Landings : /\ l.ec \in Codes /\ l.reasons \subseteq Reasons
                           /\ (l.reasons # {}) <=> (l.ec = Constrained)
                           /\ l.res \in Nat
    /\ NBest \in Nat /\ Spare \in 0 .. NBest - 1 /\ Derive \in Nat
    /\ MaxLevel \in Nat \ {0} /\ Outlier \in Nat \ {0}
    /\ PlanInputs \subseteq PlanInput
    /\ Explored \subseteq [pass : Nat, fail : Nat, cut : Nat]
    /\ MinPasses \in Nat /\ WallPoints \in Nat

VARIABLES
    pc,            \* what the run does next
    input, plan,   \* the plan and what it was made from
    center_only,   \* the build: _POK_ELLIPSOID_CENTER_ONLY_
    round,         \* iteration of run()
    points,        \* exp_pnts: [pass, fail, cut, synth] and, of the passes,
                   \* those rejected as outliers or as not convex
    solutions,     \* the beam
    next, other,   \* the solution solve() is at, and the one that
                   \* de_duplicate() compares it with
    n_sol,         \* solutions that need not be solved again, and
    n_data,        \* points when solve() began to derive: 0 when it does not
    n_ctor_sims_,  \* points when the constructor was done
    ellipsoid,     \* e_params: the reasons to refuse its shape, and, until
                   \* its shell is searched, how it was chosen
    why            \* why the program stopped early, or ""

vars == <<pc, input, plan, center_only, n_ctor_sims_, round, points, solutions, next, other,
          n_sol, n_data, ellipsoid, why>>
planVars == <<input, plan, center_only, n_ctor_sims_>>
locals == <<n_sol, n_data>>

Size(p) == p.pass + p.fail + p.cut + p.synth
Simulated(p) == p.pass + p.fail + p.cut
Sans(s) == s.a_init > 0

\* Both builds report the escape of the ellipsoid, each in its own way.
Reported(reasons) == reasons \cap {IF center_only THEN "f_escape" ELSE "cntr_esc"} = {}

Blank(a_init, a_incr, start) ==
    [a_init |-> a_init, a_incr |-> a_incr, start |-> start,
     ec |-> GoesOn, reasons |-> {}, res |-> 0, at |-> 0]

(***************************************************************************)
(* Construction and the plan                                               *)
(***************************************************************************)
\* The rays of explore() leave that many points of each kind.
Explore(e) == [pass |-> e.pass, fail |-> e.fail, cut |-> e.cut, synth |-> 0,
               outlier |-> 0, convexified |-> 0]

\* The foci of the first estimate are half the extent of the passing points
\* apart, which may be too close.
Estimates == {[shape |-> shape, from |-> 0, res |-> 0] : shape \in {{}, {"f_merge"}}}

Init ==
    /\ \E e \in Explored :
        /\ points = Explore(e)
        /\ IF e.pass < MinPasses THEN pc = "stopped" /\ why = "few points"
                                 ELSE pc = "plan" /\ why = ""
    /\ input \in PlanInputs /\ plan = Finalise(input)
    /\ center_only \in BOOLEAN
    /\ n_ctor_sims_ = Size(points)
    /\ round = 0 /\ solutions = <<>> /\ next = 1 /\ other = 2 /\ n_sol = 0 /\ n_data = 0
    /\ ellipsoid \in Estimates

\* run() begins with the plan.
BeginRun ==
    /\ pc = "plan" /\ ShellProbesRun(plan) <= MaxShell
    /\ pc' = "solve"
    /\ UNCHANGED <<planVars, round, points, solutions, next, other, locals, ellipsoid, why>>

Stop(reason) == pc' = "stopped" /\ why' = reason

(***************************************************************************)
(* solve()                                                                 *)
(***************************************************************************)
\* The first time there are three ways to start: with the slope, without it,
\* and without it but growing.
Protos == <<Blank(0, 0, ellipsoid.shape), Blank(1, 0, ellipsoid.shape),
            Blank(1, 1, ellipsoid.shape)>>

BeginSolve ==
    /\ pc = "solve"
    /\ solutions' = IF solutions = <<>> THEN Protos ELSE solutions
    /\ next' = 1 /\ pc' = "fit"
    /\ UNCHANGED <<planVars, round, points, other, locals, ellipsoid, why>>

\* The check of bef_param_ok() where bef_param_ok_sa() belongs.
LandingsChecked(s) == {l \in Landings : Reported(l.reasons)}
LandingsOf(s) == {l \in Landings : /\ Reported(l.reasons)
                                   /\ Sans(s) => l.reasons \cap SlopeReasons = {}}

Landed(s, l) == [s EXCEPT !.ec = l.ec, !.reasons = l.reasons, !.res = l.res, !.at = l.at]

\* solve_one(): parameters that are not viable to start from end the program.
FitOne ==
    /\ pc \in {"fit", "refit"} /\ next <= Len(solutions)
    /\ IF solutions[next].start # {}
       THEN Stop("bad start") /\ UNCHANGED <<solutions, next>>
       ELSE /\ \E l \in LandingsOf(solutions[next]) :
                 solutions' = [solutions EXCEPT ![next] = Landed(@, l)]
            /\ next' = next + 1
            /\ UNCHANGED <<pc, why>>
    /\ UNCHANGED <<planVars, round, points, other, locals, ellipsoid>>

\* solution_key(): the residual decides, however the fit ended.
Precedes(s, t) == s.res < t.res
KeptSpareless(s) == SubSeq(s, 1, IF Len(s) > NBest THEN NBest ELSE Len(s))
KeptOf(s) == SubSeq(s, 1, IF Len(s) > NBest - Spare THEN NBest - Spare ELSE Len(s))

\* What qsort() may leave: it keeps no order among equals.
Sortings(s) ==
    {[i \in DOMAIN s |-> s[p[i]]] : p \in
        {p \in Bijection(DOMAIN s, DOMAIN s) :
            \A i, j \in DOMAIN s : i < j => ~Precedes(s[p[j]], s[p[i]])}}

\* Sort the solutions and drop the worst to make room.
Prune ==
    /\ pc = "fit" /\ next > Len(solutions)
    /\ \E ss \in Sortings(solutions) :
        /\ solutions' = KeptOf(ss)
        /\ n_sol' = Len(KeptOf(ss))
    /\ n_data' = Size(points)
    /\ next' = 1 /\ pc' = "derive"
    /\ UNCHANGED <<planVars, round, points, other, ellipsoid, why>>

(***************************************************************************)
(* derive_solution() and param_recovery()                                  *)
(***************************************************************************)
\* The slopes tried from one solution; only those sans a are varied.
LevelsOf(s) ==
    IF ~Sans(s) THEN <<0>>
    ELSE <<s.a_init>> \o (IF s.a_init < MaxLevel THEN <<s.a_init + 1>> ELSE <<>>)
                      \o (IF s.a_init > 1 THEN <<s.a_init - 1>> ELSE <<>>)

Variants(s, start) == [i \in DOMAIN LevelsOf(s) |-> Blank(LevelsOf(s)[i], s.a_incr, start)]

\* Resetting the slope, the scale factors or the focal sum always helps; moving
\* the foci may lead into another refusal; several reasons at once are not handled.
AlwaysFixed(reasons) == reasons \subseteq SlopeReasons \/ reasons \in {{"scale"}, {"fs2small"}}
SometimesFixed(reasons) == reasons \in {{"f_escape"}, {"cntr_esc"}, {"f_merge"}}

\* What recovering leads to: parameters to start from, or none.
Recovers(reasons) == reasons = {} \/ AlwaysFixed(reasons) \/ SometimesFixed(reasons)
MayNotRecover(reasons) == ~AlwaysFixed(reasons) /\ reasons # {}

\* param_recovery() asserts that the parameters were refused by the fit, and
\* that a slope was refused only where it was fitted.
RecoveryAsserts(s) == s.reasons # {} => /\ s.ec = Constrained
                                        /\ s.reasons \subseteq SlopeReasons => ~Sans(s)

\* A wall of failing points against the escape of a single focus, built again
\* for each of the n variants; it may turn out impossible.
WithWall(reasons, n) ==
    IF reasons = {"f_escape"}
    THEN {points, [points EXCEPT !.synth = @ + n * WallPoints]} ELSE {points}

\* The solution is a reference into the vector that grows: once the vector has
\* moved, the slope of the next variant is read from freed memory and, out of
\* range, drops the variants left.
DeriveOne ==
    /\ pc = "derive" /\ next <= Derive /\ next <= n_sol
    /\ \E s \in {solutions[next]} :
        IF ~RecoveryAsserts(s)
        THEN Stop("assert") /\ UNCHANGED <<solutions, points, next>>
        ELSE /\ \/ /\ Recovers(s.reasons)
                   /\ \E n \in DOMAIN LevelsOf(s) :
                        /\ solutions' = solutions \o SubSeq(Variants(s, {}), 1, n)
                        /\ points' \in WithWall(s.reasons, n)
                \/ /\ MayNotRecover(s.reasons)
                   /\ points' \in WithWall(s.reasons, 1)
                   /\ UNCHANGED solutions
             /\ next' = next + 1
             /\ UNCHANGED <<pc, why>>
    /\ UNCHANGED <<planVars, round, other, locals, ellipsoid>>

\* New points mean that every solution is fitted again, not only the new ones.
EndDerive ==
    /\ pc = "derive" /\ (next > Derive \/ next > n_sol)
    /\ next' = 1 + (IF Size(points) > n_data THEN 0 ELSE n_sol)
    /\ n_sol' = 0 /\ n_data' = 0
    /\ pc' = "refit"
    /\ UNCHANGED <<planVars, round, points, solutions, other, ellipsoid, why>>

(***************************************************************************)
(* De-duplication and the choice of the next ellipsoid                     *)
(***************************************************************************)
Same(s, t) == Sans(s) = Sans(t) /\ s.at = t.at

BeginDeduplicate ==
    /\ pc = "refit" /\ next > Len(solutions)
    /\ next' = 1 /\ other' = 2 /\ pc' = "dedup"
    /\ UNCHANGED <<planVars, round, points, solutions, locals, ellipsoid, why>>

\* One comparison of de_duplicate(): erasing a solution moves the next one to
\* its place, and the comparison goes on behind it.
Compare ==
    /\ pc = "dedup" /\ next < Len(solutions)
    /\ solutions' = IF Same(solutions[next], solutions[other])
                    THEN RemoveAt(solutions, other) ELSE solutions
    /\ IF other < Len(solutions')
       THEN next' = next /\ other' = other + 1
       ELSE next' = next + 1 /\ other' = next + 2
    /\ UNCHANGED <<pc, planVars, round, points, locals, ellipsoid, why>>

\* A solution within 10 % of the best that needs no repair is looked for, but
\* the limit is 1.1 times <s_sel>, which is still the mark for none.
NoneYet == -1
WithinLimit(s) == 10 * s.res <= 11 * NoneYet
CleanChoices(ss) ==
    {i \in DOMAIN ss : ss[i].ec >= GoesOn /\ \A k \in 1 .. i : WithinLimit(ss[k])}

\* The reasons min_param_recovery() finds: <a_incr> tells it whether there is a
\* slope, so that a fit sans a with a fixed slope shows one that was never set.
Found(s) ==
    IF Sans(s) /\ s.a_incr = 0
    THEN {s.reasons \cup a : a \in {{}, {"min_a"}, {"max_a"}}}
    ELSE {s.reasons}

\* Its least repair of a focal sum leaves it below the excess it must have.
AlwaysRepaired(r) == r \subseteq SlopeReasons \/ r \in {{"scale"}, {"cntr_esc"}}
SometimesRepaired(r) == r \in {{"f_escape"}, {"f_merge"}}
MayRepair(s) == \E r \in Found(s) : AlwaysRepaired(r) \/ SometimesRepaired(r)
MayNotRepair(s) == \E r \in Found(s) : ~AlwaysRepaired(r)

RepairAny(ss) == {i \in DOMAIN ss : MayRepair(ss[i])}

\* The first solution that can be repaired; without one the program ends.
RepairChoices(ss) == {i \in DOMAIN ss : MayRepair(ss[i]) /\ \A k \in 1 .. i - 1 : MayNotRepair(ss[k])}

Chosen(ss) ==
    IF CleanChoices(ss) # {} THEN {CHOOSE i \in CleanChoices(ss) : \A k \in CleanChoices(ss) : i <= k}
                             ELSE RepairChoices(ss)

Select ==
    /\ pc = "dedup" /\ next >= Len(solutions)
    /\ \E ss \in Sortings(solutions) :
        /\ solutions' = ss
        /\ \/ \E i \in Chosen(ss) :
                /\ ellipsoid' = [shape |-> {}, from |-> i, res |-> ss[i].res]
                /\ pc' = "selected"
                /\ UNCHANGED why
           \/ /\ CleanChoices(ss) = {} /\ \A i \in DOMAIN ss : MayNotRepair(ss[i])
              /\ Stop("no solution")
              /\ UNCHANGED ellipsoid
    /\ next' = 1 /\ other' = 2
    /\ UNCHANGED <<planVars, round, points, locals>>

(***************************************************************************)
(* The next round of run()                                                 *)
(***************************************************************************)
\* e_shell_search(): each probe beyond the parameter space is a failing point
\* without a simulation; each other is simulated, or found in the cache.  The
\* rays from its center must meet the ellipsoid and the parameter space.
ShellCountsOneMore(n) ==
    {c \in [synth : 0 .. n + 1, pass : 0 .. n + 1, fail : 0 .. n + 1] :
        c.synth + c.pass + c.fail <= n + 1}
ShellCounts(n) ==
    {c \in [synth : 0 .. n, pass : 0 .. n, fail : 0 .. n] : c.synth + c.pass + c.fail <= n}

SearchShell ==
    /\ pc = "selected" /\ round + 1 < input.n_iter
    /\ IF ellipsoid.shape # {}
       THEN Stop("assert") /\ UNCHANGED <<round, points, ellipsoid>>
       ELSE /\ \E c \in ShellCounts(ShellProbesRun(plan)) :
                points' = [points EXCEPT !.synth = @ + c.synth, !.pass = @ + c.pass,
                                         !.fail = @ + c.fail]
            /\ round' = round + 1
            /\ ellipsoid' = [ellipsoid EXCEPT !.from = 0, !.res = 0]
            /\ pc' = "filter"
            /\ UNCHANGED why
    /\ UNCHANGED <<planVars, solutions, next, other, locals>>

\* reject_outliers(): that share of all points, taken from the simulated passes,
\* of which there have to be more.
NOut(p) == Size(p) \div Outlier
Rejected(p) == IF NOut(p) < 1 THEN p ELSE [p EXCEPT !.outlier = NOut(p)]

\* hp_filter(), from the third round on: passes on the far side of a failing
\* point are not used.
Convexified(p) ==
    IF round <= 1 THEN {p}
    ELSE {[p EXCEPT !.convexified = c] : c \in IF p.fail = 0 THEN {0} ELSE 0 .. p.pass}

Filter ==
    /\ pc = "filter"
    /\ IF NOut(points) >= 1 /\ points.pass <= NOut(points)
       THEN Stop("assert") /\ UNCHANGED points
       ELSE /\ points' \in Convexified(Rejected(points))
            /\ pc' = "solve"
            /\ UNCHANGED why
    /\ UNCHANGED <<planVars, round, solutions, next, other, locals, ellipsoid>>

\* print_results() intersects the ellipsoid with the axes.
Report ==
    /\ pc = "selected" /\ round + 1 = input.n_iter
    /\ IF ellipsoid.shape # {} THEN Stop("assert") ELSE pc' = "done" /\ UNCHANGED why
    /\ UNCHANGED <<planVars, round, points, solutions, next, other, locals, ellipsoid>>

Next ==
    \/ BeginRun \/ BeginSolve \/ FitOne \/ Prune \/ DeriveOne \/ EndDerive
    \/ BeginDeduplicate \/ Compare \/ Select \/ SearchShell \/ Filter \/ Report

Spec == Init /\ [][Next]_vars

(***************************************************************************)
(* Properties                                                              *)
(***************************************************************************)
Solution == [a_init : 0 .. MaxLevel, a_incr : 0 .. 1, start : SUBSET Reasons, ec : Codes,
             reasons : SUBSET Reasons, res : Nat, at : {0} \cup {l.at : l \in Landings}]
PointCounts == [pass : Nat, fail : Nat, cut : Nat, synth : Nat, outlier : Nat, convexified : Nat]

\* A level, the next one and the one before.
MostVariants == IF MaxLevel < 3 THEN MaxLevel ELSE 3

\* Every variable keeps its type, the beam its bound once the three first
\* solutions are pruned, and the points rejected as outliers or as not convex
\* are among the passing ones.
BeamTypeOK ==
    /\ pc \in {"plan", "solve", "fit", "derive", "refit", "dedup", "selected",
               "filter", "done", "stopped"}
    /\ input \in PlanInputs /\ plan = Finalise(input)
    /\ center_only \in BOOLEAN /\ n_ctor_sims_ \in Nat /\ round \in 0 .. input.n_iter - 1
    /\ solutions \in Seq(Solution)
    /\ \/ Len(solutions) <= NBest - Spare + MostVariants * Derive
       \/ round = 0 /\ Len(solutions) = 3
    /\ next \in Nat \ {0} /\ other \in Nat \ {0} /\ n_sol \in Nat /\ n_data \in Nat
    /\ points \in PointCounts
    /\ points.outlier <= points.pass /\ points.convexified <= points.pass
    /\ ellipsoid \in [shape : {{}, {"f_merge"}}, from : Nat, res : Nat]
    /\ why \in {"", "few points", "bad start", "no solution", "assert"}

\* "Starting points must pass" the parameter check (derive_solution()): only
\* the first estimate can be refused, and the assertions of the recovery and
\* of the shell search hold, except that passing points may become too few.
StartsViable ==
    /\ why = "bad start" => round = 0 /\ pc = "stopped" /\ Len(solutions) = 3
    /\ why = "assert" => points.pass <= NOut(points)
    /\ \A i \in DOMAIN solutions : solutions[i].start # {} => round = 0

\* The ellipsoid a round hands to the next one is viable, and no solution that
\* is viable without repair fits better (solve()).
ChoiceIsBest ==
    pc = "selected" =>
        /\ ellipsoid.shape = {}
        /\ \A i \in DOMAIN solutions : solutions[i].reasons = {} =>
               ellipsoid.res <= solutions[i].res

\* What run() simulates, its shell searches, leaves of the budget what finalise()
\* set aside for the rays, in every round and however many probes are found in
\* the cache or beyond the parameters, if the budget has a shell probe for each
\* round.  The rays themselves are the constructor's, which knows no plan.
ShellsWithinBudget ==
    AxisSims(input) + input.n_iter - 1 <= input.sim_budget =>
        Simulated(points) - n_ctor_sims_ + RayShare(input) <= input.sim_budget

\* "Found a good solution that does not need fixing" (solve()): one within 10 %
\* of the best is preferred to a better one that has to be repaired.
CleanNearBest(s) == s.ec >= GoesOn /\ 10 * s.res <= 11 * solutions[1].res
PrefersClean ==
    pc = "selected" /\ (\E i \in DOMAIN solutions : CleanNearBest(solutions[i]))
        => solutions[ellipsoid.from].ec >= GoesOn
=============================================================================
