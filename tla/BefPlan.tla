------------------------------ MODULE BefPlan ------------------------------
(***************************************************************************)
(* The plan of an ellipsoid run, bef_plan::finalise() (bef_plan.h): how    *)
(* many rays and shell probes a simulation budget buys.  The arithmetic is *)
(* that of an unsigned integer with Word values.                           *)
(***************************************************************************)
EXTENDS Integers

CONSTANTS
    Word,            \* 2^32 in the program
    DefaultShell     \* 600: the shell probes of a plan without any

ASSUME PlanAssumption == Word \in Nat \ {0} /\ DefaultShell \in Nat \ {0}

\* finalise() asserts it of its inputs; the budget is an unsigned integer.
PlanInput == [n_dim : Nat \ {0, 1}, n_iter : Nat \ {0, 1}, probes : Nat \ {0},
              sim_budget : 1 .. Word - 1]

AxisSims(in) == 2 * in.n_dim * in.probes
PerIteration(in) == in.sim_budget \div in.n_iter
Tight(in) == PerIteration(in) <= AxisSims(in)

\* When the budget is tight the rays along the axes take what they need, and
\* the shell searches share the rest.
ExtraRays(in) ==
    IF Tight(in) THEN 0 ELSE (PerIteration(in) - AxisSims(in)) \div in.probes
ShellProbes(in) ==
    IF Tight(in)
    THEN ((in.sim_budget - AxisSims(in)) % Word) \div (in.n_iter - 1)
    ELSE PerIteration(in)

Finalise(in) == [n_extra_rays |-> ExtraRays(in), n_shell_probes |-> ShellProbes(in)]

\* run() takes a plan without shell probes for one that was not made.
ShellProbesRun(p) == IF p.n_shell_probes > 0 THEN p.n_shell_probes ELSE DefaultShell

\* What finalise() sets aside for the rays of iteration 0, and all it shares out:
\* those rays and a shell search in each other iteration.  This is the plan's
\* own account, not what is simulated: run() makes the shell searches only, and
\* the rays were made by the constructor, with numbers of its own.
RayShare(in) == AxisSims(in) + ExtraRays(in) * in.probes
PlannedSims(in) == RayShare(in) + ShellProbesRun(Finalise(in)) * (in.n_iter - 1)
=============================================================================
