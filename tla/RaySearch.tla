----------------------------- MODULE RaySearch -----------------------------
(***************************************************************************)
(* One ray of the binary-ellipsoid fit (ray_search() and its recursive     *)
(* probes ray_search_mode0() and ray_search_mode1() of                     *)
(* binary_ellipsoid_fit.cpp): from an interior point that passes, the ray  *)
(* is probed for the boundary of the pass region.                          *)
(*                                                                         *)
(* A point of the ray is an integer 0..Length, the fraction of the ray in  *)
(* the code.  The recursion is a stack of searches still to be made.  A    *)
(* probe is simulated and recorded, or answered by the evaluation cache,   *)
(* which records nothing.  Any point may pass or fail: the pass region     *)
(* need not be convex.                                                     *)
(***************************************************************************)
EXTENDS Integers, Sequences, FiniteSets

CONSTANTS
    Length,   \* the end of the ray
    NProbes   \* n_probes_p_ray

ASSUME RayAssumption == Length \in Nat \ {0} /\ NProbes \in Nat \ {0}

\* A stretch that n probes divide without rounding any part of it to nothing.
Room[n \in 0 .. NProbes] == IF n = 0 THEN 1 ELSE (n + 2) * Room[n - 1]

\* The fractions are doubles in the code: the integers of the model have to be
\* as fine as the divisions that NProbes probes can make.
ASSUME FineAssumption == Length >= (NProbes + 1) * Room[NProbes]

VARIABLES
    pc,      \* "end_point", "search", "squash" or "done"
    stack,   \* the searches to make, the current one last:
             \*   [mode, ds, de, n, owed]; de is the next probe in mode 1
    probed,  \* history: <<position, passed>> of each point evaluated
    points,  \* exp_pnts of this ray: [at, value, squashed]
    probes   \* history: points evaluated after the end point

vars == <<pc, stack, probed, points, probes>>

Init ==
    /\ pc = "end_point"
    /\ stack = <<>>
    /\ probed = {<<0, TRUE>>}
    /\ points = {} /\ probes = 0

\* eval_pnt(): the point is in the cache, or it is simulated and recorded.
EvalPnt(at, passed, squashed) ==
    /\ probed' = probed \cup {<<at, passed>>}
    /\ \/ UNCHANGED points
       \/ points' = points \cup
             {[at |-> at, value |-> passed /\ ~squashed, squashed |-> squashed]}

(***************************************************************************)
(* The stack.  "owed" is a history: an upper bound on the probes that the  *)
(* searches below this one may still make.                                 *)
(***************************************************************************)
Search == stack[Len(stack)]
Below == SubSeq(stack, 1, Len(stack) - 1)

MostProbes(f) == IF f.mode = 0 THEN 2 * f.n - 1 ELSE 2 * f.n

Mode0(ds, de, n, owed) == [mode |-> 0, ds |-> ds, de |-> de, n |-> n, owed |-> owed]
\* Mode 1 spreads n probes evenly between ds and de.
Mode1(ds, de, n, owed) ==
    [mode |-> 1, ds |-> ds, de |-> ds + (de - ds) \div (n + 1), n |-> n, owed |-> owed]

EndPoint(passed) ==
    /\ pc = "end_point"
    /\ EvalPnt(Length, passed, passed)
    /\ stack' = << IF passed THEN Mode1(0, Length, NProbes, 0)
                             ELSE Mode0(0, Length, NProbes, 0) >>
    /\ pc' = "search"
    /\ UNCHANGED probes

Middle(f) == (f.ds + f.de) \div 2

\* After a pass: half of the rest to the outer part, then the other half,
\* evenly, to the inner part.
InnerFirst(f) ==
    LET rest == f.n - 1
        outer == (rest + 1) \div 2
    IN  IF rest = 0 THEN Below
        ELSE IF rest = outer
        THEN Append(Below, Mode0(f.ds, Middle(f), outer, f.owed))
        ELSE Append(Append(Below, Mode1(Middle(f), f.de, rest - outer, f.owed)),
                    Mode0(f.ds, Middle(f), outer, f.owed + 2 * (rest - outer)))
OuterFirst(f) ==
    LET rest == f.n - 1
        outer == (rest + 1) \div 2
    IN  IF rest = 0 THEN Below
        ELSE IF rest = outer
        THEN Append(Below, Mode0(Middle(f), f.de, outer, f.owed))
        ELSE Append(Append(Below, Mode1(f.ds, Middle(f), rest - outer, f.owed)),
                    Mode0(Middle(f), f.de, outer, f.owed + 2 * (rest - outer)))

InnerOnlyAlways(f) == Append(Below, Mode0(f.ds, Middle(f), f.n \div 2, f.owed))
\* After a fail: half of the rest to the inner part; nothing further out.
InnerOnly(f) ==
    IF f.n = 1 THEN Below
    ELSE Append(Below, Mode0(f.ds, Middle(f), f.n \div 2, f.owed))

SearchMode0(passed) ==
    /\ pc = "search" /\ stack # <<>> /\ Search.mode = 0
    /\ EvalPnt(Middle(Search), passed, FALSE)
    /\ stack' = IF passed THEN OuterFirst(Search) ELSE InnerOnly(Search)
    /\ probes' = probes + 1
    /\ UNCHANGED pc

NextProbeUncounted(f) ==
    IF f.n = 1 THEN Below
    ELSE Append(Below, [f EXCEPT !.ds = f.de, !.de = f.de + (f.de - f.ds)])
\* One more probe further out.
NextProbe(f) ==
    IF f.n = 1 THEN Below
    ELSE Append(Below, [f EXCEPT !.ds = f.de, !.de = f.de + (f.de - f.ds), !.n = @ - 1])

\* An interior fail: the rest of the budget, this probe included, locates the
\* boundary in front of it.
SearchFromOrigin(f) == Append(Below, Mode0(0, f.de, f.n, f.owed))
SearchInFront(f) == Append(Below, Mode0(f.ds, f.de, f.n, f.owed))

SearchMode1(passed) ==
    /\ pc = "search" /\ stack # <<>> /\ Search.mode = 1
    /\ EvalPnt(Search.de, passed, FALSE)
    /\ stack' = IF passed THEN NextProbe(Search) ELSE SearchInFront(Search)
    /\ probes' = probes + 1
    /\ UNCHANGED pc

SearchEnds ==
    /\ pc = "search" /\ stack = <<>>
    /\ pc' = "squash"
    /\ UNCHANGED <<stack, probed, points, probes>>

\* A pass beyond the closest fail is squashed.
Squashed(p) == [p EXCEPT !.value = FALSE, !.squashed = TRUE]
BeyondAllFails(p) ==
    /\ \E q \in points : ~q.value
    /\ \A q \in points : ~q.value => q.at <= p.at
BeyondFail(p) == \E q \in points : ~q.value /\ q.at <= p.at
Squash ==
    /\ pc = "squash"
    /\ points' = {IF p.value /\ BeyondFail(p) THEN Squashed(p) ELSE p : p \in points}
    /\ pc' = "done"
    /\ UNCHANGED <<stack, probed, probes>>

Ended == pc = "done" /\ UNCHANGED vars

Next ==
    \/ \E passed \in BOOLEAN :
          EndPoint(passed) \/ SearchMode0(passed) \/ SearchMode1(passed)
    \/ SearchEnds
    \/ Squash
    \/ Ended

Spec == Init /\ [][Next]_vars /\ WF_vars(Next)

(***************************************************************************)
(* Properties                                                              *)
(***************************************************************************)
Frames == [mode : {0, 1}, ds : Int, de : Int, n : Nat \ {0}, owed : Nat]

RayTypeOK ==
    /\ pc \in {"end_point", "search", "squash", "done"}
    /\ stack \in Seq(Frames)
    /\ probed \subseteq Int \X BOOLEAN
    /\ points \subseteq [at : Int, value : BOOLEAN, squashed : BOOLEAN]
    /\ probes \in Nat

\* A binary search is only ever made between a point known to pass and a
\* point further out known to fail, and an even search only starts at a point
\* known to pass: no search looks for the boundary where it is not.
Bracketed ==
    \A i \in 1 .. Len(stack) :
        /\ <<stack[i].ds, TRUE>> \in probed
        /\ stack[i].mode = 0 => <<stack[i].de, FALSE>> \in probed

\* assert((n_probes > 0) && (ds < de) && (ds >= 0) && (de <= 1.0)), for the
\* searches still to be made as well.
AssertsHold ==
    \A i \in 1 .. Len(stack) :
        stack[i].ds >= 0 /\ stack[i].ds < stack[i].de /\ stack[i].de <= Length

\* However the recursion divides the ray, no position is probed twice.
ProbesDiffer == pc # "end_point" => Cardinality(probed) = probes + 2

\* The recursion divides the ray without an empty stretch or a repetition.
RayDivided == AssertsHold /\ ProbesDiffer

\* The searches may probe more often than NProbes, the "simulation budget per
\* ray" of bef_plan.h:89, but never more than twice as often.
ProbesBounded == probes <= 2 * NProbes

\* Beyond a simulated fail of this ray nothing counts as a pass, and no pass
\* is given up that the pass region, were it convex, could contain: with the
\* end of the ray taken as a fail, there is one transition from pass to fail.
OneTransition ==
    pc = "done" =>
        \A p \in points :
            <<p.at, TRUE>> \in probed =>
                (p.value <=> \A q \in points :
                    (<<q.at, FALSE>> \in probed \/ q.at = Length) => p.at < q.at)
=============================================================================
