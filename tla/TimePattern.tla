---------------------------- MODULE TimePattern ----------------------------
(***************************************************************************)
(* Time patterns (class time_pattern of nodes_of_interest.cpp): the times  *)
(* <<t0, t1, ...>> of a pattern say that no event is expected before t0,   *)
(* one in [t0, t1), none in [t1, t2), and so on.                           *)
(*                                                                         *)
(* An event happens at a time that need not be a whole number of rows: it  *)
(* is [num, den], with den = 0 for a NaN.  This module is a library of     *)
(* operators; PulseSearch takes their steps.                               *)
(***************************************************************************)
EXTENDS Integers, Sequences, FiniteSets, SequencesExt

NaN == [num |-> 0, den |-> 0]
Forever == 10000   \* __DBL_MAX__: later than any event

\* Comparisons with a NaN are false.
Before(event, t) == event.den > 0 /\ event.num < t * event.den
NotBefore(event, t) == event.den > 0 /\ event.num >= t * event.den
Earlier(e, f) == e.den > 0 /\ f.den > 0 /\ e.num * f.den < f.num * e.den

(***************************************************************************)
(* get_times(): an entry is [dt, is_relative]; dt < 0 also stands for an   *)
(* expression without a value.  A time that would not increase is skipped, *)
(* but later deltas count from it.                                         *)
(***************************************************************************)
AddTimeUnchecked(acc, te) ==
    IF te.dt < 0 THEN acc
    ELSE LET t == IF te.is_relative THEN acc.t_abs + te.dt ELSE te.dt
         IN  [t_abs |-> t, result |-> Append(acc.result, t)]
AddTime(acc, te) ==
    IF te.dt < 0 THEN acc
    ELSE LET t == IF te.is_relative THEN acc.t_abs + te.dt ELSE te.dt
             skip == acc.result # <<>> /\ t <= Last(acc.result)
         IN  [t_abs |-> t, result |-> IF skip THEN acc.result ELSE Append(acc.result, t)]

GetTimes(time_exprs) ==
    LET acc[n \in 0 .. Len(time_exprs)] ==
            IF n = 0 THEN [t_abs |-> 0, result |-> <<>>]
            ELSE AddTime(acc[n - 1], time_exprs[n])
    IN  acc[Len(time_exprs)].result

(***************************************************************************)
(* cnt_missmatches(), one interval [tn, tnp1) at a time.  ec is the number *)
(* of events taken so far; the last of them may lie beyond the interval.   *)
(***************************************************************************)
\* The event at which the interval stops taking: the first one that is not
\* before its end, or the last of all.
StopAt(events, ec, tnp1) ==
    IF ec > 0 /\ NotBefore(events[ec], tnp1) THEN ec
    ELSE LET later == {k \in ec + 1 .. Len(events) : ~Before(events[k], tnp1)}
         IN  IF later = {} THEN Len(events)
             ELSE CHOOSE k \in later : \A j \in later : k <= j

CountIn(events, ec, tn, tnp1) ==
    Cardinality({k \in ec .. StopAt(events, ec, tnp1) :
                    k > 0 /\ NotBefore(events[k], tn) /\ Before(events[k], tnp1)})

\* For reference: the intervals of a pattern, and those in which the number
\* of events is not the one expected (0 in the first, 1 in the next, ...).
Mismatches(events, times) ==
    LET bounds == IF times = <<>> THEN <<Forever>> ELSE times
        start(n) == IF n = 1 THEN 0 ELSE bounds[n - 1]
        inside(n) == {k \in DOMAIN events :
                         NotBefore(events[k], start(n)) /\ Before(events[k], bounds[n])}
    IN  Cardinality({n \in DOMAIN bounds : Cardinality(inside(n)) # (n + 1) % 2})
=============================================================================
