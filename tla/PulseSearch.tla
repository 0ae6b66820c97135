---------------------------- MODULE PulseSearch ----------------------------
(***************************************************************************)
(* The search of a column of results for pulses (class time_series and the *)
(* callbacks of nodes_of_interest.cpp): peaks of a voltage, found with a   *)
(* threshold, a hysteresis and the fit of a parabola, and edges of a       *)
(* phase, found as a change within a window that is then widened.  The     *)
(* events found are matched against a time pattern.                        *)
(*                                                                         *)
(* Rows are numbered from 0 and one unit of time apart, starting at 0.     *)
(* Values are integers.  The polynomial fit of an edge is external: it     *)
(* yields any position inside the window, or fails.                        *)
(***************************************************************************)
EXTENDS TimePattern

CONSTANTS
    Values,     \* the values of a row
    MaxRows,    \* bound on the number of rows
    Window,     \* d_win: the rows an edge may take
    MinChange,  \* min_chg: the change that makes an edge
    Patterns    \* sequences of time expressions

ASSUME PulseAssumption ==
    /\ Values \subseteq Int /\ MaxRows \in Nat
    /\ Window \in Nat \ {0} /\ MinChange \in Nat \ {0}
    /\ Patterns \subseteq Seq([dt : Int, is_relative : BOOLEAN])

VARIABLES
    pc,
    data,      \* the rows of the column
    kind,      \* "peaks" or "edges": what is searched
    from,      \* where the search goes on: i, or imin
    win,       \* of the edge being located: [bgn, end, rising]
    found,     \* what was found: [bgn, end, rising, time]
    lost,      \* history: a peak was there but could not be located
    events,    \* times of the events that are matched
    times,     \* the pattern they are matched against
    ic, ec,    \* its intervals and the events used up
    n_mismatches

rows == <<data, kind>>
matching == <<events, times, ic, ec, n_mismatches>>
vars == <<pc, rows, from, win, found, lost, matching>>

At(k) == data[k + 1]
To == Len(data) - 1
Abs(n) == IF n < 0 THEN -n ELSE n
FirstOf(S) == {k \in S : \A j \in S : k <= j}
Greatest(S) == CHOOSE k \in S : \A j \in S : j <= k

NoWindow == [bgn |-> 0, end |-> 0, rising |-> FALSE]

Init ==
    /\ pc = "collect" /\ data = <<>> /\ kind = "none"
    /\ from = 0 /\ win = NoWindow /\ found = <<>> /\ lost = FALSE
    /\ events = <<>> /\ times = <<>> /\ ic = 0 /\ ec = 0 /\ n_mismatches = 0

AddDatum(v) ==
    /\ pc = "collect" /\ Len(data) < MaxRows
    /\ data' = Append(data, v)
    /\ UNCHANGED <<pc, kind, from, win, found, lost, matching>>

Search(k) ==
    /\ pc = "collect"
    /\ kind' = k
    /\ pc' = "search"
    /\ UNCHANGED <<data, from, win, found, lost, matching>>

\* assert(from < to) of either search.
Abort ==
    /\ pc = "search" /\ from >= To
    /\ pc' = "aborted"
    /\ UNCHANGED <<rows, from, win, found, lost, matching>>

(***************************************************************************)
(* Peaks                                                                   *)
(***************************************************************************)
Maximum == Greatest({data[k] : k \in DOMAIN data})
\* threshold_frac and threshold_hyst are 0.6 and 0.01 of the maximum.
AboveThreshold(k) == 100 * At(k) >= 60 * Maximum
High(k) == 100 * At(k) >= 61 * Maximum
Low(k) == 100 * At(k) <= 59 * Maximum

PeakBegins(i) == {k \in i .. To - 1 : High(k)}
PeakEndsNotHigh(b) == {k \in b + 1 .. To - 1 : ~High(k)}
PeakEnds(b) == {k \in b + 1 .. To - 1 : Low(k)}

\* Neither end may be above the threshold.
HasPeak(i) ==
    /\ ~AboveThreshold(i) /\ ~AboveThreshold(To)
    /\ \E b \in PeakBegins(i) : PeakEnds(b) # {}

\* The sum of f over the rows first .. end.
RowSum(f, first, end) ==
    LET sum[n \in 0 .. end - first + 1] ==
            IF n = 0 THEN 0 ELSE sum[n - 1] + f[first + n - 1]
    IN  sum[end - first + 1]

\* The vertex of the parabola fitted to an odd number of rows around center;
\* NaN if there is none.
Vertex(bgn, end) ==
    LET first == IF (end - bgn) % 2 = 0 THEN bgn ELSE bgn - 1
        center == (first + end) \div 2
        sq(k) == (k - center) * (k - center)
        S0 == end - first + 1
        S2 == RowSum([k \in first .. end |-> sq(k)], first, end)
        S4 == RowSum([k \in first .. end |-> sq(k) * sq(k)], first, end)
        T0 == RowSum([k \in first .. end |-> At(k)], first, end)
        T1 == RowSum([k \in first .. end |-> At(k) * (k - center)], first, end)
        T2 == RowSum([k \in first .. end |-> At(k) * sq(k)], first, end)
        tmp == 2 * S2 * (S0 * T2 - S2 * T0)
        num == center * tmp - T1 * (S0 * S4 - S2 * S2)
    IN  IF tmp = 0 THEN NaN
        ELSE [num |-> IF tmp < 0 THEN -num ELSE num, den |-> Abs(tmp)]

\* A peak that cannot be located, or is located before the first row, ends the
\* search like one that is not there.
Located(time) == NotBefore(time, 0)

FindPeak ==
    /\ pc = "search" /\ kind = "peaks" /\ from < To
    /\ HasPeak(from)
    /\ \E bgn \in FirstOf(PeakBegins(from)) :
          \E end \in FirstOf(PeakEnds(bgn)) :
             \E time \in {Vertex(bgn, end)} :
                IF Located(time)
                THEN /\ found' = Append(found, [bgn |-> bgn, end |-> end,
                                               rising |-> FALSE, time |-> time])
                     /\ from' = end
                     /\ UNCHANGED <<pc, lost>>
                ELSE pc' = "searched" /\ lost' = TRUE /\ UNCHANGED <<from, found>>
    /\ UNCHANGED <<rows, win, matching>>

NoMorePeaks ==
    /\ pc = "search" /\ kind = "peaks" /\ from < To
    /\ ~HasPeak(from)
    /\ pc' = "searched"
    /\ UNCHANGED <<rows, from, win, found, lost, matching>>

(***************************************************************************)
(* Edges                                                                   *)
(***************************************************************************)
Swings(i) ==
    {p \in i .. To : p + Window < To /\ Abs(At(p) - At(p + Window)) >= MinChange}

Rises(p) == At(p + Window) > At(p)

\* The first row on the other side of the middle of the change at p.
Crossing(p) ==
    FirstOf({k \in p .. To - 1 : (2 * At(k) < At(p) + At(p + Window)) # Rises(p)})

FindSwing ==
    /\ pc = "search" /\ kind = "edges" /\ from < To
    /\ Swings(from) # {}
    /\ \E p \in FirstOf(Swings(from)) :
          \E e_pos \in Crossing(p) :
             win' = [bgn |-> e_pos, end |-> e_pos + 1, rising |-> Rises(p)]
    /\ pc' = "widen"
    /\ UNCHANGED <<rows, from, found, lost, matching>>

NoMoreEdges ==
    /\ pc = "search" /\ kind = "edges" /\ from < To
    /\ Swings(from) = {}
    /\ pc' = "searched"
    /\ UNCHANGED <<rows, from, win, found, lost, matching>>

\* (win_bgn - 1) >= from, unsigned: below row 0 comes the largest number.
RoomToWiden == (win.bgn = 0 \/ win.bgn - 1 >= from) /\ win.end + 1 < To

\* The data read before row 0 are not the column's.
ReadBeforeFirst ==
    /\ pc = "widen" /\ RoomToWiden /\ win.bgn = 0
    /\ pc' = "out_of_range"
    /\ UNCHANGED <<rows, from, win, found, lost, matching>>

\* A rising edge may be flat in places, a falling one may not.
Monotone ==
    /\ (At(win.bgn) < At(win.bgn - 1)) # win.rising
    /\ (At(win.end + 1) < At(win.end)) # win.rising

WiderUnlessEqual ==
    IF Abs(At(win.bgn) - At(win.bgn - 1)) > Abs(At(win.end + 1) - At(win.end))
    THEN [win EXCEPT !.bgn = @ - 1]
    ELSE IF Abs(At(win.bgn) - At(win.bgn - 1)) < Abs(At(win.end + 1) - At(win.end))
    THEN [win EXCEPT !.end = @ + 1]
    ELSE win

Wider ==
    IF Abs(At(win.bgn) - At(win.bgn - 1)) > Abs(At(win.end + 1) - At(win.end))
    THEN [win EXCEPT !.bgn = @ - 1]
    ELSE [win EXCEPT !.end = @ + 1]

Widen ==
    /\ pc = "widen" /\ RoomToWiden /\ win.bgn > 0
    /\ Monotone
    /\ win' = Wider
    /\ pc' = IF Abs(At(win'.bgn) - At(win'.end)) > MinChange THEN "locate" ELSE "widen"
    /\ UNCHANGED <<rows, from, found, lost, matching>>

WideEnough ==
    /\ pc = "widen"
    /\ ~(RoomToWiden /\ (win.bgn = 0 \/ Monotone))
    /\ pc' = "locate"
    /\ UNCHANGED <<rows, from, win, found, lost, matching>>

\* The fit of four or more rows gives a position inside the window.
FitTimes(w) ==
    IF w.end - w.bgn >= 3 THEN {[num |-> 2 * k + 1, den |-> 2] : k \in w.bgn .. w.end - 1}
    ELSE {}
\* Without it the edge is where the line through the ends crosses the middle
\* of their values, 0 / 0 if they are equal.
LineTime(w) ==
    IF At(w.bgn) = At(w.end) THEN NaN
    ELSE [num |-> w.bgn + w.end, den |-> 2]

NextStartWithin(w) == w.bgn + 1
NextStart(w) == w.end

LocateEdge ==
    /\ pc = "locate"
    /\ \E t \in FitTimes(win) \cup {LineTime(win)} :
          found' = Append(found, [bgn |-> win.bgn, end |-> win.end,
                                  rising |-> win.rising, time |-> t])
    /\ from' = NextStart(win)
    /\ win' = NoWindow
    /\ pc' = "search"
    /\ UNCHANGED <<rows, lost, matching>>

(***************************************************************************)
(* Matching: match_peaks, match_r_edg, match_f_edg and match_a_edg         *)
(***************************************************************************)
Wants(sense, f) == sense = "any" \/ f.rising = (sense = "rising")

\* The times of the wanted ones among what was found.
Wanted(sense) ==
    LET kept[n \in 0 .. Len(found)] ==
            IF n = 0 THEN <<>>
            ELSE IF Wants(sense, found[n]) THEN Append(kept[n - 1], found[n].time)
            ELSE kept[n - 1]
    IN  kept[Len(found)]

Match(sense, time_exprs) ==
    /\ pc = "searched"
    /\ kind = "peaks" => sense = "any"
    /\ events' = Wanted(sense)
    /\ times' = GetTimes(time_exprs)
    /\ pc' = "match"
    /\ UNCHANGED <<rows, from, win, found, lost, ic, ec, n_mismatches>>

IntervalStart == IF ic = 0 THEN 0 ELSE times[ic]
IntervalEnd == IF times = <<>> THEN Forever ELSE times[ic + 1]

MatchIntervalAfresh ==
    /\ n_mismatches' = n_mismatches +
          (IF CountIn(events, ec, IntervalStart, IntervalEnd) = ic % 2 THEN 0 ELSE 1)
    /\ ec' = IF StopAt(events, ec, IntervalEnd) < Len(events)
             THEN StopAt(events, ec, IntervalEnd) + 1
             ELSE Len(events)
MatchInterval ==
    /\ n_mismatches' = n_mismatches +
          (IF CountIn(events, ec, IntervalStart, IntervalEnd) = ic % 2 THEN 0 ELSE 1)
    /\ ec' = StopAt(events, ec, IntervalEnd)

NextInterval ==
    /\ pc = "match"
    /\ MatchInterval
    /\ ic' = ic + 1
    /\ pc' = IF ic + 1 < Len(times) THEN "match" ELSE "done"
    /\ UNCHANGED <<rows, from, win, found, lost, events, times>>

Ended == pc \in {"done", "aborted", "out_of_range"} /\ UNCHANGED vars

Searching ==
    \/ FindPeak \/ NoMorePeaks
    \/ FindSwing \/ NoMoreEdges
    \/ Widen \/ WideEnough \/ ReadBeforeFirst
    \/ LocateEdge \/ Abort

Next ==
    \/ \E v \in Values : AddDatum(v)
    \/ \E k \in {"peaks", "edges"} : Search(k)
    \/ Searching
    \/ \E sense \in {"any", "rising", "falling"}, p \in Patterns : Match(sense, p)
    \/ NextInterval
    \/ Ended

Spec == Init /\ [][Next]_vars /\ WF_vars(Searching) /\ WF_vars(NextInterval)

(***************************************************************************)
(* Properties                                                              *)
(***************************************************************************)
Times == [num : Int, den : Nat]

PulseTypeOK ==
    /\ pc \in {"collect", "search", "widen", "locate", "searched", "match", "done",
               "aborted", "out_of_range"}
    /\ data \in Seq(Values) /\ Len(data) <= MaxRows
    /\ kind \in {"none", "peaks", "edges"}
    /\ from \in 0 .. MaxRows
    /\ win.bgn \in 0 .. MaxRows /\ win.end \in 0 .. MaxRows /\ win.rising \in BOOLEAN
    /\ \A f \in ToSet(found) : /\ f.bgn \in 0 .. To /\ f.end \in f.bgn + 1 .. To
                              /\ f.rising \in BOOLEAN /\ f.time \in Times
    /\ lost \in BOOLEAN
    /\ \A e \in ToSet(events) : e \in Times
    /\ times \in Seq(Nat) /\ \A i \in 2 .. Len(times) : times[i - 1] < times[i]
    /\ ic \in 0 .. Len(times) + 1 /\ ec \in 0 .. Len(events) /\ n_mismatches \in 0 .. ic

\* For reference: the column with hysteresis, and where it goes up.
Up(k) == \E j \in 0 .. k : High(j) /\ \A m \in j .. k : ~Low(m)
Excursions ==
    IF AboveThreshold(0) \/ AboveThreshold(To) THEN {}
    ELSE {k \in 1 .. To - 1 :
             Up(k) /\ ~Up(k - 1) /\ \E j \in k + 1 .. To - 1 : ~Up(j)}

\* The peaks found are the excursions above the threshold, each of them once
\* and in their order, up to one that cannot be located: noise within the
\* hysteresis makes no peak and hides none.  Where no row is above zero there is
\* no hysteresis: it is a share of the maximum.
PeaksAreExcursions ==
    pc = "searched" /\ kind = "peaks" /\ Maximum > 0 =>
        LET begins == {found[i].bgn : i \in DOMAIN found}
            excursions == Excursions
        IN  /\ \A i \in 2 .. Len(found) : found[i - 1].end < found[i].bgn
            /\ begins \subseteq excursions
            /\ \A k \in excursions \ begins : lost /\ \A b \in begins : b < k

\* An edge is never located at or before the one found before it, and its
\* window does not go back into that one.
EdgesAscend ==
    kind = "edges" =>
        \A i \in 2 .. Len(found) :
            /\ found[i - 1].end <= found[i].bgn
            /\ ~NotBefore(found[i].time, found[i].bgn)
                   => found[i].time = NaN
            /\ NotBefore(found[i - 1].time, 0) /\ NotBefore(found[i].time, 0)
                   => Earlier(found[i - 1].time, found[i].time)

\* Every change that makes an edge lies in what the search has consumed for
\* some edge of its column, and an edge consumes at least one of its own sense.
NoSwingMissed ==
    pc = "searched" /\ kind = "edges" =>
        LET starts(i) == IF i = 1 THEN 0 ELSE found[i - 1].end
        IN  /\ \A p \in Swings(0) :
                  \E i \in DOMAIN found : p \in starts(i) .. found[i].end - 1
            /\ \A i \in DOMAIN found :
                  \E p \in Swings(starts(i)) :
                      p < found[i].end /\ found[i].rising = Rises(p)

\* Peaks and edges are found: no pulse is missed, made up or found twice.
PulsesFound == PeaksAreExcursions /\ NoSwingMissed

\* The searches abort on nothing but a column of less than two rows, or an
\* edge that reaches the last row.
AbortsAtEndOnly ==
    pc = "aborted" =>
        \/ Len(data) < 2
        \/ kind = "edges" /\ found # <<>> /\ Last(found).end = To

\* From edge to edge a search moves forward until the column ends.
SearchAdvances == EdgesAscend /\ AbortsAtEndOnly

\* With events in the order of their times, the intervals with the wrong
\* number of events are counted exactly: no event counts in two intervals and
\* none is lost when the next interval begins.
MismatchesExact ==
    pc = "done" /\ (\A i \in 2 .. Len(events) : Earlier(events[i - 1], events[i]))
                /\ (\A e \in ToSet(events) : e # NaN) =>
        n_mismatches = Mismatches(events, times)

\* Whatever the data, a search ends.
SearchEnds == pc = "search" ~> pc \in {"searched", "aborted", "out_of_range"}

\* nodes_of_interest.cpp:259-260 the window is widened until it "cannot be
\* extended without breaking monotonicity or reaching the data range limits".
StaysInRange == pc # "out_of_range"
=============================================================================
