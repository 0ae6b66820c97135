----------------------- MODULE NodesOfInterest_proofs -----------------------
(***************************************************************************)
(* What the searches for peaks and edges and the match against a time      *)
(* pattern do, for every column of every length, every window and change   *)
(* that makes an edge, and every pattern.                                  *)
(***************************************************************************)
EXTENDS PulseSearch, JosimRun, FiniteSetTheorems, SequenceTheorems, TLAPS

(***************************************************************************)
(* Induction, with sets in the place of predicates                         *)
(***************************************************************************)
\* Otherwise the numbers below a counterexample could be mapped one to one to
\* fewer numbers.
LEMMA SetInduction ==
    ASSUME NEW T, 0 \in T, \A n \in Nat : n \in T => n + 1 \in T
    PROVE  \A n \in Nat : n \in T
<1> SUFFICES ASSUME NEW m \in Nat, m \notin T
             PROVE  FALSE
  OBVIOUS
<1> DEFINE A == {n \in 0 .. m : n \in T}
           B == A \ {0}
           f == [n \in A |-> n + 1]
<1>1. IsFiniteSet(A) /\ IsFiniteSet(B)
  <2>1. IsFiniteSet(0 .. m)
    BY FS_Interval
  <2>2. A \subseteq 0 .. m
    OBVIOUS
  <2>3. IsFiniteSet(A)
    BY <2>1, <2>2, FS_Subset
  <2> QED
    BY <2>3, FS_RemoveElement
<1>2. \A n \in A : n + 1 \in B
  OBVIOUS
<1>3. f \in Injection(A, B)
  BY <1>2 DEF Injection, IsInjective
<1>4. Cardinality(A) <= Cardinality(B)
  BY <1>1, <1>3, FS_Injection DEF ExistsInjection
<1>5. 0 \in A
  OBVIOUS
<1>6. Cardinality(B) = Cardinality(A) - 1
  BY <1>1, <1>5, FS_RemoveElement
<1>7. Cardinality(A) \in Nat
  BY <1>1, FS_CardinalityType
<1> QED
  BY <1>4, <1>6, <1>7

\* A function defined by primitive recursion exists.
LEMMA Recursion ==
    ASSUME NEW S, NEW c \in S, NEW n \in Nat, NEW F \in [1 .. n -> [S -> S]]
    PROVE  \E g \in [0 .. n -> S] : g[0] = c /\ \A i \in 1 .. n : g[i] = F[i][g[i - 1]]
<1> DEFINE Upto(m, g) == g[0] = c /\ \A i \in 1 .. m : g[i] = F[i][g[i - 1]]
           T == {m \in Nat : m <= n => \E g \in [0 .. m -> S] : Upto(m, g)}
<1>1. 0 \in T
  <2> DEFINE g == [i \in 0 .. 0 |-> c]
  <2>1. g \in [0 .. 0 -> S] /\ Upto(0, g)
    OBVIOUS
  <2> QED
    BY <2>1
<1>2. ASSUME NEW m \in Nat, m \in T
      PROVE  m + 1 \in T
  <2> SUFFICES ASSUME m + 1 <= n
               PROVE  \E g \in [0 .. m + 1 -> S] : Upto(m + 1, g)
    OBVIOUS
  <2>1. PICK g \in [0 .. m -> S] : Upto(m, g)
    BY <1>2
  <2> DEFINE h == [i \in 0 .. m + 1 |-> IF i = m + 1 THEN F[m + 1][g[m]] ELSE g[i]]
  <2>2. g[m] \in S /\ m + 1 \in 1 .. n
    OBVIOUS
  <2>3. F[m + 1][g[m]] \in S
    BY <2>2
  <2>4. h \in [0 .. m + 1 -> S]
    BY <2>3
  <2>5. /\ h[0] = c /\ h[m + 1] = F[m + 1][h[m]]
        /\ \A i \in 1 .. m : h[i] = g[i] /\ h[i - 1] = g[i - 1]
    <3>1. 0 # m + 1 /\ 0 \in 0 .. m /\ m \in 0 .. m /\ m # m + 1
      OBVIOUS
    <3>2. \A i \in 1 .. m : /\ i \in 0 .. m + 1 /\ i # m + 1
                           /\ i - 1 \in 0 .. m + 1 /\ i - 1 # m + 1
      OBVIOUS
    <3>3. h[0] = g[0] /\ h[m] = g[m] /\ h[m + 1] = F[m + 1][g[m]]
      BY <3>1
    <3>4. \A i \in 1 .. m : h[i] = g[i] /\ h[i - 1] = g[i - 1]
      BY <3>2
    <3> QED
      BY <2>1, <3>3, <3>4
  <2>6. \A i \in 1 .. m + 1 : i \in 1 .. m \/ i = m + 1
    OBVIOUS
  <2>7. Upto(m + 1, h)
    <3> HIDE DEF h
    <3>1. (m + 1) - 1 = m
      OBVIOUS
    <3> QED
      BY <2>1, <2>5, <2>6, <3>1
  <2> QED
    BY <2>4, <2>7
<1>3. n \in T
  <2> HIDE DEF T
  <2> QED
    BY <1>1, <1>2, SetInduction
<1> QED
  BY <1>3

\* What every step keeps holds everywhere.
LEMMA Accumulated ==
    ASSUME NEW S, NEW n \in Nat, NEW g, g[0] \in S,
           \A i \in 1 .. n : g[i - 1] \in S => g[i] \in S
    PROVE  \A i \in 0 .. n : g[i] \in S
<1> DEFINE T == {i \in Nat : i <= n => g[i] \in S}
<1>1. 0 \in T
  OBVIOUS
<1>2. ASSUME NEW i \in Nat, i \in T PROVE i + 1 \in T
  <2> SUFFICES ASSUME i + 1 <= n PROVE g[i + 1] \in S
    OBVIOUS
  <2>1. i + 1 \in 1 .. n /\ (i + 1) - 1 = i /\ g[i] \in S
    BY <1>2
  <2> QED
    BY <2>1
<1>3. \A i \in Nat : i \in T
  <2> HIDE DEF T
  <2> QED
    BY <1>1, <1>2, SetInduction
<1> QED
  BY <1>3

\* A set of naturals has a least element.
LEMMA LeastExists ==
    ASSUME NEW S \in SUBSET Nat, NEW n \in S
    PROVE  \E m \in S : \A k \in S : m <= k
<1> SUFFICES ASSUME ~ \E m \in S : \A k \in S : m <= k
             PROVE  FALSE
  OBVIOUS
<1> DEFINE T == {m \in Nat : \A k \in 0 .. m : k \notin S}
<1>1. 0 \in T
  <2>1. \A k \in S : 0 <= k
    OBVIOUS
  <2>2. 0 \notin S
    BY <2>1
  <2> QED
    BY <2>2
<1>2. ASSUME NEW m \in Nat, m \in T PROVE m + 1 \in T
  <2>1. \A k \in S : m + 1 <= k
    BY <1>2
  <2>2. m + 1 \notin S
    BY <2>1
  <2>3. \A k \in 0 .. m + 1 : k \in 0 .. m \/ k = m + 1
    OBVIOUS
  <2> QED
    BY <1>2, <2>2, <2>3
<1>3. \A m \in Nat : m \in T
  <2> HIDE DEF T
  <2> QED
    BY <1>1, <1>2, SetInduction
<1>4. n \in Nat /\ n \in 0 .. n
  OBVIOUS
<1> QED
  BY <1>3, <1>4

(***************************************************************************)
(* The sums of a parabola fit                                              *)
(***************************************************************************)
LEMMA PartialSums ==
    ASSUME NEW n \in Nat, NEW w \in [1 .. n -> Int]
    PROVE  \E g \in [0 .. n -> Int] : g[0] = 0 /\ \A i \in 1 .. n : g[i] = g[i - 1] + w[i]
<1> DEFINE S == Int
           F == [i \in 1 .. n |-> [x \in S |-> x + w[i]]]
<1>1. F \in [1 .. n -> [S -> S]]
  OBVIOUS
<1>2. \A i \in 1 .. n, x \in S : F[i][x] = x + w[i]
  OBVIOUS
<1>3. 0 \in S
  OBVIOUS
<1>4. PICK g \in [0 .. n -> S] : g[0] = 0 /\ \A i \in 1 .. n : g[i] = F[i][g[i - 1]]
  <2> HIDE DEF F, S
  <2> QED
    BY <1>1, <1>3, Recursion
<1>5. \A i \in 1 .. n : g[i - 1] \in S
  OBVIOUS
<1>6. \A i \in 1 .. n : g[i] = g[i - 1] + w[i]
  <2> HIDE DEF F, S
  <2> QED
    BY <1>2, <1>4, <1>5
<1> QED
  BY <1>4, <1>6

LEMMA RowSumInt ==
    ASSUME NEW a \in Int, NEW b \in Int, a <= b + 1, NEW f, \A k \in a .. b : f[k] \in Int
    PROVE  RowSum(f, a, b) \in Int
<1> DEFINE n == b - a + 1
           w == [i \in 1 .. n |-> f[a + i - 1]]
           Q(s) == s = [i \in 0 .. n |-> IF i = 0 THEN 0 ELSE s[i - 1] + f[a + i - 1]]
<1>1. n \in Nat
  OBVIOUS
<1>2. w \in [1 .. n -> Int]
  OBVIOUS
<1>5. PICK g \in [0 .. n -> Int] : g[0] = 0 /\ \A i \in 1 .. n : g[i] = g[i - 1] + w[i]
  <2> HIDE DEF n, w
  <2> QED
    BY <1>1, <1>2, PartialSums
<1>6. \A i \in 1 .. n : g[i] = g[i - 1] + f[a + i - 1]
  BY <1>5
<1>7. Q(g)
  <2> HIDE DEF w, n
  <2>1. \A i \in 0 .. n : i # 0 => i \in 1 .. n
    BY <1>1
  <2>2. \A i \in 0 .. n : g[i] = IF i = 0 THEN 0 ELSE g[i - 1] + f[a + i - 1]
    BY <1>5, <1>6, <2>1
  <2> QED
    BY <2>2
<1>8. RowSum(f, a, b) = g[n]
  <2>1. Q(CHOOSE s : Q(s))
    <3> HIDE DEF Q
    <3> QED
      BY <1>7
  <2> DEFINE sum == CHOOSE s : Q(s)
  <2>2. RowSum(f, a, b) = sum[n]
    BY DEF RowSum
  <2>3. sum[0] = 0 /\ \A i \in 1 .. n : sum[i] = sum[i - 1] + f[a + i - 1]
    <3>1. sum = [i \in 0 .. n |-> IF i = 0 THEN 0 ELSE sum[i - 1] + f[a + i - 1]]
      BY <2>1
    <3> HIDE DEF sum, n
    <3>2. 0 \in 0 .. n /\ \A i \in 1 .. n : i \in 0 .. n /\ i # 0
      BY <1>1
    <3> QED
      BY <3>1, <3>2
  <2>4. \A i \in Nat : i \in {j \in Nat : j <= n => sum[j] = g[j]}
    <3> DEFINE T == {j \in Nat : j <= n => sum[j] = g[j]}
    <3>1. 0 \in T
      BY <1>5, <2>3
    <3>2. ASSUME NEW j \in Nat, j \in T PROVE j + 1 \in T
      <4> HIDE DEF sum, n
      <4> SUFFICES ASSUME j + 1 <= n PROVE sum[j + 1] = g[j + 1]
        OBVIOUS
      <4>1. j + 1 \in 1 .. n /\ (j + 1) - 1 = j /\ sum[j] = g[j]
        BY <1>1, <3>2
      <4> QED
        BY <1>6, <2>3, <4>1
    <3> HIDE DEF T
    <3>3. \A i \in Nat : i \in T
      BY <3>1, <3>2, SetInduction
    <3> QED
      BY <3>3 DEF T
  <2> QED
    BY <1>1, <2>2, <2>4
<1> QED
  BY <1>1, <1>5, <1>8

(***************************************************************************)
(* The inductive invariant                                                 *)
(***************************************************************************)
ProperTimes == {e \in Times : e.den > 0 \/ e = NaN}
Finds == [bgn : Nat, end : Nat, rising : BOOLEAN, time : ProperTimes]
Increasing(s) == \A i \in 2 .. Len(s) : s[i - 1] < s[i]

SearchTyped ==
    /\ pc \in {"collect", "search", "widen", "locate", "searched", "match", "done",
               "aborted", "out_of_range"}
    /\ data \in Seq(Values) /\ Len(data) <= MaxRows
    /\ kind \in {"none", "peaks", "edges"}
    /\ from \in Nat /\ lost \in BOOLEAN
    /\ win \in [bgn : 0 .. MaxRows, end : 0 .. MaxRows, rising : BOOLEAN]

FoundTyped ==
    /\ found \in Seq(Finds)
    /\ \A i \in DOMAIN found :
          found[i].bgn < found[i].end /\ found[i].end <= To /\ found[i].end <= from

MatchTyped ==
    /\ events \in Seq(ProperTimes)
    /\ times \in Seq(Nat) /\ Increasing(times)
    /\ ic \in Nat /\ ec \in 0 .. Len(events) /\ n_mismatches \in 0 .. ic

Intervals == IF times = <<>> THEN 1 ELSE Len(times)

\* What has not begun yet is as it was initially.
Phases ==
    /\ pc = "collect" => kind = "none" /\ from = 0 /\ found = <<>>
    /\ pc # "collect" => kind \in {"peaks", "edges"}
    /\ pc \notin {"match", "done"} => times = <<>> /\ ic = 0 /\ ec = 0 /\ n_mismatches = 0
    /\ pc = "match" => ic < Intervals
    /\ pc = "done" => ic = Intervals

\* The searches for the peaks or edges begin one where the other ended, and
\* leave no row between them.
StartOf(i) == IF i = 1 THEN 0 ELSE found[i - 1].end
Consecutive ==
    /\ from = StartOf(Len(found) + 1)
    /\ \A p \in 0 .. from - 1 : \E i \in DOMAIN found : p \in StartOf(i) .. found[i].end - 1

PeakFrom(s, f) ==
    /\ ~AboveThreshold(s) /\ ~AboveThreshold(To)
    /\ f.bgn \in s + 1 .. To - 1 /\ f.end \in f.bgn + 1 .. To - 1
    /\ High(f.bgn) /\ \A k \in s .. f.bgn - 1 : ~High(k)
    /\ Low(f.end) /\ \A k \in f.bgn + 1 .. f.end - 1 : ~Low(k)

SwingFrom(s, f) == \E p \in Swings(s) : p < f.end /\ f.rising = Rises(p)

\* An edge is within its window.
EdgeFrom(s, f) ==
    /\ s <= f.bgn /\ SwingFrom(s, f)
    /\ \/ f.time = NaN
       \/ f.time.den = 2 /\ 2 * f.bgn <= f.time.num /\ f.time.num < 2 * f.end

EachFound ==
    /\ kind = "peaks" => \A i \in DOMAIN found : PeakFrom(StartOf(i), found[i])
    /\ kind = "edges" => \A i \in DOMAIN found : EdgeFrom(StartOf(i), found[i])

Locating ==
    pc \in {"widen", "locate"} =>
        /\ kind = "edges"
        /\ from <= win.bgn /\ win.bgn < win.end /\ win.end <= To
        /\ SwingFrom(from, win)

Ending ==
    /\ pc = "searched" =>
          IF kind = "peaks" THEN lost \/ ~HasPeak(from) ELSE Swings(from) = {}
    /\ pc = "aborted" => from >= To

Bound(n) == IF times = <<>> THEN Forever ELSE times[n]
Start(n) == IF n = 1 THEN 0 ELSE Bound(n - 1)
Inside(n) == {k \in DOMAIN events : NotBefore(events[k], Start(n)) /\ Before(events[k], Bound(n))}
Wrong(n) == Cardinality(Inside(n)) # (n + 1) % 2

InOrder ==
    /\ \A i \in 2 .. Len(events) : Earlier(events[i - 1], events[i])
    /\ \A e \in ToSet(events) : e # NaN

\* Of the events taken all but the last are before the interval, and the
\* intervals so far were counted as they should.
Counting ==
    InOrder =>
        /\ pc = "match" => \A k \in 1 .. ec - 1 : Before(events[k], Start(ic + 1))
        /\ n_mismatches = Cardinality({n \in 1 .. ic : Wrong(n)})

PulseInv ==
    /\ SearchTyped /\ FoundTyped /\ MatchTyped
    /\ Phases /\ Consecutive /\ EachFound /\ Locating /\ Ending /\ Counting

(***************************************************************************)
(* The times of a pattern                                                  *)
(***************************************************************************)
Entries == [dt : Int, is_relative : BOOLEAN]
TimesSoFar ==
    {acc \in [t_abs : Nat, result : Seq(Nat)] : Increasing(acc.result)}

LEMMA AddTimeKeeps ==
    ASSUME NEW acc \in TimesSoFar, NEW te \in Entries
    PROVE  AddTime(acc, te) \in TimesSoFar
<1> DEFINE r == acc.result
           t == IF te.is_relative THEN acc.t_abs + te.dt ELSE te.dt
           skip == r # <<>> /\ t <= Last(r)
           new == IF skip THEN r ELSE Append(r, t)
           N == Nat
<1>1. acc.t_abs \in Nat /\ r \in Seq(N) /\ te.dt \in Int /\ Increasing(r)
  BY DEF TimesSoFar, Entries
<1>2. CASE te.dt < 0
  BY <1>2 DEF AddTime
<1>3. CASE ~(te.dt < 0)
  <2>1. t \in N
    BY <1>1, <1>3
  <2>2. AddTime(acc, te) = [t_abs |-> t, result |-> new]
    BY <1>3 DEF AddTime
  <2>3. new \in Seq(N)
    <3> HIDE DEF N, r, t
    <3> QED
      BY <1>1, <2>1, AppendProperties
  <2>4. Increasing(new)
    <3>1. CASE skip
      BY <1>1, <3>1
    <3>2. CASE ~skip
      <4> DEFINE l == Len(r)
      <4>1. l \in Nat
        BY <1>1
      <4> HIDE DEF r, t, l
      <4>2. /\ Len(Append(r, t)) = l + 1 /\ Append(r, t)[l + 1] = t
            /\ \A i \in 1 .. l : Append(r, t)[i] = r[i]
        BY <1>1, <2>1 DEF l
      <4>3. l > 0 => r[l] < t
        <5> SUFFICES ASSUME l > 0 PROVE r[l] < t
          OBVIOUS
        <5>1. r # <<>> /\ Last(r) = r[l] /\ r[l] \in Nat
          BY <1>1 DEF l, Last, N
        <5> QED
          BY <2>1, <3>2, <5>1 DEF N
      <4>4. ASSUME NEW i \in 2 .. l + 1
            PROVE  Append(r, t)[i - 1] < Append(r, t)[i]
        <5>1. CASE i = l + 1
          <6>1. l > 0 /\ i - 1 = l /\ l \in 1 .. l
            BY <4>1, <5>1
          <6> QED
            BY <4>2, <4>3, <5>1, <6>1
        <5>2. CASE i # l + 1
          <6>1. i \in 2 .. l /\ i \in 1 .. l /\ i - 1 \in 1 .. l
            BY <4>1, <5>2
          <6>2. r[i - 1] < r[i]
            BY <1>1, <6>1 DEF Increasing, l
          <6> QED
            BY <4>2, <6>1, <6>2
        <5> QED
          BY <5>1, <5>2
      <4>5. Increasing(Append(r, t))
        BY <4>2, <4>4 DEF Increasing
      <4> QED
        BY <3>2, <4>5
    <3> QED
      BY <3>1, <3>2
  <2> HIDE DEF t, new
  <2> QED
    BY <2>1, <2>2, <2>3, <2>4 DEF TimesSoFar, N
<1> QED
  BY <1>2, <1>3

LEMMA GetTimesIncrease ==
    ASSUME NEW p \in Seq(Entries)
    PROVE  GetTimes(p) \in Seq(Nat) /\ Increasing(GetTimes(p))
<1> DEFINE n == Len(p)
           c == [t_abs |-> 0, result |-> <<>>]
           S == TimesSoFar
           F == [i \in 1 .. n |-> [x \in S |-> AddTime(x, p[i])]]
           Q(s) == s = [i \in 0 .. n |-> IF i = 0 THEN c ELSE AddTime(s[i - 1], p[i])]
<1>n. n \in Nat
  OBVIOUS
<1>1. n \in Nat /\ \A i \in 1 .. n : p[i] \in Entries
  OBVIOUS
<1>2. F \in [1 .. n -> [S -> S]]
  BY <1>1, AddTimeKeeps
<1>3. c \in S
  <2> DEFINE N == Nat
  <2>1. <<>> \in Seq(N) /\ Increasing(<<>>)
    BY DEF Increasing
  <2> QED
    BY <2>1 DEF TimesSoFar
<1>4. PICK g \in [0 .. n -> S] : g[0] = c /\ \A i \in 1 .. n : g[i] = F[i][g[i - 1]]
  <2> HIDE DEF F, S, n, c
  <2> QED
    BY <1>n, <1>2, <1>3, Recursion
<1>5. \A i \in 1 .. n : g[i - 1] \in S
  <2> HIDE DEF S
  <2> QED
    BY <1>1
<1>6. \A i \in 1 .. n : g[i] = AddTime(g[i - 1], p[i])
  <2>1. \A i \in 1 .. n, x \in S : F[i][x] = AddTime(x, p[i])
    <3> HIDE DEF S, n
    <3> QED
      OBVIOUS
  <2> HIDE DEF F, S, n
  <2> QED
    BY <1>4, <1>5, <2>1
<1>7. Q(g)
  <2> HIDE DEF F, S, n, c
  <2>1. \A i \in 0 .. n : i # 0 => i \in 1 .. n
    BY <1>1
  <2>2. \A i \in 0 .. n : g[i] = IF i = 0 THEN c ELSE AddTime(g[i - 1], p[i])
    BY <1>4, <1>6, <2>1
  <2> QED
    BY <2>2
<1> DEFINE f == CHOOSE s : Q(s)
<1>8. Q(f)
  <2> HIDE DEF Q
  <2> QED
    BY <1>7
<1>9. GetTimes(p) = f[n].result
  BY DEF GetTimes
<1>10. f[0] = c /\ \A i \in 1 .. n : f[i] = AddTime(f[i - 1], p[i])
  <2>1. f = [i \in 0 .. n |-> IF i = 0 THEN c ELSE AddTime(f[i - 1], p[i])]
    BY <1>8
  <2> HIDE DEF f, n, c
  <2>2. 0 \in 0 .. n /\ \A i \in 1 .. n : i \in 0 .. n /\ i # 0
    BY <1>1
  <2> QED
    BY <2>1, <2>2
<1>11. \A i \in 1 .. n : f[i - 1] \in S => f[i] \in S
  <2> HIDE DEF f, n
  <2> QED
    BY <1>1, <1>10, AddTimeKeeps
<1>12. \A i \in 0 .. n : f[i] \in S
  <2> HIDE DEF f, n, c, S
  <2> QED
    BY <1>1, <1>3, <1>10, <1>11, Accumulated
<1>13. f[n] \in TimesSoFar
  <2> HIDE DEF f, n
  <2> QED
    BY <1>1, <1>12
<1> HIDE DEF f, n
<1> QED
  BY <1>9, <1>13 DEF TimesSoFar

(***************************************************************************)
(* The events that are wanted                                              *)
(***************************************************************************)
LEMMA WantedTyped ==
    ASSUME NEW sense, found \in Seq(Finds)
    PROVE  Wanted(sense) \in Seq(ProperTimes)
<1> DEFINE n == Len(found)
           c == <<>>
           T == ProperTimes
           S == Seq(T)
           keep(s, i) == IF Wants(sense, found[i]) THEN Append(s, found[i].time) ELSE s
           F == [i \in 1 .. n |-> [x \in S |-> keep(x, i)]]
           Q(s) == s = [i \in 0 .. n |->
                           IF i = 0 THEN c
                           ELSE IF Wants(sense, found[i]) THEN Append(s[i - 1], found[i].time)
                           ELSE s[i - 1]]
<1>n. n \in Nat
  OBVIOUS
<1>1. \A i \in 1 .. n : found[i].time \in T
  <2> HIDE DEF T
  <2>1. \A i \in 1 .. n : found[i] \in Finds
    OBVIOUS
  <2> QED
    BY <2>1 DEF Finds, T
<1>2. \A i \in 1 .. n, x \in S : keep(x, i) \in S
  <2> HIDE DEF T, n
  <2> QED
    BY <1>1, AppendProperties
<1>3. c \in S
  <2> HIDE DEF T
  <2> QED
    OBVIOUS
<1>4. F \in [1 .. n -> [S -> S]]
  <2> HIDE DEF S, n, keep
  <2> QED
    BY <1>2
<1>5. PICK g \in [0 .. n -> S] : g[0] = c /\ \A i \in 1 .. n : g[i] = F[i][g[i - 1]]
  <2> HIDE DEF F, S, n, c
  <2> QED
    BY <1>n, <1>3, <1>4, Recursion
<1>6. \A i \in 1 .. n : g[i - 1] \in S
  <2> HIDE DEF S
  <2> QED
    BY <1>n
<1>7. \A i \in 1 .. n : g[i] = keep(g[i - 1], i)
  <2>1. \A i \in 1 .. n, x \in S : F[i][x] = keep(x, i)
    <3> HIDE DEF S, n, keep
    <3> QED
      OBVIOUS
  <2> HIDE DEF F, S, n, keep
  <2> QED
    BY <1>5, <1>6, <2>1
<1>8. Q(g)
  <2> HIDE DEF F, S, n, c
  <2>1. \A i \in 0 .. n : i # 0 => i \in 1 .. n
    BY <1>n
  <2>2. \A i \in 0 .. n : g[i] = IF i = 0 THEN c
                                 ELSE IF Wants(sense, found[i]) THEN Append(g[i - 1], found[i].time)
                                 ELSE g[i - 1]
    BY <1>5, <1>7, <2>1
  <2> QED
    BY <2>2
<1> DEFINE f == CHOOSE s : Q(s)
<1>9. Q(f)
  <2> HIDE DEF Q
  <2> QED
    BY <1>8
<1>10. Wanted(sense) = f[n]
  BY DEF Wanted
<1>11. f[0] = c /\ \A i \in 1 .. n : f[i] = keep(f[i - 1], i)
  <2>1. f = [i \in 0 .. n |-> IF i = 0 THEN c
                              ELSE IF Wants(sense, found[i]) THEN Append(f[i - 1], found[i].time)
                              ELSE f[i - 1]]
    BY <1>9
  <2> HIDE DEF f, n, c
  <2>2. 0 \in 0 .. n /\ \A i \in 1 .. n : i \in 0 .. n /\ i # 0
    BY <1>n
  <2> QED
    BY <2>1, <2>2
<1>12. \A i \in 1 .. n : f[i - 1] \in S => f[i] \in S
  <2> HIDE DEF f, n, keep, S
  <2> QED
    BY <1>2, <1>11
<1>13. \A i \in 0 .. n : f[i] \in S
  <2> HIDE DEF f, n, c, S
  <2> QED
    BY <1>n, <1>3, <1>11, <1>12, Accumulated
<1> HIDE DEF f, n, S
<1> QED
  BY <1>n, <1>10, <1>13 DEF S

(***************************************************************************)
(* The event at which an interval stops                                    *)
(***************************************************************************)
LEMMA StopsAt ==
    ASSUME events \in Seq(ProperTimes), NEW k \in 0 .. Len(events), NEW t \in Nat
    PROVE  LET stop == StopAt(events, k, t) IN
           /\ stop \in k .. Len(events)
           /\ \/ k > 0 /\ NotBefore(events[k], t) /\ stop = k
              \/ /\ k > 0 => ~NotBefore(events[k], t)
                 /\ \A j \in k + 1 .. Len(events) : j < stop => Before(events[j], t)
                 /\ stop = Len(events) \/ (stop > k /\ ~Before(events[stop], t))
<1> DEFINE l == Len(events)
           stop == StopAt(events, k, t)
           later == {j \in k + 1 .. l : ~Before(events[j], t)}
<1>1. l \in Nat
  OBVIOUS
<1>2. CASE k > 0 /\ NotBefore(events[k], t)
  <2>1. stop = k
    BY <1>2 DEF StopAt
  <2> HIDE DEF l
  <2> QED
    BY <1>2, <2>1 DEF l
<1>3. CASE ~(k > 0 /\ NotBefore(events[k], t)) /\ later = {}
  <2>1. stop = l
    BY <1>3 DEF StopAt
  <2>2. \A j \in k + 1 .. l : Before(events[j], t)
    BY <1>3
  <2> HIDE DEF l, stop
  <2> QED
    BY <1>1, <1>3, <2>1, <2>2 DEF l, stop
<1>4. CASE ~(k > 0 /\ NotBefore(events[k], t)) /\ later # {}
  <2>1. stop = CHOOSE m \in later : \A j \in later : m <= j
    BY <1>4 DEF StopAt
  <2>2. \E m \in later : \A j \in later : m <= j
    <3> HIDE DEF later
    <3>1. later \in SUBSET Nat /\ \E m : m \in later
      BY <1>1, <1>4 DEF later
    <3> QED
      BY <3>1, LeastExists
  <2>3. stop \in later /\ \A j \in later : stop <= j
    <3> HIDE DEF later
    <3> QED
      BY <2>1, <2>2
  <2>4. stop \in k + 1 .. l /\ ~Before(events[stop], t)
    BY <2>3
  <2>5. \A j \in k + 1 .. l : j < stop => Before(events[j], t)
    <3> SUFFICES ASSUME NEW j \in k + 1 .. l, j < stop, ~Before(events[j], t)
                 PROVE  FALSE
      OBVIOUS
    <3>1. j \in later
      OBVIOUS
    <3> HIDE DEF later, l, stop
    <3> QED
      BY <1>1, <2>3, <2>4, <3>1
  <2> HIDE DEF l, stop
  <2> QED
    BY <1>1, <1>4, <2>4, <2>5 DEF l, stop
<1> QED
  BY <1>2, <1>3, <1>4

(***************************************************************************)
(* The rows of a column                                                    *)
(***************************************************************************)
LEMMA Constants ==
    /\ \A v \in Values : v \in Int
    /\ MaxRows \in Nat /\ Window \in Nat /\ Window > 0 /\ MinChange \in Nat /\ MinChange > 0
    /\ Patterns \subseteq Seq(Entries)
<1>1. /\ Values \subseteq Int /\ MaxRows \in Nat
      /\ Window \in Nat \ {0} /\ MinChange \in Nat \ {0}
  BY PulseAssumption
<1>2. Patterns \subseteq Seq(Entries)
  BY PulseAssumption DEF Entries
<1> QED
  BY <1>1, <1>2

LEMMA Rows ==
    ASSUME data \in Seq(Values)
    PROVE  /\ To \in Int /\ To >= -1 /\ Len(data) = To + 1 /\ DOMAIN data = 1 .. To + 1
           /\ \A k \in 0 .. To : At(k) \in Int
<1> DEFINE l == Len(data)
<1>1. l \in Nat /\ \A i \in 1 .. l : data[i] \in Values
  OBVIOUS
<1> HIDE DEF l
<1>2. To = l - 1
  BY DEF To, l
<1>3. \A k \in 0 .. To : At(k) \in Int
  BY <1>1, <1>2, Constants DEF At
<1> QED
  BY <1>1, <1>2, <1>3 DEF l

\* A column of at least one row has a maximum.
LEMMA MaximumIsGreatest ==
    ASSUME data \in Seq(Values), To >= 0
    PROVE  Maximum \in Int /\ \A k \in 0 .. To : At(k) <= Maximum
<1> DEFINE l == Len(data)
           D == {data[k] : k \in DOMAIN data}
           T == {n \in Nat : n + 1 <= l => \E k \in 1 .. n + 1 : \A j \in 1 .. n + 1 : data[j] <= data[k]}
<1>1. l \in Nat /\ l >= 1 /\ To \in Int /\ l = To + 1 /\ \A i \in 1 .. l : data[i] \in Int
  <2>1. l \in Nat /\ \A i \in 1 .. l : data[i] \in Values
    OBVIOUS
  <2> HIDE DEF l
  <2> QED
    BY <2>1, Constants DEF To, l
<1>2. 0 \in T
  <2> SUFFICES \E k \in 1 .. 1 : \A j \in 1 .. 1 : data[j] <= data[k]
    OBVIOUS
  <2>1. data[1] <= data[1]
    BY <1>1
  <2>2. \A j \in 1 .. 1 : j = 1
    OBVIOUS
  <2> QED
    BY <2>1, <2>2
<1>3. ASSUME NEW n \in Nat, n \in T PROVE n + 1 \in T
  <2> HIDE DEF l
  <2> SUFFICES ASSUME n + 2 <= l
               PROVE  \E k \in 1 .. n + 2 : \A j \in 1 .. n + 2 : data[j] <= data[k]
    OBVIOUS
  <2>1. PICK k \in 1 .. n + 1 : \A j \in 1 .. n + 1 : data[j] <= data[k]
    BY <1>1, <1>3
  <2>2. data[k] \in Int /\ data[n + 2] \in Int /\ \A j \in 1 .. n + 2 : j \in 1 .. n + 1 \/ j = n + 2
    BY <1>1
  <2>3. \A j \in 1 .. n + 2 : data[j] \in Int
    BY <1>1
  <2>4. CASE data[n + 2] <= data[k]
    <3>1. \A j \in 1 .. n + 2 : data[j] <= data[k]
      BY <2>1, <2>2, <2>4
    <3>2. k \in 1 .. n + 2
      OBVIOUS
    <3> QED
      BY <3>1, <3>2
  <2>5. CASE data[k] < data[n + 2]
    <3>1. \A j \in 1 .. n + 2 : data[j] <= data[n + 2]
      BY <2>1, <2>2, <2>3, <2>5
    <3> QED
      BY <3>1
  <2> QED
    <3>1. data[n + 2] <= data[k] \/ data[k] < data[n + 2]
      BY <2>2
    <3> QED
      BY <2>4, <2>5, <3>1
<1>4. \A n \in Nat : n \in T
  <2> HIDE DEF T
  <2> QED
    BY <1>2, <1>3, SetInduction
<1>5. l - 1 \in T
  <2> HIDE DEF T, l
  <2> QED
    BY <1>1, <1>4
<1>6. PICK k \in 1 .. l : \A j \in 1 .. l : data[j] <= data[k]
  <2>1. (l - 1) + 1 <= l =>
            \E k \in 1 .. (l - 1) + 1 : \A j \in 1 .. (l - 1) + 1 : data[j] <= data[k]
    BY <1>5
  <2>2. (l - 1) + 1 = l
    BY <1>1
  <2> HIDE DEF l
  <2> QED
    BY <1>1, <2>1, <2>2
<1>7. DOMAIN data = 1 .. l
  OBVIOUS
<1>8. \E m \in D : \A j \in D : j <= m
  <2> HIDE DEF l
  <2> QED
    BY <1>6, <1>7
<1>9. Maximum \in D /\ \A j \in D : j <= Maximum
  <2>1. Maximum = CHOOSE m \in D : \A j \in D : j <= m
    BY DEF Maximum, Greatest
  <2> HIDE DEF D
  <2> QED
    BY <1>8, <2>1
<1>10. Maximum \in Int
  <2> HIDE DEF l
  <2> QED
    BY <1>1, <1>7, <1>9
<1>11. ASSUME NEW i \in 0 .. To PROVE At(i) <= Maximum
  <2>1. i + 1 \in DOMAIN data
    <3>1. i + 1 \in 1 .. l
      <4> HIDE DEF l
      <4> QED
        BY <1>1
    <3> QED
      BY <1>7, <3>1
  <2> QED
    BY <1>9, <2>1 DEF At
<1> QED
  BY <1>10, <1>11

(***************************************************************************)
(* The parabola through the rows around a peak                             *)
(***************************************************************************)
LEMMA VertexTyped ==
    ASSUME data \in Seq(Values), NEW bgn \in 1 .. To, NEW end \in bgn + 1 .. To
    PROVE  Vertex(bgn, end) \in ProperTimes
<1> DEFINE first == IF (end - bgn) % 2 = 0 THEN bgn ELSE bgn - 1
           center == (first + end) \div 2
           sq(k) == (k - center) * (k - center)
           S0 == end - first + 1
           S2 == RowSum([k \in first .. end |-> sq(k)], first, end)
           S4 == RowSum([k \in first .. end |-> sq(k) * sq(k)], first, end)
           T0 == RowSum([k \in first .. end |-> At(k)], first, end)
           T1 == RowSum([k \in first .. end |-> At(k) * (k - center)], first, end)
           T2 == RowSum([k \in first .. end |-> At(k) * sq(k)], first, end)
           tmp == 2 * S2 * (S0 * T2 - S2 * T0)
           num == center * tmp - T1 * (S0 * S4 - S2 * S2)
<1>1. To \in Int /\ bgn \in Int /\ end \in Int
  BY Rows
<1>2. first \in Int /\ first >= 0 /\ first <= end + 1
  <2>1. first = bgn \/ first = bgn - 1
    OBVIOUS
  <2> HIDE DEF first
  <2> QED
    BY <1>1, <2>1
<1>3. center \in Int
  <2> HIDE DEF first
  <2>1. first + end \in Int
    BY <1>1, <1>2
  <2> DEFINE d == first + end
  <2> HIDE DEF d
  <2>2. d \div 2 \in Int
    BY <2>1 DEF d
  <2> QED
    BY <2>2 DEF d
<1>4. \A k \in first .. end : k \in Int /\ At(k) \in Int /\ k - center \in Int
  <2> HIDE DEF first, center
  <2>1. \A k \in first .. end : k \in 0 .. To
    BY <1>1, <1>2
  <2> QED
    BY <1>2, <1>3, <2>1, Rows
<1>5. \A k \in first .. end : sq(k) \in Int
  <2> HIDE DEF first, center
  <2> SUFFICES ASSUME NEW k \in first .. end PROVE sq(k) \in Int
    OBVIOUS
  <2> DEFINE x == k - center
  <2>1. x \in Int
    BY <1>4
  <2> HIDE DEF x
  <2>2. x * x \in Int
    BY <2>1
  <2> QED
    BY <2>2 DEF x
<1> DEFINE f1 == [k \in first .. end |-> At(k) * (k - center)]
           f2 == [k \in first .. end |-> At(k) * sq(k)]
           f4 == [k \in first .. end |-> sq(k) * sq(k)]
<1>6. \A k \in first .. end : f1[k] \in Int /\ f2[k] \in Int /\ f4[k] \in Int
  <2> SUFFICES ASSUME NEW k \in first .. end
               PROVE  /\ At(k) * (k - center) \in Int /\ At(k) * sq(k) \in Int
                      /\ sq(k) * sq(k) \in Int
    OBVIOUS
  <2> DEFINE x == k - center
             y == sq(k)
             z == At(k)
  <2>1. x \in Int /\ y \in Int /\ z \in Int
    BY <1>4, <1>5
  <2> HIDE DEF x, y, z
  <2>2. z * x \in Int /\ z * y \in Int /\ y * y \in Int
    BY <2>1
  <2> QED
    BY <2>2 DEF x, y, z
<1>7. S0 \in Int /\ S2 \in Int /\ S4 \in Int /\ T0 \in Int /\ T1 \in Int /\ T2 \in Int
  <2>1. S0 \in Int
    <3> HIDE DEF first
    <3> QED
      BY <1>1, <1>2
  <2>2. S2 \in Int /\ T0 \in Int
    <3> HIDE DEF first, sq
    <3> QED
      BY <1>1, <1>2, <1>4, <1>5, RowSumInt
  <2>3. S4 \in Int
    <3> HIDE DEF first, f4
    <3>1. RowSum(f4, first, end) \in Int
      BY <1>1, <1>2, <1>6, RowSumInt
    <3> QED
      BY <3>1 DEF f4
  <2>4. T1 \in Int
    <3> HIDE DEF first, f1
    <3>1. RowSum(f1, first, end) \in Int
      BY <1>1, <1>2, <1>6, RowSumInt
    <3> QED
      BY <3>1 DEF f1
  <2>5. T2 \in Int
    <3> HIDE DEF first, f2
    <3>1. RowSum(f2, first, end) \in Int
      BY <1>1, <1>2, <1>6, RowSumInt
    <3> QED
      BY <3>1 DEF f2
  <2> QED
    BY <2>1, <2>2, <2>3, <2>4, <2>5
<1>8. tmp \in Int /\ num \in Int
  <2> HIDE DEF center, S0, S2, S4, T0, T1, T2
  <2> DEFINE p == S0 * T2
             q == S2 * T0
             r == S0 * S4
             s == S2 * S2
  <2>1. p \in Int /\ q \in Int /\ r \in Int /\ s \in Int
    BY <1>7
  <2> HIDE DEF p, q, r, s
  <2> DEFINE u == p - q
             v == r - s
             w == 2 * S2
  <2>2. u \in Int /\ v \in Int /\ w \in Int
    BY <1>7, <2>1
  <2> HIDE DEF u, v, w
  <2>3. w * u \in Int /\ T1 * v \in Int
    BY <1>7, <2>2
  <2>4. tmp = w * u /\ T1 * (S0 * S4 - S2 * S2) = T1 * v
    BY DEF p, q, r, s, u, v, w
  <2>5. tmp \in Int
    BY <2>3, <2>4
  <2> HIDE DEF tmp
  <2>6. center * tmp \in Int
    BY <1>3, <2>5
  <2> QED
    BY <2>3, <2>4, <2>5, <2>6
<1>9. Vertex(bgn, end) = IF tmp = 0 THEN NaN
                         ELSE [num |-> IF tmp < 0 THEN -num ELSE num, den |-> Abs(tmp)]
  BY DEF Vertex
<1> HIDE DEF tmp, num
<1>10. tmp # 0 => Abs(tmp) \in Nat /\ Abs(tmp) > 0 /\ (IF tmp < 0 THEN -num ELSE num) \in Int
  BY <1>8 DEF Abs
<1> QED
  BY <1>9, <1>10 DEF ProperTimes, Times, NaN

(***************************************************************************)
(* What a step that leaves the search alone keeps                          *)
(***************************************************************************)
LEMMA SameRows ==
    ASSUME data' = data
    PROVE  /\ To' = To /\ Maximum' = Maximum
           /\ \A k : At(k)' = At(k) /\ High(k)' = High(k) /\ Low(k)' = Low(k)
           /\ \A k : AboveThreshold(k)' = AboveThreshold(k) /\ Rises(k)' = Rises(k)
           /\ \A k : Swings(k)' = Swings(k) /\ HasPeak(k)' = HasPeak(k)
<1>1. To' = To
  BY DEF To
<1>2. Maximum' = Maximum
  BY DEF Maximum, Greatest
<1>3. \A k : At(k)' = At(k)
  BY DEF At
<1>4. \A k : High(k)' = High(k) /\ Low(k)' = Low(k) /\ AboveThreshold(k)' = AboveThreshold(k)
  BY <1>2, <1>3 DEF High, Low, AboveThreshold
<1>5. \A k : Rises(k)' = Rises(k)
  BY <1>3 DEF Rises
<1>6. ASSUME NEW k PROVE Swings(k)' = Swings(k)
  BY <1>1, <1>3 DEF Swings, Abs
<1>7. ASSUME NEW k PROVE HasPeak(k)' = HasPeak(k)
  <2>1. PeakBegins(k)' = PeakBegins(k)
    BY <1>1, <1>4 DEF PeakBegins
  <2>2. ASSUME NEW b PROVE PeakEnds(b)' = PeakEnds(b)
    BY <1>1, <1>4 DEF PeakEnds
  <2> QED
    BY <1>1, <1>4, <2>1, <2>2 DEF HasPeak
<1> QED
  BY <1>1, <1>2, <1>3, <1>4, <1>5, <1>6, <1>7

LEMMA SearchKept ==
    ASSUME FoundTyped, Consecutive, EachFound,
           data' = data, kind' = kind, from' = from, found' = found
    PROVE  FoundTyped' /\ Consecutive' /\ EachFound'
<1>1. FoundTyped'
  BY SameRows DEF FoundTyped
<1>2. Consecutive'
  BY DEF Consecutive, StartOf
<1>3. ASSUME NEW s, NEW f PROVE PeakFrom(s, f)' = PeakFrom(s, f) /\ EdgeFrom(s, f)' = EdgeFrom(s, f)
  <2>1. PeakFrom(s, f)' = PeakFrom(s, f)
    BY SameRows DEF PeakFrom
  <2>2. SwingFrom(s, f)' = SwingFrom(s, f)
    BY SameRows DEF SwingFrom
  <2>3. EdgeFrom(s, f)' = EdgeFrom(s, f)
    BY <2>2 DEF EdgeFrom
  <2> QED
    BY <2>1, <2>3
<1>4. EachFound'
  <2>1. \A i : StartOf(i)' = StartOf(i)
    BY DEF StartOf
  <2> QED
    BY <1>3, <2>1 DEF EachFound
<1> QED
  BY <1>1, <1>2, <1>4

Unmatched == pc \notin {"match", "done"}
Unfound == found = <<>> /\ from = 0

LEMMA NothingCounted == Phases /\ Unmatched => Counting
<1> SUFFICES ASSUME Phases, Unmatched PROVE Counting
  OBVIOUS
<1>1. ic = 0 /\ n_mismatches = 0 /\ pc # "match"
  BY DEF Phases, Unmatched
<1>2. {n \in 1 .. ic : Wrong(n)} = {}
  BY <1>1
<1> QED
  BY <1>1, <1>2, FS_EmptySet DEF Counting

LEMMA MatchKept ==
    ASSUME MatchTyped, matching' = matching
    PROVE  MatchTyped'
BY DEF MatchTyped, matching, Increasing

LEMMA Idle ==
    ASSUME MatchTyped, matching' = matching, Phases', pc' \notin {"match", "done"}
    PROVE  MatchTyped' /\ Counting'
<1>1. MatchTyped'
  BY MatchKept
<1>2. Counting'
  <2>1. Unmatched'
    BY DEF Unmatched
  <2> QED
    BY <2>1, NothingCounted, PTL
<1> QED
  BY <1>1, <1>2

\* Before anything is found.
LEMMA NothingFound ==
    Unfound => FoundTyped /\ Consecutive /\ EachFound
<1> SUFFICES ASSUME Unfound PROVE FoundTyped /\ Consecutive /\ EachFound
  OBVIOUS
<1> USE DEF Unfound
<1>1. Len(found) = 0 /\ DOMAIN found = {}
  OBVIOUS
<1>2. found \in Seq(Finds)
  <2> DEFINE S == Finds
  <2> HIDE DEF S
  <2>1. <<>> \in Seq(S)
    OBVIOUS
  <2> QED
    BY <2>1 DEF S
<1>3. from = StartOf(Len(found) + 1) /\ 0 .. from - 1 = {}
  BY <1>1 DEF StartOf
<1> QED
  BY <1>1, <1>2, <1>3 DEF FoundTyped, Consecutive, EachFound

(***************************************************************************)
(* Every step keeps the invariant                                          *)
(***************************************************************************)
LEMMA InitKeeps == Init => PulseInv
<1> SUFFICES ASSUME Init PROVE PulseInv
  OBVIOUS
<1> USE DEF Init
<1>1. SearchTyped
  <2> DEFINE S == Values
  <2> HIDE DEF S
  <2>1. <<>> \in Seq(S)
    OBVIOUS
  <2>2. Len(data) <= MaxRows /\ NoWindow \in [bgn : 0 .. MaxRows, end : 0 .. MaxRows, rising : BOOLEAN]
    BY Constants DEF NoWindow
  <2> QED
    BY <2>1, <2>2 DEF SearchTyped, S
<1>2. MatchTyped
  <2> DEFINE S == ProperTimes
             N == Nat
  <2> HIDE DEF S, N
  <2>1. <<>> \in Seq(S) /\ <<>> \in Seq(N) /\ Len(<<>>) = 0
    OBVIOUS
  <2> QED
    BY <2>1 DEF MatchTyped, Increasing, S, N
<1>3. Phases
  BY DEF Phases
<1>4. Counting
  BY <1>3, NothingCounted DEF Unmatched
<1>5. Locating /\ Ending
  BY DEF Locating, Ending
<1>6. FoundTyped /\ Consecutive /\ EachFound
  BY NothingFound DEF Unfound
<1> QED
  BY <1>1, <1>2, <1>3, <1>4, <1>5, <1>6 DEF PulseInv

LEMMA AddDatumKeeps ==
    ASSUME PulseInv, NEW v \in Values, AddDatum(v)
    PROVE  PulseInv'
<1>1. /\ pc = "collect" /\ pc' = pc /\ kind' = kind /\ from' = from /\ found' = found
      /\ lost' = lost /\ win' = win /\ matching' = matching
      /\ Len(data) < MaxRows /\ data' = Append(data, v)
  BY DEF AddDatum
<1>2. SearchTyped /\ MatchTyped /\ Phases
  BY DEF PulseInv
<1>3. from' = 0 /\ found' = <<>>
  BY <1>1, <1>2 DEF Phases
<1>4. SearchTyped'
  <2> DEFINE S == Values
  <2>1. data \in Seq(S) /\ v \in S
    BY <1>2 DEF SearchTyped
  <2> HIDE DEF S
  <2>2. data' \in Seq(S) /\ Len(data') = Len(data) + 1 /\ Len(data) \in Nat
    BY <1>1, <2>1, AppendProperties
  <2>3. Len(data') <= MaxRows
    BY <1>1, <2>2, Constants
  <2> QED
    BY <1>1, <1>2, <2>2, <2>3 DEF SearchTyped, S
<1>5. Phases'
  BY <1>1, <1>2 DEF Phases, matching, Intervals
<1>6. MatchTyped' /\ Counting'
  BY <1>1, <1>2, <1>5, Idle
<1>7. Locating' /\ Ending'
  BY <1>1 DEF Locating, Ending
<1>8. FoundTyped' /\ Consecutive' /\ EachFound'
  <2>1. Unfound'
    BY <1>3 DEF Unfound
  <2> QED
    BY <2>1, NothingFound, PTL
<1> QED
  BY <1>4, <1>5, <1>6, <1>7, <1>8 DEF PulseInv

LEMMA SearchKeeps ==
    ASSUME PulseInv, NEW k \in {"peaks", "edges"}, Search(k)
    PROVE  PulseInv'
<1>1. /\ pc = "collect" /\ pc' = "search" /\ kind' = k /\ from' = from /\ found' = found
      /\ lost' = lost /\ win' = win /\ matching' = matching /\ data' = data
  BY DEF Search
<1>2. SearchTyped /\ MatchTyped /\ Phases
  BY DEF PulseInv
<1>3. from' = 0 /\ found' = <<>>
  BY <1>1, <1>2 DEF Phases
<1>4. SearchTyped'
  BY <1>1, <1>2 DEF SearchTyped
<1>5. Phases'
  BY <1>1, <1>2 DEF Phases, matching
<1>6. MatchTyped' /\ Counting'
  BY <1>1, <1>2, <1>5, Idle
<1>7. Locating' /\ Ending'
  BY <1>1 DEF Locating, Ending
<1>8. FoundTyped' /\ Consecutive' /\ EachFound'
  <2>1. Unfound'
    BY <1>3 DEF Unfound
  <2> QED
    BY <2>1, NothingFound, PTL
<1> QED
  BY <1>4, <1>5, <1>6, <1>7, <1>8 DEF PulseInv

\* The steps that end a search.
LEMMA EndKeeps ==
    ASSUME PulseInv, Abort \/ NoMorePeaks \/ NoMoreEdges \/ ReadBeforeFirst
    PROVE  PulseInv'
<1>1. /\ data' = data /\ kind' = kind /\ from' = from /\ win' = win /\ found' = found
      /\ lost' = lost /\ matching' = matching
  BY DEF Abort, NoMorePeaks, NoMoreEdges, ReadBeforeFirst, rows
<1>2. SearchTyped /\ FoundTyped /\ MatchTyped /\ Phases /\ Consecutive /\ EachFound
  BY DEF PulseInv
<1>3. /\ pc \in {"search", "widen"} /\ pc' \in {"aborted", "searched", "out_of_range"}
      /\ pc' = "aborted" => from >= To
      /\ pc' = "searched" => IF kind = "peaks" THEN ~HasPeak(from) ELSE Swings(from) = {}
  BY DEF Abort, NoMorePeaks, NoMoreEdges, ReadBeforeFirst
<1>4. SearchTyped'
  BY <1>1, <1>2, <1>3 DEF SearchTyped
<1>5. Phases'
  BY <1>1, <1>2, <1>3 DEF Phases, matching
<1>6. MatchTyped' /\ Counting'
  BY <1>1, <1>2, <1>3, <1>5, Idle
<1>7. Locating'
  BY <1>3 DEF Locating
<1>8. Ending'
  BY <1>1, <1>3, SameRows DEF Ending
<1>9. FoundTyped' /\ Consecutive' /\ EachFound'
  BY <1>1, <1>2, SearchKept
<1> QED
  BY <1>4, <1>5, <1>6, <1>7, <1>8, <1>9 DEF PulseInv

\* What is found is added to what was found before.
LEMMA FoundOne ==
    ASSUME FoundTyped, Consecutive, EachFound, from \in Nat, To \in Int,
           data' = data, kind' = kind,
           NEW f \in Finds, from <= f.bgn, f.bgn < f.end, f.end <= To,
           found' = Append(found, f), from' = f.end,
           kind = "peaks" => PeakFrom(from, f), kind = "edges" => EdgeFrom(from, f)
    PROVE  FoundTyped' /\ Consecutive' /\ EachFound'
<1> DEFINE S == Finds
<1>1. found \in Seq(S) /\ f \in S
  BY DEF FoundTyped
<1>l. PICK l \in Nat : l = Len(found)
  <2> HIDE DEF S
  <2> QED
    BY <1>1
<1>2. l \in Nat /\ DOMAIN found = 1 .. l
  BY <1>1, <1>l
<1>3. /\ found' \in Seq(S) /\ Len(found') = l + 1 /\ DOMAIN found' = 1 .. l + 1
      /\ found'[l + 1] = f /\ \A i \in 1 .. l : found'[i] = found[i]
  <2>1. /\ Append(found, f) \in Seq(S) /\ Len(Append(found, f)) = l + 1
        /\ Append(found, f)[l + 1] = f /\ \A i \in 1 .. l : Append(found, f)[i] = found[i]
    <3> HIDE DEF S
    <3> QED
      BY <1>1, <1>l, AppendProperties
  <2>2. DOMAIN Append(found, f) = 1 .. Len(Append(found, f))
    <3> HIDE DEF S
    <3> QED
      BY <2>1
  <2> HIDE DEF S
  <2> QED
    BY <2>1, <2>2
<1>4. f.bgn \in Nat /\ f.end \in Nat
  BY DEF Finds
<1>5. \A i \in 1 .. l : found[i].bgn \in Nat /\ found[i].end \in Nat
  <2>1. \A i \in 1 .. l : found[i] \in S
    BY <1>1, <1>2
  <2> QED
    BY <2>1 DEF S, Finds
<1>6. \A i \in 1 .. l + 1 : i \in 1 .. l \/ i = l + 1
  BY <1>2
<1>7. To' = To
  BY SameRows
<1> HIDE DEF S
<1>8. FoundTyped'
  <2>1. ASSUME NEW i \in 1 .. l
        PROVE  found'[i].bgn < found'[i].end /\ found'[i].end <= To' /\ found'[i].end <= from'
    <3>1. found[i].bgn < found[i].end /\ found[i].end <= To /\ found[i].end <= from
      BY <1>2 DEF FoundTyped
    <3>2. found[i].bgn \in Nat /\ found[i].end \in Nat /\ found'[i] = found[i]
      BY <1>3, <1>5
    <3> QED
      BY <1>4, <1>7, <3>1, <3>2
  <2>2. found'[l + 1].bgn < found'[l + 1].end /\ found'[l + 1].end <= To' /\ found'[l + 1].end <= from'
    BY <1>3, <1>4, <1>7
  <2> QED
    BY <1>3, <1>6, <2>1, <2>2 DEF FoundTyped, S
<1>9. /\ \A i \in 1 .. l : StartOf(i)' = StartOf(i)
      /\ StartOf(l + 1) = from /\ StartOf(l + 1)' = from /\ StartOf(l + 2)' = f.end
  <2>1. \A i \in 1 .. l : StartOf(i)' = StartOf(i)
    <3>1. \A i \in 1 .. l : i # 1 => i - 1 \in 1 .. l
      BY <1>2
    <3> QED
      BY <1>3, <3>1 DEF StartOf
  <2>2. StartOf(l + 1) = from
    BY <1>l DEF Consecutive
  <2>3. StartOf(l + 1)' = StartOf(l + 1)
    <3>1. l + 1 # 1 => (l + 1) - 1 \in 1 .. l
      BY <1>2
    <3> QED
      BY <1>3, <3>1 DEF StartOf
  <2>4. StartOf(l + 2)' = f.end
    <3>1. l + 2 # 1 /\ (l + 2) - 1 = l + 1
      BY <1>2
    <3> QED
      BY <1>3, <3>1 DEF StartOf
  <2> QED
    BY <2>1, <2>2, <2>3, <2>4
<1>10. Consecutive'
  <2>1. from' = StartOf(Len(found) + 1)'
    <3>1. (Len(found) + 1)' = l + 2
      BY <1>2, <1>3
    <3> QED
      BY <1>9, <3>1 DEF StartOf
  <2>2. ASSUME NEW p \in 0 .. from' - 1
        PROVE  \E i \in 1 .. l + 1 : p \in StartOf(i)' .. found'[i].end - 1
    <3>1. CASE p < from
      <4>1. p \in 0 .. from - 1
        BY <1>4, <3>1
      <4>2. PICK i \in 1 .. l : p \in StartOf(i) .. found[i].end - 1
        BY <1>2, <4>1 DEF Consecutive
      <4> QED
        BY <1>2, <1>3, <1>9, <4>2
    <3>2. CASE p >= from
      <4>1. p \in StartOf(l + 1)' .. found'[l + 1].end - 1
        BY <1>3, <1>4, <1>9, <3>2
      <4> QED
        BY <1>2, <4>1
    <3>3. p < from \/ p >= from
      BY <1>4
    <3> QED
      BY <3>1, <3>2, <3>3
  <2> QED
    BY <1>3, <2>1, <2>2 DEF Consecutive
<1>11. ASSUME NEW s, NEW g PROVE PeakFrom(s, g)' = PeakFrom(s, g) /\ EdgeFrom(s, g)' = EdgeFrom(s, g)
  <2>1. PeakFrom(s, g)' = PeakFrom(s, g)
    BY SameRows DEF PeakFrom
  <2>2. SwingFrom(s, g)' = SwingFrom(s, g)
    BY SameRows DEF SwingFrom
  <2>3. EdgeFrom(s, g)' = EdgeFrom(s, g)
    BY <2>2 DEF EdgeFrom
  <2> QED
    BY <2>1, <2>3
<1>12. EachFound'
  <2>1. ASSUME kind = "peaks", NEW i \in 1 .. l + 1 PROVE PeakFrom(StartOf(i), found[i])'
    <3>1. CASE i \in 1 .. l
      <4>1. PeakFrom(StartOf(i), found[i])
        BY <1>2, <2>1, <3>1 DEF EachFound
      <4>2. StartOf(i)' = StartOf(i) /\ found'[i] = found[i]
        BY <1>3, <1>9, <3>1
      <4> QED
        BY <1>11, <4>1, <4>2
    <3>2. CASE i = l + 1
      <4>1. StartOf(i)' = from /\ found'[i] = f
        BY <1>3, <1>9, <3>2
      <4> QED
        BY <1>11, <2>1, <4>1
    <3> QED
      BY <1>6, <3>1, <3>2
  <2>2. ASSUME kind = "edges", NEW i \in 1 .. l + 1 PROVE EdgeFrom(StartOf(i), found[i])'
    <3>1. CASE i \in 1 .. l
      <4>1. EdgeFrom(StartOf(i), found[i])
        BY <1>2, <2>2, <3>1 DEF EachFound
      <4>2. StartOf(i)' = StartOf(i) /\ found'[i] = found[i]
        BY <1>3, <1>9, <3>1
      <4> QED
        BY <1>11, <4>1, <4>2
    <3>2. CASE i = l + 1
      <4>1. StartOf(i)' = from /\ found'[i] = f
        BY <1>3, <1>9, <3>2
      <4> QED
        BY <1>11, <2>2, <4>1
    <3> QED
      BY <1>6, <3>1, <3>2
  <2> QED
    BY <1>3, <2>1, <2>2 DEF EachFound
<1> QED
  BY <1>8, <1>10, <1>12

\* Whatever the sign of the maximum, a row that begins a peak is above the
\* threshold.
LEMMA HighIsAbove ==
    ASSUME data \in Seq(Values), NEW k \in 0 .. To, High(k)
    PROVE  AboveThreshold(k)
<1>1. To \in Int /\ To >= 0 /\ At(k) \in Int
  BY Rows
<1>2. Maximum \in Int /\ At(k) <= Maximum
  BY <1>1, MaximumIsGreatest
<1> QED
  BY <1>1, <1>2 DEF High, AboveThreshold

\* FirstOf in a set of rows.
LEMMA FirstOne ==
    ASSUME NEW S, NEW k \in FirstOf(S)
    PROVE  k \in S /\ \A j \in S : k <= j
BY DEF FirstOf

LEMMA FindPeakKeeps ==
    ASSUME PulseInv, FindPeak
    PROVE  PulseInv'
<1>1. /\ pc = "search" /\ kind = "peaks" /\ from < To /\ HasPeak(from)
      /\ data' = data /\ kind' = kind /\ win' = win /\ matching' = matching
  BY DEF FindPeak, rows
<1>2. PICK bgn \in FirstOf(PeakBegins(from)) : \E e \in FirstOf(PeakEnds(bgn)) :
             \E time \in {Vertex(bgn, e)} :
                IF Located(time)
                THEN /\ found' = Append(found, [bgn |-> bgn, end |-> e,
                                               rising |-> FALSE, time |-> time])
                     /\ from' = e
                     /\ UNCHANGED <<pc, lost>>
                ELSE pc' = "searched" /\ lost' = TRUE /\ UNCHANGED <<from, found>>
  BY DEF FindPeak
<1>3. PICK end \in FirstOf(PeakEnds(bgn)) : \E time \in {Vertex(bgn, end)} :
                IF Located(time)
                THEN /\ found' = Append(found, [bgn |-> bgn, end |-> end,
                                               rising |-> FALSE, time |-> time])
                     /\ from' = end
                     /\ UNCHANGED <<pc, lost>>
                ELSE pc' = "searched" /\ lost' = TRUE /\ UNCHANGED <<from, found>>
  BY <1>2
<1>4. PICK time : /\ time = Vertex(bgn, end)
                  /\ \/ /\ found' = Append(found, [bgn |-> bgn, end |-> end,
                                               rising |-> FALSE, time |-> time])
                        /\ from' = end /\ pc' = pc /\ lost' = lost
                     \/ pc' = "searched" /\ lost' = TRUE /\ from' = from /\ found' = found
  <2> DEFINE f(time) == [bgn |-> bgn, end |-> end, rising |-> FALSE, time |-> time]
             v == Vertex(bgn, end)
  <2> HIDE DEF f, v
  <2> QED
    BY <1>3 DEF f, v
<1>5. SearchTyped /\ FoundTyped /\ MatchTyped /\ Phases /\ Consecutive /\ EachFound
  BY DEF PulseInv
<1>6. data \in Seq(Values) /\ from \in Nat /\ To \in Int
  BY <1>5, Rows DEF SearchTyped
<1>7. ~AboveThreshold(from) /\ ~AboveThreshold(To)
  BY <1>1 DEF HasPeak
<1>8. /\ bgn \in from .. To - 1 /\ High(bgn) /\ \A k \in from .. bgn - 1 : ~High(k)
      /\ end \in bgn + 1 .. To - 1 /\ Low(end) /\ \A k \in bgn + 1 .. end - 1 : ~Low(k)
  <2>1. bgn \in PeakBegins(from) /\ \A k \in PeakBegins(from) : bgn <= k
    BY FirstOne
  <2>2. end \in PeakEnds(bgn) /\ \A k \in PeakEnds(bgn) : end <= k
    BY FirstOne
  <2>3. bgn \in from .. To - 1 /\ High(bgn) /\ end \in bgn + 1 .. To - 1 /\ Low(end)
    BY <2>1, <2>2 DEF PeakBegins, PeakEnds
  <2>4. ASSUME NEW k \in from .. bgn - 1, High(k) PROVE FALSE
    <3>1. k \in from .. To - 1 /\ k < bgn /\ k \in Int /\ bgn \in Int
      BY <1>6, <2>3
    <3>2. k \in PeakBegins(from)
      BY <2>4, <3>1 DEF PeakBegins
    <3> QED
      BY <2>1, <3>1, <3>2
  <2>5. ASSUME NEW k \in bgn + 1 .. end - 1, Low(k) PROVE FALSE
    <3>1. k \in bgn + 1 .. To - 1 /\ k < end /\ k \in Int /\ end \in Int
      BY <1>6, <2>3
    <3>2. k \in PeakEnds(bgn)
      BY <2>5, <3>1 DEF PeakEnds
    <3> QED
      BY <2>2, <3>1, <3>2
  <2> QED
    BY <2>3, <2>4, <2>5
<1>9. bgn \in from + 1 .. To - 1
  <2>1. bgn \in 0 .. To
    BY <1>6, <1>8
  <2>2. AboveThreshold(bgn)
    BY <1>6, <1>8, <2>1, HighIsAbove
  <2> QED
    BY <1>6, <1>7, <1>8, <2>2
<1>10. CASE pc' = "searched" /\ lost' = TRUE /\ from' = from /\ found' = found
  <2>1. SearchTyped'
    BY <1>1, <1>5, <1>10 DEF SearchTyped
  <2>2. Phases'
    BY <1>1, <1>5, <1>10 DEF Phases, matching
  <2>3. MatchTyped' /\ Counting'
    BY <1>1, <1>5, <1>10, <2>2, Idle
  <2>4. Locating' /\ Ending'
    BY <1>1, <1>10 DEF Locating, Ending
  <2>5. FoundTyped' /\ Consecutive' /\ EachFound'
    BY <1>1, <1>5, <1>10, SearchKept
  <2> QED
    BY <2>1, <2>2, <2>3, <2>4, <2>5 DEF PulseInv
<1> DEFINE f == [bgn |-> bgn, end |-> end, rising |-> FALSE, time |-> time]
<1>11. CASE found' = Append(found, f) /\ from' = end /\ pc' = pc /\ lost' = lost
  <2>1. SearchTyped'
    <3>1. from' \in Nat
      BY <1>6, <1>8, <1>11
    <3> QED
      BY <1>1, <1>5, <1>11, <3>1 DEF SearchTyped
  <2>2. Phases'
    BY <1>1, <1>5, <1>11 DEF Phases, matching
  <2>3. MatchTyped' /\ Counting'
    BY <1>1, <1>5, <1>11, <2>2, Idle
  <2>4. Locating' /\ Ending'
    BY <1>1, <1>11 DEF Locating, Ending
  <2>5. time \in ProperTimes
    <3>1. bgn \in 1 .. To /\ end \in bgn + 1 .. To
      BY <1>6, <1>8, <1>9
    <3> QED
      BY <1>4, <1>6, <3>1, VertexTyped
  <2>6. /\ f \in Finds /\ f.bgn = bgn /\ f.end = end
    BY <1>6, <1>8, <2>5 DEF Finds
  <2>7. PeakFrom(from, f)
    <3> HIDE DEF f
    <3> QED
      BY <1>7, <1>8, <1>9, <2>6 DEF PeakFrom
  <2>8. from <= f.bgn /\ f.bgn < f.end /\ f.end <= To /\ from' = f.end
    <3> HIDE DEF f
    <3> QED
      BY <1>6, <1>8, <1>11, <2>6
  <2>9. FoundTyped' /\ Consecutive' /\ EachFound'
    <3> HIDE DEF f
    <3> QED
      BY <1>1, <1>5, <1>6, <1>11, <2>6, <2>7, <2>8, FoundOne
  <2> QED
    BY <2>1, <2>2, <2>3, <2>4, <2>9 DEF PulseInv
<1> QED
  BY <1>4, <1>10, <1>11

LEMMA SameSwings ==
    ASSUME data' = data, NEW s, NEW f
    PROVE  SwingFrom(s, f)' = SwingFrom(s, f)
BY SameRows DEF SwingFrom

\* The steps on the window of an edge.
LEMMA WindowKeeps ==
    ASSUME PulseInv, FindSwing \/ Widen \/ WideEnough, pc' \in {"widen", "locate"},
           NEW b \in Nat, NEW e \in Nat, NEW r \in BOOLEAN, win' = [bgn |-> b, end |-> e, rising |-> r],
           from <= b, b < e, e <= To,
           \E p \in Swings(from) : p < e /\ r = Rises(p)
    PROVE  PulseInv'
<1>1. /\ pc \in {"search", "widen"} /\ data' = data /\ kind' = kind /\ from' = from
      /\ found' = found /\ lost' = lost /\ matching' = matching
  BY DEF FindSwing, Widen, WideEnough, rows
<1>2. kind = "edges"
  BY DEF PulseInv, Locating, FindSwing, Widen, WideEnough
<1>3. SearchTyped /\ FoundTyped /\ MatchTyped /\ Phases /\ Consecutive /\ EachFound
  BY DEF PulseInv
<1>4. To \in Int /\ To < MaxRows /\ from \in Nat
  <2>1. data \in Seq(Values) /\ Len(data) <= MaxRows /\ from \in Nat
    BY <1>3 DEF SearchTyped
  <2>2. To \in Int /\ Len(data) = To + 1
    BY <2>1, Rows
  <2> QED
    BY <2>1, <2>2, Constants
<1>5. SearchTyped'
  <2>1. b \in 0 .. MaxRows /\ e \in 0 .. MaxRows
    BY <1>4, Constants
  <2>2. win' \in [bgn : 0 .. MaxRows, end : 0 .. MaxRows, rising : BOOLEAN]
    BY <2>1
  <2>3. pc' \in {"collect", "search", "widen", "locate", "searched", "match", "done",
                 "aborted", "out_of_range"}
    OBVIOUS
  <2> QED
    BY <1>1, <1>3, <2>2, <2>3 DEF SearchTyped
<1>6. Phases'
  BY <1>1, <1>2, <1>3 DEF Phases, matching
<1>7. MatchTyped' /\ Counting'
  BY <1>1, <1>3, <1>6, Idle
<1>8. FoundTyped' /\ Consecutive' /\ EachFound'
  BY <1>1, <1>3, SearchKept
<1>9. Ending'
  BY DEF Ending
<1>10. Locating'
  <2>1. win'.bgn = b /\ win'.end = e /\ win'.rising = r
    OBVIOUS
  <2>2. from' <= win'.bgn /\ win'.bgn < win'.end /\ win'.end <= To'
    BY <1>1, <2>1, SameRows
  <2>3. PICK p \in Swings(from) : p < e /\ r = Rises(p)
    OBVIOUS
  <2>4. p \in Swings(from)' /\ p < win'.end /\ win'.rising = Rises(p)'
    <3>1. Swings(from)' = Swings(from)
      <4>1. To' = To /\ \A k : At(k)' = At(k)
        BY <1>1, SameRows
      <4> QED
        BY <1>1, <4>1 DEF Swings, Abs
    <3> QED
      BY <1>1, <2>1, <2>3, <3>1, SameRows
  <2>5. SwingFrom(from, win)'
    BY <2>4 DEF SwingFrom
  <2> QED
    BY <1>1, <1>2, <2>2, <2>5 DEF Locating
<1> QED
  BY <1>5, <1>6, <1>7, <1>8, <1>9, <1>10 DEF PulseInv

LEMMA FindSwingKeeps ==
    ASSUME PulseInv, FindSwing
    PROVE  PulseInv'
<1>1. pc' = "widen" /\ from < To
  BY DEF FindSwing
<1>2. PICK p \in FirstOf(Swings(from)) : \E e_pos \in Crossing(p) :
             win' = [bgn |-> e_pos, end |-> e_pos + 1, rising |-> Rises(p)]
  BY DEF FindSwing
<1>3. PICK e_pos \in Crossing(p) : win' = [bgn |-> e_pos, end |-> e_pos + 1, rising |-> Rises(p)]
  BY <1>2
<1>4. data \in Seq(Values) /\ from \in Nat /\ To \in Int
  BY Rows DEF PulseInv, SearchTyped
<1>5. p \in Swings(from) /\ p \in from .. To
  <2>1. p \in Swings(from)
    BY FirstOne
  <2> QED
    BY <2>1 DEF Swings
<1>6. e_pos \in p .. To - 1
  BY FirstOne DEF Crossing
<1>7. e_pos \in Nat /\ from <= e_pos /\ e_pos + 1 <= To /\ p < e_pos + 1
  BY <1>4, <1>5, <1>6
<1>8. Rises(p) \in BOOLEAN
  BY DEF Rises
<1>9. e_pos + 1 \in Nat /\ e_pos < e_pos + 1
  BY <1>7
<1> QED
  BY <1>1, <1>3, <1>5, <1>7, <1>8, <1>9, WindowKeeps

LEMMA WidenKeeps ==
    ASSUME PulseInv, Widen \/ WideEnough
    PROVE  PulseInv'
<1>1. pc = "widen" /\ pc' \in {"widen", "locate"}
  BY DEF Widen, WideEnough
<1>2. /\ SearchTyped
      /\ from <= win.bgn /\ win.bgn < win.end /\ win.end <= To /\ SwingFrom(from, win)
  BY <1>1 DEF PulseInv, Locating
<1>3. /\ data \in Seq(Values) /\ from \in Nat /\ To \in Int
      /\ win.bgn \in Nat /\ win.end \in Nat /\ win.rising \in BOOLEAN
      /\ win = [bgn |-> win.bgn, end |-> win.end, rising |-> win.rising]
  <2>1. win \in [bgn : 0 .. MaxRows, end : 0 .. MaxRows, rising : BOOLEAN]
    BY <1>2 DEF SearchTyped
  <2>2. win.bgn \in Nat /\ win.end \in Nat
    BY <2>1, Constants
  <2> QED
    BY <1>2, <2>1, <2>2, Rows DEF SearchTyped
<1>4. PICK p \in Swings(from) : p < win.end /\ win.rising = Rises(p)
  BY <1>2 DEF SwingFrom
<1>5. p \in Int
  BY <1>3, <1>4 DEF Swings
<1>6. CASE WideEnough
  <2>1. win' = win
    BY <1>6 DEF WideEnough
  <2> QED
    BY <1>1, <1>2, <1>3, <1>4, <1>6, <2>1, WindowKeeps
<1>7. CASE Widen
  <2>1. RoomToWiden /\ win.bgn > 0 /\ win' = Wider
    BY <1>7 DEF Widen
  <2>2. win.bgn - 1 >= from /\ win.end + 1 < To
    BY <1>3, <2>1 DEF RoomToWiden
  <2>3. \/ win' = [bgn |-> win.bgn - 1, end |-> win.end, rising |-> win.rising]
        \/ win' = [bgn |-> win.bgn, end |-> win.end + 1, rising |-> win.rising]
    BY <1>3, <2>1 DEF Wider
  <2>4. CASE win' = [bgn |-> win.bgn - 1, end |-> win.end, rising |-> win.rising]
    <3>1. win.bgn - 1 \in Nat /\ win.bgn - 1 < win.end
      BY <1>2, <1>3, <2>1
    <3> QED
      BY <1>1, <1>2, <1>3, <1>4, <1>7, <2>2, <2>4, <3>1, WindowKeeps
  <2>5. CASE win' = [bgn |-> win.bgn, end |-> win.end + 1, rising |-> win.rising]
    <3>1. win.end + 1 \in Nat /\ win.bgn < win.end + 1 /\ win.end + 1 <= To /\ p < win.end + 1
      BY <1>2, <1>3, <1>4, <1>5, <2>2
    <3> QED
      BY <1>1, <1>2, <1>3, <1>4, <1>7, <2>5, <3>1, WindowKeeps
  <2> QED
    BY <2>3, <2>4, <2>5
<1> QED
  BY <1>6, <1>7

\* The fit or the line puts the edge into its window.
LEMMA EdgeLocated ==
    ASSUME NEW w, w.bgn \in Nat, w.end \in Nat, w.bgn < w.end, NEW t \in FitTimes(w) \cup {LineTime(w)}
    PROVE  /\ t \in ProperTimes
           /\ t = NaN \/ (t.den = 2 /\ 2 * w.bgn <= t.num /\ t.num < 2 * w.end)
<1> DEFINE b == w.bgn
           e == w.end
<1>1. b \in Nat /\ e \in Nat /\ b < e
  OBVIOUS
<1>2. t = NaN \/ \E n \in Int : t = [num |-> n, den |-> 2] /\ 2 * b <= n /\ n < 2 * e
  <2>1. CASE t = LineTime(w)
    <3>1. t = NaN \/ t = [num |-> b + e, den |-> 2]
      BY <2>1 DEF LineTime
    <3> HIDE DEF b, e
    <3>2. b + e \in Int /\ 2 * b <= b + e /\ b + e < 2 * e
      BY <1>1
    <3> QED
      BY <3>1, <3>2
  <2>2. CASE t \in FitTimes(w)
    <3>1. PICK k \in b .. e - 1 : t = [num |-> 2 * k + 1, den |-> 2]
      BY <2>2 DEF FitTimes
    <3> HIDE DEF b, e
    <3>2. 2 * k + 1 \in Int /\ 2 * b <= 2 * k + 1 /\ 2 * k + 1 < 2 * e
      BY <1>1
    <3> QED
      BY <3>1, <3>2
  <2> QED
    BY <2>1, <2>2
<1>3. CASE t = NaN
  BY <1>3 DEF ProperTimes, Times, NaN
<1>4. CASE \E n \in Int : t = [num |-> n, den |-> 2] /\ 2 * b <= n /\ n < 2 * e
  <2>1. PICK n \in Int : t = [num |-> n, den |-> 2] /\ 2 * b <= n /\ n < 2 * e
    BY <1>4
  <2>2. t.num = n /\ t.den = 2 /\ t \in Times
    BY <2>1 DEF Times
  <2> QED
    BY <2>1, <2>2 DEF ProperTimes
<1> QED
  BY <1>2, <1>3, <1>4

LEMMA LocateEdgeKeeps ==
    ASSUME PulseInv, LocateEdge
    PROVE  PulseInv'
<1>1. /\ pc = "locate" /\ pc' = "search" /\ from' = win.end /\ win' = NoWindow
      /\ data' = data /\ kind' = kind /\ lost' = lost /\ matching' = matching
  BY DEF LocateEdge, NextStart, rows
<1> DEFINE f(t) == [bgn |-> win.bgn, end |-> win.end, rising |-> win.rising, time |-> t]
<1>2. PICK t \in FitTimes(win) \cup {LineTime(win)} : found' = Append(found, f(t))
  BY DEF LocateEdge
<1>3. /\ SearchTyped /\ FoundTyped /\ MatchTyped /\ Phases /\ Consecutive /\ EachFound
      /\ kind = "edges" /\ from <= win.bgn /\ win.bgn < win.end /\ win.end <= To
      /\ SwingFrom(from, win)
  BY <1>1 DEF PulseInv, Locating
<1>4. /\ data \in Seq(Values) /\ from \in Nat /\ To \in Int
      /\ win.bgn \in Nat /\ win.end \in Nat /\ win.rising \in BOOLEAN
  <2>1. win \in [bgn : 0 .. MaxRows, end : 0 .. MaxRows, rising : BOOLEAN]
    BY <1>3 DEF SearchTyped
  <2>2. win.bgn \in Nat /\ win.end \in Nat
    BY <2>1, Constants
  <2> QED
    BY <1>3, <2>1, <2>2, Rows DEF SearchTyped
<1>5. /\ t \in ProperTimes
      /\ t = NaN \/ (t.den = 2 /\ 2 * win.bgn <= t.num /\ t.num < 2 * win.end)
  BY <1>3, <1>4, EdgeLocated
<1>6. /\ f(t) \in Finds /\ f(t).bgn = win.bgn /\ f(t).end = win.end
      /\ f(t).rising = win.rising /\ f(t).time = t
  BY <1>4, <1>5 DEF Finds
<1> DEFINE g == f(t)
<1> HIDE DEF f
<1>7. EdgeFrom(from, g)
  <2>1. SwingFrom(from, g)
    BY <1>3, <1>6 DEF SwingFrom
  <2> HIDE DEF g
  <2> QED
    BY <1>3, <1>5, <1>6, <2>1 DEF EdgeFrom, g
<1>8. FoundTyped' /\ Consecutive' /\ EachFound'
  <2>1. g \in Finds /\ from <= g.bgn /\ g.bgn < g.end /\ g.end <= To /\ from' = g.end
    BY <1>1, <1>3, <1>6
  <2>2. found' = Append(found, g)
    BY <1>2
  <2> HIDE DEF g
  <2> QED
    BY <1>1, <1>3, <1>4, <1>7, <2>1, <2>2, FoundOne
<1>9. SearchTyped'
  <2>1. NoWindow \in [bgn : 0 .. MaxRows, end : 0 .. MaxRows, rising : BOOLEAN]
    BY Constants DEF NoWindow
  <2> QED
    BY <1>1, <1>3, <1>4, <2>1 DEF SearchTyped
<1>10. Phases'
  BY <1>1, <1>3 DEF Phases, matching
<1>11. MatchTyped' /\ Counting'
  BY <1>1, <1>3, <1>10, Idle
<1>12. Locating' /\ Ending'
  BY <1>1 DEF Locating, Ending
<1> QED
  BY <1>8, <1>9, <1>10, <1>11, <1>12 DEF PulseInv

(***************************************************************************)
(* The times of events                                                     *)
(***************************************************************************)
LEMMA Multiplied ==
    ASSUME NEW a \in Int, NEW b \in Int, NEW c \in Nat
    PROVE  /\ a <= b => a * c <= b * c
           /\ a < b /\ c > 0 => a * c < b * c
OBVIOUS

LEMMA BeforeOrNot ==
    ASSUME NEW e \in ProperTimes, e # NaN, NEW t \in Nat
    PROVE  e.den > 0 /\ (NotBefore(e, t) <=> ~Before(e, t))
<1>1. e.den \in Nat /\ e.den > 0 /\ e.num \in Int
  BY DEF ProperTimes, Times
<1> DEFINE x == t * e.den
<1>2. x \in Int
  BY <1>1
<1>3. Before(e, t) <=> e.num < x
  BY <1>1 DEF Before
<1>4. NotBefore(e, t) <=> e.num >= x
  BY <1>1 DEF NotBefore
<1> HIDE DEF x
<1> QED
  BY <1>1, <1>2, <1>3, <1>4

\* What is before a time is before every later time.
LEMMA BeforeLater ==
    ASSUME NEW e \in ProperTimes, NEW s \in Nat, NEW t \in Nat, s <= t, Before(e, s)
    PROVE  Before(e, t)
<1>1. e.den \in Nat /\ e.den > 0 /\ e.num \in Int /\ e.num < s * e.den
  BY DEF ProperTimes, Times, Before
<1> DEFINE d == e.den
<1>2. d \in Nat /\ e.num < s * d
  BY <1>1
<1> HIDE DEF d
<1>3. s * d <= t * d
  BY <1>2, Multiplied
<1>4. s * d \in Int /\ t * d \in Int
  BY <1>2
<1>5. e.num < t * d
  <2> DEFINE x == s * d
             y == t * d
  <2> HIDE DEF x, y
  <2>1. e.num < x /\ x <= y /\ x \in Int /\ y \in Int
    BY <1>2, <1>3, <1>4 DEF x, y
  <2>2. e.num < y
    BY <1>1, <2>1
  <2> QED
    BY <2>2 DEF y
<1> QED
  BY <1>1, <1>5 DEF Before, d

\* An event later than one that is not before a time is not before it either.
LEMMA LaterNotBefore ==
    ASSUME NEW e \in ProperTimes, NEW f \in ProperTimes, NEW t \in Nat,
           e # NaN, ~Before(e, t), Earlier(e, f)
    PROVE  ~Before(f, t)
<1> SUFFICES ASSUME Before(f, t) PROVE FALSE
  OBVIOUS
<1> DEFINE a == e.num
           c == e.den
           b == f.num
           d == f.den
<1>1. a \in Int /\ b \in Int /\ c \in Nat /\ d \in Nat /\ c > 0 /\ d > 0
  BY DEF ProperTimes, Times, Before, Earlier
<1>2. ~(a < t * c) /\ a * d < b * c /\ b < t * d
  BY <1>1 DEF Before, Earlier
<1> HIDE DEF a, b, c, d
<1> DEFINE u == t * c
           v == t * d
<1>3. u \in Int /\ v \in Int /\ u <= a /\ b < v
  BY <1>1, <1>2
<1> HIDE DEF u, v
<1>4. u * d <= a * d /\ b * c < v * c
  BY <1>1, <1>3, Multiplied
<1>5. u * d = v * c
  <2>1. (t * c) * d = (t * d) * c
    BY <1>1
  <2> QED
    BY <2>1 DEF u, v
<1> DEFINE ud == u * d
           ad == a * d
           bc == b * c
           vc == v * c
<1>6. ud \in Int /\ ad \in Int /\ bc \in Int /\ vc \in Int
  BY <1>1, <1>3
<1>7. ud <= ad /\ bc < vc /\ ud = vc /\ ad < bc
  BY <1>2, <1>4, <1>5
<1> HIDE DEF ud, ad, bc, vc
<1> QED
  BY <1>6, <1>7

LEMMA AllLaterNotBefore ==
    ASSUME events \in Seq(ProperTimes), InOrder, NEW t \in Nat,
           NEW i \in 1 .. Len(events), ~Before(events[i], t), NEW j \in i .. Len(events)
    PROVE  ~Before(events[j], t)
<1> DEFINE l == Len(events)
           T == {m \in Nat : i + m <= l => ~Before(events[i + m], t)}
<1>1. l \in Nat
  OBVIOUS
<1>2. \A k \in 1 .. l : events[k] \in ProperTimes /\ events[k] # NaN
  <2>1. \A k \in 1 .. l : events[k] \in ProperTimes
    OBVIOUS
  <2>2. \A k \in 1 .. l : events[k] \in ToSet(events)
    BY DEF ToSet
  <2> HIDE DEF l
  <2> QED
    BY <2>1, <2>2 DEF InOrder
<1>3. 0 \in T
  OBVIOUS
<1>4. ASSUME NEW m \in Nat, m \in T PROVE m + 1 \in T
  <2> SUFFICES ASSUME i + (m + 1) <= l PROVE ~Before(events[i + (m + 1)], t)
    OBVIOUS
  <2> DEFINE k == i + m
  <2>1. k \in 1 .. l /\ k + 1 \in 2 .. l /\ k + 1 \in 1 .. l /\ i + (m + 1) = k + 1 /\ (k + 1) - 1 = k
    <3> HIDE DEF l
    <3> QED
      BY <1>1
  <2>2. ~Before(events[k], t)
    <3> HIDE DEF l
    <3> QED
      BY <1>1, <1>4
  <2>3. Earlier(events[k], events[k + 1])
    <3>1. \A n \in 2 .. l : Earlier(events[n - 1], events[n])
      BY DEF InOrder
    <3> HIDE DEF k, l
    <3> QED
      BY <2>1, <3>1
  <2>4. ~Before(events[k + 1], t)
    <3> HIDE DEF k, l
    <3> QED
      BY <1>2, <2>1, <2>2, <2>3, LaterNotBefore
  <2> HIDE DEF k, l
  <2> QED
    BY <2>1, <2>4
<1>5. \A m \in Nat : m \in T
  <2> HIDE DEF T
  <2> QED
    BY <1>3, <1>4, SetInduction
<1>6. j - i \in Nat /\ i + (j - i) = j /\ j <= l
  <2> HIDE DEF l
  <2> QED
    BY <1>1 DEF l
<1> HIDE DEF l
<1> QED
  BY <1>5, <1>6

\* An interval takes all its events and none but its events.
LEMMA CountsInside ==
    ASSUME events \in Seq(ProperTimes), InOrder, NEW k \in 0 .. Len(events),
           NEW s \in Nat, NEW t \in Nat, s <= t,
           \A j \in 1 .. k - 1 : Before(events[j], s)
    PROVE  /\ CountIn(events, k, s, t) =
                  Cardinality({j \in DOMAIN events : NotBefore(events[j], s) /\ Before(events[j], t)})
           /\ \A j \in 1 .. StopAt(events, k, t) - 1 : Before(events[j], t)
<1> DEFINE l == Len(events)
           stop == StopAt(events, k, t)
           A == {j \in k .. stop : j > 0 /\ NotBefore(events[j], s) /\ Before(events[j], t)}
           B == {j \in DOMAIN events : NotBefore(events[j], s) /\ Before(events[j], t)}
<1>1. l \in Nat /\ DOMAIN events = 1 .. l /\ k \in 0 .. l
  OBVIOUS
<1>2. \A j \in 1 .. l : events[j] \in ProperTimes /\ events[j] # NaN
  <2>1. \A j \in 1 .. l : events[j] \in ProperTimes
    OBVIOUS
  <2>2. \A j \in 1 .. l : events[j] \in ToSet(events)
    BY DEF ToSet
  <2> HIDE DEF l
  <2> QED
    BY <2>1, <2>2 DEF InOrder
<1>3. /\ stop \in k .. l
      /\ \/ k > 0 /\ NotBefore(events[k], t) /\ stop = k
         \/ /\ k > 0 => ~NotBefore(events[k], t)
            /\ \A j \in k + 1 .. l : j < stop => Before(events[j], t)
            /\ stop = l \/ (stop > k /\ ~Before(events[stop], t))
  BY StopsAt
<1> HIDE DEF l, stop
<1>4. \A j \in 1 .. l : NotBefore(events[j], t) <=> ~Before(events[j], t)
  BY <1>2, BeforeOrNot
<1>5. \A j \in 1 .. l : NotBefore(events[j], s) <=> ~Before(events[j], s)
  BY <1>2, BeforeOrNot
<1>6. \A j \in 1 .. k - 1 : Before(events[j], t)
  <2> SUFFICES ASSUME NEW j \in 1 .. k - 1 PROVE Before(events[j], t)
    OBVIOUS
  <2>1. j \in 1 .. l /\ Before(events[j], s)
    BY <1>1
  <2> QED
    BY <1>2, <2>1, BeforeLater
<1>7. ASSUME NEW j \in 1 .. stop - 1 PROVE Before(events[j], t)
  <2>1. j \in Int /\ stop \in Int /\ j \in 1 .. l
    BY <1>1, <1>3
  <2>2. CASE j < k
    BY <1>1, <1>6, <2>1, <2>2
  <2>3. CASE j = k
    <3>1. k > 0 /\ stop # k
      BY <1>1, <2>1, <2>3
    <3>2. ~NotBefore(events[k], t)
      BY <1>3, <3>1
    <3> QED
      BY <1>4, <2>1, <2>3, <3>2
  <2>4. CASE j > k
    <3>1. j \in k + 1 .. l /\ j < stop /\ stop # k
      BY <1>1, <2>1, <2>4
    <3> QED
      BY <1>3, <3>1
  <2> QED
    BY <1>1, <2>1, <2>2, <2>3, <2>4
<1>8. ASSUME NEW j \in A PROVE j \in B
  <2>1. j \in 1 .. l
    BY <1>1, <1>3
  <2> QED
    BY <1>1, <2>1
<1>9. ASSUME NEW j \in B PROVE j \in A
  <2>1. j \in 1 .. l /\ NotBefore(events[j], s) /\ Before(events[j], t)
    BY <1>1
  <2>2. j >= k
    <3> SUFFICES ASSUME j < k PROVE FALSE
      BY <1>1, <2>1
    <3>1. j \in 1 .. k - 1
      BY <1>1, <2>1
    <3> QED
      BY <1>5, <2>1, <3>1
  <2>3. j <= stop
    <3> SUFFICES ASSUME stop < j PROVE FALSE
      BY <1>1, <1>3, <2>1
    <3>1. stop < l /\ stop \in 0 .. l /\ j \in stop .. l
      BY <1>1, <1>3, <2>1
    <3>2. ~Before(events[stop], t) /\ stop \in 1 .. l
      <4>1. CASE k > 0 /\ NotBefore(events[k], t) /\ stop = k
        <5>1. k \in 1 .. l
          BY <1>1, <4>1
        <5> QED
          BY <1>4, <4>1, <5>1
      <4>2. CASE /\ k > 0 => ~NotBefore(events[k], t)
                 /\ stop = l \/ (stop > k /\ ~Before(events[stop], t))
        BY <1>1, <1>3, <3>1, <4>2
      <4> QED
        BY <1>3, <4>1, <4>2
    <3>3. ~Before(events[j], t)
      BY <3>1, <3>2, AllLaterNotBefore DEF l
    <3> QED
      BY <2>1, <3>3
  <2> QED
    BY <1>1, <1>3, <2>1, <2>2, <2>3
<1>10. A = B
  <2> HIDE DEF A, B
  <2> QED
    BY <1>8, <1>9
<1>11. CountIn(events, k, s, t) = Cardinality(A)
  BY DEF CountIn, stop
<1> QED
  BY <1>7, <1>10, <1>11 DEF stop

LEMMA MatchKeeps ==
    ASSUME PulseInv, NEW sense \in {"any", "rising", "falling"}, NEW p \in Patterns, Match(sense, p)
    PROVE  PulseInv'
<1>1. /\ pc = "searched" /\ pc' = "match" /\ data' = data /\ kind' = kind /\ from' = from
      /\ win' = win /\ found' = found /\ lost' = lost
      /\ ic' = ic /\ ec' = ec /\ n_mismatches' = n_mismatches
  BY DEF Match, rows
<1>2. events' = Wanted(sense) /\ times' = GetTimes(p)
  BY DEF Match
<1>3. SearchTyped /\ FoundTyped /\ MatchTyped /\ Phases /\ Consecutive /\ EachFound
  BY DEF PulseInv
<1>4. ic' = 0 /\ ec' = 0 /\ n_mismatches' = 0
  BY <1>1, <1>3 DEF Phases
<1>5. events' \in Seq(ProperTimes)
  BY <1>2, <1>3, WantedTyped DEF FoundTyped
<1>6. times' \in Seq(Nat) /\ Increasing(times')
  <2>1. p \in Seq(Entries)
    BY Constants
  <2> DEFINE t == GetTimes(p)
             S == Seq(Nat)
  <2>2. t \in S /\ Increasing(t)
    BY <2>1, GetTimesIncrease
  <2> HIDE DEF t, S
  <2>3. times' = t
    BY <1>2 DEF t
  <2>4. times' \in S /\ Increasing(times')
    BY <2>2, <2>3
  <2> QED
    BY <2>4 DEF S
<1>7. SearchTyped'
  BY <1>1, <1>3 DEF SearchTyped
<1>8. MatchTyped'
  <2>1. 0 \in 0 .. Len(events')
    <3> DEFINE S == ProperTimes
    <3> HIDE DEF S
    <3>1. events' \in Seq(S)
      BY <1>5 DEF S
    <3> QED
      BY <3>1
  <2>2. Increasing(times)'
    BY <1>6 DEF Increasing
  <2> QED
    BY <1>4, <1>5, <1>6, <2>1, <2>2 DEF MatchTyped
<1>9. Phases'
  <2>1. 0 < Intervals'
    <3> DEFINE S == Nat
    <3> HIDE DEF S
    <3>1. times' \in Seq(S)
      BY <1>6 DEF S
    <3>2. times' # <<>> => Len(times') > 0
      BY <3>1
    <3> QED
      BY <3>2 DEF Intervals
  <2> QED
    BY <1>1, <1>3, <1>4, <2>1 DEF Phases
<1>10. FoundTyped' /\ Consecutive' /\ EachFound'
  BY <1>1, <1>3, SearchKept
<1>11. Locating' /\ Ending'
  BY <1>1 DEF Locating, Ending
<1>12. Counting'
  <2>1. {n \in 1 .. ic' : Wrong(n)'} = {}
    BY <1>4
  <2>2. 1 .. ec' - 1 = {}
    BY <1>4
  <2> QED
    BY <1>4, <2>1, <2>2, FS_EmptySet DEF Counting
<1> QED
  BY <1>7, <1>8, <1>9, <1>10, <1>11, <1>12 DEF PulseInv

\* The bounds of the interval that is matched next.
LEMMA IntervalBounds ==
    ASSUME MatchTyped, ic < Intervals
    PROVE  /\ IntervalStart = Start(ic + 1) /\ IntervalEnd = Bound(ic + 1)
           /\ IntervalStart \in Nat /\ IntervalEnd \in Nat /\ IntervalStart <= IntervalEnd
           /\ Start(ic + 2) = IntervalEnd
<1> DEFINE S == Nat
           l == Len(times)
<1>1. times \in Seq(S) /\ ic \in Nat /\ Increasing(times)
  BY DEF MatchTyped
<1>2. l \in Nat /\ (times = <<>> <=> l = 0) /\ \A i \in 1 .. l : times[i] \in S
  <2> HIDE DEF S
  <2> QED
    BY <1>1
<1>3. \A i \in 2 .. l : times[i - 1] < times[i]
  BY <1>1 DEF Increasing
<1> HIDE DEF l
<1>4. ic + 1 # 1 <=> ic # 0
  BY <1>1
<1>5. (ic + 1) - 1 = ic /\ (ic + 2) - 1 = ic + 1 /\ ic + 2 # 1
  BY <1>1
<1>6. CASE l = 0
  <2>1. ic = 0
    BY <1>1, <1>2, <1>6 DEF Intervals
  <2>2. IntervalStart = 0 /\ IntervalEnd = Forever /\ Start(1) = 0 /\ Bound(1) = Forever /\ Start(2) = Forever
    BY <1>2, <1>6, <2>1 DEF IntervalStart, IntervalEnd, Start, Bound
  <2> QED
    BY <2>1, <2>2 DEF Forever
<1>7. CASE l # 0
  <2>1. ic + 1 \in 1 .. l
    BY <1>1, <1>2, <1>7 DEF Intervals, l
  <2>2. IntervalEnd = times[ic + 1] /\ Bound(ic + 1) = times[ic + 1] /\ Start(ic + 2) = times[ic + 1]
    BY <1>2, <1>5, <1>7 DEF IntervalEnd, Bound, Start
  <2>3. times[ic + 1] \in Nat
    BY <1>2, <2>1
  <2>4. CASE ic = 0
    <3>1. IntervalStart = 0 /\ Start(ic + 1) = 0
      BY <2>4 DEF IntervalStart, Start
    <3> QED
      BY <2>2, <2>3, <3>1
  <2>5. CASE ic # 0
    <3>1. ic \in 1 .. l /\ ic + 1 \in 2 .. l
      <4>1. ic \in Nat
        BY <1>1
      <4> QED
        BY <1>2, <2>1, <2>5, <4>1
    <3>2. times[ic] \in Nat /\ times[ic] < times[ic + 1]
      <4>1. times[(ic + 1) - 1] < times[ic + 1]
        BY <1>3, <3>1
      <4> QED
        BY <1>2, <1>5, <3>1, <4>1
    <3>3. IntervalStart = times[ic] /\ Start(ic + 1) = times[ic]
      BY <1>2, <1>4, <1>5, <1>7, <2>5 DEF IntervalStart, Start, Bound
    <3> QED
      BY <2>2, <2>3, <3>2, <3>3
  <2> QED
    BY <2>4, <2>5
<1> QED
  BY <1>6, <1>7

\* One more interval is wrong or is not.
LEMMA CountOneMore ==
    ASSUME NEW n \in Nat, NEW P
    PROVE  LET A == {i \in 1 .. n : i \in P}
               B == {i \in 1 .. n + 1 : i \in P}
           IN  Cardinality(B) = Cardinality(A) + (IF n + 1 \in P THEN 1 ELSE 0)
<1> DEFINE A == {i \in 1 .. n : i \in P}
           B == {i \in 1 .. n + 1 : i \in P}
<1>1. IsFiniteSet(A)
  <2>1. IsFiniteSet(1 .. n) /\ A \subseteq 1 .. n
    BY FS_Interval
  <2> HIDE DEF A
  <2> QED
    BY <2>1, FS_Subset
<1>2. Cardinality(A) \in Nat
  BY <1>1, FS_CardinalityType
<1>3. CASE n + 1 \in P
  <2>1. B = A \cup {n + 1} /\ n + 1 \notin A
    BY <1>3
  <2>2. Cardinality(B) = Cardinality(A) + 1
    <3> HIDE DEF A, B
    <3> QED
      BY <1>1, <2>1, FS_AddElement
  <2> QED
    BY <1>3, <2>2
<1>4. CASE n + 1 \notin P
  <2>1. B = A
    BY <1>4
  <2>2. Cardinality(B) = Cardinality(A) + 0
    <3> HIDE DEF A, B
    <3> QED
      BY <1>2, <2>1
  <2> QED
    BY <1>4, <2>2
<1> QED
  BY <1>3, <1>4

LEMMA NextIntervalKeeps ==
    ASSUME PulseInv, NextInterval
    PROVE  PulseInv'
<1>1. /\ pc = "match" /\ data' = data /\ kind' = kind /\ from' = from
      /\ win' = win /\ found' = found /\ lost' = lost /\ events' = events /\ times' = times
      /\ ic' = ic + 1 /\ pc' = (IF ic + 1 < Len(times) THEN "match" ELSE "done")
  BY DEF NextInterval, rows
<1> DEFINE count == CountIn(events, ec, IntervalStart, IntervalEnd)
           stop == StopAt(events, ec, IntervalEnd)
<1>2. n_mismatches' = n_mismatches + (IF count = ic % 2 THEN 0 ELSE 1) /\ ec' = stop
  BY DEF NextInterval, MatchInterval
<1>3. SearchTyped /\ FoundTyped /\ MatchTyped /\ Phases /\ Consecutive /\ EachFound /\ Counting
  BY DEF PulseInv
<1>4. ic \in Nat /\ ic < Intervals /\ ec \in 0 .. Len(events) /\ events \in Seq(ProperTimes)
      /\ n_mismatches \in 0 .. ic
  BY <1>1, <1>3 DEF Phases, MatchTyped
<1>5. /\ IntervalStart = Start(ic + 1) /\ IntervalEnd = Bound(ic + 1)
      /\ IntervalStart \in Nat /\ IntervalEnd \in Nat /\ IntervalStart <= IntervalEnd
      /\ Start(ic + 2) = IntervalEnd
  BY <1>3, <1>4, IntervalBounds
<1>6. stop \in ec .. Len(events)
  BY <1>4, <1>5, StopsAt
<1>7. SearchTyped'
  BY <1>1, <1>3 DEF SearchTyped
<1>8. FoundTyped' /\ Consecutive' /\ EachFound'
  BY <1>1, <1>3, SearchKept
<1>9. Locating' /\ Ending'
  BY <1>1 DEF Locating, Ending
<1>10. MatchTyped'
  <2>1. stop \in 0 .. Len(events)
    <3> HIDE DEF stop
    <3>1. Len(events) \in Nat
      BY <1>4
    <3> QED
      BY <1>4, <1>6, <3>1
  <2>2. n_mismatches' \in 0 .. ic + 1 /\ ic + 1 \in Nat
    <3> HIDE DEF count
    <3> QED
      BY <1>2, <1>4
  <2>3. Increasing(times)'
    BY <1>1, <1>3 DEF MatchTyped, Increasing
  <2> HIDE DEF stop
  <2> QED
    BY <1>1, <1>2, <1>3, <2>1, <2>2, <2>3 DEF MatchTyped
<1>11. Phases'
  <2>1. Intervals' = Intervals
    BY <1>1 DEF Intervals
  <2>2. IF ic + 1 < Len(times) THEN ic + 1 < Intervals ELSE ic + 1 = Intervals
    <3> DEFINE l == Len(times)
               S == Nat
    <3>1. l \in Nat /\ (times = <<>> <=> l = 0)
      <4>1. times \in Seq(S)
        BY <1>3 DEF MatchTyped
      <4> HIDE DEF S
      <4> QED
        BY <4>1
    <3>2. Intervals = IF l = 0 THEN 1 ELSE l
      BY <3>1 DEF Intervals
    <3> HIDE DEF l
    <3> QED
      BY <1>4, <3>1, <3>2 DEF l
  <2> QED
    BY <1>1, <1>3, <2>1, <2>2 DEF Phases
<1>12. Counting'
  <2>m. PICK m \in Nat : m = ic
    BY <1>4
  <2> SUFFICES ASSUME InOrder'
               PROVE  /\ \A k \in 1 .. ec' - 1 : Before(events'[k], Start(m + 2)')
                      /\ n_mismatches' = Cardinality({n \in 1 .. m + 1 : Wrong(n)'})
    <3>1. Start(ic + 1)' = Start(m + 2)'
      <4>1. ic' + 1 = m + 2
        BY <1>1, <2>m
      <4> QED
        BY <4>1 DEF Start
    <3>2. ic' = m + 1
      BY <1>1, <2>m
    <3> QED
      BY <3>1, <3>2 DEF Counting
  <2>1. InOrder
    BY <1>1 DEF InOrder
  <2>2. /\ \A k \in 1 .. ec - 1 : Before(events[k], IntervalStart)
        /\ n_mismatches = Cardinality({n \in 1 .. ic : Wrong(n)})
    BY <1>1, <1>3, <1>5, <2>1 DEF Counting
  <2>3. count = Cardinality(Inside(ic + 1)) /\ \A k \in 1 .. stop - 1 : Before(events[k], IntervalEnd)
    <3> DEFINE s == IntervalStart
               t == IntervalEnd
    <3>1. Inside(ic + 1) = {k \in DOMAIN events : NotBefore(events[k], s) /\ Before(events[k], t)}
      BY <1>5 DEF Inside
    <3>2. s \in Nat /\ t \in Nat /\ s <= t
      BY <1>5
    <3> HIDE DEF s, t
    <3>3. /\ CountIn(events, ec, s, t) = Cardinality(Inside(ic + 1))
          /\ \A k \in 1 .. StopAt(events, ec, t) - 1 : Before(events[k], t)
      <4>1. \A k \in 1 .. ec - 1 : Before(events[k], s)
        BY <2>2 DEF s
      <4>2. ec \in 0 .. Len(events) /\ events \in Seq(ProperTimes)
        BY <1>4
      <4> QED
        BY <2>1, <3>1, <3>2, <4>1, <4>2, CountsInside
    <3> QED
      BY <3>3 DEF s, t
  <2>4. Wrong(ic + 1) <=> count # ic % 2
    <3>1. ((ic + 1) + 1) % 2 = ic % 2
      BY <1>4
    <3> QED
      BY <2>3, <3>1 DEF Wrong
  <2>5. Cardinality({n \in 1 .. ic + 1 : Wrong(n)})
            = Cardinality({n \in 1 .. ic : Wrong(n)}) + (IF Wrong(ic + 1) THEN 1 ELSE 0)
    <3> DEFINE P == {n \in 1 .. ic + 1 : Wrong(n)}
    <3>1. {n \in 1 .. ic + 1 : Wrong(n)} = {n \in 1 .. ic + 1 : n \in P}
      OBVIOUS
    <3>2. {n \in 1 .. ic : Wrong(n)} = {n \in 1 .. ic : n \in P}
      BY <1>4
    <3>3. Wrong(ic + 1) <=> ic + 1 \in P
      BY <1>4
    <3> HIDE DEF P
    <3> QED
      BY <1>4, <3>1, <3>2, <3>3, CountOneMore
  <2>6. n_mismatches' = Cardinality({n \in 1 .. ic + 1 : Wrong(n)})
    <3> HIDE DEF count
    <3> QED
      BY <1>2, <2>2, <2>4, <2>5
  <2>7. \A n : Wrong(n)' = Wrong(n)
    BY <1>1 DEF Wrong, Inside, Start, Bound
  <2>8. Start(m + 2)' = IntervalEnd
    <3>1. Start(m + 2)' = Start(m + 2)
      BY <1>1 DEF Start, Bound
    <3> QED
      BY <1>5, <2>m, <3>1
  <2>9. \A k \in 1 .. ec' - 1 : Before(events'[k], Start(m + 2)')
    <3> DEFINE t == IntervalEnd
    <3> HIDE DEF stop, t
    <3> QED
      BY <1>1, <1>2, <2>3, <2>8 DEF t
  <2> QED
    BY <2>m, <2>6, <2>7, <2>9
<1> QED
  BY <1>7, <1>8, <1>9, <1>10, <1>11, <1>12 DEF PulseInv

LEMMA StutterKeeps ==
    ASSUME PulseInv, UNCHANGED vars
    PROVE  PulseInv'
<1>1. /\ pc' = pc /\ data' = data /\ kind' = kind /\ from' = from /\ win' = win /\ found' = found
      /\ lost' = lost /\ events' = events /\ times' = times /\ ic' = ic /\ ec' = ec
      /\ n_mismatches' = n_mismatches
  BY DEF vars, rows, matching
<1>2. /\ SearchTyped /\ FoundTyped /\ MatchTyped /\ Phases /\ Consecutive /\ EachFound
      /\ Locating /\ Ending /\ Counting
  BY DEF PulseInv
<1>3. SearchTyped' /\ Phases'
  BY <1>1, <1>2 DEF SearchTyped, Phases, Intervals
<1>4. FoundTyped' /\ Consecutive' /\ EachFound'
  BY <1>1, <1>2, SearchKept
<1>5. MatchTyped'
  BY <1>1, <1>2, MatchKept DEF matching
<1>6. Locating'
  <2>1. SwingFrom(from, win)' = SwingFrom(from, win)
    <3>1. /\ Swings(from)' = Swings(from) /\ \A p : Rises(p)' = Rises(p)
      <4>1. To' = To /\ \A k : At(k)' = At(k)
        BY <1>1, SameRows
      <4> QED
        BY <1>1, <4>1 DEF Swings, Rises, Abs
    <3> QED
      BY <1>1, <3>1 DEF SwingFrom
  <2> QED
    BY <1>1, <1>2, <2>1, SameRows DEF Locating
<1>7. Ending'
  <2>1. To' = To
    BY <1>1, SameRows
  <2>2. Swings(from)' = Swings(from)
    <3>1. \A k : At(k)' = At(k)
      BY <1>1, SameRows
    <3> QED
      BY <1>1, <2>1, <3>1 DEF Swings, Abs
  <2>3. HasPeak(from)' = HasPeak(from)
    <3>1. /\ \A k : High(k)' = High(k) /\ Low(k)' = Low(k)
          /\ \A k : AboveThreshold(k)' = AboveThreshold(k)
      BY <1>1, SameRows
    <3>2. PeakBegins(from)' = PeakBegins(from)
      BY <1>1, <2>1, <3>1 DEF PeakBegins
    <3>3. \A b : PeakEnds(b)' = PeakEnds(b)
      BY <2>1, <3>1 DEF PeakEnds
    <3>4. AboveThreshold(from)' = AboveThreshold(from) /\ AboveThreshold(To)' = AboveThreshold(To)
      <4>1. Maximum' = Maximum
        BY <1>1, SameRows
      <4> QED
        BY <1>1, <2>1, <4>1 DEF AboveThreshold, At
    <3> QED
      BY <3>2, <3>3, <3>4 DEF HasPeak
  <2> QED
    BY <1>1, <1>2, <2>1, <2>2, <2>3 DEF Ending
<1>8. Counting'
  <2>1. \A n : Wrong(n)' = Wrong(n)
    BY <1>1 DEF Wrong, Inside, Start, Bound
  <2>2. Start(ic + 1)' = Start(ic + 1)
    BY <1>1 DEF Start, Bound
  <2>3. InOrder' = InOrder
    BY <1>1 DEF InOrder
  <2> QED
    BY <1>1, <1>2, <2>1, <2>2, <2>3 DEF Counting
<1> QED
  BY <1>3, <1>4, <1>5, <1>6, <1>7, <1>8 DEF PulseInv

LEMMA NextKeeps == PulseInv /\ [Next]_vars => PulseInv'
<1> SUFFICES ASSUME PulseInv, [Next]_vars PROVE PulseInv'
  OBVIOUS
<1>1. CASE UNCHANGED vars
  BY <1>1, StutterKeeps
<1>2. ASSUME NEW v \in Values, AddDatum(v) PROVE PulseInv'
  BY <1>2, AddDatumKeeps
<1>3. ASSUME NEW k \in {"peaks", "edges"}, Search(k) PROVE PulseInv'
  BY <1>3, SearchKeeps
<1>4. CASE Searching
  <2>1. CASE FindPeak
    BY <2>1, FindPeakKeeps
  <2>2. CASE Abort \/ NoMorePeaks \/ NoMoreEdges \/ ReadBeforeFirst
    BY <2>2, EndKeeps
  <2>3. CASE FindSwing
    BY <2>3, FindSwingKeeps
  <2>4. CASE Widen \/ WideEnough
    BY <2>4, WidenKeeps
  <2>5. CASE LocateEdge
    BY <2>5, LocateEdgeKeeps
  <2> QED
    BY <1>4, <2>1, <2>2, <2>3, <2>4, <2>5 DEF Searching
<1>5. ASSUME NEW sense \in {"any", "rising", "falling"}, NEW p \in Patterns, Match(sense, p)
      PROVE  PulseInv'
  BY <1>5, MatchKeeps
<1>6. CASE NextInterval
  BY <1>6, NextIntervalKeeps
<1>7. CASE Ended
  BY <1>1, <1>7, StutterKeeps DEF Ended
<1> QED
  BY <1>1, <1>2, <1>3, <1>4, <1>5, <1>6, <1>7 DEF Next

LEMMA PulseAlways == Spec => []PulseInv
<1>1. Init => PulseInv
  BY InitKeeps
<1>2. PulseInv /\ [Next]_vars => PulseInv'
  BY NextKeeps
<1> QED
  BY <1>1, <1>2, PTL DEF Spec

(***************************************************************************)
(* What follows from the invariant                                         *)
(***************************************************************************)

LEMMA TypesFollow == PulseInv => PulseTypeOK
<1> SUFFICES ASSUME PulseInv PROVE PulseTypeOK
  OBVIOUS
<1> DEFINE S == Finds
           E == ProperTimes
<1>1. SearchTyped /\ FoundTyped /\ MatchTyped /\ Phases /\ Consecutive
  BY DEF PulseInv
<1>2. found \in Seq(S) /\ events \in Seq(E) /\ data \in Seq(Values) /\ Len(data) <= MaxRows
  BY <1>1 DEF FoundTyped, MatchTyped, SearchTyped
<1>3. To \in Int /\ To + 1 <= MaxRows
  BY <1>2, Rows
<1>4. Len(found) \in Nat /\ DOMAIN found = 1 .. Len(found) /\ DOMAIN events = 1 .. Len(events)
  <2> HIDE DEF S, E
  <2> QED
    BY <1>2
<1>5. \A i \in DOMAIN found : found[i] \in S
  <2> HIDE DEF S, E
  <2> QED
    BY <1>2
<1>6. \A i \in DOMAIN events : events[i] \in E
  <2> HIDE DEF S, E
  <2> QED
    BY <1>2
<1>7. ASSUME NEW f \in ToSet(found)
      PROVE  /\ f.bgn \in 0 .. To /\ f.end \in f.bgn + 1 .. To
             /\ f.rising \in BOOLEAN /\ f.time \in Times
  <2>1. PICK i \in DOMAIN found : f = found[i]
    BY DEF ToSet
  <2>2. f.bgn \in Nat /\ f.end \in Nat /\ f.rising \in BOOLEAN /\ f.time \in Times
    BY <1>5, <2>1 DEF Finds, ProperTimes
  <2>3. f.bgn < f.end /\ f.end <= To
    BY <1>1, <2>1 DEF FoundTyped
  <2> QED
    BY <1>3, <2>2, <2>3
<1>8. \A e \in ToSet(events) : e \in Times
  BY <1>6 DEF ToSet, ProperTimes
<1>9. from \in 0 .. MaxRows
  <2>1. CASE Len(found) = 0
    BY <1>1, <2>1, Constants DEF Consecutive, StartOf
  <2>2. CASE Len(found) # 0
    <3> DEFINE l == Len(found)
    <3>1. l \in DOMAIN found /\ l \in Nat /\ l + 1 # 1 /\ (l + 1) - 1 = l
      BY <1>4, <2>2
    <3>2. from = found[l].end
      BY <1>1, <3>1 DEF Consecutive, StartOf
    <3>3. found[l].end \in Nat /\ found[l].end <= To
      BY <1>1, <1>5, <3>1 DEF Finds, FoundTyped
    <3> QED
      BY <1>3, <3>2, <3>3, Constants
  <2> QED
    BY <2>1, <2>2
<1>10. /\ win.bgn \in 0 .. MaxRows /\ win.end \in 0 .. MaxRows /\ win.rising \in BOOLEAN
  BY <1>1 DEF SearchTyped
<1>11. ic \in 0 .. Len(times) + 1
  <2> DEFINE N == Nat
             l == Len(times)
  <2>1. times \in Seq(N) /\ ic \in Nat
    BY <1>1 DEF MatchTyped
  <2>2. l \in Nat
    <3> HIDE DEF N
    <3> QED
      BY <2>1
  <2>3. Intervals <= l + 1
    <3> HIDE DEF l
    <3>1. Intervals = 1 \/ Intervals = l
      BY DEF Intervals, l
    <3> QED
      BY <2>2, <3>1
  <2>4. ic <= l + 1
    <3>1. Intervals = 1 \/ Intervals = l
      BY DEF Intervals
    <3> HIDE DEF l
    <3>2. ic = 0 \/ ic < Intervals \/ ic = Intervals
      BY <1>1 DEF Phases
    <3> QED
      BY <2>1, <2>2, <2>3, <3>1, <3>2
  <2> HIDE DEF l
  <2> QED
    BY <2>1, <2>2, <2>4 DEF l
<1>12. /\ times \in Seq(Nat) /\ \A i \in 2 .. Len(times) : times[i - 1] < times[i]
       /\ ec \in 0 .. Len(events) /\ n_mismatches \in 0 .. ic
  BY <1>1 DEF MatchTyped, Increasing
<1>13. /\ pc \in {"collect", "search", "widen", "locate", "searched", "match", "done",
                  "aborted", "out_of_range"}
       /\ data \in Seq(Values) /\ Len(data) <= MaxRows
       /\ kind \in {"none", "peaks", "edges"} /\ lost \in BOOLEAN
  BY <1>1 DEF SearchTyped
<1> QED
  BY <1>7, <1>8, <1>9, <1>10, <1>11, <1>12, <1>13 DEF PulseTypeOK

\* Rows, windows, what is found and what is matched have their types: windows
\* lie in the column, and the times of a pattern increase whatever its entries.
THEOREM PulseTypes == Spec => []PulseTypeOK
BY PulseAlways, TypesFollow, PTL

\* What is found, numbered.
LEMMA FoundFacts ==
    ASSUME PulseInv
    PROVE  /\ data \in Seq(Values) /\ from \in Nat /\ To \in Int
           /\ Len(found) \in Nat /\ DOMAIN found = 1 .. Len(found)
           /\ \A i \in DOMAIN found : /\ found[i] \in Finds
                                     /\ found[i].bgn \in Nat /\ found[i].end \in Nat
                                     /\ found[i].bgn < found[i].end
                                     /\ found[i].end <= To /\ found[i].end <= from
                                     /\ StartOf(i) \in Nat
           /\ \A i \in 2 .. Len(found) : i \in DOMAIN found /\ StartOf(i) = found[i - 1].end
<1> DEFINE S == Finds
<1>1. found \in Seq(S)
  BY DEF PulseInv, FoundTyped
<1>2. Len(found) \in Nat /\ DOMAIN found = 1 .. Len(found) /\ \A i \in DOMAIN found : found[i] \in S
  <2> HIDE DEF S
  <2> QED
    BY <1>1
<1>3. data \in Seq(Values) /\ from \in Nat /\ To \in Int
  BY Rows DEF PulseInv, SearchTyped
<1>4. \A i \in DOMAIN found : found[i].bgn \in Nat /\ found[i].end \in Nat
  BY <1>2 DEF Finds
<1>5. \A i \in DOMAIN found : /\ found[i].bgn < found[i].end
                             /\ found[i].end <= To /\ found[i].end <= from
  BY DEF PulseInv, FoundTyped
<1>6. \A i \in 2 .. Len(found) : i \in DOMAIN found /\ i - 1 \in DOMAIN found /\ i # 1
  BY <1>2
<1>7. \A i \in 2 .. Len(found) : StartOf(i) = found[i - 1].end
  BY <1>6 DEF StartOf
<1>8. ASSUME NEW i \in DOMAIN found PROVE StartOf(i) \in Nat
  <2>1. CASE i = 1
    BY <2>1 DEF StartOf
  <2>2. CASE i # 1
    <3>1. i \in 2 .. Len(found)
      BY <1>2, <2>2
    <3> QED
      BY <1>4, <1>6, <1>7, <3>1
  <2> QED
    BY <2>1, <2>2
<1> QED
  BY <1>2, <1>3, <1>4, <1>5, <1>6, <1>7, <1>8

LEMMA HalfTimes ==
    ASSUME NEW e \in ProperTimes, NEW b \in Nat,
           e = NaN \/ (e.den = 2 /\ 2 * b <= e.num)
    PROVE  /\ ~NotBefore(e, b) => e = NaN
           /\ NotBefore(e, 0) => e.den = 2
<1>1. CASE e = NaN
  BY <1>1 DEF NotBefore, NaN
<1>2. CASE e.den = 2 /\ 2 * b <= e.num
  <2>1. e.num \in Int
    BY DEF ProperTimes, Times
  <2>2. b * 2 = 2 * b
    OBVIOUS
  <2>3. NotBefore(e, b)
    BY <1>2, <2>1, <2>2 DEF NotBefore
  <2> QED
    BY <1>2, <2>3
<1> QED
  BY <1>1, <1>2

LEMMA EdgesFollow == PulseInv => EdgesAscend
<1> SUFFICES ASSUME PulseInv, kind = "edges", NEW i \in 2 .. Len(found)
             PROVE  /\ found[i - 1].end <= found[i].bgn
                    /\ ~NotBefore(found[i].time, found[i].bgn) => found[i].time = NaN
                    /\ NotBefore(found[i - 1].time, 0) /\ NotBefore(found[i].time, 0)
                           => Earlier(found[i - 1].time, found[i].time)
  BY DEF EdgesAscend
<1>1. /\ i \in DOMAIN found /\ i - 1 \in DOMAIN found /\ StartOf(i) = found[i - 1].end
  BY FoundFacts
<1> DEFINE f == found[i]
           g == found[i - 1]
<1>2. EdgeFrom(StartOf(i), f) /\ EdgeFrom(StartOf(i - 1), g)
  BY <1>1 DEF PulseInv, EachFound
<1>3. f \in Finds /\ g \in Finds
  BY <1>1, FoundFacts
<1>4. /\ f.bgn \in Nat /\ g.bgn \in Nat /\ g.end \in Nat
      /\ f.time \in ProperTimes /\ g.time \in ProperTimes
  BY <1>3 DEF Finds
<1>5. g.end <= f.bgn
  BY <1>1, <1>2 DEF EdgeFrom
<1> HIDE DEF f, g
<1>6. /\ f.time = NaN \/ (f.time.den = 2 /\ 2 * f.bgn <= f.time.num)
      /\ g.time = NaN \/ (g.time.den = 2 /\ 2 * g.bgn <= g.time.num /\ g.time.num < 2 * g.end)
  BY <1>2 DEF EdgeFrom
<1>7. ~NotBefore(f.time, f.bgn) => f.time = NaN
  BY <1>4, <1>6, HalfTimes
<1>8. ASSUME NotBefore(g.time, 0), NotBefore(f.time, 0)
      PROVE  Earlier(g.time, f.time)
  <2>1. f.time.den = 2 /\ g.time.den = 2
    BY <1>4, <1>6, <1>8, HalfTimes
  <2>2. 2 * f.bgn <= f.time.num /\ g.time.num < 2 * g.end
    BY <1>6, <2>1 DEF NaN
  <2>3. f.time.num \in Int /\ g.time.num \in Int
    BY <1>4 DEF ProperTimes, Times
  <2>4. g.time.num < f.time.num
    BY <1>4, <1>5, <2>2, <2>3
  <2> QED
    BY <2>1, <2>3, <2>4 DEF Earlier
<1> QED
  BY <1>5, <1>7, <1>8 DEF f, g

LEMMA AbortsFollow == PulseInv => AbortsAtEndOnly
<1> SUFFICES ASSUME PulseInv, pc = "aborted", ~(Len(data) < 2)
             PROVE  kind = "edges" /\ found # <<>> /\ Last(found).end = To
  BY DEF AbortsAtEndOnly
<1> DEFINE l == Len(found)
<1>1. from >= To /\ from = StartOf(l + 1) /\ kind \in {"peaks", "edges"}
  BY DEF PulseInv, Ending, Consecutive, Phases
<1>2. data \in Seq(Values) /\ from \in Nat /\ To \in Int /\ l \in Nat /\ DOMAIN found = 1 .. l
  BY FoundFacts
<1>3. To >= 1
  <2>1. Len(data) = To + 1
    BY <1>2, Rows
  <2> QED
    BY <1>2, <2>1
<1> HIDE DEF l
<1>4. l # 0
  <2> SUFFICES ASSUME l = 0 PROVE FALSE
    OBVIOUS
  <2>1. l + 1 = 1
    OBVIOUS
  <2> QED
    BY <1>1, <1>2, <1>3, <2>1 DEF StartOf
<1>5. l \in DOMAIN found /\ from = found[l].end
  <2>1. l + 1 # 1 /\ (l + 1) - 1 = l /\ l \in 1 .. l
    BY <1>2, <1>4
  <2> QED
    BY <1>1, <1>2, <2>1 DEF StartOf
<1>6. found[l].end <= To
  BY <1>5, FoundFacts
<1>7. found[l].end = To
  BY <1>1, <1>2, <1>5, <1>6
<1>8. kind # "peaks"
  <2> SUFFICES ASSUME kind = "peaks" PROVE FALSE
    OBVIOUS
  <2>1. PeakFrom(StartOf(l), found[l])
    BY <1>5 DEF PulseInv, EachFound
  <2>2. found[l].end \in found[l].bgn + 1 .. To - 1
    BY <2>1 DEF PeakFrom
  <2> QED
    BY <1>2, <1>7, <2>2
<1>9. found # <<>> /\ Last(found) = found[l]
  BY <1>4 DEF l, Last
<1> QED
  BY <1>1, <1>7, <1>8, <1>9

\* Whatever the column, edges follow each other and lie in their windows, and a
\* search aborts on nothing but the end of the column.
THEOREM SearchAlwaysAdvances == Spec => []SearchAdvances
<1>1. PulseInv => SearchAdvances
  BY EdgesFollow, AbortsFollow DEF SearchAdvances
<1> QED
  BY <1>1, PulseAlways, PTL

LEMMA MismatchesFollow == PulseInv => MismatchesExact
<1> SUFFICES ASSUME PulseInv, pc = "done", InOrder
             PROVE  n_mismatches = Mismatches(events, times)
  BY DEF MismatchesExact, InOrder
<1> DEFINE bounds == IF times = <<>> THEN <<Forever>> ELSE times
           N == Nat
<1>1. n_mismatches = Cardinality({n \in 1 .. ic : Wrong(n)}) /\ ic = Intervals
  BY DEF PulseInv, Counting, Phases
<1>2. times \in Seq(N)
  BY DEF PulseInv, MatchTyped
<1>3. DOMAIN bounds = 1 .. Intervals
  <2>1. CASE times = <<>>
    <3>1. Len(<<Forever>>) = 1 /\ DOMAIN <<Forever>> = 1 .. 1
      OBVIOUS
    <3> QED
      BY <2>1, <3>1 DEF Intervals
  <2>2. CASE times # <<>>
    <3>1. DOMAIN times = 1 .. Len(times)
      <4> HIDE DEF N
      <4> QED
        BY <1>2
    <3> QED
      BY <2>2, <3>1 DEF Intervals
  <2> QED
    BY <2>1, <2>2
<1> DEFINE start(n) == IF n = 1 THEN 0 ELSE bounds[n - 1]
           inside(n) == {k \in DOMAIN events :
                            NotBefore(events[k], start(n)) /\ Before(events[k], bounds[n])}
<1>4. ASSUME NEW n \in DOMAIN bounds PROVE inside(n) = Inside(n)
  <2>1. bounds[n] = Bound(n)
    <3>1. times = <<>> => n = 1
      BY <1>3 DEF Intervals
    <3> QED
      BY <3>1 DEF Bound
  <2>2. start(n) = Start(n)
    <3>1. CASE n = 1
      BY <3>1 DEF Start
    <3>2. CASE n # 1
      <4>1. times # <<>>
        BY <1>3, <3>2 DEF Intervals
      <4> QED
        BY <3>2, <4>1 DEF Start, Bound
    <3> QED
      BY <3>1, <3>2
  <2> HIDE DEF start, bounds
  <2> QED
    BY <2>1, <2>2 DEF Inside
<1>5. Mismatches(events, times)
          = Cardinality({n \in DOMAIN bounds : Cardinality(inside(n)) # (n + 1) % 2})
  BY DEF Mismatches
<1>6. {n \in DOMAIN bounds : Cardinality(inside(n)) # (n + 1) % 2} = {n \in 1 .. ic : Wrong(n)}
  <2> HIDE DEF inside, bounds
  <2> QED
    BY <1>1, <1>3, <1>4 DEF Wrong
<1> HIDE DEF inside, bounds
<1> QED
  BY <1>1, <1>5, <1>6

\* With events in the order of their times, what is counted is what a look at
\* every interval would count.
THEOREM MismatchesAlwaysExact == Spec => []MismatchesExact
BY MismatchesFollow, PulseAlways, PTL

(***************************************************************************)
(* No pulse is missed, made up or found twice                              *)
(***************************************************************************)
LEMMA SwingsFollow == PulseInv => NoSwingMissed
<1> SUFFICES ASSUME PulseInv, pc = "searched", kind = "edges" PROVE NoSwingMissed
  BY DEF NoSwingMissed
<1>1. Swings(from) = {}
  BY DEF PulseInv, Ending
<1>2. from \in Nat /\ To \in Int
  BY FoundFacts
<1>3. ASSUME NEW p \in Swings(0)
      PROVE  \E i \in DOMAIN found : p \in StartOf(i) .. found[i].end - 1
  <2>1. p \in 0 .. To /\ p + Window < To /\ Abs(At(p) - At(p + Window)) >= MinChange
    BY DEF Swings
  <2>2. CASE p >= from
    <3>1. p \in from .. To
      BY <1>2, <2>1, <2>2
    <3>2. p \in Swings(from)
      BY <2>1, <3>1 DEF Swings
    <3> QED
      BY <1>1, <3>2
  <2>3. CASE p < from
    <3>1. p \in 0 .. from - 1
      BY <1>2, <2>1, <2>3
    <3> QED
      BY <3>1 DEF PulseInv, Consecutive
  <2>4. p >= from \/ p < from
    BY <1>2, <2>1
  <2> QED
    BY <2>2, <2>3, <2>4
<1>4. ASSUME NEW i \in DOMAIN found
      PROVE  \E p \in Swings(StartOf(i)) : p < found[i].end /\ found[i].rising = Rises(p)
  <2>1. EdgeFrom(StartOf(i), found[i])
    BY DEF PulseInv, EachFound
  <2> QED
    BY <2>1 DEF EdgeFrom, SwingFrom
<1> QED
  BY <1>3, <1>4 DEF NoSwingMissed, StartOf

\* Between the thresholds the hysteresis remembers.
LEMMA Hysteresis ==
    ASSUME data \in Seq(Values), Maximum > 0, NEW k \in 0 .. To
    PROVE  /\ Low(k) => ~High(k) /\ ~AboveThreshold(k)
           /\ High(k) => Up(k)
           /\ Low(k) => ~Up(k)
           /\ k > 0 /\ Up(k) /\ ~High(k) => Up(k - 1)
<1>1. At(k) \in Int /\ To \in Int /\ To >= 0
  BY Rows
<1>2. Maximum \in Int
  BY <1>1, MaximumIsGreatest
<1>3. Low(k) => ~High(k) /\ ~AboveThreshold(k)
  BY <1>1, <1>2 DEF Low, High, AboveThreshold
<1>4. High(k) => Up(k)
  <2>1. k \in 0 .. k /\ \A m \in k .. k : m = k
    BY <1>1
  <2> QED
    BY <1>3, <2>1 DEF Up
<1>5. Low(k) => ~Up(k)
  <2>1. \A j \in 0 .. k : k \in j .. k
    BY <1>1
  <2> QED
    BY <2>1 DEF Up
<1>6. ASSUME k > 0, Up(k), ~High(k) PROVE Up(k - 1)
  <2>1. PICK j \in 0 .. k : High(j) /\ \A m \in j .. k : ~Low(m)
    BY <1>6 DEF Up
  <2>2. j # k
    BY <1>6, <2>1
  <2>3. j \in 0 .. k - 1 /\ \A m \in j .. k - 1 : m \in j .. k
    BY <1>1, <2>1, <2>2
  <2> QED
    BY <2>1, <2>3 DEF Up
<1> QED
  BY <1>3, <1>4, <1>5, <1>6

\* Where the column goes up and later down, a peak is there to be found.
LEMMA ExcursionIsPeak ==
    ASSUME data \in Seq(Values), Maximum > 0, NEW k \in Excursions
    PROVE  /\ k \in 1 .. To - 1 /\ ~AboveThreshold(0) /\ ~AboveThreshold(To)
           /\ High(k) /\ Up(k) /\ ~Up(k - 1) /\ PeakEnds(k) # {}
<1>1. /\ k \in 1 .. To - 1 /\ ~AboveThreshold(0) /\ ~AboveThreshold(To)
      /\ Up(k) /\ ~Up(k - 1)
  BY DEF Excursions
<1>2. PICK j \in k + 1 .. To - 1 : ~Up(j)
  BY DEF Excursions
<1>3. To \in Int /\ k \in Int /\ k > 0 /\ k \in 0 .. To /\ j \in 0 .. To
  BY <1>1, <1>2, Rows
<1>4. High(k)
  BY <1>1, <1>3, Hysteresis
<1>5. PICK m \in k .. j : Low(m)
  <2>1. k \in 0 .. j
    BY <1>2, <1>3
  <2> QED
    BY <1>2, <1>4, <2>1 DEF Up
<1>6. m # k
  BY <1>3, <1>4, <1>5, Hysteresis
<1>7. m \in k + 1 .. To - 1
  BY <1>2, <1>3, <1>5, <1>6
<1>8. m \in PeakEnds(k)
  BY <1>5, <1>7 DEF PeakEnds
<1> QED
  BY <1>1, <1>4, <1>8

\* A peak that was found is where the column goes up, and comes down again.
LEMMA PeakIsExcursion ==
    ASSUME PulseInv, kind = "peaks", Maximum > 0, NEW i \in DOMAIN found
    PROVE  found[i].bgn \in Excursions
<1> DEFINE s == StartOf(i)
           b == found[i].bgn
           e == found[i].end
<1>1. /\ data \in Seq(Values) /\ To \in Int /\ Len(found) \in Nat /\ DOMAIN found = 1 .. Len(found)
      /\ s \in Nat /\ b \in Nat /\ e \in Nat
  BY FoundFacts
<1>2. PeakFrom(s, found[i])
  BY DEF PulseInv, EachFound
<1>3. /\ ~AboveThreshold(s) /\ ~AboveThreshold(To)
      /\ b \in s + 1 .. To - 1 /\ e \in b + 1 .. To - 1
      /\ High(b) /\ \A k \in s .. b - 1 : ~High(k)
      /\ Low(e)
  BY <1>2 DEF PeakFrom
<1>4. s = 0 \/ (i > 1 /\ i - 1 \in DOMAIN found /\ s = found[i - 1].end)
  <2>1. CASE i = 1
    BY <2>1 DEF StartOf
  <2>2. CASE i # 1
    BY <1>1, <2>2 DEF StartOf
  <2> QED
    BY <2>1, <2>2
\* A later search begins where the column is low.
<1>5. s # 0 => Low(s)
  <2> SUFFICES ASSUME s # 0 PROVE Low(s)
    OBVIOUS
  <2>1. PeakFrom(StartOf(i - 1), found[i - 1]) /\ s = found[i - 1].end
    BY <1>4 DEF PulseInv, EachFound
  <2> HIDE DEF s
  <2> QED
    BY <2>1 DEF PeakFrom
<1>6. ~AboveThreshold(0)
  <2>1. 1 \in DOMAIN found
    BY <1>1
  <2>2. PeakFrom(StartOf(1), found[1])
    BY <2>1 DEF PulseInv, EachFound
  <2> QED
    BY <2>2 DEF PeakFrom, StartOf
<1> HIDE DEF s, b, e
<1>7. b \in 1 .. To - 1 /\ b \in 0 .. To /\ e \in 0 .. To /\ s \in 0 .. To
  BY <1>1, <1>3
<1>8. Up(b)
  BY <1>1, <1>3, <1>7, Hysteresis
<1>9. ~Up(e) /\ e \in b + 1 .. To - 1
  BY <1>1, <1>3, <1>7, Hysteresis
<1>10. ~Up(b - 1)
  <2> SUFFICES ASSUME Up(b - 1) PROVE FALSE
    OBVIOUS
  <2>1. PICK j \in 0 .. b - 1 : High(j) /\ \A m \in j .. b - 1 : ~Low(m)
    BY DEF Up
  <2>2. j < s
    <3>1. j \in s .. b - 1 \/ j < s
      BY <1>1, <1>7
    <3> QED
      BY <1>3, <2>1, <3>1
  <2>3. s # 0 /\ s \in j .. b - 1
    BY <1>1, <1>3, <2>1, <2>2
  <2> QED
    BY <1>5, <2>1, <2>3
<1> QED
  BY <1>3, <1>6, <1>7, <1>8, <1>9, <1>10 DEF Excursions, b

\* And an excursion in what was searched is a peak that was found.
LEMMA ExcursionIsFound ==
    ASSUME PulseInv, kind = "peaks", Maximum > 0, NEW k \in Excursions, k < from
    PROVE  \E i \in DOMAIN found : k = found[i].bgn
<1>1. /\ data \in Seq(Values) /\ To \in Int /\ from \in Nat
  BY FoundFacts
<1>2. k \in 1 .. To - 1 /\ High(k) /\ ~Up(k - 1)
  BY <1>1, ExcursionIsPeak
<1>3. PICK i \in DOMAIN found : k \in StartOf(i) .. found[i].end - 1
  <2>1. k \in 0 .. from - 1
    BY <1>1, <1>2
  <2> QED
    BY <2>1 DEF PulseInv, Consecutive
<1> DEFINE s == StartOf(i)
           b == found[i].bgn
           e == found[i].end
<1>4. s \in Nat /\ b \in Nat /\ e \in Nat
  BY FoundFacts
<1>5. /\ \A m \in s .. b - 1 : ~High(m)
      /\ High(b) /\ b \in s + 1 .. To - 1
      /\ \A m \in b + 1 .. e - 1 : ~Low(m)
  <2>1. PeakFrom(s, found[i])
    BY DEF PulseInv, EachFound
  <2> QED
    BY <2>1 DEF PeakFrom
<1>6. k \in s .. e - 1
  BY <1>3
<1> HIDE DEF s, b, e
<1>7. k >= b
  <2> SUFFICES ASSUME k < b PROVE FALSE
    BY <1>2, <1>4
  <2>1. k \in s .. b - 1
    BY <1>2, <1>4, <1>6
  <2> QED
    BY <1>2, <1>5, <2>1
<1>8. ~(k > b)
  <2> SUFFICES ASSUME k > b PROVE FALSE
    OBVIOUS
  <2>1. ~Low(b)
    <3>1. b \in 0 .. To
      <4>1. b \in s + 1 .. To - 1
        BY <1>5
      <4> QED
        BY <1>1, <1>4, <4>1
    <3> QED
      BY <1>1, <1>5, <3>1, Hysteresis
  <2>2. \A m \in b .. k - 1 : ~Low(m)
    <3> SUFFICES ASSUME NEW m \in b .. k - 1 PROVE ~Low(m)
      OBVIOUS
    <3>1. m = b \/ m \in b + 1 .. e - 1
      BY <1>2, <1>4, <1>6
    <3> QED
      BY <1>5, <2>1, <3>1
  <2>3. b \in 0 .. k - 1
    BY <1>2, <1>4
  <2>4. Up(k - 1)
    BY <1>5, <2>2, <2>3 DEF Up
  <2> QED
    BY <1>2, <2>4
<1>9. k = b
  BY <1>2, <1>4, <1>7, <1>8
<1> QED
  BY <1>9 DEF b

\* A search that ends for want of a peak leaves no excursion behind it.
LEMMA NoneLeft ==
    ASSUME PulseInv, kind = "peaks", Maximum > 0, NEW k \in Excursions, k >= from
    PROVE  HasPeak(from)
<1>1. /\ data \in Seq(Values) /\ To \in Int /\ from \in Nat /\ Len(found) \in Nat
      /\ DOMAIN found = 1 .. Len(found)
  BY FoundFacts
<1>2. /\ k \in 1 .. To - 1 /\ ~AboveThreshold(0) /\ ~AboveThreshold(To)
      /\ High(k) /\ PeakEnds(k) # {}
  BY <1>1, ExcursionIsPeak
<1>3. k \in PeakBegins(from)
  <2>1. k \in from .. To - 1
    BY <1>1, <1>2
  <2> QED
    BY <1>2, <2>1 DEF PeakBegins
<1>4. ~AboveThreshold(from)
  <2> DEFINE l == Len(found)
  <2>1. from = StartOf(l + 1)
    BY DEF PulseInv, Consecutive
  <2>2. CASE l = 0
    <3>1. from = 0
      BY <2>1, <2>2 DEF StartOf
    <3> QED
      BY <1>2, <3>1
  <2>3. CASE l # 0
    <3> HIDE DEF l
    <3>1. l \in DOMAIN found /\ l + 1 # 1 /\ (l + 1) - 1 = l
      BY <1>1, <2>3 DEF l
    <3>2. from = found[l].end
      BY <2>1, <3>1 DEF StartOf
    <3>3. Low(from)
      <4>1. PeakFrom(StartOf(l), found[l])
        BY <3>1 DEF PulseInv, EachFound
      <4> QED
        BY <3>2, <4>1 DEF PeakFrom
    <3>4. from \in 0 .. To
      BY <1>1, <3>1, <3>2, FoundFacts
    <3> QED
      BY <1>1, <3>3, <3>4, Hysteresis
  <2> QED
    BY <2>2, <2>3
<1> QED
  BY <1>2, <1>3, <1>4 DEF HasPeak

LEMMA PeaksFollow == PulseInv => PeaksAreExcursions
<1> DEFINE begins == {found[i].bgn : i \in DOMAIN found}
<1> SUFFICES ASSUME PulseInv, pc = "searched", kind = "peaks", Maximum > 0
             PROVE  /\ \A i \in 2 .. Len(found) : found[i - 1].end < found[i].bgn
                    /\ begins \subseteq Excursions
                    /\ \A k \in Excursions \ begins : lost /\ \A b \in begins : b < k
  BY DEF PeaksAreExcursions
<1>1. /\ data \in Seq(Values) /\ To \in Int /\ from \in Nat
  BY FoundFacts
<1>2. ASSUME NEW i \in 2 .. Len(found) PROVE found[i - 1].end < found[i].bgn
  <2>1. i \in DOMAIN found /\ StartOf(i) = found[i - 1].end /\ StartOf(i) \in Nat /\ found[i].bgn \in Nat
    BY FoundFacts
  <2>2. PeakFrom(StartOf(i), found[i])
    BY <2>1 DEF PulseInv, EachFound
  <2>3. found[i].bgn \in StartOf(i) + 1 .. To - 1
    BY <2>2 DEF PeakFrom
  <2> QED
    BY <1>1, <2>1, <2>3
<1>3. begins \subseteq Excursions
  BY PeakIsExcursion
<1>4. ASSUME NEW k \in Excursions, k \notin begins
      PROVE  lost /\ \A b \in begins : b < k
  <2>1. k \in Int
    BY <1>1, ExcursionIsPeak
  <2>2. k >= from
    <3> SUFFICES ASSUME k < from PROVE FALSE
      BY <1>1, <2>1
    <3>1. \E i \in DOMAIN found : k = found[i].bgn
      BY ExcursionIsFound
    <3> QED
      BY <1>4, <3>1
  <2>3. HasPeak(from)
    BY <2>2, NoneLeft
  <2>4. lost
    BY <2>3 DEF PulseInv, Ending
  <2>5. ASSUME NEW i \in DOMAIN found PROVE found[i].bgn < k
    <3>1. /\ found[i].bgn \in Nat /\ found[i].end \in Nat
          /\ found[i].bgn < found[i].end /\ found[i].end <= from
      BY FoundFacts
    <3> QED
      BY <1>1, <2>1, <2>2, <3>1
  <2> QED
    BY <2>4, <2>5
<1> QED
  BY <1>2, <1>3, <1>4

\* Peaks are the excursions above the threshold, edges account for every swing
\* of the column: whatever the column, none is missed, made up or found twice.
THEOREM PulsesAlwaysFound == Spec => []PulsesFound
<1>1. PulseInv => PulsesFound
  BY PeaksFollow, SwingsFollow DEF PulsesFound
<1> QED
  BY <1>1, PulseAlways, PTL
-----------------------------------------------------------------------------
(***************************************************************************)
(* The simulator process (JosimRun), for every set of nodes, header, table *)
(* and pipe: no run leaks into the next, columns of one run are one table, *)
(* and with a simulator that does not fail valid results are complete.     *)
(*                                                                         *)
(* The argument counts lines.  What is in the pipe is the end of what the  *)
(* child has written, so the rows a fresh column holds are the lines       *)
(* written, less those in the pipe, less the header.  The parent leaves    *)
(* its loop only when the pipe is empty and nobody can write any more.     *)
(***************************************************************************)

HeaderLines == [header : {h \in Seq(STRING) : Len(h) <= Width}]
RowLines == [row : 1 .. Width]

\* A simulator that does not fail writes whole lines and its own header.
HeaderLine(l) == l \in HeaderLines /\ (~mayFail => l = [header |-> Header])
RowLine(l) == l \in RowLines /\ (~mayFail => l = [row |-> Width])

\* Where the child can be while the parent is at parent.
Phase ==
    /\ parent \in {"fork", "valid"} => child = "none"
    /\ parent = "open_deck" => child \in {"none", "start", "dead"}
    /\ parent = "write_deck" => child \in {"read_deck", "dead"}
    /\ parent = "open_csv" => child \in {"simulate", "open_csv", "dead"}
    /\ parent \in {"header", "rows"} => child \in {"writing", "close", "exited", "dead"}
    /\ parent = "wait" => child \in {"close", "exited", "dead"}
    /\ parent # "fork" => n_josim_runs < MaxRuns

\* The pipe holds the end of what the child has written.
Stream ==
    /\ csv \in Seq(HeaderLines \cup RowLines)
    /\ parent \in {"open_deck", "write_deck", "open_csv"} => written = 0
    /\ parent \notin {"header", "rows", "exited"} => csv = <<>>
    /\ parent = "header" => /\ Len(csv) = written
                            /\ csv # <<>> => HeaderLine(csv[1])
                            /\ \A i \in 2 .. Len(csv) : RowLine(csv[i])
    /\ parent = "rows" => /\ Len(csv) < written
                          /\ \A i \in 1 .. Len(csv) : RowLine(csv[i])

Results == parent \in {"rows", "wait", "valid"}

\* Fresh columns have a row for each line read after the header.
Columns ==
    /\ \A m, n \in Nodes :
          column[m].run = column[n].run => column[m].rows = column[n].rows
    /\ Results => \A n \in Nodes :
          /\ column[n].run <= n_josim_runs + 1
          /\ column[n].run = n_josim_runs + 1 =>
                 column[n].rows = written - Len(csv) - 1
    /\ ~Results /\ parent # "exited" => \A n \in Nodes : column[n].run <= n_josim_runs

\* What a simulator that does not fail adds to that.
Healthy ==
    ~mayFail =>
        /\ child # "dead"
        /\ child \in {"close", "exited"} => written = TableRows + 1
        /\ n_josim_runs > 0 => \A n \in Nodes : ColumnOf(Header, n) # {}
        /\ Results => \A n \in Nodes : /\ ColumnOf(Header, n) # {}
                                       /\ column[n].run = n_josim_runs + 1
                                       /\ column[n].whole
        /\ parent \in {"wait", "valid"} => written = TableRows + 1

IInv == JosimTypeOK /\ Phase /\ Stream /\ Columns /\ Healthy

LEMMA InitInv == JosimInit => IInv
<1> SUFFICES ASSUME JosimInit
             PROVE  IInv
  OBVIOUS
<1>1. JosimTypeOK
  <2>1. /\ MaxRuns \in Nat /\ TableRows \in Nat /\ Width \in Nat /\ PipeSize \in Nat
        /\ Len(csv) = 0
    BY JosimAssumption DEF JosimInit
  <2>2. col_index \in [Nodes -> 0 .. n_columns]
    BY DEF JosimInit
  <2>3. column \in [Nodes -> [run : 0 .. MaxRuns, rows : Nat, whole : BOOLEAN]]
    BY <2>1 DEF JosimInit
  <2>4. /\ parent = "fork" /\ n_josim_runs = 0 /\ is_valid = FALSE /\ child = "none"
        /\ written = 0 /\ n_columns = 0 /\ mayFail \in BOOLEAN
    BY DEF JosimInit
  <2>5. /\ n_josim_runs \in 0 .. MaxRuns /\ written \in 0 .. TableRows + 1
        /\ n_columns \in 0 .. Width /\ Len(csv) <= PipeSize
    BY <2>1, <2>4
  <2>6. is_valid \in BOOLEAN
    BY <2>4
  <2> QED
    BY <2>2, <2>3, <2>4, <2>5, <2>6, Zenon DEF JosimTypeOK
<1>2. Phase /\ Columns /\ Healthy
  BY JosimAssumption DEF JosimInit, Phase, Columns, Healthy, Results
<1>3. Stream
  BY DEF JosimInit, Stream
<1> QED
  BY <1>1, <1>2, <1>3 DEF IInv

(***************************************************************************)
(* The parent, up to the results                                           *)
(***************************************************************************)
LEMMA ForkInv ==
    ASSUME IInv, Fork, UNCHANGED mayFail
    PROVE  IInv'
<1> USE DEF IInv
<1>1. JosimTypeOK'
  <2>1. child' \in {"start", "none"} /\ written' = 0 /\ TableRows \in Nat
    BY JosimAssumption DEF Fork
  <2>2. /\ parent' = "open_deck" /\ is_valid' = FALSE
        /\ UNCHANGED <<n_josim_runs, col_index, n_columns, column, csv, mayFail>>
    BY DEF Fork
  <2>3. written' \in 0 .. TableRows + 1
    BY <2>1
  <2>4. is_valid' \in BOOLEAN
    BY <2>2, Zenon
  <2> QED
    BY <2>1, <2>2, <2>3, <2>4, Zenon DEF JosimTypeOK
<1>2. Phase' /\ Stream'
  BY JosimAssumption DEF Fork, Phase, Stream, JosimTypeOK
<1>3. Columns' /\ Healthy'
  BY JosimAssumption DEF Fork, Columns, Healthy, Results, JosimTypeOK
<1> QED
  BY <1>1, <1>2, <1>3

\* The steps in which the two processes meet.
LEMMA MeetInv ==
    ASSUME IInv, OpenDeck \/ WriteDeck \/ OpenCsv, UNCHANGED mayFail
    PROVE  IInv'
<1> USE DEF IInv
<1>1. JosimTypeOK'
  BY JosimAssumption DEF OpenDeck, WriteDeck, OpenCsv, JosimTypeOK
<1>2. Phase'
  BY DEF OpenDeck, WriteDeck, OpenCsv, Phase, Alive
<1>3. Stream'
  BY DEF OpenDeck, WriteDeck, OpenCsv, Stream, JosimTypeOK
<1>4. Columns'
  BY DEF OpenDeck, WriteDeck, OpenCsv, Columns, Results
<1>5. Healthy'
  BY DEF OpenDeck, WriteDeck, OpenCsv, Healthy, Results
<1> QED
  BY <1>1, <1>2, <1>3, <1>4, <1>5

\* The steps of the parent that leave the pipe and the columns alone.
LEMMA FinishInv ==
    ASSUME IInv, NoHeader \/ EndOfRows \/ Reap \/ RunDone, UNCHANGED mayFail
    PROVE  IInv'
<1> USE DEF IInv
<1>1. JosimTypeOK'
  <2>1. /\ parent' \in {"exited", "wait", "valid", "fork"}
        /\ child' \in {child, "none"}
        /\ is_valid' = is_valid \/ is_valid' = TRUE
        /\ \/ n_josim_runs' = n_josim_runs
           \/ parent = "valid" /\ n_josim_runs' = n_josim_runs + 1
    BY DEF NoHeader, EndOfRows, Reap, RunDone, Validate
  <2>3. n_josim_runs' \in 0 .. MaxRuns
    BY <2>1, JosimAssumption DEF JosimTypeOK, Phase
  <2>4. is_valid' \in BOOLEAN
    BY <2>1 DEF JosimTypeOK
  <2>2. UNCHANGED <<csv, written, col_index, n_columns, column, mayFail>>
    BY DEF NoHeader, EndOfRows, Reap, RunDone
  <2> QED
    BY <2>1, <2>2, <2>3, <2>4, Zenon DEF JosimTypeOK
<1>2. Phase'
  BY JosimAssumption
  DEF NoHeader, EndOfRows, EndOfCsv, Reap, RunDone, Validate, Phase, JosimTypeOK
<1>3. Stream'
  BY DEF NoHeader, EndOfRows, EndOfCsv, Reap, RunDone, Validate, Stream
<1>4. Columns'
  BY DEF NoHeader, EndOfRows, Reap, RunDone, Validate, Columns, Results, JosimTypeOK
<1>5. Healthy'
  BY DEF NoHeader, EndOfRows, EndOfCsv, Reap, RunDone, Validate, Healthy, Results,
         JosimTypeOK
<1> QED
  BY <1>1, <1>2, <1>3, <1>4, <1>5

(***************************************************************************)
(* The child                                                               *)
(***************************************************************************)
LEMMA LineTypes ==
    /\ \A h \in Headers : [header |-> h] \in HeaderLines
    /\ \A h \in Headers, k \in 1 .. Width : [header |-> SubSeq(h, 1, k)] \in HeaderLines
    /\ \A k \in 1 .. Width : [row |-> k] \in RowLines
    /\ Width \in 1 .. Width
<1>1. \A h \in Headers : h \in Seq(STRING) /\ Len(h) = Width
  BY JosimAssumption
<1>2. \A h \in Headers, k \in 1 .. Width :
          SubSeq(h, 1, k) \in Seq(STRING) /\ Len(SubSeq(h, 1, k)) = k
  <2> SUFFICES ASSUME NEW h \in Headers, NEW k \in 1 .. Width
               PROVE  SubSeq(h, 1, k) \in Seq(STRING) /\ Len(SubSeq(h, 1, k)) = k
    OBVIOUS
  <2>1. h \in Seq(STRING) /\ 1 \in 1 .. Len(h) + 1 /\ k \in 1 - 1 .. Len(h)
    BY <1>1, JosimAssumption
  <2> QED
    BY <2>1, SubSeqProperties
<1> QED
  BY <1>1, <1>2, JosimAssumption DEF HeaderLines, RowLines

\* A child at work: while it writes, the parent reads.
LEMMA PutLineInv ==
    ASSUME IInv, ~JosimEnded, UNCHANGED mayFail, UNCHANGED parentVars,
           NEW line, PutLine(line),
           \/ written = 0 /\ HeaderLine(line)
           \/ written \in 1 .. TableRows /\ RowLine(line),
           \/ UNCHANGED child
           \/ child' = "dead" /\ mayFail
    PROVE  IInv'
<1> USE DEF IInv
<1>1. /\ parent \in {"header", "rows"}
      /\ csv \in Seq(HeaderLines \cup RowLines) /\ written \in Nat
      /\ line \in HeaderLines \cup RowLines
  <2>1. child = "writing" /\ parent \notin {"exited", "killed"}
    BY DEF PutLine, Writing, JosimEnded
  <2>2. parent \in {"header", "rows"}
    BY <2>1 DEF JosimTypeOK, Phase
  <2>3. csv \in Seq(HeaderLines \cup RowLines) /\ written \in Nat
    BY JosimAssumption DEF Stream, JosimTypeOK
  <2> QED
    BY <2>2, <2>3 DEF HeaderLine, RowLine
<1>2. /\ csv' \in Seq(HeaderLines \cup RowLines)
      /\ Len(csv') = Len(csv) + 1 /\ Len(csv) \in Nat
      /\ \A i \in 1 .. Len(csv) : csv'[i] = csv[i]
      /\ csv'[Len(csv) + 1] = line
      /\ written' = written + 1
  BY <1>1, AppendProperties DEF PutLine
<1>3. JosimTypeOK'
  BY <1>2, JosimAssumption DEF JosimTypeOK, PutLine, parentVars
<1>4. Phase'
  BY DEF Phase, PutLine, Writing, parentVars
<1>5. Stream'
  <2>1. CASE parent = "header"
    <3>1. Len(csv) = written /\ Len(csv') = written'
      BY <1>2, <2>1 DEF Stream
    <3>2. csv'[1] = (IF written = 0 THEN line ELSE csv[1])
      BY <1>1, <1>2, <3>1
    <3>3. HeaderLine(csv'[1])
      BY <1>1, <2>1, <3>1, <3>2 DEF Stream
    <3>4. \A i \in 2 .. Len(csv') : RowLine(csv'[i])
      BY <1>1, <1>2, <2>1, <3>1 DEF Stream
    <3> QED
      BY <1>2, <2>1, <3>1, <3>3, <3>4 DEF Stream, parentVars, HeaderLine, RowLine
  <2>2. CASE parent = "rows"
    <3>1. Len(csv') < written' /\ written > 0
      BY <1>1, <1>2, <2>2 DEF Stream
    <3>2. \A i \in 1 .. Len(csv') : RowLine(csv'[i])
      BY <1>1, <1>2, <2>2, <3>1 DEF Stream
    <3> QED
      BY <1>2, <2>2, <3>1, <3>2 DEF Stream, parentVars, HeaderLine, RowLine
  <2> QED
    BY <1>1, <2>1, <2>2
<1>6. Columns'
  BY <1>1, <1>2 DEF Columns, Results, parentVars, JosimTypeOK
<1>7. Healthy'
  BY <1>1 DEF Healthy, Results, parentVars, PutLine, Writing
<1> QED
  BY <1>3, <1>4, <1>5, <1>6, <1>7

LEMMA WriteInv ==
    ASSUME IInv, ~JosimEnded, UNCHANGED mayFail,
           (\E h \in Headers : WriteHeader(h)) \/ WriteRow
    PROVE  IInv'
<1>1. ASSUME NEW h \in Headers, WriteHeader(h)
      PROVE  IInv'
  <2>1. HeaderLine([header |-> h])
    BY <1>1, LineTypes DEF HeaderLine, WriteHeader
  <2> QED
    BY <1>1, <2>1, PutLineInv DEF WriteHeader
<1>2. ASSUME WriteRow
      PROVE  IInv'
  <2>1. RowLine([row |-> Width])
    BY LineTypes DEF RowLine
  <2> QED
    BY <1>2, <2>1, PutLineInv DEF WriteRow
<1> QED
  BY <1>1, <1>2

LEMMA DieInLineInv ==
    ASSUME IInv, ~JosimEnded, UNCHANGED mayFail, DieInLine
    PROVE  IInv'
<1>1. mayFail /\ child' = "dead" /\ UNCHANGED parentVars
  BY DEF DieInLine
<1>2. ASSUME NEW k \in 1 .. Width, NEW h \in Headers,
             written = 0, PutLine([header |-> SubSeq(h, 1, k)])
      PROVE  IInv'
  <2>1. HeaderLine([header |-> SubSeq(h, 1, k)])
    BY <1>1, LineTypes DEF HeaderLine
  <2> QED
    BY <1>1, <1>2, <2>1, PutLineInv
<1>3. ASSUME NEW k \in 1 .. Width, written \in 1 .. TableRows, PutLine([row |-> k])
      PROVE  IInv'
  <2>1. RowLine([row |-> k])
    BY <1>1, LineTypes DEF RowLine
  <2> QED
    BY <1>1, <1>3, <2>1, PutLineInv
<1> QED
  BY <1>2, <1>3 DEF DieInLine

\* The steps of the child that write nothing.
LEMMA ChildMovesInv ==
    ASSUME IInv, ~JosimEnded, UNCHANGED mayFail, Simulate \/ CloseCsv \/ Exit \/ Die
    PROVE  IInv'
<1> USE DEF IInv
<1>1. /\ UNCHANGED <<parent, n_josim_runs, is_valid, col_index, n_columns, column>>
      /\ UNCHANGED <<csv, written>>
  BY DEF Simulate, CloseCsv, Exit, Die, parentVars
<1>2. child' \in {"open_csv", "close", "exited", "dead"}
  BY DEF Simulate, CloseCsv, Exit, Die
<1>3. JosimTypeOK'
  BY <1>1, <1>2 DEF JosimTypeOK
<1>4. Phase'
  BY <1>1 DEF Phase, Simulate, CloseCsv, Exit, Die, Alive, Writing, JosimEnded, AllRunsDone
<1>5. Stream' /\ Columns'
  BY <1>1 DEF Stream, Columns, Results, HeaderLine, RowLine
<1>6. Healthy'
  BY <1>1 DEF Healthy, Results, Simulate, CloseCsv, Exit, Die
<1> QED
  BY <1>3, <1>4, <1>5, <1>6

(***************************************************************************)
(* The parent, reading                                                     *)
(***************************************************************************)
LEMMA TailOfCsv ==
    ASSUME IInv, csv # <<>>, csv' = Tail(csv)
    PROVE  /\ csv' \in Seq(HeaderLines \cup RowLines)
           /\ Len(csv) \in Nat /\ Len(csv') = Len(csv) - 1 /\ Len(csv) > 0
           /\ Head(csv) = csv[1]
           /\ \A i \in 1 .. Len(csv') : csv'[i] = csv[i + 1]
<1>1. csv \in Seq(HeaderLines \cup RowLines)
  BY DEF IInv, Stream
<1> QED
  BY <1>1, HeadTailProperties

\* A node matched once has a column.
LEMMA MatchedColumn ==
    ASSUME NEW h, MatchedOnce(h), NEW n \in Nodes
    PROVE  ColumnOf(h, n) # {}
<1>1. Cardinality(ColumnOf(h, n)) = 1
  BY DEF MatchedOnce
<1> QED
  BY <1>1, FS_EmptySet

\* What becomes of the columns when the header is taken.
LEMMA HeaderTaken ==
    ASSUME IInv, parent = "header", NEW h \in Seq(STRING), Len(h) <= Width,
           FirstHeader(h) \/ LaterHeader(h), UNCHANGED n_josim_runs
    PROVE  /\ parent' \in {"rows", "exited"}
           /\ n_columns' \in 0 .. Width /\ col_index' \in [Nodes -> 0 .. n_columns']
           /\ column' \in [Nodes -> [run : 0 .. MaxRuns, rows : Nat, whole : BOOLEAN]]
           /\ \A n \in Nodes : \/ column'[n] = Fresh
                               \/ column'[n] = column[n]
           /\ parent' = "rows" => \A n \in Nodes :
                  \/ column'[n] = Fresh /\ ColumnOf(h, n) # {}
                  \/ n_josim_runs > 0 /\ ColumnOf(h, n) = {}
<1> USE DEF IInv
<1>1. Fresh \in [run : 0 .. MaxRuns, rows : Nat, whole : BOOLEAN]
  BY JosimAssumption DEF Fresh, Phase, JosimTypeOK
<1>2. CASE FirstHeader(h) /\ MatchedOnce(h)
  <2>1. /\ parent' = "rows" /\ n_columns' = Len(h)
        /\ column' = [n \in Nodes |-> Fresh]
        /\ col_index' = [n \in Nodes |-> CHOOSE c \in ColumnOf(h, n) : TRUE]
    BY <1>2 DEF FirstHeader
  <2>2. Len(h) \in 0 .. Width /\ DOMAIN h = 1 .. Len(h)
    BY JosimAssumption
  <2>3. \A n \in Nodes : (CHOOSE c \in ColumnOf(h, n) : TRUE) \in 0 .. Len(h)
    <3> SUFFICES ASSUME NEW n \in Nodes
                 PROVE  (CHOOSE c \in ColumnOf(h, n) : TRUE) \in 0 .. Len(h)
      OBVIOUS
    <3>1. (CHOOSE c \in ColumnOf(h, n) : TRUE) \in ColumnOf(h, n)
      BY <1>2, MatchedColumn
    <3>2. ColumnOf(h, n) \subseteq 0 .. Len(h)
      BY <2>2 DEF ColumnOf
    <3> QED
      BY <3>1, <3>2
  <2>4. \A n \in Nodes : ColumnOf(h, n) # {}
    BY <1>2, MatchedColumn
  <2>5. col_index' \in [Nodes -> 0 .. n_columns']
    BY <2>1, <2>3
  <2>6. column' \in [Nodes -> [run : 0 .. MaxRuns, rows : Nat, whole : BOOLEAN]]
    BY <1>1, <2>1
  <2>7. \A n \in Nodes : column'[n] = Fresh
    BY <2>1
  <2> QED
    BY <2>1, <2>2, <2>4, <2>5, <2>6, <2>7
<1>3. CASE LaterHeader(h) /\ InPlace(h)
  <2>1. /\ parent' = "rows" /\ UNCHANGED <<n_columns, col_index>> /\ n_josim_runs > 0
        /\ column' = [n \in Nodes |->
                         IF ColumnOf(h, n) # {} THEN Fresh ELSE column[n]]
    BY <1>3 DEF LaterHeader
  <2>2. column \in [Nodes -> [run : 0 .. MaxRuns, rows : Nat, whole : BOOLEAN]]
    BY DEF JosimTypeOK
  <2>3. column' \in [Nodes -> [run : 0 .. MaxRuns, rows : Nat, whole : BOOLEAN]]
    BY <1>1, <2>1, <2>2
  <2>4. \A n \in Nodes : column'[n] = IF ColumnOf(h, n) # {} THEN Fresh ELSE column[n]
    BY <2>1
  <2> QED
    BY <2>1, <2>3, <2>4 DEF JosimTypeOK
<1>4. CASE parent' = "exited" /\ UNCHANGED <<col_index, n_columns, column>>
  BY <1>4 DEF JosimTypeOK
<1> QED
  BY <1>2, <1>3, <1>4 DEF FirstHeader, LaterHeader

LEMMA ReadHeaderInv ==
    ASSUME IInv, ReadHeader, UNCHANGED mayFail
    PROVE  IInv'
<1> USE DEF IInv
<1>1. /\ parent = "header" /\ csv # <<>> /\ csv' = Tail(csv)
      /\ UNCHANGED <<n_josim_runs, is_valid, child, written>>
  BY DEF ReadHeader
<1> DEFINE h == Head(csv).header
<1>2. Head(csv) = csv[1] /\ HeaderLine(csv[1])
  BY <1>1, TailOfCsv DEF Stream
<1>3. h \in Seq(STRING) /\ Len(h) <= Width
  BY <1>2 DEF HeaderLine, HeaderLines
<1>4. FirstHeader(h) \/ LaterHeader(h)
  BY DEF ReadHeader
<1>5. ~mayFail => h = Header
  BY <1>2 DEF HeaderLine
<1> HIDE DEF h
<1>6. /\ parent' \in {"rows", "exited"}
      /\ n_columns' \in 0 .. Width /\ col_index' \in [Nodes -> 0 .. n_columns']
      /\ column' \in [Nodes -> [run : 0 .. MaxRuns, rows : Nat, whole : BOOLEAN]]
      /\ \A n \in Nodes : \/ column'[n] = Fresh
                          \/ column'[n] = column[n]
      /\ parent' = "rows" => \A n \in Nodes :
             \/ column'[n] = Fresh /\ ColumnOf(h, n) # {}
             \/ n_josim_runs > 0 /\ ColumnOf(h, n) = {}
  BY <1>1, <1>3, <1>4, HeaderTaken
<1>7. /\ csv' \in Seq(HeaderLines \cup RowLines)
      /\ Len(csv) \in Nat /\ Len(csv') = Len(csv) - 1 /\ Len(csv) > 0
      /\ \A i \in 1 .. Len(csv') : csv'[i] = csv[i + 1]
      /\ Len(csv) = written /\ \A i \in 2 .. Len(csv) : RowLine(csv[i])
  BY <1>1, TailOfCsv DEF Stream
<1>8. JosimTypeOK'
  BY <1>1, <1>6, <1>7, JosimAssumption DEF JosimTypeOK
<1>9. Phase'
  BY <1>1, <1>6 DEF Phase
<1>10. Stream'
  <2>1. \A i \in 1 .. Len(csv') : RowLine(csv'[i])
    BY <1>7
  <2>2. Len(csv') < written'
    BY <1>1, <1>7
  <2> QED
    BY <1>6, <1>7, <2>1, <2>2 DEF Stream, RowLine
<1>11. Columns'
  <2>1. /\ Fresh.run = n_josim_runs + 1 /\ Fresh.rows = 0
        /\ n_josim_runs \in Nat
        /\ \A n \in Nodes : column[n].run <= n_josim_runs /\ column[n].run \in Nat
    BY <1>1 DEF Fresh, Columns, Results, JosimTypeOK
  <2>2. \A m, n \in Nodes :
            column'[m].run = column'[n].run => column'[m].rows = column'[n].rows
    <3>1. \A n \in Nodes : \/ column'[n].run = n_josim_runs + 1 /\ column'[n].rows = 0
                           \/ column'[n] = column[n] /\ column[n].run # n_josim_runs + 1
      BY <1>6, <2>1
    <3>2. \A m, n \in Nodes :
              column[m].run = column[n].run => column[m].rows = column[n].rows
      BY DEF Columns
    <3> QED
      BY <3>1, <3>2
  <2>3. \A n \in Nodes :
            /\ column'[n].run <= n_josim_runs + 1
            /\ column'[n].run = n_josim_runs + 1 => column'[n].rows = 0
    BY <1>6, <2>1
  <2>4. written' - Len(csv') - 1 = 0
    BY <1>1, <1>7
  <2> QED
    BY <1>1, <1>6, <2>2, <2>3, <2>4 DEF Columns, Results
<1>12. Healthy'
  <2> SUFFICES ASSUME ~mayFail
               PROVE  Healthy'
    BY DEF Healthy
  <2>1. parent' = "rows" => \A n \in Nodes : column'[n] = Fresh /\ ColumnOf(Header, n) # {}
    BY <1>5, <1>6 DEF Healthy
  <2>2. Fresh.run = n_josim_runs + 1 /\ Fresh.whole
    BY DEF Fresh
  <2> QED
    BY <1>1, <1>6, <2>1, <2>2 DEF Healthy, Results
<1> QED
  BY <1>8, <1>9, <1>10, <1>11, <1>12

LEMMA ReadRowInv ==
    ASSUME IInv, ReadRow, UNCHANGED mayFail
    PROVE  IInv'
<1> USE DEF IInv
<1>1. /\ parent = "rows" /\ csv # <<>> /\ csv' = Tail(csv)
      /\ UNCHANGED <<n_josim_runs, is_valid, child, written, col_index, n_columns>>
      /\ \/ TakeRow(Head(csv).row)
         \/ Head(csv).row < Width /\ TearRow
  BY DEF ReadRow
<1>2. /\ csv' \in Seq(HeaderLines \cup RowLines)
      /\ Len(csv) \in Nat /\ Len(csv') = Len(csv) - 1 /\ Len(csv) > 0
      /\ \A i \in 1 .. Len(csv') : csv'[i] = csv[i + 1]
      /\ Head(csv) = csv[1]
      /\ Len(csv) < written /\ \A i \in 1 .. Len(csv) : RowLine(csv[i])
      /\ written \in Nat
  BY <1>1, TailOfCsv, JosimAssumption DEF Stream, JosimTypeOK
<1> DEFINE k == Head(csv).row
<1>3. k \in 1 .. Width /\ (~mayFail => k = Width)
  BY <1>2, JosimAssumption DEF RowLine, RowLines
<1> HIDE DEF k
<1>4. Stream'
  <2>1. \A i \in 1 .. Len(csv') : RowLine(csv'[i])
    BY <1>2
  <2>2. Len(csv') < written'
    BY <1>1, <1>2
  <2>3. parent' \in {"rows", "exited"}
    BY <1>1 DEF TakeRow, TearRow
  <2> QED
    BY <1>2, <2>1, <2>2, <2>3 DEF Stream, RowLine
<1>5. Phase'
  BY <1>1 DEF Phase, TakeRow, TearRow
<1>6. CASE TearRow
  <2>1. JosimTypeOK'
    BY <1>1, <1>2, <1>6, JosimAssumption DEF TearRow, JosimTypeOK
  <2>2. Columns' /\ Healthy'
    BY <1>1, <1>6 DEF TearRow, Columns, Healthy, Results
  <2> QED
    BY <1>4, <1>5, <2>1, <2>2
<1>7. CASE TakeRow(k)
  <2>1. /\ UNCHANGED parent
        /\ column' = [n \in Nodes |-> [column[n] EXCEPT !.rows = @ + 1,
                                            !.whole = @ /\ col_index[n] <= k]]
    BY <1>7 DEF TakeRow
  <2>2. column \in [Nodes -> [run : 0 .. MaxRuns, rows : Nat, whole : BOOLEAN]]
    BY DEF JosimTypeOK
  <2>3. ASSUME NEW n \in Nodes
        PROVE  /\ column'[n] \in [run : 0 .. MaxRuns, rows : Nat, whole : BOOLEAN]
               /\ column'[n].run = column[n].run
               /\ column'[n].rows = column[n].rows + 1
               /\ column'[n].whole = (column[n].whole /\ col_index[n] <= k)
    <3>1. column[n] \in [run : 0 .. MaxRuns, rows : Nat, whole : BOOLEAN]
      BY <2>2
    <3> DEFINE r == column[n].rows + 1
               w == column[n].whole /\ col_index[n] <= k
    <3>2. r \in Nat /\ w \in BOOLEAN
      BY <3>1
    <3>3. column'[n] = [column[n] EXCEPT !.rows = r, !.whole = w]
      BY <2>1
    <3> HIDE DEF r, w
    <3>4. /\ column'[n] \in [run : 0 .. MaxRuns, rows : Nat, whole : BOOLEAN]
          /\ column'[n].run = column[n].run
          /\ column'[n].rows = r
          /\ column'[n].whole = w
      BY <3>1, <3>2, <3>3
    <3> QED
      BY <3>4 DEF r, w
  <2>4. column' \in [Nodes -> [run : 0 .. MaxRuns, rows : Nat, whole : BOOLEAN]]
    BY <2>1, <2>3
  <2>5. JosimTypeOK'
    <3>1. Len(csv') <= PipeSize
      BY <1>2, JosimAssumption DEF JosimTypeOK
    <3> QED
      BY <1>1, <2>1, <2>4, <3>1, Zenon DEF JosimTypeOK
  <2>6. Columns'
    <3>1. \A m, n \in Nodes :
              column'[m].run = column'[n].run => column'[m].rows = column'[n].rows
      BY <2>3 DEF Columns
    <3>2. written' - Len(csv') - 1 = (written - Len(csv) - 1) + 1
      BY <1>1, <1>2
    <3>3. \A n \in Nodes :
              /\ column'[n].run <= n_josim_runs + 1
              /\ column'[n].run = n_josim_runs + 1 =>
                     column'[n].rows = (written - Len(csv) - 1) + 1
      BY <1>1, <2>3 DEF Columns, Results
    <3> QED
      BY <1>1, <2>1, <3>1, <3>2, <3>3 DEF Columns, Results
  <2>7. Healthy'
    <3> SUFFICES ASSUME ~mayFail
                 PROVE  Healthy'
      BY DEF Healthy
    <3>1. \A n \in Nodes : col_index[n] <= k
      BY <1>3, JosimAssumption DEF JosimTypeOK
    <3>2. \A n \in Nodes : column'[n].run = column[n].run /\ column'[n].whole = column[n].whole
      BY <2>2, <2>3, <3>1
    <3> QED
      BY <1>1, <2>1, <3>2 DEF Healthy, Results
  <2> QED
    BY <1>4, <1>5, <2>5, <2>6, <2>7
<1> QED
  BY <1>1, <1>6, <1>7 DEF k

(***************************************************************************)
(* The invariant and what follows from it                                  *)
(***************************************************************************)
LEMMA NextInv == IInv /\ [JosimNext]_josimVars => IInv'
<1> SUFFICES ASSUME IInv, [JosimNext]_josimVars
             PROVE  IInv'
  OBVIOUS
<1>1. CASE UNCHANGED josimVars
  BY <1>1 DEF josimVars, parentVars, IInv, JosimTypeOK, Phase, Stream, Columns, Healthy,
              Results, HeaderLine, RowLine
<1>2. CASE Parent /\ UNCHANGED mayFail
  BY <1>2, ForkInv, MeetInv, FinishInv, ReadHeaderInv, ReadRowInv DEF Parent
<1>3. CASE Child /\ UNCHANGED mayFail
  BY <1>3, WriteInv, DieInLineInv, ChildMovesInv DEF Child, ChildWorks
<1> QED
  BY <1>1, <1>2, <1>3 DEF JosimNext, Stopped

LEMMA RunInvariant == JosimSpec => []IInv
  BY InitInv, NextInv, PTL DEF JosimSpec

\* Every variable keeps its type: the pipe its size, a table its rows.
THEOREM JosimTypeCorrect == JosimSpec => []JosimTypeOK
<1>1. IInv => JosimTypeOK
  BY DEF IInv
<1> QED
  BY <1>1, RunInvariant, PTL

\* Whatever becomes of the simulator, no run leaks into the next: it begins
\* without a child and with an empty pipe, and the columns of one run have the
\* rows of one table.
THEOREM RunsStayApart == JosimSpec => []RunsApart
<1>1. IInv => FreshStart
  BY DEF IInv, Phase, Stream, FreshStart
<1>2. IInv => ColumnsAgree
  <2> SUFFICES ASSUME IInv, parent = "valid"
               PROVE  /\ \A m, n \in Nodes :
                            column[m].run = column[n].run => column[m].rows = column[n].rows
                      /\ \A n \in Nodes :
                            column[n].run = n_josim_runs + 1 => column[n].rows <= TableRows
    BY DEF ColumnsAgree
  <2>1. Len(csv) = 0 /\ written \in 0 .. TableRows + 1 /\ TableRows \in Nat
    BY JosimAssumption DEF IInv, Stream, JosimTypeOK
  <2> QED
    BY <2>1 DEF IInv, Columns, Results
<1> QED
  BY <1>1, <1>2, RunInvariant, PTL DEF RunsApart

\* With a simulator that does not fail, valid results are complete.
THEOREM HealthyRunsComplete == JosimSpec => []CompleteIfHealthy
<1>1. IInv => CompleteIfHealthy
  <2> SUFFICES ASSUME IInv, ~mayFail, parent = "valid", NEW n \in Nodes
               PROVE  column[n] = [run |-> n_josim_runs + 1, rows |-> TableRows, whole |-> TRUE]
    BY DEF CompleteIfHealthy, ValidMeansComplete
  <2>1. /\ column[n].run = n_josim_runs + 1 /\ column[n].whole
        /\ written = TableRows + 1
    BY DEF IInv, Healthy, Results
  <2>2. Len(csv) = 0 /\ TableRows \in Nat
    BY JosimAssumption DEF IInv, Stream
  <2>3. column[n].rows = TableRows
    BY <2>1, <2>2 DEF IInv, Columns, Results
  <2>4. column[n] \in [run : 0 .. MaxRuns, rows : Nat, whole : BOOLEAN]
    BY DEF IInv, JosimTypeOK
  <2>5. column[n].whole = TRUE
    BY <2>1, <2>4
  <2> QED
    BY <2>1, <2>3, <2>4, <2>5
<1> QED
  BY <1>1, RunInvariant, PTL
=============================================================================

