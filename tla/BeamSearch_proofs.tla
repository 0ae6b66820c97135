-------------------------- MODULE BeamSearch_proofs --------------------------
(***************************************************************************)
(* Proofs about BefPlan and BeamSearch.  The first part is about the plan, *)
(* for every dimension, number of iterations and probes, and budget an     *)
(* unsigned integer holds: what it shares out stays within the budget      *)
(* unless the rays along the axes do not fit into it, or leave less than   *)
(* one shell probe for each round.  The second part is about the run, for every      *)
(* size of the beam, every set of answers a fit may give and every plan.   *)
(***************************************************************************)
EXTENDS BeamSearch, SequenceTheorems, TLAPS

\* The integer division of C, on naturals.
LEMMA DivBounds ==
    ASSUME NEW a \in Nat, NEW b \in Nat \ {0}
    PROVE  /\ a \div b \in Nat
           /\ (a \div b) * b <= a
           /\ a < (a \div b) * b + b
  OBVIOUS

LEMMA AxisSimsNat ==
    ASSUME NEW in \in PlanInput
    PROVE  AxisSims(in) \in Nat
  BY DEF PlanInput, AxisSims

ShellRun(in) == ShellProbesRun(Finalise(in))

LEMMA ShellRunIs ==
    ASSUME NEW in
    PROVE  ShellRun(in) = IF ShellProbes(in) > 0 THEN ShellProbes(in) ELSE DefaultShell
  BY DEF ShellRun, ShellProbesRun, Finalise

LEMMA ShellRunNat ==
    ASSUME NEW in \in PlanInput
    PROVE  ShellRun(in) \in Nat
<1>1. /\ in.n_iter - 1 \in Nat \ {0} /\ in.n_iter \in Nat \ {0} /\ in.sim_budget \in Nat
      /\ Word \in Nat \ {0} /\ AxisSims(in) \in Nat
  BY AxisSimsNat, PlanAssumption DEF PlanInput
<1>2. PerIteration(in) \in Nat
  BY <1>1, DivBounds DEF PerIteration
<1>3. ((in.sim_budget - AxisSims(in)) % Word) \div (in.n_iter - 1) \in Nat
  <2> DEFINE left == (in.sim_budget - AxisSims(in)) % Word
             m == in.n_iter - 1
  <2>1. left \in Nat /\ m \in Nat \ {0}
    BY <1>1
  <2> HIDE DEF left, m
  <2>2. left \div m \in Nat
    BY <2>1, DivBounds
  <2> QED
    BY <2>2 DEF left, m
<1> QED
  BY <1>2, <1>3, ShellRunIs, PlanAssumption DEF ShellProbes

LEMMA RayShareInt ==
    ASSUME NEW in \in PlanInput
    PROVE  RayShare(in) \in Int
<1>1. AxisSims(in) \in Nat /\ in.probes \in Nat \ {0} /\ PerIteration(in) \in Nat
  BY AxisSimsNat, DivBounds DEF PlanInput, PerIteration
<1>2. ExtraRays(in) \in Nat
  BY <1>1, DivBounds DEF ExtraRays, Tight
<1> QED
  BY <1>1, <1>2 DEF RayShare

\* What is planned in either case, in products a solver can add up.
LEMMA TightSims ==
    ASSUME NEW in \in PlanInput, Tight(in)
    PROVE  PlannedSims(in) = AxisSims(in) + ShellRun(in) * (in.n_iter - 1)
<1>1. ExtraRays(in) = 0
  BY DEF ExtraRays
<1>2. ExtraRays(in) * in.probes = 0
  BY <1>1 DEF PlanInput
<1>3. AxisSims(in) + 0 = AxisSims(in)
  BY AxisSimsNat
<1> QED
  BY <1>2, <1>3 DEF PlannedSims, RayShare, ShellRun

\* Products distribute, as the solver needs to be told.
LEMMA OneFewer ==
    ASSUME NEW a \in Nat, NEW b \in Nat \ {0}
    PROVE  a + a * (b - 1) = a * b
  OBVIOUS

LEMMA AmpleSims ==
    ASSUME NEW in \in PlanInput, ~Tight(in)
    PROVE  /\ PlannedSims(in) <= PerIteration(in) * in.n_iter
           /\ PerIteration(in) * in.n_iter < PlannedSims(in) + in.probes
<1> DEFINE B == in.sim_budget
           n == in.n_iter
           p == in.probes
           P == PerIteration(in)
           A == AxisSims(in)
           rays == ExtraRays(in) * p
<1>1. A \in Nat /\ n \in Nat \ {0} /\ p \in Nat \ {0} /\ B \in Nat
  BY AxisSimsNat DEF PlanInput
<1>2. P \in Nat
  BY <1>1, DivBounds DEF PerIteration
<1>3. P - A \in Nat
  BY <1>1, <1>2 DEF Tight
<1>4. ExtraRays(in) = (P - A) \div p
  BY DEF ExtraRays
<1>5. rays \in Nat /\ rays <= P - A /\ P - A < rays + p
  <2>1. /\ (P - A) \div p \in Nat
        /\ ((P - A) \div p) * p <= P - A
        /\ P - A < ((P - A) \div p) * p + p
    BY <1>1, <1>3, DivBounds
  <2> QED
    BY <1>1, <1>4, <2>1
<1>6. P + P * (n - 1) = P * n /\ P * (n - 1) \in Nat
  BY <1>1, <1>2, OneFewer
<1>7. PlannedSims(in) = A + rays + P * (n - 1)
  <2>1. ShellProbes(in) = P /\ P > 0
    BY <1>1, <1>2 DEF ShellProbes, Tight
  <2> QED
    BY <2>1, ShellRunIs DEF PlannedSims, RayShare, ShellRun
<1> HIDE DEF P, A, rays, n, p
<1>8. /\ A + rays + P * (n - 1) <= P * n
      /\ P * n < A + rays + P * (n - 1) + p
  BY <1>1, <1>2, <1>3, <1>5, <1>6
<1> QED
  BY <1>7, <1>8 DEF P, n, p

\* What finalise() shares out is no more than the budget, and
\* leaves fewer than n_iter plus n_probes_per_ray of it unspent, if the rays
\* along the axes leave a shell probe for each round.
THEOREM PlanSpendsBudget ==
    ASSUME NEW in \in PlanInput, AxisSims(in) + in.n_iter - 1 <= in.sim_budget
    PROVE  /\ PlannedSims(in) <= in.sim_budget
           /\ in.sim_budget < PlannedSims(in) + in.n_iter + in.probes
<1> DEFINE B == in.sim_budget
           n == in.n_iter
           A == AxisSims(in)
<1>1. /\ A \in Nat /\ B \in Nat /\ in.probes \in Nat \ {0}
      /\ n \in Nat /\ n - 1 \in Nat \ {0} /\ n \in Nat \ {0}
      /\ Word \in Nat /\ B < Word /\ A + (n - 1) <= B
  BY AxisSimsNat, PlanAssumption DEF PlanInput
<1>2. CASE Tight(in)
  <2>1. (B - A) % Word = B - A
    BY <1>1
  <2>2. ShellProbes(in) = (B - A) \div (n - 1)
    BY <1>2, <2>1 DEF ShellProbes
  <2> DEFINE s == ((B - A) \div (n - 1)) * (n - 1)
  <2>3. s <= B - A /\ B - A < s + (n - 1) /\ s \in Nat
    <3>1. B - A \in Nat
      BY <1>1
    <3> DEFINE x == B - A
               m == n - 1
    <3>2. x \in Nat /\ m \in Nat \ {0}
      BY <1>1, <3>1
    <3> HIDE DEF x, m
    <3>3. (x \div m) * m <= x /\ x < (x \div m) * m + m /\ (x \div m) * m \in Nat
      BY <3>2, DivBounds
    <3> QED
      BY <3>3 DEF x, m
  <2>4. PlannedSims(in) = A + s
    <3> DEFINE x == B - A
               m == n - 1
    <3>1. x \in Nat /\ m \in Nat \ {0} /\ m <= x
      BY <1>1
    <3> HIDE DEF x, m
    <3>2. x \div m > 0
      BY <3>1
    <3>3. ShellRun(in) = x \div m
      BY <2>2, <3>2, ShellRunIs DEF x, m
    <3> QED
      BY <1>2, <3>3, TightSims DEF x, m
  <2> HIDE DEF s, A
  <2> QED
    BY <1>1, <2>3, <2>4
<1>3. CASE ~Tight(in)
  <2> DEFINE s == PerIteration(in) * n
  <2>1. s <= B /\ B < s + n /\ s \in Nat
    <3>1. PerIteration(in) = B \div n
      BY DEF PerIteration
    <3> HIDE DEF B, n
    <3>2. B \div n \in Nat /\ (B \div n) * n <= B /\ B < (B \div n) * n + n
      BY <1>1, DivBounds
    <3> QED
      BY <1>1, <3>1, <3>2 DEF s
  <2>2. PlannedSims(in) <= s /\ s < PlannedSims(in) + in.probes
    BY <1>3, AmpleSims
  <2>3. PlannedSims(in) \in Nat
    <3>1. PerIteration(in) \in Nat /\ PerIteration(in) - A \in Nat
      BY <1>1, <1>3, DivBounds DEF PerIteration, Tight
    <3>2. ExtraRays(in) \in Nat
      BY <1>1, <1>3, <3>1, DivBounds DEF ExtraRays
    <3>3. ShellRun(in) \in Nat
      BY <1>3, <3>1, ShellRunIs, PlanAssumption DEF ShellProbes
    <3> QED
      BY <1>1, <3>1, <3>2, <3>3 DEF PlannedSims, RayShare, ShellRun
  <2> HIDE DEF s
  <2> QED
    BY <1>1, <2>1, <2>2, <2>3
<1> QED
  BY <1>2, <1>3

\* If the rays along the axes do not fit, the unsigned subtraction wraps around:
\* the plan exceeds every budget by nearly the whole word.
THEOREM PlanWrapsAround ==
    ASSUME NEW in \in PlanInput, in.sim_budget < AxisSims(in), AxisSims(in) < Word
    PROVE  /\ Tight(in)
           /\ Word + in.sim_budget < PlannedSims(in) + in.n_iter
<1> DEFINE B == in.sim_budget
           n == in.n_iter
           A == AxisSims(in)
           left == B - A + Word
<1>1. /\ A \in Nat /\ B \in Nat \ {0} /\ n \in Nat \ {0}
      /\ n - 1 \in Nat \ {0} /\ Word \in Nat
  BY AxisSimsNat, PlanAssumption DEF PlanInput
<1>2. Tight(in)
  <2>1. PerIteration(in) \in Nat /\ PerIteration(in) * n <= B
    BY <1>1, DivBounds DEF PerIteration
  <2>2. PerIteration(in) <= PerIteration(in) * n
    BY <1>1, <2>1
  <2>3. PerIteration(in) * n \in Nat
    BY <1>1, <2>1
  <2> QED
    BY <1>1, <2>1, <2>2, <2>3 DEF Tight
<1>3. left \in Nat /\ (B - A) % Word = left
  BY <1>1
<1>4. ShellProbes(in) = left \div (n - 1)
  BY <1>2, <1>3 DEF ShellProbes
<1> DEFINE s == ShellRun(in) * (n - 1)
<1>5. left < s + (n - 1) /\ s \in Nat
  <2> DEFINE m == n - 1
             d == left \div m
  <2>1. left \in Nat /\ m \in Nat \ {0}
    BY <1>1, <1>3
  <2>2. d \in Nat /\ left < d * m + m /\ d * m \in Nat
    <3> HIDE DEF left, m
    <3> QED
      BY <2>1, DivBounds
  <2>3. ShellRun(in) = IF d > 0 THEN d ELSE DefaultShell
    BY <1>4, ShellRunIs
  <2> HIDE DEF left, m, d
  <2>4. CASE d > 0
    BY <2>2, <2>3, <2>4 DEF m
  <2>5. CASE d = 0
    <3>1. left < m /\ DefaultShell * m \in Nat
      BY <2>1, <2>2, <2>5, PlanAssumption
    <3> QED
      BY <2>1, <2>3, <2>5, <3>1 DEF m
  <2> QED
    BY <2>2, <2>4, <2>5
<1>6. PlannedSims(in) = A + s
  BY <1>2, TightSims
<1> HIDE DEF s, A
<1> QED
  BY <1>1, <1>2, <1>5, <1>6

\* A plan that is left without shell probes is taken by run() for no plan at all:
\* with the default number of probes in each round the plan exceeds the budget.
THEOREM NoShellOverspends ==
    ASSUME NEW in \in PlanInput, AxisSims(in) <= in.sim_budget,
           in.sim_budget < AxisSims(in) + in.n_iter - 1
    PROVE  /\ PlannedSims(in) = AxisSims(in) + DefaultShell * (in.n_iter - 1)
           /\ in.sim_budget < PlannedSims(in)
<1> DEFINE B == in.sim_budget
           n == in.n_iter
           A == AxisSims(in)
           m == n - 1
<1>1. /\ A \in Nat /\ B \in Nat \ {0} /\ n \in Nat \ {0} /\ m \in Nat \ {0}
      /\ Word \in Nat /\ B < Word /\ B - A \in Nat /\ B - A < m /\ B < A + m /\ n = m + 1
  BY AxisSimsNat, PlanAssumption DEF PlanInput
<1>2. Tight(in)
  <2> DEFINE P == PerIteration(in)
  <2>1. P \in Nat /\ P * n <= B
    BY <1>1, DivBounds DEF PerIteration
  <2> SUFFICES ASSUME A < P
               PROVE  FALSE
    BY <1>1, <2>1 DEF Tight
  <2> HIDE DEF P, A, n, m, B
  <2>2. (A + 1) * n <= P * n
    BY <1>1, <2>1
  <2>3. (A + 1) * n = A * n + n /\ A <= A * n
    BY <1>1
  <2>4. A * n \in Nat /\ P * n \in Nat
    BY <1>1, <2>1
  <2> QED
    BY <1>1, <2>1, <2>2, <2>3, <2>4
<1>3. ShellProbes(in) = (B - A) \div m
  <2>1. (B - A) % Word = B - A
    <3> DEFINE x == B - A
    <3>1. x \in Nat /\ x < Word
      BY <1>1
    <3> HIDE DEF x
    <3>2. x % Word = x
      BY <1>1, <3>1
    <3> QED
      BY <3>2 DEF x
  <2> QED
    BY <1>2, <2>1 DEF ShellProbes
<1>4. ShellProbes(in) = 0
  <2> DEFINE x == B - A
  <2>1. x \in Nat /\ x < m
    BY <1>1
  <2> HIDE DEF x, m
  <2>2. x \div m = 0
    BY <1>1, <2>1
  <2> QED
    BY <1>3, <2>2 DEF x
<1>5. PlannedSims(in) = A + DefaultShell * m
  BY <1>2, <1>4, TightSims, ShellRunIs
<1>6. m <= DefaultShell * m /\ DefaultShell * m \in Nat
  <2> HIDE DEF m
  <2> QED
    BY <1>1, PlanAssumption
<1> HIDE DEF A, m, B
<1>7. B < A + DefaultShell * m
  BY <1>1, <1>6
<1> QED
  BY <1>5, <1>7 DEF A, m, B

(***************************************************************************)
(* Sequences                                                               *)
(***************************************************************************)
\* Every element of t is one of s.
From(t, s) == \A i \in 1 .. Len(t) : \E j \in 1 .. Len(s) : t[i] = s[j]

LEMMA SortingsOf ==
    ASSUME NEW R, NEW s \in Seq(R), NEW ss \in Sortings(s)
    PROVE  /\ ss \in Seq(R) /\ Len(ss) = Len(s) /\ From(ss, s)
           /\ \A i, j \in 1 .. Len(s) : i < j => ~Precedes(ss[j], ss[i])
<1>1. DOMAIN s = 1 .. Len(s) /\ Len(s) \in Nat
  OBVIOUS
<1>2. PICK p \in Bijection(DOMAIN s, DOMAIN s) :
          /\ ss = [i \in DOMAIN s |-> s[p[i]]]
          /\ \A i, j \in DOMAIN s : i < j => ~Precedes(s[p[j]], s[p[i]])
  BY DEF Sortings
<1>3. p \in [1 .. Len(s) -> 1 .. Len(s)]
  BY <1>1, <1>2 DEF Bijection, Injection
<1>4. \A i \in 1 .. Len(s) : ss[i] = s[p[i]] /\ p[i] \in 1 .. Len(s) /\ ss[i] \in R
  BY <1>1, <1>2, <1>3
<1>5. ss = [i \in 1 .. Len(s) |-> ss[i]]
  BY <1>1, <1>2
<1>6. ss \in Seq(R) /\ Len(ss) = Len(s)
  BY <1>1, <1>4, <1>5
<1> QED
  BY <1>1, <1>2, <1>4, <1>6 DEF From

LEMMA RemoveAtFrom ==
    ASSUME NEW R, NEW s \in Seq(R), NEW k \in 1 .. Len(s)
    PROVE  /\ RemoveAt(s, k) \in Seq(R) /\ Len(RemoveAt(s, k)) = Len(s) - 1
           /\ From(RemoveAt(s, k), s)
<1> DEFINE a == SubSeq(s, 1, k - 1)
           b == SubSeq(s, k + 1, Len(s))
<1>1. /\ a \in Seq(R) /\ Len(a) = k - 1 /\ \A i \in 1 .. k - 1 : a[i] = s[i]
      /\ b \in Seq(R) /\ Len(b) = Len(s) - k
      /\ \A i \in 1 .. Len(s) - k : b[i] = s[k + i]
  OBVIOUS
<1>2. RemoveAt(s, k) = a \o b
  BY DEF RemoveAt
<1> HIDE DEF a, b
<1>0. k \in Nat /\ Len(s) \in Nat /\ 1 <= k /\ k <= Len(s)
  OBVIOUS
<1>3. /\ a \o b \in Seq(R) /\ Len(a \o b) = Len(s) - 1
      /\ \A i \in 1 .. k - 1 : (a \o b)[i] = a[i]
      /\ \A i \in k .. Len(s) - 1 : (a \o b)[i] = b[i - (k - 1)]
  <2>1. /\ a \o b \in Seq(R) /\ Len(a \o b) = Len(a) + Len(b)
        /\ \A i \in 1 .. Len(a) + Len(b) :
              (a \o b)[i] = IF i <= Len(a) THEN a[i] ELSE b[i - Len(a)]
    BY <1>1, ConcatProperties
  <2> QED
    BY <1>0, <1>1, <2>1
<1>4. ASSUME NEW i \in 1 .. Len(s) - 1
      PROVE  \E j \in 1 .. Len(s) : (a \o b)[i] = s[j]
  <2>1. CASE i < k
    BY <1>0, <1>1, <1>3, <2>1
  <2>2. CASE i >= k
    <3>1. (a \o b)[i] = b[i - (k - 1)] /\ i - (k - 1) \in 1 .. Len(s) - k
      BY <1>0, <1>3, <2>2
    <3>2. b[i - (k - 1)] = s[k + (i - (k - 1))] /\ k + (i - (k - 1)) \in 1 .. Len(s)
      BY <1>0, <1>1, <3>1
    <3> QED
      BY <3>1, <3>2
  <2>3. i < k \/ i >= k
    BY <1>0
  <2> QED
    BY <2>1, <2>2, <2>3
<1> QED
  BY <1>2, <1>3, <1>4 DEF From

Places == NBest - Spare

LEMMA PlacesPositive == Places \in Nat \ {0} /\ Derive \in Nat /\ MaxLevel \in Nat \ {0}
  BY BeamAssumption DEF Places

LEMMA KeptFrom ==
    ASSUME NEW R, NEW s \in Seq(R)
    PROVE  /\ KeptOf(s) \in Seq(R) /\ From(KeptOf(s), s)
           /\ Len(KeptOf(s)) <= Places /\ (Len(s) >= 1 => Len(KeptOf(s)) >= 1)
<1> DEFINE n == IF Len(s) > Places THEN Places ELSE Len(s)
<1>1. n \in 0 .. Len(s) /\ n <= Places /\ (Len(s) >= 1 => n >= 1)
  BY PlacesPositive
<1>2. KeptOf(s) = SubSeq(s, 1, n)
  BY DEF KeptOf, Places
<1> HIDE DEF n
<1>3. /\ SubSeq(s, 1, n) \in Seq(R) /\ Len(SubSeq(s, 1, n)) = n
      /\ \A i \in 1 .. n : SubSeq(s, 1, n)[i] = s[i]
  BY <1>1
<1> QED
  BY <1>1, <1>2, <1>3 DEF From

LEMMA BlankOf ==
    ASSUME NEW a \in 0 .. MaxLevel, NEW b \in 0 .. 1, NEW start \in SUBSET Reasons
    PROVE  Blank(a, b, start) \in Solution
<1>1. GoesOn \in Codes
  BY DEF GoesOn, Codes, TooFewData, Converged
<1>2. 0 \in {0} \cup {l.at : l \in Landings} /\ {} \in SUBSET Reasons /\ 0 \in Nat
  OBVIOUS
<1> DEFINE A == 0 .. MaxLevel
           B == 0 .. 1
           C == {0} \cup {l.at : l \in Landings}
           S == SUBSET Reasons
           N == Nat
<1>3. a \in A /\ b \in B /\ start \in S /\ {} \in S /\ 0 \in C /\ 0 \in N
  BY <1>2
<1>4. Solution = [a_init : A, a_incr : B, start : S, ec : Codes, reasons : S, res : N, at : C]
  BY DEF Solution
<1> HIDE DEF A, B, C, S, N
<1> QED
  BY <1>1, <1>3, <1>4 DEF Blank

LEMMA VariantsOf ==
    ASSUME NEW s \in Solution, NEW n \in DOMAIN LevelsOf(s)
    PROVE  /\ SubSeq(Variants(s, {}), 1, n) \in Seq(Solution)
           /\ Len(SubSeq(Variants(s, {}), 1, n)) = n
           /\ n \in 1 .. MostVariants
           /\ \A i \in 1 .. n : /\ SubSeq(Variants(s, {}), 1, n)[i].start = {}
                              /\ SubSeq(Variants(s, {}), 1, n)[i].reasons = {}
<1> DEFINE up == IF s.a_init < MaxLevel THEN <<s.a_init + 1>> ELSE <<>>
           down == IF s.a_init > 1 THEN <<s.a_init - 1>> ELSE <<>>
           v == Variants(s, {})
           L == LevelsOf(s)
<1>1. s.a_init \in 0 .. MaxLevel /\ s.a_incr \in 0 .. 1 /\ MaxLevel \in Nat \ {0}
  BY PlacesPositive DEF Solution
<1>2. L \in Seq(0 .. MaxLevel) /\ Len(L) \in 1 .. MostVariants
  <2>1. CASE ~Sans(s)
    BY <1>1, <2>1 DEF LevelsOf, MostVariants
  <2>2. CASE Sans(s)
    <3> DEFINE S == 0 .. MaxLevel
    <3>a. /\ s.a_init \in S
          /\ s.a_init < MaxLevel => s.a_init + 1 \in S
          /\ s.a_init > 1 => s.a_init - 1 \in S
      BY <1>1
    <3> HIDE DEF S
    <3>b. up \in Seq(S) /\ down \in Seq(S) /\ <<s.a_init>> \in Seq(S)
      BY <3>a
    <3>1. up \in Seq(0 .. MaxLevel) /\ down \in Seq(0 .. MaxLevel)
      BY <3>b DEF S
    <3>2. <<s.a_init>> \in Seq(0 .. MaxLevel)
      BY <3>b DEF S
    <3>3. /\ Len(up) = IF s.a_init < MaxLevel THEN 1 ELSE 0
          /\ Len(down) = IF s.a_init > 1 THEN 1 ELSE 0
      OBVIOUS
    <3>4. L = <<s.a_init>> \o up \o down
      BY <2>2 DEF LevelsOf
    <3> HIDE DEF up, down, L
    <3>5. L \in Seq(0 .. MaxLevel) /\ Len(L) = 1 + Len(up) + Len(down)
      BY <3>1, <3>2, <3>4
    <3>6. s.a_init >= 1
      BY <1>1, <2>2 DEF Sans
    <3> QED
      BY <1>1, <3>3, <3>5, <3>6 DEF MostVariants
  <2> QED
    BY <2>1, <2>2
<1>3. v = [i \in DOMAIN L |-> Blank(L[i], s.a_incr, {})]
  BY DEF Variants
<1> HIDE DEF v, L
<1>4. DOMAIN L = 1 .. Len(L) /\ Len(L) \in Nat
  BY <1>2
<1>5. ASSUME NEW i \in 1 .. Len(L)
      PROVE  v[i] \in Solution /\ v[i].start = {} /\ v[i].reasons = {}
  <2> DEFINE a == L[i]
  <2>1. v[i] = Blank(a, s.a_incr, {})
    BY <1>3, <1>4
  <2>2. a \in 0 .. MaxLevel
    <3> DEFINE S == 0 .. MaxLevel
    <3>1. L \in Seq(S)
      BY <1>2
    <3> HIDE DEF S
    <3>2. a \in S
      BY <3>1
    <3> QED
      BY <3>2 DEF S
  <2> HIDE DEF a
  <2>3. Blank(a, s.a_incr, {}) \in Solution
    BY <1>1, <2>2, BlankOf
  <2> QED
    BY <2>1, <2>3 DEF Blank
<1>6. v \in Seq(Solution) /\ Len(v) = Len(L)
  <2>1. v = [i \in 1 .. Len(L) |-> v[i]]
    BY <1>3, <1>4
  <2> DEFINE R == Solution
  <2>2. \A i \in 1 .. Len(L) : v[i] \in R
    BY <1>5
  <2> HIDE DEF R
  <2>3. v \in Seq(R) /\ Len(v) = Len(L)
    BY <1>4, <2>1, <2>2
  <2> QED
    BY <2>3 DEF R
<1>7. n \in 1 .. Len(v) /\ n \in 1 .. MostVariants
  <2>1. n \in 1 .. Len(L)
    BY <1>4 DEF L
  <2> QED
    <3>1. MostVariants \in Nat
      BY PlacesPositive DEF MostVariants
    <3> DEFINE k == Len(L)
               m == MostVariants
    <3>2. k \in 1 .. m /\ m \in Nat /\ n \in 1 .. k /\ Len(v) = k
      BY <1>2, <1>6, <2>1, <3>1
    <3> HIDE DEF k, m
    <3>3. n \in 1 .. k /\ n \in 1 .. m
      BY <3>2
    <3> QED
      BY <3>2, <3>3 DEF m
<1>8. /\ SubSeq(v, 1, n) \in Seq(Solution) /\ Len(SubSeq(v, 1, n)) = n
      /\ \A i \in 1 .. n : SubSeq(v, 1, n)[i] = v[i]
  <2> DEFINE R == Solution
  <2> HIDE DEF R
  <2>1. v \in Seq(R)
    BY <1>6 DEF R
  <2>2. /\ SubSeq(v, 1, n) \in Seq(R) /\ Len(SubSeq(v, 1, n)) = n
        /\ \A i \in 1 .. n : SubSeq(v, 1, n)[i] = v[i]
    BY <1>7, <2>1
  <2> QED
    BY <2>2 DEF R
<1>9. \A i \in 1 .. n : i \in 1 .. Len(L)
  BY <1>4, <1>6, <1>7
<1> QED
  BY <1>5, <1>7, <1>8, <1>9 DEF v

(***************************************************************************)
(* The invariant                                                           *)
(***************************************************************************)
\* Only a refusal leaves reasons, and none of them concerns the slope of a fit
\* sans a: what param_recovery() asserts of a solution follows.
Honest(s) == s.reasons # {} => /\ s.ec = Constrained
                               /\ Sans(s) => s.reasons \cap SlopeReasons = {}
HonestBeam(ss) == \A i \in 1 .. Len(ss) : Honest(ss[i])

\* Every solution was or will be started from viable parameters.
Viable(ss) == \A i \in 1 .. Len(ss) : ss[i].start = {}

Bound == Places + MostVariants * Derive

\* The beam is not empty once it has been started, and a program that stopped
\* stays stopped.
Phases ==
    /\ why # "" => pc = "stopped"
    /\ pc = "plan" => round = 0 /\ solutions = <<>>
    /\ pc = "solve" /\ solutions = <<>> => round = 0
    /\ pc \in {"fit", "derive", "refit", "dedup", "selected", "filter"} => Len(solutions) >= 1

\* Parameters that cannot be started from are in the first estimate or nowhere.
Starting ==
    /\ \/ Viable(solutions)
       \/ /\ round = 0 /\ Len(solutions) = 3
          /\ \/ pc = "fit" /\ next = 1 /\ \A i \in 1 .. 3 : solutions[i].start # {}
             \/ pc = "stopped" /\ why = "bad start"
    /\ why = "bad start" => round = 0 /\ Len(solutions) = 3

\* Every solution derived from is one of those kept, and adds the variants of
\* one solution.
Growing ==
    /\ pc \in {"solve", "derive", "refit", "dedup", "selected", "filter"} => Len(solutions) <= Bound
    /\ pc = "derive" => /\ n_sol <= Places /\ n_sol <= Len(solutions)
                        /\ next - 1 <= Derive
                        /\ Len(solutions) <= n_sol + MostVariants * (next - 1)

\* de_duplicate() compares two places of the beam.
Comparing == pc = "dedup" /\ next < Len(solutions) => next < other /\ other <= Len(solutions)

\* The one assertion that fails is that of too few passing points.
Asserting == why = "assert" => points.pass <= NOut(points)

BeamInv ==
    /\ BeamTypeOK /\ ChoiceIsBest /\ HonestBeam(solutions)
    /\ Phases /\ Starting /\ Growing /\ Comparing /\ Asserting

\* The type invariant by parts.
PlanTyped ==
    /\ input \in PlanInputs /\ plan = Finalise(input) /\ center_only \in BOOLEAN
    /\ n_ctor_sims_ \in Nat
BeamTyped ==
    /\ solutions \in Seq(Solution)
    /\ Len(solutions) <= Bound \/ (round = 0 /\ Len(solutions) = 3)
PointsTyped ==
    points \in PointCounts /\ points.outlier <= points.pass /\ points.convexified <= points.pass
LocalsTyped ==
    next \in Nat \ {0} /\ other \in Nat \ {0} /\ n_sol \in Nat /\ n_data \in Nat
Labels == {"plan", "solve", "fit", "derive", "refit", "dedup", "selected",
           "filter", "done", "stopped"}
Whys == {"", "few points", "bad start", "no solution", "assert"}
Ellipsoids == [shape : {{}, {"f_merge"}}, from : Nat, res : Nat]
RunTyped ==
    /\ pc \in Labels /\ why \in Whys
    /\ round \in 0 .. input.n_iter - 1
    /\ ellipsoid \in Ellipsoids

LEMMA TypeParts ==
    BeamTypeOK <=> PlanTyped /\ BeamTyped /\ PointsTyped /\ LocalsTyped /\ RunTyped
<1>1. BeamTyped <=> /\ solutions \in Seq(Solution)
                    /\ (Len(solutions) <= NBest - Spare + MostVariants * Derive
                        \/ (round = 0 /\ Len(solutions) = 3))
  BY DEF BeamTyped, Bound, Places
<1> QED
  BY <1>1, Zenon DEF BeamTypeOK, PlanTyped, PointsTyped, LocalsTyped, RunTyped,
                     Labels, Whys, Ellipsoids

LEMMA LabelsAre ==
    /\ "plan" \in Labels /\ "solve" \in Labels /\ "fit" \in Labels /\ "derive" \in Labels
    /\ "refit" \in Labels /\ "dedup" \in Labels /\ "selected" \in Labels
    /\ "filter" \in Labels /\ "done" \in Labels /\ "stopped" \in Labels
    /\ "" \in Whys /\ "few points" \in Whys /\ "bad start" \in Whys
    /\ "no solution" \in Whys /\ "assert" \in Whys
  BY DEF Labels, Whys

LEMMA EllipsoidsAre ==
    ASSUME NEW shape \in {{}, {"f_merge"}}, NEW from \in Nat, NEW res \in Nat
    PROVE  [shape |-> shape, from |-> from, res |-> res] \in Ellipsoids
  BY DEF Ellipsoids

LEMMA LengthNat == BeamTyped => Len(solutions) \in Nat /\ DOMAIN solutions = 1 .. Len(solutions)
  BY LenProperties DEF BeamTyped

LEMMA InvGivesStarts == BeamInv => StartsViable
<1> SUFFICES ASSUME BeamInv PROVE StartsViable
  OBVIOUS
<1>1. DOMAIN solutions = 1 .. Len(solutions)
  BY TypeParts, LengthNat DEF BeamInv
<1>2. why = "bad start" => round = 0 /\ pc = "stopped" /\ Len(solutions) = 3
  BY DEF BeamInv, Phases, Starting
<1>3. why = "assert" => points.pass <= NOut(points)
  BY DEF BeamInv, Asserting
<1>4. \A i \in DOMAIN solutions : solutions[i].start # {} => round = 0
  BY <1>1 DEF BeamInv, Starting, Viable
<1> QED
  BY <1>2, <1>3, <1>4 DEF StartsViable

LEMMA BoundNat == MostVariants \in Nat /\ Bound \in Nat /\ Places <= Bound
  BY PlacesPositive DEF MostVariants, Bound

LEMMA SizeNat ==
    ASSUME NEW p \in PointCounts
    PROVE  Size(p) \in Nat /\ NOut(p) \in Nat
<1>1. Size(p) \in Nat
  BY DEF Size, PointCounts
<1> QED
  BY <1>1, BeamAssumption, DivBounds DEF NOut

\* What comes from viable and honest solutions is viable and honest.
LEMMA FromKeeps ==
    ASSUME NEW s, NEW t, From(t, s)
    PROVE  (HonestBeam(s) => HonestBeam(t)) /\ (Viable(s) => Viable(t))
  BY DEF From, HonestBeam, Viable

LEMMA FromTrans ==
    ASSUME NEW s, NEW t, NEW u, From(t, s), From(u, t)
    PROVE  From(u, s)
  BY DEF From

(***************************************************************************)
(* The first states                                                        *)
(***************************************************************************)
LEMMA InitInv == Init => BeamInv
<1> SUFFICES ASSUME Init PROVE BeamInv
  OBVIOUS
<1>1. solutions = <<>> /\ Len(solutions) = 0 /\ round = 0 /\ next = 1 /\ other = 2
  BY DEF Init
<1>2. PICK e \in Explored : /\ points = Explore(e)
                            /\ IF e.pass < MinPasses THEN pc = "stopped" /\ why = "few points"
                                                     ELSE pc = "plan" /\ why = ""
  BY DEF Init
<1>3. points \in PointCounts /\ points.outlier <= points.pass /\ points.convexified <= points.pass
  <2>1. e.pass \in Nat /\ e.fail \in Nat /\ e.cut \in Nat
    BY BeamAssumption
  <2> DEFINE N == Nat
  <2>2. PointCounts = [pass : N, fail : N, cut : N, synth : N, outlier : N, convexified : N]
    BY DEF PointCounts
  <2>3. e.pass \in N /\ e.fail \in N /\ e.cut \in N /\ 0 \in N
    BY <2>1
  <2> HIDE DEF N
  <2>4. points \in PointCounts
    BY <1>2, <2>2, <2>3 DEF Explore
  <2>5. points.outlier = 0 /\ points.convexified = 0 /\ points.pass = e.pass
    BY <1>2 DEF Explore
  <2> QED
    BY <2>1, <2>4, <2>5
<1>4. BeamTypeOK
  <2>1. BeamTyped
    BY <1>1, BoundNat DEF BeamTyped
  <2>2. PlanTyped
    BY <1>3, SizeNat DEF Init, PlanTyped
  <2>3. LocalsTyped
    <3>1. n_sol = 0 /\ n_data = 0
      BY DEF Init
    <3> QED
      BY <1>1, <3>1 DEF LocalsTyped
  <2>4. round \in 0 .. input.n_iter - 1
    BY <1>1, <2>2, BeamAssumption DEF PlanTyped, PlanInput
  <2>5. ellipsoid \in Ellipsoids
    <3>1. PICK shape \in {{}, {"f_merge"}} : ellipsoid = [shape |-> shape, from |-> 0, res |-> 0]
      BY Zenon DEF Init, Estimates
    <3> QED
      BY <3>1, EllipsoidsAre
  <2>6. RunTyped
    BY <1>2, <2>4, <2>5, LabelsAre DEF RunTyped
  <2> QED
    BY <1>3, <2>1, <2>2, <2>3, <2>6, TypeParts DEF PointsTyped
<1>5. ChoiceIsBest
  BY <1>2 DEF ChoiceIsBest
<1>6. HonestBeam(solutions) /\ Viable(solutions)
  BY <1>1 DEF HonestBeam, Viable
<1>7. Phases /\ Comparing /\ Asserting /\ Growing
  BY <1>1, <1>2 DEF Phases, Comparing, Asserting, Growing
<1>8. Starting
  BY <1>1, <1>2, <1>6 DEF Starting
<1> QED
  BY <1>4, <1>5, <1>6, <1>7, <1>8 DEF BeamInv

(***************************************************************************)
(* The steps                                                               *)
(***************************************************************************)
LEMMA InputTyped == PlanTyped => input \in PlanInput /\ input.n_iter \in Nat \ {0, 1}
  BY BeamAssumption DEF PlanTyped, PlanInput

LEMMA TypePartsNext ==
    ASSUME PlanTyped', BeamTyped', PointsTyped', LocalsTyped', RunTyped'
    PROVE  BeamTypeOK'
  BY TypeParts, PTL

LEMMA InvParts ==
    BeamInv => /\ PlanTyped /\ BeamTyped /\ PointsTyped /\ LocalsTyped /\ RunTyped
               /\ Len(solutions) \in Nat /\ DOMAIN solutions = 1 .. Len(solutions)
  BY TypeParts, LengthNat DEF BeamInv

LEMMA BeginRunInv == BeamInv /\ BeginRun => BeamInv'
<1> SUFFICES ASSUME BeamInv, BeginRun PROVE BeamInv'
  OBVIOUS
<1> USE DEF BeginRun, planVars, locals
<1>1. solutions' = <<>> /\ Len(solutions') = 0 /\ round' = 0 /\ why' = ""
  BY DEF BeamInv, Phases
<1>2. BeamTypeOK'
  <2>1. PlanTyped' /\ PointsTyped' /\ LocalsTyped' /\ RunTyped'
    BY InvParts, LabelsAre DEF PlanTyped, PointsTyped, LocalsTyped, RunTyped
  <2>2. BeamTyped'
    BY <1>1, InvParts DEF BeamTyped
  <2> QED
    BY <2>1, <2>2, TypePartsNext
<1>3. ChoiceIsBest' /\ Phases' /\ Comparing' /\ Asserting'
  BY <1>1 DEF ChoiceIsBest, Phases, Comparing, Asserting
<1>4. Growing'
  <2>1. 0 <= Bound
    BY BoundNat
  <2> QED
    BY <1>1, <2>1 DEF Growing
<1>5. HonestBeam(solutions') /\ Viable(solutions')
  <2> DEFINE n == Len(solutions')
  <2>0. n = 0
    BY <1>1
  <2> HIDE DEF n
  <2>1. \A i : i \notin 1 .. n
    BY <2>0
  <2> QED
    BY <2>1 DEF HonestBeam, Viable, n
<1>6. Starting'
  BY <1>1, <1>5 DEF Starting
<1> QED
  BY <1>2, <1>3, <1>4, <1>5, <1>6 DEF BeamInv

LEMMA BeginSolveInv == BeamInv /\ BeginSolve => BeamInv'
<1> SUFFICES ASSUME BeamInv, BeginSolve PROVE BeamInv'
  OBVIOUS
<1> USE DEF BeginSolve, planVars, locals
<1>1. why' = "" /\ why = ""
  BY DEF BeamInv, Phases
<1>2. ellipsoid.shape \in SUBSET Reasons
  BY InvParts DEF RunTyped, Ellipsoids, Reasons, ShapeReasons
<1>3. PlanTyped' /\ PointsTyped' /\ LocalsTyped' /\ RunTyped'
  <2>1. PlanTyped' /\ PointsTyped'
    BY InvParts DEF PlanTyped, PointsTyped
  <2>2. LocalsTyped'
    BY InvParts DEF LocalsTyped
  <2>3. RunTyped'
    BY InvParts, LabelsAre DEF RunTyped
  <2> QED
    BY <2>1, <2>2, <2>3
<1>4. CASE solutions = <<>>
  <2>1. solutions' = Protos /\ round' = 0
    BY <1>4 DEF BeamInv, Phases
  <2>2. /\ Blank(0, 0, ellipsoid.shape) \in Solution /\ Blank(1, 0, ellipsoid.shape) \in Solution
        /\ Blank(1, 1, ellipsoid.shape) \in Solution
    BY <1>2, PlacesPositive, BlankOf
  <2> DEFINE R == Solution
  <2>3. Protos \in Seq(R) /\ Len(Protos) = 3
    <3>1. /\ Blank(0, 0, ellipsoid.shape) \in R /\ Blank(1, 0, ellipsoid.shape) \in R
          /\ Blank(1, 1, ellipsoid.shape) \in R
      BY <2>2
    <3> HIDE DEF R
    <3> QED
      BY <3>1 DEF Protos
  <2>4. \A i \in 1 .. 3 : Protos[i].start = ellipsoid.shape /\ Protos[i].reasons = {}
    BY DEF Protos, Blank
  <2>5. BeamTypeOK'
    <3>1. BeamTyped'
      BY <2>1, <2>3 DEF BeamTyped
    <3> QED
      BY <1>3, <3>1, TypePartsNext
  <2>6. HonestBeam(solutions')
    BY <2>1, <2>3, <2>4 DEF HonestBeam, Honest
  <2>7. Starting'
    BY <1>1, <2>1, <2>3, <2>4 DEF Starting, Viable
  <2>8. ChoiceIsBest' /\ Phases' /\ Growing' /\ Comparing' /\ Asserting'
    <3>1. pc' = "fit" /\ Len(solutions') = 3
      BY <2>1, <2>3
    <3>2. solutions' # <<>>
      BY <3>1
    <3>3. ChoiceIsBest'
      BY <3>1 DEF ChoiceIsBest
    <3>4. Phases'
      <4>1. Len(solutions') >= 1 /\ pc' # "plan" /\ pc' # "solve"
        BY <3>1
      <4> QED
        BY <1>1, <3>2, <4>1, Zenon DEF Phases
    <3>5. Growing' /\ Comparing' /\ Asserting'
      BY <1>1, <3>1 DEF Growing, Comparing, Asserting
    <3> QED
      BY <3>3, <3>4, <3>5
  <2> QED
    BY <2>5, <2>6, <2>7, <2>8 DEF BeamInv
<1>5. CASE solutions # <<>>
  <2>1. solutions' = solutions /\ Len(solutions) <= Bound
    BY <1>5 DEF BeamInv, Growing
  <2>2. Len(solutions') >= 1
    <3> DEFINE R == Solution
    <3>1. solutions \in Seq(R)
      BY InvParts DEF BeamTyped
    <3> HIDE DEF R
    <3> QED
      BY <1>5, <2>1, <3>1, EmptySeq
  <2>3. BeamTyped'
    BY <2>1, InvParts DEF BeamTyped
  <2>4. HonestBeam(solutions') /\ Viable(solutions')
    BY <1>1, <2>1 DEF BeamInv, Starting
  <2>5. Starting' /\ ChoiceIsBest' /\ Phases' /\ Growing' /\ Comparing' /\ Asserting'
    BY <1>1, <2>1, <2>2, <2>4 DEF Starting, ChoiceIsBest, Phases, Growing, Comparing, Asserting
  <2> QED
    BY <1>3, <2>3, <2>4, <2>5, TypePartsNext DEF BeamInv
<1> QED
  BY <1>4, <1>5

LEMMA LandedOf ==
    ASSUME NEW s \in Solution, NEW l \in LandingsOf(s)
    PROVE  Landed(s, l) \in Solution /\ Landed(s, l).start = s.start /\ Honest(Landed(s, l))
<1>1. /\ l \in Landings /\ l.ec \in Codes /\ l.reasons \in SUBSET Reasons /\ l.res \in Nat
      /\ l.reasons # {} => l.ec = Constrained
      /\ Sans(s) => l.reasons \cap SlopeReasons = {}
  BY BeamAssumption DEF LandingsOf
<1>2. l.at \in {0} \cup {k.at : k \in Landings}
  BY <1>1
<1> DEFINE A == 0 .. MaxLevel
           B == 0 .. 1
           C == {0} \cup {k.at : k \in Landings}
           S == SUBSET Reasons
           N == Nat
           R == [a_init : A, a_incr : B, start : S, ec : Codes, reasons : S, res : N, at : C]
           t == Landed(s, l)
<1>3. Solution = R
  BY DEF Solution
<1>4. s \in R /\ l.ec \in Codes /\ l.reasons \in S /\ l.res \in N /\ l.at \in C
  BY <1>1, <1>2, <1>3
<1> HIDE DEF A, B, C, S, N
<1>5. /\ t \in R /\ t.start = s.start /\ t.ec = l.ec /\ t.reasons = l.reasons
      /\ t.a_init = s.a_init
  BY <1>4 DEF Landed
<1>6. Honest(t)
  BY <1>1, <1>5 DEF Honest, Sans
<1> QED
  BY <1>3, <1>5, <1>6

\* A fit changes one solution of the beam.
LEMMA FitKeeps ==
    ASSUME NEW ss \in Seq(Solution), NEW k \in 1 .. Len(ss), NEW l \in LandingsOf(ss[k]),
           HonestBeam(ss)
    PROVE  /\ [ss EXCEPT ![k] = Landed(@, l)] \in Seq(Solution)
           /\ Len([ss EXCEPT ![k] = Landed(@, l)]) = Len(ss)
           /\ HonestBeam([ss EXCEPT ![k] = Landed(@, l)])
           /\ Viable(ss) => Viable([ss EXCEPT ![k] = Landed(@, l)])
<1> DEFINE R == Solution
           s == ss[k]
           e == Landed(s, l)
           t == [ss EXCEPT ![k] = e]
<1>1. s \in R
  <2> HIDE DEF R
  <2>1. ss \in Seq(R)
    BY DEF R
  <2> QED
    BY <2>1
<1>2. e \in R /\ e.start = s.start /\ Honest(e)
  BY <1>1, LandedOf
<1>3. /\ t \in Seq(R) /\ Len(t) = Len(ss)
      /\ \A j \in 1 .. Len(ss) : t[j] = IF j = k THEN e ELSE ss[j]
  <2> HIDE DEF R, e
  <2>1. ss \in Seq(R)
    BY DEF R
  <2> QED
    BY <1>2, <2>1, ExceptSeq
<1> HIDE DEF e, t
<1>4. HonestBeam(t) /\ (Viable(ss) => Viable(t))
  BY <1>2, <1>3 DEF HonestBeam, Viable, s
<1> QED
  BY <1>3, <1>4 DEF t, e

LEMMA FitOneInv == BeamInv /\ FitOne => BeamInv'
<1> SUFFICES ASSUME BeamInv, FitOne PROVE BeamInv'
  OBVIOUS
<1>1. /\ pc \in {"fit", "refit"} /\ next <= Len(solutions)
      /\ planVars' = planVars /\ round' = round /\ points' = points /\ other' = other
      /\ locals' = locals /\ ellipsoid' = ellipsoid
  BY DEF FitOne
<1>2. next \in 1 .. Len(solutions) /\ why = ""
  <2>1. next \in 1 .. Len(solutions)
    BY <1>1, InvParts DEF LocalsTyped
  <2>2. pc # "stopped"
    BY <1>1
  <2> QED
    BY <2>1, <2>2 DEF BeamInv, Phases
<1>3. PlanTyped' /\ PointsTyped'
  BY <1>1, InvParts DEF PlanTyped, PointsTyped, planVars
<1>4. CASE solutions[next].start # {}
  <2>1. pc' = "stopped" /\ why' = "bad start" /\ solutions' = solutions /\ next' = next
    BY <1>4 DEF FitOne, Stop
  <2>2. round = 0 /\ Len(solutions) = 3
    BY <1>1, <1>2, <1>4 DEF BeamInv, Starting, Viable
  <2>3. BeamTyped' /\ LocalsTyped' /\ RunTyped'
    BY <1>1, <2>1, InvParts, LabelsAre DEF BeamTyped, LocalsTyped, RunTyped, planVars, locals
  <2>4. Starting' /\ HonestBeam(solutions')
    BY <1>1, <2>1, <2>2 DEF BeamInv, Starting
  <2>5. ChoiceIsBest' /\ Phases' /\ Growing' /\ Comparing' /\ Asserting'
    BY <2>1 DEF ChoiceIsBest, Phases, Growing, Comparing, Asserting
  <2> QED
    BY <1>3, <2>3, <2>4, <2>5, TypePartsNext DEF BeamInv
<1>5. CASE solutions[next].start = {}
  <2>1. PICK l \in LandingsOf(solutions[next]) :
            solutions' = [solutions EXCEPT ![next] = Landed(@, l)]
    BY <1>5 DEF FitOne
  <2>2. next' = next + 1 /\ pc' = pc /\ why' = why
    BY <1>5 DEF FitOne
  <2>3. Viable(solutions)
    BY <1>1, <1>2, <1>5 DEF BeamInv, Starting
  <2>4. /\ solutions' \in Seq(Solution) /\ Len(solutions') = Len(solutions)
        /\ HonestBeam(solutions') /\ Viable(solutions')
    BY <1>2, <2>1, <2>3, InvParts, FitKeeps DEF BeamInv, BeamTyped
  <2>5. BeamTyped'
    BY <1>1, <2>4, InvParts DEF BeamTyped
  <2>6. LocalsTyped'
    BY <1>1, <2>2, InvParts DEF LocalsTyped, locals
  <2>10. RunTyped'
    BY <1>1, <2>2, InvParts DEF RunTyped, planVars
  <2>7. ChoiceIsBest' /\ Comparing' /\ Asserting'
    BY <1>1, <1>2, <2>2 DEF ChoiceIsBest, Comparing, Asserting
  <2>8. Phases' /\ Growing'
    BY <1>1, <1>2, <2>2, <2>4 DEF BeamInv, Phases, Growing
  <2>9. Starting'
    BY <1>2, <2>2, <2>4 DEF Starting
  <2> QED
    BY <1>3, <2>4, <2>5, <2>6, <2>7, <2>8, <2>9, <2>10, TypePartsNext DEF BeamInv
<1> QED
  BY <1>4, <1>5

LEMMA PruneInv == BeamInv /\ Prune => BeamInv'
<1> SUFFICES ASSUME BeamInv, Prune PROVE BeamInv'
  OBVIOUS
<1>1. /\ pc = "fit" /\ next > Len(solutions) /\ next' = 1 /\ pc' = "derive"
      /\ planVars' = planVars /\ round' = round /\ points' = points /\ other' = other
      /\ ellipsoid' = ellipsoid /\ why' = why /\ n_data' = Size(points)
  BY DEF Prune
<1>2. PICK ss \in Sortings(solutions) :
          solutions' = KeptOf(ss) /\ n_sol' = Len(KeptOf(ss))
  BY DEF Prune
<1>3. why = "" /\ Len(solutions) >= 1
  BY <1>1 DEF BeamInv, Phases
<1>4. Viable(solutions)
  <2>1. ~(Len(solutions) = 3 /\ next = 1) /\ pc # "stopped"
    BY <1>1
  <2> QED
    BY <2>1 DEF BeamInv, Starting
<1>5. ss \in Seq(Solution) /\ Len(ss) = Len(solutions) /\ From(ss, solutions)
  BY <1>2, InvParts, SortingsOf DEF BeamTyped
<1>6. /\ KeptOf(ss) \in Seq(Solution) /\ From(KeptOf(ss), ss)
      /\ Len(KeptOf(ss)) <= Places /\ Len(KeptOf(ss)) >= 1 /\ Len(KeptOf(ss)) \in Nat
  BY <1>3, <1>5, KeptFrom, LenProperties
<1>7. HonestBeam(solutions') /\ Viable(solutions')
  BY <1>2, <1>4, <1>5, <1>6, FromKeeps DEF BeamInv
<1>8. PlanTyped' /\ PointsTyped'
  BY <1>1, InvParts DEF PlanTyped, PointsTyped, planVars
<1>9. LocalsTyped'
  BY <1>1, <1>2, <1>6, InvParts, SizeNat DEF LocalsTyped, PointsTyped
<1>10. RunTyped'
  BY <1>1, InvParts, LabelsAre DEF RunTyped, planVars
<1>11. Len(solutions') <= Bound
  <2> DEFINE n == Len(KeptOf(ss))
  <2>1. n \in Nat /\ n <= Places /\ Places <= Bound /\ Places \in Nat /\ Bound \in Nat
    BY <1>6, BoundNat, PlacesPositive
  <2> HIDE DEF n
  <2>2. n <= Bound
    BY <2>1
  <2> QED
    BY <1>2, <2>2 DEF n
<1>12. BeamTyped'
  BY <1>2, <1>6, <1>11 DEF BeamTyped
<1>13. Growing'
  <2>1. MostVariants * (next' - 1) = 0
    BY <1>1, BoundNat
  <2>2. n_sol' <= n_sol' + 0 /\ next' - 1 <= Derive
    BY <1>1, <1>2, <1>6, PlacesPositive
  <2> QED
    BY <1>1, <1>2, <1>6, <1>11, <2>1, <2>2 DEF Growing
<1>14. ChoiceIsBest' /\ Comparing' /\ Asserting'
  BY <1>1, <1>3 DEF ChoiceIsBest, Comparing, Asserting
<1>15. Phases' /\ Starting'
  BY <1>1, <1>2, <1>3, <1>6, <1>7 DEF Phases, Starting
<1> QED
  BY <1>7, <1>8, <1>9, <1>10, <1>12, <1>13, <1>14, <1>15, TypePartsNext DEF BeamInv

\* A wall adds failing points to those there are.
LEMMA WallOf ==
    ASSUME PointsTyped, NEW reasons, NEW n \in Nat, NEW p \in WithWall(reasons, n)
    PROVE  /\ p \in PointCounts
           /\ p.outlier <= p.pass /\ p.convexified <= p.pass
<1> DEFINE q == [points EXCEPT !.synth = @ + n * WallPoints]
           x == points.synth + n * WallPoints
<1>1. points \in PointCounts /\ points.outlier <= points.pass /\ points.convexified <= points.pass
  BY DEF PointsTyped
<1>2. x \in Nat
  BY <1>1, BeamAssumption DEF PointCounts
<1>3. q = [points EXCEPT !.synth = x]
  OBVIOUS
<1> HIDE DEF q, x
<1>4. q \in PointCounts /\ q.pass = points.pass /\ q.outlier = points.outlier
      /\ q.convexified = points.convexified
  <2> DEFINE N == Nat
  <2>1. PointCounts = [pass : N, fail : N, cut : N, synth : N, outlier : N, convexified : N]
    BY DEF PointCounts
  <2>2. x \in N
    BY <1>2
  <2> HIDE DEF N
  <2> QED
    BY <1>1, <1>3, <2>1, <2>2
<1>5. p = points \/ p = q
  BY DEF WithWall, q
<1> QED
  BY <1>1, <1>4, <1>5

\* One more solution to derive from, one more handful of variants.
LEMMA OneMore ==
    ASSUME NEW m \in Nat, NEW k \in Nat, NEW d \in Nat, k + 1 <= d
    PROVE  m * k + m = m * (k + 1) /\ m * (k + 1) <= m * d /\ m * (k + 1) \in Nat
<1>1. m * (k + 1) = m * k + m /\ m * k \in Nat
  OBVIOUS
<1>2. PICK e \in Nat : d = (k + 1) + e
  <2>1. d - (k + 1) \in Nat /\ d = (k + 1) + (d - (k + 1))
    OBVIOUS
  <2> QED
    BY <2>1
<1>3. m * d = m * (k + 1) + m * e /\ m * e \in Nat
  BY <1>2
<1> QED
  BY <1>1, <1>3

LEMMA DeriveOneInv == BeamInv /\ DeriveOne => BeamInv'
<1> SUFFICES ASSUME BeamInv, DeriveOne PROVE BeamInv'
  OBVIOUS
<1> DEFINE s == solutions[next]
<1>1. /\ pc = "derive" /\ next <= Derive /\ next <= n_sol
      /\ planVars' = planVars /\ round' = round /\ other' = other
      /\ locals' = locals /\ ellipsoid' = ellipsoid
  BY DEF DeriveOne
<1>2. why = "" /\ Len(solutions) >= 1
  <2>1. pc # "stopped"
    BY <1>1
  <2> QED
    BY <1>1, <2>1 DEF BeamInv, Phases
<1>3. next \in 1 .. Len(solutions) /\ next - 1 \in Nat
  <2>1. n_sol <= Len(solutions)
    BY <1>1 DEF BeamInv, Growing
  <2> QED
    BY <1>1, <2>1, InvParts DEF LocalsTyped
<1>4. s \in Solution /\ Honest(s)
  <2> DEFINE R == Solution
  <2>1. solutions \in Seq(R)
    BY InvParts DEF BeamTyped
  <2> HIDE DEF R
  <2>2. s \in R
    BY <1>3, <2>1
  <2> QED
    BY <1>3, <2>2 DEF R, BeamInv, HonestBeam
<1>5. RecoveryAsserts(s)
  BY <1>4 DEF Honest, RecoveryAsserts
<1>6. Viable(solutions)
  <2>1. pc # "fit" /\ pc # "stopped"
    BY <1>1
  <2> QED
    BY <2>1 DEF BeamInv, Starting
<1>7. /\ \/ \E n \in DOMAIN LevelsOf(s) :
              /\ solutions' = solutions \o SubSeq(Variants(s, {}), 1, n)
              /\ points' \in WithWall(s.reasons, n)
         \/ /\ points' \in WithWall(s.reasons, 1)
            /\ solutions' = solutions
      /\ next' = next + 1 /\ pc' = pc /\ why' = why
  BY <1>5 DEF DeriveOne
<1>8. PlanTyped'
  BY <1>1, InvParts DEF PlanTyped, planVars
<1>9. LocalsTyped'
  BY <1>1, <1>7, InvParts DEF LocalsTyped, locals
<1>10. RunTyped'
  BY <1>1, <1>7, InvParts DEF RunTyped, planVars
<1>11. /\ Len(solutions) <= n_sol + MostVariants * (next - 1)
       /\ n_sol <= Places /\ n_sol <= Len(solutions) /\ n_sol \in Nat
  BY <1>1, InvParts DEF BeamInv, Growing, LocalsTyped
<1>12. /\ solutions' \in Seq(Solution) /\ PointsTyped'
       /\ Len(solutions') \in Len(solutions) .. Len(solutions) + MostVariants
       /\ HonestBeam(solutions') /\ Viable(solutions')
  <2>1. CASE /\ points' \in WithWall(s.reasons, 1)
             /\ solutions' = solutions
    <3>1. PointsTyped'
      BY <2>1, InvParts, WallOf DEF PointsTyped
    <3>2. Len(solutions) \in Len(solutions) .. Len(solutions) + MostVariants
      BY BoundNat, InvParts
    <3> QED
      BY <1>6, <2>1, <3>1, <3>2, InvParts DEF BeamTyped, BeamInv
  <2>2. CASE \E n \in DOMAIN LevelsOf(s) :
                /\ solutions' = solutions \o SubSeq(Variants(s, {}), 1, n)
                /\ points' \in WithWall(s.reasons, n)
    <3>1. PICK n \in DOMAIN LevelsOf(s) :
              /\ solutions' = solutions \o SubSeq(Variants(s, {}), 1, n)
              /\ points' \in WithWall(s.reasons, n)
      BY <2>2
    <3> DEFINE v == SubSeq(Variants(s, {}), 1, n)
    <3>2. /\ v \in Seq(Solution) /\ Len(v) = n /\ n \in 1 .. MostVariants
          /\ \A i \in 1 .. n : v[i].start = {} /\ v[i].reasons = {}
      BY <1>4, VariantsOf
    <3>3. n \in Nat
      BY <3>2
    <3>4. PointsTyped'
      BY <3>1, <3>3, InvParts, WallOf DEF PointsTyped
    <3>5. solutions' = solutions \o v
      BY <3>1
    <3> HIDE DEF v
    <3>6. /\ solutions' \in Seq(Solution) /\ Len(solutions') = Len(solutions) + n
          /\ \A i \in 1 .. Len(solutions) + n :
                solutions'[i] = IF i <= Len(solutions) THEN solutions[i]
                                                       ELSE v[i - Len(solutions)]
      <4> DEFINE R == Solution
      <4>1. solutions \in Seq(R) /\ v \in Seq(R)
        BY <3>2, InvParts DEF BeamTyped
      <4> HIDE DEF R
      <4>2. /\ solutions \o v \in Seq(R) /\ Len(solutions \o v) = Len(solutions) + Len(v)
            /\ \A i \in 1 .. Len(solutions) + Len(v) :
                  (solutions \o v)[i] = IF i <= Len(solutions) THEN solutions[i]
                                                              ELSE v[i - Len(solutions)]
        BY <4>1, ConcatProperties
      <4>3. Len(v) = n
        BY <3>2
      <4> QED
        BY <3>5, <4>2, <4>3 DEF R
    <3>7. Len(solutions') \in Len(solutions) .. Len(solutions) + MostVariants
      <4> DEFINE l == Len(solutions)
                 m == MostVariants
                 k == Len(solutions')
      <4>1. l \in Nat /\ m \in Nat /\ n \in 1 .. m /\ k = l + n
        BY <3>2, <3>6, BoundNat, InvParts
      <4> HIDE DEF l, m, k
      <4>2. k \in l .. l + m
        BY <4>1
      <4> QED
        BY <4>2 DEF k, l, m
    <3>8. ASSUME NEW i \in 1 .. Len(solutions')
          PROVE  Honest(solutions'[i]) /\ solutions'[i].start = {}
      <4>1. CASE i <= Len(solutions)
        <5>1. i \in 1 .. Len(solutions) /\ solutions'[i] = solutions[i]
          BY <3>6, <4>1, InvParts
        <5> QED
          BY <1>6, <5>1 DEF BeamInv, HonestBeam, Viable
      <4>2. CASE ~(i <= Len(solutions))
        <5>1. i - Len(solutions) \in 1 .. n /\ solutions'[i] = v[i - Len(solutions)]
          BY <3>3, <3>6, <4>2, InvParts
        <5> QED
          BY <3>2, <5>1 DEF Honest
      <4> QED
        BY <4>1, <4>2
    <3> QED
      BY <3>4, <3>6, <3>7, <3>8 DEF HonestBeam, Viable
  <2> QED
    BY <1>7, <2>1, <2>2
<1>13. Len(solutions') <= n_sol + MostVariants * (next' - 1) /\ Len(solutions') <= Bound
       /\ n_sol <= Len(solutions')
  <2> DEFINE l == Len(solutions)
             k == Len(solutions')
             m == MostVariants
             j == next - 1
             P == Places
  <2>1. /\ l \in Nat /\ m \in Nat /\ k \in l .. l + m /\ j \in Nat /\ j + 1 <= Derive
        /\ n_sol \in Nat /\ n_sol <= P /\ n_sol <= l /\ P \in Nat /\ Derive \in Nat
        /\ next' - 1 = j + 1 /\ l <= n_sol + m * j
    <3>1. next \in Nat /\ next - 1 \in Nat /\ next <= Derive /\ Derive \in Nat
      BY <1>1, <1>3, PlacesPositive, InvParts DEF LocalsTyped
    <3>2. next - 1 + 1 <= Derive /\ next' - 1 = (next - 1) + 1
      BY <1>7, <3>1
    <3> QED
      BY <1>11, <1>12, <3>1, <3>2, InvParts, BoundNat, PlacesPositive
  <2> HIDE DEF l, k, m, j, P
  <2>2. m * j + m = m * (j + 1) /\ m * (j + 1) <= m * Derive /\ m * (j + 1) \in Nat
    BY <2>1, OneMore
  <2> DEFINE x == m * j
             y == m * (j + 1)
             z == m * Derive
  <2>3. x \in Nat /\ z \in Nat /\ x + m = y /\ y <= z /\ y \in Nat
    BY <2>1, <2>2
  <2>4. l <= n_sol + x
    BY <2>1
  <2> HIDE DEF x, y, z
  <2>5. k <= n_sol + y /\ k <= P + z /\ n_sol <= k
    BY <2>1, <2>3, <2>4
  <2>6. Len(solutions') <= n_sol + MostVariants * (j + 1)
    BY <2>5 DEF k, y, m
  <2>7. Len(solutions') <= Bound
    BY <2>5 DEF k, P, z, m, Bound
  <2>8. n_sol <= Len(solutions')
    BY <2>5 DEF k
  <2> QED
    BY <2>1, <2>6, <2>7, <2>8
<1>14. BeamTyped'
  BY <1>12, <1>13 DEF BeamTyped
<1>15. n_sol' = n_sol /\ next' - 1 <= Derive
  BY <1>1, <1>7, <1>3, PlacesPositive, InvParts DEF locals, LocalsTyped
<1>16. Growing'
  BY <1>11, <1>13, <1>15 DEF Growing
<1>17. ChoiceIsBest' /\ Comparing' /\ Asserting' /\ Starting'
  BY <1>1, <1>2, <1>7, <1>12 DEF ChoiceIsBest, Comparing, Asserting, Starting
<1>18. Phases'
  <2> DEFINE l == Len(solutions)
             k == Len(solutions')
             m == MostVariants
  <2>0. l \in Nat /\ l >= 1 /\ k \in l .. l + m
    BY <1>2, <1>12, InvParts
  <2> HIDE DEF l, k, m
  <2>2. k >= 1
    BY <2>0
  <2>1. Len(solutions') >= 1
    BY <2>2 DEF k
  <2> QED
    BY <1>1, <1>2, <1>7, <2>1 DEF Phases
<1> QED
  BY <1>8, <1>9, <1>10, <1>12, <1>14, <1>16, <1>17, <1>18, TypePartsNext DEF BeamInv

LEMMA EndDeriveInv == BeamInv /\ EndDerive => BeamInv'
<1> SUFFICES ASSUME BeamInv, EndDerive PROVE BeamInv'
  OBVIOUS
<1>1. /\ pc = "derive" /\ pc' = "refit" /\ n_sol' = 0 /\ n_data' = 0
      /\ next' = 1 + (IF Size(points) > n_data THEN 0 ELSE n_sol)
      /\ planVars' = planVars /\ round' = round /\ other' = other /\ points' = points
      /\ solutions' = solutions /\ ellipsoid' = ellipsoid /\ why' = why
  BY DEF EndDerive
<1>2. why = "" /\ Len(solutions) >= 1 /\ Len(solutions) <= Bound
  BY <1>1 DEF BeamInv, Phases, Growing
<1>3. Viable(solutions)
  BY <1>1 DEF BeamInv, Starting
<1>4. LocalsTyped'
  BY <1>1, InvParts DEF LocalsTyped
<1>5. PlanTyped' /\ PointsTyped' /\ BeamTyped'
  BY <1>1, InvParts DEF PlanTyped, PointsTyped, BeamTyped, planVars
<1>6. RunTyped'
  BY <1>1, InvParts, LabelsAre DEF RunTyped, planVars
<1>7. ChoiceIsBest' /\ Comparing' /\ Asserting' /\ Starting'
  BY <1>1, <1>2, <1>3 DEF ChoiceIsBest, Comparing, Asserting, Starting
<1>8. Phases' /\ Growing' /\ HonestBeam(solutions')
  BY <1>1, <1>2 DEF Phases, Growing, BeamInv
<1> QED
  BY <1>4, <1>5, <1>6, <1>7, <1>8, TypePartsNext DEF BeamInv

LEMMA BeginDeduplicateInv == BeamInv /\ BeginDeduplicate => BeamInv'
<1> SUFFICES ASSUME BeamInv, BeginDeduplicate PROVE BeamInv'
  OBVIOUS
<1>1. /\ pc = "refit" /\ pc' = "dedup" /\ next' = 1 /\ other' = 2
      /\ planVars' = planVars /\ round' = round /\ points' = points /\ locals' = locals
      /\ solutions' = solutions /\ ellipsoid' = ellipsoid /\ why' = why
  BY DEF BeginDeduplicate
<1>2. why = "" /\ Len(solutions) >= 1 /\ Len(solutions) <= Bound
  BY <1>1 DEF BeamInv, Phases, Growing
<1>3. Viable(solutions)
  BY <1>1 DEF BeamInv, Starting
<1>4. LocalsTyped'
  BY <1>1, InvParts DEF LocalsTyped, locals
<1>5. PlanTyped' /\ PointsTyped' /\ BeamTyped'
  BY <1>1, InvParts DEF PlanTyped, PointsTyped, BeamTyped, planVars
<1>6. RunTyped'
  BY <1>1, InvParts, LabelsAre DEF RunTyped, planVars
<1>7. ChoiceIsBest' /\ Asserting' /\ Starting'
  BY <1>1, <1>2, <1>3 DEF ChoiceIsBest, Asserting, Starting
<1>8. Comparing'
  BY <1>1, InvParts DEF Comparing
<1>9. Phases' /\ Growing' /\ HonestBeam(solutions')
  BY <1>1, <1>2 DEF Phases, Growing, BeamInv
<1> QED
  BY <1>4, <1>5, <1>6, <1>7, <1>8, <1>9, TypePartsNext DEF BeamInv

LEMMA CompareInv == BeamInv /\ Compare => BeamInv'
<1> SUFFICES ASSUME BeamInv, Compare PROVE BeamInv'
  OBVIOUS
<1>1. /\ pc = "dedup" /\ next < Len(solutions) /\ pc' = pc
      /\ planVars' = planVars /\ round' = round /\ points' = points /\ locals' = locals
      /\ ellipsoid' = ellipsoid /\ why' = why
      /\ IF other < Len(solutions')
         THEN next' = next /\ other' = other + 1
         ELSE next' = next + 1 /\ other' = next + 2
      /\ \/ solutions' = RemoveAt(solutions, other)
         \/ solutions' = solutions
  BY DEF Compare
<1>2. why = "" /\ Len(solutions) >= 1 /\ Len(solutions) <= Bound
  BY <1>1 DEF BeamInv, Phases, Growing
<1>3. Viable(solutions)
  BY <1>1 DEF BeamInv, Starting
<1>4. /\ next \in Nat /\ next >= 1 /\ other \in Nat /\ next < other
      /\ other \in 1 .. Len(solutions)
  BY <1>1, InvParts DEF LocalsTyped, BeamInv, Comparing
<1>5. /\ solutions' \in Seq(Solution) /\ HonestBeam(solutions') /\ Viable(solutions')
      /\ Len(solutions') \in {Len(solutions) - 1, Len(solutions)}
  <2>1. CASE solutions' = solutions
    BY <1>3, <2>1, InvParts DEF BeamInv, BeamTyped
  <2>2. CASE solutions' = RemoveAt(solutions, other)
    <3>1. /\ solutions' \in Seq(Solution) /\ Len(solutions') = Len(solutions) - 1
          /\ From(solutions', solutions)
      BY <1>4, <2>2, InvParts, RemoveAtFrom DEF BeamTyped
    <3> QED
      BY <1>3, <3>1, FromKeeps DEF BeamInv
  <2> QED
    BY <1>1, <2>1, <2>2
<1>6. Len(solutions') \in Nat /\ Len(solutions') >= 1 /\ Len(solutions') <= Bound
  <2> DEFINE l == Len(solutions)
             k == Len(solutions')
             b == Bound
  <2>1. l \in Nat /\ k \in {l - 1, l} /\ next < l /\ l <= b /\ b \in Nat
    BY <1>1, <1>2, <1>5, InvParts, BoundNat
  <2> HIDE DEF l, k, b
  <2>2. k \in Nat /\ k >= 1 /\ k <= b
    BY <1>4, <2>1
  <2> QED
    BY <2>2 DEF k, b
<1>7. LocalsTyped'
  <2>1. /\ next' \in Nat \ {0} /\ other' \in Nat \ {0}
    BY <1>1, <1>4
  <2> QED
    BY <1>1, <2>1, InvParts DEF LocalsTyped, locals
<1>8. PlanTyped' /\ PointsTyped'
  BY <1>1, InvParts DEF PlanTyped, PointsTyped, planVars
<1>9. BeamTyped'
  BY <1>5, <1>6 DEF BeamTyped
<1>10. RunTyped'
  BY <1>1, InvParts DEF RunTyped, planVars
<1>11. ChoiceIsBest' /\ Asserting' /\ Starting'
  BY <1>1, <1>2, <1>5 DEF ChoiceIsBest, Asserting, Starting
<1>12. Comparing'
  <2> DEFINE k == Len(solutions')
  <2>1. IF other < k THEN next' = next /\ other' = other + 1
                     ELSE next' = next + 1 /\ other' = next + 2
    BY <1>1
  <2>2. k \in Nat
    BY <1>6
  <2> HIDE DEF k
  <2>3. next' < k => next' < other' /\ other' <= k
    BY <1>4, <2>1, <2>2
  <2> QED
    BY <2>3 DEF Comparing, k
<1>13. Phases' /\ Growing'
  BY <1>1, <1>2, <1>6 DEF Phases, Growing
<1> QED
  BY <1>5, <1>7, <1>8, <1>9, <1>10, <1>11, <1>12, <1>13, TypePartsNext DEF BeamInv

\* The limit for a solution without repairs is 1.1 times the mark for none,
\* which no residual is below.
LEMMA NothingWithinLimit ==
    ASSUME NEW ss \in Seq(Solution)
    PROVE  CleanChoices(ss) = {}
<1> SUFFICES ASSUME NEW i \in CleanChoices(ss) PROVE FALSE
  OBVIOUS
<1> DEFINE R == Solution
<1>1. i \in DOMAIN ss /\ \A k \in 1 .. i : WithinLimit(ss[k])
  BY DEF CleanChoices
<1>2. ss \in Seq(R) /\ i \in 1 .. Len(ss)
  BY <1>1
<1> HIDE DEF R
<1>3. i \in 1 .. i /\ ss[i] \in R
  BY <1>2
<1>4. WithinLimit(ss[i]) /\ ss[i].res \in Nat
  BY <1>1, <1>3 DEF R, Solution
<1> QED
  BY <1>4 DEF WithinLimit, NoneYet

\* A solution that was not refused can be repaired: nothing has to be done.
LEMMA UnrefusedRepairs ==
    ASSUME NEW s, s.reasons = {}
    PROVE  ~MayNotRepair(s)
<1>1. \A r \in Found(s) : r \subseteq SlopeReasons
  <2>1. CASE Sans(s) /\ s.a_incr = 0
    <3>1. Found(s) = {{} \cup a : a \in {{}, {"min_a"}, {"max_a"}}}
      BY <2>1 DEF Found
    <3> QED
      BY <3>1 DEF SlopeReasons
  <2>2. CASE ~(Sans(s) /\ s.a_incr = 0)
    BY <2>2 DEF Found
  <2> QED
    BY <2>1, <2>2
<1> QED
  BY <1>1 DEF MayNotRepair, AlwaysRepaired

LEMMA SelectInv == BeamInv /\ Select => BeamInv'
<1> SUFFICES ASSUME BeamInv, Select PROVE BeamInv'
  OBVIOUS
<1>1. /\ pc = "dedup" /\ next' = 1 /\ other' = 2
      /\ planVars' = planVars /\ round' = round /\ points' = points /\ locals' = locals
  BY DEF Select
<1>2. PICK ss \in Sortings(solutions) :
        /\ solutions' = ss
        /\ \/ \E i \in Chosen(ss) :
                /\ ellipsoid' = [shape |-> {}, from |-> i, res |-> ss[i].res]
                /\ pc' = "selected"
                /\ why' = why
           \/ /\ pc' = "stopped" /\ why' = "no solution"
              /\ ellipsoid' = ellipsoid
  BY DEF Select, Stop
<1>3. why = "" /\ Len(solutions) >= 1 /\ Len(solutions) <= Bound
  BY <1>1 DEF BeamInv, Phases, Growing
<1>4. Viable(solutions)
  BY <1>1 DEF BeamInv, Starting
<1>5. /\ ss \in Seq(Solution) /\ Len(ss) = Len(solutions) /\ From(ss, solutions)
      /\ \A i, j \in 1 .. Len(solutions) : i < j => ~Precedes(ss[j], ss[i])
  BY <1>2, InvParts, SortingsOf DEF BeamTyped
<1>6. HonestBeam(solutions') /\ Viable(solutions')
  BY <1>2, <1>4, <1>5, FromKeeps DEF BeamInv
<1>7. LocalsTyped'
  BY <1>1, InvParts DEF LocalsTyped, locals
<1>8. PlanTyped' /\ PointsTyped'
  BY <1>1, InvParts DEF PlanTyped, PointsTyped, planVars
<1>9. BeamTyped'
  BY <1>2, <1>3, <1>5 DEF BeamTyped
<1>10. CASE pc' = "stopped" /\ why' = "no solution" /\ ellipsoid' = ellipsoid
  <2>1. RunTyped'
    BY <1>1, <1>10, InvParts, LabelsAre DEF RunTyped, planVars
  <2>2. /\ ChoiceIsBest' /\ Phases' /\ Starting' /\ Growing' /\ Comparing' /\ Asserting'
    BY <1>6, <1>10 DEF ChoiceIsBest, Phases, Starting, Growing, Comparing, Asserting
  <2> QED
    BY <1>6, <1>7, <1>8, <1>9, <2>1, <2>2, TypePartsNext DEF BeamInv
<1>11. CASE \E i \in Chosen(ss) :
                /\ ellipsoid' = [shape |-> {}, from |-> i, res |-> ss[i].res]
                /\ pc' = "selected"
                /\ why' = why
  <2>1. PICK i \in Chosen(ss) :
                /\ ellipsoid' = [shape |-> {}, from |-> i, res |-> ss[i].res]
                /\ pc' = "selected"
                /\ why' = why
    BY <1>11
  <2>2. i \in RepairChoices(ss)
    BY <1>5, <2>1, NothingWithinLimit DEF Chosen
  <2>3. /\ DOMAIN ss = 1 .. Len(ss) /\ Len(ss) \in Nat
        /\ \A k \in 1 .. Len(ss) : ss[k] \in Solution /\ ss[k].res \in Nat
    <3> DEFINE R == Solution
    <3>1. ss \in Seq(R)
      BY <1>5
    <3> HIDE DEF R
    <3>2. /\ DOMAIN ss = 1 .. Len(ss) /\ Len(ss) \in Nat
          /\ \A k \in 1 .. Len(ss) : ss[k] \in R
      BY <3>1
    <3> QED
      BY <3>2 DEF R, Solution
  <2>4. i \in 1 .. Len(ss) /\ \A k \in 1 .. i - 1 : MayNotRepair(ss[k])
    BY <2>2, <2>3 DEF RepairChoices
  <2>5. ASSUME NEW j \in 1 .. Len(ss), ss[j].reasons = {}
        PROVE  ss[i].res <= ss[j].res
    <3>1. ~MayNotRepair(ss[j])
      BY <2>5, UnrefusedRepairs
    <3>2. i <= j
      BY <2>3, <2>4, <3>1
    <3>3. CASE i = j
      BY <2>3, <2>4, <3>3
    <3>4. CASE i < j
      <4>1. ~Precedes(ss[j], ss[i])
        BY <1>5, <2>4, <3>4
      <4> QED
        BY <2>3, <2>4, <4>1 DEF Precedes
    <3> QED
      BY <2>3, <2>4, <3>2, <3>3, <3>4
  <2>6. ellipsoid'.shape = {} /\ ellipsoid'.res = ss[i].res
    BY <2>1
  <2>7. ChoiceIsBest'
    <3>1. DOMAIN solutions' = 1 .. Len(ss) /\ solutions' = ss
      BY <1>2, <2>3
    <3> QED
      BY <2>5, <2>6, <3>1 DEF ChoiceIsBest
  <2>8. ellipsoid' \in Ellipsoids
    <3>1. {} \in {{}, {"f_merge"}} /\ i \in Nat /\ ss[i].res \in Nat
      BY <2>3, <2>4
    <3> QED
      BY <2>1, <3>1, EllipsoidsAre
  <2>9. RunTyped'
    BY <1>1, <2>1, <2>8, InvParts, LabelsAre DEF RunTyped, planVars
  <2>10. Phases' /\ Starting' /\ Growing' /\ Comparing' /\ Asserting'
    <3>1. pc' = "selected" /\ why' = "" /\ solutions' = ss /\ Len(solutions') = Len(solutions)
      BY <1>2, <1>3, <1>5, <2>1
    <3> QED
      BY <1>3, <1>6, <3>1 DEF Phases, Starting, Growing, Comparing, Asserting
  <2> QED
    BY <1>6, <1>7, <1>8, <1>9, <2>7, <2>9, <2>10, TypePartsNext DEF BeamInv
<1> QED
  BY <1>2, <1>10, <1>11

\* The counts of a shell search added to those of the points.
WithShell(p, c) ==
    [p EXCEPT !.synth = @ + c.synth, !.pass = @ + c.pass, !.fail = @ + c.fail]

\* A shell search adds no more than its probes.
LEMMA ShellPoints ==
    ASSUME NEW n, NEW c \in ShellCounts(n), NEW p \in PointCounts
    PROVE  /\ WithShell(p, c) \in PointCounts /\ p.pass <= WithShell(p, c).pass
           /\ WithShell(p, c).outlier = p.outlier
           /\ WithShell(p, c).convexified = p.convexified
           /\ n \in Nat => Simulated(WithShell(p, c)) <= Simulated(p) + n
<1>1. c.synth \in Nat /\ c.pass \in Nat /\ c.fail \in Nat /\ c.synth + c.pass + c.fail <= n
  BY DEF ShellCounts
<1> DEFINE N == Nat
           x == p.synth + c.synth
           y == p.pass + c.pass
           z == p.fail + c.fail
           q == WithShell(p, c)
<1>2. PointCounts = [pass : N, fail : N, cut : N, synth : N, outlier : N, convexified : N]
  BY DEF PointCounts
<1>3. p.synth \in Nat /\ p.pass \in Nat /\ p.fail \in Nat /\ p.cut \in Nat
  BY DEF PointCounts
<1>4. x \in N /\ y \in N /\ z \in N /\ p.pass <= y
  BY <1>1, <1>3
<1>5. q = [p EXCEPT !.synth = x, !.pass = y, !.fail = z]
  BY <1>2 DEF WithShell
<1>6. n \in Nat => y + z + p.cut <= p.pass + p.fail + p.cut + n
  BY <1>1, <1>3
<1> HIDE DEF N, x, y, z, q
<1>7. /\ q \in PointCounts /\ q.pass = y /\ q.fail = z /\ q.cut = p.cut
      /\ q.outlier = p.outlier /\ q.convexified = p.convexified
  BY <1>2, <1>4, <1>5
<1>8. /\ q \in PointCounts /\ p.pass <= q.pass
      /\ q.outlier = p.outlier /\ q.convexified = p.convexified
      /\ n \in Nat => Simulated(q) <= Simulated(p) + n
  BY <1>4, <1>6, <1>7 DEF Simulated
<1> QED
  BY <1>8 DEF q

LEMMA SearchShellInv == BeamInv /\ SearchShell => BeamInv'
<1> SUFFICES ASSUME BeamInv, SearchShell PROVE BeamInv'
  OBVIOUS
<1>1. /\ pc = "selected" /\ round + 1 < input.n_iter
      /\ planVars' = planVars /\ solutions' = solutions /\ next' = next /\ other' = other
      /\ locals' = locals
  BY DEF SearchShell
<1>2. ellipsoid.shape = {}
  BY <1>1 DEF BeamInv, ChoiceIsBest
<1>3. /\ \E c \in ShellCounts(ShellProbesRun(plan)) :
            points' = [points EXCEPT !.synth = @ + c.synth, !.pass = @ + c.pass,
                                     !.fail = @ + c.fail]
      /\ round' = round + 1 /\ ellipsoid' = [ellipsoid EXCEPT !.from = 0, !.res = 0]
      /\ pc' = "filter" /\ why' = why
  BY <1>2 DEF SearchShell
<1>4. why = "" /\ Len(solutions) >= 1 /\ Len(solutions) <= Bound
  BY <1>1 DEF BeamInv, Phases, Growing
<1>5. Viable(solutions)
  BY <1>1 DEF BeamInv, Starting
<1>6. PlanTyped' /\ LocalsTyped'
  BY <1>1, InvParts DEF PlanTyped, LocalsTyped, planVars, locals
<1>7. PointsTyped'
  <2>1. PICK c \in ShellCounts(ShellProbesRun(plan)) : points' = WithShell(points, c)
    BY <1>3 DEF WithShell
  <2>2. points \in PointCounts /\ points.outlier <= points.pass /\ points.convexified <= points.pass
    BY InvParts DEF PointsTyped
  <2>3. /\ points' \in PointCounts /\ points.pass <= points'.pass
        /\ points'.outlier = points.outlier /\ points'.convexified = points.convexified
    BY <2>1, <2>2, ShellPoints
  <2>4. points.pass \in Nat /\ points'.pass \in Nat /\ points.outlier \in Nat /\ points.convexified \in Nat
    BY <2>2, <2>3 DEF PointCounts
  <2> QED
    BY <2>2, <2>3, <2>4 DEF PointsTyped
<1>8. ellipsoid' \in Ellipsoids
  BY <1>3, InvParts DEF RunTyped, Ellipsoids
<1>9. round' \in 0 .. input'.n_iter - 1
  <2>1. input' = input /\ round \in Nat /\ input.n_iter \in Nat
    BY <1>1, InvParts, InputTyped DEF RunTyped, planVars
  <2> QED
    BY <1>1, <1>3, <2>1
<1>10. RunTyped'
  BY <1>3, <1>8, <1>9, InvParts, LabelsAre DEF RunTyped
<1>11. BeamTyped'
  BY <1>1, <1>4, InvParts DEF BeamTyped
<1>12. ChoiceIsBest' /\ Phases' /\ Starting' /\ Growing' /\ Comparing' /\ Asserting'
  BY <1>1, <1>3, <1>4, <1>5 DEF ChoiceIsBest, Phases, Starting, Growing, Comparing, Asserting
<1>13. HonestBeam(solutions')
  BY <1>1 DEF BeamInv
<1> QED
  BY <1>6, <1>7, <1>10, <1>11, <1>12, <1>13, TypePartsNext DEF BeamInv

\* A filter marks passing points; which ones does not matter.
LEMMA FilteredOf ==
    ASSUME PointsTyped, NOut(points) < 1 \/ points.pass > NOut(points),
           NEW p \in Convexified(Rejected(points))
    PROVE  p \in PointCounts /\ p.outlier <= p.pass /\ p.convexified <= p.pass
<1> DEFINE N == Nat
           r == Rejected(points)
           o == NOut(points)
<1>1. PointCounts = [pass : N, fail : N, cut : N, synth : N, outlier : N, convexified : N]
  BY DEF PointCounts
<1>2. /\ points \in PointCounts /\ points.outlier <= points.pass
      /\ points.convexified <= points.pass /\ points.pass \in Nat
      /\ o \in Nat /\ o \in N
  BY SizeNat DEF PointsTyped, PointCounts
<1>3. r = IF o < 1 THEN points ELSE [points EXCEPT !.outlier = o]
  BY DEF Rejected
<1> HIDE DEF N, r, o
<1>4. /\ r \in PointCounts /\ r.pass = points.pass /\ r.convexified = points.convexified
      /\ r.outlier = IF o < 1 THEN points.outlier ELSE o
  BY <1>1, <1>2, <1>3
<1>5. r.outlier <= r.pass /\ r.convexified <= r.pass /\ r.pass \in Nat
  BY <1>2, <1>4 DEF o
<1>6. p = r \/ \E c \in 0 .. r.pass : p = [r EXCEPT !.convexified = c]
  <2>1. CASE round <= 1
    BY <2>1 DEF Convexified, r
  <2>2. CASE ~(round <= 1)
    <3>1. PICK c \in IF r.fail = 0 THEN {0} ELSE 0 .. r.pass : p = [r EXCEPT !.convexified = c]
      BY <2>2 DEF Convexified, r
    <3>2. c \in 0 .. r.pass
      BY <1>5, <3>1
    <3> QED
      BY <3>1, <3>2
  <2> QED
    BY <2>1, <2>2
<1>7. CASE \E c \in 0 .. r.pass : p = [r EXCEPT !.convexified = c]
  <2>1. PICK c \in 0 .. r.pass : p = [r EXCEPT !.convexified = c]
    BY <1>7
  <2>2. c \in N /\ c <= r.pass
    BY <2>1 DEF N
  <2>3. p \in PointCounts /\ p.convexified = c /\ p.pass = r.pass /\ p.outlier = r.outlier
    BY <1>1, <1>4, <2>1, <2>2
  <2> QED
    BY <1>5, <2>2, <2>3
<1> QED
  BY <1>4, <1>5, <1>6, <1>7

LEMMA FilterInv == BeamInv /\ Filter => BeamInv'
<1> SUFFICES ASSUME BeamInv, Filter PROVE BeamInv'
  OBVIOUS
<1>1. /\ pc = "filter" /\ planVars' = planVars /\ round' = round /\ solutions' = solutions
      /\ next' = next /\ other' = other /\ locals' = locals /\ ellipsoid' = ellipsoid
  BY DEF Filter
<1>2. why = "" /\ Len(solutions) >= 1 /\ Len(solutions) <= Bound
  BY <1>1 DEF BeamInv, Phases, Growing
<1>3. Viable(solutions)
  BY <1>1 DEF BeamInv, Starting
<1>4. PlanTyped' /\ LocalsTyped' /\ BeamTyped'
  BY <1>1, InvParts DEF PlanTyped, LocalsTyped, BeamTyped, planVars, locals
<1>5. HonestBeam(solutions') /\ Viable(solutions') /\ solutions # <<>>
  <2>1. solutions # <<>>
    <3>1. Len(<<>>) = 0 /\ ~(0 >= 1)
      OBVIOUS
    <3> QED
      BY <1>2, <3>1, Zenon
  <2> QED
    BY <1>1, <1>3, <2>1 DEF BeamInv
<1>6. CASE NOut(points) >= 1 /\ points.pass <= NOut(points)
  <2>1. pc' = "stopped" /\ why' = "assert" /\ points' = points
    BY <1>6 DEF Filter, Stop
  <2>2. PointsTyped'
    BY <2>1, InvParts DEF PointsTyped
  <2>3. RunTyped'
    BY <1>1, <2>1, InvParts, LabelsAre DEF RunTyped, planVars
  <2>4. ChoiceIsBest' /\ Phases' /\ Starting' /\ Growing' /\ Comparing'
    BY <1>1, <1>5, <2>1 DEF ChoiceIsBest, Phases, Starting, Growing, Comparing
  <2>5. Asserting'
    BY <1>6, <2>1 DEF Asserting
  <2> QED
    BY <1>4, <1>5, <2>2, <2>3, <2>4, <2>5, TypePartsNext DEF BeamInv
<1>7. CASE ~(NOut(points) >= 1 /\ points.pass <= NOut(points))
  <2>1. points' \in Convexified(Rejected(points)) /\ pc' = "solve" /\ why' = why
    BY <1>7 DEF Filter
  <2>2. NOut(points) < 1 \/ points.pass > NOut(points)
    BY <1>7, InvParts, SizeNat DEF PointsTyped, PointCounts
  <2>3. PointsTyped'
    BY <2>1, <2>2, InvParts, FilteredOf DEF PointsTyped
  <2>4. RunTyped'
    BY <1>1, <2>1, InvParts, LabelsAre DEF RunTyped, planVars
  <2>5. ChoiceIsBest' /\ Phases' /\ Starting' /\ Growing' /\ Comparing' /\ Asserting'
    BY <1>1, <1>2, <1>5, <2>1 DEF ChoiceIsBest, Phases, Starting, Growing, Comparing, Asserting
  <2> QED
    BY <1>4, <1>5, <2>3, <2>4, <2>5, TypePartsNext DEF BeamInv
<1> QED
  BY <1>6, <1>7

LEMMA ReportInv == BeamInv /\ Report => BeamInv'
<1> SUFFICES ASSUME BeamInv, Report PROVE BeamInv'
  OBVIOUS
<1>1. /\ pc = "selected" /\ planVars' = planVars /\ round' = round /\ solutions' = solutions
      /\ next' = next /\ other' = other /\ locals' = locals /\ ellipsoid' = ellipsoid
      /\ points' = points
  BY DEF Report
<1>2. ellipsoid.shape = {}
  BY <1>1 DEF BeamInv, ChoiceIsBest
<1>3. pc' = "done" /\ why' = why
  BY <1>2 DEF Report
<1>4. why = ""
  BY <1>1 DEF BeamInv, Phases
<1>5. Viable(solutions)
  BY <1>1 DEF BeamInv, Starting
<1>6. PlanTyped' /\ LocalsTyped' /\ BeamTyped' /\ PointsTyped'
  BY <1>1, InvParts DEF PlanTyped, LocalsTyped, BeamTyped, PointsTyped, planVars, locals
<1>7. RunTyped'
  BY <1>1, <1>3, InvParts, LabelsAre DEF RunTyped, planVars
<1>8. ChoiceIsBest' /\ Phases' /\ Starting' /\ Growing' /\ Comparing' /\ Asserting'
  BY <1>1, <1>3, <1>4, <1>5 DEF ChoiceIsBest, Phases, Starting, Growing, Comparing, Asserting
<1>9. HonestBeam(solutions')
  BY <1>1 DEF BeamInv
<1> QED
  BY <1>6, <1>7, <1>8, <1>9, TypePartsNext DEF BeamInv

LEMMA StutterInv == BeamInv /\ UNCHANGED vars => BeamInv'
<1> SUFFICES ASSUME BeamInv, UNCHANGED vars PROVE BeamInv'
  OBVIOUS
<1>1. /\ pc' = pc /\ input' = input /\ plan' = plan /\ center_only' = center_only
      /\ round' = round /\ points' = points /\ solutions' = solutions /\ next' = next
      /\ other' = other /\ n_sol' = n_sol /\ n_data' = n_data /\ ellipsoid' = ellipsoid
      /\ why' = why /\ n_ctor_sims_' = n_ctor_sims_
  BY DEF vars
<1>2. PlanTyped' /\ LocalsTyped' /\ BeamTyped' /\ PointsTyped' /\ RunTyped'
  BY <1>1, InvParts DEF PlanTyped, LocalsTyped, BeamTyped, PointsTyped, RunTyped
<1>3. ChoiceIsBest' /\ Phases' /\ Starting' /\ Growing' /\ Comparing' /\ Asserting'
  BY <1>1 DEF BeamInv, ChoiceIsBest, Phases, Starting, Growing, Comparing, Asserting
<1>4. HonestBeam(solutions')
  BY <1>1 DEF BeamInv
<1> QED
  BY <1>2, <1>3, <1>4, TypePartsNext DEF BeamInv

LEMMA NextInv == BeamInv /\ [Next]_vars => BeamInv'
  BY BeginRunInv, BeginSolveInv, FitOneInv, PruneInv, DeriveOneInv, EndDeriveInv,
     BeginDeduplicateInv, CompareInv, SelectInv, SearchShellInv, FilterInv, ReportInv,
     StutterInv DEF Next

(***************************************************************************)
(* The theorems                                                            *)
(***************************************************************************)
LEMMA InvAlways == Spec => []BeamInv
  BY InitInv, NextInv, PTL DEF Spec

\* Every variable keeps its type, and the beam its bound: n_best_solutions and
\* what is derived from a few of them, however many rounds are run, whatever
\* the fits answer and in whatever order qsort() leaves equals (solve()).
THEOREM BeamTypes == Spec => []BeamTypeOK
<1>1. BeamInv => BeamTypeOK
  BY DEF BeamInv
<1> QED
  BY <1>1, InvAlways, PTL

\* Only the first estimate can be refused to start from, and neither the
\* assertions of param_recovery() nor those of the shell search can fail; that
\* of reject_outliers() can only for too few passing points.
THEOREM StartsAlwaysViable == Spec => []StartsViable
  BY InvGivesStarts, InvAlways, PTL

\* The ellipsoid a round of solve() leaves is viable, and no solution that is
\* viable without repair fits better.
THEOREM ChoiceAlwaysBest == Spec => []ChoiceIsBest
<1>1. BeamInv => ChoiceIsBest
  BY DEF BeamInv
<1> QED
  BY <1>1, InvAlways, PTL

(***************************************************************************)
(* The simulations: after any number of rounds no more than their shells   *)
(* have probes, walls and filters add none.                                *)
(***************************************************************************)
Counted == Simulated(points) <= n_ctor_sims_ + round * ShellRun(input)

LEMMA SimulatedNat ==
    ASSUME NEW p \in PointCounts
    PROVE  Simulated(p) \in Nat
  BY DEF Simulated, PointCounts

LEMMA CountedInit == Init => Counted
<1> SUFFICES ASSUME Init PROVE Counted
  OBVIOUS
<1>1. points \in PointCounts /\ input \in PlanInput
  BY InitInv, InvParts, InputTyped DEF PointsTyped
<1>2. Simulated(points) \in Nat /\ n_ctor_sims_ = Size(points) /\ round = 0
  BY <1>1, SimulatedNat DEF Init
<1>3. Simulated(points) <= Size(points)
  BY <1>1 DEF Simulated, Size, PointCounts
<1>4. ShellRun(input) \in Int
  BY <1>1, ShellRunNat
<1> DEFINE s == ShellRun(input)
<1> HIDE DEF s
<1>5. 0 * s = 0
  BY <1>4 DEF s
<1>6. Size(points) \in Nat
  BY <1>1, SizeNat
<1> QED
  BY <1>2, <1>3, <1>5, <1>6 DEF Counted, s

LEMMA CountedStep == BeamInv /\ Counted /\ [Next]_vars => Counted'
<1> SUFFICES ASSUME BeamInv, Counted, [Next]_vars PROVE Counted'
  OBVIOUS
<1>1. points \in PointCounts
  BY InvParts DEF PointsTyped
<1>2. input' = input /\ n_ctor_sims_' = n_ctor_sims_
  BY DEF Next, vars, planVars, BeginRun, BeginSolve, FitOne, Prune, DeriveOne, EndDerive,
         BeginDeduplicate, Compare, Select, SearchShell, Filter, Report
<1>3. ASSUME round' = round, Simulated(points') = Simulated(points) PROVE Counted'
  BY <1>2, <1>3 DEF Counted
<1>4. CASE \/ BeginRun \/ BeginSolve \/ FitOne \/ Prune \/ EndDerive \/ BeginDeduplicate
           \/ Compare \/ Select \/ Report \/ UNCHANGED vars
  <2>1. round' = round /\ points' = points
    BY <1>4 DEF vars, BeginRun, BeginSolve, FitOne, Prune, EndDerive, BeginDeduplicate,
                Compare, Select, Report
  <2> QED
    BY <1>3, <2>1
<1>5. CASE DeriveOne
  <2>1. round' = round /\ (points' = points \/ \E x : points' = [points EXCEPT !.synth = x])
    BY <1>5 DEF DeriveOne, WithWall
  <2> QED
    BY <1>1, <1>3, <2>1 DEF Simulated, PointCounts
<1>6. CASE Filter
  <2>1. round' = round /\ (points' = points \/ points' \in Convexified(Rejected(points)))
    BY <1>6 DEF Filter
  <2>2. CASE points' = points
    BY <1>3, <2>1, <2>2
  <2>3. CASE points' \in Convexified(Rejected(points))
    <3> DEFINE r == Rejected(points)
    <3>1. r = points \/ \E o : r = [points EXCEPT !.outlier = o]
      BY DEF Rejected
    <3>2. points' = r \/ \E c : points' = [r EXCEPT !.convexified = c]
      BY <2>3 DEF Convexified
    <3> HIDE DEF r
    <3>3. /\ DOMAIN r = DOMAIN points /\ "pass" \in DOMAIN points /\ "fail" \in DOMAIN points
          /\ "cut" \in DOMAIN points
          /\ r.pass = points.pass /\ r.fail = points.fail /\ r.cut = points.cut
      BY <1>1, <3>1 DEF PointCounts
    <3>4. points'.pass = r.pass /\ points'.fail = r.fail /\ points'.cut = r.cut
      BY <3>2, <3>3
    <3> QED
      BY <1>3, <2>1, <3>3, <3>4 DEF Simulated
  <2> QED
    BY <2>1, <2>2, <2>3
<1>7. CASE SearchShell
  <2>1. ellipsoid.shape = {}
    BY <1>7 DEF SearchShell, BeamInv, ChoiceIsBest
  <2>2. PICK c \in ShellCounts(ShellProbesRun(plan)) : points' = WithShell(points, c)
    BY <1>7, <2>1 DEF SearchShell, WithShell
  <2> DEFINE s == ShellRun(input)
             k == round
             now == Simulated(points)
             then == Simulated(points')
  <2>3. ShellProbesRun(plan) = s /\ s \in Nat /\ k \in Nat /\ n_ctor_sims_ \in Nat
    BY InvParts, InputTyped, ShellRunNat DEF PlanTyped, RunTyped, ShellRun
  <2>4. points' \in PointCounts /\ then <= now + s
    BY <1>1, <2>2, <2>3, ShellPoints
  <2>5. now \in Nat /\ then \in Nat
    BY <1>1, <2>4, SimulatedNat
  <2>6. round' = k + 1
    BY <1>7, <2>1 DEF SearchShell
  <2>7. now <= n_ctor_sims_ + k * s
    BY DEF Counted
  <2> HIDE DEF s, k, now, then
  <2>8. then <= n_ctor_sims_ + (k + 1) * s
    <3>1. (k + 1) * s = k * s + s /\ k * s \in Nat
      BY <2>3
    <3> QED
      BY <2>3, <2>4, <2>5, <2>7, <3>1
  <2> QED
    BY <1>2, <2>6, <2>8 DEF Counted, s, then
<1> QED
  BY <1>4, <1>5, <1>6, <1>7 DEF Next

\* In no round has run() simulated more than the budget leaves besides the rays
\* of the plan, whatever the fits answer and the probes show, if the rays along
\* the axes leave a shell probe for each round (e_shell_search(), finalise()).
THEOREM BudgetAlwaysKept == Spec => []ShellsWithinBudget
<1>1. Counted /\ BeamInv => ShellsWithinBudget
  <2> SUFFICES ASSUME Counted, BeamInv, AxisSims(input) + input.n_iter - 1 <= input.sim_budget
               PROVE  Simulated(points) - n_ctor_sims_ + RayShare(input) <= input.sim_budget
    BY DEF ShellsWithinBudget
  <2> DEFINE s == ShellRun(input)
             n == input.n_iter - 1
             rays == RayShare(input)
             sims == Simulated(points)
  <2>1. input \in PlanInput /\ points \in PointCounts /\ n_ctor_sims_ \in Nat
        /\ round \in 0 .. n
    BY InvParts, InputTyped DEF PointsTyped, PlanTyped, RunTyped
  <2>2. s \in Nat /\ sims \in Nat /\ rays \in Int /\ n \in Nat /\ input.sim_budget \in Nat
    BY <2>1, ShellRunNat, SimulatedNat, RayShareInt DEF PlanInput
  <2>3. rays + s * n <= input.sim_budget
    BY <2>1, PlanSpendsBudget DEF PlannedSims, ShellRun
  <2>4. sims <= n_ctor_sims_ + round * s
    BY DEF Counted
  <2> HIDE DEF s, n, rays, sims
  <2>5. round * s <= s * n /\ round * s \in Nat /\ s * n \in Nat
    <3>1. PICK k \in Nat : n = round + k
      <4>1. n - round \in Nat /\ n = round + (n - round)
        BY <2>1, <2>2
      <4> QED
        BY <4>1
    <3>2. s * n = round * s + s * k /\ s * k \in Nat /\ round * s \in Nat
      BY <2>1, <2>2, <3>1
    <3> QED
      BY <3>2
  <2>6. sims - n_ctor_sims_ + rays <= input.sim_budget
    BY <2>1, <2>2, <2>3, <2>4, <2>5
  <2> QED
    BY <2>6 DEF rays, sims
<1> QED
  BY <1>1, CountedInit, CountedStep, InvAlways, PTL DEF Spec
=============================================================================
