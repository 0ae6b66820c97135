-------------------------- MODULE RaySearch_proofs --------------------------
(***************************************************************************)
(* Proofs about RaySearch, for every length of the ray and every number of *)
(* probes: the bisections are always made across a real boundary, the      *)
(* recursion probes at most twice as often as it is told to and never in   *)
(* the same place, and what it records has one transition.                 *)
(***************************************************************************)
EXTENDS RaySearch, FiniteSetTheorems, TLAPS

(***************************************************************************)
(* The stack, seen from its top                                            *)
(***************************************************************************)
\* Every frame knows what the frames below it may still probe.
Linked(s) ==
    \A i \in 2 .. Len(s) : s[i].owed = MostProbes(s[i - 1]) + s[i - 1].owed

StillOwed(s) ==
    IF s = <<>> THEN 0 ELSE MostProbes(s[Len(s)]) + s[Len(s)].owed

BracketedBy(f, evidence) ==
    /\ <<f.ds, TRUE>> \in evidence
    /\ f.mode = 0 => <<f.de, FALSE>> \in evidence

GoodStack(s, evidence) ==
    /\ s \in Seq(Frames)
    /\ Linked(s)
    /\ \A i \in 1 .. Len(s) : BracketedBy(s[i], evidence)

\* Frames promise a natural number of probes.
LEMMA MostProbesNat ==
    ASSUME NEW f \in Frames
    PROVE  MostProbes(f) \in Nat
  BY DEF Frames, MostProbes

\* What was evaluated once stays evaluated: the stack remains good.
LEMMA MoreEvidence ==
    ASSUME NEW s, NEW e, NEW e2, e \subseteq e2, GoodStack(s, e)
    PROVE  GoodStack(s, e2)
  BY DEF GoodStack, BracketedBy

\* A prefix of a sequence, element by element.
LEMMA PrefixOf ==
    ASSUME NEW S, NEW s \in Seq(S), NEW n \in 0 .. Len(s)
    PROVE  /\ SubSeq(s, 1, n) \in Seq(S)
           /\ Len(SubSeq(s, 1, n)) = n
           /\ \A i \in 1 .. n : SubSeq(s, 1, n)[i] = s[i]
<1>1. SubSeq(s, 1, n) \in Seq(S)
  OBVIOUS
<1>2. Len(SubSeq(s, 1, n)) = n
  OBVIOUS
<1>3. \A i \in 1 .. n : SubSeq(s, 1, n)[i] = s[i]
  OBVIOUS
<1> QED
  BY <1>1, <1>2, <1>3

\* Removing the top search leaves a good stack, and what that top said the
\* others may still probe is an upper bound of what they do.
LEMMA PopGood ==
    ASSUME NEW s, NEW e, GoodStack(s, e), s # <<>>
    PROVE  LET r == SubSeq(s, 1, Len(s) - 1)
           IN  /\ GoodStack(r, e)
               /\ Len(r) = Len(s) - 1
               /\ StillOwed(r) <= s[Len(s)].owed
               /\ r # <<>> => StillOwed(r) = s[Len(s)].owed
<1> DEFINE r == SubSeq(s, 1, Len(s) - 1)
<1>1. s \in Seq(Frames) /\ Len(s) \in Nat /\ Len(s) >= 1
  BY DEF GoodStack
<1>2. r \in Seq(Frames) /\ Len(r) = Len(s) - 1 /\ \A i \in 1 .. Len(r) : r[i] = s[i]
  <2>1. Len(s) - 1 \in 0 .. Len(s)
    BY <1>1
  <2> QED
    BY <1>1, <2>1, PrefixOf
<1>3. GoodStack(r, e)
  <2>1. \A i \in 2 .. Len(r) : r[i].owed = MostProbes(r[i - 1]) + r[i - 1].owed
    <3> TAKE i \in 2 .. Len(r)
    <3>1. i \in 2 .. Len(s) /\ i \in 1 .. Len(r) /\ i - 1 \in 1 .. Len(r)
      BY <1>1, <1>2
    <3> QED
      BY <3>1, <1>2 DEF GoodStack, Linked
  <2>2. \A i \in 1 .. Len(r) : BracketedBy(r[i], e)
    <3> TAKE i \in 1 .. Len(r)
    <3>1. i \in 1 .. Len(s)
      BY <1>1, <1>2
    <3> QED
      BY <3>1, <1>2 DEF GoodStack
  <2> QED
    BY <1>2, <2>1, <2>2 DEF GoodStack, Linked
<1>4. s[Len(s)].owed \in Nat
  <2>1. s[Len(s)] \in Frames
    BY <1>1
  <2> QED
    BY <2>1 DEF Frames
<1>5. CASE r = <<>>
  BY <1>2, <1>3, <1>4, <1>5 DEF StillOwed
<1>6. CASE r # <<>>
  <2>1. Len(s) \in 2 .. Len(s) /\ Len(r) = Len(s) - 1 /\ Len(r) \in 1 .. Len(r)
    BY <1>1, <1>2, <1>6
  <2>2. s[Len(s)].owed = MostProbes(s[Len(s) - 1]) + s[Len(s) - 1].owed
    BY <2>1 DEF GoodStack, Linked
  <2>3. r[Len(r)] = s[Len(s) - 1]
    BY <1>2, <2>1
  <2> QED
    BY <1>2, <1>3, <1>4, <1>6, <2>2, <2>3 DEF StillOwed
<1> QED
  BY <1>5, <1>6

\* Adding a search that is bracketed and knows what is below it.
LEMMA PushGood ==
    ASSUME NEW s, NEW e, GoodStack(s, e),
           NEW f \in Frames, BracketedBy(f, e),
           s # <<>> => f.owed = StillOwed(s)
    PROVE  /\ GoodStack(Append(s, f), e)
           /\ Append(s, f) # <<>>
           /\ StillOwed(Append(s, f)) = MostProbes(f) + f.owed
<1> DEFINE r == Append(s, f)
<1>1. s \in Seq(Frames) /\ Len(s) \in Nat
  BY DEF GoodStack
<1>2. /\ r \in Seq(Frames) /\ Len(r) = Len(s) + 1 /\ r # <<>>
      /\ r[Len(s) + 1] = f /\ \A i \in 1 .. Len(s) : r[i] = s[i]
  BY <1>1
<1>3. \A i \in 2 .. Len(r) : r[i].owed = MostProbes(r[i - 1]) + r[i - 1].owed
  <2> TAKE i \in 2 .. Len(r)
  <2>1. CASE i = Len(r)
    <3>1. Len(s) \in 1 .. Len(s) /\ s # <<>> /\ i = Len(s) + 1 /\ i - 1 = Len(s)
      BY <1>1, <1>2, <2>1
    <3>2. r[i - 1] = s[Len(s)] /\ r[i] = f
      BY <1>2, <3>1
    <3> QED
      BY <3>1, <3>2 DEF StillOwed
  <2>2. CASE i # Len(r)
    <3>1. i \in 2 .. Len(s) /\ i \in 1 .. Len(s) /\ i - 1 \in 1 .. Len(s)
      BY <1>1, <1>2, <2>2
    <3> QED
      BY <3>1, <1>2 DEF GoodStack, Linked
  <2> QED
    BY <2>1, <2>2
<1>4. \A i \in 1 .. Len(r) : BracketedBy(r[i], e)
  <2> TAKE i \in 1 .. Len(r)
  <2>1. CASE i = Len(r)
    BY <1>2, <2>1
  <2>2. CASE i # Len(r)
    <3>1. i \in 1 .. Len(s)
      BY <1>1, <1>2, <2>2
    <3> QED
      BY <3>1, <1>2 DEF GoodStack
  <2> QED
    BY <2>1, <2>2
<1> QED
  BY <1>2, <1>3, <1>4 DEF GoodStack, Linked, StillOwed

\* The code's division rounds down, and the model's is an integer.
LEMMA DivInt ==
    ASSUME NEW a \in Int, NEW b \in Nat \ {0}
    PROVE  a \div b \in Int
  OBVIOUS

(***************************************************************************)
(* The inductive invariant: the stack is good for what was evaluated, and  *)
(* what was probed and what the stack may still probe fit the bound.       *)
(***************************************************************************)
IInv ==
    /\ RayTypeOK
    /\ GoodStack(stack, probed)
    /\ probes + StillOwed(stack) <= 2 * NProbes
    /\ pc = "end_point" => stack = <<>> /\ probes = 0 /\ <<0, TRUE>> \in probed

\* What remains owed is never negative.
LEMMA StillOwedNat ==
    ASSUME NEW s, NEW e, GoodStack(s, e)
    PROVE  StillOwed(s) \in Nat
<1>1. CASE s = <<>>
  BY <1>1 DEF StillOwed
<1>2. CASE s # <<>>
  <2>1. s[Len(s)] \in Frames
    BY <1>2 DEF GoodStack
  <2>2. MostProbes(s[Len(s)]) \in Nat /\ s[Len(s)].owed \in Nat
    BY <2>1, MostProbesNat DEF Frames
  <2> QED
    BY <1>2, <2>2 DEF StillOwed
<1> QED
  BY <1>1, <1>2

\* Searches are frames.
LEMMA SearchesAreFrames ==
    ASSUME NEW ds \in Int, NEW de \in Int, NEW n \in Nat \ {0}, NEW owed \in Nat
    PROVE  /\ Mode0(ds, de, n, owed) \in Frames
           /\ Mode1(ds, de, n, owed) \in Frames
<1>1. (de - ds) \div (n + 1) \in Int
  BY DivInt
<1> QED
  BY <1>1 DEF Mode0, Mode1, Frames

\* An evaluation adds its point to what was evaluated and keeps the types.
LEMMA EvalKeepsTypes ==
    ASSUME RayTypeOK, NEW at \in Int, NEW passed \in BOOLEAN,
           NEW squashed \in BOOLEAN, EvalPnt(at, passed, squashed)
    PROVE  /\ probed' \subseteq Int \X BOOLEAN
           /\ points' \subseteq [at : Int, value : BOOLEAN, squashed : BOOLEAN]
           /\ probed \subseteq probed'
           /\ <<at, passed>> \in probed'
<1>1. (passed /\ ~squashed) \in BOOLEAN
  OBVIOUS
<1>2. probed' = probed \cup {<<at, passed>>}
  BY DEF EvalPnt
<1>3. probed' \subseteq Int \X BOOLEAN
  BY <1>2 DEF RayTypeOK
<1>4. CASE UNCHANGED points
  BY <1>2, <1>3, <1>4 DEF RayTypeOK
<1>5. CASE points' = points \cup
             {[at |-> at, value |-> passed /\ ~squashed, squashed |-> squashed]}
  <2>1. [at |-> at, value |-> passed /\ ~squashed, squashed |-> squashed]
            \in [at : Int, value : BOOLEAN, squashed : BOOLEAN]
    BY <1>1
  <2>2. points' \subseteq [at : Int, value : BOOLEAN, squashed : BOOLEAN]
    BY <1>5, <2>1, Zenon DEF RayTypeOK
  <2> QED
    BY <1>2, <1>3, <2>2
<1> QED
  BY <1>4, <1>5 DEF EvalPnt

\* The end point pushes the one search that spends the budget.
LEMMA EndPointKeeps ==
    ASSUME IInv, NEW passed \in BOOLEAN, EndPoint(passed)
    PROVE  IInv'
<1> DEFINE f == IF passed THEN Mode1(0, Length, NProbes, 0)
                          ELSE Mode0(0, Length, NProbes, 0)
<1>1. /\ Length \in Int /\ NProbes \in Nat \ {0} /\ 0 \in Int /\ 0 \in Nat
  BY RayAssumption
<1>2. /\ stack = <<>> /\ probes = 0 /\ <<0, TRUE>> \in probed
      /\ EvalPnt(Length, passed, passed) /\ stack' = <<f>> /\ pc' = "search"
      /\ probes' = probes /\ RayTypeOK
  BY DEF IInv, EndPoint
<1>3. /\ probed' \subseteq Int \X BOOLEAN
      /\ points' \subseteq [at : Int, value : BOOLEAN, squashed : BOOLEAN]
      /\ probed \subseteq probed'
      /\ <<Length, passed>> \in probed'
  BY <1>1, <1>2, EvalKeepsTypes
<1>4. f \in Frames
  BY <1>1, SearchesAreFrames
<1>5. BracketedBy(f, probed')
  <2>1. CASE passed
    <3>1. f.mode = 1 /\ f.ds = 0
      BY <2>1 DEF Mode1
    <3> HIDE DEF f
    <3> QED
      BY <1>2, <1>3, <3>1 DEF BracketedBy
  <2>2. CASE ~passed
    <3>1. f.mode = 0 /\ f.ds = 0 /\ f.de = Length /\ passed = FALSE
      BY <2>2 DEF Mode0
    <3> HIDE DEF f
    <3> QED
      BY <1>2, <1>3, <3>1 DEF BracketedBy
  <2> QED
    BY <2>1, <2>2
<1>6. f.owed = 0 /\ MostProbes(f) <= 2 * NProbes
  BY <1>1 DEF Mode0, Mode1, MostProbes
<1> HIDE DEF f
<1>7. stack' \in Seq(Frames) /\ Len(stack') = 1 /\ stack'[1] = f
  BY <1>2, <1>4
<1>8. GoodStack(stack', probed')
  BY <1>5, <1>7 DEF GoodStack, Linked
<1>9. StillOwed(stack') <= 2 * NProbes
  <2>0. stack' # <<>>
    BY <1>2
  <2>1. MostProbes(f) \in Nat /\ stack' # <<>>
    BY <1>4, <2>0, MostProbesNat
  <2>2. StillOwed(stack') = MostProbes(f) + f.owed
    BY <1>7, <2>1 DEF StillOwed
  <2> QED
    BY <1>1, <1>6, <2>1, <2>2
<1>10. StillOwed(stack') \in Nat
  BY <1>8, StillOwedNat
<1>11. probes' + StillOwed(stack') <= 2 * NProbes
  BY <1>1, <1>2, <1>9, <1>10
<1>12. RayTypeOK'
  BY <1>2, <1>3, <1>7 DEF RayTypeOK
<1> QED
  BY <1>2, <1>8, <1>11, <1>12 DEF IInv

(***************************************************************************)
(* One probe replaces the search on top by those that follow from it.      *)
(***************************************************************************)
\* The top search is gone: what is below it is good and its bound holds.
LEMMA TopDone ==
    ASSUME IInv, stack # <<>>, NEW e, probed \subseteq e
    PROVE  /\ Search \in Frames
           /\ BracketedBy(Search, e)
           /\ GoodStack(Below, e)
           /\ StillOwed(Below) \in Nat
           /\ StillOwed(Below) <= Search.owed
           /\ Below # <<>> => Search.owed = StillOwed(Below)
           /\ probes + MostProbes(Search) + Search.owed <= 2 * NProbes
<1>1. GoodStack(stack, probed) /\ probes \in Nat
  BY DEF IInv, RayTypeOK
<1>2. Len(stack) \in 1 .. Len(stack)
  BY <1>1 DEF GoodStack
<1>3. Search \in Frames
  BY <1>1, <1>2 DEF GoodStack, Search
<1>4. GoodStack(stack, e)
  BY <1>1, MoreEvidence
<1>5. BracketedBy(Search, e)
  BY <1>2, <1>4 DEF GoodStack, Search
<1>6. /\ GoodStack(Below, e)
      /\ StillOwed(Below) <= Search.owed
      /\ Below # <<>> => StillOwed(Below) = Search.owed
  BY <1>4, PopGood DEF Below, Search
<1>7. StillOwed(Below) \in Nat
  BY <1>6, StillOwedNat
<1>8. StillOwed(stack) = MostProbes(Search) + Search.owed
  BY DEF StillOwed, Search
<1>9. MostProbes(Search) \in Nat /\ Search.owed \in Nat /\ NProbes \in Nat
  BY <1>3, MostProbesNat, RayAssumption DEF Frames
<1>10. probes + StillOwed(stack) <= 2 * NProbes
  BY DEF IInv
<1>11. probes + MostProbes(Search) + Search.owed <= 2 * NProbes
  BY <1>1, <1>8, <1>9, <1>10
<1> QED
  BY <1>3, <1>5, <1>6, <1>7, <1>11

\* It suffices that a probe leaves a good stack that owes one probe less.
LEMMA ProbeKeeps ==
    ASSUME IInv, pc = "search", pc' = pc, NEW at \in Int,
           NEW passed \in BOOLEAN, EvalPnt(at, passed, FALSE),
           probes' = probes + 1, stack # <<>>,
           GoodStack(stack', probed'),
           StillOwed(stack') + 1 <= MostProbes(Search) + Search.owed
    PROVE  IInv'
<1>1. RayTypeOK
  BY DEF IInv
<1>2. /\ probed' \subseteq Int \X BOOLEAN
      /\ points' \subseteq [at : Int, value : BOOLEAN, squashed : BOOLEAN]
  BY <1>1, EvalKeepsTypes
<1>3. RayTypeOK'
  BY <1>1, <1>2 DEF RayTypeOK, GoodStack
<1>4. /\ Search \in Frames
      /\ probes + MostProbes(Search) + Search.owed <= 2 * NProbes
  BY TopDone
<1>5. MostProbes(Search) \in Nat /\ Search.owed \in Nat /\ NProbes \in Nat
  BY <1>4, MostProbesNat, RayAssumption DEF Frames
<1>6. StillOwed(stack') \in Nat /\ probes \in Nat
  BY <1>1, StillOwedNat DEF RayTypeOK
<1>7. probes' + StillOwed(stack') <= 2 * NProbes
  BY <1>4, <1>5, <1>6
<1> QED
  BY <1>3, <1>7 DEF IInv

\* The middle of a search is a point of the ray.
LEMMA MiddleInt ==
    ASSUME NEW f \in Frames
    PROVE  Middle(f) \in Int
<1>1. f.ds + f.de \in Int /\ 2 \in Nat \ {0}
  BY DEF Frames
<1> QED
  BY <1>1, DivInt DEF Middle

\* After a fail the bisection goes on in front of it.
LEMMA InnerOnlyKeeps ==
    ASSUME IInv, stack # <<>>, Search.mode = 0,
           NEW e, probed \subseteq e, <<Middle(Search), FALSE>> \in e
    PROVE  /\ GoodStack(InnerOnly(Search), e)
           /\ StillOwed(InnerOnly(Search)) + 1 <= MostProbes(Search) + Search.owed
<1> DEFINE f == Search
           g == Mode0(f.ds, Middle(f), f.n \div 2, f.owed)
<1>1. /\ f \in Frames /\ BracketedBy(f, e)
      /\ GoodStack(Below, e) /\ StillOwed(Below) \in Nat
      /\ StillOwed(Below) <= f.owed
      /\ Below # <<>> => f.owed = StillOwed(Below)
  BY TopDone
<1>2. /\ f.ds \in Int /\ f.n \in Nat \ {0} /\ f.owed \in Nat
      /\ MostProbes(f) = 2 * f.n - 1 /\ Middle(f) \in Int
  BY <1>1, MiddleInt DEF Frames, MostProbes
<1>3. CASE f.n = 1
  <2>1. InnerOnly(f) = Below
    BY <1>3 DEF InnerOnly
  <2> QED
    BY <1>1, <1>2, <1>3, <2>1
<1>4. CASE f.n # 1
  <2>1. InnerOnly(f) = Append(Below, g)
    BY <1>4 DEF InnerOnly
  <2>2. f.n \div 2 \in Nat \ {0} /\ f.n \div 2 < f.n
    BY <1>2, <1>4
  <2>3. g \in Frames
    BY <1>2, <2>2, SearchesAreFrames
  <2>4. g.mode = 0 /\ g.ds = f.ds /\ g.de = Middle(f) /\ g.n = f.n \div 2 /\ g.owed = f.owed
    BY DEF Mode0
  <2>5. BracketedBy(g, e)
    BY <1>1, <2>4 DEF BracketedBy
  <2>6. MostProbes(g) = 2 * (f.n \div 2) - 1
    BY <2>4 DEF MostProbes
  <2> HIDE DEF g
  <2>7. GoodStack(Append(Below, g), e) /\ StillOwed(Append(Below, g)) = MostProbes(g) + g.owed
    BY <1>1, <2>3, <2>4, <2>5, PushGood
  <2> QED
    BY <1>2, <2>1, <2>2, <2>4, <2>6, <2>7
<1> QED
  BY <1>3, <1>4

\* The larger half goes to one side, and what is left to the other.
LEMMA Halves ==
    ASSUME NEW n \in Nat \ {0}
    PROVE  LET rest == n - 1
               outer == (rest + 1) \div 2
           IN  /\ rest \in Nat /\ outer \in Int
               /\ rest # 0 => outer \in Nat \ {0} /\ rest - outer \in Nat
  OBVIOUS

\* After a pass the rest is divided between the two sides of it.
LEMMA OuterFirstKeeps ==
    ASSUME IInv, stack # <<>>, Search.mode = 0,
           NEW e, probed \subseteq e, <<Middle(Search), TRUE>> \in e
    PROVE  /\ GoodStack(OuterFirst(Search), e)
           /\ StillOwed(OuterFirst(Search)) + 1 <= MostProbes(Search) + Search.owed
<1> DEFINE f == Search
           rest == f.n - 1
           outer == (rest + 1) \div 2
<1>1. /\ f \in Frames /\ BracketedBy(f, e)
      /\ GoodStack(Below, e) /\ StillOwed(Below) \in Nat
      /\ StillOwed(Below) <= f.owed
      /\ Below # <<>> => f.owed = StillOwed(Below)
  BY TopDone
<1>2. /\ f.ds \in Int /\ f.de \in Int /\ f.n \in Nat \ {0} /\ f.owed \in Nat
      /\ MostProbes(f) = 2 * f.n - 1 /\ Middle(f) \in Int
  BY <1>1, MiddleInt DEF Frames, MostProbes
<1>3. CASE rest = 0
  <2>1. OuterFirst(f) = Below
    BY <1>3 DEF OuterFirst
  <2>2. f.n = 1
    BY <1>2, <1>3
  <2> HIDE DEF rest, outer
  <2> QED
    BY <1>1, <1>2, <2>1, <2>2
<1>4. CASE rest # 0 /\ rest = outer
  <2> DEFINE g == Mode0(Middle(f), f.de, outer, f.owed)
  <2>1. OuterFirst(f) = Append(Below, g)
    BY <1>4 DEF OuterFirst
  <2>2. outer \in Nat \ {0} /\ outer = f.n - 1
    BY <1>2, <1>4
  <2>3. g \in Frames
    BY <1>2, <2>2, SearchesAreFrames
  <2>4. g.mode = 0 /\ g.ds = Middle(f) /\ g.de = f.de /\ g.n = outer /\ g.owed = f.owed
    BY DEF Mode0
  <2>5. BracketedBy(g, e)
    BY <1>1, <2>4 DEF BracketedBy
  <2>6. MostProbes(g) = 2 * (f.n - 1) - 1
    BY <2>2, <2>4 DEF MostProbes
  <2> HIDE DEF g
  <2>7. GoodStack(Append(Below, g), e) /\ StillOwed(Append(Below, g)) = MostProbes(g) + g.owed
    BY <1>1, <2>3, <2>4, <2>5, PushGood
  <2> QED
    BY <1>2, <2>1, <2>4, <2>6, <2>7
<1>5. CASE rest # 0 /\ rest # outer
  <2> DEFINE inner == rest - outer
             h == Mode1(f.ds, Middle(f), inner, f.owed)
             g == Mode0(Middle(f), f.de, outer, f.owed + 2 * inner)
             lower == Append(Below, h)
  <2>1. OuterFirst(f) = Append(lower, g)
    BY <1>5 DEF OuterFirst
  <2>2. /\ outer \in Nat \ {0} /\ inner \in Nat \ {0}
        /\ outer + inner = f.n - 1 /\ f.owed + 2 * inner \in Nat
    <3>1. /\ rest \in Nat /\ outer \in Nat \ {0} /\ inner \in Nat
      BY <1>2, <1>5, Halves
    <3>2. rest = f.n - 1 /\ inner = rest - outer
      OBVIOUS
    <3>3. inner # 0
      BY <1>2, <1>5, <3>1
    <3> HIDE DEF rest, outer, inner
    <3>4. outer + inner = f.n - 1
      BY <1>2, <3>1, <3>2
    <3> QED
      BY <1>2, <3>1, <3>3, <3>4
  <2> HIDE DEF outer, rest, inner
  <2>3. h \in Frames /\ g \in Frames
    BY <1>2, <2>2, SearchesAreFrames
  <2>4. /\ h.mode = 1 /\ h.ds = f.ds /\ h.n = inner /\ h.owed = f.owed
        /\ g.mode = 0 /\ g.ds = Middle(f) /\ g.de = f.de /\ g.n = outer
        /\ g.owed = f.owed + 2 * inner
    BY DEF Mode0, Mode1
  <2> HIDE DEF g, h
  <2>5. BracketedBy(h, e) /\ BracketedBy(g, e)
    BY <1>1, <2>4 DEF BracketedBy
  <2>6. MostProbes(h) = 2 * inner /\ MostProbes(g) = 2 * outer - 1
    BY <2>4 DEF MostProbes
  <2>7. /\ GoodStack(lower, e) /\ lower # <<>>
        /\ StillOwed(lower) = MostProbes(h) + h.owed
    BY <1>1, <2>3, <2>4, <2>5, PushGood
  <2>8. g.owed = StillOwed(lower)
    BY <1>2, <2>2, <2>4, <2>6, <2>7
  <2> HIDE DEF lower
  <2>9. /\ GoodStack(Append(lower, g), e)
        /\ StillOwed(Append(lower, g)) = MostProbes(g) + g.owed
    BY <2>3, <2>5, <2>7, <2>8, PushGood
  <2>10. 2 * outer - 1 + (f.owed + 2 * inner) + 1 <= 2 * f.n - 1 + f.owed
    BY <1>2, <2>2
  <2> QED
    BY <1>2, <2>1, <2>2, <2>4, <2>6, <2>9, <2>10
<1> QED
  BY <1>3, <1>4, <1>5

\* After a pass the even search goes on from there.
LEMMA NextProbeKeeps ==
    ASSUME IInv, stack # <<>>, Search.mode = 1,
           NEW e, probed \subseteq e, <<Search.de, TRUE>> \in e
    PROVE  /\ GoodStack(NextProbe(Search), e)
           /\ StillOwed(NextProbe(Search)) + 1 <= MostProbes(Search) + Search.owed
<1> DEFINE f == Search
           g == [f EXCEPT !.ds = f.de, !.de = f.de + (f.de - f.ds), !.n = @ - 1]
<1>1. /\ f \in Frames
      /\ GoodStack(Below, e) /\ StillOwed(Below) \in Nat
      /\ StillOwed(Below) <= f.owed
      /\ Below # <<>> => f.owed = StillOwed(Below)
  BY TopDone
<1>2. /\ f.ds \in Int /\ f.de \in Int /\ f.n \in Nat \ {0} /\ f.owed \in Nat
      /\ MostProbes(f) = 2 * f.n
  BY <1>1 DEF Frames, MostProbes
<1>3. CASE f.n = 1
  <2>1. NextProbe(f) = Below
    BY <1>3 DEF NextProbe
  <2> QED
    BY <1>1, <1>2, <1>3, <2>1
<1>4. CASE f.n # 1
  <2>1. NextProbe(f) = Append(Below, g)
    BY <1>4 DEF NextProbe
  <2>2. g \in Frames
    <3>1. f.n - 1 \in Nat \ {0} /\ f.de + (f.de - f.ds) \in Int
      BY <1>2, <1>4
    <3> QED
      BY <1>1, <3>1 DEF Frames
  <2>3. g.mode = 1 /\ g.ds = f.de /\ g.n = f.n - 1 /\ g.owed = f.owed
    BY <1>1 DEF Frames
  <2>4. BracketedBy(g, e)
    BY <2>3 DEF BracketedBy
  <2>5. MostProbes(g) = 2 * (f.n - 1)
    BY <2>3 DEF MostProbes
  <2> HIDE DEF g
  <2>6. GoodStack(Append(Below, g), e) /\ StillOwed(Append(Below, g)) = MostProbes(g) + g.owed
    BY <1>1, <2>2, <2>3, <2>4, PushGood
  <2> QED
    BY <1>2, <2>1, <2>3, <2>5, <2>6
<1> QED
  BY <1>3, <1>4

\* After a fail the boundary is between the two ends of this step.
LEMMA SearchInFrontKeeps ==
    ASSUME IInv, stack # <<>>, Search.mode = 1,
           NEW e, probed \subseteq e, <<Search.de, FALSE>> \in e
    PROVE  /\ GoodStack(SearchInFront(Search), e)
           /\ StillOwed(SearchInFront(Search)) + 1 <= MostProbes(Search) + Search.owed
<1> DEFINE f == Search
           g == Mode0(f.ds, f.de, f.n, f.owed)
<1>1. /\ f \in Frames /\ BracketedBy(f, e)
      /\ GoodStack(Below, e)
      /\ Below # <<>> => f.owed = StillOwed(Below)
  BY TopDone
<1>2. /\ f.ds \in Int /\ f.de \in Int /\ f.n \in Nat \ {0} /\ f.owed \in Nat
      /\ MostProbes(f) = 2 * f.n
  BY <1>1 DEF Frames, MostProbes
<1>3. g \in Frames
  BY <1>2, SearchesAreFrames
<1>4. g.mode = 0 /\ g.ds = f.ds /\ g.de = f.de /\ g.n = f.n /\ g.owed = f.owed
  BY DEF Mode0
<1>5. BracketedBy(g, e)
  BY <1>1, <1>4 DEF BracketedBy
<1>6. MostProbes(g) = 2 * f.n - 1
  BY <1>4 DEF MostProbes
<1>7. SearchInFront(f) = Append(Below, g)
  BY DEF SearchInFront
<1> HIDE DEF g
<1>8. GoodStack(Append(Below, g), e) /\ StillOwed(Append(Below, g)) = MostProbes(g) + g.owed
  BY <1>1, <1>3, <1>4, <1>5, PushGood
<1> QED
  BY <1>2, <1>4, <1>6, <1>7, <1>8

(***************************************************************************)
(* The theorems                                                            *)
(***************************************************************************)
\* The invariant holds of the initial state.
LEMMA InitIInv == Init => IInv
<1> SUFFICES ASSUME Init PROVE IInv
  OBVIOUS
<1>1. GoodStack(<<>>, probed)
  BY DEF GoodStack, Linked
<1>2. RayTypeOK
  <2>1. probed \subseteq Int \X BOOLEAN
    <3>0. 0 \in Int /\ TRUE \in BOOLEAN
      OBVIOUS
    <3>1. <<0, TRUE>> \in Int \X BOOLEAN
      BY <3>0, Zenon
    <3> QED
      BY <3>1, Zenon DEF Init
  <2> QED
    BY <2>1 DEF Init, RayTypeOK
<1>3. StillOwed(<<>>) = 0
  BY DEF StillOwed
<1> QED
  BY <1>1, <1>2, <1>3, RayAssumption DEF Init, IInv

\* Every step keeps it.
LEMMA NextIInv == IInv /\ [Next]_vars => IInv'
<1> SUFFICES ASSUME IInv, [Next]_vars PROVE IInv'
  OBVIOUS
<1>1. ASSUME NEW passed \in BOOLEAN, EndPoint(passed) PROVE IInv'
  BY <1>1, EndPointKeeps
<1>2. ASSUME NEW passed \in BOOLEAN, SearchMode0(passed) PROVE IInv'
  <2>1. /\ pc = "search" /\ pc' = pc /\ stack # <<>> /\ Search.mode = 0
        /\ EvalPnt(Middle(Search), passed, FALSE) /\ probes' = probes + 1
        /\ stack' = IF passed THEN OuterFirst(Search) ELSE InnerOnly(Search)
    BY <1>2 DEF SearchMode0
  <2>2. Middle(Search) \in Int
    BY <2>1, TopDone, MiddleInt
  <2>3. probed \subseteq probed' /\ <<Middle(Search), passed>> \in probed'
    BY <2>1, <2>2, EvalKeepsTypes DEF IInv
  <2>4. /\ GoodStack(stack', probed')
        /\ StillOwed(stack') + 1 <= MostProbes(Search) + Search.owed
    <3>1. CASE passed = TRUE
      BY <2>1, <2>3, <3>1, OuterFirstKeeps
    <3>2. CASE passed = FALSE
      BY <2>1, <2>3, <3>2, InnerOnlyKeeps
    <3> QED
      BY <3>1, <3>2
  <2> QED
    BY <2>1, <2>2, <2>4, ProbeKeeps
<1>3. ASSUME NEW passed \in BOOLEAN, SearchMode1(passed) PROVE IInv'
  <2>1. /\ pc = "search" /\ pc' = pc /\ stack # <<>> /\ Search.mode = 1
        /\ EvalPnt(Search.de, passed, FALSE) /\ probes' = probes + 1
        /\ stack' = IF passed THEN NextProbe(Search) ELSE SearchInFront(Search)
    BY <1>3 DEF SearchMode1
  <2>2. Search.de \in Int
    BY <2>1, TopDone DEF Frames
  <2>3. probed \subseteq probed' /\ <<Search.de, passed>> \in probed'
    BY <2>1, <2>2, EvalKeepsTypes DEF IInv
  <2>4. /\ GoodStack(stack', probed')
        /\ StillOwed(stack') + 1 <= MostProbes(Search) + Search.owed
    <3>1. CASE passed = TRUE
      BY <2>1, <2>3, <3>1, NextProbeKeeps
    <3>2. CASE passed = FALSE
      BY <2>1, <2>3, <3>2, SearchInFrontKeeps
    <3> QED
      BY <3>1, <3>2
  <2> QED
    BY <2>1, <2>2, <2>4, ProbeKeeps
<1>4. CASE SearchEnds
  BY <1>4 DEF SearchEnds, IInv, RayTypeOK
<1>5. CASE Squash
  <2>1. points' \subseteq [at : Int, value : BOOLEAN, squashed : BOOLEAN]
    <3>1. points \subseteq [at : Int, value : BOOLEAN, squashed : BOOLEAN]
      BY DEF IInv, RayTypeOK
    <3>2. \A p \in points : Squashed(p) \in [at : Int, value : BOOLEAN, squashed : BOOLEAN]
      BY <3>1 DEF Squashed
    <3> QED
      BY <1>5, <3>1, <3>2 DEF Squash
  <2> QED
    BY <1>5, <2>1 DEF Squash, IInv, RayTypeOK
<1>6. CASE UNCHANGED vars
  BY <1>6 DEF vars, IInv, RayTypeOK
<1> QED
  BY <1>1, <1>2, <1>3, <1>4, <1>5, <1>6 DEF Next, Ended

\* The invariant holds throughout.
LEMMA AlwaysIInv == Spec => []IInv
  BY InitIInv, NextIInv, PTL DEF Spec

\* Type correctness: the recursion only ever holds searches with a budget of
\* at least one probe (the assertion of ray_search_mode0 and _mode1).
THEOREM RayTypeCorrect == Spec => []RayTypeOK
<1>1. IInv => RayTypeOK
  BY DEF IInv
<1> QED
  BY <1>1, AlwaysIInv, PTL

\* For every ray and every budget, the bisections of ray_search_mode0() are
\* made between a known pass and a known fail.
THEOREM AlwaysBracketed == Spec => []Bracketed
<1>1. IInv => Bracketed
  BY DEF IInv, GoodStack, BracketedBy, Bracketed
<1> QED
  BY <1>1, AlwaysIInv, PTL

\* For every ray and every pass region, ray_search() makes at most twice
\* n_probes_p_ray probes after the end point.
THEOREM ProbesAlwaysBounded == Spec => []ProbesBounded
<1>1. IInv => ProbesBounded
  <2> SUFFICES ASSUME IInv PROVE ProbesBounded
    OBVIOUS
  <2>1. StillOwed(stack) \in Nat
    BY StillOwedNat DEF IInv
  <2> QED
    BY <2>1, RayAssumption DEF IInv, RayTypeOK, ProbesBounded
<1> QED
  BY <1>1, AlwaysIInv, PTL

(***************************************************************************)
(* Induction, with sets in the place of predicates                         *)
(***************************************************************************)
\* Otherwise the numbers below a counterexample could be mapped one to one to
\* fewer numbers.
LEMMA SetInduction ==
    ASSUME NEW T, 0 \in T, \A n \in Nat : n \in T => n + 1 \in T
    PROVE  \A n \in Nat : n \in T
<1> SUFFICES ASSUME NEW m \in Nat, m \notin T
             PROVE  FALSE
  OBVIOUS
<1> DEFINE A == {n \in 0 .. m : n \in T}
           B == A \ {0}
           f == [n \in A |-> n + 1]
<1>1. IsFiniteSet(A) /\ IsFiniteSet(B)
  <2>1. IsFiniteSet(0 .. m)
    BY FS_Interval
  <2>2. A \subseteq 0 .. m
    OBVIOUS
  <2>3. IsFiniteSet(A)
    BY <2>1, <2>2, FS_Subset
  <2> QED
    BY <2>3, FS_RemoveElement
<1>2. \A n \in A : n + 1 \in B
  OBVIOUS
<1>3. f \in Injection(A, B)
  BY <1>2 DEF Injection, IsInjective
<1>4. Cardinality(A) <= Cardinality(B)
  BY <1>1, <1>3, FS_Injection DEF ExistsInjection
<1>5. 0 \in A
  OBVIOUS
<1>6. Cardinality(B) = Cardinality(A) - 1
  BY <1>1, <1>5, FS_RemoveElement
<1>7. Cardinality(A) \in Nat
  BY <1>1, FS_CardinalityType
<1> QED
  BY <1>4, <1>6, <1>7

\* A function defined by primitive recursion exists.
LEMMA Recursion ==
    ASSUME NEW S, NEW c \in S, NEW n \in Nat, NEW F \in [1 .. n -> [S -> S]]
    PROVE  \E g \in [0 .. n -> S] : g[0] = c /\ \A i \in 1 .. n : g[i] = F[i][g[i - 1]]
<1> DEFINE Upto(m, g) == g[0] = c /\ \A i \in 1 .. m : g[i] = F[i][g[i - 1]]
           T == {m \in Nat : m <= n => \E g \in [0 .. m -> S] : Upto(m, g)}
<1>1. 0 \in T
  <2> DEFINE g == [i \in 0 .. 0 |-> c]
  <2>1. g \in [0 .. 0 -> S] /\ Upto(0, g)
    OBVIOUS
  <2> QED
    BY <2>1
<1>2. ASSUME NEW m \in Nat, m \in T
      PROVE  m + 1 \in T
  <2> SUFFICES ASSUME m + 1 <= n
               PROVE  \E g \in [0 .. m + 1 -> S] : Upto(m + 1, g)
    OBVIOUS
  <2>1. PICK g \in [0 .. m -> S] : Upto(m, g)
    BY <1>2
  <2> DEFINE h == [i \in 0 .. m + 1 |-> IF i = m + 1 THEN F[m + 1][g[m]] ELSE g[i]]
  <2>2. g[m] \in S /\ m + 1 \in 1 .. n
    OBVIOUS
  <2>3. F[m + 1][g[m]] \in S
    BY <2>2
  <2>4. h \in [0 .. m + 1 -> S]
    BY <2>3
  <2>5. /\ h[0] = c /\ h[m + 1] = F[m + 1][h[m]]
        /\ \A i \in 1 .. m : h[i] = g[i] /\ h[i - 1] = g[i - 1]
    <3>1. 0 # m + 1 /\ 0 \in 0 .. m /\ m \in 0 .. m /\ m # m + 1
      OBVIOUS
    <3>2. \A i \in 1 .. m : /\ i \in 0 .. m + 1 /\ i # m + 1
                           /\ i - 1 \in 0 .. m + 1 /\ i - 1 # m + 1
      OBVIOUS
    <3>3. h[0] = g[0] /\ h[m] = g[m] /\ h[m + 1] = F[m + 1][g[m]]
      BY <3>1
    <3>4. \A i \in 1 .. m : h[i] = g[i] /\ h[i - 1] = g[i - 1]
      BY <3>2
    <3> QED
      BY <2>1, <3>3, <3>4
  <2>6. \A i \in 1 .. m + 1 : i \in 1 .. m \/ i = m + 1
    OBVIOUS
  <2>7. Upto(m + 1, h)
    <3> HIDE DEF h
    <3>1. (m + 1) - 1 = m
      OBVIOUS
    <3> QED
      BY <2>1, <2>5, <2>6, <3>1
  <2> QED
    BY <2>4, <2>7
<1>3. n \in T
  <2> HIDE DEF T
  <2> QED
    BY <1>1, <1>2, SetInduction
<1> QED
  BY <1>3

\* What every step keeps holds everywhere.
LEMMA Accumulated ==
    ASSUME NEW S, NEW n \in Nat, NEW g, g[0] \in S,
           \A i \in 1 .. n : g[i - 1] \in S => g[i] \in S
    PROVE  \A i \in 0 .. n : g[i] \in S
<1> DEFINE T == {i \in Nat : i <= n => g[i] \in S}
<1>1. 0 \in T
  OBVIOUS
<1>2. ASSUME NEW i \in Nat, i \in T PROVE i + 1 \in T
  <2> SUFFICES ASSUME i + 1 <= n PROVE g[i + 1] \in S
    OBVIOUS
  <2>1. i + 1 \in 1 .. n /\ (i + 1) - 1 = i /\ g[i] \in S
    BY <1>2
  <2> QED
    BY <2>1
<1>3. \A i \in Nat : i \in T
  <2> HIDE DEF T
  <2> QED
    BY <1>1, <1>2, SetInduction
<1> QED
  BY <1>3

(***************************************************************************)
(* The stretches of the ray                                                *)
(***************************************************************************)
\* The stretch of a search ends at Out.
Out(f) == IF f.mode = 0 THEN f.de ELSE f.ds + (f.de - f.ds) * (f.n + 1)

Fits(f) ==
    /\ f.ds >= 0 /\ f.n <= NProbes
    /\ f.de - f.ds >= Room[f.n] /\ Out(f) <= Length

\* No point inside the stretch has been probed.
Untouched(f, evidence) == \A x \in evidence : x[1] <= f.ds \/ Out(f) <= x[1]

\* The stretches of the stack follow each other outwards.
Laid(s, evidence) ==
    /\ \A i \in 1 .. Len(s) : Fits(s[i]) /\ Untouched(s[i], evidence)
    /\ \A i, j \in 1 .. Len(s) : i < j => Out(s[i]) <= s[j].ds

\* What is recorded of a point is what was seen of it, the end point apart.
Known(p) ==
    /\ p.squashed => p.at = Length
    /\ ~p.squashed => <<p.at, p.value>> \in probed
    /\ p.at = Length => ~p.value

Divided ==
    /\ pc = "end_point" => probed = {<<0, TRUE>>} /\ points = {}
    /\ Laid(stack, probed)
    /\ IsFiniteSet(probed)
    /\ pc # "end_point" => Cardinality(probed) = probes + 2
    /\ \A x, y \in probed : x[1] = y[1] => x = y
    /\ pc \in {"search", "squash"} => \A p \in points : Known(p)
    /\ OneTransition

(***************************************************************************)
(* The room that probes need                                               *)
(***************************************************************************)
\* The recursion of Room has a solution: Room is it.
LEMMA RoomSolves ==
    /\ Room[0] = 1
    /\ \A n \in 1 .. NProbes : Room[n] = (n + 2) * Room[n - 1]
    /\ \A n \in 0 .. NProbes : Room[n] \in Nat /\ Room[n] >= 1
<1> DEFINE N == NProbes
           S == Nat \ {0}
           F == [i \in 1 .. N |-> [x \in S |-> (i + 2) * x]]
           Q(f) == f = [n \in 0 .. N |-> IF n = 0 THEN 1 ELSE (n + 2) * f[n - 1]]
<1>n. N \in Nat
  BY RayAssumption
<1>1. \A i \in 1 .. N, x \in S : (i + 2) * x \in S
  <2> SUFFICES ASSUME NEW i \in 1 .. N, NEW x \in S PROVE (i + 2) * x \in S
    OBVIOUS
  <2> DEFINE a == i + 2
  <2>1. a \in Nat /\ a > 0 /\ x \in Nat /\ x > 0
    BY <1>n
  <2> HIDE DEF a
  <2>2. a * x \in Nat /\ a * x > 0
    BY <2>1
  <2> QED
    BY <2>2 DEF a
<1>2. F \in [1 .. N -> [S -> S]] /\ 1 \in S
  BY <1>1
<1>3. PICK g \in [0 .. N -> S] : g[0] = 1 /\ \A i \in 1 .. N : g[i] = F[i][g[i - 1]]
  <2> HIDE DEF F, S, N
  <2> QED
    BY <1>n, <1>2, Recursion
<1>4. \A i \in 1 .. N : g[i] = (i + 2) * g[i - 1]
  <2>1. \A i \in 1 .. N : g[i - 1] \in S
    <3> HIDE DEF S
    <3> QED
      BY <1>n
  <2>2. \A i \in 1 .. N, x \in S : F[i][x] = (i + 2) * x
    <3> HIDE DEF S, N
    <3> QED
      OBVIOUS
  <2> HIDE DEF F, S, N
  <2> QED
    BY <1>3, <2>1, <2>2
<1>5. Q(g)
  <2> HIDE DEF S, F, N
  <2>1. \A i \in 0 .. N : i # 0 => i \in 1 .. N
    BY <1>n
  <2>2. \A i \in 0 .. N : g[i] = IF i = 0 THEN 1 ELSE (i + 2) * g[i - 1]
    BY <1>3, <1>4, <2>1
  <2> QED
    BY <2>2
<1>6. Q(Room)
  <2>1. Room = CHOOSE f : Q(f)
    BY DEF Room
  <2> HIDE DEF Q
  <2> QED
    BY <1>5, <2>1
<1>7. Room[0] = 1 /\ \A i \in 1 .. N : Room[i] = (i + 2) * Room[i - 1]
  <2>1. Room = [n \in 0 .. N |-> IF n = 0 THEN 1 ELSE (n + 2) * Room[n - 1]]
    BY <1>6
  <2> HIDE DEF N
  <2>2. 0 \in 0 .. N /\ \A i \in 1 .. N : i \in 0 .. N /\ i # 0
    BY <1>n
  <2> QED
    BY <2>1, <2>2
<1>8. \A i \in 0 .. N : Room[i] \in S
  <2>1. \A i \in 1 .. N : Room[i - 1] \in S => Room[i] \in S
    <3> HIDE DEF S, N
    <3> QED
      BY <1>1, <1>7
  <2>2. Room[0] \in S
    BY <1>7
  <2> HIDE DEF S, N
  <2> QED
    BY <1>n, <2>1, <2>2, Accumulated
<1>9. \A i \in 0 .. N : Room[i] \in Nat /\ Room[i] >= 1
  BY <1>8
<1> QED
  BY <1>7, <1>9

\* Products of natural numbers keep their order.
LEMMA Product ==
    ASSUME NEW a \in Nat, NEW b \in Nat, NEW c \in Nat, NEW d \in Nat, a <= b, c <= d
    PROVE  a * c \in Nat /\ b * d \in Nat /\ a * c <= b * d
<1>1. a * c <= b * c
  OBVIOUS
<1>2. b * c <= b * d
  OBVIOUS
<1>3. a * c \in Nat /\ b * c \in Nat /\ b * d \in Nat
  OBVIOUS
<1> DEFINE x == a * c
           y == b * c
           z == b * d
<1> HIDE DEF x, y, z
<1>4. x <= z
  BY <1>1, <1>2, <1>3 DEF x, y, z
<1> QED
  BY <1>3, <1>4 DEF x, z

\* More probes need more room.
LEMMA RoomGrows ==
    ASSUME NEW n \in 0 .. NProbes, NEW m \in 0 .. n
    PROVE  Room[m] <= Room[n]
<1> DEFINE T == {k \in Nat : m + k <= NProbes => Room[m] <= Room[m + k]}
<1>0. NProbes \in Nat
  BY RayAssumption
<1>1. 0 \in T
  <2>1. m + 0 = m /\ m \in 0 .. NProbes
    BY <1>0
  <2>2. Room[m] <= Room[m]
    BY <2>1, RoomSolves
  <2> QED
    BY <2>1, <2>2
<1>2. ASSUME NEW k \in Nat, k \in T PROVE k + 1 \in T
  <2> SUFFICES ASSUME m + (k + 1) <= NProbes PROVE Room[m] <= Room[m + (k + 1)]
    OBVIOUS
  <2> DEFINE i == m + k + 1
             a == Room[m]
             b == Room[m + k]
             c == Room[m + (k + 1)]
  <2>1. i \in 1 .. NProbes /\ m + (k + 1) = i /\ i - 1 = m + k
    BY <1>0
  <2>2. c = (i + 2) * b
    BY <2>1, RoomSolves
  <2>3. a \in Nat /\ b \in Nat /\ a <= b
    <3>1. m \in 0 .. NProbes /\ m + k \in 0 .. NProbes /\ m + k <= NProbes
      BY <1>0
    <3> QED
      BY <1>2, <3>1, RoomSolves
  <2> HIDE DEF a, b, c, i
  <2>4. 1 * b <= (i + 2) * b
    <3>1. i + 2 \in Nat /\ 1 <= i + 2
      BY <2>1
    <3> QED
      BY <2>3, <3>1, Product
  <2>5. (i + 2) * b \in Nat
    BY <2>1, <2>3
  <2>6. a <= c
    <3> DEFINE z == (i + 2) * b
    <3>1. 1 * b = b
      BY <2>3
    <3> HIDE DEF z
    <3>2. b <= z /\ z \in Nat /\ c = z
      BY <2>2, <2>4, <2>5, <3>1 DEF z
    <3> QED
      BY <2>3, <3>2
  <2> QED
    BY <2>6 DEF a, c
<1>3. \A k \in Nat : k \in T
  <2> HIDE DEF T
  <2> QED
    BY <1>1, <1>2, SetInduction
<1>4. n - m \in T /\ m + (n - m) = n /\ n <= NProbes
  <2>1. n - m \in Nat /\ m + (n - m) = n /\ n <= NProbes
    BY <1>0
  <2> HIDE DEF T
  <2> QED
    BY <1>3, <2>1
<1> QED
  BY <1>4

\* Half of a stretch has room for what is done there.
LEMMA HalfRoom ==
    ASSUME NEW n \in 2 .. NProbes, NEW l \in Nat, l >= Room[n],
           NEW x \in Nat, 2 * x + 1 >= l
    PROVE  /\ n \div 2 \in 1 .. n - 1
           /\ x >= Room[n \div 2]
           /\ \A m \in 1 .. n \div 2 : x >= (m + 1) * Room[m]
<1>0. NProbes \in Nat /\ n \in Nat
  BY RayAssumption
<1> DEFINE h == n \div 2
<1>1. h \in 1 .. n - 1 /\ 2 * h <= n
  BY <1>0
<1> HIDE DEF h
<1>2. h \in 0 .. n - 1 /\ n - 1 \in 0 .. NProbes /\ n \in 1 .. NProbes /\ h \in 0 .. NProbes
  BY <1>0, <1>1
<1> DEFINE a == Room[h]
           b == Room[n - 1]
           y == (h + 1) * a
<1>3. a \in Nat /\ b \in Nat /\ a >= 1 /\ a <= b
  BY <1>2, RoomSolves, RoomGrows
<1>4. Room[n] = (n + 2) * b
  BY <1>2, RoomSolves
<1>5. y \in Nat /\ y >= a
  <2>1. 1 <= h + 1 /\ h + 1 \in Nat
    BY <1>1
  <2> HIDE DEF a
  <2>2. 1 * a <= (h + 1) * a /\ (h + 1) * a \in Nat /\ 1 * a = a
    BY <1>3, <2>1, Product
  <2> HIDE DEF y
  <2> QED
    BY <2>2 DEF y
<1>6. 2 * y <= l
  <2>1. 2 * h + 2 \in Nat /\ n + 2 \in Nat /\ 2 * h + 2 <= n + 2
    BY <1>0, <1>1
  <2> HIDE DEF a, b
  <2>2. (2 * h + 2) * a <= (n + 2) * b
    BY <1>3, <2>1, Product
  <2>3. (2 * h + 2) * a = 2 * y
    BY <1>1, <1>3
  <2> HIDE DEF y
  <2> DEFINE c == (n + 2) * b
             d == (2 * h + 2) * a
  <2>4. c \in Nat
    BY <1>0, <1>3
  <2> HIDE DEF c, d
  <2>5. d <= c /\ d = 2 * y /\ l >= c
    BY <1>4, <2>2, <2>3 DEF c, d
  <2> QED
    BY <1>5, <2>4, <2>5
<1>7. x >= y
  <2> HIDE DEF y
  <2> QED
    BY <1>5, <1>6
<1>8. ASSUME NEW m \in 1 .. h PROVE x >= (m + 1) * Room[m]
  <2>1. m \in 0 .. h /\ m + 1 \in Nat /\ h + 1 \in Nat /\ m + 1 <= h + 1 /\ m \in 0 .. NProbes
    BY <1>0, <1>1
  <2>2. Room[m] \in Nat /\ Room[m] <= a
    BY <1>2, <2>1, RoomSolves, RoomGrows
  <2> DEFINE r == Room[m]
  <2> HIDE DEF a, r
  <2>3. (m + 1) * r <= y /\ (m + 1) * r \in Nat
    BY <1>3, <2>1, <2>2, Product DEF r
  <2> DEFINE z == (m + 1) * r
  <2> HIDE DEF y, z
  <2>4. x >= z
    BY <1>5, <1>7, <2>3 DEF z
  <2> QED
    BY <2>4 DEF z, r
<1>9. x >= a
  <2> HIDE DEF a, y
  <2> QED
    BY <1>3, <1>5, <1>7
<1> QED
  BY <1>1, <1>8, <1>9 DEF h

\* An even division into k steps.
LEMMA Steps ==
    ASSUME NEW x \in Nat, NEW k \in Nat, k > 0, NEW r \in Nat, x >= k * r
    PROVE  x \div k \in Nat /\ (x \div k) * k <= x /\ x \div k >= r
<1> DEFINE s == x \div k
<1>1. s \in Int /\ s * k <= x /\ x < (s + 1) * k
  OBVIOUS
<1> HIDE DEF s
<1>2. s >= 0
  <2> SUFFICES ASSUME s < 0 PROVE FALSE
    BY <1>1
  <2>1. s + 1 <= 0
    BY <1>1
  <2>2. (s + 1) * k <= 0
    BY <1>1, <2>1
  <2> QED
    BY <1>1, <2>2
<1>3. s >= r
  <2> SUFFICES ASSUME s < r PROVE FALSE
    BY <1>1
  <2>1. s + 1 <= r /\ s + 1 \in Nat
    BY <1>1, <1>2
  <2>2. (s + 1) * k <= r * k /\ r * k = k * r
    BY <2>1
  <2> DEFINE u == (s + 1) * k
             v == k * r
  <2>3. u \in Int /\ v \in Int
    BY <2>1
  <2>4. u <= v /\ x < u /\ x >= v
    BY <1>1, <2>2
  <2> HIDE DEF u, v
  <2> QED
    BY <2>3, <2>4
<1> QED
  BY <1>1, <1>2, <1>3 DEF s

\* The middle is strictly inside, and each side is half of the stretch.
LEMMA MiddleInside ==
    ASSUME NEW f \in Frames, f.mode = 0, Fits(f)
    PROVE  /\ Middle(f) \in Int /\ f.ds < Middle(f) /\ Middle(f) < f.de
           /\ 2 * (Middle(f) - f.ds) + 1 >= f.de - f.ds
           /\ 2 * (f.de - Middle(f)) + 1 >= f.de - f.ds
<1> DEFINE a == f.ds
           b == f.de
           m == (a + b) \div 2
<1>1. a \in Int /\ b \in Int /\ f.n \in Nat \ {0} /\ f.n <= NProbes /\ NProbes \in Nat
  BY RayAssumption DEF Frames, Fits
<1>2. b - a >= 3
  <2>1. 1 \in 0 .. f.n /\ f.n \in 0 .. NProbes /\ 1 \in 1 .. NProbes
    BY <1>1
  <2>2. Room[1] <= Room[f.n] /\ Room[f.n] \in Nat /\ Room[1] \in Nat
    BY <1>1, <2>1, RoomSolves, RoomGrows
  <2>3. Room[1] = 3
    <3>1. Room[1] = (1 + 2) * Room[1 - 1]
      BY <2>1, RoomSolves
    <3>2. Room[1 - 1] = 1
      <4>1. 1 - 1 = 0
        OBVIOUS
      <4> QED
        BY <4>1, RoomSolves
    <3> QED
      BY <3>1, <3>2
  <2>4. b - a >= Room[f.n]
    BY DEF Fits
  <2> HIDE DEF a, b
  <2> QED
    BY <1>1, <2>2, <2>3, <2>4
<1> HIDE DEF a, b
<1>3. m \in Int /\ 2 * m <= a + b /\ a + b <= 2 * m + 1
  BY <1>1
<1>4. Middle(f) = m
  BY DEF Middle, a, b
<1> HIDE DEF m
<1> QED
  BY <1>1, <1>2, <1>3, <1>4 DEF a, b

(***************************************************************************)
(* A probe divides the stretch of the search on top                        *)
(***************************************************************************)
\* Where a search ends, and that its probe is inside.
LEMMA OutFacts ==
    ASSUME NEW f \in Frames
    PROVE  /\ Out(f) \in Int
           /\ Fits(f) => f.ds < f.de /\ f.de <= Out(f) /\ (f.mode = 1 => f.de < Out(f))
<1> DEFINE s == f.de - f.ds
           k == f.n + 1
           z == s * k
<1>1. /\ f.ds \in Int /\ f.de \in Int /\ f.n \in Nat \ {0} /\ f.mode \in {0, 1}
      /\ s \in Int /\ k \in Nat /\ k >= 2
  BY DEF Frames
<1>2. z \in Int
  <2> HIDE DEF s, k
  <2> QED
    BY <1>1
<1>3. Out(f) = IF f.mode = 0 THEN f.de ELSE f.ds + z
  BY DEF Out
<1>4. Out(f) \in Int
  <2> HIDE DEF z
  <2> QED
    BY <1>1, <1>2, <1>3
<1>5. ASSUME Fits(f)
      PROVE  f.ds < f.de /\ f.de <= Out(f) /\ (f.mode = 1 => f.de < Out(f))
  <2>1. f.n \in 0 .. NProbes /\ s >= Room[f.n]
    BY <1>1, <1>5, RayAssumption DEF Fits
  <2>2. Room[f.n] \in Nat /\ Room[f.n] >= 1
    BY <2>1, RoomSolves
  <2>3. s \in Nat /\ s >= 1
    <3> HIDE DEF s
    <3> QED
      BY <1>1, <2>1, <2>2
  <2>4. s * 2 <= z
    <3> HIDE DEF s, k
    <3>1. 2 * s <= k * s /\ k * s = z /\ 2 * s = s * 2
      <4>1. 2 * s <= k * s
        BY <1>1, <2>3, Product
      <4> QED
        BY <1>1, <4>1
    <3> QED
      BY <3>1
  <2>5. f.ds + s = f.de
    BY <1>1
  <2> HIDE DEF s, z
  <2> QED
    BY <1>1, <1>2, <1>3, <2>3, <2>4, <2>5
<1> QED
  BY <1>4, <1>5

\* g is a part of the stretch of f, and at is outside it.
PartOf(g, f, at) ==
    /\ g \in Frames /\ Fits(g)
    /\ f.ds <= g.ds /\ Out(g) <= Out(f)
    /\ at <= g.ds \/ Out(g) <= at

\* The inner half of a bisection.
LEMMA InnerPart ==
    ASSUME NEW f \in Frames, f.mode = 0, Fits(f), f.n # 1, NEW owed \in Nat
    PROVE  PartOf(Mode0(f.ds, Middle(f), f.n \div 2, owed), f, Middle(f))
<1> DEFINE m == Middle(f)
           h == f.n \div 2
           g == Mode0(f.ds, m, h, owed)
<1>1. /\ f.ds \in Int /\ f.de \in Int /\ f.n \in Nat \ {0} /\ NProbes \in Nat
      /\ f.n \in 2 .. NProbes /\ f.ds >= 0 /\ f.de - f.ds >= Room[f.n] /\ f.de <= Length
  BY RayAssumption DEF Frames, Fits, Out
<1>2. /\ m \in Int /\ f.ds < m /\ m < f.de /\ 2 * (m - f.ds) + 1 >= f.de - f.ds
  BY MiddleInside
<1>3. h \in 1 .. f.n - 1 /\ m - f.ds >= Room[h]
  <2> DEFINE x == m - f.ds
             l == f.de - f.ds
  <2>1. x \in Nat /\ l \in Nat /\ l >= Room[f.n] /\ 2 * x + 1 >= l
    <3> HIDE DEF m
    <3> QED
      BY <1>1, <1>2
  <2> HIDE DEF x, l
  <2>2. h \in 1 .. f.n - 1 /\ x >= Room[h]
    BY <1>1, <2>1, HalfRoom
  <2> QED
    BY <2>2 DEF x
<1> HIDE DEF m, h
<1>4. g.mode = 0 /\ g.ds = f.ds /\ g.de = m /\ g.n = h
  BY DEF Mode0
<1>5. g \in Frames
  BY <1>1, <1>2, <1>3, SearchesAreFrames
<1> HIDE DEF g
<1>6. Out(g) = m /\ Out(f) = f.de
  BY <1>4 DEF Out
<1>7. Length \in Int
  BY RayAssumption
<1>8. Fits(g)
  BY <1>1, <1>2, <1>3, <1>4, <1>6, <1>7 DEF Fits
<1>9. PartOf(g, f, m)
  BY <1>1, <1>2, <1>4, <1>5, <1>6, <1>8 DEF PartOf
<1> QED
  BY <1>9 DEF g, m, h

\* The outer half of a bisection.
LEMMA OuterPart ==
    ASSUME NEW f \in Frames, f.mode = 0, Fits(f), f.n # 1, NEW owed \in Nat
    PROVE  PartOf(Mode0(Middle(f), f.de, f.n \div 2, owed), f, Middle(f))
<1> DEFINE m == Middle(f)
           h == f.n \div 2
           g == Mode0(m, f.de, h, owed)
<1>1. /\ f.ds \in Int /\ f.de \in Int /\ f.n \in Nat \ {0} /\ NProbes \in Nat
      /\ f.n \in 2 .. NProbes /\ f.ds >= 0 /\ f.de - f.ds >= Room[f.n] /\ f.de <= Length
  BY RayAssumption DEF Frames, Fits, Out
<1>2. /\ m \in Int /\ f.ds < m /\ m < f.de /\ 2 * (f.de - m) + 1 >= f.de - f.ds
  BY MiddleInside
<1>3. h \in 1 .. f.n - 1 /\ f.de - m >= Room[h]
  <2> DEFINE x == f.de - m
             l == f.de - f.ds
  <2>1. x \in Nat /\ l \in Nat /\ l >= Room[f.n] /\ 2 * x + 1 >= l
    <3> HIDE DEF m
    <3> QED
      BY <1>1, <1>2
  <2> HIDE DEF x, l
  <2>2. h \in 1 .. f.n - 1 /\ x >= Room[h]
    BY <1>1, <2>1, HalfRoom
  <2> QED
    BY <2>2 DEF x
<1> HIDE DEF m, h
<1>4. g.mode = 0 /\ g.ds = m /\ g.de = f.de /\ g.n = h
  BY DEF Mode0
<1>5. g \in Frames
  BY <1>1, <1>2, <1>3, SearchesAreFrames
<1> HIDE DEF g
<1>6. Out(g) = f.de /\ Out(f) = f.de
  BY <1>4 DEF Out
<1>7. Length \in Int
  BY RayAssumption
<1>8. Fits(g)
  BY <1>1, <1>2, <1>3, <1>4, <1>6, <1>7 DEF Fits
<1>9. PartOf(g, f, m)
  BY <1>1, <1>2, <1>4, <1>5, <1>6, <1>8 DEF PartOf
<1> QED
  BY <1>9 DEF g, m, h

\* An even search fits where there is room for each of its steps.
LEMMA EvenFits ==
    ASSUME NEW a \in Nat, NEW b \in Int, a < b, b <= Length, NEW k \in 1 .. NProbes,
           b - a >= (k + 1) * Room[k], NEW owed \in Nat
    PROVE  LET g == Mode1(a, b, k, owed) IN
           g \in Frames /\ Fits(g) /\ g.ds = a /\ Out(g) <= b
<1> DEFINE g == Mode1(a, b, k, owed)
           x == b - a
           s == x \div (k + 1)
<1>1. NProbes \in Nat /\ Length \in Int /\ k \in Nat /\ k > 0 /\ k \in 0 .. NProbes
  BY RayAssumption
<1>2. Room[k] \in Nat
  BY <1>1, RoomSolves
<1>3. s \in Nat /\ s * (k + 1) <= x /\ s >= Room[k]
  <2>1. x \in Nat /\ k + 1 \in Nat /\ k + 1 > 0
    BY <1>1
  <2> HIDE DEF x
  <2> QED
    BY <1>2, <2>1, Steps DEF x
<1>4. g.mode = 1 /\ g.ds = a /\ g.de = a + s /\ g.n = k
  BY DEF Mode1
<1>5. g \in Frames
  BY <1>1, SearchesAreFrames
<1> HIDE DEF g, s
<1>6. g.de - g.ds = s
  BY <1>3, <1>4
<1>7. Out(g) = a + s * (k + 1)
  BY <1>4, <1>6 DEF Out
<1>8. Out(g) <= b
  <2> DEFINE z == s * (k + 1)
  <2>1. z \in Int
    BY <1>1, <1>3
  <2> HIDE DEF z
  <2> QED
    BY <1>3, <1>7, <2>1 DEF z
<1>9. Fits(g)
  <2>1. Out(g) \in Int
    BY <1>5, OutFacts
  <2> QED
    BY <1>1, <1>3, <1>4, <1>6, <1>8, <2>1 DEF Fits
<1> QED
  BY <1>4, <1>5, <1>8, <1>9 DEF g

\* The inner half of a bisection, searched evenly.
LEMMA EvenPart ==
    ASSUME NEW f \in Frames, f.mode = 0, Fits(f), f.n # 1, NEW owed \in Nat,
           NEW k \in 1 .. f.n \div 2
    PROVE  PartOf(Mode1(f.ds, Middle(f), k, owed), f, Middle(f))
<1> DEFINE m == Middle(f)
           g == Mode1(f.ds, m, k, owed)
<1>1. /\ f.ds \in Int /\ f.de \in Int /\ f.n \in Nat \ {0} /\ NProbes \in Nat
      /\ f.n \in 2 .. NProbes /\ f.ds >= 0 /\ f.de - f.ds >= Room[f.n] /\ f.de <= Length
  BY RayAssumption DEF Frames, Fits, Out
<1>2. /\ m \in Int /\ f.ds < m /\ m < f.de /\ 2 * (m - f.ds) + 1 >= f.de - f.ds
  BY MiddleInside
<1>3. k \in 1 .. NProbes /\ m - f.ds >= (k + 1) * Room[k]
  <2> DEFINE x == m - f.ds
             l == f.de - f.ds
  <2>1. x \in Nat /\ l \in Nat /\ l >= Room[f.n] /\ 2 * x + 1 >= l
    <3> HIDE DEF m
    <3> QED
      BY <1>1, <1>2
  <2> HIDE DEF x, l
  <2>2. f.n \div 2 \in 1 .. f.n - 1 /\ x >= (k + 1) * Room[k]
    BY <1>1, <2>1, HalfRoom
  <2>3. k \in 1 .. NProbes
    <3> DEFINE h == f.n \div 2
    <3>1. h \in 1 .. f.n - 1 /\ k \in 1 .. h
      BY <2>2
    <3> HIDE DEF h
    <3> QED
      BY <1>1, <3>1
  <2> QED
    BY <2>2, <2>3 DEF x
<1> HIDE DEF m
<1>4. g \in Frames /\ Fits(g) /\ g.ds = f.ds /\ Out(g) <= m
  <2>1. f.ds \in Nat /\ m <= Length
    BY <1>1, <1>2, RayAssumption
  <2> QED
    BY <1>2, <1>3, <2>1, EvenFits
<1> HIDE DEF g
<1>5. Out(f) = f.de /\ Out(g) \in Int
  BY <1>4, OutFacts DEF Out
<1>6. PartOf(g, f, m)
  BY <1>1, <1>2, <1>4, <1>5 DEF PartOf
<1> QED
  BY <1>6 DEF g, m

\* The stretch in front of a failed probe of an even search.
LEMMA FrontPart ==
    ASSUME NEW f \in Frames, f.mode = 1, Fits(f)
    PROVE  PartOf(Mode0(f.ds, f.de, f.n, f.owed), f, f.de)
<1> DEFINE g == Mode0(f.ds, f.de, f.n, f.owed)
<1>1. f.ds \in Int /\ f.de \in Int /\ f.n \in Nat \ {0} /\ f.owed \in Nat /\ Length \in Int
  BY RayAssumption DEF Frames
<1>2. g \in Frames /\ g.mode = 0 /\ g.ds = f.ds /\ g.de = f.de /\ g.n = f.n
  BY <1>1, SearchesAreFrames DEF Mode0
<1> HIDE DEF g
<1>3. Out(g) = f.de /\ f.de < Out(f) /\ Out(f) \in Int /\ Out(f) <= Length
  BY <1>2, OutFacts DEF Out, Fits
<1>4. f.de <= Length
  BY <1>1, <1>3
<1>5. Fits(g)
  BY <1>2, <1>3, <1>4 DEF Fits
<1>6. PartOf(g, f, f.de)
  BY <1>1, <1>2, <1>3, <1>5 DEF PartOf
<1> QED
  BY <1>6 DEF g

\* What is left of an even search after a passed probe.
LEMMA NextPart ==
    ASSUME NEW f \in Frames, f.mode = 1, Fits(f), f.n # 1
    PROVE  PartOf([f EXCEPT !.ds = f.de, !.de = f.de + (f.de - f.ds), !.n = @ - 1], f, f.de)
<1> DEFINE g == [f EXCEPT !.ds = f.de, !.de = f.de + (f.de - f.ds), !.n = @ - 1]
           s == f.de - f.ds
<1>1. /\ f.ds \in Int /\ f.de \in Int /\ f.n \in Nat \ {0} /\ Length \in Int /\ NProbes \in Nat
      /\ f.n - 1 \in Nat \ {0} /\ f.de + (f.de - f.ds) \in Int /\ s \in Int
  BY RayAssumption DEF Frames
<1>2. g \in Frames
  BY <1>1 DEF Frames
<1>3. g.mode = 1 /\ g.ds = f.de /\ g.de = f.de + (f.de - f.ds) /\ g.n = f.n - 1
  BY DEF Frames
<1> HIDE DEF g
<1>4. g.de - g.ds = s
  BY <1>1, <1>3
<1>5. f.ds >= 0 /\ f.n <= NProbes /\ s >= Room[f.n] /\ Out(f) <= Length /\ f.ds < f.de
  BY OutFacts DEF Fits
<1>6. Out(g) = f.de + s * f.n /\ Out(f) = f.ds + s * (f.n + 1)
  <2>1. (f.n - 1) + 1 = f.n
    BY <1>1
  <2> HIDE DEF s
  <2> QED
    BY <1>3, <1>4, <2>1 DEF Out, s
<1>7. Out(g) = Out(f)
  <2>1. f.de = f.ds + s
    BY <1>1
  <2> DEFINE k == f.n
  <2> HIDE DEF s, k
  <2>2. k \in Int
    BY <1>1 DEF k
  <2>3. s * (k + 1) = s * k + s
    BY <1>1, <2>2
  <2>4. s * k \in Int
    BY <1>1, <2>2
  <2> DEFINE z == s * k
  <2> HIDE DEF z
  <2> QED
    BY <1>1, <1>6, <2>1, <2>3, <2>4 DEF z, k
<1>8. s >= Room[g.n]
  <2>1. f.n \in 0 .. NProbes /\ f.n - 1 \in 0 .. f.n /\ f.n - 1 \in 0 .. NProbes
    BY <1>1, <1>5
  <2>2. Room[f.n - 1] <= Room[f.n] /\ Room[f.n] \in Nat /\ Room[f.n - 1] \in Nat
    BY <2>1, RoomGrows, RoomSolves
  <2> HIDE DEF s
  <2> QED
    BY <1>1, <1>3, <1>5, <2>2
<1>9. Fits(g)
  BY <1>1, <1>3, <1>4, <1>5, <1>7, <1>8 DEF Fits
<1>10. Out(f) \in Int
  BY OutFacts
<1>11. PartOf(g, f, f.de)
  BY <1>1, <1>2, <1>3, <1>5, <1>7, <1>9, <1>10 DEF PartOf
<1> QED
  BY <1>11 DEF g

(***************************************************************************)
(* The stretches of the stack                                              *)
(***************************************************************************)
\* No stretch of the stack reaches beyond x.
Beneath(s, x) == \A i \in 1 .. Len(s) : Out(s[i]) <= x

\* The top search leaves: the others lie in front of it.
LEMMA PopLaid ==
    ASSUME NEW s \in Seq(Frames), NEW e, Laid(s, e), s # <<>>
    PROVE  LET r == SubSeq(s, 1, Len(s) - 1)
               f == s[Len(s)]
           IN  /\ r \in Seq(Frames) /\ Laid(r, e) /\ Beneath(r, f.ds)
               /\ f \in Frames /\ Fits(f) /\ Untouched(f, e)
<1> DEFINE r == SubSeq(s, 1, Len(s) - 1)
           f == s[Len(s)]
<1>1. Len(s) \in Nat /\ Len(s) >= 1 /\ Len(s) \in 1 .. Len(s) /\ Len(s) - 1 \in 0 .. Len(s)
  OBVIOUS
<1>2. r \in Seq(Frames) /\ Len(r) = Len(s) - 1 /\ \A i \in 1 .. Len(s) - 1 : r[i] = s[i]
  BY <1>1, PrefixOf
<1>3. f \in Frames /\ Fits(f) /\ Untouched(f, e)
  BY <1>1 DEF Laid
<1> HIDE DEF r
<1>4. \A i \in 1 .. Len(r) : i \in 1 .. Len(s) /\ i < Len(s) /\ r[i] = s[i]
  BY <1>1, <1>2
<1>5. Laid(r, e)
  <2>1. \A i \in 1 .. Len(r) : Fits(r[i]) /\ Untouched(r[i], e)
    BY <1>4 DEF Laid
  <2>2. \A i, j \in 1 .. Len(r) : i < j => Out(r[i]) <= r[j].ds
    BY <1>4 DEF Laid
  <2> QED
    BY <2>1, <2>2 DEF Laid
<1>6. Beneath(r, f.ds)
  BY <1>1, <1>4 DEF Beneath, Laid
<1> QED
  BY <1>2, <1>3, <1>5, <1>6 DEF r

\* A search that starts where the stack ends joins it.
LEMMA PushLaid ==
    ASSUME NEW s \in Seq(Frames), NEW e, Laid(s, e),
           NEW g \in Frames, Fits(g), Untouched(g, e), Beneath(s, g.ds)
    PROVE  LET r == Append(s, g)
           IN  r \in Seq(Frames) /\ Laid(r, e) /\ Beneath(r, Out(g))
<1> DEFINE r == Append(s, g)
<1>1. /\ r \in Seq(Frames) /\ Len(r) = Len(s) + 1 /\ Len(s) \in Nat
      /\ r[Len(s) + 1] = g /\ \A i \in 1 .. Len(s) : r[i] = s[i]
  OBVIOUS
<1> HIDE DEF r
<1>2. \A i \in 1 .. Len(r) : i = Len(s) + 1 \/ i \in 1 .. Len(s)
  BY <1>1
<1>3. \A i \in 1 .. Len(r) : Fits(r[i]) /\ Untouched(r[i], e)
  <2> TAKE i \in 1 .. Len(r)
  <2>1. CASE i = Len(s) + 1
    BY <1>1, <2>1
  <2>2. CASE i \in 1 .. Len(s)
    BY <1>1, <2>2 DEF Laid
  <2> QED
    BY <1>2, <2>1, <2>2
<1>4. \A i, j \in 1 .. Len(r) : i < j => Out(r[i]) <= r[j].ds
  <2> SUFFICES ASSUME NEW i \in 1 .. Len(r), NEW j \in 1 .. Len(r), i < j
               PROVE  Out(r[i]) <= r[j].ds
    OBVIOUS
  <2>1. i \in 1 .. Len(s)
    BY <1>1
  <2>2. CASE j = Len(s) + 1
    BY <1>1, <2>1, <2>2 DEF Beneath
  <2>3. CASE j \in 1 .. Len(s)
    BY <1>1, <2>1, <2>3 DEF Laid
  <2> QED
    BY <1>2, <2>2, <2>3
<1>5. Beneath(r, Out(g))
  <2> SUFFICES ASSUME NEW i \in 1 .. Len(r) PROVE Out(r[i]) <= Out(g)
    BY DEF Beneath
  <2>1. Out(g) \in Int /\ g.ds \in Int /\ g.ds < Out(g)
    <3>1. /\ Out(g) \in Int /\ g.ds \in Int /\ g.de \in Int
          /\ g.ds < g.de /\ g.de <= Out(g)
      BY OutFacts DEF Frames
    <3> QED
      BY <3>1
  <2>2. CASE i = Len(s) + 1
    BY <1>1, <2>1, <2>2
  <2>3. CASE i \in 1 .. Len(s)
    <3>1. r[i] = s[i] /\ Out(s[i]) <= g.ds
      BY <1>1, <2>3 DEF Beneath
    <3>2. Out(s[i]) \in Int
      BY <2>3, OutFacts
    <3> QED
      BY <2>1, <3>1, <3>2
  <2> QED
    BY <1>2, <2>2, <2>3
<1> QED
  BY <1>1, <1>3, <1>4, <1>5 DEF r, Laid

\* A point probed beyond the stack touches no search of it.
LEMMA MoreLaid ==
    ASSUME NEW s \in Seq(Frames), NEW e, Laid(s, e),
           NEW x \in Int, Beneath(s, x), NEW at \in Int, x <= at, NEW p
    PROVE  Laid(s, e \cup {<<at, p>>})
<1> SUFFICES ASSUME NEW i \in 1 .. Len(s) PROVE Untouched(s[i], e \cup {<<at, p>>})
  BY DEF Laid
<1>1. Out(s[i]) <= x /\ Untouched(s[i], e)
  BY DEF Beneath, Laid
<1>2. Out(s[i]) \in Int
  BY OutFacts
<1>3. Out(s[i]) <= at
  BY <1>1, <1>2
<1>4. <<at, p>>[1] = at
  OBVIOUS
<1> QED
  BY <1>1, <1>3, <1>4 DEF Untouched

\* The part of a search that is left after its probe is untouched.
LEMMA PartUntouched ==
    ASSUME NEW e \in SUBSET (Int \X BOOLEAN), NEW f \in Frames, Untouched(f, e),
           NEW at \in Int, NEW p, NEW g, PartOf(g, f, at)
    PROVE  Untouched(g, e \cup {<<at, p>>})
<1>1. /\ g \in Frames /\ f.ds <= g.ds /\ Out(g) <= Out(f)
      /\ at <= g.ds \/ Out(g) <= at
  BY DEF PartOf
<1>2. f.ds \in Int /\ g.ds \in Int /\ Out(f) \in Int /\ Out(g) \in Int
  BY <1>1, OutFacts DEF Frames
<1> SUFFICES ASSUME NEW x \in e \cup {<<at, p>>} PROVE x[1] <= g.ds \/ Out(g) <= x[1]
  BY DEF Untouched
<1>3. CASE x \in e
  <2>1. x[1] \in Int
    BY <1>3
  <2>2. x[1] <= f.ds \/ Out(f) <= x[1]
    BY <1>3 DEF Untouched
  <2> QED
    BY <1>1, <1>2, <2>1, <2>2
<1>4. CASE x = <<at, p>>
  BY <1>1, <1>4
<1> QED
  BY <1>3, <1>4

(***************************************************************************)
(* What a probe makes of the stack                                         *)
(***************************************************************************)
\* Before the probe: the search on top is untouched, and the rest is below it.
LEMMA TopLaid ==
    ASSUME IInv, Laid(stack, probed), stack # <<>>
    PROVE  /\ Below \in Seq(Frames) /\ Laid(Below, probed) /\ Beneath(Below, Search.ds)
           /\ Search \in Frames /\ Fits(Search) /\ Untouched(Search, probed)
           /\ Search.ds \in Int /\ Search.n \in Nat \ {0} /\ Search.owed \in Nat
           /\ probed \in SUBSET (Int \X BOOLEAN)
<1>1. stack \in Seq(Frames) /\ probed \in SUBSET (Int \X BOOLEAN)
  BY DEF IInv, RayTypeOK
<1>2. /\ Below \in Seq(Frames) /\ Laid(Below, probed) /\ Beneath(Below, Search.ds)
      /\ Search \in Frames /\ Fits(Search) /\ Untouched(Search, probed)
  BY <1>1, PopLaid DEF Below, Search
<1> QED
  BY <1>1, <1>2 DEF Frames

\* After the probe at a point of the stretch, one part of it is left to search.
LEMMA OnePart ==
    ASSUME IInv, Laid(stack, probed), stack # <<>>,
           NEW at \in Int, Search.ds <= at, NEW p,
           NEW g, PartOf(g, Search, at)
    PROVE  /\ Laid(Below, probed \cup {<<at, p>>})
           /\ Laid(Append(Below, g), probed \cup {<<at, p>>})
           /\ Append(Below, g) \in Seq(Frames)
           /\ Beneath(Append(Below, g), Out(g))
<1> DEFINE e == probed \cup {<<at, p>>}
<1>1. /\ Below \in Seq(Frames) /\ Laid(Below, probed) /\ Beneath(Below, Search.ds)
      /\ Search \in Frames /\ Fits(Search) /\ Untouched(Search, probed)
      /\ Search.ds \in Int /\ probed \in SUBSET (Int \X BOOLEAN)
  BY TopLaid
<1>2. Laid(Below, e)
  BY <1>1, MoreLaid
<1>3. Untouched(g, e)
  BY <1>1, PartUntouched
<1>4. g \in Frames /\ Fits(g) /\ Search.ds <= g.ds /\ g.ds \in Int
  BY DEF PartOf, Frames
<1>5. Beneath(Below, g.ds)
  <2> SUFFICES ASSUME NEW i \in 1 .. Len(Below) PROVE Out(Below[i]) <= g.ds
    BY DEF Beneath
  <2>1. Out(Below[i]) \in Int /\ Out(Below[i]) <= Search.ds
    BY <1>1, OutFacts DEF Beneath
  <2> QED
    BY <1>1, <1>4, <2>1
<1> HIDE DEF e
<1>6. /\ Append(Below, g) \in Seq(Frames) /\ Laid(Append(Below, g), e)
      /\ Beneath(Append(Below, g), Out(g))
  BY <1>1, <1>2, <1>3, <1>4, <1>5, PushLaid
<1> QED
  BY <1>2, <1>6 DEF e

\* Or two, the outer one on top.
LEMMA TwoParts ==
    ASSUME IInv, Laid(stack, probed), stack # <<>>,
           NEW at \in Int, Search.ds <= at, NEW p,
           NEW g, PartOf(g, Search, at), NEW h, PartOf(h, Search, at), Out(g) <= h.ds
    PROVE  Laid(Append(Append(Below, g), h), probed \cup {<<at, p>>})
<1> DEFINE e == probed \cup {<<at, p>>}
           r == Append(Below, g)
<1>1. r \in Seq(Frames) /\ Laid(r, e) /\ Beneath(r, Out(g))
  BY OnePart
<1>2. h \in Frames /\ Fits(h) /\ h.ds \in Int /\ g \in Frames /\ Out(g) \in Int
  BY OutFacts DEF PartOf, Frames
<1>3. Untouched(h, e)
  <2>1. Search \in Frames /\ Untouched(Search, probed) /\ probed \in SUBSET (Int \X BOOLEAN)
    BY TopLaid
  <2> QED
    BY <2>1, PartUntouched
<1> HIDE DEF r, e
<1>4. Beneath(r, h.ds)
  <2> SUFFICES ASSUME NEW i \in 1 .. Len(r) PROVE Out(r[i]) <= h.ds
    BY DEF Beneath
  <2>1. Out(r[i]) \in Int /\ Out(r[i]) <= Out(g)
    BY <1>1, OutFacts DEF Beneath
  <2> QED
    BY <1>2, <2>1
<1>5. Laid(Append(r, h), e)
  BY <1>1, <1>2, <1>3, <1>4, PushLaid
<1> QED
  BY <1>5 DEF r, e

\* The search on top is gone and its probe was beyond the rest.
LEMMA BelowLaid ==
    ASSUME IInv, Laid(stack, probed), stack # <<>>,
           NEW at \in Int, Search.ds <= at, NEW p
    PROVE  Laid(Below, probed \cup {<<at, p>>})
<1>1. /\ Below \in Seq(Frames) /\ Laid(Below, probed) /\ Beneath(Below, Search.ds)
      /\ Search.ds \in Int
  BY TopLaid
<1> QED
  BY <1>1, MoreLaid

\* The probe of a bisection is strictly inside, whatever it finds.
LEMMA MiddleLaid ==
    ASSUME IInv, Laid(stack, probed), stack # <<>>, Search.mode = 0, NEW p
    PROVE  LET f == Search
               e == probed \cup {<<Middle(f), p>>}
           IN  /\ Middle(f) \in Int /\ f.ds < Middle(f) /\ Middle(f) < Out(f)
               /\ Laid(OuterFirst(f), e) /\ Laid(InnerOnly(f), e)
<1> DEFINE f == Search
           m == Middle(f)
           e == probed \cup {<<m, p>>}
           rest == f.n - 1
           outer == (rest + 1) \div 2
<1>1. /\ f \in Frames /\ Fits(f) /\ f.ds \in Int /\ f.n \in Nat \ {0} /\ f.owed \in Nat
  BY TopLaid
<1>2. m \in Int /\ f.ds < m /\ m < f.de /\ Out(f) = f.de
  BY <1>1, MiddleInside DEF Out
<1>3. f.ds <= m
  BY <1>1, <1>2
<1>4. Laid(Below, e)
  BY <1>2, <1>3, BelowLaid
<1>5. outer = f.n \div 2
  <2>1. rest + 1 = f.n
    BY <1>1
  <2> QED
    BY <2>1
<1>6. Laid(InnerOnly(f), e)
  <2>1. CASE f.n = 1
    <3>1. InnerOnly(f) = Below
      BY <2>1 DEF InnerOnly
    <3> QED
      BY <1>4, <3>1
  <2>2. CASE f.n # 1
    <3> DEFINE g == Mode0(f.ds, m, f.n \div 2, f.owed)
    <3>1. PartOf(g, f, m)
      BY <1>1, <2>2, InnerPart
    <3>2. InnerOnly(f) = Append(Below, g)
      BY <2>2 DEF InnerOnly
    <3> HIDE DEF g
    <3>3. Laid(Append(Below, g), e)
      BY <1>2, <1>3, <3>1, OnePart
    <3> QED
      BY <3>2, <3>3
  <2> QED
    BY <2>1, <2>2
<1>7. Laid(OuterFirst(f), e)
  <2>1. CASE rest = 0
    <3>1. OuterFirst(f) = Below
      BY <2>1 DEF OuterFirst
    <3> QED
      BY <1>4, <3>1
  <2>2. CASE rest # 0 /\ rest = outer
    <3> DEFINE g == Mode0(m, f.de, f.n \div 2, f.owed)
    <3>0. f.n # 1
      BY <1>1, <2>2
    <3>1. PartOf(g, f, m)
      BY <1>1, <3>0, OuterPart
    <3>2. OuterFirst(f) = Append(Below, g)
      BY <1>5, <2>2 DEF OuterFirst
    <3> HIDE DEF g
    <3>3. Laid(Append(Below, g), e)
      BY <1>2, <1>3, <3>1, OnePart
    <3> QED
      BY <3>2, <3>3
  <2>3. CASE rest # 0 /\ rest # outer
    <3> DEFINE o == f.owed + 2 * (rest - outer)
               g == Mode1(f.ds, m, rest - outer, f.owed)
               h == Mode0(m, f.de, f.n \div 2, o)
    <3>0. f.n # 1 /\ rest - outer \in 1 .. f.n \div 2
      BY <1>1, <2>3
    <3>1. o \in Nat
      <4> DEFINE k == rest - outer
      <4>1. k \in Nat
        BY <1>1, <3>0
      <4> HIDE DEF k
      <4>2. f.owed + 2 * k \in Nat
        BY <1>1, <4>1
      <4> QED
        BY <4>2 DEF k
    <3>2. OuterFirst(f) = Append(Append(Below, g), h)
      BY <1>5, <2>3 DEF OuterFirst
    <3> HIDE DEF o
    <3>3. PartOf(h, f, m)
      BY <1>1, <3>0, <3>1, OuterPart
    <3>4. PartOf(g, f, m)
      <4> DEFINE k == rest - outer
      <4>1. k \in 1 .. f.n \div 2
        BY <3>0
      <4> HIDE DEF k
      <4>2. PartOf(Mode1(f.ds, m, k, f.owed), f, m)
        BY <1>1, <3>0, <4>1, EvenPart
      <4> QED
        BY <4>2 DEF k
    <3>5. Out(g) <= h.ds
      <4>1. h.ds = m
        BY DEF Mode0
      <4>2. g.ds = f.ds
        BY DEF Mode1
      <4> HIDE DEF g, h, rest, outer
      <4>3. g \in Frames /\ Fits(g) /\ (m <= g.ds \/ Out(g) <= m)
        BY <3>4 DEF PartOf
      <4>4. ~(m <= g.ds)
        BY <1>1, <1>2, <4>2
      <4> QED
        BY <4>1, <4>3, <4>4
    <3> HIDE DEF g, h
    <3>6. Laid(Append(Append(Below, g), h), e)
      BY <1>2, <1>3, <3>3, <3>4, <3>5, TwoParts
    <3> QED
      BY <3>2, <3>6
  <2> QED
    BY <2>1, <2>2, <2>3
<1> QED
  BY <1>2, <1>6, <1>7

\* So is the next probe of an even search.
LEMMA EvenLaid ==
    ASSUME IInv, Laid(stack, probed), stack # <<>>, Search.mode = 1, NEW p
    PROVE  LET f == Search
               e == probed \cup {<<f.de, p>>}
           IN  /\ f.de \in Int /\ f.ds < f.de /\ f.de < Out(f)
               /\ Laid(NextProbe(f), e) /\ Laid(SearchInFront(f), e)
<1> DEFINE f == Search
           e == probed \cup {<<f.de, p>>}
<1>1. /\ f \in Frames /\ Fits(f) /\ f.ds \in Int /\ f.n \in Nat \ {0} /\ f.owed \in Nat
      /\ f.de \in Int
  BY TopLaid DEF Frames
<1>2. f.ds < f.de /\ f.de < Out(f) /\ f.ds <= f.de
  BY <1>1, OutFacts
<1>3. Laid(NextProbe(f), e)
  <2>1. CASE f.n = 1
    <3>1. NextProbe(f) = Below
      BY <2>1 DEF NextProbe
    <3>2. Laid(Below, e)
      BY <1>1, <1>2, BelowLaid
    <3> QED
      BY <3>1, <3>2
  <2>2. CASE f.n # 1
    <3> DEFINE g == [f EXCEPT !.ds = f.de, !.de = f.de + (f.de - f.ds), !.n = @ - 1]
    <3>1. PartOf(g, f, f.de)
      BY <1>1, <2>2, NextPart
    <3>2. NextProbe(f) = Append(Below, g)
      BY <2>2 DEF NextProbe
    <3> HIDE DEF g
    <3>3. Laid(Append(Below, g), e)
      BY <1>1, <1>2, <3>1, OnePart
    <3> QED
      BY <3>2, <3>3
  <2> QED
    BY <2>1, <2>2
<1>4. Laid(SearchInFront(f), e)
  <2> DEFINE g == Mode0(f.ds, f.de, f.n, f.owed)
  <2>1. PartOf(g, f, f.de)
    BY <1>1, FrontPart
  <2>2. SearchInFront(f) = Append(Below, g)
    BY DEF SearchInFront
  <2> HIDE DEF g
  <2>3. Laid(Append(Below, g), e)
    BY <1>1, <1>2, <2>1, OnePart
  <2> QED
    BY <2>2, <2>3
<1> QED
  BY <1>1, <1>2, <1>3, <1>4

(***************************************************************************)
(* The division of the ray is kept by every step                           *)
(***************************************************************************)
\* A point that differs from those probed before adds one to them.
LEMMA NewPoint ==
    ASSUME NEW e \in SUBSET (Int \X BOOLEAN), IsFiniteSet(e),
           \A x, y \in e : x[1] = y[1] => x = y,
           NEW at \in Int, NEW p \in BOOLEAN, \A x \in e : x[1] # at
    PROVE  LET r == e \cup {<<at, p>>}
           IN  /\ IsFiniteSet(r) /\ Cardinality(r) = Cardinality(e) + 1
               /\ \A x, y \in r : x[1] = y[1] => x = y
<1> DEFINE z == <<at, p>>
           r == e \cup {z}
<1>1. z[1] = at
  OBVIOUS
<1> HIDE DEF z
<1>2. z \notin e
  BY <1>1
<1>3. IsFiniteSet(r) /\ Cardinality(r) = Cardinality(e) + 1
  BY <1>2, FS_AddElement
<1>4. ASSUME NEW x \in r, NEW y \in r, x[1] = y[1] PROVE x = y
  BY <1>1, <1>4
<1> QED
  BY <1>3, <1>4 DEF z

\* What a record of a point says of it.
LEMMA RecordKnown ==
    ASSUME NEW at \in Int, NEW passed \in BOOLEAN, NEW squashed \in BOOLEAN,
           squashed = (at = Length /\ passed), NEW e, <<at, passed>> \in e,
           NEW p, p = [at |-> at, value |-> passed /\ ~squashed, squashed |-> squashed]
    PROVE  /\ p.squashed => p.at = Length
           /\ ~p.squashed => <<p.at, p.value>> \in e
           /\ p.at = Length => ~p.value
<1>1. p.at = at /\ p.squashed = squashed
  OBVIOUS
<1>2. p.value = (passed /\ ~squashed)
  OBVIOUS
<1>3. CASE passed
  <2>1. passed = TRUE
    BY <1>3
  <2>2. CASE at = Length
    <3>1. squashed = TRUE
      BY <1>3, <2>2
    <3>2. p.value = FALSE
      BY <1>2, <3>1
    <3> QED
      BY <1>1, <2>2, <3>1, <3>2
  <2>3. CASE at # Length
    <3>1. squashed = FALSE
      BY <2>3
    <3>2. p.value = passed
      BY <1>2, <2>1, <3>1
    <3> QED
      BY <1>1, <2>3, <3>1, <3>2
  <2> QED
    BY <2>2, <2>3
<1>4. CASE ~passed
  <2>1. passed = FALSE
    BY <1>4
  <2>2. squashed = FALSE
    BY <1>4
  <2>3. p.value = passed
    BY <1>2, <2>1
  <2> QED
    BY <1>1, <2>1, <2>2, <2>3
<1> QED
  BY <1>3, <1>4

\* An evaluation keeps what is known of the points recorded.
LEMMA EvalKnown ==
    ASSUME \A p \in points : Known(p), NEW at \in Int, NEW passed \in BOOLEAN,
           NEW squashed \in BOOLEAN, squashed = (at = Length /\ passed),
           EvalPnt(at, passed, squashed)
    PROVE  \A p \in points' : Known(p)'
<1>1. probed' = probed \cup {<<at, passed>>}
  BY DEF EvalPnt
<1>2. probed \subseteq probed' /\ <<at, passed>> \in probed'
  BY <1>1
<1>3. ASSUME NEW p \in points' PROVE Known(p)'
  <2>1. CASE p \in points
    BY <1>2, <2>1 DEF Known
  <2>2. CASE p \notin points
    <3>1. p = [at |-> at, value |-> passed /\ ~squashed, squashed |-> squashed]
      BY <1>3, <2>2 DEF EvalPnt
    <3>2. /\ p.squashed => p.at = Length
          /\ ~p.squashed => <<p.at, p.value>> \in probed'
          /\ p.at = Length => ~p.value
      BY <1>2, <3>1, RecordKnown
    <3> QED
      BY <3>2 DEF Known
  <2> QED
    BY <2>1, <2>2
<1> QED
  BY <1>3

\* A probe strictly inside the search on top keeps the division, provided the
\* searches that follow from it do.
LEMMA ProbeDivides ==
    ASSUME IInv, Divided, pc = "search", pc' = pc, stack # <<>>,
           NEW at \in Int, Search.ds < at, at < Out(Search),
           NEW passed \in BOOLEAN, EvalPnt(at, passed, FALSE),
           probes' = probes + 1, Laid(stack', probed \cup {<<at, passed>>})
    PROVE  Divided'
<1>1. probed' = probed \cup {<<at, passed>>}
  BY DEF EvalPnt
<1>2. /\ Search \in Frames /\ Fits(Search) /\ Untouched(Search, probed) /\ Search.ds \in Int
      /\ probed \in SUBSET (Int \X BOOLEAN)
  BY TopLaid DEF Divided
<1>3. Out(Search) \in Int /\ Out(Search) <= Length /\ Length \in Int
  BY <1>2, OutFacts, RayAssumption DEF Fits
<1>4. \A x \in probed : x[1] # at
  <2> SUFFICES ASSUME NEW x \in probed PROVE x[1] # at
    OBVIOUS
  <2>1. x[1] \in Int
    BY <1>2
  <2>2. x[1] <= Search.ds \/ Out(Search) <= x[1]
    BY <1>2 DEF Untouched
  <2> QED
    BY <1>2, <1>3, <2>1, <2>2
<1>5. /\ IsFiniteSet(probed') /\ Cardinality(probed') = Cardinality(probed) + 1
      /\ \A x, y \in probed' : x[1] = y[1] => x = y
  BY <1>1, <1>2, <1>4, NewPoint DEF Divided
<1>6. Cardinality(probed') = probes' + 2
  <2>1. Cardinality(probed) = probes + 2 /\ probes \in Nat
    BY DEF Divided, IInv, RayTypeOK
  <2> QED
    BY <1>5, <2>1
<1>7. \A p \in points' : Known(p)'
  <2>1. at # Length
    BY <1>3
  <2>2. \A p \in points : Known(p)
    BY DEF Divided
  <2>3. FALSE = (at = Length /\ passed)
    BY <2>1
  <2> QED
    BY <2>2, <2>3, EvalKnown
<1>8. Laid(stack', probed')
  BY <1>1
<1>9. pc' = "search"
  OBVIOUS
<1> QED
  BY <1>5, <1>6, <1>7, <1>8, <1>9 DEF Divided, OneTransition

\* The first search has the whole ray to itself.
LEMMA WholeRay ==
    ASSUME NEW passed \in BOOLEAN
    PROVE  LET f == IF passed THEN Mode1(0, Length, NProbes, 0)
                              ELSE Mode0(0, Length, NProbes, 0)
           IN  f \in Frames /\ Fits(f) /\ f.ds = 0
<1> DEFINE r == Room[NProbes]
           z == (NProbes + 1) * r
           even == Mode1(0, Length, NProbes, 0)
           half == Mode0(0, Length, NProbes, 0)
<1>1. /\ Length \in Nat \ {0} /\ NProbes \in Nat \ {0} /\ NProbes \in 1 .. NProbes
      /\ NProbes \in 0 .. NProbes
  BY RayAssumption
<1>2. r \in Nat /\ Length >= z
  BY <1>1, RoomSolves, FineAssumption
<1>3. z \in Nat /\ z >= r
  <2> DEFINE k == NProbes + 1
  <2>1. k \in Nat /\ 1 <= k
    BY <1>1
  <2> HIDE DEF r, k
  <2>2. 1 * r <= k * r /\ k * r \in Nat /\ 1 * r = r
    BY <1>2, <2>1, Product
  <2> QED
    BY <2>2 DEF k
<1>4. Length >= r
  <2> HIDE DEF r, z
  <2> QED
    BY <1>1, <1>2, <1>3
<1>5. even \in Frames /\ Fits(even) /\ even.ds = 0
  <2>1. 0 \in Nat /\ Length \in Int /\ 0 < Length /\ Length <= Length
    BY <1>1
  <2>2. Length - 0 >= z
    <3> HIDE DEF z
    <3> QED
      BY <1>1, <1>2
  <2> QED
    BY <1>1, <2>1, <2>2, EvenFits
<1>6. half \in Frames /\ Fits(half) /\ half.ds = 0
  <2>1. half \in Frames
    BY <1>1, SearchesAreFrames
  <2>2. half.mode = 0 /\ half.ds = 0 /\ half.de = Length /\ half.n = NProbes
    BY DEF Mode0
  <2>3. half.de - half.ds >= r
    <3> HIDE DEF r, half
    <3> QED
      BY <1>1, <1>4, <2>2
  <2> HIDE DEF half
  <2>4. Out(half) = Length
    BY <2>2 DEF Out
  <2>5. half.ds >= 0 /\ half.n <= NProbes /\ Out(half) <= Length
    BY <1>1, <2>2, <2>4
  <2>6. half.de - half.ds >= Room[half.n]
    BY <2>2, <2>3
  <2> QED
    BY <2>1, <2>2, <2>5, <2>6 DEF Fits
<1> QED
  BY <1>5, <1>6

\* The end point is a fail, or a pass that is squashed: never a recorded pass.
LEMMA EndPointDivides ==
    ASSUME IInv, Divided, NEW passed \in BOOLEAN, EndPoint(passed)
    PROVE  Divided'
<1> DEFINE f == IF passed THEN Mode1(0, Length, NProbes, 0)
                          ELSE Mode0(0, Length, NProbes, 0)
           e == {<<0, TRUE>>, <<Length, passed>>}
<1>1. /\ probed = {<<0, TRUE>>} /\ points = {} /\ probes = 0 /\ probes' = probes
      /\ EvalPnt(Length, passed, passed) /\ stack' = <<f>> /\ pc' = "search"
  BY DEF EndPoint, Divided, IInv
<1>2. Length \in Int /\ Length # 0
  BY RayAssumption
<1>3. probed' = probed \cup {<<Length, passed>>} /\ probed' = e
  BY <1>1 DEF EvalPnt
<1>4. f \in Frames /\ Fits(f) /\ f.ds = 0
  BY WholeRay
<1> HIDE DEF f
<1>5. /\ IsFiniteSet(probed') /\ Cardinality(probed') = Cardinality(probed) + 1
      /\ \A x, y \in probed' : x[1] = y[1] => x = y
  <2>1. probed \in SUBSET (Int \X BOOLEAN) /\ IsFiniteSet(probed)
    BY DEF IInv, RayTypeOK, Divided
  <2>2. \A x, y \in probed : x[1] = y[1] => x = y
    BY DEF Divided
  <2>3. \A x \in probed : x[1] # Length
    BY <1>1, <1>2
  <2> QED
    BY <1>2, <1>3, <2>1, <2>2, <2>3, NewPoint
<1>6. Cardinality(probed') = probes' + 2
  <2>1. Cardinality(probed) = 1
    BY <1>1, FS_Singleton
  <2> QED
    BY <1>1, <1>5, <2>1
<1>7. \A p \in points' : Known(p)'
  <2>1. \A p \in points : Known(p)
    BY <1>1
  <2>2. passed = (Length = Length /\ passed)
    OBVIOUS
  <2> QED
    BY <1>1, <1>2, <2>1, <2>2, EvalKnown
<1>8. Untouched(f, e)
  <2>1. Out(f) <= Length
    BY <1>4 DEF Fits
  <2>2. <<0, TRUE>>[1] <= f.ds
    BY <1>4
  <2>3. Out(f) <= <<Length, passed>>[1]
    BY <2>1
  <2> QED
    BY <2>2, <2>3 DEF Untouched
<1>9. Laid(stack', probed')
  <2> DEFINE s == stack'
  <2>1. Len(s) = 1 /\ s[1] = f
    BY <1>1
  <2> HIDE DEF s
  <2>2. \A i \in 1 .. Len(s) : i = 1
    BY <2>1
  <2>3. \A i \in 1 .. Len(s) : Fits(s[i]) /\ Untouched(s[i], e)
    BY <1>4, <1>8, <2>1, <2>2
  <2>4. \A i, j \in 1 .. Len(s) : ~(i < j)
    BY <2>2
  <2>5. Laid(s, e)
    BY <2>3, <2>4 DEF Laid
  <2> QED
    BY <1>3, <2>5 DEF s
<1> QED
  BY <1>1, <1>5, <1>6, <1>7, <1>9 DEF Divided, OneTransition

\* The last step: what counts as a pass lies in front of every known fail.
LEMMA SquashDivides ==
    ASSUME IInv, Divided, Squash
    PROVE  Divided'
<1>1. /\ pc = "squash" /\ pc' = "done" /\ stack' = stack /\ probed' = probed /\ probes' = probes
      /\ points' = {IF p.value /\ BeyondFail(p) THEN Squashed(p) ELSE p : p \in points}
  BY DEF Squash
<1>2. /\ points \subseteq [at : Int, value : BOOLEAN, squashed : BOOLEAN] /\ Length \in Int
      /\ \A x, y \in probed : x[1] = y[1] => x = y
      /\ \A p \in points : Known(p)
  BY <1>1, RayAssumption DEF IInv, RayTypeOK, Divided
<1> DEFINE Fails(q) == <<q.at, FALSE>> \in probed \/ q.at = Length
  \* A point is known to fail when it is recorded as a fail.
<1>3. ASSUME NEW q \in points PROVE Fails(q) <=> ~q.value
  <2>1. q.value \in BOOLEAN /\ q.squashed \in BOOLEAN
    BY <1>2
  <2>2. CASE q.squashed \/ q.at = Length
    BY <1>2, <2>2 DEF Known
  <2>3. CASE ~q.squashed /\ q.at # Length
    <3>1. <<q.at, q.value>> \in probed
      BY <1>2, <2>3 DEF Known
    <3>2. CASE q.value
      <4>1. q.value = TRUE
        BY <2>1, <3>2
      <4>2. <<q.at, FALSE>> \notin probed
        <5> SUFFICES ASSUME <<q.at, FALSE>> \in probed PROVE FALSE
          OBVIOUS
        <5>1. <<q.at, TRUE>> \in probed
          BY <3>1, <4>1
        <5>2. <<q.at, TRUE>> = <<q.at, FALSE>>
          <6>1. <<q.at, TRUE>>[1] = <<q.at, FALSE>>[1]
            OBVIOUS
          <6> QED
            BY <1>2, <5>1, <6>1
        <5>3. <<q.at, TRUE>>[2] = <<q.at, FALSE>>[2]
          BY <5>2
        <5> QED
          BY <5>3
      <4> QED
        BY <2>3, <3>2, <4>2
    <3>3. CASE ~q.value
      <4>1. q.value = FALSE
        BY <2>1, <3>3
      <4> QED
        BY <3>1, <3>3, <4>1
    <3> QED
      BY <3>2, <3>3
  <2> QED
    BY <2>2, <2>3
<1> HIDE DEF Fails
<1> DEFINE After(p) == IF p.value /\ BeyondFail(p) THEN Squashed(p) ELSE p
<1>4. ASSUME NEW p \in points
      PROVE  /\ After(p).at = p.at
             /\ After(p).value <=> p.value /\ ~BeyondFail(p)
  <2>1. p \in [at : Int, value : BOOLEAN, squashed : BOOLEAN]
    BY <1>2
  <2>2. Squashed(p).at = p.at /\ Squashed(p).value = FALSE
    BY <2>1 DEF Squashed
  <2>3. CASE p.value /\ BeyondFail(p)
    BY <2>2, <2>3
  <2>4. CASE ~(p.value /\ BeyondFail(p))
    BY <2>4
  <2> QED
    BY <2>3, <2>4
<1>5. points' = {After(p) : p \in points}
  BY <1>1
<1> HIDE DEF After
<1>6. ASSUME NEW p \in points, <<p.at, TRUE>> \in probed
      PROVE  After(p).value <=> \A q \in points : Fails(q) => p.at < q.at
  <2>1. \A q \in points : q.at \in Int
    BY <1>2
  <2>2. ASSUME After(p).value, NEW q \in points, Fails(q) PROVE p.at < q.at
    <3>1. ~BeyondFail(p) /\ ~q.value
      BY <1>3, <1>4, <2>2
    <3>2. ~(q.at <= p.at)
      BY <3>1 DEF BeyondFail
    <3> QED
      BY <2>1, <3>2
  <2>3. ASSUME \A q \in points : Fails(q) => p.at < q.at PROVE After(p).value
    <3>1. p.value
      <4>1. ~(p.at < p.at)
        BY <2>1
      <4>2. ~Fails(p)
        BY <2>3, <4>1
      <4> QED
        BY <1>3, <4>2
    <3>2. ASSUME NEW q \in points, ~q.value PROVE ~(q.at <= p.at)
      <4>1. p.at < q.at
        BY <1>3, <2>3, <3>2
      <4> QED
        BY <2>1, <4>1
    <3>3. ~BeyondFail(p)
      BY <3>2 DEF BeyondFail
    <3> QED
      BY <1>4, <3>1, <3>3
  <2> QED
    BY <2>2, <2>3
<1>7. OneTransition'
  <2> SUFFICES ASSUME NEW r \in points', <<r.at, TRUE>> \in probed
               PROVE  r.value <=> \A q \in points' :
                          (<<q.at, FALSE>> \in probed \/ q.at = Length) => r.at < q.at
    BY <1>1 DEF OneTransition
  <2>1. PICK p \in points : r = After(p)
    BY <1>5
  <2>2. r.at = p.at
    BY <1>4, <2>1
  <2>3. r.value <=> \A q \in points : Fails(q) => p.at < q.at
    BY <1>6, <2>1, <2>2
  <2>4. (\A q \in points : Fails(q) => p.at < q.at) <=>
        (\A q \in points' : Fails(q) => p.at < q.at)
    <3>1. ASSUME \A q \in points : Fails(q) => p.at < q.at, NEW q \in points', Fails(q)
          PROVE  p.at < q.at
      <4>1. PICK o \in points : q = After(o)
        BY <1>5, <3>1
      <4>2. q.at = o.at
        BY <1>4, <4>1
      <4> QED
        BY <3>1, <4>2 DEF Fails
    <3>2. ASSUME \A q \in points' : Fails(q) => p.at < q.at, NEW q \in points, Fails(q)
          PROVE  p.at < q.at
      <4>1. After(q) \in points' /\ After(q).at = q.at
        BY <1>4, <1>5
      <4> QED
        BY <3>2, <4>1 DEF Fails
    <3> QED
      BY <3>1, <3>2
  <2> QED
    BY <2>2, <2>3, <2>4 DEF Fails
<1>8. /\ Laid(stack, probed) /\ IsFiniteSet(probed) /\ Cardinality(probed) = probes + 2
  BY <1>1 DEF Divided
<1> QED
  BY <1>1, <1>2, <1>7, <1>8 DEF Divided

\* Nothing is on the stack and only the origin has been seen.
LEMMA InitDivided == Init => Divided
<1> SUFFICES ASSUME Init PROVE Divided
  OBVIOUS
<1>1. pc = "end_point" /\ stack = <<>> /\ probed = {<<0, TRUE>>} /\ points = {}
  BY DEF Init
<1>2. IsFiniteSet(probed)
  BY <1>1, FS_Singleton
<1>3. Laid(stack, probed)
  BY <1>1 DEF Laid
<1>4. \A x, y \in probed : x[1] = y[1] => x = y
  BY <1>1
<1> QED
  BY <1>1, <1>2, <1>3, <1>4 DEF Divided, OneTransition

\* Every step keeps the division.
LEMMA NextDivided == IInv /\ Divided /\ [Next]_vars => Divided'
<1> SUFFICES ASSUME IInv, Divided, [Next]_vars PROVE Divided'
  OBVIOUS
<1>1. ASSUME NEW passed \in BOOLEAN, EndPoint(passed) PROVE Divided'
  BY <1>1, EndPointDivides
<1>2. ASSUME NEW passed \in BOOLEAN, SearchMode0(passed) PROVE Divided'
  <2>1. /\ pc = "search" /\ stack # <<>> /\ Search.mode = 0 /\ pc' = pc
        /\ EvalPnt(Middle(Search), passed, FALSE) /\ probes' = probes + 1
        /\ stack' = IF passed THEN OuterFirst(Search) ELSE InnerOnly(Search)
    BY <1>2 DEF SearchMode0
  <2>2. Laid(stack, probed)
    BY DEF Divided
  <2>3. LET f == Search
            e == probed \cup {<<Middle(f), passed>>}
        IN  /\ Middle(f) \in Int /\ f.ds < Middle(f) /\ Middle(f) < Out(f)
            /\ Laid(OuterFirst(f), e) /\ Laid(InnerOnly(f), e)
    BY <2>1, <2>2, MiddleLaid
  <2>4. Laid(stack', probed \cup {<<Middle(Search), passed>>})
    BY <2>1, <2>3
  <2> QED
    BY <2>1, <2>3, <2>4, ProbeDivides
<1>3. ASSUME NEW passed \in BOOLEAN, SearchMode1(passed) PROVE Divided'
  <2>1. /\ pc = "search" /\ stack # <<>> /\ Search.mode = 1 /\ pc' = pc
        /\ EvalPnt(Search.de, passed, FALSE) /\ probes' = probes + 1
        /\ stack' = IF passed THEN NextProbe(Search) ELSE SearchInFront(Search)
    BY <1>3 DEF SearchMode1
  <2>2. Laid(stack, probed)
    BY DEF Divided
  <2>3. LET f == Search
            e == probed \cup {<<f.de, passed>>}
        IN  /\ f.de \in Int /\ f.ds < f.de /\ f.de < Out(f)
            /\ Laid(NextProbe(f), e) /\ Laid(SearchInFront(f), e)
    BY <2>1, <2>2, EvenLaid
  <2>4. Laid(stack', probed \cup {<<Search.de, passed>>})
    BY <2>1, <2>3
  <2> QED
    BY <2>1, <2>3, <2>4, ProbeDivides
<1>4. CASE SearchEnds
  BY <1>4 DEF SearchEnds, Divided, Known, OneTransition
<1>5. CASE Squash
  BY <1>5, SquashDivides
<1>6. CASE UNCHANGED vars
  BY <1>6 DEF vars, Divided, Known, OneTransition
<1> QED
  BY <1>1, <1>2, <1>3, <1>4, <1>5, <1>6 DEF Next, Ended

\* The two invariants hold together throughout.
LEMMA AlwaysDivided == Spec => [](IInv /\ Divided)
<1>1. Init => IInv /\ Divided
  BY InitIInv, InitDivided
<1>2. (IInv /\ Divided) /\ [Next]_vars => (IInv /\ Divided)'
  BY NextIInv, NextDivided
<1> QED
  BY <1>1, <1>2, PTL DEF Spec

\* The assertions of ray_search_mode0() and ray_search_mode1() hold for the
\* search in progress and for those that wait, and no position is probed
\* twice, on every ray that is as fine as its divisions.
THEOREM RayAlwaysDivided == Spec => []RayDivided
<1>1. IInv /\ Divided => RayDivided
  <2> SUFFICES ASSUME IInv, Divided PROVE RayDivided
    OBVIOUS
  <2>1. AssertsHold
    <3> SUFFICES ASSUME NEW i \in 1 .. Len(stack)
                 PROVE  stack[i].ds >= 0 /\ stack[i].ds < stack[i].de /\ stack[i].de <= Length
      BY DEF AssertsHold
    <3>1. stack[i] \in Frames /\ Fits(stack[i])
      BY DEF IInv, RayTypeOK, Divided, Laid
    <3>2. /\ stack[i].ds < stack[i].de /\ stack[i].de <= Out(stack[i])
          /\ Out(stack[i]) \in Int /\ stack[i].de \in Int
      BY <3>1, OutFacts DEF Frames
    <3>3. stack[i].ds >= 0 /\ Out(stack[i]) <= Length
      BY <3>1 DEF Fits
    <3> QED
      BY <3>2, <3>3, RayAssumption
  <2>2. ProbesDiffer
    BY DEF Divided, ProbesDiffer
  <2> QED
    BY <2>1, <2>2 DEF RayDivided
<1> QED
  BY <1>1, AlwaysDivided, PTL

\* When ray_search() returns, a point seen to pass counts as a pass exactly
\* when it lies in front of every fail and of the end of the ray.
THEOREM OneTransitionAlways == Spec => []OneTransition
<1>1. IInv /\ Divided => OneTransition
  BY DEF Divided
<1> QED
  BY <1>1, AlwaysDivided, PTL
=============================================================================
