-------------------------- MODULE LoopComplex_proofs --------------------------
(***************************************************************************)
(* Proofs about LoopComplex, for every deck: any number of scan parameters *)
(* and stateful objects in any order, evaluated any number of times.       *)
(*                                                                         *)
(* The recursion of run_this_level() is gone, so an invariant has to say   *)
(* what the levels below left behind, and what the levels above expect to  *)
(* find when they go on: Final, Counts and Sums do so for the results, the *)
(* number of updates and the values of sums.                               *)
(***************************************************************************)
EXTENDS LoopComplex, SequenceTheorems, FiniteSetTheorems, Functions, TLAPS

Obj(l) == levels[l].objects

Level == [steps : Nat \ {0}, objects : Seq(Objects)]

\* Each object is in one place of one registry, and reads only earlier ones.
Deck ==
    /\ levels \in Seq(Level) /\ Top > 0
    /\ objects \in Seq([fit : BOOLEAN, arg : Nat])
    /\ \A o \in Objects : objects[o].arg < o
    /\ \A l, m \in 1 .. Top : \A i \in 1 .. Len(Obj(l)), j \in 1 .. Len(Obj(m)) :
           Obj(l)[i] = Obj(m)[j] => l = m /\ i = j
    /\ \A o \in Objects : \E l \in 1 .. Top : \E i \in 1 .. Len(Obj(l)) : Obj(l)[i] = o

Counters ==
    /\ step_cntr \in Seq(Nat) /\ Len(step_cntr) = Top
    /\ \A l \in 1 .. Top : step_cntr[l] < levels[l].steps

Running == pc \in {"initialize", "iterate", "josim", "update", "finalize"}

\* Values are typed; a sum collects no points.
Values ==
    /\ value \in [Objects -> Value] /\ points \in [Objects -> Nat]
    /\ updates \in [Objects -> Nat] /\ good \in [Objects -> Nat]
    /\ \A o \in Objects : ~objects[o].fit => points[o] = 0

Control ==
    /\ pc \in {"parse", "initialize", "iterate", "josim", "update", "finalize",
               "returned", "exited"}
    /\ lvl \in 1 .. Top /\ (pc = "josim" => lvl = 1)
    /\ next_obj \in Nat \ {0}
    /\ pc \in {"update", "finalize"} => next_obj <= Len(Obj(lvl)) + 1
    /\ is_valid \in BOOLEAN /\ sample \in {1, NaN}
    /\ n_josim_runs \in Nat /\ once \in 0 .. MaxOnce /\ runs \in Nat

\* The levels below have come to their end.
Final ==
    pc \in {"update", "finalize"} =>
        /\ is_valid
        /\ \A l \in 1 .. lvl - 1 :
              /\ step_cntr[l] = levels[l].steps - 1
              /\ \A i \in 1 .. Len(Obj(l)) : points[Obj(l)[i]] = 0
        /\ pc = "finalize" =>
              /\ step_cntr[lvl] = levels[lvl].steps - 1
              /\ \A i \in 1 .. Len(Obj(lvl)) : i < next_obj => points[Obj(lvl)[i]] = 0

\* The objects of a level have been updated as often as its loop has turned.
Updated(l, i) == updates[Obj(l)[i]]
Counts ==
    Running =>
        /\ \A l \in 1 .. Top : \A i \in 1 .. Len(Obj(l)) :
              l > lvl \/ (l = lvl /\ pc \in {"iterate", "josim"})
                  => Updated(l, i) = step_cntr[l]
        /\ pc = "update" => \A i \in 1 .. Len(Obj(lvl)) :
              Updated(lvl, i) = IF i < next_obj THEN step_cntr[lvl] + 1 ELSE step_cntr[lvl]
        /\ pc = "finalize" => \A i \in 1 .. Len(Obj(lvl)) :
              Updated(lvl, i) = levels[lvl].steps

Types == Deck /\ Counters /\ Values /\ Control
LoopInv == Types /\ Final /\ Counts

(***************************************************************************)
(* The deck                                                                *)
(***************************************************************************)
LEMMA InDeck ==
    ASSUME Deck, NEW l \in 1 .. Top
    PROVE  /\ levels[l].steps \in Nat \ {0}
           /\ Obj(l) \in Seq(Objects) /\ Len(Obj(l)) \in Nat
           /\ DOMAIN Obj(l) = 1 .. Len(Obj(l))
           /\ \A i \in 1 .. Len(Obj(l)) : Obj(l)[i] \in Objects
<1>1. levels \in Seq(Level)
  BY DEF Deck
<1>2. levels[l] \in Level
  BY <1>1 DEF Top
<1> QED
  BY <1>2 DEF Obj, Level

LEMMA HereInDeck ==
    ASSUME Deck, lvl \in 1 .. Top
    PROVE  /\ Here = Obj(lvl)
           /\ HereSet = {Obj(lvl)[i] : i \in 1 .. Len(Obj(lvl))}
           /\ HereSet \subseteq Objects
  BY InDeck DEF Here, HereSet, Obj

\* The registry of another level is not touched by what happens here.
LEMMA Elsewhere ==
    ASSUME Deck, lvl \in 1 .. Top, NEW l \in 1 .. Top, l # lvl,
           NEW i \in 1 .. Len(Obj(l))
    PROVE  /\ Obj(l)[i] \notin HereSet
           /\ \A j \in 1 .. Len(Obj(lvl)) : Obj(l)[i] # Obj(lvl)[j]
<1>1. \A j \in 1 .. Len(Obj(lvl)) : Obj(l)[i] # Obj(lvl)[j]
  BY DEF Deck
<1> QED
  BY <1>1, HereInDeck

LEMMA InitTypes == Init => LoopInv
<1> SUFFICES ASSUME Init
             PROVE  LoopInv
  OBVIOUS
<1>1. /\ levels = <<[steps |-> 1, objects |-> <<>>]>> /\ objects = <<>> /\ pc = "parse"
      /\ Top = 1 /\ Objects = {} /\ Obj(1) = <<>> /\ levels[1].steps = 1
  BY DEF Init, Top, Objects, Obj
<1>2. levels \in Seq(Level)
  <2>1. [steps |-> 1, objects |-> <<>>] \in Level
    BY DEF Level
  <2> QED
    BY <1>1, <2>1
<1>3. Deck
  BY <1>1, <1>2 DEF Deck
<1>4. Counters
  BY <1>1 DEF Init, Counters
<1>5. Values
  BY <1>1 DEF Init, Values
<1>6. Control
  <2>1. is_valid \in BOOLEAN /\ sample \in {1, NaN}
    BY Zenon DEF Init
  <2>2. lvl = 1 /\ next_obj = 1 /\ n_josim_runs = 0 /\ once = 0 /\ runs = 0
    BY DEF Init
  <2> QED
    BY <1>1, <2>1, <2>2, LoopAssumption DEF Control
<1> QED
  BY <1>1, <1>3, <1>4, <1>5, <1>6 DEF LoopInv, Types, Final, Counts, Running

LEMMA ExceptAt ==
    ASSUME NEW R, NEW L \in Seq(R), NEW t \in 1 .. Len(L), NEW x \in R
    PROVE  /\ [L EXCEPT ![t] = x] \in Seq(R)
           /\ Len([L EXCEPT ![t] = x]) = Len(L)
           /\ \A l \in 1 .. Len(L) : [L EXCEPT ![t] = x][l] = IF l = t THEN x ELSE L[l]
  OBVIOUS

LEMMA DefineScanInv ==
    ASSUME LoopInv, NEW n \in ScanSteps, DefineScan(n)
    PROVE  LoopInv'
<1> USE DEF LoopInv, Types
<1>1. n \in Nat \ {0, 1}
  BY LoopAssumption
<1>2. /\ pc' = "parse" /\ UNCHANGED <<pc, lvl, objects, next_obj, is_valid, sample>>
      /\ UNCHANGED <<n_josim_runs, once, runs, good, value, points, updates>>
  BY DEF DefineScan, valueVars, history
<1>3. Top \in Nat /\ Top > 0 /\ Objects' = Objects
  BY <1>2 DEF Deck, Top, Objects
<1>9. levels \in Seq(Level)
  BY DEF Deck
<1>4. /\ levels' \in Seq(Level)
      /\ Top' >= Top
      /\ \A l \in 1 .. Top' : levels'[l].steps > 1 \/ (l <= Top /\ levels'[l].steps = levels[l].steps)
      /\ \A l \in 1 .. Top' : Obj(l)' = IF l <= Top THEN Obj(l) ELSE <<>>
      /\ step_cntr' \in Seq(Nat) /\ Len(step_cntr') = Top'
      /\ \A l \in 1 .. Top' : step_cntr'[l] = (IF l <= Top THEN step_cntr[l] ELSE 0)
                              /\ (l <= Top => step_cntr[l] < levels'[l].steps)
  <2>1. CASE levels[Top].steps = 1
    <3> DEFINE top == [levels[Top] EXCEPT !.steps = n]
    <3>1. levels' = [levels EXCEPT ![Top] = top] /\ UNCHANGED step_cntr
      BY <2>1 DEF DefineScan
    <3>2. Top \in 1 .. Len(levels) /\ levels[Top] \in Level
      BY <1>3, <1>9 DEF Top
    <3>3. top \in Level /\ top.steps = n /\ top.objects = levels[Top].objects
      BY <1>1, <3>2 DEF Level
    <3> HIDE DEF top
    <3>4. /\ levels' \in Seq(Level) /\ Top' = Top
          /\ \A l \in 1 .. Top : levels'[l] = IF l = Top THEN top ELSE levels[l]
      BY <1>9, <3>1, <3>2, <3>3, ExceptAt DEF Top
    <3>5. \A l \in 1 .. Top : /\ levels'[l].steps = IF l = Top THEN n ELSE levels[l].steps
                              /\ levels'[l].objects = levels[l].objects
      BY <3>3, <3>4
    <3>6. \A l \in 1 .. Top : /\ step_cntr[l] \in Nat /\ levels[l].steps \in Nat
                              /\ step_cntr[l] < levels[l].steps
      BY InDeck DEF Counters
    <3>7. \A l \in 1 .. Top : step_cntr[l] < levels'[l].steps
      BY <1>1, <1>3, <2>1, <3>5, <3>6
    <3>8. \A l \in 1 .. Top : levels'[l].steps > 1 \/ (l <= Top /\ levels'[l].steps = levels[l].steps)
      BY <1>1, <1>3, <3>5
    <3>9. step_cntr' \in Seq(Nat) /\ Len(step_cntr') = Top
      BY <3>1 DEF Counters
    <3> QED
      BY <1>3, <3>1, <3>4, <3>5, <3>7, <3>8, <3>9 DEF Obj
  <2>2. CASE levels[Top].steps # 1
    <3> DEFINE new == [steps |-> n, objects |-> <<>>]
    <3>1. levels' = Append(levels, new) /\ step_cntr' = Append(step_cntr, 0)
      BY <2>2 DEF DefineScan
    <3>2. new \in Level /\ new.objects = <<>>
          /\ new.steps = n
      BY <1>1 DEF Level
    <3> HIDE DEF new
    <3>3. /\ levels' \in Seq(Level)
          /\ Top' = Top + 1
          /\ \A l \in 1 .. Top' : levels'[l] = IF l <= Top THEN levels[l] ELSE new
      BY <1>9, <3>1, <3>2, AppendProperties DEF Top
    <3>4. /\ step_cntr' \in Seq(Nat) /\ Len(step_cntr') = Top + 1
          /\ \A l \in 1 .. Top + 1 : step_cntr'[l] = IF l <= Top THEN step_cntr[l] ELSE 0
      BY <3>1, AppendProperties DEF Counters
    <3>5. \A l \in 1 .. Top : step_cntr[l] \in Nat /\ step_cntr[l] < levels[l].steps
      BY DEF Counters
    <3>6. \A l \in 1 .. Top : levels[l].steps \in Nat
      BY InDeck
    <3>7. \A l \in 1 .. Top + 1 : levels'[l].steps = IF l <= Top THEN levels[l].steps ELSE n
      BY <1>3, <3>2, <3>3
    <3>8. \A l \in 1 .. Top + 1 : Obj(l)' = IF l <= Top THEN Obj(l) ELSE <<>>
      BY <1>3, <3>2, <3>3 DEF Obj
    <3> QED
      BY <1>1, <1>3, <3>3, <3>4, <3>5, <3>7, <3>8
  <2> QED
    BY <2>1, <2>2
<1>5. Deck'
  <2>1. \A l \in 1 .. Top' : \A i \in 1 .. Len(Obj(l)') :
            l \in 1 .. Top /\ i \in 1 .. Len(Obj(l)) /\ Obj(l)'[i] = Obj(l)[i]
    BY <1>3, <1>4
  <2>2. \A l, m \in 1 .. Top' : \A i \in 1 .. Len(Obj(l)'), j \in 1 .. Len(Obj(m)') :
            Obj(l)'[i] = Obj(m)'[j] => l = m /\ i = j
    BY <2>1 DEF Deck
  <2>3. \A o \in Objects : \E l \in 1 .. Top' : \E i \in 1 .. Len(Obj(l)') : Obj(l)'[i] = o
    <3> SUFFICES ASSUME NEW o \in Objects
                 PROVE  \E l \in 1 .. Top' : \E i \in 1 .. Len(Obj(l)') : Obj(l)'[i] = o
      OBVIOUS
    <3>0. PICK l \in 1 .. Top : \E i \in 1 .. Len(Obj(l)) : Obj(l)[i] = o
      BY DEF Deck
    <3>1. PICK i \in 1 .. Len(Obj(l)) : Obj(l)[i] = o
      BY <3>0
    <3>2. l \in 1 .. Top' /\ Obj(l)' = Obj(l)
      <4>1. Top' \in Nat
        BY <1>4 DEF Top
      <4> QED
        BY <1>3, <1>4, <4>1
    <3> QED
      BY <3>1, <3>2
  <2>4. Top' > 0
    BY <1>3, <1>4 DEF Top
  <2> QED
    BY <1>2, <1>3, <1>4, <2>2, <2>3, <2>4 DEF Deck, Level
<1>6. Counters'
  <2>1. \A l \in 1 .. Top' : step_cntr'[l] < levels'[l].steps
    <3> SUFFICES ASSUME NEW l \in 1 .. Top'
                 PROVE  step_cntr'[l] < levels'[l].steps
      OBVIOUS
    <3>1. CASE l <= Top
      BY <1>4, <3>1
    <3>2. CASE ~(l <= Top)
      <4>1. levels'[l].steps > 1 /\ step_cntr'[l] = 0
        BY <1>4, <3>2
      <4>2. levels'[l] \in Level
        BY <1>4 DEF Top
      <4>3. levels'[l].steps \in Nat
        BY <4>2 DEF Level
      <4> QED
        BY <4>1, <4>3
    <3> QED
      BY <3>1, <3>2
  <2> QED
    BY <1>4, <2>1 DEF Counters
<1>7. Values'
  BY <1>2, <1>3 DEF Values
<1>8. Control'
  <2>1. lvl' = lvl /\ lvl \in 1 .. Top /\ Top' \in Nat
    BY <1>2, <1>4 DEF Control, Top
  <2>2. lvl' \in 1 .. Top'
    BY <1>3, <1>4, <2>1
  <2> QED
    BY <1>2, <2>2 DEF Control
<1> QED
  BY <1>2, <1>5, <1>6, <1>7, <1>8 DEF Final, Counts, Running

LEMMA AppendFunction ==
    ASSUME NEW n \in Nat, NEW S, NEW f \in [1 .. n -> S], NEW x \in S
    PROVE  /\ Append(f, x) \in [1 .. n + 1 -> S]
           /\ \A i \in 1 .. n + 1 : Append(f, x)[i] = IF i <= n THEN f[i] ELSE x
<1>1. f \in Seq(S)
  OBVIOUS
<1>2. Len(f) = n
  OBVIOUS
<1>3. Append(f, x) \in Seq(S) /\ Len(Append(f, x)) = n + 1
  BY <1>1, <1>2, AppendProperties
<1>4. \A i \in 1 .. n + 1 : Append(f, x)[i] = IF i <= n THEN f[i] ELSE x
  BY <1>1, <1>2, AppendProperties
<1>5. Append(f, x) \in [1 .. n + 1 -> S]
  BY <1>3, LenProperties
<1> QED
  BY <1>4, <1>5

LEMMA DefineObjectInv ==
    ASSUME LoopInv, NEW fit \in BOOLEAN, NEW arg \in {Sample} \cup Objects,
           DefineObject(fit, arg)
    PROVE  LoopInv'
<1> USE DEF LoopInv, Types
<1> DEFINE n == Len(objects)
           new == [fit |-> fit, arg |-> arg]
<1>1. n \in Nat /\ Objects = 1 .. n /\ Top \in Nat /\ Top > 0
  BY DEF Deck, Top, Objects
<1>2. arg \in Nat /\ arg < n + 1
  BY <1>1 DEF Sample
<1>3. /\ objects' \in Seq([fit : BOOLEAN, arg : Nat]) /\ Objects' = 1 .. n + 1
      /\ \A o \in 1 .. n : objects'[o] = objects[o]
      /\ objects'[n + 1] = new
  <2>1. new \in [fit : BOOLEAN, arg : Nat]
    BY <1>2
  <2>2. objects' = Append(objects, new)
    BY DEF DefineObject
  <2> HIDE DEF new
  <2> QED
    BY <2>1, <2>2, AppendProperties DEF Deck, Objects
<1>4. /\ levels' \in Seq(Level') /\ Top' = Top
      /\ \A l \in 1 .. Top :
            /\ levels'[l].steps = levels[l].steps
            /\ Obj(l)' = IF l = Top THEN Append(Obj(Top), n + 1) ELSE Obj(l)
  <2> DEFINE top == Append(Obj(Top), n + 1)
             new_top == [levels[Top] EXCEPT !.objects = top]
             NewLevel == Level'
  <2>0. NewLevel = [steps : Nat \ {0}, objects : Seq(1 .. n + 1)]
    BY <1>3 DEF Level
  <2> HIDE DEF NewLevel
  <2>1. \A l \in 1 .. Top : levels[l].steps \in Nat \ {0} /\ Obj(l) \in Seq(1 .. n)
                         /\ levels[l] \in [steps : Nat \ {0}, objects : Seq(1 .. n)]
    <3>1. levels \in Seq(Level)
      BY DEF Deck
    <3>2. \A l \in 1 .. Top : levels[l] \in Level
      BY <3>1 DEF Top
    <3>3. Level = [steps : Nat \ {0}, objects : Seq(1 .. n)]
      BY <1>1 DEF Level
    <3> QED
      BY <1>1, <3>2, <3>3, InDeck
  <2>2. Seq(1 .. n) \subseteq Seq(1 .. n + 1)
    BY <1>1
  <2>3. top \in Seq(1 .. n + 1)
    BY <1>1, <2>1, <2>2, AppendProperties
  <2>4. levels' = [levels EXCEPT ![Top] = new_top]
    BY DEF DefineObject, Obj
  <2>5. new_top \in NewLevel /\ new_top.objects = top /\ new_top.steps = levels[Top].steps
    <3> HIDE DEF top
    <3>1. Top \in 1 .. Top
      BY <1>1
    <3> QED
      BY <2>0, <2>1, <2>3, <3>1
  <2>6. \A l \in 1 .. Top : levels[l] \in NewLevel
    BY <2>0, <2>1, <2>2
  <2> HIDE DEF new_top
  <2>7. levels \in Seq(NewLevel) /\ Len(levels) = Top
    <3>1. levels \in Seq(Level)
      BY DEF Deck
    <3> QED
      BY <2>6, <3>1 DEF Top
  <2>8. /\ levels' \in Seq(NewLevel) /\ Len(levels') = Top
        /\ \A l \in 1 .. Top : levels'[l] = IF l = Top THEN new_top ELSE levels[l]
    BY <1>1, <2>4, <2>5, <2>7, ExceptAt
  <2>9. \A l \in 1 .. Top : /\ levels'[l].steps = levels[l].steps
                            /\ levels'[l].objects = IF l = Top THEN top ELSE levels[l].objects
    BY <2>5, <2>8
  <2> QED
    BY <2>8, <2>9 DEF NewLevel, Top, Obj
<1> HIDE DEF n
<1>5. \A l \in 1 .. Top :
        /\ Obj(l) \in Seq(1 .. n) /\ Len(Obj(l)) \in Nat
        /\ \A i \in 1 .. Len(Obj(l)) : Obj(l)[i] \in 1 .. n
  BY <1>1, InDeck
<1>6. /\ Len(Obj(Top)') = Len(Obj(Top)) + 1 /\ Obj(Top)'[Len(Obj(Top)) + 1] = n + 1
      /\ \A l \in 1 .. Top : \A i \in 1 .. Len(Obj(l)) :
            i \in 1 .. Len(Obj(l)') /\ Obj(l)'[i] = Obj(l)[i]
      /\ \A l \in 1 .. Top : \A i \in 1 .. Len(Obj(l)') :
            \/ i \in 1 .. Len(Obj(l)) /\ Obj(l)'[i] = Obj(l)[i] /\ Obj(l)'[i] # n + 1
            \/ l = Top /\ i = Len(Obj(Top)) + 1 /\ Obj(l)'[i] = n + 1
  <2>1. Top \in 1 .. Top
    BY <1>1
  <2>2. /\ Len(Append(Obj(Top), n + 1)) = Len(Obj(Top)) + 1
        /\ \A i \in 1 .. Len(Obj(Top)) : Append(Obj(Top), n + 1)[i] = Obj(Top)[i]
        /\ Append(Obj(Top), n + 1)[Len(Obj(Top)) + 1] = n + 1
    BY <1>1, <1>5, <2>1
  <2>3. Obj(Top)' = Append(Obj(Top), n + 1)
    BY <1>4, <2>1
  <2>4. \A l \in 1 .. Top : \A i \in 1 .. Len(Obj(l)) : Obj(l)[i] # n + 1
    BY <1>1, <1>5
  <2>5. \A l \in 1 .. Top : \A i \in 1 .. Len(Obj(l)) :
            i \in 1 .. Len(Obj(l)') /\ Obj(l)'[i] = Obj(l)[i]
    <3> SUFFICES ASSUME NEW l \in 1 .. Top, NEW i \in 1 .. Len(Obj(l))
                 PROVE  i \in 1 .. Len(Obj(l)') /\ Obj(l)'[i] = Obj(l)[i]
      OBVIOUS
    <3>1. CASE l = Top
      BY <1>4, <1>5, <2>1, <2>2, <2>3, <3>1
    <3>2. CASE l # Top
      BY <1>4, <3>2
    <3> QED
      BY <3>1, <3>2
  <2>6. \A l \in 1 .. Top : \A i \in 1 .. Len(Obj(l)') :
            \/ i \in 1 .. Len(Obj(l)) /\ Obj(l)'[i] = Obj(l)[i] /\ Obj(l)'[i] # n + 1
            \/ l = Top /\ i = Len(Obj(Top)) + 1 /\ Obj(l)'[i] = n + 1
    <3> SUFFICES ASSUME NEW l \in 1 .. Top, NEW i \in 1 .. Len(Obj(l)')
                 PROVE  \/ i \in 1 .. Len(Obj(l)) /\ Obj(l)'[i] = Obj(l)[i] /\ Obj(l)'[i] # n + 1
                        \/ l = Top /\ i = Len(Obj(Top)) + 1 /\ Obj(l)'[i] = n + 1
      OBVIOUS
    <3>1. CASE l # Top
      BY <1>4, <2>4, <3>1
    <3>2. CASE l = Top
      <4>1. i \in 1 .. Len(Obj(Top)) \/ i = Len(Obj(Top)) + 1
        BY <1>4, <1>5, <2>1, <2>2, <2>3, <3>2
      <4> QED
        BY <1>4, <2>1, <2>2, <2>3, <2>4, <3>2, <4>1
    <3> QED
      BY <3>1, <3>2
  <2> QED
    BY <2>2, <2>3, <2>5, <2>6
<1>7. Deck'
  <2>1. \A o \in Objects' : objects'[o].arg < o
    <3> SUFFICES ASSUME NEW o \in 1 .. n + 1
                 PROVE  objects'[o].arg < o
      BY <1>3
    <3>1. CASE o = n + 1
      BY <1>2, <1>3, <3>1
    <3>2. CASE o # n + 1
      <4>1. o \in 1 .. n
        BY <1>1, <3>2
      <4> QED
        BY <1>1, <1>3, <4>1 DEF Deck
    <3> QED
      BY <3>1, <3>2
  <2>2. \A l, m \in 1 .. Top' : \A i \in 1 .. Len(Obj(l)'), j \in 1 .. Len(Obj(m)') :
            Obj(l)'[i] = Obj(m)'[j] => l = m /\ i = j
    <3> SUFFICES ASSUME NEW l \in 1 .. Top, NEW m \in 1 .. Top,
                        NEW i \in 1 .. Len(Obj(l)'), NEW j \in 1 .. Len(Obj(m)'),
                        Obj(l)'[i] = Obj(m)'[j]
                 PROVE  l = m /\ i = j
      BY <1>4
    <3>1. CASE Obj(l)'[i] = n + 1
      BY <1>6, <3>1
    <3>2. CASE Obj(l)'[i] # n + 1
      <4>1. /\ i \in 1 .. Len(Obj(l)) /\ j \in 1 .. Len(Obj(m))
            /\ Obj(l)[i] = Obj(m)[j]
        BY <1>6, <3>2
      <4> QED
        BY <4>1 DEF Deck
    <3> QED
      BY <3>1, <3>2
  <2>3. \A o \in Objects' : \E l \in 1 .. Top' : \E i \in 1 .. Len(Obj(l)') : Obj(l)'[i] = o
    <3> SUFFICES ASSUME NEW o \in 1 .. n + 1
                 PROVE  \E l \in 1 .. Top : \E i \in 1 .. Len(Obj(l)') : Obj(l)'[i] = o
      BY <1>3, <1>4
    <3>1. CASE o = n + 1
      <4>1. Top \in 1 .. Top /\ Len(Obj(Top)) \in Nat
        BY <1>1, <1>5
      <4>2. Len(Obj(Top)) + 1 \in 1 .. Len(Obj(Top)')
        BY <1>6, <4>1
      <4>3. Obj(Top)'[Len(Obj(Top)) + 1] = o
        BY <1>6, <3>1
      <4>4. \E i \in 1 .. Len(Obj(Top)') : Obj(Top)'[i] = o
        BY <4>2, <4>3
      <4> QED
        BY <1>4, <4>1, <4>4
    <3>2. CASE o # n + 1
      <4>1. o \in Objects
        BY <1>1, <3>2
      <4>2. PICK l \in 1 .. Top : \E i \in 1 .. Len(Obj(l)) : Obj(l)[i] = o
        BY <4>1 DEF Deck
      <4> QED
        BY <1>6, <4>2
    <3> QED
      BY <3>1, <3>2
  <2> QED
    BY <1>1, <1>3, <1>4, <2>1, <2>2, <2>3 DEF Deck
<1>8. Counters'
  <2>1. step_cntr' = step_cntr
    BY DEF DefineObject
  <2> QED
    BY <1>4, <2>1 DEF Counters
<1>9. Values'
  <2>1. /\ value' = Append(value, NaN) /\ points' = Append(points, 0)
        /\ updates' = Append(updates, 0) /\ good' = Append(good, 0)
    BY DEF DefineObject
  <2>2. NaN \in Value /\ 0 \in Nat
    BY DEF Value
  <2>3. /\ value \in [1 .. n -> Value] /\ points \in [1 .. n -> Nat]
        /\ updates \in [1 .. n -> Nat] /\ good \in [1 .. n -> Nat]
    BY <1>1 DEF Values
  <2>4. /\ value' \in [Objects' -> Value] /\ points' \in [Objects' -> Nat]
        /\ updates' \in [Objects' -> Nat] /\ good' \in [Objects' -> Nat]
        /\ \A o \in 1 .. n + 1 : points'[o] = IF o <= n THEN points[o] ELSE 0
    <3>1. /\ value' \in [1 .. n + 1 -> Value]
          /\ points' \in [1 .. n + 1 -> Nat]
          /\ \A o \in 1 .. n + 1 : points'[o] = IF o <= n THEN points[o] ELSE 0
      <4>1. /\ Append(value, NaN) \in [1 .. n + 1 -> Value]
        BY <1>1, <2>2, <2>3, AppendFunction
      <4>2. /\ Append(points, 0) \in [1 .. n + 1 -> Nat]
            /\ \A o \in 1 .. n + 1 : Append(points, 0)[o] = IF o <= n THEN points[o] ELSE 0
        <5> DEFINE S == Nat
        <5>1. n \in Nat /\ points \in [1 .. n -> S] /\ 0 \in S
          BY <1>1, <2>2, <2>3
        <5> HIDE DEF S
        <5>2. /\ Append(points, 0) \in [1 .. n + 1 -> S]
              /\ \A o \in 1 .. n + 1 : Append(points, 0)[o] = IF o <= n THEN points[o] ELSE 0
          BY <5>1, AppendFunction
        <5> QED
          BY <5>2 DEF S
      <4> QED
        BY <2>1, <4>1, <4>2
    <3>2. updates' \in [1 .. n + 1 -> Nat]
      BY <1>1, <2>1, <2>2, <2>3, AppendFunction
    <3>3. good' \in [1 .. n + 1 -> Nat]
      BY <1>1, <2>1, <2>2, <2>3, AppendFunction
    <3> QED
      BY <1>3, <3>1, <3>2, <3>3
  <2>5. \A o \in Objects' : ~objects'[o].fit => points'[o] = 0
    <3> SUFFICES ASSUME NEW o \in 1 .. n + 1, ~objects'[o].fit
                 PROVE  points'[o] = 0
      BY <1>3
    <3>1. CASE o = n + 1
      BY <1>1, <2>4, <3>1
    <3>2. CASE o # n + 1
      <4>1. o \in 1 .. n /\ o <= n
        BY <1>1, <3>2
      <4> QED
        BY <1>1, <1>3, <2>4, <4>1 DEF Values
    <3> QED
      BY <3>1, <3>2
  <2> QED
    BY <2>4, <2>5 DEF Values
<1>10. pc = "parse" /\ pc' = "parse"
       /\ UNCHANGED <<lvl, next_obj, is_valid, sample, n_josim_runs, once, runs>>
  BY DEF DefineObject
<1>11. Control'
  BY <1>4, <1>10 DEF Control
<1> QED
  BY <1>7, <1>8, <1>9, <1>10, <1>11 DEF Final, Counts, Running

(***************************************************************************)
(* Running                                                                 *)
(***************************************************************************)
LEMMA DeckKept ==
    ASSUME Deck, UNCHANGED deckVars
    PROVE  /\ Deck' /\ Top' = Top /\ Objects' = Objects
           /\ \A l \in 1 .. Top : Obj(l)' = Obj(l) /\ levels'[l].steps = levels[l].steps
<1>1. levels' = levels /\ objects' = objects
  BY DEF deckVars
<1>2. Top' = Top /\ Objects' = Objects
  BY <1>1 DEF Top, Objects
<1>3. \A l \in 1 .. Top : Obj(l)' = Obj(l) /\ levels'[l].steps = levels[l].steps
  BY <1>1 DEF Obj
<1>4. levels' \in Seq(Level') /\ Top' > 0 /\ objects' \in Seq([fit : BOOLEAN, arg : Nat])
  <2>1. Level' = Level
    BY <1>2 DEF Level
  <2> QED
    BY <1>1, <1>2, <2>1 DEF Deck
<1>5. /\ \A o \in Objects : objects[o].arg < o
      /\ \A l, m \in 1 .. Top : \A i \in 1 .. Len(Obj(l)), j \in 1 .. Len(Obj(m)) :
             Obj(l)[i] = Obj(m)[j] => l = m /\ i = j
      /\ \A o \in Objects : \E l \in 1 .. Top : \E i \in 1 .. Len(Obj(l)) : Obj(l)[i] = o
  BY Zenon DEF Deck
<1>6. \A o \in Objects' : objects'[o].arg < o
  BY <1>1, <1>2, <1>5
<1>7. \A l, m \in 1 .. Top' : \A i \in 1 .. Len(Obj(l)'), j \in 1 .. Len(Obj(m)') :
          Obj(l)'[i] = Obj(m)'[j] => l = m /\ i = j
  BY <1>2, <1>3, <1>5
<1>8. \A o \in Objects' : \E l \in 1 .. Top' : \E i \in 1 .. Len(Obj(l)') : Obj(l)'[i] = o
  BY <1>2, <1>3, <1>5
<1>9. Deck'
  BY <1>4, <1>6, <1>7, <1>8 DEF Deck
<1> QED
  BY <1>2, <1>3, <1>9

LEMMA CountersKept ==
    ASSUME Deck, Counters, UNCHANGED deckVars, UNCHANGED step_cntr
    PROVE  Counters'
  BY DeckKept DEF Counters

LEMMA RunOnceInv ==
    ASSUME LoopInv, RunOnce
    PROVE  LoopInv'
<1> USE DEF LoopInv, Types
<1>1. /\ UNCHANGED <<step_cntr, value, points, updates, good, next_obj, is_valid>>
      /\ UNCHANGED <<sample, n_josim_runs>> /\ UNCHANGED deckVars
      /\ pc' = "initialize" /\ lvl' = Top /\ once' = once + 1 /\ once < MaxOnce /\ runs' = 0
  BY DEF RunOnce, valueVars
<1>2. Deck' /\ Top' = Top /\ Objects' = Objects
  BY <1>1, DeckKept
<1>3. Counters'
  BY <1>1, CountersKept
<1>4. Values'
  <2>1. objects' = objects
    BY <1>1 DEF deckVars
  <2> QED
    BY <1>1, <1>2, <2>1 DEF Values
<1>5. Control'
  <2>1. lvl' \in 1 .. Top'
    <3>1. Top \in Nat /\ Top > 0
      BY DEF Deck, Top
    <3> QED
      BY <1>1, <1>2, <3>1
  <2>2. once' \in 0 .. MaxOnce
    BY <1>1, LoopAssumption DEF Control
  <2> QED
    BY <1>1, <2>1, <2>2 DEF Control
<1>6. Final'
  BY <1>1 DEF Final
<1>7. Counts'
  <2>1. \A l \in 1 .. Top : ~(l > Top)
    BY DEF Deck, Top
  <2> QED
    BY <1>1, <1>2, <2>1 DEF Counts
<1> QED
  BY <1>2, <1>3, <1>4, <1>5, <1>6, <1>7

LEMMA InitializeLevelInv ==
    ASSUME LoopInv, InitializeLevel
    PROVE  LoopInv'
<1> USE DEF LoopInv, Types
<1>1. /\ UNCHANGED <<lvl, next_obj, is_valid, sample, n_josim_runs, once, runs>>
      /\ UNCHANGED deckVars /\ pc = "initialize" /\ pc' = "iterate" /\ lvl \in 1 .. Top
      /\ step_cntr' = [step_cntr EXCEPT ![lvl] = 0]
      /\ updates' = Cleared(updates, 0) /\ good' = Cleared(good, 0)
      /\ points' = Cleared(points, 0)
  BY DEF InitializeLevel, InitializeValues, RestartScan, Control
<1>2. /\ Deck' /\ Top' = Top /\ Objects' = Objects /\ objects' = objects
      /\ \A l \in 1 .. Top : Obj(l)' = Obj(l) /\ levels'[l].steps = levels[l].steps
  BY <1>1, DeckKept DEF deckVars
<1>3. /\ step_cntr' \in Seq(Nat) /\ Len(step_cntr') = Top
      /\ \A l \in 1 .. Top : step_cntr'[l] = IF l = lvl THEN 0 ELSE step_cntr[l]
  BY <1>1 DEF Counters
<1>4. Counters'
  <2>1. levels[lvl].steps \in Nat \ {0}
    BY <1>1, InDeck
  <2> QED
    BY <1>2, <1>3, <2>1 DEF Counters
<1>5. /\ updates' \in [Objects -> Nat] /\ good' \in [Objects -> Nat]
      /\ points' \in [Objects -> Nat]
      /\ \A o \in Objects : /\ updates'[o] = IF o \in HereSet THEN 0 ELSE updates[o]
                            /\ points'[o] = IF o \in HereSet THEN 0 ELSE points[o]
  BY <1>1 DEF Values, Cleared
<1>6. value' \in [Objects -> Value]
  <2>1. \A o \in Objects : InitialValue(o) \in Value
    BY DEF InitialValue, Value
  <2>2. value' = [o \in Objects |-> IF o \in HereSet THEN InitialValue(o) ELSE value[o]]
    BY DEF InitializeLevel, InitializeValues, Values
  <2> HIDE DEF LoopInv, Types
  <2>3. value \in [Objects -> Value]
    BY DEF Values, LoopInv, Types
  <2> QED
    BY <2>1, <2>2, <2>3
<1>7. Values'
  BY <1>2, <1>5, <1>6 DEF Values
<1>8. Control'
  BY <1>1, <1>2 DEF Control
<1>9. Final'
  BY <1>1 DEF Final
<1>10. Counts'
  <2> SUFFICES ASSUME NEW l \in 1 .. Top, NEW i \in 1 .. Len(Obj(l)), l > lvl \/ l = lvl
               PROVE  updates'[Obj(l)[i]] = step_cntr'[l]
    BY <1>1, <1>2 DEF Counts, Updated
  <2>1. Obj(l)[i] \in Objects
    BY InDeck
  <2>2. CASE l = lvl
    <3>1. Obj(l)[i] \in HereSet
      BY <1>1, <2>2, HereInDeck
    <3> QED
      BY <1>3, <1>5, <2>1, <2>2, <3>1
  <2>3. CASE l > lvl
    <3>1. l # lvl
      BY <1>1, <2>3
    <3>2. Obj(l)[i] \notin HereSet
      BY <1>1, <3>1, Elsewhere
    <3>3. updates[Obj(l)[i]] = step_cntr[l]
      BY <1>1, <2>3 DEF Counts, Updated, Running
    <3> QED
      BY <1>3, <1>5, <2>1, <3>1, <3>2, <3>3
  <2> QED
    BY <2>2, <2>3
<1> QED
  BY <1>2, <1>4, <1>7, <1>8, <1>9, <1>10

LEMMA IterateInv ==
    ASSUME LoopInv, Iterate
    PROVE  LoopInv'
<1> USE DEF LoopInv, Types
<1>1. /\ UNCHANGED <<step_cntr, value, points, updates, good, next_obj, sample>>
      /\ UNCHANGED <<n_josim_runs, once, runs>> /\ UNCHANGED deckVars
      /\ pc = "iterate" /\ lvl \in 1 .. Top
      /\ \/ lvl > 1 /\ lvl' = lvl - 1 /\ pc' = "initialize"
         \/ lvl = 1 /\ lvl' = 1 /\ pc' = "josim"
  <2>1. lvl \in 1 .. Top
    BY DEF Control
  <2> QED
    BY <2>1 DEF Iterate, valueVars, history
<1>2. /\ Deck' /\ Top' = Top /\ Objects' = Objects /\ objects' = objects
      /\ \A l \in 1 .. Top : Obj(l)' = Obj(l) /\ levels'[l].steps = levels[l].steps
  BY <1>1, DeckKept DEF deckVars
<1>3. Counters'
  BY <1>1, CountersKept
<1>4. Values'
  BY <1>1, <1>2 DEF Values
<1>5. Control'
  <2>1. is_valid' \in BOOLEAN
    BY Zenon DEF Iterate
  <2>2. lvl' \in 1 .. Top
    <3>1. Top \in Nat
      BY DEF Deck, Top
    <3>2. CASE lvl > 1 /\ lvl' = lvl - 1 /\ pc' = "initialize"
      BY <1>1, <3>1, <3>2
    <3>3. CASE lvl = 1 /\ lvl' = 1
      BY <1>1, <3>1, <3>3
    <3> QED
      BY <1>1, <3>2, <3>3
  <2> QED
    BY <1>1, <1>2, <2>1, <2>2 DEF Control
<1>6. Final'
  BY <1>1 DEF Final
<1>7. Counts'
  <2> SUFFICES ASSUME NEW l \in 1 .. Top, NEW i \in 1 .. Len(Obj(l)),
                      l > lvl' \/ (l = lvl' /\ pc' \in {"iterate", "josim"})
               PROVE  updates[Obj(l)[i]] = step_cntr[l]
    BY <1>1, <1>2 DEF Counts, Updated
  <2>1. l > lvl \/ l = lvl
    BY <1>1
  <2> QED
    BY <1>1, <2>1 DEF Counts, Updated, Running
<1> QED
  BY <1>2, <1>3, <1>4, <1>5, <1>6, <1>7

LEMMA RunJosimInv ==
    ASSUME LoopInv, NEW s \in {1, NaN}, RunJosim(s)
    PROVE  LoopInv'
<1> USE DEF LoopInv, Types
<1>1. /\ UNCHANGED <<step_cntr, value, points, updates, lvl, n_josim_runs, once>>
      /\ UNCHANGED deckVars /\ pc = "josim" /\ lvl = 1 /\ lvl \in 1 .. Top
      /\ pc' = "update" /\ is_valid' = TRUE /\ sample' = s /\ runs' = runs + 1
      /\ next_obj' = 1
      /\ good' = [o \in DOMAIN good |-> IF s = NaN THEN good[o] ELSE good[o] + 1]
  BY DEF RunJosim, valueVars, Control
<1>2. /\ Deck' /\ Top' = Top /\ Objects' = Objects /\ objects' = objects
      /\ \A l \in 1 .. Top : Obj(l)' = Obj(l) /\ levels'[l].steps = levels[l].steps
  BY <1>1, DeckKept DEF deckVars
<1>3. Counters'
  BY <1>1, CountersKept
<1>4. Values'
  <2>1. good' \in [Objects -> Nat]
    BY <1>1 DEF Values
  <2> QED
    BY <1>1, <1>2, <2>1 DEF Values
<1>5. Control'
  <2>1. is_valid' \in BOOLEAN /\ sample' \in {1, NaN}
    BY <1>1, Zenon
  <2>2. Len(Obj(lvl)) \in Nat
    BY <1>1, InDeck
  <2>3. next_obj' <= Len(Obj(lvl)') + 1
    BY <1>1, <1>2, <2>2
  <2> QED
    BY <1>1, <1>2, <2>1, <2>3 DEF Control
<1>6. Final'
  BY <1>1 DEF Final
<1>7. Counts'
  <2>1. \A l \in 1 .. Top : \A i \in 1 .. Len(Obj(l)) :
            l > lvl \/ l = lvl => updates[Obj(l)[i]] = step_cntr[l]
    BY <1>1 DEF Counts, Updated, Running
  <2>2. \A i \in 1 .. Len(Obj(lvl)) : ~(i < next_obj')
    BY <1>1
  <2> QED
    BY <1>1, <1>2, <2>1, <2>2 DEF Counts, Updated
<1> QED
  BY <1>2, <1>3, <1>4, <1>5, <1>6, <1>7

LEMMA JosimExitsInv ==
    ASSUME LoopInv, JosimExits
    PROVE  LoopInv'
<1> USE DEF LoopInv, Types
<1>1. /\ UNCHANGED <<lvl, step_cntr, value, points, updates, next_obj, is_valid, sample>>
      /\ UNCHANGED <<n_josim_runs, once, runs, good>> /\ UNCHANGED deckVars
      /\ pc' = "exited"
  BY DEF JosimExits, valueVars, history
<1>2. Deck' /\ Top' = Top /\ Objects' = Objects /\ objects' = objects
  BY <1>1, DeckKept DEF deckVars
<1>3. Counters'
  BY <1>1, CountersKept
<1>4. Values' /\ Control'
  BY <1>1, <1>2 DEF Values, Control
<1> QED
  BY <1>1, <1>2, <1>3, <1>4 DEF Final, Counts, Running

LEMMA UpdateObjectInv ==
    ASSUME LoopInv, UpdateObject
    PROVE  LoopInv'
<1> USE DEF LoopInv, Types
<1> DEFINE o == Obj(lvl)[next_obj]
<1>1. /\ UNCHANGED <<pc, lvl, step_cntr, is_valid, sample, n_josim_runs, once, runs, good>>
      /\ UNCHANGED deckVars /\ pc = "update" /\ lvl \in 1 .. Top
      /\ next_obj \in 1 .. Len(Obj(lvl)) /\ next_obj' = next_obj + 1
      /\ updates' = [updates EXCEPT ![o] = @ + 1] /\ AddDatum(o)
  <2>1. lvl \in 1 .. Top /\ next_obj \in Nat \ {0}
    BY DEF Control
  <2>2. Here = Obj(lvl) /\ Len(Obj(lvl)) \in Nat
    BY <2>1, HereInDeck, InDeck
  <2> QED
    BY <2>1, <2>2 DEF UpdateObject, history
<1>2. /\ Deck' /\ Top' = Top /\ Objects' = Objects /\ objects' = objects
      /\ \A l \in 1 .. Top : Obj(l)' = Obj(l) /\ levels'[l].steps = levels[l].steps
  BY <1>1, DeckKept DEF deckVars
<1>3. Counters'
  BY <1>1, CountersKept
<1>4. o \in Objects /\ Len(Obj(lvl)) \in Nat
  BY <1>1, InDeck
<1>5. \A l \in 1 .. Top : \A i \in 1 .. Len(Obj(l)) :
        Obj(l)[i] \in Objects /\ (Obj(l)[i] = o => l = lvl /\ i = next_obj)
  <2>1. \A l \in 1 .. Top : \A i \in 1 .. Len(Obj(l)) : Obj(l)[i] \in Objects
    BY InDeck
  <2>2. \A l, m \in 1 .. Top : \A i \in 1 .. Len(Obj(l)), j \in 1 .. Len(Obj(m)) :
            Obj(l)[i] = Obj(m)[j] => l = m /\ i = j
    BY Zenon DEF Deck
  <2> QED
    BY <1>1, <2>1, <2>2
<1> HIDE DEF o
<1>6. /\ updates' \in [Objects -> Nat]
      /\ \A p \in Objects : updates'[p] = IF p = o THEN updates[p] + 1 ELSE updates[p]
  BY <1>1, <1>4 DEF Values
<1>7. /\ value' \in [Objects -> Value] /\ points' \in [Objects -> Nat]
      /\ \A p \in Objects : ~objects[p].fit => points'[p] = 0
      /\ \A p \in Objects : p # o => points'[p] = points[p]
  <2> DEFINE v == Read(objects[o].arg)
  <2>1. value \in [Objects -> Value] /\ points \in [Objects -> Nat]
        /\ \A p \in Objects : ~objects[p].fit => points[p] = 0
    BY DEF Values
  <2>2. v \in Value
    <3>1. objects[o] \in [fit : BOOLEAN, arg : Nat]
      <4> DEFINE R == [fit : BOOLEAN, arg : Nat]
      <4>1. objects \in Seq(R)
        BY DEF Deck
      <4> HIDE DEF R
      <4>2. objects[o] \in R
        BY <1>4, <4>1 DEF Objects
      <4> QED
        BY <4>2 DEF R
    <3>2. objects[o].arg \in Nat /\ objects[o].arg < o /\ o \in 1 .. Len(objects)
      BY <1>4, <3>1 DEF Deck, Objects
    <3>3. CASE objects[o].arg = Sample
      BY <3>3 DEF Read, Control, Value, NaN
    <3>4. CASE objects[o].arg # Sample
      <4>1. objects[o].arg \in Objects
        <5>1. Len(objects) \in Nat
          BY DEF Deck
        <5> QED
          BY <3>2, <3>4, <5>1 DEF Objects, Sample
      <4> QED
        BY <2>1, <3>4, <4>1 DEF Read
    <3> QED
      BY <3>3, <3>4
  <2>3. \/ UNCHANGED <<value, points>>
        \/ /\ v # NaN /\ objects[o].fit /\ points' = [points EXCEPT ![o] = @ + 1]
           /\ value' = value
        \/ /\ v # NaN /\ ~objects[o].fit /\ value' = [value EXCEPT ![o] = @ + v]
           /\ points' = points
    BY <1>1 DEF AddDatum
  <2> HIDE DEF v
  <2>4. v # NaN => value[o] + v \in Value
    BY <1>4, <2>1, <2>2 DEF Value, NaN
  <2>5. CASE UNCHANGED <<value, points>>
    BY <2>1, <2>5
  <2>6. CASE /\ v # NaN /\ objects[o].fit /\ points' = [points EXCEPT ![o] = @ + 1]
             /\ value' = value
    BY <1>4, <2>1, <2>6
  <2>7. CASE /\ v # NaN /\ ~objects[o].fit /\ value' = [value EXCEPT ![o] = @ + v]
             /\ points' = points
    BY <1>4, <2>1, <2>4, <2>7
  <2> QED
    BY <2>3, <2>5, <2>6, <2>7
<1>8. Values'
  BY <1>1, <1>2, <1>6, <1>7 DEF Values
<1>9. Control'
  <2>1. next_obj' \in Nat \ {0} /\ next_obj' <= Len(Obj(lvl)') + 1
    BY <1>1, <1>2, <1>4
  <2> QED
    BY <1>1, <1>2, <2>1 DEF Control
<1>10. Final'
  <2> SUFFICES ASSUME NEW l \in 1 .. lvl - 1
               PROVE  /\ step_cntr[l] = levels[l].steps - 1
                      /\ \A i \in 1 .. Len(Obj(l)) : points'[Obj(l)[i]] = 0
    <3>1. is_valid
      BY <1>1 DEF Final
    <3>2. \A l \in 1 .. lvl - 1 : l \in 1 .. Top
      BY <1>1 DEF Deck, Top
    <3> QED
      BY <1>1, <1>2, <3>1, <3>2 DEF Final
  <2>1. l \in 1 .. Top /\ l # lvl
    BY <1>1 DEF Deck, Top
  <2>2. /\ step_cntr[l] = levels[l].steps - 1
        /\ \A i \in 1 .. Len(Obj(l)) : points[Obj(l)[i]] = 0
    BY <1>1 DEF Final
  <2> QED
    BY <1>5, <1>7, <2>1, <2>2
<1>11. Counts'
  <2>1. ASSUME NEW l \in 1 .. Top, NEW i \in 1 .. Len(Obj(l)), l > lvl
        PROVE  updates'[Obj(l)[i]] = step_cntr[l]
    <3>1. updates[Obj(l)[i]] = step_cntr[l]
      BY <1>1, <2>1 DEF Counts, Updated, Running
    <3>2. l # lvl
      BY <1>1, <2>1
    <3> QED
      BY <1>5, <1>6, <3>1, <3>2
  <2>2. ASSUME NEW i \in 1 .. Len(Obj(lvl))
        PROVE  updates'[Obj(lvl)[i]] = IF i < next_obj' THEN step_cntr[lvl] + 1 ELSE step_cntr[lvl]
    <3>1. updates[Obj(lvl)[i]] = IF i < next_obj THEN step_cntr[lvl] + 1 ELSE step_cntr[lvl]
      BY <1>1 DEF Counts, Updated, Running
    <3>2. Obj(lvl)[i] \in Objects /\ (Obj(lvl)[i] = o <=> i = next_obj)
      BY <1>1, <1>5 DEF o
    <3>3. CASE i = next_obj
      BY <1>1, <1>6, <3>1, <3>2, <3>3
    <3>4. CASE i # next_obj
      BY <1>1, <1>4, <1>6, <3>1, <3>2, <3>4
    <3> QED
      BY <3>3, <3>4
  <2> QED
    BY <1>1, <1>2, <2>1, <2>2 DEF Counts, Updated
<1> QED
  BY <1>2, <1>3, <1>8, <1>9, <1>10, <1>11

LEMMA EndOfBodyInv ==
    ASSUME LoopInv, EndOfBody
    PROVE  LoopInv'
<1> USE DEF LoopInv, Types
<1>1. /\ UNCHANGED <<lvl, value, points, updates, good, is_valid, sample, once, runs>>
      /\ UNCHANGED deckVars /\ pc = "update" /\ lvl \in 1 .. Top
      /\ next_obj \in Nat /\ next_obj > Len(Obj(lvl)) /\ next_obj' = 1
      /\ n_josim_runs' \in Nat
  <2>1. lvl \in 1 .. Top /\ next_obj \in Nat \ {0} /\ n_josim_runs \in Nat
    BY DEF Control
  <2>2. Here = Obj(lvl) /\ Len(Obj(lvl)) \in Nat
    BY <2>1, HereInDeck, InDeck
  <2> QED
    BY <2>1, <2>2 DEF EndOfBody, history, valueVars
<1>2. /\ Deck' /\ Top' = Top /\ Objects' = Objects /\ objects' = objects
      /\ \A l \in 1 .. Top : Obj(l)' = Obj(l) /\ levels'[l].steps = levels[l].steps
  BY <1>1, DeckKept DEF deckVars
<1>3. /\ step_cntr \in Seq(Nat) /\ Len(step_cntr) = Top
      /\ \A l \in 1 .. Top : step_cntr[l] \in Nat /\ step_cntr[l] < levels[l].steps
      /\ levels[lvl].steps \in Nat /\ Len(Obj(lvl)) \in Nat
  BY <1>1, InDeck DEF Counters
<1>4. \A i \in 1 .. Len(Obj(lvl)) : updates[Obj(lvl)[i]] = step_cntr[lvl] + 1
  BY <1>1, <1>3 DEF Counts, Updated, Running
<1>5. \A l \in 1 .. Top : \A i \in 1 .. Len(Obj(l)) :
          l > lvl => updates[Obj(l)[i]] = step_cntr[l]
  BY <1>1 DEF Counts, Updated, Running
<1>6. Values'
  BY <1>1, <1>2 DEF Values
<1>7. pc' \in {"finalize", "iterate"} => Control'
  <2>1. next_obj' <= Len(Obj(lvl)') + 1
    BY <1>1, <1>2, <1>3
  <2> QED
    BY <1>1, <1>2, <2>1 DEF Control
<1>8. CASE LoopComplete
  <2>1. pc' = "finalize" /\ step_cntr' = step_cntr
    BY <1>8 DEF EndOfBody
  <2>2. step_cntr[lvl] + 1 = levels[lvl].steps
    BY <1>1, <1>3, <1>8 DEF LoopComplete
  <2>3. Counters'
    BY <1>1, <2>1, CountersKept
  <2>4. Final'
    <3>1. \A l \in 1 .. lvl - 1 : l \in 1 .. Top
      BY <1>1 DEF Deck, Top
    <3>2. step_cntr[lvl] = levels[lvl].steps - 1
      BY <1>1, <1>3, <2>2
    <3>3. \A i \in 1 .. Len(Obj(lvl)) : ~(i < next_obj')
      BY <1>1, <1>3
    <3> QED
      BY <1>1, <1>2, <2>1, <3>1, <3>2, <3>3 DEF Final
  <2>5. Counts'
    BY <1>1, <1>2, <1>4, <1>5, <2>1, <2>2 DEF Counts, Updated
  <2> QED
    BY <1>2, <1>6, <1>7, <2>1, <2>3, <2>4, <2>5
<1>9. CASE ~LoopComplete
  <2>1. pc' = "iterate" /\ step_cntr' = [step_cntr EXCEPT ![lvl] = @ + 1]
    BY <1>9 DEF EndOfBody
  <2>2. step_cntr[lvl] + 1 < levels[lvl].steps
    BY <1>1, <1>3, <1>9 DEF LoopComplete
  <2>3. /\ step_cntr' \in Seq(Nat) /\ Len(step_cntr') = Top
        /\ \A l \in 1 .. Top : step_cntr'[l] = IF l = lvl THEN step_cntr[lvl] + 1 ELSE step_cntr[l]
    BY <1>1, <1>3, <2>1
  <2>4. Counters'
    BY <1>1, <1>2, <1>3, <2>2, <2>3 DEF Counters
  <2>5. Counts'
    <3>1. ASSUME NEW l \in 1 .. Top, NEW i \in 1 .. Len(Obj(l)), l > lvl \/ l = lvl
          PROVE  updates[Obj(l)[i]] = step_cntr'[l]
      <4>1. CASE l = lvl
        BY <1>4, <2>3, <4>1
      <4>2. CASE l # lvl
        BY <1>5, <2>3, <3>1, <4>2
      <4> QED
        BY <4>1, <4>2
    <3> QED
      BY <1>1, <1>2, <2>1, <3>1 DEF Counts, Updated
  <2> QED
    BY <1>2, <1>6, <1>7, <2>1, <2>4, <2>5 DEF Final
<1> QED
  BY <1>8, <1>9

LEMMA FinalizeObjectInv ==
    ASSUME LoopInv, FinalizeObject
    PROVE  LoopInv'
<1> USE DEF LoopInv, Types
<1> DEFINE o == Obj(lvl)[next_obj]
<1>1. /\ UNCHANGED <<pc, lvl, step_cntr, updates, is_valid, sample, n_josim_runs, once>>
      /\ UNCHANGED <<runs, good>> /\ UNCHANGED deckVars
      /\ pc = "finalize" /\ lvl \in 1 .. Top
      /\ next_obj \in 1 .. Len(Obj(lvl)) /\ next_obj' = next_obj + 1
      /\ IF objects[o].fit
         THEN /\ \E v \in Solutions(o) : value' = [value EXCEPT ![o] = v]
              /\ points' = [points EXCEPT ![o] = 0]
         ELSE UNCHANGED <<value, points>>
  <2>1. lvl \in 1 .. Top /\ next_obj \in Nat \ {0}
    BY DEF Control
  <2>2. Here = Obj(lvl) /\ Len(Obj(lvl)) \in Nat
    BY <2>1, HereInDeck, InDeck
  <2> QED
    BY <2>1, <2>2 DEF FinalizeObject, history
<1>2. /\ Deck' /\ Top' = Top /\ Objects' = Objects /\ objects' = objects
      /\ \A l \in 1 .. Top : Obj(l)' = Obj(l) /\ levels'[l].steps = levels[l].steps
  BY <1>1, DeckKept DEF deckVars
<1>3. Counters'
  BY <1>1, CountersKept
<1>4. o \in Objects /\ Len(Obj(lvl)) \in Nat
  BY <1>1, InDeck
<1>5. \A l \in 1 .. Top : \A i \in 1 .. Len(Obj(l)) :
        Obj(l)[i] \in Objects /\ (l = lvl /\ i = next_obj => Obj(l)[i] = o)
  BY <1>1, InDeck
<1> HIDE DEF o
<1>6. /\ value \in [Objects -> Value] /\ points \in [Objects -> Nat]
      /\ \A p \in Objects : ~objects[p].fit => points[p] = 0
  BY DEF Values
<1>7. Solutions(o) \subseteq Value
  BY <1>4, <1>6 DEF Solutions, Value
<1>8. value' \in [Objects -> Value]
  BY <1>1, <1>4, <1>6, <1>7
<1>9. points' \in [Objects -> Nat] /\ points'[o] = 0
      /\ \A p \in Objects : points'[p] = points[p] \/ points'[p] = 0
  BY <1>1, <1>4, <1>6
<1>10. Values'
  BY <1>1, <1>2, <1>6, <1>8, <1>9 DEF Values
<1>11. Control'
  <2>1. next_obj' \in Nat \ {0} /\ next_obj' <= Len(Obj(lvl)') + 1
    BY <1>1, <1>2, <1>4
  <2> QED
    BY <1>1, <1>2, <2>1 DEF Control
<1>12. Final'
  <2>1. is_valid /\ step_cntr[lvl] = levels[lvl].steps - 1
    BY <1>1 DEF Final
  <2>2. ASSUME NEW l \in 1 .. lvl - 1
        PROVE  /\ l \in 1 .. Top /\ step_cntr[l] = levels[l].steps - 1
               /\ \A i \in 1 .. Len(Obj(l)) : points'[Obj(l)[i]] = 0
    <3>1. l \in 1 .. Top
      BY <1>1 DEF Deck, Top
    <3>2. /\ step_cntr[l] = levels[l].steps - 1
          /\ \A i \in 1 .. Len(Obj(l)) : points[Obj(l)[i]] = 0
      BY <1>1 DEF Final
    <3> QED
      BY <1>5, <1>9, <3>1, <3>2
  <2>3. ASSUME NEW i \in 1 .. Len(Obj(lvl)), i < next_obj'
        PROVE  points'[Obj(lvl)[i]] = 0
    <3>1. CASE i = next_obj
      BY <1>1, <1>5, <1>9, <3>1
    <3>2. CASE i # next_obj
      <4>1. i < next_obj
        BY <1>1, <1>4, <2>3, <3>2
      <4>2. points[Obj(lvl)[i]] = 0
        BY <1>1, <4>1 DEF Final
      <4> QED
        BY <1>1, <1>5, <1>9, <4>2
    <3> QED
      BY <3>1, <3>2
  <2> QED
    BY <1>1, <1>2, <2>1, <2>2, <2>3 DEF Final
<1>13. Counts'
  BY <1>1, <1>2 DEF Counts, Updated, Running
<1> QED
  BY <1>2, <1>3, <1>10, <1>11, <1>12, <1>13

LEMMA ReturnFromLevelInv ==
    ASSUME LoopInv, ReturnFromLevel
    PROVE  LoopInv'
<1> USE DEF LoopInv, Types
<1>1. /\ UNCHANGED <<step_cntr, value, points, updates, good, is_valid, sample, once>>
      /\ UNCHANGED <<n_josim_runs, runs>> /\ UNCHANGED deckVars
      /\ pc = "finalize" /\ lvl \in 1 .. Top /\ Top \in Nat
      /\ next_obj \in Nat /\ next_obj > Len(Obj(lvl)) /\ next_obj' = 1
      /\ \/ lvl = Top /\ pc' = "returned" /\ lvl' = lvl
         \/ lvl # Top /\ pc' = "update" /\ lvl' = lvl + 1
  <2>1. lvl \in 1 .. Top /\ next_obj \in Nat \ {0}
    BY DEF Control
  <2>2. Here = Obj(lvl) /\ Len(Obj(lvl)) \in Nat
    BY <2>1, HereInDeck, InDeck
  <2>3. Top \in Nat
    BY DEF Deck, Top
  <2> QED
    BY <2>1, <2>2, <2>3 DEF ReturnFromLevel, history, valueVars
<1>2. /\ Deck' /\ Top' = Top /\ Objects' = Objects /\ objects' = objects
      /\ \A l \in 1 .. Top : Obj(l)' = Obj(l) /\ levels'[l].steps = levels[l].steps
  BY <1>1, DeckKept DEF deckVars
<1>3. Counters'
  BY <1>1, CountersKept
<1>4. Values'
  BY <1>1, <1>2 DEF Values
<1>5. CASE lvl = Top /\ pc' = "returned" /\ lvl' = lvl
  <2>1. Control'
    BY <1>1, <1>2, <1>5 DEF Control
  <2> QED
    BY <1>2, <1>3, <1>4, <1>5, <2>1 DEF Final, Counts, Running
<1>6. CASE lvl # Top /\ pc' = "update" /\ lvl' = lvl + 1
  <2>1. lvl' \in 1 .. Top
    BY <1>1, <1>6
  <2>2. Len(Obj(lvl')) \in Nat /\ Len(Obj(lvl)) \in Nat
    BY <1>1, <2>1, InDeck
  <2> DEFINE m == lvl + 1
  <2>3. m \in 1 .. Top /\ m > lvl /\ lvl' = m
    BY <1>1, <1>6
  <2>4. Len(Obj(m)) \in Nat /\ Obj(lvl)' = levels'[m].objects /\ levels' = levels
    BY <1>1, <2>3, InDeck DEF Obj, deckVars
  <2>5. Obj(lvl)' = Obj(m)
    BY <2>4 DEF Obj
  <2> HIDE DEF m
  <2>6. Control'
    BY <1>1, <1>2, <1>6, <2>3, <2>4, <2>5 DEF Control
  <2>7. Final'
    <3>1. is_valid
      BY <1>1 DEF Final
    <3>2. ASSUME NEW l \in 1 .. m - 1
          PROVE  /\ l \in 1 .. Top /\ step_cntr[l] = levels[l].steps - 1
                 /\ \A i \in 1 .. Len(Obj(l)) : points[Obj(l)[i]] = 0
      <4>1. CASE l = lvl
        <5>1. \A i \in 1 .. Len(Obj(lvl)) : i < next_obj
          BY <1>1, <2>2
        <5> QED
          BY <1>1, <4>1, <5>1 DEF Final
      <4>2. CASE l # lvl
        <5>1. l \in 1 .. lvl - 1 /\ l \in 1 .. Top
          BY <1>1, <2>3, <4>2 DEF m
        <5> QED
          BY <1>1, <5>1 DEF Final
      <4> QED
        BY <4>1, <4>2
    <3> QED
      BY <1>1, <1>2, <1>6, <2>3, <3>1, <3>2 DEF Final
  <2>8. Counts'
    <3>1. \A l \in 1 .. Top : \A i \in 1 .. Len(Obj(l)) :
              l > lvl => updates[Obj(l)[i]] = step_cntr[l]
      BY <1>1 DEF Counts, Updated, Running
    <3>2. \A l \in 1 .. Top : l > m => l > lvl
      BY <1>1 DEF m
    <3>3. \A i \in 1 .. Len(Obj(m)) : ~(i < next_obj')
      BY <1>1, <2>4
    <3>4. \A i \in 1 .. Len(Obj(m)) : updates[Obj(m)[i]] = step_cntr[m]
      BY <2>3, <3>1
    <3>5. \A l \in 1 .. Top : \A i \in 1 .. Len(Obj(l)) :
              l > m => updates[Obj(l)[i]] = step_cntr[l]
      BY <3>1, <3>2
    <3> QED
      BY <1>1, <1>2, <1>6, <2>3, <2>5, <3>3, <3>4, <3>5 DEF Counts, Updated
  <2> QED
    BY <1>2, <1>3, <1>4, <2>6, <2>7, <2>8
<1> QED
  BY <1>1, <1>5, <1>6

LEMMA NextInv == LoopInv /\ [Next]_vars => LoopInv'
<1> SUFFICES ASSUME LoopInv, [Next]_vars
             PROVE  LoopInv'
  OBVIOUS
<1>1. CASE \E n \in ScanSteps : DefineScan(n)
  BY <1>1, DefineScanInv
<1>2. CASE \E fit \in BOOLEAN, arg \in {Sample} \cup Objects : DefineObject(fit, arg)
  BY <1>2, DefineObjectInv
<1>3. CASE RunOnce
  BY <1>3, RunOnceInv
<1>4. CASE Run
  <2>1. CASE \E s \in {1, NaN} : RunJosim(s)
    BY <2>1, RunJosimInv
  <2> QED
    BY <1>4, <2>1, InitializeLevelInv, IterateInv, JosimExitsInv, UpdateObjectInv,
       EndOfBodyInv, FinalizeObjectInv, ReturnFromLevelInv DEF Run
<1>5. CASE UNCHANGED vars
  <2>1. /\ UNCHANGED <<pc, lvl, step_cntr, value, points, updates, next_obj, is_valid>>
        /\ UNCHANGED <<sample, n_josim_runs, once, runs, good>> /\ UNCHANGED deckVars
    BY <1>5 DEF vars, valueVars, history
  <2>2. /\ Deck' /\ Top' = Top /\ Objects' = Objects /\ objects' = objects
        /\ levels' = levels /\ Counters'
    BY <2>1, DeckKept, CountersKept DEF deckVars, LoopInv, Types
  <2>3. Values' /\ Control'
    BY <2>1, <2>2 DEF Values, Control, LoopInv, Types, Obj
  <2>4. Final' /\ Counts'
    BY <2>1, <2>2 DEF Final, Counts, Updated, Running, LoopInv, Obj
  <2> QED
    BY <2>2, <2>3, <2>4 DEF LoopInv, Types
<1> QED
  BY <1>1, <1>2, <1>3, <1>4, <1>5 DEF Next, Ended

LEMMA InvAlways == Spec => []LoopInv
  BY InitTypes, NextInv, PTL DEF Spec

\* Type correctness of the oracle, its deck and what it drives
\* (loop_complex.cpp).
THEOREM LoopTypeCorrect == Spec => []LoopTypeOK
<1>1. LoopInv => LoopTypeOK
  BY DEF LoopInv, Types, Deck, Counters, Values, Control, LoopTypeOK, Level
<1> QED
  BY <1>1, InvAlways, PTL

\* run_this_level() updates the objects of a level only when every level below
\* has come to the end of its loop and solved its fits (loop_complex.cpp).
THEOREM UpdatesAlwaysSeeFinal == Spec => []UpdatesSeeFinalResults
<1>1. LoopInv => UpdatesSeeFinalResults
  <2> SUFFICES ASSUME LoopInv, pc = "update"
               PROVE  /\ is_valid
                      /\ \A l \in 1 .. lvl - 1 :
                            /\ step_cntr[l] = levels[l].steps - 1
                            /\ \A i \in DOMAIN levels[l].objects :
                                  points[levels[l].objects[i]] = 0
    BY DEF UpdatesSeeFinalResults
  <2>1. Deck /\ lvl \in 1 .. Top /\ Top \in Nat
    <3>1. Deck /\ lvl \in 1 .. Top
      BY DEF LoopInv, Types, Control
    <3> QED
      BY <3>1 DEF Deck, Top
  <2>2. \A l \in 1 .. lvl - 1 : l \in 1 .. Top
    BY <2>1
  <2>3. \A l \in 1 .. lvl - 1 : DOMAIN levels[l].objects = 1 .. Len(Obj(l))
    BY <2>1, <2>2, InDeck DEF Obj
  <2> QED
    BY <2>3 DEF LoopInv, Final, Obj
<1> QED
  BY <1>1, InvAlways, PTL

\* Between its initialization and its finalization an object is updated once for
\* each turn of the loop of its own level (loop_complex.cpp).
THEOREM OneUpdateAlways == Spec => []OneUpdatePerIteration
<1>1. LoopInv => OneUpdatePerIteration
  <2> SUFFICES ASSUME LoopInv, pc = "finalize", NEW o \in HereSet
               PROVE  updates[o] = levels[lvl].steps
    BY DEF OneUpdatePerIteration
  <2>1. Deck /\ lvl \in 1 .. Top
    BY DEF LoopInv, Types, Control
  <2>2. PICK i \in 1 .. Len(Obj(lvl)) : o = Obj(lvl)[i]
    BY <2>1, HereInDeck
  <2> QED
    BY <2>2 DEF LoopInv, Counts, Updated, Running
<1> QED
  BY <1>1, InvAlways, PTL

(***************************************************************************)
(* Sums                                                                    *)
(***************************************************************************)
SampleSum(o) == ~objects[o].fit /\ objects[o].arg = Sample
Pending == IF sample = 1 THEN 1 ELSE 0

\* A sum o over the samples, at position i of the innermost level.
SampleSumExact(o, i) ==
    /\ lvl = 1 /\ pc \in {"iterate", "josim", "finalize"} => value[o] = good[o]
    /\ lvl = 1 /\ pc = "update" =>
          value[o] + (IF i < next_obj THEN 0 ELSE Pending) = good[o]
    /\ lvl = 2 /\ pc = "update" => value[o] = good[o]

\* A sum o over such a sum s, at position i of the level above: what s counts
\* is added when the innermost level has come to its end.
SumOfSumExact(o, s, i) ==
    /\ lvl = 1 /\ pc = "initialize" => value[o] = good[o]
    /\ lvl = 1 /\ pc \in {"iterate", "josim", "update", "finalize"} =>
          value[o] + good[s] = good[o]
    /\ lvl = 2 /\ pc \in {"iterate", "finalize"} => value[o] = good[o]
    /\ lvl = 2 /\ pc = "update" =>
          value[o] + (IF i < next_obj THEN 0 ELSE good[s]) = good[o]

IsInner(o, i) == i \in 1 .. Len(Obj(1)) /\ Obj(1)[i] = o /\ SampleSum(o)
IsOuter(o, s, i, j) ==
    /\ Top > 1 /\ i \in 1 .. Len(Obj(2)) /\ Obj(2)[i] = o
    /\ ~objects[o].fit /\ objects[o].arg = s /\ IsInner(s, j)

Sums ==
    /\ \A o \in Objects : \A i \in Nat : IsInner(o, i) => SampleSumExact(o, i)
    /\ \A o, s \in Objects : \A i, j \in Nat :
          IsOuter(o, s, i, j) => SumOfSumExact(o, s, i)

LEMMA InnerOuter ==
    ASSUME Deck, UNCHANGED deckVars, NEW o, NEW s, NEW i, NEW j
    PROVE  /\ IsInner(o, i)' <=> IsInner(o, i)
           /\ IsOuter(o, s, i, j)' <=> IsOuter(o, s, i, j)
<1>1. levels' = levels /\ objects' = objects
  BY DEF deckVars
<1> QED
  BY <1>1 DEF IsInner, IsOuter, SampleSum, Obj, Top

LEMMA SumsStep ==
    ASSUME Deck, UNCHANGED deckVars,
           \A o \in Objects : \A i \in Nat : IsInner(o, i) => SampleSumExact(o, i)',
           \A o, s \in Objects : \A i, j \in Nat :
               IsOuter(o, s, i, j) => SumOfSumExact(o, s, i)'
    PROVE  Sums'
<1>1. Objects' = Objects
  BY DeckKept
<1> QED
  BY <1>1, InnerOuter DEF Sums

\* What an inner sum and an outer sum are to the level being run.
LEMMA InnerIn ==
    ASSUME Types, NEW o \in Objects, NEW i \in Nat, IsInner(o, i)
    PROVE  /\ ~objects[o].fit /\ objects[o].arg = Sample
           /\ i \in 1 .. Len(Obj(1)) /\ o = Obj(1)[i]
           /\ value[o] \in Int /\ good[o] \in Nat
           /\ lvl = 1 => o \in HereSet
           /\ lvl # 1 => /\ o \notin HereSet
                         /\ \A n \in 1 .. Len(Obj(lvl)) : o # Obj(lvl)[n]
<1>1. /\ ~objects[o].fit /\ objects[o].arg = Sample
      /\ i \in 1 .. Len(Obj(1)) /\ o = Obj(1)[i]
  BY DEF IsInner, SampleSum
<1>2. value[o] \in Int /\ good[o] \in Nat
  BY DEF Types, Values, Value, NaN
<1>3. Deck /\ lvl \in 1 .. Top /\ 1 \in 1 .. Top
  <2>1. Deck /\ lvl \in 1 .. Top
    BY DEF Types, Control
  <2>2. Top \in Nat /\ Top > 0
    BY <2>1 DEF Deck, Top
  <2> QED
    BY <2>1, <2>2
<1>4. lvl = 1 => o \in HereSet
  BY <1>1, <1>3, HereInDeck
<1>5. lvl # 1 => /\ o \notin HereSet
                 /\ \A n \in 1 .. Len(Obj(lvl)) : o # Obj(lvl)[n]
  BY <1>1, <1>3, Elsewhere
<1> QED
  BY <1>1, <1>2, <1>4, <1>5

LEMMA OuterIn ==
    ASSUME Types, NEW o \in Objects, NEW s \in Objects, NEW i \in Nat, NEW j \in Nat,
           IsOuter(o, s, i, j)
    PROVE  /\ ~objects[o].fit /\ objects[o].arg = s /\ s # Sample /\ Top > 1
           /\ i \in 1 .. Len(Obj(2)) /\ o = Obj(2)[i]
           /\ value[o] \in Int /\ good[o] \in Nat
           /\ lvl = 2 => o \in HereSet
           /\ lvl # 2 => /\ o \notin HereSet
                         /\ \A n \in 1 .. Len(Obj(lvl)) : o # Obj(lvl)[n]
<1>1. /\ ~objects[o].fit /\ objects[o].arg = s /\ Top > 1
      /\ i \in 1 .. Len(Obj(2)) /\ o = Obj(2)[i]
  BY DEF IsOuter
<1>2. value[o] \in Int /\ good[o] \in Nat
  BY DEF Types, Values, Value, NaN
<1>3. s # Sample
  <2>1. Len(objects) \in Nat
    BY DEF Types, Deck
  <2> QED
    BY <2>1 DEF Objects, Sample
<1>4. Deck /\ lvl \in 1 .. Top /\ 2 \in 1 .. Top
  <2>1. Deck /\ lvl \in 1 .. Top
    BY DEF Types, Control
  <2>2. Top \in Nat /\ Top > 0
    BY <2>1 DEF Deck, Top
  <2> QED
    BY <1>1, <2>1, <2>2
<1>5. lvl = 2 => o \in HereSet
  BY <1>1, <1>4, HereInDeck
<1>6. lvl # 2 => /\ o \notin HereSet
                 /\ \A n \in 1 .. Len(Obj(lvl)) : o # Obj(lvl)[n]
  BY <1>1, <1>4, Elsewhere
<1> QED
  BY <1>1, <1>2, <1>3, <1>5, <1>6

LEMMA InnerNow ==
    ASSUME Sums, NEW o \in Objects, NEW i \in Nat, IsInner(o, i)
    PROVE  SampleSumExact(o, i)
  BY DEF Sums

LEMMA OuterNow ==
    ASSUME Sums, NEW o \in Objects, NEW s \in Objects, NEW i \in Nat, NEW j \in Nat,
           IsOuter(o, s, i, j)
    PROVE  SumOfSumExact(o, s, i) /\ IsInner(s, j) /\ SampleSumExact(s, j)
  BY DEF Sums, IsOuter

\* Nothing is summed while the deck is read, and after run_once() has ended.
LEMMA SumsIdle ==
    ASSUME pc' \in {"parse", "returned", "exited"}
    PROVE  Sums'
  BY DEF Sums, SampleSumExact, SumOfSumExact

LEMMA SumsRunOnce ==
    ASSUME LoopInv, Sums, RunOnce
    PROVE  Sums'
<1>1. Deck /\ UNCHANGED deckVars /\ pc' = "initialize" /\ lvl' = Top
  BY DEF RunOnce, LoopInv, Types
<1>2. \A o, s \in Objects : \A i, j \in Nat :
          IsOuter(o, s, i, j) => SumOfSumExact(o, s, i)'
  BY <1>1 DEF IsOuter, SumOfSumExact
<1>3. \A o \in Objects : \A i \in Nat : IsInner(o, i) => SampleSumExact(o, i)'
  BY <1>1 DEF SampleSumExact
<1> QED
  BY <1>1, <1>2, <1>3, SumsStep

LEMMA SumsInitialize ==
    ASSUME LoopInv, Sums, InitializeLevel
    PROVE  Sums'
<1>1. /\ Types /\ Deck /\ UNCHANGED deckVars /\ pc = "initialize" /\ pc' = "iterate"
      /\ lvl' = lvl
      /\ value' = [o \in Objects |-> IF o \in HereSet THEN InitialValue(o) ELSE value[o]]
      /\ good' = [o \in Objects |-> IF o \in HereSet THEN 0 ELSE good[o]]
  BY DEF InitializeLevel, InitializeValues, Cleared, LoopInv, Types, Values
<1>2. \A o \in Objects :
        /\ o \in HereSet /\ ~objects[o].fit => value'[o] = 0
        /\ o \notin HereSet => value'[o] = value[o]
        /\ good'[o] = IF o \in HereSet THEN 0 ELSE good[o]
  BY <1>1 DEF InitialValue
<1>3. ASSUME NEW o \in Objects, NEW i \in Nat, IsInner(o, i)
      PROVE  SampleSumExact(o, i)'
  <2>1. lvl = 1 => value'[o] = good'[o]
    BY <1>1, <1>2, <1>3, InnerIn
  <2> QED
    BY <1>1, <2>1 DEF SampleSumExact
<1>4. ASSUME NEW o \in Objects, NEW s \in Objects, NEW i \in Nat, NEW j \in Nat,
             IsOuter(o, s, i, j)
      PROVE  SumOfSumExact(o, s, i)'
  <2>1. IsInner(s, j) /\ SumOfSumExact(o, s, i)
    BY <1>4, OuterNow
  <2>2. /\ ~objects[o].fit /\ good[o] \in Nat
        /\ lvl = 1 => s \in HereSet /\ o \notin HereSet
        /\ lvl = 2 => o \in HereSet
    BY <1>1, <1>4, <2>1, InnerIn, OuterIn
  <2>3. lvl = 1 => value'[o] + good'[s] = good'[o]
    BY <1>1, <1>2, <2>1, <2>2 DEF SumOfSumExact
  <2>4. lvl = 2 => value'[o] = good'[o]
    BY <1>2, <2>2
  <2> QED
    BY <1>1, <2>3, <2>4 DEF SumOfSumExact
<1> QED
  BY <1>1, <1>3, <1>4, SumsStep

LEMMA SumsIterate ==
    ASSUME LoopInv, Sums, Iterate
    PROVE  Sums'
<1>1. /\ Deck /\ UNCHANGED deckVars /\ UNCHANGED <<value, good>> /\ pc = "iterate"
      /\ lvl \in 1 .. Top
      /\ \/ lvl > 1 /\ lvl' = lvl - 1 /\ pc' = "initialize"
         \/ lvl = 1 /\ lvl' = 1 /\ pc' = "josim"
  <2>1. Deck /\ lvl \in 1 .. Top
    BY DEF LoopInv, Types, Control
  <2> QED
    BY <2>1 DEF Iterate, history, valueVars
<1>2. lvl \in Nat
  BY <1>1 DEF Deck, Top
<1>3. ASSUME NEW o \in Objects, NEW i \in Nat, IsInner(o, i)
      PROVE  SampleSumExact(o, i)'
  BY <1>1, <1>3, InnerNow DEF SampleSumExact
<1>4. ASSUME NEW o \in Objects, NEW s \in Objects, NEW i \in Nat, NEW j \in Nat,
             IsOuter(o, s, i, j)
      PROVE  SumOfSumExact(o, s, i)'
  <2>1. SumOfSumExact(o, s, i)
    BY <1>4, OuterNow
  <2>2. CASE lvl > 1 /\ lvl' = lvl - 1 /\ pc' = "initialize"
    <3>1. lvl' = 1 => lvl = 2
      BY <1>2, <2>2
    <3> QED
      BY <1>1, <2>1, <2>2, <3>1 DEF SumOfSumExact
  <2>3. CASE lvl = 1 /\ lvl' = 1 /\ pc' = "josim"
    BY <1>1, <2>1, <2>3 DEF SumOfSumExact
  <2> QED
    BY <1>1, <2>2, <2>3
<1> QED
  BY <1>1, <1>3, <1>4, SumsStep

LEMMA SumsRunJosim ==
    ASSUME LoopInv, Sums, NEW x \in {1, NaN}, RunJosim(x)
    PROVE  Sums'
<1> DEFINE one == IF x = 1 THEN 1 ELSE 0
<1>1. /\ Types /\ Deck /\ UNCHANGED deckVars /\ UNCHANGED value
      /\ pc = "josim" /\ lvl = 1 /\ lvl' = 1 /\ pc' = "update"
      /\ sample' = x /\ next_obj' = 1
      /\ good' = [o \in Objects |-> IF x = NaN THEN good[o] ELSE good[o] + 1]
  BY DEF RunJosim, valueVars, LoopInv, Types, Control, Values
<1>2. /\ \A o \in Objects : good'[o] = good[o] + one
      /\ Pending' = one /\ one \in Nat
  <2>1. x = NaN <=> x # 1
    BY DEF NaN
  <2>2. \A o \in Objects : good[o] \in Nat
    BY <1>1 DEF Types, Values
  <2> QED
    BY <1>1, <2>1, <2>2 DEF Pending
<1> HIDE DEF one
<1>3. ASSUME NEW o \in Objects, NEW i \in Nat, IsInner(o, i)
      PROVE  SampleSumExact(o, i)'
  <2>1. value[o] = good[o] /\ value[o] \in Int /\ good[o] \in Nat
    BY <1>1, <1>3, InnerNow, InnerIn DEF SampleSumExact
  <2>2. ~(i < next_obj')
    <3>1. i \in 1 .. Len(Obj(1))
      BY <1>3 DEF IsInner
    <3> QED
      BY <1>1, <3>1
  <2>3. value[o] + Pending' = good'[o]
    BY <1>2, <2>1
  <2> QED
    BY <1>1, <2>2, <2>3 DEF SampleSumExact
<1>4. ASSUME NEW o \in Objects, NEW s \in Objects, NEW i \in Nat, NEW j \in Nat,
             IsOuter(o, s, i, j)
      PROVE  SumOfSumExact(o, s, i)'
  <2>1. SumOfSumExact(o, s, i) /\ IsInner(s, j)
    BY <1>4, OuterNow
  <2>2. value[o] + good[s] = good[o]
    BY <1>1, <2>1 DEF SumOfSumExact
  <2>3. value[o] \in Int /\ good[o] \in Nat /\ good[s] \in Nat
    BY <1>1, <1>4, <2>1, InnerIn, OuterIn
  <2>4. value[o] + good'[s] = good'[o]
    BY <1>2, <2>2, <2>3
  <2> QED
    BY <1>1, <2>4 DEF SumOfSumExact
<1> QED
  BY <1>1, <1>3, <1>4, SumsStep

LEMMA SumsUpdate ==
    ASSUME LoopInv, Sums, UpdateObject
    PROVE  Sums'
<1> DEFINE n == next_obj
           p == Obj(lvl)[n]
<1>1. /\ Types /\ Deck /\ UNCHANGED deckVars /\ UNCHANGED <<pc, lvl, good, sample>>
      /\ pc = "update" /\ lvl \in 1 .. Top /\ is_valid
      /\ n \in 1 .. Len(Obj(lvl)) /\ next_obj' = n + 1 /\ AddDatum(p)
  <2>1. Types /\ lvl \in 1 .. Top /\ next_obj \in Nat \ {0} /\ pc = "update"
    BY DEF LoopInv, Types, Control, UpdateObject
  <2>2. Here = Obj(lvl) /\ Len(Obj(lvl)) \in Nat /\ is_valid
    BY <2>1, HereInDeck, InDeck DEF LoopInv, Final, Types
  <2> QED
    BY <2>1, <2>2 DEF UpdateObject, history, Types
<1>2. p \in Objects
  BY <1>1, InDeck
<1>3. /\ \A o \in Objects : o # p => value'[o] = value[o]
      /\ ~objects[p].fit => value'[p] = LET v == Read(objects[p].arg)
                                        IN  IF v = NaN THEN value[p] ELSE value[p] + v
  <2>1. value \in [Objects -> Value]
    BY <1>1 DEF Types, Values
  <2> HIDE DEF p
  <2> QED
    BY <1>1, <1>2, <2>1 DEF AddDatum
<1>4. ASSUME NEW o \in Objects, NEW i \in Nat, IsInner(o, i)
      PROVE  SampleSumExact(o, i)'
  <2>1. SampleSumExact(o, i)
    BY <1>4, InnerNow
  <2>2. /\ ~objects[o].fit /\ objects[o].arg = Sample /\ i \in 1 .. Len(Obj(1))
        /\ o = Obj(1)[i] /\ value[o] \in Int /\ good[o] \in Nat
        /\ lvl # 1 => o # p
    BY <1>1, <1>4, InnerIn
  <2>3. CASE lvl = 1
    <3>1. o = p <=> i = n
      BY <1>1, <2>2, <2>3 DEF Deck
    <3>2. value[o] + (IF i < n THEN 0 ELSE Pending) = good[o]
      BY <1>1, <2>1, <2>3 DEF SampleSumExact
    <3>3. CASE i = n
      <4>1. Read(objects[o].arg) = sample /\ sample \in {1, NaN}
        BY <1>1, <2>2 DEF Read, Types, Control
      <4>2. value'[o] = IF sample = NaN THEN value[o] ELSE value[o] + sample
        BY <1>3, <2>2, <3>1, <3>3, <4>1
      <4>3. value'[o] = value[o] + Pending
        BY <2>2, <4>1, <4>2 DEF Pending, NaN
      <4>4. value'[o] = good[o] /\ i < next_obj' /\ value'[o] \in Int
        BY <1>1, <2>2, <3>2, <3>3, <4>3
      <4> QED
        BY <1>1, <2>2, <2>3, <4>4 DEF SampleSumExact
    <3>4. CASE i # n
      <4>1. value'[o] = value[o]
        BY <1>3, <3>1, <3>4
      <4>2. i < next_obj' <=> i < n
        BY <1>1, <2>2, <3>4
      <4>3. Pending' = Pending
        BY <1>1 DEF Pending
      <4> QED
        BY <1>1, <2>3, <3>2, <4>1, <4>2, <4>3 DEF SampleSumExact
    <3> QED
      BY <3>3, <3>4
  <2>4. CASE lvl # 1
    BY <1>1, <1>3, <2>1, <2>2, <2>4 DEF SampleSumExact
  <2> QED
    BY <2>3, <2>4
<1>5. ASSUME NEW o \in Objects, NEW s \in Objects, NEW i \in Nat, NEW j \in Nat,
             IsOuter(o, s, i, j)
      PROVE  SumOfSumExact(o, s, i)'
  <2>1. SumOfSumExact(o, s, i) /\ IsInner(s, j) /\ SampleSumExact(s, j)
    BY <1>5, OuterNow
  <2>2. /\ ~objects[o].fit /\ objects[o].arg = s /\ s # Sample
        /\ i \in 1 .. Len(Obj(2)) /\ o = Obj(2)[i]
        /\ value[o] \in Int /\ good[o] \in Nat
        /\ lvl # 2 => o # p
    BY <1>1, <1>5, OuterIn
  <2>3. good[s] \in Nat
    BY <1>1, <2>1, InnerIn
  <2>4. CASE lvl = 2
    <3>1. o = p <=> i = n
      <4>1. i \in 1 .. Len(Obj(lvl)) /\ o = Obj(lvl)[i]
        BY <2>2, <2>4
      <4> QED
        BY <1>1, <4>1 DEF Deck
    <3>2. value[o] + (IF i < n THEN 0 ELSE good[s]) = good[o]
      BY <1>1, <2>1, <2>4 DEF SumOfSumExact
    <3>3. CASE i = n
      <4>1. Read(objects[o].arg) = good[s]
        BY <1>1, <2>1, <2>2, <2>4 DEF Read, SampleSumExact
      <4>2. value'[o] = value[o] + good[s]
        <5>1. good[s] # NaN
          BY <2>3 DEF NaN
        <5> QED
          BY <1>3, <2>2, <3>1, <3>3, <4>1, <5>1
      <4>3. value'[o] = good[o] /\ i < next_obj'
        BY <1>1, <2>2, <2>3, <3>2, <3>3, <4>2
      <4> QED
        BY <1>1, <2>2, <2>4, <4>3 DEF SumOfSumExact
    <3>4. CASE i # n
      <4>1. value'[o] = value[o]
        BY <1>3, <3>1, <3>4
      <4>2. i < next_obj' <=> i < n
        BY <1>1, <2>2, <3>4
      <4> QED
        BY <1>1, <2>4, <3>2, <4>1, <4>2 DEF SumOfSumExact
    <3> QED
      BY <3>3, <3>4
  <2>5. CASE lvl # 2
    BY <1>1, <1>3, <2>1, <2>2, <2>5 DEF SumOfSumExact
  <2> QED
    BY <2>4, <2>5
<1> QED
  BY <1>1, <1>4, <1>5, SumsStep

LEMMA SumsEndOfBody ==
    ASSUME LoopInv, Sums, EndOfBody
    PROVE  Sums'
<1>1. /\ Types /\ Deck /\ UNCHANGED deckVars /\ UNCHANGED <<lvl, value, good>>
      /\ pc = "update" /\ pc' \in {"finalize", "iterate"} /\ lvl \in 1 .. Top
      /\ next_obj \in Nat /\ next_obj > Len(Obj(lvl)) /\ Len(Obj(lvl)) \in Nat
  <2>1. Types /\ lvl \in 1 .. Top /\ next_obj \in Nat \ {0}
    BY DEF LoopInv, Types, Control
  <2>2. Here = Obj(lvl) /\ Len(Obj(lvl)) \in Nat
    BY <2>1, HereInDeck, InDeck DEF Types
  <2> QED
    BY <2>1, <2>2 DEF EndOfBody, history, valueVars, Types
<1>2. ASSUME NEW o \in Objects, NEW i \in Nat, IsInner(o, i)
      PROVE  SampleSumExact(o, i)'
  <2>1. SampleSumExact(o, i) /\ value[o] \in Int
    BY <1>1, <1>2, InnerNow, InnerIn
  <2>2. lvl = 1 => i < next_obj
    BY <1>1, <1>2 DEF IsInner
  <2> QED
    BY <1>1, <2>1, <2>2 DEF SampleSumExact
<1>3. ASSUME NEW o \in Objects, NEW s \in Objects, NEW i \in Nat, NEW j \in Nat,
             IsOuter(o, s, i, j)
      PROVE  SumOfSumExact(o, s, i)'
  <2>1. SumOfSumExact(o, s, i) /\ value[o] \in Int
    BY <1>1, <1>3, OuterNow, OuterIn
  <2>2. lvl = 2 => i < next_obj
    BY <1>1, <1>3 DEF IsOuter
  <2> QED
    BY <1>1, <2>1, <2>2 DEF SumOfSumExact
<1> QED
  BY <1>1, <1>2, <1>3, SumsStep

LEMMA SumsFinalize ==
    ASSUME LoopInv, Sums, FinalizeObject
    PROVE  Sums'
<1>1. /\ Types /\ Deck /\ UNCHANGED deckVars /\ UNCHANGED <<pc, lvl, good>>
      /\ pc = "finalize" /\ value \in [Objects -> Value]
  BY DEF FinalizeObject, history, LoopInv, Types, Values
<1>2. \A o \in Objects : ~objects[o].fit => value'[o] = value[o]
  <2> DEFINE p == Here[next_obj]
  <2>1. \/ objects[p].fit /\ \E v \in Solutions(p) : value' = [value EXCEPT ![p] = v]
        \/ value' = value
    BY DEF FinalizeObject
  <2> HIDE DEF p
  <2> QED
    BY <1>1, <2>1
<1>3. ASSUME NEW o \in Objects, NEW i \in Nat, IsInner(o, i)
      PROVE  SampleSumExact(o, i)'
  <2>1. SampleSumExact(o, i) /\ value'[o] = value[o]
    BY <1>1, <1>2, <1>3, InnerNow, InnerIn
  <2> QED
    BY <1>1, <2>1 DEF SampleSumExact
<1>4. ASSUME NEW o \in Objects, NEW s \in Objects, NEW i \in Nat, NEW j \in Nat,
             IsOuter(o, s, i, j)
      PROVE  SumOfSumExact(o, s, i)'
  <2>1. SumOfSumExact(o, s, i) /\ value'[o] = value[o]
    BY <1>1, <1>2, <1>4, OuterNow, OuterIn
  <2> QED
    BY <1>1, <2>1 DEF SumOfSumExact
<1> QED
  BY <1>1, <1>3, <1>4, SumsStep

LEMMA SumsReturn ==
    ASSUME LoopInv, Sums, ReturnFromLevel
    PROVE  Sums'
<1>1. CASE pc' = "returned"
  BY <1>1, SumsIdle
<1>2. CASE pc' # "returned"
  <2>1. /\ Types /\ Deck /\ UNCHANGED deckVars /\ UNCHANGED <<value, good>>
        /\ pc = "finalize" /\ pc' = "update" /\ lvl' = lvl + 1 /\ lvl \in Nat \ {0}
        /\ next_obj' = 1
    <3>1. Types /\ Deck /\ lvl \in 1 .. Top
      BY DEF LoopInv, Types, Control
    <3>2. lvl \in Nat \ {0}
      BY <3>1 DEF Deck, Top
    <3> QED
      BY <1>2, <3>1, <3>2 DEF ReturnFromLevel, history, valueVars
  <2>2. lvl' # 1 /\ (lvl' = 2 => lvl = 1)
    BY <2>1
  <2>3. ASSUME NEW o \in Objects, NEW i \in Nat, IsInner(o, i)
        PROVE  SampleSumExact(o, i)'
    BY <2>1, <2>2, <2>3, InnerNow DEF SampleSumExact
  <2>4. ASSUME NEW o \in Objects, NEW s \in Objects, NEW i \in Nat, NEW j \in Nat,
               IsOuter(o, s, i, j)
        PROVE  SumOfSumExact(o, s, i)'
    <3>1. SumOfSumExact(o, s, i)
      BY <2>4, OuterNow
    <3>2. ~(i < next_obj')
      <4>1. i \in 1 .. Len(Obj(2))
        BY <2>4 DEF IsOuter
      <4> QED
        BY <2>1, <4>1
    <3> QED
      BY <2>1, <2>2, <3>1, <3>2 DEF SumOfSumExact
  <2> QED
    BY <2>1, <2>3, <2>4, SumsStep
<1> QED
  BY <1>1, <1>2

LEMMA SumsNext == LoopInv /\ Sums /\ [Next]_vars => Sums'
<1> SUFFICES ASSUME LoopInv, Sums, [Next]_vars
             PROVE  Sums'
  OBVIOUS
<1>1. CASE \/ \E n \in ScanSteps : DefineScan(n)
           \/ \E fit \in BOOLEAN, arg \in {Sample} \cup Objects : DefineObject(fit, arg)
           \/ JosimExits
  <2>1. pc' \in {"parse", "exited"}
    BY <1>1 DEF DefineScan, DefineObject, JosimExits
  <2> QED
    BY <2>1, SumsIdle
<1>2. CASE RunOnce
  BY <1>2, SumsRunOnce
<1>3. CASE Run
  <2>1. CASE \E x \in {1, NaN} : RunJosim(x)
    BY <2>1, SumsRunJosim
  <2> QED
    BY <1>1, <1>3, <2>1, SumsInitialize, SumsIterate, SumsUpdate, SumsEndOfBody,
       SumsFinalize, SumsReturn DEF Run
<1>4. CASE UNCHANGED vars
  <2>1. UNCHANGED <<pc, lvl, value, next_obj, sample, good, levels, objects>>
    BY <1>4 DEF vars, valueVars, history, deckVars
  <2> QED
    BY <2>1 DEF Sums, SampleSumExact, SumOfSumExact, IsInner, IsOuter, SampleSum, Pending,
                Objects, Obj, Top
<1> QED
  BY <1>1, <1>2, <1>3, <1>4 DEF Next, Ended

\* A sum over samples, and a sum over such sums one level up, are exact when their
\* level finalizes: nothing is counted twice, lost or left over
\* (sum_expression.cpp under run_this_level() of loop_complex.cpp).
THEOREM SumsAlwaysExact == Spec => []SumsAreExact
<1>1. Init => Sums
  BY DEF Init, Sums, SampleSumExact, SumOfSumExact
<1>2. LoopInv /\ Sums => SumsAreExact
  <2> SUFFICES ASSUME LoopInv, Sums, pc = "finalize", NEW o \in HereSet,
                      IsSampleSum(o) \/ IsSumOfSums(o)
               PROVE  value[o] = good[o]
    BY DEF SumsAreExact
  <2>1. Types /\ Deck /\ lvl \in 1 .. Top
    BY DEF LoopInv, Types, Control
  <2>2. PICK i \in 1 .. Len(Obj(lvl)) : o = Obj(lvl)[i]
    BY <2>1, HereInDeck
  <2>3. o \in Objects /\ i \in Nat
    BY <2>1, <2>2, InDeck
  <2>4. \A q \in Objects : /\ LevelOf(q) \in 1 .. Top
                          /\ \E j \in 1 .. Len(Obj(LevelOf(q))) : Obj(LevelOf(q))[j] = q
    <3> SUFFICES ASSUME NEW q \in Objects
                 PROVE  /\ LevelOf(q) \in 1 .. Top
                        /\ \E j \in 1 .. Len(Obj(LevelOf(q))) : Obj(LevelOf(q))[j] = q
      OBVIOUS
    <3> DEFINE In(l) == \E j \in DOMAIN levels[l].objects : levels[l].objects[j] = q
    <3>1. \A l \in 1 .. Top : In(l) <=> \E j \in 1 .. Len(Obj(l)) : Obj(l)[j] = q
      BY <2>1, InDeck DEF Obj
    <3>2. \E l \in 1 .. Top : In(l)
      BY <2>1, <3>1 DEF Deck
    <3>3. LevelOf(q) = CHOOSE l \in 1 .. Top : In(l)
      BY DEF LevelOf
    <3> HIDE DEF In
    <3>4. LevelOf(q) \in 1 .. Top /\ In(LevelOf(q))
      BY <3>2, <3>3
    <3> QED
      BY <3>1, <3>4
  <2>5. LevelOf(o) = lvl
    BY <2>1, <2>2, <2>3, <2>4 DEF Deck
  <2>6. CASE IsSampleSum(o)
    <3>1. lvl = 1 /\ IsInner(o, i)
      BY <2>2, <2>5, <2>6 DEF IsSampleSum, IsInner, SampleSum
    <3>2. SampleSumExact(o, i)
      BY <2>3, <3>1, InnerNow
    <3> QED
      BY <3>1, <3>2 DEF SampleSumExact
  <2>7. CASE IsSumOfSums(o)
    <3> DEFINE s == objects[o].arg
    <3>1. lvl = 2 /\ ~objects[o].fit /\ s # Sample /\ IsSampleSum(s)
      BY <2>5, <2>7 DEF IsSumOfSums
    <3>2. s \in Objects
      <4> DEFINE R == [fit : BOOLEAN, arg : Nat]
      <4>1. objects \in Seq(R) /\ s < o
        BY <2>1, <2>3 DEF Deck
      <4> HIDE DEF R
      <4>2. objects[o] \in R /\ Len(objects) \in Nat /\ o \in 1 .. Len(objects)
        BY <2>3, <4>1 DEF Objects
      <4>3. s \in Nat
        BY <4>2 DEF R
      <4> HIDE DEF s
      <4> QED
        BY <3>1, <4>1, <4>2, <4>3 DEF Objects, Sample
    <3> HIDE DEF s
    <3>3. PICK j \in 1 .. Len(Obj(LevelOf(s))) : Obj(LevelOf(s))[j] = s
      BY <2>4, <3>2
    <3>4. LevelOf(s) = 1 /\ SampleSum(s)
      BY <3>1 DEF IsSampleSum, SampleSum
    <3>5. j \in Nat /\ IsInner(s, j)
      BY <3>3, <3>4 DEF IsInner
    <3>6. IsOuter(o, s, i, j)
      <4>1. Top > 1
        BY <2>1, <3>1 DEF Deck, Top
      <4> QED
        BY <2>2, <3>1, <3>5, <4>1 DEF IsOuter, s
    <3>7. SumOfSumExact(o, s, i)
      BY <2>3, <3>2, <3>5, <3>6, OuterNow
    <3> QED
      BY <3>1, <3>7 DEF SumOfSumExact
  <2> QED
    BY <2>6, <2>7
<1> QED
  BY <1>1, <1>2, SumsNext, InvAlways, PTL DEF Spec

(***************************************************************************)
(* The odometer                                                            *)
(*                                                                         *)
(* Inner and Rank are recursive functions: that they solve their equations *)
(* takes an induction.  The induction theorems of the library have an      *)
(* operator as a parameter, which no prover here can instantiate; a set    *)
(* does as well, and its induction follows from counting: a set that is    *)
(* closed under successor but misses a number has an initial part that     *)
(* injects into itself without 0.                                          *)
(***************************************************************************)
LEMMA SetInduction ==
    ASSUME NEW T, 0 \in T, \A n \in Nat : n \in T => n + 1 \in T
    PROVE  \A n \in Nat : n \in T
<1> SUFFICES ASSUME NEW m \in Nat, m \notin T
             PROVE  FALSE
  OBVIOUS
<1> DEFINE A == {n \in 0 .. m : n \in T}
           B == A \ {0}
           f == [n \in A |-> n + 1]
<1>1. IsFiniteSet(A) /\ IsFiniteSet(B)
  <2>1. IsFiniteSet(0 .. m)
    BY FS_Interval
  <2>2. A \subseteq 0 .. m
    OBVIOUS
  <2>3. IsFiniteSet(A)
    BY <2>1, <2>2, FS_Subset
  <2> QED
    BY <2>3, FS_RemoveElement
<1>2. \A n \in A : n + 1 \in B
  OBVIOUS
<1>3. f \in Injection(A, B)
  BY <1>2 DEF Injection, IsInjective
<1>4. Cardinality(A) <= Cardinality(B)
  BY <1>1, <1>3, FS_Injection DEF ExistsInjection
<1>5. 0 \in A
  OBVIOUS
<1>6. Cardinality(B) = Cardinality(A) - 1
  BY <1>1, <1>5, FS_RemoveElement
<1>7. Cardinality(A) \in Nat
  BY <1>1, FS_CardinalityType
<1> QED
  BY <1>4, <1>6, <1>7

\* A function defined by primitive recursion exists.
LEMMA Recursion ==
    ASSUME NEW S, NEW c \in S, NEW n \in Nat, NEW F \in [(1 .. n) \X S -> S]
    PROVE  \E g \in [0 .. n -> S] : g[0] = c /\ \A i \in 1 .. n : g[i] = F[<<i, g[i - 1]>>]
<1> DEFINE Upto(m, g) == g[0] = c /\ \A i \in 1 .. m : g[i] = F[<<i, g[i - 1]>>]
           T == {m \in Nat : m <= n => \E g \in [0 .. m -> S] : Upto(m, g)}
<1>1. 0 \in T
  <2> DEFINE g == [i \in 0 .. 0 |-> c]
  <2>1. g \in [0 .. 0 -> S] /\ Upto(0, g)
    OBVIOUS
  <2> QED
    BY <2>1
<1>2. ASSUME NEW m \in Nat, m \in T
      PROVE  m + 1 \in T
  <2> SUFFICES ASSUME m + 1 <= n
               PROVE  \E g \in [0 .. m + 1 -> S] : Upto(m + 1, g)
    OBVIOUS
  <2>1. PICK g \in [0 .. m -> S] : Upto(m, g)
    BY <1>2
  <2> DEFINE h == [i \in 0 .. m + 1 |-> IF i = m + 1 THEN F[<<m + 1, g[m]>>] ELSE g[i]]
  <2>2. g[m] \in S /\ m + 1 \in 1 .. n
    OBVIOUS
  <2>3. F[<<m + 1, g[m]>>] \in S
    BY <2>2
  <2>4. h \in [0 .. m + 1 -> S]
    BY <2>3
  <2>5. /\ h[0] = c /\ h[m + 1] = F[<<m + 1, h[m]>>]
        /\ \A i \in 1 .. m : h[i] = g[i] /\ h[i - 1] = g[i - 1]
    <3>1. 0 # m + 1 /\ 0 \in 0 .. m /\ m \in 0 .. m /\ m # m + 1
      OBVIOUS
    <3>2. \A i \in 1 .. m : /\ i \in 0 .. m + 1 /\ i # m + 1
                           /\ i - 1 \in 0 .. m + 1 /\ i - 1 # m + 1
      OBVIOUS
    <3>3. h[0] = g[0] /\ h[m] = g[m] /\ h[m + 1] = F[<<m + 1, g[m]>>]
      BY <3>1
    <3>4. \A i \in 1 .. m : h[i] = g[i] /\ h[i - 1] = g[i - 1]
      BY <3>2
    <3> QED
      BY <2>1, <3>3, <3>4
  <2>6. \A i \in 1 .. m + 1 : i \in 1 .. m \/ i = m + 1
    OBVIOUS
  <2>7. Upto(m + 1, h)
    <3> HIDE DEF h
    <3>1. (m + 1) - 1 = m
      OBVIOUS
    <3> QED
      BY <2>1, <2>5, <2>6, <3>1
  <2> QED
    BY <2>4, <2>7
<1>3. n \in T
  <2> HIDE DEF T
  <2> QED
    BY <1>1, <1>2, SetInduction
<1> QED
  BY <1>3

InnerRec ==
    /\ Inner[0] = 1 /\ \A l \in 1 .. Top : Inner[l] = levels[l].steps * Inner[l - 1]
    /\ \A m \in Nat : m <= Top => Inner[m] \in Nat
RankRec ==
    /\ Rank[0] = 0
    /\ \A l \in 1 .. Top : Rank[l] = step_cntr[l] * Inner[l - 1] + Rank[l - 1]
    /\ \A m \in Nat : m <= Top => Rank[m] \in Nat

LEMMA InnerSolves ==
    ASSUME Top \in Nat, \A l \in 1 .. Top : levels[l].steps \in Nat
    PROVE  InnerRec
<1> DEFINE S == Nat
           F == [p \in (1 .. Top) \X S |-> levels[p[1]].steps * p[2]]
           Q(f) == f = [l \in 0 .. Top |-> IF l = 0 THEN 1 ELSE levels[l].steps * f[l - 1]]
<1>1. F \in [(1 .. Top) \X S -> S]
  OBVIOUS
<1>2. \A i \in 1 .. Top, x \in S : F[<<i, x>>] = levels[i].steps * x
  OBVIOUS
<1>3. 1 \in S
  OBVIOUS
<1>4. PICK g \in [0 .. Top -> S] : g[0] = 1 /\ \A i \in 1 .. Top : g[i] = F[<<i, g[i - 1]>>]
  <2> HIDE DEF F, S
  <2> QED
    BY <1>1, <1>3, Recursion
<1>5. \A i \in 1 .. Top : g[i - 1] \in S
  OBVIOUS
<1>6. \A i \in 1 .. Top : g[i] = levels[i].steps * g[i - 1]
  <2> HIDE DEF F, S
  <2> QED
    BY <1>2, <1>4, <1>5
<1>7. Q(g)
  BY <1>4, <1>6
<1>8. Inner = CHOOSE f : Q(f)
  BY DEF Inner
<1>9. Q(Inner)
  <2> HIDE DEF Q
  <2> QED
    BY <1>7, <1>8
<1>10. Inner[0] = 1 /\ \A l \in 1 .. Top : Inner[l] = levels[l].steps * Inner[l - 1]
  BY <1>9
<1>11. \A m \in Nat : m <= Top => Inner[m] \in Nat
  <2> DEFINE T == {m \in Nat : m <= Top => Inner[m] \in Nat}
  <2>1. 0 \in T
    BY <1>10
  <2>2. ASSUME NEW m \in Nat, m \in T
        PROVE  m + 1 \in T
    <3> SUFFICES ASSUME m + 1 <= Top
                 PROVE  Inner[m + 1] \in Nat
      OBVIOUS
    <3>1. m + 1 \in 1 .. Top /\ (m + 1) - 1 = m /\ Inner[m] \in Nat
      BY <2>2
    <3>2. Inner[m + 1] = levels[m + 1].steps * Inner[m]
      BY <1>10, <3>1
    <3> QED
      BY <3>1, <3>2
  <2>3. \A m \in Nat : m \in T
    <3> HIDE DEF T
    <3> QED
      BY <2>1, <2>2, SetInduction
  <2> QED
    BY <2>3
<1> QED
  BY <1>10, <1>11 DEF InnerRec

LEMMA RankSolves ==
    ASSUME Top \in Nat, \A l \in 1 .. Top : step_cntr[l] \in Nat, InnerRec
    PROVE  RankRec
<1> DEFINE S == Nat
           w == [l \in 1 .. Top |-> step_cntr[l] * Inner[l - 1]]
           F == [p \in (1 .. Top) \X S |-> w[p[1]] + p[2]]
           Q(f) == f = [l \in 0 .. Top |-> IF l = 0 THEN 0 ELSE step_cntr[l] * Inner[l - 1] + f[l - 1]]
<1>w. /\ \A l \in 1 .. Top : w[l] \in Nat
      /\ \A l \in 1 .. Top : w[l] = step_cntr[l] * Inner[l - 1]
  <2> SUFFICES ASSUME NEW l \in 1 .. Top
               PROVE  step_cntr[l] * Inner[l - 1] \in Nat
    OBVIOUS
  <2>1. l - 1 \in Nat /\ l - 1 <= Top
    OBVIOUS
  <2>2. Inner[l - 1] \in Nat /\ step_cntr[l] \in Nat
    BY <2>1 DEF InnerRec
  <2> HIDE DEF w
  <2> QED
    BY <2>2
<1>1. F \in [(1 .. Top) \X S -> S]
  <2> HIDE DEF w
  <2> QED
    BY <1>w
<1>2. \A i \in 1 .. Top, x \in S : F[<<i, x>>] = w[i] + x
  OBVIOUS
<1>3. 0 \in S
  OBVIOUS
<1>4. PICK g \in [0 .. Top -> S] : g[0] = 0 /\ \A i \in 1 .. Top : g[i] = F[<<i, g[i - 1]>>]
  <2> HIDE DEF F, S
  <2> QED
    BY <1>1, <1>3, Recursion
<1>5. \A i \in 1 .. Top : g[i - 1] \in S
  OBVIOUS
<1>6. \A i \in 1 .. Top : g[i] = step_cntr[i] * Inner[i - 1] + g[i - 1]
  <2>1. \A i \in 1 .. Top : g[i] = w[i] + g[i - 1]
    <3> HIDE DEF F, S, w
    <3> QED
      BY <1>2, <1>4, <1>5
  <2> QED
    BY <2>1<1>7. Q(g)
  BY <1>4, <1>6
<1>8. Rank = CHOOSE f : Q(f)
  BY DEF Rank
<1>9. Q(Rank)
  <2> HIDE DEF Q
  <2> QED
    BY <1>7, <1>8
<1>10. Rank[0] = 0 /\ \A l \in 1 .. Top : Rank[l] = step_cntr[l] * Inner[l - 1] + Rank[l - 1]
  BY <1>9
<1>11. \A m \in Nat : m <= Top => Rank[m] \in Nat
  <2> DEFINE T == {m \in Nat : m <= Top => Rank[m] \in Nat}
  <2>1. 0 \in T
    BY <1>10
  <2>2. ASSUME NEW m \in Nat, m \in T
        PROVE  m + 1 \in T
    <3> SUFFICES ASSUME m + 1 <= Top
                 PROVE  Rank[m + 1] \in Nat
      OBVIOUS
    <3>1. m + 1 \in 1 .. Top /\ (m + 1) - 1 = m /\ Rank[m] \in Nat
      BY <2>2
    <3>2. Rank[m + 1] = step_cntr[m + 1] * Inner[m] + Rank[m]
      BY <1>10, <3>1
    <3>3. Rank[m + 1] = w[m + 1] + Rank[m] /\ w[m + 1] \in Nat
      BY <1>w, <3>1, <3>2
    <3> HIDE DEF w
    <3> QED
      BY <3>1, <3>3
  <2>3. \A m \in Nat : m \in T
    <3> HIDE DEF T
    <3> QED
      BY <2>1, <2>2, SetInduction
  <2> QED
    BY <2>3
<1> QED
  BY <1>10, <1>11 DEF RankRec

Recs == Top \in Nat \ {0} /\ Counters /\ InnerRec /\ RankRec

LEMMA RecsHold == LoopInv => Recs
<1> SUFFICES ASSUME LoopInv
             PROVE  Recs
  OBVIOUS
<1>1. Deck /\ Counters /\ Top \in Nat \ {0}
  BY DEF LoopInv, Types, Deck, Top
<1>2. InnerRec
  <2>1. \A l \in 1 .. Top : levels[l].steps \in Nat
    BY <1>1, InDeck
  <2> QED
    BY <1>1, <2>1, InnerSolves
<1>3. RankRec
  <2>1. \A l \in 1 .. Top : step_cntr[l] \in Nat
    BY <1>1 DEF Counters
  <2> QED
    BY <1>1, <1>2, <2>1, RankSolves
<1> QED
  BY <1>1, <1>2, <1>3 DEF Recs

\* Setting one counter changes the rank at its level only.
LEMMA RankMoves ==
    ASSUME Recs, Recs', UNCHANGED levels, NEW L \in 1 .. Top,
           \A l \in 1 .. Top : l # L => step_cntr'[l] = step_cntr[l]
    PROVE  /\ Top' = Top
           /\ \A m \in 0 .. Top : Inner'[m] = Inner[m] /\ Inner[m] \in Nat
           /\ \A m \in 0 .. Top : Rank'[m] \in Nat /\ Rank[m] \in Nat
           /\ Rank'[L - 1] = Rank[L - 1]
           /\ Rank'[Top] - Rank'[L] = Rank[Top] - Rank[L]
           /\ Rank[L] = step_cntr[L] * Inner[L - 1] + Rank[L - 1]
           /\ Rank'[L] = step_cntr'[L] * Inner[L - 1] + Rank[L - 1]
<1>1. Top' = Top /\ Top \in Nat
  BY DEF Recs, Top
<1>2. /\ Inner[0] = 1 /\ Inner'[0] = 1 /\ Rank[0] = 0 /\ Rank'[0] = 0
      /\ \A l \in 1 .. Top : /\ Inner[l] = levels[l].steps * Inner[l - 1]
                             /\ Inner'[l] = levels[l].steps * Inner'[l - 1]
                             /\ Rank[l] = step_cntr[l] * Inner[l - 1] + Rank[l - 1]
                             /\ Rank'[l] = step_cntr'[l] * Inner'[l - 1] + Rank'[l - 1]
  BY <1>1 DEF Recs, InnerRec, RankRec
<1>3. \A m \in Nat : m <= Top => /\ Inner[m] \in Nat
                               /\ Rank'[m] \in Nat /\ Rank[m] \in Nat
  BY <1>1 DEF Recs, InnerRec, RankRec
<1> DEFINE Good(m) == /\ Inner'[m] = Inner[m]
                      /\ m < L => Rank'[m] = Rank[m]
                      /\ L <= m => Rank'[m] - Rank'[L] = Rank[m] - Rank[L]
           T == {m \in Nat : m <= Top => Good(m)}
<1>4. 0 \in T
  BY <1>2
<1>5. ASSUME NEW m \in Nat, m \in T
      PROVE  m + 1 \in T
  <2> SUFFICES ASSUME m + 1 <= Top
               PROVE  Good(m + 1)
    OBVIOUS
  <2>1. m + 1 \in 1 .. Top /\ (m + 1) - 1 = m /\ Good(m)
    BY <1>1, <1>5
  <2>2. Inner'[m + 1] = Inner[m + 1]
    BY <1>2, <2>1
  <2>3. /\ Rank[m + 1] = step_cntr[m + 1] * Inner[m] + Rank[m]
        /\ Rank'[m + 1] = step_cntr'[m + 1] * Inner[m] + Rank'[m]
    BY <1>2, <2>1
  <2>4. Rank[m] \in Nat /\ Rank'[m] \in Nat /\ Rank[m + 1] \in Nat /\ Rank'[m + 1] \in Nat
        /\ Rank[L] \in Nat /\ Rank'[L] \in Nat
    BY <1>1, <1>3, <2>1
  <2>5. CASE m + 1 = L
    BY <2>1, <2>2, <2>4, <2>5
  <2>6. CASE m + 1 # L
    <3> DEFINE w == step_cntr[m + 1] * Inner[m]
    <3>1. Rank[m + 1] = w + Rank[m] /\ Rank'[m + 1] = w + Rank'[m]
      BY <2>1, <2>3, <2>6
    <3>2. w \in Nat
      <4>1. step_cntr[m + 1] \in Nat /\ Inner[m] \in Nat
        BY <1>3, <2>1 DEF Recs, Counters
      <4> QED
        BY <4>1
    <3> HIDE DEF w
    <3> QED
      BY <2>1, <2>2, <2>4, <2>6, <3>1, <3>2
  <2> QED
    BY <2>5, <2>6
<1>6. \A m \in Nat : m \in T
  <2> HIDE DEF T
  <2> QED
    BY <1>4, <1>5, SetInduction
<1>7. \A m \in 0 .. Top : m \in Nat /\ m <= Top /\ Good(m)
  BY <1>1, <1>6
<1>8. L \in 0 .. Top /\ L - 1 \in 0 .. Top /\ Top \in 0 .. Top /\ L - 1 < L /\ L <= Top
  BY <1>1
<1> QED
  BY <1>1, <1>2, <1>3, <1>7, <1>8

\* The simulations so far are those of the combinations before the one the
\* scan parameters of this level and the levels above are set to, and, once
\* the levels below have come to their end, those of that one.
Odometer ==
    /\ pc = "initialize" => runs = Rank[Top] - Rank[lvl]
    /\ pc \in {"iterate", "josim"} => runs = Rank[Top] - Rank[lvl - 1]
    /\ pc \in {"update", "finalize"} => runs = Rank[Top] - Rank[lvl - 1] + Inner[lvl - 1]
    /\ pc = "returned" => runs = Inner[Top]

\* Steps that leave the counters alone leave the ranks alone.
LEMMA RankKept ==
    ASSUME Recs, Recs', UNCHANGED <<levels, step_cntr>>
    PROVE  /\ Top' = Top
           /\ \A m \in 0 .. Top : Inner'[m] = Inner[m] /\ Rank'[m] = Rank[m]
           /\ \A m \in 0 .. Top : Inner[m] \in Nat /\ Rank[m] \in Nat
<1> DEFINE Good(m) == Inner'[m] = Inner[m] /\ Rank'[m] = Rank[m]
           T == {m \in Nat : m <= Top => Good(m)}
<1>1. Top' = Top /\ Top \in Nat
  BY DEF Recs, Top
<1>2. 0 \in T
  BY <1>1 DEF Recs, InnerRec, RankRec
<1>3. ASSUME NEW m \in Nat, m \in T
      PROVE  m + 1 \in T
  <2> SUFFICES ASSUME m + 1 <= Top
               PROVE  Good(m + 1)
    OBVIOUS
  <2>1. m + 1 \in 1 .. Top /\ (m + 1) - 1 = m /\ Good(m)
    BY <1>1, <1>3
  <2> QED
    BY <1>1, <2>1 DEF Recs, InnerRec, RankRec
<1>4. \A m \in Nat : m \in T
  <2> HIDE DEF T
  <2> QED
    BY <1>2, <1>3, SetInduction
<1> QED
  BY <1>1, <1>4 DEF Recs, InnerRec, RankRec

LEMMA OdometerNext == LoopInv /\ LoopInv' /\ Odometer /\ [Next]_vars => Odometer'
<1> SUFFICES ASSUME LoopInv, LoopInv', Odometer, [Next]_vars
             PROVE  Odometer'
  OBVIOUS
<1>1. Recs
  BY RecsHold
<1>2. Recs'
  <2>1. LoopInv' => Recs'
    BY RecsHold, PTL
  <2> QED
    BY <2>1
<1>3. /\ Top \in Nat /\ lvl \in 1 .. Top /\ lvl \in 0 .. Top /\ lvl - 1 \in 0 .. Top
      /\ Top \in 0 .. Top /\ runs \in Nat /\ (pc = "josim" => lvl = 1)
      /\ 0 \in 0 .. Top
  <2>1. Top \in Nat /\ lvl \in 1 .. Top /\ runs \in Nat /\ (pc = "josim" => lvl = 1)
    BY <1>1 DEF LoopInv, Types, Control, Recs
  <2> QED
    BY <2>1
<1>4. Inner[0] = 1 /\ Rank[0] = 0
  BY <1>1 DEF Recs, InnerRec, RankRec
<1>5. CASE pc' \in {"parse", "exited"}
  BY <1>5 DEF Odometer
<1>6. CASE RunOnce
  <2>1. /\ lvl' = Top /\ pc' = "initialize" /\ runs' = 0
        /\ UNCHANGED <<levels, step_cntr>>
    BY <1>6 DEF RunOnce, deckVars
  <2> QED
    BY <1>1, <1>2, <1>3, <2>1, RankKept DEF Odometer
<1>7. CASE InitializeLevel
  <2>1. /\ pc = "initialize" /\ pc' = "iterate" /\ UNCHANGED <<lvl, levels, runs>>
        /\ step_cntr' = [step_cntr EXCEPT ![lvl] = 0]
    BY <1>7 DEF InitializeLevel, RestartScan, deckVars
  <2>2. /\ \A l \in 1 .. Top : l # lvl => step_cntr'[l] = step_cntr[l]
        /\ step_cntr'[lvl] = 0
    BY <1>1, <1>3, <2>1 DEF Recs, Counters
  <2>3. Rank'[lvl] = Rank'[lvl - 1]
    <3>1. /\ Rank'[lvl] = step_cntr'[lvl] * Inner[lvl - 1] + Rank[lvl - 1]
          /\ Inner[lvl - 1] \in Nat /\ Rank[lvl - 1] \in Nat
          /\ Rank'[lvl - 1] = Rank[lvl - 1]
      BY <1>1, <1>2, <1>3, <2>1, <2>2, RankMoves
    <3> QED
      BY <2>2, <3>1
  <2>4. Top' = Top /\ Rank'[Top] - Rank'[lvl] = Rank[Top] - Rank[lvl]
    BY <1>1, <1>2, <1>3, <2>1, <2>2, RankMoves
  <2> QED
    BY <2>1, <2>3, <2>4 DEF Odometer
<1>8. CASE Iterate
  <2>1. /\ pc = "iterate" /\ UNCHANGED <<levels, step_cntr, runs>>
        /\ IF lvl > 1 THEN lvl' = lvl - 1 /\ pc' = "initialize"
                      ELSE pc' = "josim" /\ lvl' = lvl
    BY <1>8 DEF Iterate, deckVars, history
  <2>2. Top' = Top /\ \A m \in 0 .. Top : Rank'[m] = Rank[m]
    BY <1>1, <1>2, <2>1, RankKept
  <2> QED
    BY <1>3, <2>1, <2>2 DEF Odometer
<1>9. CASE \E x \in {1, NaN} : RunJosim(x)
  <2>1. /\ pc = "josim" /\ pc' = "update" /\ runs' = runs + 1
        /\ UNCHANGED <<levels, step_cntr, lvl>>
    BY <1>9 DEF RunJosim, deckVars
  <2>2. /\ Top' = Top /\ Inner'[0] = Inner[0]
        /\ \A m \in 0 .. Top : Rank'[m] = Rank[m] /\ Rank[m] \in Nat
    BY <1>1, <1>2, <1>3, <2>1, RankKept
  <2> QED
    BY <1>3, <1>4, <2>1, <2>2 DEF Odometer
<1>10. CASE UpdateObject \/ FinalizeObject
  <2>1. /\ pc \in {"update", "finalize"} /\ UNCHANGED <<pc, levels, step_cntr, lvl, runs>>
    BY <1>10 DEF UpdateObject, FinalizeObject, deckVars, history
  <2>2. /\ Top' = Top /\ \A m \in 0 .. Top : Inner'[m] = Inner[m] /\ Rank'[m] = Rank[m]
    BY <1>1, <1>2, <2>1, RankKept
  <2> QED
    BY <1>3, <2>1, <2>2 DEF Odometer
<1>11. CASE EndOfBody
  <2>1. /\ pc = "update" /\ UNCHANGED <<levels, lvl, runs>>
        /\ IF LoopComplete THEN pc' = "finalize" /\ UNCHANGED step_cntr
           ELSE pc' = "iterate" /\ step_cntr' = [step_cntr EXCEPT ![lvl] = @ + 1]
    BY <1>11 DEF EndOfBody, deckVars, history
  <2>2. CASE LoopComplete
    <3>1. /\ Top' = Top /\ \A m \in 0 .. Top : Inner'[m] = Inner[m] /\ Rank'[m] = Rank[m]
      BY <1>1, <1>2, <2>1, <2>2, RankKept
    <3> QED
      BY <1>3, <2>1, <2>2, <3>1 DEF Odometer
  <2>3. CASE ~LoopComplete
    <3>1. /\ \A l \in 1 .. Top : l # lvl => step_cntr'[l] = step_cntr[l]
          /\ step_cntr'[lvl] = step_cntr[lvl] + 1 /\ step_cntr[lvl] \in Nat
      BY <1>1, <1>3, <2>1, <2>3 DEF Recs, Counters
    <3> DEFINE z == Inner[lvl - 1]
               c == step_cntr[lvl]
    <3>2. /\ Top' = Top /\ z \in Nat
          /\ Rank[lvl] \in Nat /\ Rank[lvl - 1] \in Nat /\ Rank[Top] \in Nat
          /\ Rank'[lvl] \in Nat /\ Rank'[Top] \in Nat
          /\ Rank'[lvl - 1] = Rank[lvl - 1]
          /\ Rank'[Top] - Rank'[lvl] = Rank[Top] - Rank[lvl]
          /\ Rank[lvl] = c * z + Rank[lvl - 1]
          /\ Rank'[lvl] = (c + 1) * z + Rank[lvl - 1]
      BY <1>1, <1>2, <1>3, <2>1, <3>1, RankMoves
    <3>3. (c + 1) * z = c * z + z /\ c * z \in Nat
      BY <3>1, <3>2
    <3>4. runs = Rank[Top] - Rank[lvl - 1] + z
      BY <2>1 DEF Odometer
    <3>5. runs = Rank'[Top] - Rank'[lvl - 1]
      <4> HIDE DEF z, c
      <4> QED
        BY <3>2, <3>3, <3>4
    <3> QED
      BY <2>1, <2>3, <3>2, <3>5 DEF Odometer
  <2> QED
    BY <2>2, <2>3
<1>12. CASE ReturnFromLevel
  <2>1. /\ pc = "finalize" /\ UNCHANGED <<levels, step_cntr, runs>>
        /\ IF lvl = Top THEN pc' = "returned" /\ lvl' = lvl
                        ELSE pc' = "update" /\ lvl' = lvl + 1
    BY <1>12 DEF ReturnFromLevel, deckVars, history
  <2>2. /\ Top' = Top
        /\ \A m \in 0 .. Top : Inner'[m] = Inner[m] /\ Rank'[m] = Rank[m]
        /\ \A m \in 0 .. Top : Inner[m] \in Nat /\ Rank[m] \in Nat
    BY <1>1, <1>2, <2>1, RankKept
  <2> DEFINE z == Inner[lvl - 1]
             s == levels[lvl].steps
  <2>3. /\ Rank[lvl] = step_cntr[lvl] * z + Rank[lvl - 1]
        /\ Inner[lvl] = s * z
    BY <1>1, <1>3 DEF Recs, InnerRec, RankRec
  <2>4. step_cntr[lvl] = s - 1 /\ s \in Nat \ {0}
    <3>1. step_cntr[lvl] = s - 1
      BY <2>1 DEF LoopInv, Final
    <3> QED
      BY <1>3, <3>1, InDeck DEF LoopInv, Types
  <2>5. s * z = (s - 1) * z + z /\ (s - 1) * z \in Nat /\ z \in Nat
    <3>1. z \in Nat
      BY <1>3, <2>2
    <3> DEFINE a == s - 1
    <3>2. a \in Nat /\ s = a + 1
      BY <2>4
    <3> HIDE DEF a, z, s
    <3>3. (a + 1) * z = a * z + z /\ a * z \in Nat
      BY <3>1, <3>2
    <3> QED
      BY <3>1, <3>2, <3>3 DEF a
  <2>6. runs = Rank[Top] - Rank[lvl - 1] + z
    BY <2>1 DEF Odometer
  <2>7. runs = Rank[Top] - Rank[lvl] + Inner[lvl]
    <3>1. /\ Rank[lvl] = (s - 1) * z + Rank[lvl - 1]
          /\ Inner[lvl] = (s - 1) * z + z
          /\ Rank[Top] \in Nat /\ Rank[lvl - 1] \in Nat
      BY <1>3, <2>2, <2>3, <2>4, <2>5
    <3> HIDE DEF z, s
    <3> QED
      BY <2>5, <2>6, <3>1
  <2>8. CASE lvl = Top
    BY <1>3, <2>1, <2>2, <2>7, <2>8 DEF Odometer
  <2>9. CASE lvl # Top
    <3>1. lvl' - 1 = lvl /\ pc' = "update"
      BY <1>3, <2>1, <2>9
    <3> QED
      BY <1>3, <2>1, <2>2, <2>7, <3>1 DEF Odometer
  <2> QED
    BY <2>8, <2>9
<1>13. CASE UNCHANGED vars
  <2>1. UNCHANGED <<pc, lvl, levels, step_cntr, runs>>
    BY <1>13 DEF vars, deckVars, history
  <2>2. /\ Top' = Top
        /\ \A m \in 0 .. Top : Inner'[m] = Inner[m] /\ Rank'[m] = Rank[m]
    BY <1>1, <1>2, <2>1, RankKept
  <2> QED
    BY <1>3, <2>1, <2>2 DEF Odometer
<1> QED
  <2>1. ASSUME \/ \E n \in ScanSteps : DefineScan(n)
               \/ \E fit \in BOOLEAN, arg \in {Sample} \cup Objects : DefineObject(fit, arg)
               \/ JosimExits
        PROVE  pc' \in {"parse", "exited"}
    BY <2>1 DEF DefineScan, DefineObject, JosimExits
  <2> QED
    BY <1>5, <1>6, <1>7, <1>8, <1>9, <1>10, <1>11, <1>12, <1>13, <2>1 DEF Next, Run, Ended

\* The nested loops of run_this_level() are an odometer: before each simulation
\* the scan parameters are set to the combination whose number is the number of
\* simulations done, and run_once() returns when every combination has been
\* simulated once; an object is updated once for each turn of its own level.
THEOREM IterationsAlwaysExact == Spec => []IterationsExact
<1>1. Init => Odometer
  BY DEF Init, Odometer
<1>2. LoopInv /\ Odometer => EachCombinationOnce
  <2> SUFFICES ASSUME LoopInv, Odometer
               PROVE  EachCombinationOnce
    OBVIOUS
  <2>1. Recs /\ (pc = "josim" => lvl = 1)
    BY RecsHold DEF LoopInv, Types, Control
  <2>2. Rank[0] = 0 /\ Rank[Top] \in Nat
    BY <2>1 DEF Recs, RankRec
  <2>3. pc = "josim" => runs = Rank[Top]
    BY <2>1, <2>2 DEF Odometer
  <2>4. pc = "returned" => runs = Inner[Top]
    BY DEF Odometer
  <2> QED
    BY <2>3, <2>4 DEF EachCombinationOnce
<1> QED
  BY <1>1, <1>2, InvAlways, OdometerNext, OneUpdateAlways, PTL DEF Spec, IterationsExact

\* A rank below a level is smaller than what one turn of the level stands for.
RankSmall == \A m \in 0 .. Top : Rank[m] < Inner[m]

LEMMA RankBelow == LoopInv => RankSmall
<1> SUFFICES ASSUME LoopInv
             PROVE  RankSmall
  OBVIOUS
<1> DEFINE T == {m \in Nat : m <= Top => Rank[m] < Inner[m]}
<1>1. Recs /\ Deck
  BY RecsHold DEF LoopInv, Types
<1>2. 0 \in T
  BY <1>1 DEF Recs, InnerRec, RankRec
<1>3. ASSUME NEW m \in Nat, m \in T
      PROVE  m + 1 \in T
  <2> SUFFICES ASSUME m + 1 <= Top
               PROVE  Rank[m + 1] < Inner[m + 1]
    OBVIOUS
  <2> DEFINE z == Inner[m]
             c == step_cntr[m + 1]
             n == levels[m + 1].steps
  <2>1. m + 1 \in 1 .. Top /\ (m + 1) - 1 = m /\ m <= Top
    BY <1>1 DEF Recs
  <2>2. /\ Rank[m + 1] = c * z + Rank[m] /\ Inner[m + 1] = n * z
        /\ Rank[m] \in Nat /\ z \in Nat /\ Rank[m] < z
    BY <1>1, <1>3, <2>1 DEF Recs, RankRec, InnerRec
  <2>3. c \in Nat /\ c < n /\ n \in Nat
    BY <1>1, <2>1, InDeck DEF Recs, Counters
  <2> HIDE DEF z, c, n
  <2>4. (c + 1) * z <= n * z
    BY <2>2, <2>3
  <2>5. (c + 1) * z = c * z + z /\ c * z \in Nat /\ n * z \in Nat
    BY <2>2, <2>3
  <2> QED
    BY <2>2, <2>4, <2>5
<1>4. \A m \in Nat : m \in T
  <2> HIDE DEF T
  <2> QED
    BY <1>2, <1>3, SetInduction
<1> QED
  BY <1>1, <1>4 DEF Recs, RankSmall

\* Division with remainder is unique.
LEMMA DigitsUnique ==
    ASSUME NEW z \in Nat, NEW a \in Nat, NEW b \in Nat, NEW r \in Nat, NEW t \in Nat,
           r < z, t < z, a * z + r = b * z + t
    PROVE  a = b /\ r = t
<1>1. ASSUME NEW c \in Nat, NEW d \in Nat, c < d
      PROVE  c * z + z <= d * z
  <2>1. (c + 1) * z <= d * z
    BY <1>1
  <2>2. (c + 1) * z = c * z + z
    OBVIOUS
  <2> QED
    BY <2>1, <2>2
<1>2. a * z \in Nat /\ b * z \in Nat
  OBVIOUS
<1>3. CASE a < b
  BY <1>1, <1>2, <1>3
<1>4. CASE b < a
  BY <1>1, <1>2, <1>4
<1>5. CASE a = b
  BY <1>2, <1>5
<1> QED
  BY <1>3, <1>4, <1>5

\* The rank counts combinations: no two settings of the scan parameters have the
\* same one, so that counting up the ranks meets no combination twice
\* (the nested loops of loop_complex.cpp).
THEOREM RankDetermines ==
    LoopInv /\ LoopInv' /\ UNCHANGED levels /\ Rank'[Top] = Rank[Top]
        => step_cntr' = step_cntr
<1> SUFFICES ASSUME LoopInv, LoopInv', UNCHANGED levels, Rank'[Top] = Rank[Top]
             PROVE  step_cntr' = step_cntr
  OBVIOUS
<1>1. Recs /\ Recs' /\ Top' = Top /\ Top \in Nat
  <2>1. LoopInv' => Recs'
    BY RecsHold, PTL
  <2> QED
    BY <2>1, RecsHold DEF Recs, Top
<1>2. (\A m \in 0 .. Top : Rank[m] < Inner[m]) /\ (\A m \in 0 .. Top : Rank'[m] < Inner'[m])
  <2>1. LoopInv' => RankSmall'
    BY RankBelow, PTL
  <2> QED
    BY <1>1, <2>1, RankBelow DEF RankSmall
<1>3. \A m \in 0 .. Top : Inner'[m] = Inner[m]
  <2> DEFINE T == {m \in Nat : m <= Top => Inner'[m] = Inner[m]}
  <2>1. 0 \in T
    BY <1>1 DEF Recs, InnerRec
  <2>2. ASSUME NEW m \in Nat, m \in T
        PROVE  m + 1 \in T
    <3> SUFFICES ASSUME m + 1 <= Top
                 PROVE  Inner'[m + 1] = Inner[m + 1]
      OBVIOUS
    <3>1. m + 1 \in 1 .. Top /\ (m + 1) - 1 = m /\ Inner'[m] = Inner[m]
      BY <1>1, <2>2
    <3> QED
      BY <1>1, <3>1 DEF Recs, InnerRec
  <2>3. \A m \in Nat : m \in T
    <3> HIDE DEF T
    <3> QED
      BY <2>1, <2>2, SetInduction
  <2> QED
    BY <1>1, <2>3
\* Downwards: equal ranks at a level have equal digits and equal ranks below.
<1> DEFINE Alike(k) == Rank'[Top - k] = Rank[Top - k]
           D == {k \in Nat : k <= Top => Alike(k)}
<1>4. ASSUME NEW k \in Nat, k + 1 <= Top, Alike(k)
      PROVE  Alike(k + 1) /\ step_cntr'[Top - k] = step_cntr[Top - k]
  <2> DEFINE l == Top - k
             z == Inner[l - 1]
  <2>1. l \in 1 .. Top /\ l - 1 \in 0 .. Top /\ Top - (k + 1) = l - 1 /\ l - 1 \in Nat /\ l - 1 <= Top
    BY <1>1, <1>4
  <2> HIDE DEF l
  <2>2. /\ Rank[l] = step_cntr[l] * z + Rank[l - 1]
        /\ Rank'[l] = step_cntr'[l] * z + Rank'[l - 1]
    BY <1>1, <1>3, <2>1 DEF Recs, RankRec
  <2>3. /\ Rank[l - 1] \in Nat /\ Rank'[l - 1] \in Nat /\ z \in Nat
        /\ Rank[l - 1] < z /\ Rank'[l - 1] < z
        /\ step_cntr[l] \in Nat /\ step_cntr'[l] \in Nat
    <3>1. z \in Nat /\ Rank[l - 1] < z /\ Rank'[l - 1] < z
      BY <1>1, <1>2, <1>3, <2>1 DEF Recs, InnerRec
    <3>2. Rank[l - 1] \in Nat /\ Rank'[l - 1] \in Nat
      BY <1>1, <2>1 DEF Recs, RankRec
    <3>3. step_cntr[l] \in Nat /\ step_cntr'[l] \in Nat
      BY <1>1, <2>1 DEF Recs, Counters
    <3> QED
      BY <3>1, <3>2, <3>3
  <2>4. Rank'[l] = Rank[l]
    BY <1>4 DEF l
  <2>5. step_cntr'[l] = step_cntr[l] /\ Rank'[l - 1] = Rank[l - 1]
    <3> DEFINE a == step_cntr'[l]
               b == step_cntr[l]
               r == Rank'[l - 1]
               t == Rank[l - 1]
    <3>1. a * z + r = b * z + t
      BY <2>2, <2>4
    <3>2. /\ z \in Nat /\ a \in Nat /\ b \in Nat /\ r \in Nat /\ t \in Nat
          /\ r < z /\ t < z
      BY <2>3
    <3> HIDE DEF z, a, b, r, t
    <3>3. a = b /\ r = t
      BY <3>1, <3>2, DigitsUnique
    <3> QED
      BY <3>3 DEF a, b, r, t
  <2> QED
    BY <2>1, <2>5 DEF l
<1>5. \A k \in Nat : k \in D
  <2>1. 0 \in D
    BY <1>1
  <2>2. ASSUME NEW k \in Nat, k \in D
        PROVE  k + 1 \in D
    BY <1>1, <1>4, <2>2
  <2> HIDE DEF D
  <2> QED
    BY <2>1, <2>2, SetInduction
<1>6. ASSUME NEW l \in 1 .. Top
      PROVE  step_cntr'[l] = step_cntr[l]
  <2>1. Top - l \in Nat /\ (Top - l) + 1 <= Top /\ Top - (Top - l) = l
    BY <1>1
  <2>2. Alike(Top - l)
    BY <1>1, <1>5, <2>1
  <2> HIDE DEF Alike
  <2>3. step_cntr'[Top - (Top - l)] = step_cntr[Top - (Top - l)]
    BY <1>4, <2>1, <2>2
  <2> QED
    BY <2>1, <2>3
<1>7. step_cntr \in Seq(Nat) /\ step_cntr' \in Seq(Nat) /\ Len(step_cntr) = Top /\ Len(step_cntr') = Top
  BY <1>1 DEF Recs, Counters
<1> QED
  BY <1>6, <1>7
=============================================================================
