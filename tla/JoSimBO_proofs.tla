--------------------------- MODULE JoSimBO_proofs ---------------------------
(***************************************************************************)
(* What the evaluation cache keeps, for tables of any size, any probe      *)
(* limit, any hash and any matching relation that is reflexive; and what   *)
(* run_optimize() promises of the cache, of the answers BayesOpt gets and  *)
(* of the vector it saves, for every set of vectors and every budget.      *)
(*                                                                         *)
(* The inductive invariant of the cache is CacheInv.  EntriesReachable is  *)
(* inductive only together with ModestScores: an average that overflowed   *)
(* would empty its slot again and cut the probe paths that lead over it.   *)
(* That of the optimizer, BOInv, adds three facts to the properties the    *)
(* runs check: a simulation is only under way after a miss with room in    *)
(* the budget, every simulated score was told to BayesOpt, and a run that  *)
(* ended has the deck at a vector whose score is the best.                 *)
(***************************************************************************)
EXTENDS JoSimBO, FiniteSetTheorems, TLAPS

(***************************************************************************)
(* The cache                                                               *)
(***************************************************************************)
\* No stored score is so large that its double is not a score.
ModestScores ==
    \A i \in Slots : OccupiedSlot(i) => 2 * table[i].score \in Score

CacheInv == CacheTypeOK /\ ModestScores /\ EntriesReachable

\* A probe looks at a slot of the table (the code masks the index).
LEMMA ProbeSlotInTable ==
    ASSUME CacheTypeOK, NEW p \in Points, NEW k \in Nat
    PROVE  ProbeSlot(p, k) \in Slots
<1>1. hash[p] \in Nat
  BY CacheAssumption DEF CacheTypeOK, Slots
<1>2. (k * (k + 1)) \div 2 \in Nat
  <2>1. k * (k + 1) \in Nat
    OBVIOUS
  <2> DEFINE m == k * (k + 1)
  <2>2. m \in Nat
    BY <2>1
  <2> HIDE DEF m
  <2>3. m \div 2 \in Nat
    BY <2>2
  <2> QED
    BY <2>3 DEF m
<1> DEFINE n == hash[p] + (k * (k + 1)) \div 2
<1>3. n \in Nat
  BY <1>1, <1>2
<1> HIDE DEF n
<1>4. n % Cap \in 0 .. Cap - 1
  BY <1>3, CacheAssumption
<1> QED
  BY <1>4 DEF n, ProbeSlot, Slots

\* The average of two modest scores is a modest score.
LEMMA AverageModest ==
    ASSUME NEW a \in Score, NEW b \in Score, 2 * a \in Score, 2 * b \in Score
    PROVE  /\ Average(a, b) \in Score
           /\ Average(a, b) # NaN
           /\ 2 * Average(a, b) \in Score
<1>1. MaxScore \in Nat /\ NaN \notin Int
  BY CacheAssumption
<1>2. a + b \in Score
  BY <1>1 DEF Score
<1>3. Average(a, b) = (a + b) \div 2
  BY <1>2 DEF Average
<1> DEFINE c == (a + b) \div 2
<1>4. c \in Int /\ (a <= c \/ b <= c) /\ (c <= a \/ c <= b)
  BY <1>1 DEF Score
<1> HIDE DEF c
<1>5. c \in Score /\ 2 * c \in Score
  BY <1>1, <1>4 DEF Score
<1> QED
  BY <1>1, <1>3, <1>5 DEF c, Score

\* Every score a store may be given is modest.
LEMMA StoreScoresModest ==
    ASSUME NEW s \in StoreScores
    PROVE  s \in Score /\ 2 * s \in Score /\ s # NaN
  BY CacheAssumption DEF Score

\* A search that stops at an empty slot: the slot is not on any other path.
LEMMA StoreVacantInv ==
    ASSUME CacheInv, NEW p \in Points, NEW s \in Score, 2 * s \in Score,
           StoreVacant(p, s)
    PROVE  CacheInv'
<1>1. PICK k \in Probes :
          /\ VacantAt(p, k)
          /\ table' = [table EXCEPT ![ProbeSlot(p, k)] =
                                        [score |-> s, point |-> p]]
  BY DEF StoreVacant
<1> DEFINE j == ProbeSlot(p, k)
<1>2. k \in Nat /\ j \in Slots
  BY ProbeSlotInTable, CacheAssumption DEF CacheInv, Probes
<1>3. s # NaN /\ s \in Int
  BY CacheAssumption DEF Score
<1>4. ~OccupiedSlot(j) /\ PassesTo(p, k)
  BY <1>1 DEF VacantAt
<1>5. UNCHANGED <<hash, n_hits, n_overflows>> /\ n_entries' = n_entries + 1
  BY DEF StoreVacant
<1>6. table \in [Slots -> [score : Score \cup {NaN}, point : Points]]
  BY DEF CacheInv, CacheTypeOK
<1>7. /\ table'[j] = [score |-> s, point |-> p]
      /\ \A i \in Slots : i # j => table'[i] = table[i]
      /\ table' \in [Slots -> [score : Score \cup {NaN}, point : Points]]
  BY <1>1, <1>2, <1>6
<1>8. CacheTypeOK'
  BY <1>5, <1>7 DEF CacheInv, CacheTypeOK
<1>9. ModestScores'
  BY <1>7 DEF CacheInv, ModestScores, OccupiedSlot
<1>10. \A q \in Points, l \in Nat :
           /\ ProbeSlot(q, l)' = ProbeSlot(q, l)
           /\ Passes(q, l) => Passes(q, l)'
  <2> SUFFICES ASSUME NEW q \in Points, NEW l \in Nat
               PROVE  /\ ProbeSlot(q, l)' = ProbeSlot(q, l)
                      /\ Passes(q, l) => Passes(q, l)'
    OBVIOUS
  <2>1. ProbeSlot(q, l)' = ProbeSlot(q, l)
    BY <1>5 DEF ProbeSlot
  <2>2. ProbeSlot(q, l) \in Slots
    BY ProbeSlotInTable DEF CacheInv
  <2>3. Passes(q, l) => ProbeSlot(q, l) # j
    BY <1>4 DEF Passes
  <2> QED
    BY <1>7, <2>1, <2>2, <2>3 DEF Passes, OccupiedSlot
<1>11. EntriesReachable'
  <2> SUFFICES ASSUME NEW i \in Slots, OccupiedSlot(i)'
               PROVE  \E l \in Probes : /\ ProbeSlot(table[i].point, l)' = i
                                        /\ MatchAt(table[i].point, l)'
    BY DEF EntriesReachable, Occupied
  <2>1. CASE i = j
    <3>1. table'[i].point = p
      BY <1>7, <2>1
    <3>2. PassesTo(p, k)'
      BY <1>2, <1>4, <1>10 DEF PassesTo
    <3>3. ProbeSlot(p, k)' = i
      BY <1>2, <1>10, <2>1
    <3>4. MatchAt(p, k)'
      BY <1>3, <1>7, <2>1, <3>2, <3>3, CacheAssumption
      DEF MatchAt, OccupiedSlot, Near
    <3> QED
      BY <3>1, <3>3, <3>4
  <2>2. CASE i # j
    <3>1. table'[i] = table[i] /\ OccupiedSlot(i)
      BY <1>7, <2>2 DEF OccupiedSlot
    <3>2. PICK q \in Points : q = table[i].point
      BY <1>6
    <3>3. PICK l \in Probes : ProbeSlot(q, l) = i /\ MatchAt(q, l)
      BY <3>1, <3>2 DEF CacheInv, EntriesReachable, Occupied
    <3>4. l \in Nat
      BY CacheAssumption DEF Probes
    <3>5. PassesTo(q, l)'
      BY <1>10, <3>3, <3>4 DEF MatchAt, PassesTo
    <3>6. ProbeSlot(q, l)' = i
      BY <1>10, <3>3, <3>4
    <3>7. MatchAt(q, l)'
      BY <3>1, <3>3, <3>5, <3>6 DEF MatchAt, OccupiedSlot
    <3>8. (table[i].point)' = q
      BY <3>1, <3>2
    <3> QED
      BY <3>6, <3>7, <3>8
  <2> QED
    BY <2>1, <2>2
<1> QED
  BY <1>8, <1>9, <1>11 DEF CacheInv

\* Paths depend on the hash, and on which slots are filled with which vectors.
LEMMA PathsStay ==
    ASSUME CacheInv, UNCHANGED hash,
           \A i \in Slots : OccupiedSlot(i)' = OccupiedSlot(i),
           \A i \in Slots : table'[i].point = table[i].point
    PROVE  EntriesReachable'
<1>1. \A q \in Points, l \in Nat :
          /\ ProbeSlot(q, l)' = ProbeSlot(q, l)
          /\ Passes(q, l)' = Passes(q, l)
          /\ ProbeSlot(q, l) \in Slots
  <2> SUFFICES ASSUME NEW q \in Points, NEW l \in Nat
               PROVE  /\ ProbeSlot(q, l)' = ProbeSlot(q, l)
                      /\ Passes(q, l)' = Passes(q, l)
                      /\ ProbeSlot(q, l) \in Slots
    OBVIOUS
  <2>1. ProbeSlot(q, l)' = ProbeSlot(q, l)
    BY DEF ProbeSlot
  <2>2. ProbeSlot(q, l) \in Slots
    BY ProbeSlotInTable DEF CacheInv
  <2>3. Passes(q, l)' = Passes(q, l)
    BY <2>1, <2>2, Zenon DEF Passes
  <2> QED
    BY <2>1, <2>2, <2>3
<1> SUFFICES ASSUME NEW i \in Slots, OccupiedSlot(i)'
             PROVE  \E l \in Probes : /\ ProbeSlot(table[i].point, l)' = i
                                      /\ MatchAt(table[i].point, l)'
  BY DEF EntriesReachable, Occupied
<1>2. PICK q \in Points : q = table[i].point
  BY DEF CacheInv, CacheTypeOK
<1>3. OccupiedSlot(i)
  OBVIOUS
<1>4. PICK l \in Probes : ProbeSlot(q, l) = i /\ MatchAt(q, l)
  BY <1>2, <1>3 DEF CacheInv, EntriesReachable, Occupied
<1>5. l \in Nat
  BY CacheAssumption DEF Probes
<1>6. PassesTo(q, l)'
  BY <1>1, <1>4, <1>5 DEF MatchAt, PassesTo
<1>7. ProbeSlot(q, l)' = i
  BY <1>1, <1>4, <1>5
<1>8. MatchAt(q, l)'
  BY <1>4, <1>6, <1>7 DEF MatchAt, Near
<1>9. (table[i].point)' = q
  BY <1>2
<1> QED
  BY <1>7, <1>8, <1>9

\* A search that stops at a match: only the score of that slot changes.
LEMMA StoreMatchInv ==
    ASSUME CacheInv, NEW p \in Points, NEW s \in Score, 2 * s \in Score,
           StoreMatch(p, s)
    PROVE  /\ CacheInv'
           /\ \A i \in Slots : OccupiedSlot(i)' = OccupiedSlot(i)
           /\ \A i \in Slots : table'[i].point = table[i].point
<1>1. PICK k \in Probes :
          /\ MatchAt(p, k)
          /\ table' = [table EXCEPT ![ProbeSlot(p, k)].score = Average(@, s)]
  BY DEF StoreMatch
<1> DEFINE j == ProbeSlot(p, k)
           a == table[j].score
<1>2. k \in Nat /\ j \in Slots
  BY ProbeSlotInTable, CacheAssumption DEF CacheInv, Probes
<1>3. OccupiedSlot(j)
  BY <1>1 DEF MatchAt
<1>4. table \in [Slots -> [score : Score \cup {NaN}, point : Points]]
  BY DEF CacheInv, CacheTypeOK
<1>5. a \in Score /\ 2 * a \in Score
  BY <1>2, <1>3, <1>4 DEF CacheInv, ModestScores, OccupiedSlot
<1>6. Average(a, s) \in Score /\ Average(a, s) # NaN /\ 2 * Average(a, s) \in Score
  BY <1>5, AverageModest
<1>7. /\ table'[j] = [score |-> Average(a, s), point |-> table[j].point]
      /\ \A i \in Slots : i # j => table'[i] = table[i]
      /\ table' \in [Slots -> [score : Score \cup {NaN}, point : Points]]
  <2> HIDE DEF j
  <2>1. table' = [table EXCEPT ![j] = [table[j] EXCEPT !.score = Average(a, s)]]
    BY <1>1 DEF j
  <2>2. [table[j] EXCEPT !.score = Average(a, s)]
           = [score |-> Average(a, s), point |-> table[j].point]
    BY <1>2, <1>4
  <2> QED
    BY <1>2, <1>4, <1>6, <2>1, <2>2
<1> HIDE DEF j, a
<1>8. \A i \in Slots : OccupiedSlot(i)' = OccupiedSlot(i)
  BY <1>3, <1>6, <1>7 DEF OccupiedSlot
<1>9. \A i \in Slots : table'[i].point = table[i].point
  BY <1>7
<1>10. CacheTypeOK'
  BY <1>7 DEF CacheInv, CacheTypeOK, StoreMatch
<1>11. ModestScores'
  BY <1>6, <1>7, <1>8 DEF CacheInv, ModestScores
<1>12. EntriesReachable'
  BY <1>8, <1>9, <1>10, PathsStay DEF CacheInv, StoreMatch
<1> QED
  BY <1>8, <1>9, <1>10, <1>11, <1>12 DEF CacheInv

\* The statistics counters are not read.
LEMMA CounterSteps ==
    ASSUME CacheInv, UNCHANGED <<hash, table, n_entries>>,
           n_hits' \in Nat, n_overflows' \in Nat
    PROVE  CacheInv'
<1>1. CacheTypeOK' /\ ModestScores'
  BY DEF CacheInv, CacheTypeOK, ModestScores, OccupiedSlot
<1>2. EntriesReachable'
  BY PathsStay DEF OccupiedSlot
<1> QED
  BY <1>1, <1>2 DEF CacheInv

LEMMA CacheUnchanged ==
    ASSUME CacheInv, UNCHANGED cacheVars
    PROVE  /\ CacheInv'
           /\ \A i \in Slots : OccupiedSlot(i) =>
                 OccupiedSlot(i)' /\ table'[i].point = table[i].point
<1>1. UNCHANGED <<hash, table, n_entries, n_hits, n_overflows>>
  BY DEF cacheVars
<1>2. n_hits' \in Nat /\ n_overflows' \in Nat
  BY <1>1 DEF CacheInv, CacheTypeOK
<1> QED
  BY <1>1, <1>2, CounterSteps DEF OccupiedSlot

\* What any operation of the cache preserves.
LEMMA StoreInv ==
    ASSUME CacheInv, NEW p \in Points, NEW s, s = NaN \/ (s \in Score /\ 2 * s \in Score),
           Store(p, s)
    PROVE  /\ CacheInv'
           /\ \A i \in Slots : OccupiedSlot(i) =>
                 OccupiedSlot(i)' /\ table'[i].point = table[i].point
<1>1. CASE UNCHANGED cacheVars
  BY <1>1, CacheUnchanged
<1>2. CASE s # NaN /\ StoreVacant(p, s)
  <2>1. CacheInv'
    BY <1>2, StoreVacantInv
  <2>2. PICK k \in Probes :
            /\ VacantAt(p, k)
            /\ table' = [table EXCEPT ![ProbeSlot(p, k)] =
                                          [score |-> s, point |-> p]]
    BY <1>2 DEF StoreVacant
  <2>3. \A i \in Slots : OccupiedSlot(i) => table'[i] = table[i]
    BY <2>2 DEF VacantAt, CacheInv, CacheTypeOK
  <2> QED
    BY <2>1, <2>3 DEF OccupiedSlot
<1>3. CASE s # NaN /\ StoreMatch(p, s)
  BY <1>3, StoreMatchInv
<1>4. CASE s # NaN /\ StoreOverflow(p, s)
  <2>1. UNCHANGED <<hash, table, n_entries, n_hits>> /\ n_overflows' = n_overflows + 1
    BY <1>4 DEF StoreOverflow
  <2>2. n_hits' \in Nat /\ n_overflows' \in Nat
    BY <2>1 DEF CacheInv, CacheTypeOK
  <2>3. CacheInv'
    BY <2>1, <2>2, CounterSteps
  <2> QED
    BY <2>1, <2>3 DEF OccupiedSlot
<1> QED
  BY <1>1, <1>2, <1>3, <1>4 DEF Store, StoreIgnored

\* A lookup changes nothing but a counter.
LEMMA LookupInv ==
    ASSUME CacheInv, NEW p \in Points, Lookup(p)
    PROVE  CacheInv' /\ table' = table
<1>1. UNCHANGED <<hash, table, n_entries>>
  BY DEF Lookup
<1>2. n_hits' \in Nat /\ n_overflows' \in Nat
  BY DEF Lookup, CacheInv, CacheTypeOK
<1> QED
  BY <1>1, <1>2, CounterSteps

LEMMA CacheInitInv == CacheInit => CacheInv
<1> SUFFICES ASSUME CacheInit
             PROVE  CacheInv
  OBVIOUS
<1>1. \A i \in Slots : ~OccupiedSlot(i)
  BY DEF CacheInit, OccupiedSlot
<1>2. CacheTypeOK
  BY CacheAssumption DEF CacheInit, CacheTypeOK, Hashes
<1> QED
  BY <1>1, <1>2 DEF CacheInv, ModestScores, EntriesReachable, Occupied

LEMMA CacheNextInv ==
    ASSUME CacheInv, [CacheNext]_cacheVars
    PROVE  /\ CacheInv'
           /\ \A i \in Slots : OccupiedSlot(i) =>
                 OccupiedSlot(i)' /\ table'[i].point = table[i].point
<1>1. CASE \E p \in Points : Lookup(p)
  BY <1>1, LookupInv DEF OccupiedSlot
<1>2. CASE \E p \in Points, s \in StoreScores \cup {NaN} : Store(p, s)
  BY <1>2, StoreInv, StoreScoresModest
<1>3. CASE UNCHANGED cacheVars
  BY <1>3, CacheUnchanged
<1> QED
  BY <1>1, <1>2, <1>3 DEF CacheNext

LEMMA CacheInvariant == CacheSpec => []CacheInv
<1>1. CacheInv /\ [CacheNext]_cacheVars => CacheInv'
  BY CacheNextInv
<1> QED
  BY <1>1, CacheInitInv, PTL DEF CacheSpec

\* The table, the hash and the counters of the cache keep their types: no
\* probe leaves the table and no average leaves the range of scores.
THEOREM CacheTypeCorrect == CacheSpec => []CacheTypeOK
<1>1. CacheInv => CacheTypeOK
  BY DEF CacheInv
<1> QED
  BY <1>1, CacheInvariant, PTL

\* Whatever is stored, in whatever order, every vector in the table is found
\* by a search for it (lookup() and store() of eval_cache.cpp).
THEOREM EntriesAlwaysReachable == CacheSpec => []EntriesReachable
<1>1. CacheInv => EntriesReachable
  BY DEF CacheInv
<1> QED
  BY <1>1, CacheInvariant, PTL

\* No step empties a filled slot or puts another vector into it.
THEOREM EntriesNeverMove == CacheSpec => EntriesStay
<1>1. CacheInv /\ [CacheNext]_cacheVars =>
          [\A i \in Slots : OccupiedSlot(i) =>
              OccupiedSlot(i)' /\ table'[i].point = table[i].point]_cacheVars
  BY CacheNextInv
<1> QED
  BY <1>1, CacheInvariant, PTL DEF CacheSpec, EntriesStay

(***************************************************************************)
(* The size of the cache.                                                  *)
(***************************************************************************)
\* A step fills no slot or exactly one, and counts it.
LEMMA StoreCounts ==
    ASSUME CacheInv, SizeIsOccupancy, NEW p \in Points,
           NEW s, s = NaN \/ (s \in Score /\ 2 * s \in Score), Store(p, s)
    PROVE  SizeIsOccupancy'
<1>1. CASE s # NaN /\ StoreVacant(p, s)
  <2>1. PICK k \in Probes :
            /\ VacantAt(p, k)
            /\ table' = [table EXCEPT ![ProbeSlot(p, k)] =
                                          [score |-> s, point |-> p]]
    BY <1>1 DEF StoreVacant
  <2> DEFINE j == ProbeSlot(p, k)
  <2>2. j \in Slots
    BY ProbeSlotInTable, CacheAssumption DEF CacheInv, Probes
  <2>3. j \notin Occupied
    BY <2>1 DEF VacantAt, Occupied
  <2>4. Occupied' = Occupied \cup {j}
    <3>1. table \in [Slots -> [score : Score \cup {NaN}, point : Points]]
      BY DEF CacheInv, CacheTypeOK
    <3>2. /\ table'[j] = [score |-> s, point |-> p]
          /\ \A i \in Slots : i # j => table'[i] = table[i]
      BY <2>1, <2>2, <3>1
    <3>3. \A i \in Slots : OccupiedSlot(i)' <=> i = j \/ OccupiedSlot(i)
      BY <1>1, <3>2 DEF OccupiedSlot
    <3> QED
      BY <2>2, <3>3 DEF Occupied
  <2>5. IsFiniteSet(Occupied)
    <3>1. IsFiniteSet(Slots)
      BY FS_Interval, CacheAssumption DEF Slots
    <3> QED
      BY <3>1, FS_Subset DEF Occupied
  <2>6. Cardinality(Occupied \cup {j}) = Cardinality(Occupied) + 1
    BY <2>3, <2>5, FS_AddElement
  <2>7. n_entries' = n_entries + 1
    BY <1>1 DEF StoreVacant
  <2> QED
    BY <2>4, <2>6, <2>7 DEF SizeIsOccupancy
<1>2. CASE s # NaN /\ StoreMatch(p, s)
  <2>1. \A i \in Slots : OccupiedSlot(i)' = OccupiedSlot(i)
    BY <1>2, StoreMatchInv
  <2>2. Occupied' = Occupied
    BY <2>1 DEF Occupied
  <2> QED
    BY <1>2, <2>2 DEF SizeIsOccupancy, StoreMatch
<1>3. CASE UNCHANGED <<table, n_entries>>
  BY <1>3 DEF SizeIsOccupancy, Occupied, OccupiedSlot
<1> QED
  BY <1>1, <1>2, <1>3 DEF Store, StoreIgnored, StoreOverflow, cacheVars

\* size() is the number of filled slots.
THEOREM SizeAlwaysOccupancy == CacheSpec => []SizeIsOccupancy
<1>1. CacheInit => SizeIsOccupancy
  <2> SUFFICES ASSUME CacheInit
               PROVE  SizeIsOccupancy
    OBVIOUS
  <2>1. Occupied = {}
    BY DEF CacheInit, Occupied, OccupiedSlot
  <2> QED
    BY <2>1, FS_EmptySet DEF CacheInit, SizeIsOccupancy
<1>2. CacheInv /\ SizeIsOccupancy /\ [CacheNext]_cacheVars => SizeIsOccupancy'
  <2> SUFFICES ASSUME CacheInv, SizeIsOccupancy, [CacheNext]_cacheVars
               PROVE  SizeIsOccupancy'
    OBVIOUS
  <2>1. CASE \E p \in Points, s \in StoreScores \cup {NaN} : Store(p, s)
    BY <2>1, StoreCounts, StoreScoresModest
  <2>2. CASE UNCHANGED <<table, n_entries>>
    BY <2>2 DEF SizeIsOccupancy, Occupied, OccupiedSlot
  <2> QED
    BY <2>1, <2>2 DEF CacheNext, Lookup, cacheVars
<1> QED
  BY <1>1, <1>2, CacheInvariant, PTL DEF CacheSpec

\* The cache is well-typed and size() tells the truth about it.
THEOREM CacheAlwaysConsistent == CacheSpec => []CacheConsistent
<1>1. CacheTypeOK /\ SizeIsOccupancy => CacheConsistent
  BY DEF CacheConsistent
<1> QED
  BY <1>1, CacheTypeCorrect, SizeAlwaysOccupancy, PTL

(***************************************************************************)
(* The optimizer                                                           *)
(***************************************************************************)
BestTold ==
    /\ pc = "simulate" => calls < Budget
    /\ simulated \subseteq dataset
    /\ pc = "undefined" => best_point = NoPoint

BOInv ==
    /\ BOTypeOK
    /\ NothingLost
    /\ AnswersAreSimulated
    /\ BestIsLeast
    /\ BestTold
    /\ SavedIsBest

\* A hit answers with the score of an entry that is near.
LEMMA HitAnswer ==
    ASSUME CacheTypeOK, NEW p \in Points, Hit(p)
    PROVE  \E i \in Occupied : /\ LookupResult(p) = table[i].score
                               /\ LookupResult(p) \in Score
                               /\ Near(table[i].point, p)
<1> DEFINE k == CHOOSE k \in Probes : MatchAt(p, k)
           i == ProbeSlot(p, k)
<1>1. k \in Probes /\ MatchAt(p, k)
  BY DEF Hit
<1>2. LookupResult(p) = table[i].score
  BY DEF LookupResult
<1> HIDE DEF k
<1>3. k \in Nat
  BY <1>1, CacheAssumption DEF Probes
<1>4. i \in Slots
  BY <1>3, ProbeSlotInTable
<1>5. OccupiedSlot(i) /\ Near(table[i].point, p)
  BY <1>1 DEF MatchAt
<1>6. table[i].score \in Score
  BY <1>4, <1>5 DEF CacheTypeOK, OccupiedSlot
<1> QED
  BY <1>2, <1>4, <1>5, <1>6 DEF Occupied

\* After a miss a store fills an empty slot or is dropped.
LEMMA StoreAfterMiss ==
    ASSUME CacheTypeOK, NEW p \in Points, NEW s \in Score, ~Hit(p), Store(p, s)
    PROVE  /\ CacheTypeOK'
           /\ \A i \in Slots : OccupiedSlot(i) => table'[i] = table[i]
           /\ \A i \in Slots :
                  OccupiedSlot(i)' =>
                      OccupiedSlot(i) \/ table'[i] = [score |-> s, point |-> p]
           /\ n_entries' + n_overflows' = n_entries + n_overflows + 1
           /\ n_hits' = n_hits
<1>1. s # NaN
  BY CacheAssumption DEF Score
<1>2. CASE StoreVacant(p, s)
  <2>1. PICK k \in Probes :
            /\ VacantAt(p, k)
            /\ table' = [table EXCEPT ![ProbeSlot(p, k)] =
                                          [score |-> s, point |-> p]]
    BY <1>2 DEF StoreVacant
  <2>2. k \in Nat
    BY CacheAssumption DEF Probes
  <2> DEFINE j == ProbeSlot(p, k)
  <2>3. j \in Slots /\ ~OccupiedSlot(j)
    BY <2>1, <2>2, ProbeSlotInTable DEF VacantAt
  <2>4. table \in [Slots -> [score : Score \cup {NaN}, point : Points]]
    BY DEF CacheTypeOK
  <2>5. /\ table'[j] = [score |-> s, point |-> p]
        /\ \A i \in Slots : i # j => table'[i] = table[i]
        /\ table' \in [Slots -> [score : Score \cup {NaN}, point : Points]]
    BY <2>1, <2>3, <2>4
  <2>6. UNCHANGED <<hash, n_hits, n_overflows>> /\ n_entries' = n_entries + 1
    BY <1>2 DEF StoreVacant
  <2>7. CacheTypeOK'
    BY <2>5, <2>6 DEF CacheTypeOK
  <2>8. n_entries' + n_overflows' = n_entries + n_overflows + 1
    BY <2>6 DEF CacheTypeOK
  <2> HIDE DEF j
  <2>9. \A i \in Slots : OccupiedSlot(i) => table'[i] = table[i]
    BY <2>3, <2>5
  <2>10. \A i \in Slots : OccupiedSlot(i)' =>
             OccupiedSlot(i) \/ table'[i] = [score |-> s, point |-> p]
    BY <2>5 DEF OccupiedSlot
  <2> QED
    BY <2>6, <2>7, <2>8, <2>9, <2>10
<1>3. CASE StoreOverflow(p, s)
  BY <1>3 DEF StoreOverflow, CacheTypeOK, OccupiedSlot
<1>4. ~StoreMatch(p, s)
  BY DEF StoreMatch, Hit
<1> QED
  BY <1>1, <1>2, <1>3, <1>4 DEF Store, StoreIgnored

LEMMA BOInitInv == BOInit => BOInv
<1> SUFFICES ASSUME BOInit
             PROVE  BOInv
  OBVIOUS
<1>1. CacheTypeOK /\ Occupied = {}
  BY CacheInitInv DEF BOInit, CacheInv, CacheInit, Occupied, OccupiedSlot
<1>2. BOTypeOK
  BY <1>1, CacheAssumption, BOAssumption DEF BOInit, BOTypeOK, Score
<1> QED
  BY <1>1, <1>2
  DEF BOInit, CacheInit, BOInv, NothingLost, AnswersAreSimulated, BestIsLeast,
      BestTold, SavedIsBest

\* evaluateSample() answers from the cache.
LEMMA AskCachedInv ==
    ASSUME BOInv, NEW p \in Points, AskCached(p)
    PROVE  BOInv' /\ table' = table
<1> DEFINE s == LookupResult(p)
<1>1. /\ pc = "ask" /\ calls < Budget /\ Hit(p)
      /\ n_hits' = n_hits + 1
      /\ UNCHANGED <<hash, table, n_entries, n_overflows>>
      /\ query' = p
      /\ dataset' = dataset \cup {<<p, s>>} /\ calls' = calls + 1 /\ pc' = "ask"
      /\ UNCHANGED <<best_score, best_point, deck, simulated>>
  BY DEF AskCached, Lookup, Answer
<1>2. PICK i \in Occupied :
          s = table[i].score /\ s \in Score /\ Near(table[i].point, p)
  BY <1>1, HitAnswer DEF BOInv, BOTypeOK
<1>3. <<table[i].point, s>> \in simulated
  BY <1>2 DEF BOInv, NothingLost
<1> HIDE DEF s
<1>4. BOTypeOK'
  BY <1>1, <1>2, BOAssumption DEF BOInv, BOTypeOK, CacheTypeOK
<1>5. NothingLost'
  <2>1. Occupied' = Occupied
    BY <1>1 DEF Occupied, OccupiedSlot
  <2> QED
    BY <1>1, <2>1 DEF BOInv, BOTypeOK, CacheTypeOK, NothingLost
<1>6. AnswersAreSimulated'
  <2>1. \E r \in simulated : Near(r[1], p) /\ r[2] = s
    BY <1>2, <1>3
  <2> SUFFICES ASSUME NEW a \in dataset'
               PROVE  \E r \in simulated : Near(r[1], a[1]) /\ r[2] = a[2]
    BY <1>1 DEF AnswersAreSimulated, Near
  <2>2. CASE a \in dataset
    BY <2>2 DEF BOInv, AnswersAreSimulated
  <2>3. CASE a = <<p, s>>
    BY <2>1, <2>3
  <2> QED
    BY <1>1, <2>2, <2>3
<1>7. BestIsLeast' /\ BestTold' /\ SavedIsBest'
  BY <1>1 DEF BOInv, BestIsLeast, BestTold, SavedIsBest
<1> QED
  BY <1>1, <1>4, <1>5, <1>6, <1>7 DEF BOInv

\* evaluateSample() sets up a simulation.
LEMMA AskMissedInv ==
    ASSUME BOInv, NEW p \in Points, AskMissed(p)
    PROVE  BOInv' /\ table' = table
<1>1. /\ pc = "ask" /\ calls < Budget /\ ~Hit(p)
      /\ n_hits' = n_hits
      /\ UNCHANGED <<hash, table, n_entries, n_overflows>>
      /\ query' = p /\ deck' = p /\ pc' = "simulate"
      /\ UNCHANGED <<dataset, calls, best_score, best_point, simulated>>
  BY DEF AskMissed, Lookup
<1>2. BOTypeOK'
  BY <1>1 DEF BOInv, BOTypeOK, CacheTypeOK
<1>3. NothingLost'
  <2>1. Occupied' = Occupied
    BY <1>1 DEF Occupied, OccupiedSlot
  <2>2. ~Hit(query)'
    BY <1>1
    DEF Hit, MatchAt, PassesTo, Passes, ProbeSlot, OccupiedSlot
  <2> QED
    BY <1>1, <2>1, <2>2 DEF BOInv, NothingLost
<1>4. AnswersAreSimulated' /\ BestIsLeast' /\ BestTold' /\ SavedIsBest'
  BY <1>1
  DEF BOInv, AnswersAreSimulated, BestIsLeast, BestTold, SavedIsBest, Near
<1> QED
  BY <1>1, <1>2, <1>3, <1>4 DEF BOInv

\* evaluateSample() has a score from the simulator.
LEMMA SimulateInv ==
    ASSUME BOInv, NEW s \in Score \cup {NaN}, Simulate(s)
    PROVE  BOInv' /\ \A i \in Slots : OccupiedSlot(i) => table'[i] = table[i]
<1> DEFINE e == SampleScore(s)
<1>1. e \in Score /\ e <= MaxScore
  BY CacheAssumption DEF SampleScore, Score
<1>2. /\ pc = "simulate"
      /\ simulated' = simulated \cup {<<query, e>>}
      /\ Store(query, e)
      /\ TrackBest(e)
      /\ dataset' = dataset \cup {<<query, e>>} /\ calls' = calls + 1 /\ pc' = "ask"
      /\ UNCHANGED <<query, deck>>
  BY DEF Simulate, Answer
<1> HIDE DEF e
<1>3. CacheTypeOK /\ query \in Points /\ ~Hit(query)
  BY <1>2 DEF BOInv, BOTypeOK, NothingLost
<1>4. /\ CacheTypeOK'
      /\ \A i \in Slots : OccupiedSlot(i) => table'[i] = table[i]
      /\ \A i \in Slots :
             OccupiedSlot(i)' =>
                 OccupiedSlot(i) \/ table'[i] = [score |-> e, point |-> query]
      /\ n_entries' + n_overflows' = n_entries + n_overflows + 1
      /\ n_hits' = n_hits
  BY <1>1, <1>2, <1>3, StoreAfterMiss
<1>5. BOTypeOK'
  <2>1. best_score' \in Score /\ best_point' \in Points \cup {NoPoint}
    BY <1>1, <1>2, <1>3 DEF TrackBest, BOInv, BOTypeOK
  <2>2. calls' \in 0 .. Budget
    BY <1>2, BOAssumption DEF BOInv, BestTold, BOTypeOK
  <2>3. <<query, e>> \in Points \X Score
    BY <1>1, <1>3
  <2> QED
    BY <1>2, <1>4, <2>1, <2>2, <2>3 DEF BOInv, BOTypeOK
<1>6. NothingLost'
  <2>1. n_entries' + n_overflows' + n_hits' = calls'
    BY <1>2, <1>4 DEF BOInv, NothingLost, BOTypeOK, CacheTypeOK
  <2>2. ASSUME NEW i \in Slots, OccupiedSlot(i)'
        PROVE  <<table'[i].point, table'[i].score>> \in simulated'
    <3>1. CASE OccupiedSlot(i)
      BY <1>2, <1>4, <3>1 DEF BOInv, NothingLost, Occupied
    <3>2. CASE table'[i] = [score |-> e, point |-> query]
      BY <1>2, <3>2
    <3> QED
      BY <1>4, <2>2, <3>1, <3>2
  <2> QED
    BY <1>2, <2>1, <2>2 DEF NothingLost, Occupied
<1>7. AnswersAreSimulated'
  <2> SUFFICES ASSUME NEW a \in dataset'
               PROVE  \E r \in simulated' : Near(r[1], a[1]) /\ r[2] = a[2]
    BY DEF AnswersAreSimulated, Near
  <2>1. CASE a \in dataset
    BY <1>2, <2>1 DEF BOInv, AnswersAreSimulated
  <2>2. CASE a = <<query, e>>
    BY <1>2, <1>3, <2>2, CacheAssumption DEF Near
  <2> QED
    BY <1>2, <2>1, <2>2
<1>8. BestIsLeast'
  <2>1. \A r \in simulated : r \in Points \X Score /\ best_score <= r[2]
    BY DEF BOInv, BOTypeOK, BestIsLeast
  <2>2. best_score \in Score /\ best_score <= MaxScore
    BY CacheAssumption DEF BOInv, BOTypeOK, Score
  <2>3. CASE e < best_score
    <3>1. best_score' = e /\ best_point' = query
      BY <1>2, <2>3 DEF TrackBest
    <3>2. ASSUME NEW r \in simulated'
          PROVE  best_score' <= r[2]
      <4>1. CASE r \in simulated
        BY <1>1, <2>1, <2>2, <2>3, <3>1, <4>1, CacheAssumption DEF Score
      <4>2. CASE r = <<query, e>>
        BY <1>1, <3>1, <4>2, CacheAssumption DEF Score
      <4> QED
        BY <1>2, <4>1, <4>2
    <3>3. query # NoPoint /\ <<query, e>> \in simulated'
      BY <1>2, <1>3, BOAssumption
    <3> QED
      BY <3>1, <3>2, <3>3 DEF BestIsLeast
  <2>4. CASE ~(e < best_score)
    <3>1. best_score' = best_score /\ best_point' = best_point
      BY <1>2, <2>4 DEF TrackBest
    <3>2. best_score <= e
      BY <1>1, <2>2, <2>4, CacheAssumption DEF Score
    <3> QED
      BY <1>2, <2>1, <3>1, <3>2 DEF BOInv, BestIsLeast
  <2> QED
    BY <2>3, <2>4
<1>9. BestTold' /\ SavedIsBest'
  BY <1>2 DEF BOInv, BestTold, SavedIsBest
<1> QED
  BY <1>4, <1>5, <1>6, <1>7, <1>8, <1>9 DEF BOInv

\* The least score BayesOpt was told of is best_score.
LEMMA LeastAnswer ==
    ASSUME BOInv
    PROVE  /\ \A a \in dataset : a[2] \in Score /\ best_score <= a[2]
           /\ \A a \in dataset : (\A b \in dataset : a[2] <= b[2])
                                     => a[2] = best_score
           /\ best_point # NoPoint => <<best_point, best_score>> \in dataset
<1>1. \A a \in dataset : a[2] \in Score
  BY DEF BOInv, BOTypeOK
<1>2. \A a \in dataset : best_score <= a[2]
  BY DEF BOInv, AnswersAreSimulated, BestIsLeast
<1>3. best_point # NoPoint => <<best_point, best_score>> \in dataset
  BY DEF BOInv, BestIsLeast, BestTold
<1>4. ASSUME NEW a \in dataset, \A b \in dataset : a[2] <= b[2]
      PROVE  a[2] = best_score
  <2>1. a[2] \in Int /\ best_score \in Int /\ best_score <= a[2] /\ a[2] <= MaxScore
    BY <1>1, <1>2, CacheAssumption DEF BOInv, BOTypeOK, Score
  <2>2. CASE best_point = NoPoint
    BY <2>1, <2>2, CacheAssumption DEF BOInv, BestIsLeast
  <2>3. CASE best_point # NoPoint
    <3>1. a[2] <= best_score
      BY <1>3, <1>4, <2>3
    <3> QED
      BY <2>1, <3>1
  <2> QED
    BY <2>2, <2>3
<1> QED
  BY <1>1, <1>2, <1>3, <1>4

\* optimize() returns, or throws.
LEMMA StopInv ==
    ASSUME BOInv, Finish \/ Throw
    PROVE  BOInv' /\ table' = table
<1>1. UNCHANGED <<hash, table, n_entries, n_hits, n_overflows>>
  BY DEF Finish, Throw, cacheVars
<1>2. /\ UNCHANGED <<query, dataset, calls, best_score, best_point, simulated>>
      /\ pc' \in {"saved", "undefined"}
      /\ pc' = "undefined" => best_point = NoPoint
  BY DEF Finish, Throw
<1>3. deck' \in Points /\ (pc' = "saved" => <<deck', best_score>> \in dataset)
  <2>1. CASE Finish
    <3>1. PICK p \in Points : ReturnBest(p) /\ deck' = p
      BY <2>1 DEF Finish
    <3>2. PICK s \in Score : <<p, s>> \in dataset /\ \A a \in dataset : s <= a[2]
      BY <3>1 DEF ReturnBest
    <3>3. <<p, s>>[2] = best_score
      BY <3>2, LeastAnswer
    <3> QED
      BY <3>1, <3>2, <3>3
  <2>2. CASE Throw
    <3>1. CASE best_point = NoPoint
      BY <2>2, <3>1 DEF Throw, BOInv, BOTypeOK
    <3>2. CASE best_point # NoPoint
      BY <2>2, <3>2, LeastAnswer DEF Throw, BOInv, BOTypeOK
    <3> QED
      BY <3>1, <3>2
  <2> QED
    BY <2>1, <2>2
<1>4. BOTypeOK'
  BY <1>1, <1>2, <1>3 DEF BOInv, BOTypeOK, CacheTypeOK
<1>5. NothingLost'
  <2>1. Occupied' = Occupied
    BY <1>1 DEF Occupied, OccupiedSlot
  <2> QED
    BY <1>1, <1>2, <2>1 DEF BOInv, NothingLost
<1>6. AnswersAreSimulated' /\ BestIsLeast' /\ BestTold'
  BY <1>2 DEF BOInv, AnswersAreSimulated, BestIsLeast, BestTold, Near
<1>7. SavedIsBest'
  <2>1. \A a \in dataset' : best_score' <= a[2]
    BY <1>2, LeastAnswer
  <2> QED
    BY <1>2, <1>3, <2>1 DEF SavedIsBest
<1> QED
  BY <1>1, <1>4, <1>5, <1>6, <1>7 DEF BOInv

LEMMA BONextInv ==
    ASSUME BOInv, [BONext]_allVars
    PROVE  BOInv' /\ \A i \in Slots : OccupiedSlot(i) => table'[i] = table[i]
<1>1. CASE \E p \in Points : AskCached(p)
  BY <1>1, AskCachedInv
<1>2. CASE \E p \in Points : AskMissed(p)
  BY <1>2, AskMissedInv
<1>3. CASE \E s \in Score \cup {NaN} : Simulate(s)
  BY <1>3, SimulateInv
<1>4. CASE Finish \/ Throw
  BY <1>4, StopInv
<1>5. CASE UNCHANGED allVars
  <2>1. UNCHANGED <<hash, table, n_entries, n_hits, n_overflows>>
    BY <1>5 DEF allVars, cacheVars
  <2>2. UNCHANGED <<pc, query, dataset, calls, best_score, best_point, deck,
                    simulated>>
    BY <1>5 DEF allVars, boVars
  <2>3. BOTypeOK'
    BY <2>1, <2>2 DEF BOInv, BOTypeOK, CacheTypeOK
  <2>4. NothingLost'
    <3>1. Occupied' = Occupied /\ Hit(query)' = Hit(query)
      BY <2>1, <2>2
      DEF Occupied, OccupiedSlot, Hit, MatchAt, PassesTo, Passes, ProbeSlot
    <3> QED
      BY <2>1, <2>2, <3>1 DEF BOInv, NothingLost
  <2>5. AnswersAreSimulated' /\ BestIsLeast' /\ BestTold' /\ SavedIsBest'
    BY <2>2
    DEF BOInv, AnswersAreSimulated, BestIsLeast, BestTold, SavedIsBest, Near
  <2> QED
    BY <2>1, <2>3, <2>4, <2>5 DEF BOInv
<1> QED
  BY <1>1, <1>2, <1>3, <1>4, <1>5 DEF BONext, Ended

LEMMA BOInvariant == BOSpec => []BOInv
<1>1. BOInv /\ [BONext]_allVars => BOInv'
  BY BONextInv
<1> QED
  BY <1>1, BOInitInv, PTL DEF BOSpec

\* The optimizer's state, the cache included, keeps its types.
THEOREM BOTypeCorrect == BOSpec => []BOTypeOK
<1>1. BOInv => BOTypeOK
  BY DEF BOInv
<1> QED
  BY <1>1, BOInvariant, PTL

\* Every score evaluateSample() paid a simulation for is cached or counted as
\* dropped, and none is simulated that the cache could have answered.
THEOREM NothingEverLost == BOSpec => []NothingLost
<1>1. BOInv => NothingLost
  BY DEF BOInv
<1> QED
  BY <1>1, BOInvariant, PTL

\* Every answer is the score of a simulation of the vector or of one near it.
THEOREM AnswersAlwaysSimulated == BOSpec => []AnswersAreSimulated
<1>1. BOInv => AnswersAreSimulated
  BY DEF BOInv
<1> QED
  BY <1>1, BOInvariant, PTL

\* run_optimize() saves the vector with the least score it has seen, whether
\* BayesOpt returned or threw.
THEOREM SavedAlwaysBest == BOSpec => []SavedIsBest
<1>1. BOInv => SavedIsBest
  BY DEF BOInv
<1> QED
  BY <1>1, BOInvariant, PTL

\* The best vector is undefined at the end only if no sample was finite.
THEOREM UndefinedOnlyAfterFailures == BOSpec => []UndefinedOnlyIfAllFailed
<1>1. BOInv => UndefinedOnlyIfAllFailed
  <2> SUFFICES ASSUME BOInv, pc = "undefined", NEW a \in dataset
               PROVE  a[2] = MaxScore
    BY DEF UndefinedOnlyIfAllFailed
  <2>1. best_score = MaxScore
    BY DEF BOInv, BestTold, BestIsLeast
  <2>2. a[2] \in Score /\ best_score <= a[2]
    BY LeastAnswer
  <2> QED
    BY <2>1, <2>2, CacheAssumption DEF Score
<1> QED
  BY <1>1, BOInvariant, PTL

\* Once in the optimizer's cache, a vector and its score never change.
THEOREM AnswersNeverChange == BOSpec => AnswersFrozen
<1>1. BOInv /\ [BONext]_allVars =>
          [\A i \in Slots : OccupiedSlot(i) => table'[i] = table[i]]_allVars
  BY BONextInv
<1> QED
  BY <1>1, BOInvariant, PTL DEF BOSpec, AnswersFrozen

\* The best vector is tracked through every answer and saved at every end of
\* run_optimize(), unless no sample was finite.
THEOREM BestAlwaysSaved == BOSpec => []BestSaved
<1>1. BOInv => BestIsLeast
  BY DEF BOInv
<1>2. BestIsLeast /\ SavedIsBest /\ UndefinedOnlyIfAllFailed => BestSaved
  BY DEF BestSaved
<1> QED
  BY <1>1, <1>2, BOInvariant, SavedAlwaysBest, UndefinedOnlyAfterFailures, PTL
=============================================================================
