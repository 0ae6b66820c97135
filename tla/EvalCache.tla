----------------------------- MODULE EvalCache -----------------------------
(***************************************************************************)
(* The evaluation cache of the optimizers (eval_cache.h, eval_cache.cpp):  *)
(* an open-addressing table with triangular probing that maps a parameter  *)
(* vector to the score the simulator gave it.  A slot whose score is not   *)
(* finite is empty; the first empty slot on a probe path ends a search.    *)
(* A vector matches a stored one when the two are closer than eps.         *)
(*                                                                         *)
(* Vectors are the members of Points and "closer than eps" is the relation *)
(* NearPairs, which is reflexive but not transitive.  Scores are integers  *)
(* in -MaxScore..MaxScore (MaxScore stands for DBL_MAX); NaN stands for    *)
(* every score isfinite() rejects.                                         *)
(***************************************************************************)
EXTENDS Integers, FiniteSets

CONSTANTS
    Points,      \* the parameter vectors an optimizer may ask about
    Origin,      \* the all-zero vector the fresh table is filled with
    NearPairs,   \* pairs of vectors closer than eps
    Cap,         \* number of slots (a power of two in the code)
    MaxProbe,    \* MAX_PROBE: slots tried before giving up
    MaxScore,    \* the largest finite score
    NaN,         \* a score that is not finite
    StoreScores, \* the scores the users of the bare cache store
    MaxCount     \* bound on the three statistics counters of a bare cache

ASSUME CacheAssumption ==
    /\ Origin \in Points
    /\ NearPairs \subseteq Points \X Points
    /\ \A p \in Points : <<p, p>> \in NearPairs
    /\ Cap \in Nat \ {0}
    /\ MaxProbe \in Nat \ {0}
    /\ MaxScore \in Nat \ {0}
    /\ NaN \notin Int
    /\ StoreScores \subseteq -MaxScore..MaxScore
    /\ \A s, t \in StoreScores : s + t \in -MaxScore..MaxScore
    /\ MaxCount \in Nat

VARIABLES
    hash,        \* the locality sensitive hash, fixed by random hyper-planes
    table,       \* the slots
    n_entries,   \* slots filled
    n_hits,      \* matches found by lookup and store
    n_overflows  \* scores dropped because every probed slot was taken

cacheVars == <<hash, table, n_entries, n_hits, n_overflows>>

Score == -MaxScore..MaxScore
Slots == 0 .. Cap - 1
Probes == 0 .. MaxProbe - 1

(***************************************************************************)
(* Searching                                                               *)
(***************************************************************************)
Near(p, q) == <<p, q>> \in NearPairs

\* The slot the k-th probe of a search for p looks at.
ProbeSlot(p, k) == (hash[p] + (k * (k + 1)) \div 2) % Cap

OccupiedSlot(i) == table[i].score # NaN

\* The k-th probe neither ends the search for p nor matches it.
Passes(p, k) ==
    /\ OccupiedSlot(ProbeSlot(p, k))
    /\ ~Near(table[ProbeSlot(p, k)].point, p)

PassesTo(p, k) == \A j \in 0 .. k - 1 : Passes(p, j)

\* The search for p stops at an empty slot, or at a match, on its k-th probe.
VacantAt(p, k) == PassesTo(p, k) /\ ~OccupiedSlot(ProbeSlot(p, k))

MatchByHash(p, k) == PassesTo(p, k) /\ OccupiedSlot(ProbeSlot(p, k))
MatchAt(p, k) ==
    /\ PassesTo(p, k)
    /\ OccupiedSlot(ProbeSlot(p, k))
    /\ Near(table[ProbeSlot(p, k)].point, p)

Hit(p) == \E k \in Probes : MatchAt(p, k)

\* lookup(): the score of the first match, NaN on a miss.
LookupResult(p) ==
    IF Hit(p)
    THEN table[ProbeSlot(p, CHOOSE k \in Probes : MatchAt(p, k))].score
    ELSE NaN

(***************************************************************************)
(* Operations                                                              *)
(***************************************************************************)
\* compute_hash(): what the random hyper-planes may make of each vector.
Hashes == [Points -> Slots]

CacheInit ==
    /\ hash \in Hashes
    /\ table = [i \in Slots |-> [score |-> NaN, point |-> Origin]]
    /\ n_entries = 0
    /\ n_hits = 0
    /\ n_overflows = 0

Lookup(p) ==
    /\ n_hits' = IF Hit(p) THEN n_hits + 1 ELSE n_hits
    /\ UNCHANGED <<hash, table, n_entries, n_overflows>>

\* (old + new) / 2.0; the sum of two huge scores is infinite.
Average(old, new) ==
    IF old + new \in Score THEN (old + new) \div 2 ELSE NaN

StoreLastProbe(p, s) ==
    /\ \E k \in Probes :
         /\ ~OccupiedSlot(ProbeSlot(p, k))
         /\ \A j \in (k + 1) .. (MaxProbe - 1) : OccupiedSlot(ProbeSlot(p, j))
         /\ table' = [table EXCEPT ![ProbeSlot(p, k)] =
                                       [score |-> s, point |-> p]]
    /\ n_entries' = n_entries + 1
    /\ UNCHANGED <<hash, n_hits, n_overflows>>
StoreVacant(p, s) ==
    /\ \E k \in Probes :
         /\ VacantAt(p, k)
         /\ table' = [table EXCEPT ![ProbeSlot(p, k)] =
                                       [score |-> s, point |-> p]]
    /\ n_entries' = n_entries + 1
    /\ UNCHANGED <<hash, n_hits, n_overflows>>

StoreMatchCounted(p, s) ==
    /\ \E k \in Probes :
         /\ MatchAt(p, k)
         /\ table' = [table EXCEPT ![ProbeSlot(p, k)].score = Average(@, s)]
    /\ n_entries' = n_entries + 1
    /\ UNCHANGED <<hash, n_hits, n_overflows>>
StoreMatchMoving(p, s) ==
    /\ \E k \in Probes :
         /\ MatchAt(p, k)
         /\ table' = [table EXCEPT ![ProbeSlot(p, k)] =
                         [score |-> Average(@.score, s), point |-> p]]
    /\ n_hits' = n_hits + 1
    /\ UNCHANGED <<hash, n_entries, n_overflows>>
StoreMatch(p, s) ==
    /\ \E k \in Probes :
         /\ MatchAt(p, k)
         /\ table' = [table EXCEPT ![ProbeSlot(p, k)].score = Average(@, s)]
    /\ n_hits' = n_hits + 1
    /\ UNCHANGED <<hash, n_entries, n_overflows>>

StoreOverflow(p, s) ==
    /\ PassesTo(p, MaxProbe)
    /\ n_overflows' = n_overflows + 1
    /\ UNCHANGED <<hash, table, n_entries, n_hits>>

StoreIgnored(s) == s = NaN /\ UNCHANGED cacheVars

Store(p, s) ==
    \/ StoreIgnored(s)
    \/ s # NaN /\ StoreVacant(p, s)
    \/ s # NaN /\ StoreMatch(p, s)
    \/ s # NaN /\ StoreOverflow(p, s)

(***************************************************************************)
(* A bare cache: any lookups and stores, as test_eval_cache() makes them.  *)
(* It stops when the statistics have counted MaxCount events.              *)
(***************************************************************************)
CountersFull == n_entries + n_hits + n_overflows = MaxCount

CacheNext ==
    \/ /\ ~CountersFull
       /\ \E p \in Points : Lookup(p)
    \/ /\ ~CountersFull
       /\ \E p \in Points, s \in StoreScores \cup {NaN} : Store(p, s)
    \/ CountersFull /\ UNCHANGED cacheVars

CacheSpec == CacheInit /\ [][CacheNext]_cacheVars

(***************************************************************************)
(* Properties                                                              *)
(***************************************************************************)
CacheTypeOK ==
    /\ hash \in [Points -> Slots]
    /\ table \in [Slots -> [score : Score \cup {NaN}, point : Points]]
    /\ n_entries \in Nat
    /\ n_hits \in Nat
    /\ n_overflows \in Nat

Occupied == {i \in Slots : OccupiedSlot(i)}

\* Every stored vector is found again: a search for the vector of a filled
\* slot reaches that very slot, passing only filled slots that do not match
\* (lookup() and store() of eval_cache.cpp walk the same probe path, nothing
\* is ever deleted, and a hole or an earlier match on the path would hide the
\* entry for good).
EntriesReachable ==
    \A i \in Occupied :
        \E k \in Probes :
            /\ ProbeSlot(table[i].point, k) = i
            /\ MatchAt(table[i].point, k)

\* size() is the number of filled slots: an entry is counted once, when its
\* slot stops being empty, and never becomes empty again.
SizeIsOccupancy == n_entries = Cardinality(Occupied)

\* The cache is well formed and counts what it holds.
CacheConsistent == CacheTypeOK /\ SizeIsOccupancy

\* A step never moves an entry: a filled slot keeps its vector.
EntriesStay ==
    [][\A i \in Slots : OccupiedSlot(i) =>
          OccupiedSlot(i)' /\ table'[i].point = table[i].point]_cacheVars
=============================================================================
