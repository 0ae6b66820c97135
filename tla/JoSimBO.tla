------------------------------ MODULE JoSimBO ------------------------------
(***************************************************************************)
(* BOOptimizer::run_optimize() and JoSimBO::evaluateSample()               *)
(* (bo_optimizer.cpp): the BayesOpt library asks for the score of one      *)
(* parameter vector after another; each answer comes from the cache or     *)
(* from a simulation whose score is then cached; at the end the deck is    *)
(* set to the best vector and saved.  BayesOpt is external: it may ask for *)
(* any vector and may throw at any time.                                   *)
(***************************************************************************)
EXTENDS EvalCache

CONSTANTS
    Budget,   \* calls BayesOpt makes of evaluateSample()
    NoPoint   \* best_point_found before any sample beat DBL_MAX

ASSUME BOAssumption ==
    /\ Budget \in Nat \ {0}
    /\ NoPoint \notin Points

VARIABLES
    pc,           \* "ask", "simulate", "saved", or "undefined" behaviour
    query,        \* the vector being evaluated
    dataset,      \* what BayesOpt was told: <<vector, score>> pairs
    calls,        \* number of answers given
    best_score,
    best_point,   \* best_point_found
    deck,         \* the vector the deck's parameters are set to
    simulated     \* history: <<vector, score>> of each run of the simulator

boVars == <<pc, query, dataset, calls, best_score, best_point, deck, simulated>>
allVars == <<cacheVars, boVars>>

\* run_optimize() is entered: a fresh cache, the deck at its start vector.
BOInit ==
    /\ CacheInit
    /\ pc = "ask"
    /\ query = Origin
    /\ dataset = {}
    /\ calls = 0
    /\ best_score = MaxScore
    /\ best_point = NoPoint
    /\ deck \in Points
    /\ simulated = {}

Answer(p, s) ==
    /\ dataset' = dataset \cup {<<p, s>>}
    /\ calls' = calls + 1
    /\ pc' = "ask"

\* evaluateSample() finds the vector, or a near one, in the cache.
AskCached(p) ==
    /\ pc = "ask" /\ calls < Budget
    /\ Hit(p)
    /\ Lookup(p)
    /\ query' = p
    /\ Answer(p, LookupResult(p))
    /\ UNCHANGED <<best_score, best_point, deck, simulated>>

AskWithoutCache(p) ==
    /\ pc = "ask" /\ calls < Budget
    /\ query' = p
    /\ deck' = p
    /\ pc' = "simulate"
    /\ UNCHANGED <<cacheVars, dataset, calls, best_score, best_point, simulated>>
\* evaluateSample() misses: the deck is set up for a simulation.
AskMissed(p) ==
    /\ pc = "ask" /\ calls < Budget
    /\ ~Hit(p)
    /\ Lookup(p)
    /\ query' = p
    /\ deck' = p
    /\ pc' = "simulate"
    /\ UNCHANGED <<dataset, calls, best_score, best_point, simulated>>

SampleScoreInfinite(s) == IF s = NaN THEN MaxScore + 1 ELSE s
\* An objective that is not finite counts as the worst score.
SampleScore(s) == IF s = NaN THEN MaxScore ELSE s

TrackBest(s) ==
    IF s < best_score
    THEN best_score' = s /\ best_point' = query
    ELSE UNCHANGED <<best_score, best_point>>

\* The simulation ends with the objective s; the score is stored.
Simulate(s) ==
    /\ pc = "simulate"
    /\ simulated' = simulated \cup {<<query, SampleScore(s)>>}
    /\ Store(query, SampleScore(s))
    /\ TrackBest(SampleScore(s))
    /\ Answer(query, SampleScore(s))
    /\ UNCHANGED <<query, deck>>

\* optimize() returns the vector of the best answer.
ReturnBest(p) ==
    \E s \in Score :
        /\ <<p, s>> \in dataset
        /\ \A a \in dataset : s <= a[2]

Finish ==
    /\ pc = "ask" /\ calls = Budget
    /\ \E p \in Points : ReturnBest(p) /\ deck' = p
    /\ pc' = "saved"
    /\ UNCHANGED <<cacheVars, query, dataset, calls, best_score, best_point,
                   simulated>>

ThrowKeepingDeck ==
    /\ pc = "ask"
    /\ pc' = IF best_point = NoPoint THEN "undefined" ELSE "saved"
    /\ UNCHANGED <<cacheVars, query, dataset, calls, best_score, best_point,
                   deck, simulated>>
\* BayesOpt throws between two samples; the best vector known so far is used,
\* and reading it is undefined when there is none.
Throw ==
    /\ pc = "ask"
    /\ IF best_point = NoPoint
       THEN pc' = "undefined" /\ UNCHANGED deck
       ELSE pc' = "saved" /\ deck' = best_point
    /\ UNCHANGED <<cacheVars, query, dataset, calls, best_score, best_point,
                   simulated>>

Ended == pc \in {"saved", "undefined"} /\ UNCHANGED allVars

BONext ==
    \/ \E p \in Points : AskCached(p) \/ AskMissed(p)
    \/ \E s \in Score \cup {NaN} : Simulate(s)
    \/ Finish
    \/ Throw
    \/ Ended

BOSpec == BOInit /\ [][BONext]_allVars /\ WF_allVars(BONext)

(***************************************************************************)
(* Properties                                                              *)
(***************************************************************************)
BOTypeOK ==
    /\ CacheTypeOK
    /\ pc \in {"ask", "simulate", "saved", "undefined"}
    /\ query \in Points
    /\ dataset \subseteq Points \X Score
    /\ calls \in 0 .. Budget
    /\ best_score \in Score
    /\ best_point \in Points \cup {NoPoint}
    /\ deck \in Points
    /\ simulated \subseteq Points \X Score

\* Because every miss is followed by the store of that same vector, the
\* optimizer's cache only ever grows: an entry, vector and score, never changes
\* (the averaging branch of store() is dead for this caller), so a vector gets
\* the same answer from the cache however often it is asked again.
AnswersFrozen ==
    [][\A i \in Slots : OccupiedSlot(i) => table'[i] = table[i]]_allVars

\* No simulation is repeated while its result is held: what is being simulated
\* has no match the cache would find, and every score the simulator gave is in
\* the cache or was counted as an overflow.
NothingLost ==
    /\ pc = "simulate" => ~Hit(query)
    /\ n_entries + n_overflows + n_hits = calls
    /\ \A i \in Occupied : <<table[i].point, table[i].score>> \in simulated

\* Whatever BayesOpt was told about a vector is the score of a simulation of a
\* vector within eps of it.
AnswersAreSimulated ==
    \A a \in dataset : \E r \in simulated : Near(r[1], a[1]) /\ r[2] = a[2]

\* best_score is the least score simulated and best_point_found a vector that
\* had it; without one, every sample was as bad as can be.
BestIsLeast ==
    /\ \A r \in simulated : best_score <= r[2]
    /\ IF best_point = NoPoint
       THEN best_score = MaxScore
       ELSE <<best_point, best_score>> \in simulated

\* Whether BayesOpt returns or throws, the vector that is saved is one that it
\* was told has the least score of all samples, and that score was simulated
\* within eps of it.
SavedIsBest ==
    pc = "saved" =>
        /\ <<deck, best_score>> \in dataset
        /\ \A a \in dataset : best_score <= a[2]

\* Reading an unset best vector needs a run in which no sample was finite.
UndefinedOnlyIfAllFailed ==
    pc = "undefined" => \A a \in dataset : a[2] = MaxScore

\* The best vector is tracked, and is the one left in the deck, through cached
\* and simulated answers, a normal return and an exception at any time.
BestSaved == BestIsLeast /\ SavedIsBest /\ UndefinedOnlyIfAllFailed
=============================================================================
