-------------------------- MODULE SimAnneal_proofs --------------------------
(***************************************************************************)
(* What the simulated annealer keeps true for every set of parameters,     *)
(* objective, reject function, schedule and choice of its limits.          *)
(*                                                                         *)
(* The inductive invariant AnnealInv joins the baseline and the best       *)
(* vector: a reset makes the best vector the baseline, so each of the two  *)
(* needs the other.                                                        *)
(***************************************************************************)
EXTENDS SimAnneal, TLAPS

\* Where the scores in the variables come from, at the points where they are
\* between two uses.
Bookkeeping ==
    /\ pc = "start" => \A v \in Vectors : eval[v] = Unknown
    /\ pc = "decide" => eval[deck] = new_eval
    /\ pc = "done" => deck = best_val
    /\ changed_flag => changed_param \in Params
    /\ pc = "draw" => tries < MaxTries

AnnealInv == TypeOK /\ Bookkeeping /\ OldEvalIsBaseline /\ BestIsLeast

LEMMA ScoresAreKnown == MaybeScore \subseteq Int \cup {NaN} /\ Unknown \notin MaybeScore
  BY AnnealAssumption DEF MaybeScore

\* A simulation adds to what is known and changes none of it.
LEMMA ScoredKeeps ==
    ASSUME TypeOK, NEW e \in MaybeScore, Scored(e)
    PROVE  /\ eval' \in [Vectors -> MaybeScore \cup {Unknown}]
           /\ eval'[deck] = e
           /\ \A v \in Vectors : v # deck => eval'[v] = eval[v]
           /\ \A v \in Vectors : eval[v] # Unknown => eval'[v] = eval[v]
<1>1. deck \in Vectors /\ eval \in [Vectors -> MaybeScore \cup {Unknown}]
  BY DEF TypeOK
<1> QED
  BY <1>1 DEF Scored

\* Moving a parameter and putting the old value back is putting it back.
LEMMA MoveBack ==
    ASSUME NEW d \in Vectors, NEW p \in Params, NEW v \in Values, NEW w \in Values
    PROVE  /\ [d EXCEPT ![p] = v] \in Vectors
           /\ [[d EXCEPT ![p] = v] EXCEPT ![p] = w] = [d EXCEPT ![p] = w]
           /\ [d EXCEPT ![p] = d[p]] = d
  BY DEF Vectors

LEMMA NextStepType ==
    ASSUME TypeOK, NextStep
    PROVE  phase' \in Nat /\ step' \in Nat /\ pc' \in {"change", "restore"}
  BY DEF NextStep, TypeOK

LEMMA InitAnneal == Init => AnnealInv
<1> SUFFICES ASSUME Init
             PROVE  AnnealInv
  OBVIOUS
<1>1. TypeOK
  <2>1. /\ deck \in Vectors /\ best_val \in Vectors
        /\ eval \in [Vectors -> MaybeScore \cup {Unknown}]
        /\ old_eval \in MaybeScore /\ new_eval \in MaybeScore
        /\ best_eval \in MaybeScore
    BY DEF Init, MaybeScore
  <2>2. /\ n_accept \in [Params -> 0 .. RejMax]
        /\ n_reject \in [Params -> Nat]
        /\ acc_pos \in [Params -> -1 .. 1]
        /\ range \in [Params -> MinRange .. MaxRange]
    BY AnnealAssumption DEF Init
  <2>3. /\ t_max \in 0 .. MaxReset /\ changed_value \in Values
        /\ tries \in 0 .. MaxTries /\ draws \in 0 .. MaxDraws
    BY AnnealAssumption DEF Init, Values
  <2> QED
    BY <2>1, <2>2, <2>3 DEF Init, TypeOK
<1> QED
  BY <1>1
  DEF Init, AnnealInv, Bookkeeping, OldEvalIsBaseline, BestIsLeast

\* optimize() scores the starting point.
LEMMA StartInv ==
    ASSUME AnnealInv, NEW e \in MaybeScore, Start(e)
    PROVE  AnnealInv'
<1>1. /\ pc = "start" /\ Scored(e) /\ old_eval' = e
      /\ best_eval' = e /\ best_val' = deck
      /\ pc' \in {"restore", "change"}
      /\ UNCHANGED <<deck, phase, step, new_eval, t_max, n_accept, n_reject,
                     acc_pos, range, changed_param, changed_value, changed_flag,
                     tries, draws, accepted>>
  BY DEF Start, SaveBest, rangeVars, changeVars
<1>2. /\ eval' \in [Vectors -> MaybeScore \cup {Unknown}]
      /\ eval'[deck] = e
      /\ \A v \in Vectors : v # deck => eval'[v] = Unknown
  BY <1>1, ScoredKeeps DEF AnnealInv, Bookkeeping
<1>3. TypeOK'
  BY <1>1, <1>2 DEF AnnealInv, TypeOK
<1>4. Bookkeeping'
  BY <1>1 DEF AnnealInv, Bookkeeping
<1>5. OldEvalIsBaseline'
  BY <1>1, <1>2 DEF OldEvalIsBaseline, Baseline
<1>6. BestIsLeast'
  <2>1. deck \in Vectors
    BY DEF AnnealInv, TypeOK
  <2>2. ASSUME NEW v \in Vectors, eval'[v] \in Scores
        PROVE  e <= eval'[v]
    <3>1. v = deck
      BY <1>2, <2>2, AnnealAssumption
    <3>2. eval'[v] = e /\ e \in Int
      BY <1>2, <2>2, <3>1, AnnealAssumption
    <3> QED
      BY <3>2
  <2> QED
    BY <1>1, <1>2, <2>1, <2>2 DEF BestIsLeast
<1> QED
  BY <1>3, <1>4, <1>5, <1>6 DEF AnnealInv

\* The counters and ranges of the parameters stay within their limits.
LEMMA CreditType ==
    ASSUME TypeOK, NEW p \in Params, CreditAccept(p)
    PROVE  /\ n_accept' \in [Params -> 0 .. RejMax]
           /\ n_reject' \in [Params -> Nat]
           /\ acc_pos' \in [Params -> -1 .. 1]
           /\ range' \in [Params -> MinRange .. MaxRange]
<1>1. /\ n_accept \in [Params -> 0 .. RejMax] /\ n_reject \in [Params -> Nat]
      /\ acc_pos \in [Params -> -1 .. 1]
      /\ range \in [Params -> MinRange .. MaxRange]
      /\ RejMax \in Nat /\ MinRange \in Nat /\ MaxRange \in Nat
  BY AnnealAssumption DEF TypeOK
<1>2. n_reject' \in [Params -> Nat] /\ acc_pos' \in [Params -> -1 .. 1]
  BY <1>1 DEF CreditAccept
<1>3. MinOf(range[p] + 1, MaxRange) \in MinRange .. MaxRange
  BY <1>1 DEF MinOf
<1>4. CASE n_accept[p] + 1 > RejMax
  BY <1>1, <1>2, <1>3, <1>4 DEF CreditAccept
<1>5. CASE ~(n_accept[p] + 1 > RejMax)
  <2>1. n_accept[p] + 1 \in 0 .. RejMax
    BY <1>1, <1>5
  <2> QED
    BY <1>1, <1>2, <1>5, <2>1 DEF CreditAccept
<1> QED
  BY <1>4, <1>5

LEMMA DebitType ==
    ASSUME TypeOK, NEW p \in Params, DebitReject(p)
    PROVE  /\ n_accept' \in [Params -> 0 .. RejMax]
           /\ n_reject' \in [Params -> Nat]
           /\ acc_pos' \in [Params -> -1 .. 1]
           /\ range' \in [Params -> MinRange .. MaxRange]
<1>1. /\ n_accept \in [Params -> 0 .. RejMax] /\ n_reject \in [Params -> Nat]
      /\ acc_pos \in [Params -> -1 .. 1]
      /\ range \in [Params -> MinRange .. MaxRange]
      /\ RejMax \in Nat /\ MinRange \in Nat /\ MaxRange \in Nat
  BY AnnealAssumption DEF TypeOK
<1>2. n_accept' \in [Params -> 0 .. RejMax] /\ acc_pos' = acc_pos
  BY <1>1 DEF DebitReject
<1>3. MaxOf(range[p] - 1, MinRange) \in MinRange .. MaxRange
  BY <1>1 DEF MaxOf
<1>4. CASE n_reject[p] + 1 > RejMax
  BY <1>1, <1>2, <1>3, <1>4 DEF DebitReject
<1>5. CASE ~(n_reject[p] + 1 > RejMax)
  BY <1>1, <1>2, <1>5 DEF DebitReject
<1> QED
  BY <1>4, <1>5

LEMMA BeginChangeInv ==
    ASSUME AnnealInv, BeginChange
    PROVE  AnnealInv'
<1>1. /\ pc = "change" /\ pc' = "pick" /\ tries' = 0
      /\ UNCHANGED <<deck, phase, step, eval, old_eval, new_eval, best_eval,
                     best_val, t_max, changed_param, changed_value, changed_flag,
                     draws, accepted>>
  BY DEF BeginChange, searchVars, changeVars
<1>2. /\ n_accept' \in [Params -> 0 .. RejMax]
      /\ n_reject' \in [Params -> Nat]
      /\ acc_pos' \in [Params -> -1 .. 1]
      /\ range' \in [Params -> MinRange .. MaxRange]
  <2>1. CASE changed_flag
    BY <2>1, CreditType DEF BeginChange, AnnealInv, Bookkeeping
  <2>2. CASE ~changed_flag
    BY <2>2 DEF BeginChange, rangeVars, AnnealInv, TypeOK
  <2> QED
    BY <2>1, <2>2
<1>3. TypeOK'
  BY <1>1, <1>2, AnnealAssumption DEF AnnealInv, TypeOK
<1> QED
  BY <1>1, <1>3
  DEF AnnealInv, Bookkeeping, OldEvalIsBaseline, Baseline, BestIsLeast

LEMMA PickParamInv ==
    ASSUME AnnealInv, NEW p \in Params, PickParam(p)
    PROVE  AnnealInv'
<1>1. /\ pc = "pick" /\ pc' = "draw" /\ draws' = 0 /\ tries < MaxTries
      /\ changed_param' = p /\ changed_value' = deck[p] /\ changed_flag' = TRUE
      /\ UNCHANGED <<deck, phase, step, eval, old_eval, new_eval, best_eval,
                     best_val, t_max, n_accept, n_reject, acc_pos, range,
                     tries, accepted>>
  BY DEF PickParam, searchVars, rangeVars
<1>2. deck[p] \in Values /\ 0 \in 0 .. MaxDraws
  BY AnnealAssumption DEF AnnealInv, TypeOK, Vectors
<1>3. TypeOK'
  BY <1>1, <1>2 DEF AnnealInv, TypeOK
<1>4. OldEvalIsBaseline'
  <2>1. Baseline' = deck
    BY <1>1, <1>2, MoveBack DEF Baseline, Moved, AnnealInv, TypeOK
  <2>2. Baseline = deck /\ eval[deck] = old_eval
    BY <1>1 DEF Baseline, AnnealInv, OldEvalIsBaseline
  <2> QED
    BY <1>1, <2>1, <2>2 DEF OldEvalIsBaseline
<1>5. Bookkeeping' /\ BestIsLeast'
  BY <1>1 DEF AnnealInv, Bookkeeping, BestIsLeast
<1> QED
  BY <1>3, <1>4, <1>5 DEF AnnealInv

LEMMA DrawInv ==
    ASSUME AnnealInv, NEW v \in Values, Draw(v)
    PROVE  AnnealInv'
<1>1. /\ pc = "draw" /\ pc' \in {"draw", "evaluate"}
      /\ draws < MaxDraws /\ draws' = draws + 1
      /\ deck' = [deck EXCEPT ![changed_param] = v]
      /\ UNCHANGED <<phase, step, eval, old_eval, new_eval, best_eval,
                     best_val, t_max, changed_param, changed_value, changed_flag,
                     n_accept, n_reject, acc_pos, range, tries, accepted>>
  BY DEF Draw, Moved, searchVars, rangeVars, changeVars
<1>2. /\ deck \in Vectors /\ changed_param \in Params /\ changed_value \in Values
      /\ eval[[deck EXCEPT ![changed_param] = changed_value]] = old_eval
      /\ changed_flag
  BY <1>1 DEF AnnealInv, TypeOK, OldEvalIsBaseline, Baseline, Moved
<1>3. deck' \in Vectors
  BY <1>1, <1>2, MoveBack
<1>4. draws' \in 0 .. MaxDraws
  BY <1>1, AnnealAssumption DEF AnnealInv, TypeOK
<1>5. TypeOK'
  BY <1>1, <1>3, <1>4 DEF AnnealInv, TypeOK
<1>6. OldEvalIsBaseline'
  <2>1. [[deck EXCEPT ![changed_param] = v] EXCEPT ![changed_param] = changed_value]
           = [deck EXCEPT ![changed_param] = changed_value]
    BY <1>2, MoveBack
  <2>2. Baseline' = [[deck EXCEPT ![changed_param] = v]
                         EXCEPT ![changed_param] = changed_value]
    <3>1. pc' \in {"draw", "evaluate", "decide"}
      BY <1>1
    <3>2. Baseline' = [deck' EXCEPT ![changed_param'] = changed_value']
      BY <3>1 DEF Baseline, Moved
    <3> QED
      BY <1>1, <3>2
  <2> QED
    BY <1>1, <1>2, <2>1, <2>2 DEF OldEvalIsBaseline
<1>7. Bookkeeping' /\ BestIsLeast'
  BY <1>1 DEF AnnealInv, Bookkeeping, BestIsLeast
<1> QED
  BY <1>5, <1>6, <1>7 DEF AnnealInv

LEMMA GiveUpInv ==
    ASSUME AnnealInv, GiveUp
    PROVE  AnnealInv'
<1>1. /\ pc = "draw" /\ pc' = "pick" /\ tries' = tries + 1
      /\ deck' = [deck EXCEPT ![changed_param] = changed_value]
      /\ n_reject' = [n_reject EXCEPT ![changed_param] = @ + 1]
      /\ UNCHANGED <<phase, step, eval, old_eval, new_eval, best_eval,
                     best_val, t_max, changed_param, changed_value, changed_flag,
                     n_accept, acc_pos, range, draws, accepted>>
  BY DEF GiveUp, Moved, searchVars, changeVars
<1>2. /\ deck \in Vectors /\ changed_param \in Params /\ changed_value \in Values
      /\ eval[[deck EXCEPT ![changed_param] = changed_value]] = old_eval
      /\ changed_flag
  BY <1>1 DEF AnnealInv, TypeOK, OldEvalIsBaseline, Baseline, Moved
<1>3. deck' \in Vectors
  BY <1>1, <1>2, MoveBack
<1>4. tries' \in 0 .. MaxTries /\ n_reject' \in [Params -> Nat]
  <2>1. tries \in 0 .. MaxTries /\ tries < MaxTries /\ n_reject \in [Params -> Nat]
    BY <1>1 DEF AnnealInv, TypeOK, Bookkeeping
  <2>2. tries' \in 0 .. MaxTries
    BY <1>1, <2>1, AnnealAssumption
  <2>3. n_reject' \in [Params -> Nat]
    BY <1>1, <1>2, <2>1
  <2> QED
    BY <2>2, <2>3
<1>5. TypeOK'
  BY <1>1, <1>3, <1>4 DEF AnnealInv, TypeOK
<1>6. OldEvalIsBaseline'
  BY <1>1, <1>2 DEF OldEvalIsBaseline, Baseline
<1>7. Bookkeeping' /\ BestIsLeast'
  BY <1>1 DEF AnnealInv, Bookkeeping, BestIsLeast
<1> QED
  BY <1>5, <1>6, <1>7 DEF AnnealInv

\* A simulation leaves the score of the baseline and of the best vector alone.
LEMMA EvaluateKeeps ==
    ASSUME AnnealInv, NEW e \in MaybeScore, pc = "evaluate", Scored(e)
    PROVE  /\ eval' \in [Vectors -> MaybeScore \cup {Unknown}]
           /\ eval'[deck] = e
           /\ \A v \in Vectors : v # deck => eval'[v] = eval[v]
           /\ eval'[Moved(changed_value)] = old_eval
           /\ eval'[best_val] = best_eval
           /\ changed_flag /\ changed_param \in Params
           /\ Moved(changed_value) \in Vectors
<1>1. /\ old_eval \in MaybeScore /\ best_eval \in MaybeScore
      /\ deck \in Vectors /\ best_val \in Vectors /\ changed_value \in Values
  BY DEF AnnealInv, TypeOK
<1>2. changed_flag /\ changed_param \in Params
  BY DEF AnnealInv, OldEvalIsBaseline
<1>3. eval[Moved(changed_value)] = old_eval
  BY DEF AnnealInv, OldEvalIsBaseline, Baseline
<1>4. eval[best_val] = best_eval
  BY DEF AnnealInv, BestIsLeast
<1>5. Moved(changed_value) \in Vectors
  BY <1>1, <1>2, MoveBack DEF Moved
<1> HIDE DEF Moved
<1>6. /\ eval' \in [Vectors -> MaybeScore \cup {Unknown}]
      /\ eval'[deck] = e
      /\ \A v \in Vectors : v # deck => eval'[v] = eval[v]
      /\ \A v \in Vectors : eval[v] # Unknown => eval'[v] = eval[v]
  BY ScoredKeeps DEF AnnealInv
<1> QED
  BY <1>1, <1>2, <1>3, <1>4, <1>5, <1>6, ScoresAreKnown

LEMMA FoundBetterInv ==
    ASSUME AnnealInv, NEW e \in MaybeScore, FoundBetter(e)
    PROVE  AnnealInv'
<1>1. /\ pc = "evaluate" /\ Scored(e) /\ Better(e, best_eval)
      /\ new_eval' = e /\ best_eval' = e /\ best_val' = deck
      /\ t_max' = MaxReset /\ pc' = "decide"
      /\ UNCHANGED <<deck, phase, step, old_eval, n_accept, n_reject, acc_pos,
                     range, changed_param, changed_value, changed_flag, tries,
                     draws, accepted>>
  BY DEF FoundBetter, SaveBest, rangeVars, changeVars
<1>2. /\ eval' \in [Vectors -> MaybeScore \cup {Unknown}]
      /\ eval'[deck] = e
      /\ \A v \in Vectors : v # deck => eval'[v] = eval[v]
      /\ eval'[Moved(changed_value)] = old_eval
      /\ changed_flag /\ changed_param \in Params
  BY <1>1, EvaluateKeeps
<1>3. MaxReset \in 0 .. MaxReset
  BY AnnealAssumption
<1>4. TypeOK'
  BY <1>1, <1>2, <1>3 DEF AnnealInv, TypeOK
<1>5. Bookkeeping'
  BY <1>1, <1>2 DEF Bookkeeping
<1>6. OldEvalIsBaseline'
  BY <1>1, <1>2 DEF OldEvalIsBaseline, Baseline, Moved
<1>7. BestIsLeast'
  <2>1. /\ e \in Int /\ best_eval \in Int /\ e < best_eval /\ best_eval # NaN
        /\ deck \in Vectors
    BY <1>1, ScoresAreKnown DEF Better, AnnealInv, TypeOK
  <2>2. ASSUME NEW v \in Vectors, eval'[v] \in Scores
        PROVE  e <= eval'[v]
    <3>1. CASE v = deck
      BY <1>2, <2>1, <3>1
    <3>2. CASE v # deck
      <4>1. eval'[v] = eval[v] /\ eval[v] \in Scores /\ eval[v] \in Int
        BY <1>2, <2>2, <3>2, AnnealAssumption
      <4>2. best_eval <= eval[v]
        BY <1>1, <2>1, <4>1 DEF AnnealInv, BestIsLeast
      <4> QED
        BY <2>1, <4>1, <4>2
    <3> QED
      BY <3>1, <3>2
  <2> QED
    BY <1>1, <1>2, <2>2 DEF BestIsLeast
<1> QED
  BY <1>4, <1>5, <1>6, <1>7 DEF AnnealInv

\* A score that is not better leaves the best vector the best.
LEMMA NotBetter ==
    ASSUME AnnealInv, NEW e \in MaybeScore, pc = "evaluate", Scored(e),
           ~Better(e, best_eval), best_eval # NaN, NEW v \in Vectors,
           eval'[v] \in Scores
    PROVE  best_eval <= eval'[v]
<1>1. /\ eval'[deck] = e
      /\ v # deck => eval'[v] = eval[v]
  BY EvaluateKeeps
<1>2. best_eval \in Int /\ eval'[v] \in Int /\ eval'[v] # NaN
  BY ScoresAreKnown, AnnealAssumption DEF AnnealInv, TypeOK
<1>3. CASE v = deck
  BY <1>1, <1>2, <1>3 DEF Better
<1>4. CASE v # deck
  BY <1>1, <1>4 DEF AnnealInv, BestIsLeast
<1> QED
  BY <1>3, <1>4

LEMMA NoProgressInv ==
    ASSUME AnnealInv, NEW e \in MaybeScore, NoProgress(e)
    PROVE  AnnealInv'
<1>1. /\ pc = "evaluate" /\ Scored(e) /\ ~Better(e, best_eval) /\ t_max > 0
      /\ new_eval' = e /\ t_max' = t_max - 1 /\ pc' = "decide"
      /\ UNCHANGED <<deck, phase, step, old_eval, best_eval, best_val, n_accept,
                     n_reject, acc_pos, range, changed_param, changed_value,
                     changed_flag, tries, draws, accepted>>
  BY DEF NoProgress, rangeVars, changeVars
<1>2. /\ eval' \in [Vectors -> MaybeScore \cup {Unknown}]
      /\ eval'[deck] = e
      /\ eval'[Moved(changed_value)] = old_eval
      /\ eval'[best_val] = best_eval
      /\ changed_flag /\ changed_param \in Params
  BY <1>1, EvaluateKeeps
<1>3. t_max' \in 0 .. MaxReset
  BY <1>1, AnnealAssumption DEF AnnealInv, TypeOK
<1>4. TypeOK'
  BY <1>1, <1>2, <1>3 DEF AnnealInv, TypeOK
<1>5. Bookkeeping'
  BY <1>1, <1>2 DEF Bookkeeping
<1>6. OldEvalIsBaseline'
  BY <1>1, <1>2 DEF OldEvalIsBaseline, Baseline, Moved
<1>7. BestIsLeast'
  BY <1>1, <1>2, NotBetter DEF BestIsLeast
<1> QED
  BY <1>4, <1>5, <1>6, <1>7 DEF AnnealInv

LEMMA ResetToBestInv ==
    ASSUME AnnealInv, NEW e \in MaybeScore, ResetToBest(e)
    PROVE  AnnealInv'
<1>1. /\ pc = "evaluate" /\ Scored(e) /\ ~Better(e, best_eval) /\ NextStep
      /\ new_eval' = best_eval /\ old_eval' = best_eval /\ deck' = best_val
      /\ t_max' = MaxReset /\ accepted' = FALSE
      /\ UNCHANGED <<best_eval, best_val, n_accept, n_reject, acc_pos, range,
                     changed_param, changed_value, changed_flag, tries, draws>>
  BY DEF ResetToBest, rangeVars, changeVars
<1>2. /\ eval' \in [Vectors -> MaybeScore \cup {Unknown}]
      /\ eval'[best_val] = best_eval
      /\ changed_flag /\ changed_param \in Params
  BY <1>1, EvaluateKeeps
<1>3. phase' \in Nat /\ step' \in Nat /\ pc' \in {"change", "restore"}
  BY <1>1, NextStepType DEF AnnealInv
<1>4. MaxReset \in 0 .. MaxReset
  BY AnnealAssumption
<1>5. TypeOK'
  BY <1>1, <1>2, <1>3, <1>4 DEF AnnealInv, TypeOK
<1>6. Bookkeeping'
  BY <1>1, <1>2, <1>3 DEF Bookkeeping
<1>7. OldEvalIsBaseline'
  BY <1>1, <1>2, <1>3 DEF OldEvalIsBaseline, Baseline
<1>8. BestIsLeast'
  BY <1>1, <1>2, NotBetter DEF BestIsLeast
<1> QED
  BY <1>5, <1>6, <1>7, <1>8 DEF AnnealInv

LEMMA AcceptInv ==
    ASSUME AnnealInv, Accept
    PROVE  AnnealInv'
<1>1. /\ pc = "decide" /\ NextStep /\ old_eval' = new_eval /\ accepted' = TRUE
      /\ UNCHANGED <<deck, eval, new_eval, best_eval, best_val, t_max, n_accept,
                     n_reject, acc_pos, range, changed_param, changed_value,
                     changed_flag, tries, draws>>
  BY DEF Accept, rangeVars, changeVars
<1>2. phase' \in Nat /\ step' \in Nat /\ pc' \in {"change", "restore"}
  BY <1>1, NextStepType DEF AnnealInv
<1>3. TypeOK'
  BY <1>1, <1>2 DEF AnnealInv, TypeOK
<1>4. Bookkeeping' /\ BestIsLeast'
  BY <1>1, <1>2 DEF AnnealInv, Bookkeeping, BestIsLeast
<1>5. OldEvalIsBaseline'
  BY <1>1, <1>2 DEF AnnealInv, Bookkeeping, OldEvalIsBaseline, Baseline
<1> QED
  BY <1>3, <1>4, <1>5 DEF AnnealInv

LEMMA RejectInv ==
    ASSUME AnnealInv, Reject
    PROVE  AnnealInv'
<1>1. /\ pc = "decide" /\ NextStep /\ changed_flag' = FALSE /\ accepted' = FALSE
      /\ DebitReject(changed_param)
      /\ deck' = [deck EXCEPT ![changed_param] = changed_value]
      /\ UNCHANGED <<eval, old_eval, new_eval, best_eval, best_val, t_max,
                     changed_param, changed_value, tries, draws>>
  BY DEF Reject, Moved
<1>2. /\ deck \in Vectors /\ changed_param \in Params /\ changed_value \in Values
      /\ eval[[deck EXCEPT ![changed_param] = changed_value]] = old_eval
  BY <1>1 DEF AnnealInv, TypeOK, OldEvalIsBaseline, Baseline, Moved
<1>3. deck' \in Vectors
  BY <1>1, <1>2, MoveBack
<1>4. phase' \in Nat /\ step' \in Nat /\ pc' \in {"change", "restore"}
  BY <1>1, NextStepType DEF AnnealInv
<1>5. /\ n_accept' \in [Params -> 0 .. RejMax]
      /\ n_reject' \in [Params -> Nat]
      /\ acc_pos' \in [Params -> -1 .. 1]
      /\ range' \in [Params -> MinRange .. MaxRange]
  BY <1>1, <1>2, DebitType DEF AnnealInv
<1>6. TypeOK'
  BY <1>1, <1>3, <1>4, <1>5 DEF AnnealInv, TypeOK
<1>7. Bookkeeping' /\ BestIsLeast'
  BY <1>1, <1>4 DEF AnnealInv, Bookkeeping, BestIsLeast
<1>8. OldEvalIsBaseline'
  BY <1>1, <1>2, <1>4 DEF OldEvalIsBaseline, Baseline
<1> QED
  BY <1>6, <1>7, <1>8 DEF AnnealInv

LEMMA ReturnInv ==
    ASSUME AnnealInv, Return
    PROVE  AnnealInv'
<1>1. /\ pc = "restore" /\ pc' = "done" /\ deck' = best_val
      /\ UNCHANGED <<phase, step, eval, old_eval, new_eval, best_eval, best_val,
                     t_max, n_accept, n_reject, acc_pos, range, changed_param,
                     changed_value, changed_flag, tries, draws, accepted>>
  BY DEF Return, searchVars, rangeVars, changeVars
<1> QED
  BY <1>1
  DEF AnnealInv, TypeOK, Bookkeeping, OldEvalIsBaseline, BestIsLeast

\* Nothing the invariant speaks of changes, or change() has given up for good.
LEMMA IdleInv ==
    ASSUME AnnealInv, Abort \/ UNCHANGED vars
    PROVE  AnnealInv'
<1>1. /\ pc' = pc \/ pc' = "aborted"
      /\ UNCHANGED <<deck, phase, step, eval, old_eval, new_eval, best_eval,
                     best_val, t_max, n_accept, n_reject, acc_pos, range,
                     changed_param, changed_value, changed_flag, tries, draws,
                     accepted>>
  BY DEF Abort, vars, searchVars, rangeVars, changeVars
<1>2. pc = "start" => pc' = "start"
  BY DEF Abort, vars
<1>3. TypeOK'
  BY <1>1 DEF AnnealInv, TypeOK
<1>4. Bookkeeping' /\ BestIsLeast'
  BY <1>1, <1>2 DEF AnnealInv, Bookkeeping, BestIsLeast
<1>5. OldEvalIsBaseline'
  BY <1>1, <1>2 DEF AnnealInv, OldEvalIsBaseline, Baseline, Moved
<1> QED
  BY <1>3, <1>4, <1>5 DEF AnnealInv

LEMMA NextAnneal ==
    ASSUME AnnealInv, [Next]_vars
    PROVE  AnnealInv'
<1>1. CASE \E e \in MaybeScore : Start(e)
  BY <1>1, StartInv
<1>2. CASE \E e \in MaybeScore : Evaluate(e)
  BY <1>2, FoundBetterInv, NoProgressInv, ResetToBestInv DEF Evaluate
<1>3. CASE BeginChange
  BY <1>3, BeginChangeInv
<1>4. CASE \E p \in Params : PickParam(p)
  BY <1>4, PickParamInv
<1>5. CASE \E v \in Values : Draw(v)
  BY <1>5, DrawInv
<1>6. CASE GiveUp
  BY <1>6, GiveUpInv
<1>7. CASE Accept \/ Reject
  BY <1>7, AcceptInv, RejectInv
<1>8. CASE Return
  BY <1>8, ReturnInv
<1>9. CASE Abort \/ UNCHANGED vars
  BY <1>9, IdleInv
<1> QED
  BY <1>1, <1>2, <1>3, <1>4, <1>5, <1>6, <1>7, <1>8, <1>9
  DEF Next, Ended, MaybeScore

LEMMA AnnealInvariant == Spec => []AnnealInv
<1>1. AnnealInv /\ [Next]_vars => AnnealInv'
  BY NextAnneal
<1> QED
  BY <1>1, InitAnneal, PTL DEF Spec

\* The annealer's state keeps its types: ranges stay between MIN_RANGE and
\* 0.5 and the counters within their limits.
THEOREM AnnealTypeCorrect == Spec => []TypeOK
<1>1. AnnealInv => TypeOK
  BY DEF AnnealInv
<1> QED
  BY <1>1, AnnealInvariant, PTL

\* optimize() never compares a change with a stale score.
THEOREM BaselineAlwaysKnown == Spec => []OldEvalIsBaseline
<1>1. AnnealInv => OldEvalIsBaseline
  BY DEF AnnealInv
<1> QED
  BY <1>1, AnnealInvariant, PTL

\* From a starting point with a score, the best vector is never forgotten.
THEOREM BestAlwaysLeast == Spec => []BestIsLeast
<1>1. AnnealInv => BestIsLeast
  BY DEF AnnealInv
<1> QED
  BY <1>1, AnnealInvariant, PTL

\* optimize() leaves the deck at a vector no simulated one beats.
THEOREM AlwaysReturnsBest == Spec => []ReturnsBest
<1>1. AnnealInv => ReturnsBest
  BY DEF AnnealInv, Bookkeeping, BestIsLeast, ReturnsBest
<1> QED
  BY <1>1, AnnealInvariant, PTL

\* The annealer tracks the best vector and returns it.
THEOREM BestAlwaysKept == Spec => []BestKept
<1>1. BestIsLeast /\ ReturnsBest => BestKept
  BY DEF BestKept
<1> QED
  BY <1>1, BestAlwaysLeast, AlwaysReturnsBest, PTL
=============================================================================
