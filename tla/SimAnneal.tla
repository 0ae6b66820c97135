----------------------------- MODULE SimAnneal -----------------------------
(***************************************************************************)
(* The simulated annealer (anneal.h, anneal.cpp): change() moves one       *)
(* tunable parameter, a simulation scores the circuit, and optimize()      *)
(* accepts the change, takes it back with unchange(), or, when no progress *)
(* was made for too long, resets to the best vector known.                 *)
(*                                                                         *)
(* A parameter takes its mapped value from the grid 0..Grid (0.0 to 1.0 in *)
(* the code) and its change range from the levels MinRange..MaxRange: one  *)
(* level is one factor 1.25 (0.8 is its inverse).  Scores are integers.    *)
(* The objective is fixed but unknown: eval records the score of every     *)
(* vector simulated so far.                                                *)
(***************************************************************************)
EXTENDS Integers, Sequences

CONSTANTS
    Params,      \* the tunable parameters
    Grid,        \* largest mapped value
    Physical,    \* map_01_to_parm(): mapped value to physical value
    Scores,      \* the finite values of the objective
    NaN,         \* an objective that is not finite
    Unknown,     \* the score of a vector not simulated yet
    Rejected,    \* the vectors for which the reject function is not 0
    Schedule,    \* the annealing schedule: a sequence of [temp, n_steps]
    RejMax,      \* REJ_MAX
    MaxReset,    \* MAX_RESET
    MaxTries,    \* parameters tried by one change()
    MaxDraws,    \* MAX_CHANGE_TRIES
    MinRange, MaxRange, StartRange, \* MIN_RANGE, 0.5 and 0.25 as levels
    NoParam      \* changed_param before the first change

Values == 0 .. Grid
Vectors == [Params -> Values]

ASSUME AnnealAssumption ==
    /\ Params # {} /\ NoParam \notin Params
    /\ Grid \in Nat
    /\ Physical \in [Values -> Int]
    /\ Scores \subseteq Int
    /\ NaN \notin Int /\ Unknown \notin Int /\ NaN # Unknown
    /\ Rejected \subseteq Vectors
    /\ Schedule \in Seq([temp : Nat, n_steps : Nat \ {0}])
    /\ RejMax \in Nat /\ MaxReset \in Nat
    /\ MaxTries \in Nat \ {0} /\ MaxDraws \in Nat \ {0}
    /\ MinRange \in Nat /\ MaxRange \in Nat /\ StartRange \in MinRange .. MaxRange

VARIABLES
    pc,            \* where optimize() and change() are
    phase, step,   \* schedule entry and step in it (i and j of optimize())
    deck,          \* the mapped value of each parameter
    eval,          \* history: the score of each vector simulated
    old_eval, new_eval,
    best_eval, best_val,        \* save_best(); best_eval is also "min"
    t_max,
    changed_param, changed_value, changed_flag,
    n_accept, n_reject, acc_pos, range, \* per parameter
    tries, draws,  \* loops of change()
    accepted       \* history: optimize() accepted the last change

searchVars == <<phase, step, eval, old_eval, new_eval, best_eval, best_val, t_max>>
rangeVars == <<n_accept, n_reject, acc_pos, range>>
changeVars == <<changed_param, changed_value, changed_flag>>
vars == <<pc, deck, searchVars, rangeVars, changeVars, tries, draws, accepted>>

(***************************************************************************)
(* Arithmetic                                                              *)
(***************************************************************************)
MinOf(a, b) == IF a < b THEN a ELSE b
MaxOf(a, b) == IF a > b THEN a ELSE b

\* new < best; never true of a NaN.
Better(new, best) == new # NaN /\ best # NaN /\ new < best

\* The relative change t = (old - new) / old exists and is positive.
DefinedChange(old, new) == old # NaN /\ new # NaN /\ ~(old = 0 /\ new = 0)
PositiveChange(old, new) ==
    /\ DefinedChange(old, new)
    /\ IF old < 0 THEN new > old ELSE new < old

\* The temperature of a step, interpolated to the next entry's (0 at the end),
\* is above EPS.
Hot ==
    LET t0 == Schedule[phase].temp
        t1 == IF phase < Len(Schedule) THEN Schedule[phase + 1].temp ELSE 0
        n == Schedule[phase].n_steps
    IN IF n = 1 THEN t0 > 0 ELSE t0 * (n - 1) + (t1 - t0) * step > 0

MayAccept == IF Hot THEN DefinedChange(old_eval, new_eval)
                    ELSE PositiveChange(old_eval, new_eval)
\* A hot step draws its decision at random, unless t is not a number.
MayReject == Hot \/ ~PositiveChange(old_eval, new_eval)

\* The next step of the schedule; "restore" after the last one.
NextStep ==
    IF step + 1 < Schedule[phase].n_steps
    THEN phase' = phase /\ step' = step + 1 /\ pc' = "change"
    ELSE /\ phase' = phase + 1 /\ step' = 0
         /\ pc' = IF phase < Len(Schedule) THEN "change" ELSE "restore"

SaveBestScoreOnly(e) == best_eval' = e /\ UNCHANGED best_val
SaveBest(e) == best_eval' = e /\ best_val' = deck

(***************************************************************************)
(* optimize(): the starting point                                          *)
(***************************************************************************)
Init ==
    /\ pc = "start" /\ phase = 1 /\ step = 0
    /\ deck \in Vectors
    /\ eval = [v \in Vectors |-> Unknown]
    /\ old_eval = NaN /\ new_eval = NaN /\ best_eval = NaN
    /\ best_val = deck
    /\ t_max = MaxReset
    /\ changed_param = NoParam /\ changed_value = 0 /\ changed_flag = FALSE
    /\ n_accept = [p \in Params |-> 0] /\ n_reject = [p \in Params |-> 0]
    /\ acc_pos = [p \in Params |-> -1]
    /\ range = [p \in Params |-> StartRange]
    /\ tries = 0 /\ draws = 0 /\ accepted = FALSE

\* comp_eval(): the simulator gives the vector in the deck the score e.
Scored(e) ==
    /\ eval[deck] \in {Unknown, e}
    /\ eval' = [eval EXCEPT ![deck] = e]

Start(e) ==
    /\ pc = "start"
    /\ Scored(e)
    /\ old_eval' = e
    /\ SaveBest(e)
    /\ pc' = IF Schedule = <<>> THEN "restore" ELSE "change"
    /\ UNCHANGED <<deck, phase, step, new_eval, t_max, rangeVars, changeVars,
                   tries, draws, accepted>>

(***************************************************************************)
(* change()                                                                *)
(***************************************************************************)
CreditAcceptUncapped(p) ==
    /\ acc_pos' = [acc_pos EXCEPT ![p] =
                      IF changed_value < Physical[deck[p]] THEN 1 ELSE 0]
    /\ n_reject' = [n_reject EXCEPT ![p] = 0]
    /\ IF n_accept[p] + 1 > RejMax
       THEN /\ n_accept' = [n_accept EXCEPT ![p] = 0]
            /\ range' = [range EXCEPT ![p] = @ + 1]
       ELSE /\ n_accept' = [n_accept EXCEPT ![p] = @ + 1]
            /\ UNCHANGED range
\* A change after a change: the last one counts as accepted.
CreditAccept(p) ==
    /\ acc_pos' = [acc_pos EXCEPT ![p] =
                      IF changed_value < Physical[deck[p]] THEN 1 ELSE 0]
    /\ n_reject' = [n_reject EXCEPT ![p] = 0]
    /\ IF n_accept[p] + 1 > RejMax
       THEN /\ n_accept' = [n_accept EXCEPT ![p] = 0]
            /\ range' = [range EXCEPT ![p] = MinOf(@ + 1, MaxRange)]
       ELSE /\ n_accept' = [n_accept EXCEPT ![p] = @ + 1]
            /\ UNCHANGED range

BeginChange ==
    /\ pc = "change"
    /\ IF changed_flag THEN CreditAccept(changed_param) ELSE UNCHANGED rangeVars
    /\ tries' = 0
    /\ pc' = "pick"
    /\ UNCHANGED <<deck, searchVars, changeVars, draws, accepted>>

PickParam(p) ==
    /\ pc = "pick" /\ tries < MaxTries
    /\ changed_param' = p /\ changed_value' = deck[p] /\ changed_flag' = TRUE
    /\ draws' = 0
    /\ pc' = "draw"
    /\ UNCHANGED <<deck, searchVars, rangeVars, tries, accepted>>

\* A new value within the range of the old one, and its vector.
InRange(v) ==
    v \in MaxOf(0, changed_value - range[changed_param]) ..
          MinOf(Grid, changed_value + range[changed_param])
Moved(v) == [deck EXCEPT ![changed_param] = v]

Draw(v) ==
    /\ pc = "draw" /\ draws < MaxDraws
    /\ InRange(v)
    /\ deck' = Moved(v)
    /\ draws' = draws + 1
    /\ pc' = IF Moved(v) \in Rejected THEN "draw" ELSE "evaluate"
    /\ UNCHANGED <<searchVars, rangeVars, changeVars, tries, accepted>>

\* Every draw was rejected: put the old value back and try another parameter.
GiveUpKeepingDraw ==
    /\ pc = "draw" /\ draws = MaxDraws
    /\ n_reject' = [n_reject EXCEPT ![changed_param] = @ + 1]
    /\ tries' = tries + 1
    /\ pc' = "pick"
    /\ UNCHANGED <<deck, searchVars, n_accept, acc_pos, range, changeVars, draws,
                   accepted>>
GiveUp ==
    /\ pc = "draw" /\ draws = MaxDraws
    /\ deck' = Moved(changed_value)
    /\ n_reject' = [n_reject EXCEPT ![changed_param] = @ + 1]
    /\ tries' = tries + 1
    /\ pc' = "pick"
    /\ UNCHANGED <<searchVars, n_accept, acc_pos, range, changeVars, draws,
                   accepted>>

\* "Excessive rejections - Aborting"
Abort ==
    /\ pc = "pick" /\ tries = MaxTries
    /\ pc' = "aborted"
    /\ UNCHANGED <<deck, searchVars, rangeVars, changeVars, tries, draws, accepted>>

(***************************************************************************)
(* optimize(): the verdict on a change                                     *)
(***************************************************************************)
FoundBetter(e) ==
    /\ pc = "evaluate"
    /\ Scored(e)
    /\ Better(e, best_eval)
    /\ new_eval' = e
    /\ SaveBest(e)
    /\ t_max' = MaxReset
    /\ pc' = "decide"
    /\ UNCHANGED <<deck, phase, step, old_eval, rangeVars, changeVars, tries,
                   draws, accepted>>

NoProgress(e) ==
    /\ pc = "evaluate"
    /\ Scored(e)
    /\ ~Better(e, best_eval) /\ t_max > 0
    /\ new_eval' = e
    /\ t_max' = t_max - 1
    /\ pc' = "decide"
    /\ UNCHANGED <<deck, phase, step, old_eval, best_eval, best_val, rangeVars,
                   changeVars, tries, draws, accepted>>

\* On a wrong path for too long: back to the best vector.
ResetToBest(e) ==
    /\ pc = "evaluate"
    /\ Scored(e)
    /\ ~Better(e, best_eval) /\ t_max <= 0
    /\ new_eval' = best_eval /\ old_eval' = best_eval
    /\ deck' = best_val
    /\ t_max' = MaxReset
    /\ accepted' = FALSE
    /\ NextStep
    /\ UNCHANGED <<best_eval, best_val, rangeVars, changeVars, tries, draws>>

Accept ==
    /\ pc = "decide" /\ MayAccept
    /\ old_eval' = new_eval
    /\ accepted' = TRUE
    /\ NextStep
    /\ UNCHANGED <<deck, eval, new_eval, best_eval, best_val, t_max, rangeVars,
                   changeVars, tries, draws>>

\* unchange(): put the old value back and count the rejection.
DebitReject(p) ==
    /\ n_accept' = [n_accept EXCEPT ![p] =
                       IF acc_pos[p] = (IF changed_value < deck[p] THEN 1 ELSE 0)
                       THEN 0 ELSE @]
    /\ IF n_reject[p] + 1 > RejMax
       THEN /\ n_reject' = [n_reject EXCEPT ![p] = 0]
            /\ range' = [range EXCEPT ![p] = MaxOf(@ - 1, MinRange)]
       ELSE /\ n_reject' = [n_reject EXCEPT ![p] = @ + 1]
            /\ UNCHANGED range
    /\ UNCHANGED acc_pos

Reject ==
    /\ pc = "decide" /\ MayReject
    /\ changed_flag
    /\ changed_flag' = FALSE
    /\ DebitReject(changed_param)
    /\ deck' = Moved(changed_value)
    /\ accepted' = FALSE
    /\ NextStep
    /\ UNCHANGED <<eval, old_eval, new_eval, best_eval, best_val, t_max,
                   changed_param, changed_value, tries, draws>>

\* "Return best configuration"
Return ==
    /\ pc = "restore"
    /\ deck' = best_val
    /\ pc' = "done"
    /\ UNCHANGED <<searchVars, rangeVars, changeVars, tries, draws, accepted>>

Ended == pc \in {"done", "aborted"} /\ UNCHANGED vars

Evaluate(e) == FoundBetter(e) \/ NoProgress(e) \/ ResetToBest(e)

Next ==
    \/ \E e \in Scores \cup {NaN} : Start(e) \/ Evaluate(e)
    \/ BeginChange
    \/ \E p \in Params : PickParam(p)
    \/ \E v \in Values : Draw(v)
    \/ GiveUp
    \/ Abort
    \/ Accept
    \/ Reject
    \/ Return
    \/ Ended

Spec == Init /\ [][Next]_vars /\ WF_vars(Next)

(***************************************************************************)
(* Properties                                                              *)
(***************************************************************************)
MaybeScore == Scores \cup {NaN}

TypeOK ==
    /\ pc \in {"start", "change", "pick", "draw", "evaluate", "decide",
               "restore", "done", "aborted"}
    /\ phase \in Nat /\ step \in Nat
    /\ deck \in Vectors
    /\ eval \in [Vectors -> MaybeScore \cup {Unknown}]
    /\ old_eval \in MaybeScore /\ new_eval \in MaybeScore
    /\ best_eval \in MaybeScore /\ best_val \in Vectors
    /\ t_max \in 0 .. MaxReset
    /\ changed_param \in Params \cup {NoParam}
    /\ changed_value \in Values
    /\ changed_flag \in BOOLEAN /\ accepted \in BOOLEAN
    /\ n_accept \in [Params -> 0 .. RejMax]
    /\ n_reject \in [Params -> Nat]
    /\ acc_pos \in [Params -> -1 .. 1]
    /\ range \in [Params -> MinRange .. MaxRange]
    /\ tries \in 0 .. MaxTries /\ draws \in 0 .. MaxDraws

\* The vector optimize() compares a change with: the deck without the change.
Baseline ==
    IF pc \in {"draw", "evaluate", "decide"} THEN Moved(changed_value) ELSE deck

\* old_eval is at every point the score of the very vector a rejection goes
\* back to, through accepted changes, rejections, draws given up half way and
\* resets to the best vector; unchange() is never called without a change.
OldEvalIsBaseline ==
    pc \notin {"start", "done", "aborted"} =>
        /\ eval[Baseline] = old_eval
        /\ pc \in {"draw", "evaluate", "decide"} =>
               changed_flag /\ changed_param \in Params

\* "It will never forget the best value": the saved vector has the saved
\* score, and no simulation so far scored better, provided that the starting
\* point had a score at all.
BestIsLeast ==
    pc # "start" =>
        /\ eval[best_val] = best_eval
        /\ best_eval # NaN =>
              \A v \in Vectors : eval[v] \in Scores => best_eval <= eval[v]

\* optimize() ends with the deck set to a vector no simulated vector beats,
\* the starting point included.
ReturnsBest ==
    pc = "done" /\ best_eval # NaN =>
        \A v \in Vectors : eval[v] \in Scores => eval[deck] <= eval[v]

\* The best vector is kept during the search and returned at its end.
BestKept == BestIsLeast /\ ReturnsBest

\* anneal.cpp:191 "It will never forget the best value encountereed during the
\* search", whatever the starting point.
NeverForgetsBest ==
    pc # "start" =>
        \A v \in Vectors : eval[v] \in Scores =>
            best_eval \in Scores /\ best_eval <= eval[v]

\* anneal.cpp:102 "change followed by change => last change was accepted".
CreditsAcceptedOnly == pc = "change" /\ changed_flag => accepted

\* anneal.h:90 acc_pos: "last accept was a positive change".
AcceptDirection ==
    [][ pc = "change" /\ pc' = "pick" /\ changed_flag /\ accepted =>
          (acc_pos'[changed_param] = 1 <=> changed_value < deck[changed_param])
      ]_vars
=============================================================================
