--------------------------- MODULE SolveOne_proofs ---------------------------
(***************************************************************************)
(* Proofs about SolveOne, for every set of parameter vectors, landscape,   *)
(* amount of data and limit: the solver objects keep their types from one  *)
(* fit to the next, and a fit implements its contract, FitContract.        *)
(*                                                                         *)
(* The contract needs more than it says.  The parameters a step starts     *)
(* from are viable, and so are those a retry would go back to, but these   *)
(* only once a step of this fit has saved them: init() leaves para_last as *)
(* the fit before it did.                                                  *)
(***************************************************************************)
EXTENDS SolveOne, TLAPS

\* What solve_1s() may rely on while a fit is being made.
Sound(f, k) ==
    /\ Viable(k, f.parameters)
    /\ f.n_iteration > 0 => Viable(k, f.para_last)

InFit ==
    pc \in {"scan", "step"} => /\ Sound(ThisFit, sans_a)
                               /\ reasons = {}
                               /\ iter < MaxIter

Answered == pc = "answered" => Answer \in Answers

SolveInv == SolveTypeOK /\ InFit /\ Answered

(***************************************************************************)
(* The member functions of the solver                                      *)
(***************************************************************************)
LEMMA SomeParams == (CHOOSE p \in Params : TRUE) \in Params
  BY SolveAssumption

\* The refusals are known flags.
LEMMA ChecksAreReasons ==
    ASSUME NEW k \in BOOLEAN, NEW p \in Params
    PROVE  CheckParams(k, p) \in SUBSET Reasons
  BY FitAssumption DEF CheckParams, Reasons

LEMMA AllocatedType ==
    ASSUME NEW p \in Params
    PROVE  Allocated(p) \in Fit
  BY DEF Allocated, Fit, FitState

LEMMA ClearKeeps ==
    ASSUME NEW f \in Fit
    PROVE  /\ Clear(f) \in Fit
           /\ Clear(f).parameters = f.parameters
           /\ Clear(f).para_last = f.para_last
           /\ Clear(f).n_iteration = f.n_iteration
  BY DEF Clear, Fit, FitState

\* init() takes the parameters, and forgets the iterations of the fit before if
\* they are viable.
LEMMA InitFitSound ==
    ASSUME NEW f \in Fit, NEW k \in BOOLEAN, NEW p \in Params
    PROVE  /\ InitFit(f, k, p) \in Fit
           /\ Viable(k, p) => Sound(InitFit(f, k, p), k)
<1>1. CASE Viable(k, p)
  <2> DEFINE g == [f EXCEPT !.parameters = p]
             h == Clear(g)
             i == [h EXCEPT !.n_retry = 0, !.n_iteration = 0]
  <2>1. g \in Fit /\ g.parameters = p
    BY DEF Fit
  <2> HIDE DEF g
  <2>2. h \in Fit /\ h.parameters = p
    BY <2>1, ClearKeeps
  <2> HIDE DEF h
  <2>3. i \in Fit /\ i.parameters = p /\ i.n_iteration = 0
    BY <2>2 DEF Fit
  <2>4. InitFit(f, k, p) = i
    BY <1>1 DEF InitFit, i, h, g
  <2> HIDE DEF i
  <2> QED
    BY <1>1, <2>3, <2>4 DEF Sound
<1>2. CASE ~Viable(k, p)
  BY <1>2 DEF InitFit, Fit, FitState
<1> QED
  BY <1>1, <1>2

\* add_datum() does not move the fit.
LEMMA AddDataSound ==
    ASSUME NEW f \in Fit, NEW n \in Nat, NEW r \in Nat \cup {BadDatum},
           ~(r = BadDatum /\ n > 0), NEW k \in BOOLEAN, Sound(f, k)
    PROVE  AddData(f, n, r) \in Fit /\ Sound(AddData(f, n, r), k)
<1>1. CASE n = 0
  BY <1>1 DEF AddData
<1>2. CASE n # 0
  <2>1. r \in Nat
    BY <1>2 DEF BadDatum
  <2> DEFINE g == IF f.state = "SOLVED" THEN Clear(f) ELSE f
  <2>2. /\ g \in Fit
        /\ g.parameters = f.parameters /\ g.para_last = f.para_last
        /\ g.n_iteration = f.n_iteration
    BY ClearKeeps
  <2>3. AddData(f, n, r) = [g EXCEPT !.state = "DATA_ADDED", !.res = @ + r, !.n_dp = @ + n]
    BY <1>2 DEF AddData
  <2> HIDE DEF g
  <2> DEFINE res == g.res + r
             n_dp == g.n_dp + n
  <2>4. res \in Nat /\ n_dp \in Nat
    BY <2>1, <2>2 DEF Fit
  <2> HIDE DEF res, n_dp
  <2> DEFINE h == [g EXCEPT !.state = "DATA_ADDED", !.res = res, !.n_dp = n_dp]
  <2>5. /\ h \in Fit
        /\ h.parameters = g.parameters /\ h.para_last = g.para_last
        /\ h.n_iteration = g.n_iteration
    BY <2>2, <2>4 DEF Fit, FitState
  <2>6. AddData(f, n, r) = h
    BY <2>3 DEF res, n_dp
  <2> HIDE DEF h
  <2> QED
    BY <2>2, <2>5, <2>6 DEF Sound
<1> QED
  BY <1>1, <1>2

\* One step: typed, and either refused or as sound as before.
StepResult(f, k, out) ==
    /\ out.fit \in Fit /\ out.ec \in Codes /\ out.cur_res \in Residual
    /\ Viable(k, out.fit.parameters) <=> out.ec # Constrained
    /\ out.ec # Constrained => Sound(out.fit, k)

LEMMA StillResult ==
    ASSUME NEW f \in Fit, NEW k \in BOOLEAN, Sound(f, k),
           NEW ec \in Codes \ {Constrained}
    PROVE  StepResult(f, k, Outcome(f, ec, Garbage))
  BY DEF StepResult, Outcome, Residual, Sound

LEMMA AcceptKeeps ==
    ASSUME NEW f \in Fit
    PROVE  /\ Accept(f) \in Fit
           /\ Accept(f).parameters = f.parameters
           /\ Accept(f).para_last = f.para_last
           /\ Accept(f).n_iteration = f.n_iteration
<1> DEFINE n == IF f.n_iteration > 0 THEN 0 ELSE f.n_retry
           r == f.res
<1>1. n \in Nat /\ r \in Nat
  BY DEF Fit
<1>2. Accept(f) = [f EXCEPT !.n_retry = n, !.res_last = r]
  BY DEF Accept
<1> HIDE DEF n, r
<1> QED
  BY <1>1, <1>2 DEF Fit

LEMMA RetryResult ==
    ASSUME NEW f \in Fit, NEW k \in BOOLEAN, Sound(f, k), Uphill(f)
    PROVE  StepResult(f, k, Retry(f))
<1>1. CASE f.n_retry > RetryLimit
  <2>1. NoProgress \in Codes \ {Constrained}
    BY DEF NoProgress, Constrained, Codes, TooFewData, Converged
  <2> QED
    BY <1>1, <2>1, StillResult DEF Retry
<1>2. CASE ~(f.n_retry > RetryLimit)
  <2> DEFINE n == f.n_retry + 1
             p == f.para_last
             g == [f EXCEPT !.n_retry = n, !.parameters = p, !.state = "SOLVED"]
  <2>0. n \in Nat /\ p \in Params
    BY DEF Fit
  <2>1. /\ g \in Fit /\ g.parameters = f.para_last /\ g.para_last = f.para_last
        /\ g.n_iteration = f.n_iteration
    <3> HIDE DEF n
    <3> QED
      BY <2>0 DEF Fit, FitState
  <2>2. Viable(k, f.para_last)
    BY DEF Sound, Uphill
  <2>3. Retry(f) = Outcome(g, GoesOn, f.res_last)
    BY <1>2 DEF Retry
  <2>4. f.res_last \in Residual
    BY DEF Fit, Residual
  <2>5. GoesOn \in Codes /\ GoesOn # Constrained
    BY DEF GoesOn, Constrained, Codes, TooFewData, Converged
  <2> HIDE DEF g
  <2> QED
    BY <2>1, <2>2, <2>3, <2>4, <2>5 DEF StepResult, Outcome, Sound
<1> QED
  BY <1>1, <1>2

LEMMA MoveResult ==
    ASSUME NEW f \in Fit, NEW k \in BOOLEAN, Sound(f, k),
           NEW p \in Params, NEW ec \in {GoesOn, Converged}
    PROVE  StepResult(f, k, Move(f, k, p, ec))
<1> DEFINE a == Accept(f)
           moved == [a EXCEPT !.para_last = f.parameters, !.parameters = p]
<1>1. a \in Fit /\ f.parameters \in Params /\ f.res \in Residual
  BY AcceptKeeps DEF Fit, Residual
<1>2. ec \in Codes /\ ec # Constrained /\ Constrained \in Codes
  BY DEF GoesOn, Constrained, Codes, TooFewData, Converged
<1> HIDE DEF a
<1>3. moved \in Fit /\ moved.parameters = p /\ moved.para_last = f.parameters
  BY <1>1 DEF Fit
<1>4. Viable(k, f.parameters)
  BY DEF Sound
<1>5. CASE Viable(k, p)
  <2> DEFINE n == moved.n_iteration + 1
             g == [moved EXCEPT !.n_iteration = n, !.state = "SOLVED"]
  <2>1. g \in Fit /\ g.parameters = p /\ g.para_last = f.parameters
    <3> HIDE DEF moved
    <3>1. n \in Nat
      BY <1>3 DEF Fit
    <3> HIDE DEF n
    <3> QED
      BY <1>3, <3>1 DEF Fit, FitState
  <2>2. Move(f, k, p, ec) = Outcome(g, ec, f.res)
    BY <1>5 DEF Move, a
  <2> HIDE DEF g
  <2> QED
    BY <1>1, <1>2, <1>4, <1>5, <2>1, <2>2 DEF StepResult, Outcome, Sound
<1>6. CASE ~Viable(k, p)
  <2>1. Move(f, k, p, ec) = Outcome(moved, Constrained, f.res)
    BY <1>6 DEF Move, a
  <2> HIDE DEF moved
  <2> QED
    BY <1>1, <1>2, <1>3, <1>6, <2>1 DEF StepResult, Outcome
<1> QED
  BY <1>5, <1>6

LEMMA Solve1sResult ==
    ASSUME NEW f \in Fit, NEW k \in BOOLEAN, Sound(f, k), NEW out \in Solve1s(f, k)
    PROVE  StepResult(f, k, out)
<1>1. {OutOfOrder, TooFewData, Singular} \subseteq Codes \ {Constrained}
  BY DEF OutOfOrder, TooFewData, Singular, Constrained, Codes, Converged
<1>2. CASE out \in {Outcome(f, OutOfOrder, Garbage), Outcome(f, TooFewData, Garbage)}
  BY <1>1, <1>2, StillResult
<1>3. CASE Uphill(f) /\ out = Retry(f)
  BY <1>3, RetryResult
<1>4. CASE out \in Steps(f, k)
  <2>1. CASE out = Outcome(Accept(f), Singular, Garbage)
    <3>1. Sound(Accept(f), k) /\ Accept(f) \in Fit
      BY AcceptKeeps DEF Sound
    <3>2. StepResult(Accept(f), k, out)
      BY <1>1, <2>1, <3>1, StillResult
    <3> QED
      BY <3>2 DEF StepResult
  <2>2. CASE \E p \in Params, ec \in {GoesOn, Converged} : out = Move(f, k, p, ec)
    BY <2>2, MoveResult
  <2> QED
    BY <1>4, <2>1, <2>2 DEF Steps
<1> QED
  BY <1>2, <1>3, <1>4 DEF Solve1s

(***************************************************************************)
(* The fit                                                                 *)
(***************************************************************************)
LEMMA BlankType ==
    Blank \in [begin_res : Residual, end_res : Residual, ec : Codes,
               pok_fail : SUBSET Reasons, param_final : Params]
  BY SomeParams DEF Blank, Residual, Garbage, GoesOn, Codes, TooFewData, Converged

LEMMA SolveInit == Init => SolveInv
<1> SUFFICES ASSUME Init
             PROVE  SolveInv
  OBVIOUS
<1>1. fit \in [BOOLEAN -> Fit]
  BY SomeParams, AllocatedType DEF Init
<1>2. sol \in [begin_res : Residual, end_res : Residual, ec : Codes,
              pok_fail : SUBSET Reasons, param_final : Params]
  BY BlankType DEF Init
<1>3. /\ pc = "idle" /\ sans_a = FALSE /\ slope = 0 /\ a_incr = 0
      /\ cur_res = Garbage /\ reasons = {} /\ iter = 0 /\ fits = 0
      /\ cost \in Costs /\ n_data \in DataSizes
  BY DEF Init
<1>4. /\ slope \in 0 .. MaxSlope /\ a_incr \in {0, 1}
      /\ iter \in 0 .. MaxIter /\ fits \in 0 .. MaxFits
      /\ cur_res \in Residual /\ reasons \subseteq Reasons
  BY <1>3, SolveAssumption DEF Residual
<1>5. SolveTypeOK
  BY <1>1, <1>2, <1>3, <1>4 DEF SolveTypeOK
<1> QED
  BY <1>3, <1>5 DEF SolveInv, InFit, Answered

LEMMA BeginFitInv ==
    ASSUME SolveInv, BeginFit
    PROVE  SolveInv'
<1> USE DEF SolveInv, SolveTypeOK
<1> PICK k \in BOOLEAN, p \in Params, incr \in {0, 1} :
        /\ sans_a' = k /\ a_incr' = incr
        /\ slope' = 0
        /\ fit' = [fit EXCEPT ![k] = InitFit(@, k, p)]
        /\ reasons' = CheckParams(k, p)
        /\ pc' = IF Viable(k, p) THEN "scan" ELSE "exit"
  BY DEF BeginFit
<1>1. fit[k] \in Fit
  OBVIOUS
<1>2. /\ InitFit(fit[k], k, p) \in Fit
      /\ Viable(k, p) => Sound(InitFit(fit[k], k, p), k)
  BY <1>1, InitFitSound
<1>3. fit' \in [BOOLEAN -> Fit] /\ fit'[k] = InitFit(fit[k], k, p)
  BY <1>2
<1>4. reasons' \in SUBSET Reasons
  BY ChecksAreReasons
<1>5. cost' \in Costs /\ n_data' \in DataSizes
  BY DEF BeginFit, dataVars
<1>6. SolveTypeOK'
  BY <1>3, <1>4, <1>5, BlankType, SolveAssumption
  DEF BeginFit, Residual, Garbage
<1>7. InFit'
  BY <1>2, <1>3, SolveAssumption DEF BeginFit, InFit, ThisFit, Viable
<1>8. Answered'
  BY DEF Answered
<1> QED
  BY <1>6, <1>7, <1>8

LEMMA AddDataPointsInv ==
    ASSUME SolveInv, AddDataPoints
    PROVE  SolveInv'
<1> USE DEF SolveInv, SolveTypeOK
<1> DEFINE r == cost[slope][ThisFit.parameters.at]
<1>1. ThisFit \in Fit /\ Sound(ThisFit, sans_a) /\ reasons = {} /\ iter < MaxIter
  BY DEF AddDataPoints, InFit, ThisFit
<1>2. r \in Nat \cup {BadDatum} /\ n_data \in Nat
  <2>1. ThisFit.parameters \in Params
    BY <1>1 DEF Fit
  <2>2. r \in 0 .. Infinite - 1 \cup {BadDatum}
    BY <2>1, SolveAssumption
  <2>3. n_data \in Nat
    BY SolveAssumption
  <2> HIDE DEF r
  <2> QED
    BY <2>2, <2>3 DEF Infinite
<1> HIDE DEF r
<1>3. /\ UNCHANGED <<kindVars, slope, sol, cur_res, reasons, iter, dataVars, fits>>
      /\ \/ pc' = "abort" /\ UNCHANGED fit
         \/ /\ ~(r = BadDatum /\ n_data > 0)
            /\ pc' = "step"
            /\ fit' = [fit EXCEPT ![sans_a] = AddData(@, n_data, r)]
  BY DEF AddDataPoints, r
<1>4. CASE pc' = "abort" /\ UNCHANGED fit
  BY <1>3, <1>4 DEF kindVars, dataVars, InFit, Answered
<1>5. CASE /\ ~(r = BadDatum /\ n_data > 0)
           /\ pc' = "step"
           /\ fit' = [fit EXCEPT ![sans_a] = AddData(@, n_data, r)]
  <2>1. /\ AddData(ThisFit, n_data, r) \in Fit
        /\ Sound(AddData(ThisFit, n_data, r), sans_a)
    BY <1>1, <1>2, <1>5, AddDataSound
  <2>2. fit' \in [BOOLEAN -> Fit] /\ fit'[sans_a] = AddData(ThisFit, n_data, r)
    BY <1>5, <2>1 DEF ThisFit
  <2>3. SolveTypeOK'
    BY <1>3, <1>5, <2>2 DEF kindVars, dataVars
  <2>4. InFit'
    BY <1>1, <1>3, <2>1, <2>2 DEF InFit, ThisFit, kindVars
  <2> QED
    BY <1>5, <2>3, <2>4 DEF Answered
<1> QED
  BY <1>3, <1>4, <1>5

LEMMA StepInv ==
    ASSUME SolveInv, Step
    PROVE  SolveInv'
<1> USE DEF SolveInv, SolveTypeOK
<1>1. ThisFit \in Fit /\ Sound(ThisFit, sans_a) /\ reasons = {} /\ iter < MaxIter
  BY DEF Step, InFit, ThisFit
<1> PICK out \in Solve1s(ThisFit, sans_a) :
        /\ fit' = [fit EXCEPT ![sans_a] = out.fit]
        /\ cur_res' = IF out.cur_res = Garbage THEN cur_res ELSE out.cur_res
        /\ reasons' = Checked(ThisFit, out)
        /\ sol' = [begin_res |-> IF iter = 0 THEN cur_res' ELSE sol.begin_res,
                   end_res |-> cur_res', ec |-> out.ec, pok_fail |-> reasons',
                   param_final |-> out.fit.parameters]
        /\ pc' = IF out.ec # GoesOn \/ Exhausted THEN "answered" ELSE "scan"
  BY DEF Step
<1>2. StepResult(ThisFit, sans_a, out)
  BY <1>1, Solve1sResult
<1>3. fit' \in [BOOLEAN -> Fit] /\ fit'[sans_a] = out.fit
  BY <1>2 DEF StepResult
<1>4. out.fit.parameters \in Params
  BY <1>2 DEF StepResult, Fit
<1>5. reasons' \in SUBSET Reasons /\ (reasons' = {} <=> out.ec # Constrained)
  <2>1. CheckParams(sans_a, out.fit.parameters) \in SUBSET Reasons
    BY <1>4, ChecksAreReasons
  <2>2. CheckParams(sans_a, out.fit.parameters) = {} <=> out.ec # Constrained
    BY <1>2 DEF StepResult, Viable
  <2> QED
    BY <1>1, <2>1, <2>2 DEF Checked
<1>6. cur_res' \in Residual
  BY <1>2 DEF StepResult
<1>7. sol' \in [begin_res : Residual, end_res : Residual, ec : Codes,
                pok_fail : SUBSET Reasons, param_final : Params]
  BY <1>2, <1>4, <1>5, <1>6 DEF StepResult
<1>8. /\ iter' = iter + 1 /\ iter' \in 0 .. MaxIter
      /\ slope' \in 0 .. MaxSlope
      /\ UNCHANGED <<kindVars, dataVars, fits>>
  BY <1>1, SolveAssumption DEF Step
<1>9. SolveTypeOK'
  BY <1>3, <1>5, <1>6, <1>7, <1>8 DEF kindVars, dataVars
<1>10. InFit'
  <2> SUFFICES ASSUME pc' \in {"scan", "step"}
               PROVE  /\ Sound(out.fit, sans_a)
                      /\ reasons' = {}
                      /\ iter + 1 < MaxIter
    BY <1>3, <1>8 DEF InFit, ThisFit, kindVars
  <2>1. out.ec = GoesOn /\ ~Exhausted
    OBVIOUS
  <2>2. out.ec # Constrained
    BY <2>1 DEF GoesOn, Constrained
  <2> QED
    BY <1>1, <1>2, <1>5, <2>1, <2>2, SolveAssumption DEF StepResult, Exhausted
<1>11. Answered'
  <2> SUFFICES ASSUME pc' = "answered"
               PROVE  Answer' \in Answers
    BY DEF Answered
  <2>1. Answer' = [ec |-> out.ec, reasons |-> reasons',
                   viable |-> Viable(sans_a, out.fit.parameters)]
    BY <1>8 DEF Answer, kindVars
  <2>2. Viable(sans_a, out.fit.parameters) \in BOOLEAN
    BY DEF Viable
  <2>3. Viable(sans_a, out.fit.parameters) <=> out.ec # Constrained
    BY <1>2 DEF StepResult
  <2> QED
    BY <1>2, <1>5, <2>1, <2>2, <2>3 DEF StepResult, Answers
<1> QED
  BY <1>9, <1>10, <1>11

LEMMA SolveNext == SolveInv /\ [Next]_vars => SolveInv'
<1> SUFFICES ASSUME SolveInv, [Next]_vars
             PROVE  SolveInv'
  OBVIOUS
<1>1. CASE UNCHANGED vars
  BY <1>1 DEF SolveInv, SolveTypeOK, InFit, Answered, Answer, ThisFit, vars, kindVars,
              dataVars
<1> QED
  BY <1>1, BeginFitInv, AddDataPointsInv, StepInv DEF Next

LEMMA SolveInvariant == Spec => []SolveInv
  BY SolveInit, SolveNext, PTL DEF Spec

\* The solver objects and the solution keep their types, over any number of
\* fits, retries and refusals.
THEOREM SolveTypeCorrect == Spec => []SolveTypeOK
<1>1. SolveInv => SolveTypeOK
  BY DEF SolveInv
<1> QED
  BY <1>1, SolveInvariant, PTL

(***************************************************************************)
(* The contract                                                            *)
(***************************************************************************)
LEMMA NoAnswerYet == pc # "answered" => Answer = NoAnswer
  BY DEF Answer

\* solve_one() implements FitContract: the reasons it reports are those of this
\* fit, they are there if and only if it ended constrained, and any other end
\* leaves viable parameters, whatever the fits before it left behind.
THEOREM FitKeepsContract == Spec => KeepsContract
<1>1. Init => Contract!ContractInit
  BY NoAnswerYet DEF Init, Contract!ContractInit, Contract!NoAnswer, NoAnswer,
                     Contract!GoesOn, GoesOn
<1>2. SolveInv /\ SolveInv' /\ [Next]_vars => [Contract!ContractNext]_Answer
  <2> SUFFICES ASSUME SolveInv, SolveInv', [Next]_vars
               PROVE  Contract!ContractNext \/ UNCHANGED Answer
    BY DEF Contract!ContractNext, Contract!Ask, Contract!Reply
  <2>1. CASE pc' # "answered"
    <3>1. Answer' = NoAnswer
      BY <2>1 DEF Answer
    <3> QED
      BY <3>1 DEF Contract!ContractNext, Contract!Ask, Contract!NoAnswer, NoAnswer,
                  Contract!GoesOn, GoesOn
  <2>2. CASE UNCHANGED vars
    BY <2>2 DEF Answer, vars, kindVars
  <2>3. CASE pc' = "answered" /\ Step
    <3>1. Answer = NoAnswer
      BY <2>3, NoAnswerYet DEF Step
    <3>2. Answer' \in Answers
      BY <2>3 DEF SolveInv, Answered
    <3> QED
      BY <3>1, <3>2
      DEF Contract!ContractNext, Contract!Reply, Contract!NoAnswer, NoAnswer,
          Contract!Answers, Answers, Contract!GoesOn, GoesOn, Contract!Codes, Codes,
          Contract!Reasons, Reasons, Contract!ShapeReasons, ShapeReasons,
          Contract!SlopeReasons, SlopeReasons, Contract!Constrained, Constrained,
          Contract!TooFewData, TooFewData, Contract!Converged, Converged
  <2>4. CASE pc' = "answered" /\ (BeginFit \/ AddDataPoints)
    BY <2>4 DEF BeginFit, AddDataPoints
  <2> QED
    BY <2>1, <2>2, <2>3, <2>4 DEF Next
<1> QED
  BY <1>1, <1>2, SolveInvariant, PTL DEF Spec, KeepsContract, Contract!ContractSpec

(***************************************************************************)
(* The least residual                                                      *)
(***************************************************************************)
TooFew(k) == n_data <= (IF k THEN NParams - 1 ELSE NParams)

\* Before the first step of a fit.
FirstStep(f) ==
    /\ f.n_iteration = 0 /\ cur_res = Garbage
    /\ pc = "scan" => /\ f.state = "INITIALIZED" /\ f.res = 0 /\ f.n_dp = 0
                      /\ least = Infinite
    /\ pc = "step" => IF n_data = 0 THEN f.state = "INITIALIZED"
                      ELSE f.state = "DATA_ADDED" /\ f.n_dp = n_data /\ f.res = least

\* From then on: the last step that was accepted had the least residual, and
\* its parameters are those a retry restores.
LaterStep(f) ==
    /\ ~TooFew(sans_a) /\ f.n_iteration > 0
    /\ f.res_last = cost[slope][f.para_last.at]
    /\ cur_res = f.res_last /\ cur_res <= sol.begin_res
    /\ pc = "scan" => f.state = "SOLVED" /\ least = f.res_last
    /\ pc = "step" => /\ f.state = "DATA_ADDED" /\ f.n_dp = n_data
                      /\ least = IF f.res < f.res_last THEN f.res ELSE f.res_last

Ledger ==
    a_incr = 0 /\ pc \in {"scan", "step"} =>
        /\ IF iter = 0 THEN FirstStep(ThisFit) ELSE LaterStep(ThisFit)
        /\ pc = "step" /\ n_data > 0 => ThisFit.res = cost[slope][ThisFit.parameters.at]

LeastInv == Ledger /\ EndResIsLeast

LEMMA InitFitFacts ==
    ASSUME NEW f \in Fit, NEW k \in BOOLEAN, NEW p \in Params, Viable(k, p)
    PROVE  LET g == InitFit(f, k, p)
           IN  g.state = "INITIALIZED" /\ g.res = 0 /\ g.n_dp = 0 /\ g.n_iteration = 0
  BY DEF InitFit, Clear, Fit

LEMMA AddDataFacts ==
    ASSUME NEW f \in Fit, NEW n \in Nat \ {0}, NEW r \in Nat,
           f.state = "SOLVED" \/ (f.res = 0 /\ f.n_dp = 0)
    PROVE  LET g == AddData(f, n, r)
           IN  /\ g.state = "DATA_ADDED" /\ g.res = r /\ g.n_dp = n
               /\ g.parameters = f.parameters /\ g.para_last = f.para_last
               /\ g.n_iteration = f.n_iteration /\ g.res_last = f.res_last
<1> DEFINE g == IF f.state = "SOLVED" THEN Clear(f) ELSE f
<1>1. /\ g \in Fit /\ g.res = 0 /\ g.n_dp = 0
      /\ g.parameters = f.parameters /\ g.para_last = f.para_last
      /\ g.n_iteration = f.n_iteration /\ g.res_last = f.res_last
  BY DEF Clear, Fit, FitState
<1>2. AddData(f, n, r) = [g EXCEPT !.state = "DATA_ADDED", !.res = @ + r, !.n_dp = @ + n]
  BY DEF AddData
<1> HIDE DEF g
<1> QED
  BY <1>1, <1>2 DEF Fit

LEMMA RetryFacts ==
    ASSUME NEW f \in Fit, f.n_retry <= RetryLimit
    PROVE  LET out == Retry(f)
           IN  /\ out.ec = GoesOn /\ out.cur_res = f.res_last
               /\ out.fit.state = "SOLVED" /\ out.fit.n_iteration = f.n_iteration
               /\ out.fit.res_last = f.res_last /\ out.fit.para_last = f.para_last
<1>1. ~(f.n_retry > RetryLimit)
  BY FitAssumption DEF Fit
<1> QED
  BY <1>1 DEF Retry, Outcome, Fit

LEMMA MoveFacts ==
    ASSUME NEW f \in Fit, NEW k \in BOOLEAN, NEW p \in Params,
           NEW ec \in {GoesOn, Converged}
    PROVE  LET out == Move(f, k, p, ec)
           IN  /\ out.ec \in {ec, Constrained} /\ out.cur_res = f.res
               /\ out.ec # Constrained =>
                      /\ out.fit.state = "SOLVED"
                      /\ out.fit.n_iteration = f.n_iteration + 1
                      /\ out.fit.res_last = f.res /\ out.fit.para_last = f.parameters
<1> DEFINE a == Accept(f)
           moved == [a EXCEPT !.para_last = f.parameters, !.parameters = p]
<1>1. /\ a \in Fit /\ a.n_iteration = f.n_iteration /\ a.res_last = f.res
      /\ f.parameters \in Params
  BY AcceptKeeps DEF Accept, Fit
<1> HIDE DEF a
<1>2. /\ moved \in Fit /\ moved.n_iteration = f.n_iteration
      /\ moved.res_last = f.res /\ moved.para_last = f.parameters
  BY <1>1 DEF Fit
<1>3. Move(f, k, p, ec) =
          IF Viable(k, p)
          THEN Outcome([moved EXCEPT !.n_iteration = @ + 1, !.state = "SOLVED"], ec, f.res)
          ELSE Outcome(moved, Constrained, f.res)
  BY DEF Move, a
<1> HIDE DEF moved
<1>4. CASE Viable(k, p)
  <2> DEFINE g == [moved EXCEPT !.n_iteration = @ + 1, !.state = "SOLVED"]
  <2>1. /\ g.state = "SOLVED" /\ g.n_iteration = f.n_iteration + 1
        /\ g.res_last = f.res /\ g.para_last = f.parameters
    BY <1>2 DEF Fit
  <2>2. Move(f, k, p, ec) = Outcome(g, ec, f.res)
    BY <1>3, <1>4
  <2> HIDE DEF g
  <2> QED
    BY <2>1, <2>2 DEF Outcome
<1>5. CASE ~Viable(k, p)
  BY <1>3, <1>5 DEF Outcome
<1> QED
  BY <1>4, <1>5

LEMMA BeginFitLeast ==
    ASSUME SolveInv, BeginFit
    PROVE  LeastInv'
<1> PICK k \in BOOLEAN, p \in Params, incr \in {0, 1} :
        /\ sans_a' = k /\ a_incr' = incr
        /\ slope' = 0
        /\ fit' = [fit EXCEPT ![k] = InitFit(@, k, p)]
        /\ pc' = IF Viable(k, p) THEN "scan" ELSE "exit"
  BY DEF BeginFit
<1>1. fit \in [BOOLEAN -> Fit]
  BY DEF SolveInv, SolveTypeOK
<1>2. fit'[k] = InitFit(fit[k], k, p) /\ fit[k] \in Fit
  BY <1>1
<1>3. cur_res' = Garbage /\ iter' = 0 /\ least' = Infinite
  BY DEF BeginFit
<1>4. EndResIsLeast'
  BY DEF EndResIsLeast, Reported
<1>5. Ledger'
  <2> SUFFICES ASSUME pc' = "scan"
               PROVE  FirstStep(ThisFit)'
    BY <1>3 DEF Ledger
  <2>1. Viable(k, p)
    OBVIOUS
  <2>2. /\ fit'[k].state = "INITIALIZED" /\ fit'[k].res = 0 /\ fit'[k].n_dp = 0
        /\ fit'[k].n_iteration = 0
    BY <1>2, <2>1, InitFitFacts
  <2> QED
    BY <1>3, <2>2 DEF FirstStep, ThisFit
<1> QED
  BY <1>4, <1>5 DEF LeastInv

LEMMA AddDataLeast ==
    ASSUME SolveInv, LeastInv, AddDataPoints
    PROVE  LeastInv'
<1> DEFINE f == ThisFit
           r == cost[slope][f.parameters.at]
<1>1. /\ pc = "scan"
      /\ UNCHANGED <<sans_a, a_incr, slope, sol, cur_res, iter, cost, n_data>>
      /\ \/ pc' = "abort"
         \/ /\ ~(r = BadDatum /\ n_data > 0)
            /\ pc' = "step"
            /\ fit' = [fit EXCEPT ![sans_a] = AddData(@, n_data, r)]
            /\ least' = IF r < least THEN r ELSE least
  BY DEF AddDataPoints, kindVars, dataVars
<1>2. /\ fit \in [BOOLEAN -> Fit] /\ sans_a \in BOOLEAN /\ n_data \in Nat
      /\ f \in Fit /\ iter \in Nat
  BY SolveAssumption DEF SolveInv, SolveTypeOK, ThisFit
<1>3. r \in 0 .. Infinite - 1 \cup {BadDatum}
  <2>1. f.parameters \in Params
    BY <1>2 DEF Fit
  <2>2. cost \in Costs /\ slope \in 0 .. MaxSlope
    BY DEF SolveInv, SolveTypeOK
  <2> QED
    BY <2>1, <2>2, SolveAssumption
<1>4. EndResIsLeast'
  BY <1>1 DEF EndResIsLeast, Reported
<1>5. Ledger'
  <2> SUFFICES ASSUME a_incr = 0, pc' = "step"
               PROVE  /\ (IF iter = 0 THEN FirstStep(ThisFit) ELSE LaterStep(ThisFit))'
                      /\ n_data > 0 => ThisFit'.res = cost[slope][ThisFit'.parameters.at]
    BY <1>1 DEF Ledger
  <2> DEFINE g == AddData(f, n_data, r)
  <2>1. ThisFit' = g /\ least' = IF r < least THEN r ELSE least
    BY <1>1, <1>2 DEF ThisFit
  <2>2. IF iter = 0 THEN FirstStep(f) ELSE LaterStep(f)
    BY <1>1 DEF LeastInv, Ledger
  <2>3. CASE n_data = 0
    <3>1. g = f
      BY <2>3 DEF AddData
    <3>2. iter = 0
      BY <2>2, <2>3, FitAssumption DEF LaterStep, TooFew
    <3> HIDE DEF f, g
    <3> QED
      BY <1>1, <2>1, <2>2, <2>3, <3>1, <3>2 DEF FirstStep
  <2>4. CASE n_data # 0
    <3>1. r \in Nat /\ r < Infinite
      <4>1. r # BadDatum
        BY <1>1, <1>2, <2>4
      <4> HIDE DEF r
      <4> QED
        BY <1>3, <4>1 DEF Infinite
    <3>2. f.state = "SOLVED" \/ (f.res = 0 /\ f.n_dp = 0)
      BY <1>1, <2>2 DEF FirstStep, LaterStep
    <3> HIDE DEF f, r
    <3>3. /\ g.state = "DATA_ADDED" /\ g.res = r /\ g.n_dp = n_data
          /\ g.parameters = f.parameters /\ g.para_last = f.para_last
          /\ g.n_iteration = f.n_iteration /\ g.res_last = f.res_last
      BY <1>2, <2>4, <3>1, <3>2, AddDataFacts
    <3> HIDE DEF g
    <3>4. CASE iter = 0
      <4>1. least' = r
        BY <1>1, <2>1, <2>2, <3>1, <3>4 DEF FirstStep
      <4> QED
        BY <1>1, <2>1, <2>2, <2>4, <3>3, <3>4, <4>1 DEF FirstStep, r, f
    <3>5. CASE iter # 0
      <4>1. least = f.res_last
        BY <1>1, <2>2, <3>5 DEF LaterStep
      <4> QED
        BY <1>1, <2>1, <2>2, <2>4, <3>3, <3>5, <4>1 DEF LaterStep, TooFew, r, f
    <3> QED
      BY <3>4, <3>5
  <2> QED
    BY <2>3, <2>4
<1> QED
  BY <1>4, <1>5 DEF LeastInv

\* The outcomes of a step, told apart by what it found.
LEMMA StepCases ==
    ASSUME NEW f, NEW k, NEW out \in Solve1s(f, k)
    PROVE  \/ f.state # "DATA_ADDED" /\ out = Outcome(f, OutOfOrder, Garbage)
           \/ Underdetermined(f, k) /\ out = Outcome(f, TooFewData, Garbage)
           \/ /\ f.state = "DATA_ADDED" /\ ~Underdetermined(f, k)
              /\ \/ Uphill(f) /\ out = Retry(f)
                 \/ ~Uphill(f) /\ out = Outcome(Accept(f), Singular, Garbage)
                 \/ /\ ~Uphill(f)
                    /\ \E p \in Params, ec \in {GoesOn, Converged} : out = Move(f, k, p, ec)
  BY DEF Solve1s, Steps

LEMMA StepLeast ==
    ASSUME SolveInv, SolveInv', LeastInv, Step
    PROVE  LeastInv'
<1> DEFINE f == ThisFit
<1> PICK out \in Solve1s(f, sans_a) :
        /\ fit' = [fit EXCEPT ![sans_a] = out.fit]
        /\ cur_res' = IF out.cur_res = Garbage THEN cur_res ELSE out.cur_res
        /\ sol' = [begin_res |-> IF iter = 0 THEN cur_res' ELSE sol.begin_res,
                   end_res |-> cur_res', ec |-> out.ec, pok_fail |-> reasons',
                   param_final |-> out.fit.parameters]
        /\ pc' = IF out.ec # GoesOn \/ Exhausted THEN "answered" ELSE "scan"
  BY DEF Step
<1>1. /\ fit \in [BOOLEAN -> Fit] /\ sans_a \in BOOLEAN /\ n_data \in Nat
      /\ f \in Fit /\ iter \in Nat /\ cur_res \in Residual
      /\ slope \in 0 .. MaxSlope /\ MaxSlope \in Nat
  BY SolveAssumption DEF SolveInv, SolveTypeOK, ThisFit
<1>2. /\ pc = "step" /\ iter' = iter + 1
      /\ UNCHANGED <<sans_a, a_incr, cost, n_data, least>>
  BY DEF Step, kindVars, dataVars
<1>3. a_incr = 0 => slope' = slope
  BY <1>1 DEF Step
<1>4. ThisFit' = out.fit
  BY <1>1, <1>2 DEF ThisFit
<1>5. sol'.ec = out.ec /\ sol'.end_res = cur_res'
      /\ sol'.begin_res = IF iter = 0 THEN cur_res' ELSE sol.begin_res
  OBVIOUS
<1>6. SUFFICES ASSUME a_incr = 0
               PROVE  LeastInv'
  BY <1>2 DEF LeastInv, Ledger, EndResIsLeast, Reported
<1>7. /\ IF iter = 0 THEN FirstStep(f) ELSE LaterStep(f)
      /\ n_data > 0 => f.res = cost[slope][f.parameters.at]
  BY <1>2, <1>6 DEF LeastInv, Ledger
\* What is left to show of an outcome.
<1> DEFINE Ends == /\ out.ec \in {GoesOn, Converged, Constrained} => cur_res' = least
                   /\ out.ec = Singular => cur_res' <= sol'.begin_res
                   /\ out.ec \in {OutOfOrder, TooFewData} => cur_res' = Garbage
           Continues == out.ec = GoesOn => LaterStep(out.fit)'
<1>8. Ends /\ Continues => LeastInv'
  <2> SUFFICES ASSUME Ends, Continues
               PROVE  LeastInv'
    OBVIOUS
  <2>1. EndResIsLeast'
    BY <1>2, <1>5 DEF EndResIsLeast, Reported
  <2>2. Ledger'
    <3> SUFFICES ASSUME pc' = "scan"
                 PROVE  LaterStep(ThisFit)'
      BY <1>1, <1>2 DEF Ledger
    <3>1. out.ec = GoesOn
      OBVIOUS
    <3> QED
      BY <1>4, <3>1 DEF LaterStep
  <2> QED
    BY <2>1, <2>2 DEF LeastInv
<1>9. /\ f.res \in Nat /\ f.res_last \in Nat /\ f.n_iteration \in Nat
      /\ f.n_retry \in Nat /\ NParams \in Nat /\ NParams # 0
  BY <1>1, FitAssumption DEF Fit
<1> HIDE DEF f
<1>10. CASE f.state # "DATA_ADDED" /\ out = Outcome(f, OutOfOrder, Garbage)
  <2>1. iter = 0 /\ cur_res = Garbage
    BY <1>2, <1>7, <1>10 DEF FirstStep, LaterStep
  <2>2. cur_res' = Garbage /\ out.ec = OutOfOrder
    BY <1>10, <2>1 DEF Outcome
  <2>3. Ends /\ Continues
    BY <2>2 DEF OutOfOrder, TooFewData, GoesOn, Converged, Constrained, Singular
  <2> QED
    BY <1>8, <2>3
<1>11. CASE Underdetermined(f, sans_a) /\ out = Outcome(f, TooFewData, Garbage)
  <2>1. iter = 0 /\ cur_res = Garbage
    BY <1>2, <1>7, <1>11 DEF FirstStep, LaterStep, Underdetermined, TooFew
  <2>2. cur_res' = Garbage /\ out.ec = TooFewData
    BY <1>11, <2>1 DEF Outcome
  <2>3. Ends /\ Continues
    BY <2>2 DEF OutOfOrder, TooFewData, GoesOn, Converged, Constrained, Singular
  <2> QED
    BY <1>8, <2>3
<1>12. ASSUME f.state = "DATA_ADDED", ~Underdetermined(f, sans_a)
       PROVE  /\ ~TooFew(sans_a)
              /\ n_data > 0
              /\ f.res = cost[slope][f.parameters.at]
              /\ iter = 0 => /\ f.res = least /\ f.n_iteration = 0 /\ cur_res = Garbage
              /\ iter # 0 => /\ f.n_iteration > 0 /\ cur_res = f.res_last
                             /\ cur_res <= sol.begin_res
                             /\ f.res_last = cost[slope][f.para_last.at]
                             /\ least = IF f.res < f.res_last THEN f.res ELSE f.res_last
  <2>1. f.n_dp = n_data
    BY <1>2, <1>7, <1>12 DEF FirstStep, LaterStep
  <2>2. ~TooFew(sans_a)
    BY <1>12, <2>1 DEF Underdetermined, TooFew
  <2>3. n_data > 0
    BY <1>1, <1>9, <2>2 DEF TooFew
  <2> QED
    BY <1>2, <1>7, <2>2, <2>3 DEF FirstStep, LaterStep
<1>13. CASE /\ f.state = "DATA_ADDED" /\ ~Underdetermined(f, sans_a)
            /\ Uphill(f) /\ out = Retry(f)
  <2>1. iter # 0 /\ f.res_last < f.res /\ least = f.res_last
    BY <1>9, <1>12, <1>13 DEF Uphill
  <2>2. CASE f.n_retry > RetryLimit
    <3>1. out.ec = NoProgress
      BY <1>13, <2>2 DEF Retry, Outcome
    <3>2. Ends /\ Continues
      BY <3>1 DEF NoProgress, OutOfOrder, TooFewData, GoesOn, Converged, Constrained,
                  Singular
    <3> QED
      BY <1>8, <3>2
  <2>3. CASE f.n_retry <= RetryLimit
    <3>1. /\ out.ec = GoesOn /\ out.cur_res = f.res_last
          /\ out.fit.state = "SOLVED" /\ out.fit.n_iteration = f.n_iteration
          /\ out.fit.res_last = f.res_last /\ out.fit.para_last = f.para_last
      BY <1>1, <1>13, <2>3, RetryFacts DEF f
    <3>2. cur_res' = f.res_last
      BY <1>9, <3>1 DEF Garbage
    <3>3. Ends
      BY <2>1, <3>1, <3>2
      DEF OutOfOrder, TooFewData, GoesOn, Converged, Constrained, Singular
    <3>4. Continues
      <4>1. out.fit.res_last = cost'[slope'][out.fit.para_last.at]
        BY <1>2, <1>3, <1>6, <1>12, <1>13, <2>1, <3>1
      <4>2. cur_res' = out.fit.res_last /\ cur_res' <= sol'.begin_res
        BY <1>5, <1>12, <1>13, <2>1, <3>1, <3>2
      <4>3. ~TooFew(sans_a)' /\ out.fit.n_iteration > 0 /\ least' = out.fit.res_last
        BY <1>2, <1>12, <1>13, <2>1, <3>1 DEF TooFew
      <4>4. pc' # "step" /\ out.fit.state = "SOLVED"
        BY <3>1
      <4> QED
        BY <4>1, <4>2, <4>3, <4>4 DEF LaterStep
    <3> QED
      BY <1>8, <3>3, <3>4
  <2> QED
    BY <1>9, <2>2, <2>3, FitAssumption
<1>14. CASE /\ f.state = "DATA_ADDED" /\ ~Underdetermined(f, sans_a)
            /\ ~Uphill(f) /\ out = Outcome(Accept(f), Singular, Garbage)
  <2>1. out.ec = Singular /\ cur_res' = cur_res
    BY <1>14 DEF Outcome
  <2>2. cur_res' <= sol'.begin_res
    BY <1>5, <1>12, <1>14, <2>1 DEF Garbage
  <2>3. Ends /\ Continues
    BY <2>1, <2>2 DEF OutOfOrder, TooFewData, GoesOn, Converged, Constrained, Singular
  <2> QED
    BY <1>8, <2>3
<1>15. CASE /\ f.state = "DATA_ADDED" /\ ~Underdetermined(f, sans_a) /\ ~Uphill(f)
            /\ \E p \in Params, ec \in {GoesOn, Converged} : out = Move(f, sans_a, p, ec)
  <2>1. least = f.res /\ (iter # 0 => f.res <= cur_res /\ cur_res <= sol.begin_res)
    BY <1>9, <1>12, <1>15 DEF Uphill
  <2>2. PICK p \in Params, ec \in {GoesOn, Converged} : out = Move(f, sans_a, p, ec)
    BY <1>15
  <2>3. /\ out.ec \in {ec, Constrained} /\ out.cur_res = f.res
        /\ out.ec # Constrained =>
               /\ out.fit.state = "SOLVED"
               /\ out.fit.n_iteration = f.n_iteration + 1
               /\ out.fit.res_last = f.res /\ out.fit.para_last = f.parameters
    BY <1>1, <2>2, MoveFacts DEF f
  <2>4. cur_res' = f.res
    BY <1>9, <2>3 DEF Garbage
  <2>5. Ends
    BY <2>1, <2>3, <2>4
    DEF OutOfOrder, TooFewData, GoesOn, Converged, Constrained, Singular
  <2>6. Continues
    <3> SUFFICES ASSUME out.ec = GoesOn
                 PROVE  LaterStep(out.fit)'
      OBVIOUS
    <3>1. out.ec # Constrained
      BY DEF GoesOn, Constrained
    <3>2. out.fit.res_last = cost'[slope'][out.fit.para_last.at]
      BY <1>2, <1>3, <1>6, <1>12, <1>15, <2>3, <3>1
    <3>3. cur_res' <= sol'.begin_res
      <4>1. sol.begin_res \in Residual /\ f.res \in Int
        BY <1>9 DEF SolveInv, SolveTypeOK
      <4> QED
        BY <1>1, <1>5, <1>9, <2>1, <2>4, <4>1 DEF Residual, Garbage
    <3>4. ~TooFew(sans_a)' /\ out.fit.n_iteration > 0 /\ least' = out.fit.res_last
      BY <1>2, <1>9, <1>12, <1>15, <2>1, <2>3, <3>1 DEF TooFew
    <3>5. pc' # "step"
      OBVIOUS
    <3> QED
      BY <2>3, <2>4, <3>1, <3>2, <3>3, <3>4, <3>5 DEF LaterStep
  <2> QED
    BY <1>8, <2>5, <2>6
<1>16. \/ f.state # "DATA_ADDED" /\ out = Outcome(f, OutOfOrder, Garbage)
       \/ Underdetermined(f, sans_a) /\ out = Outcome(f, TooFewData, Garbage)
       \/ /\ f.state = "DATA_ADDED" /\ ~Underdetermined(f, sans_a)
          /\ \/ Uphill(f) /\ out = Retry(f)
             \/ ~Uphill(f) /\ out = Outcome(Accept(f), Singular, Garbage)
             \/ /\ ~Uphill(f)
                /\ \E p \in Params, ec \in {GoesOn, Converged} : out = Move(f, sans_a, p, ec)
  BY StepCases
<1> QED
  BY <1>10, <1>11, <1>13, <1>14, <1>15, <1>16

\* A fit with a fixed slope reports the least residual it has seen, and never
\* more than it began with.
THEOREM ReportsLeast == Spec => []EndResIsLeast
<1>1. Init => LeastInv
  BY DEF Init, LeastInv, Ledger, EndResIsLeast, Reported
<1>2. SolveInv /\ SolveInv' /\ LeastInv /\ [Next]_vars => LeastInv'
  <2> SUFFICES ASSUME SolveInv, SolveInv', LeastInv, [Next]_vars
               PROVE  LeastInv'
    OBVIOUS
  <2>1. CASE UNCHANGED vars
    BY <2>1 DEF vars, kindVars, dataVars, history, LeastInv, Ledger, EndResIsLeast,
                Reported, FirstStep, LaterStep, TooFew, ThisFit
  <2> QED
    BY <2>1, BeginFitLeast, AddDataLeast, StepLeast DEF Next
<1>3. LeastInv => EndResIsLeast
  BY DEF LeastInv
<1> QED
  BY <1>1, <1>2, <1>3, SolveInvariant, PTL DEF Spec
=============================================================================
