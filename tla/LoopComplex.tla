---------------------------- MODULE LoopComplex ----------------------------
(***************************************************************************)
(* The evaluation oracle (loop_complex.cpp) with the objects it drives:    *)
(* scan parameters (parameter.h), stateful expressions (sum_expression.cpp *)
(* stands for its five siblings) and least-squares fits                    *)
(* (lsq_fit_function.cpp).                                                 *)
(*                                                                         *)
(* While the spice deck is parsed, scan parameters build the stack of run  *)
(* levels and every stateful object registers with the level that is then  *)
(* on top.  run_once() then runs the nested loops; the innermost level     *)
(* calls the simulator.                                                    *)
(*                                                                         *)
(* A stateful object has one argument: the simulation sample, or an object *)
(* defined before it.  A sample is 1 or NaN, so that a sum counts the      *)
(* samples that went into it; a fit is abstracted to the number of points  *)
(* it was solved from.                                                     *)
(***************************************************************************)
EXTENDS Integers, Sequences, FiniteSets

CONSTANTS
    ScanSteps,   \* the n_steps a scan parameter may have
    MaxScans,    \* bound on the scan parameters of a deck
    MaxObjects,  \* bound on the stateful objects of a deck
    MaxOnce      \* bound on the calls of run_once()

ASSUME LoopAssumption ==
    /\ ScanSteps \subseteq Nat \ {0, 1}
    /\ MaxScans \in Nat /\ MaxObjects \in Nat /\ MaxOnce \in Nat

NaN == -1                 \* an undefined value
Sample == 0               \* the argument that reads the simulator's output
Value == {NaN} \cup Nat

VARIABLES
    pc,          \* what run_this_level() does next at level lvl
    lvl,         \* the level being run; 1 is the innermost
    levels,      \* the stack of run levels: [steps, objects]; steps = 1 means
                 \* that the level does not loop
    objects,     \* the stateful objects: [fit, arg]
    step_cntr,   \* of the scan parameter of each level
    value,       \* what each object's value reads
    points,      \* data collected by a fit and not solved yet
    next_obj,    \* position in the level's registry
    is_valid,    \* nodes_of_interest::is_valid_flag
    sample,      \* what the last simulation left in the columns
    n_josim_runs,
    once,        \* calls of run_once() so far
    runs,        \* history: simulations of this run_once()
    good,        \* history: per object, valid samples since it was initialized
    updates      \* history: per object, updates since it was initialized

deckVars == <<levels, objects>>
valueVars == <<value, points, updates>>
history == <<runs, good>>
vars == <<pc, lvl, deckVars, step_cntr, valueVars, next_obj, is_valid, sample,
          n_josim_runs, once, history>>

Top == Len(levels)
Objects == 1 .. Len(objects)
Here == levels[lvl].objects         \* the registry of the level being run
LevelOf(o) == CHOOSE l \in 1 .. Top : \E i \in DOMAIN levels[l].objects :
                                          levels[l].objects[i] = o

Init ==
    /\ pc = "parse" /\ lvl = 1
    /\ levels = <<[steps |-> 1, objects |-> <<>>]>>
    /\ objects = <<>>
    /\ step_cntr = <<0>>
    /\ value = <<>> /\ points = <<>> /\ updates = <<>>
    /\ next_obj = 1
    /\ is_valid = FALSE /\ sample = NaN
    /\ n_josim_runs = 0 /\ once = 0
    /\ runs = 0 /\ good = <<>>

(***************************************************************************)
(* Parsing                                                                 *)
(***************************************************************************)
Scans == Cardinality({l \in 1 .. Top : levels[l].steps > 1})

\* A scan parameter loops over the top level, or over a new one on top of it
\* when the top level loops already.
DefineScan(n) ==
    /\ pc = "parse" /\ Scans < MaxScans
    /\ IF levels[Top].steps = 1
       THEN levels' = [levels EXCEPT ![Top].steps = n] /\ UNCHANGED step_cntr
       ELSE /\ levels' = Append(levels, [steps |-> n, objects |-> <<>>])
            /\ step_cntr' = Append(step_cntr, 0)
    /\ UNCHANGED <<pc, lvl, objects, valueVars, next_obj, is_valid, sample,
                   n_josim_runs, once, history>>

\* A sum (or its like) or a fit over the samples or an earlier object.
DefineObject(fit, arg) ==
    /\ pc = "parse" /\ Len(objects) < MaxObjects
    /\ objects' = Append(objects, [fit |-> fit, arg |-> arg])
    /\ levels' = [levels EXCEPT ![Top].objects = Append(@, Len(objects) + 1)]
    /\ value' = Append(value, NaN)
    /\ points' = Append(points, 0)
    /\ updates' = Append(updates, 0)
    /\ good' = Append(good, 0)
    /\ UNCHANGED <<pc, lvl, step_cntr, next_obj, is_valid, sample, n_josim_runs,
                   once, runs>>

\* run_once() starts at the top level.
RunOnce ==
    /\ pc \in {"parse", "returned"} /\ once < MaxOnce
    /\ once' = once + 1
    /\ lvl' = Top
    /\ pc' = "initialize"
    /\ runs' = 0
    /\ UNCHANGED <<deckVars, step_cntr, valueVars, next_obj, is_valid, sample,
                   n_josim_runs, good>>

(***************************************************************************)
(* run_this_level()                                                        *)
(***************************************************************************)
HereSet == {Here[i] : i \in DOMAIN Here}
Cleared(f, x) == [o \in DOMAIN f |-> IF o \in HereSet THEN x ELSE f[o]]

InitialValue(o) == IF objects[o].fit THEN NaN ELSE 0

InitializeKeepingValues ==
    /\ points' = Cleared(points, 0)
    /\ UNCHANGED value
InitializeValues ==
    /\ value' = [o \in DOMAIN value |->
                    IF o \in HereSet THEN InitialValue(o) ELSE value[o]]
    /\ points' = Cleared(points, 0)

RestartScanNot == UNCHANGED step_cntr
RestartScan == step_cntr' = [step_cntr EXCEPT ![lvl] = 0]

InitializeLevel ==
    /\ pc = "initialize"
    /\ InitializeValues
    /\ RestartScan
    /\ updates' = Cleared(updates, 0)
    /\ good' = Cleared(good, 0)
    /\ pc' = "iterate"
    /\ UNCHANGED <<lvl, deckVars, next_obj, is_valid, sample, n_josim_runs, once,
                   runs>>

\* The head of the loop: results are invalid until the simulator has run.
Iterate ==
    /\ pc = "iterate"
    /\ is_valid' = FALSE
    /\ IF lvl > 1
       THEN lvl' = lvl - 1 /\ pc' = "initialize"
       ELSE pc' = "josim" /\ UNCHANGED lvl
    /\ UNCHANGED <<deckVars, step_cntr, valueVars, next_obj, sample, n_josim_runs,
                   once, history>>

\* run_josim() returns: the columns hold the sample s.
RunJosim(s) ==
    /\ pc = "josim"
    /\ sample' = s
    /\ is_valid' = TRUE
    /\ runs' = runs + 1
    /\ good' = [o \in DOMAIN good |-> IF s = NaN THEN good[o] ELSE good[o] + 1]
    /\ next_obj' = 1
    /\ pc' = "update"
    /\ UNCHANGED <<lvl, deckVars, step_cntr, valueVars, n_josim_runs, once>>

\* run_josim() gives up and exits the program.
JosimExits ==
    /\ pc = "josim"
    /\ pc' = "exited"
    /\ UNCHANGED <<lvl, deckVars, step_cntr, valueVars, next_obj, is_valid, sample,
                   n_josim_runs, once, history>>

\* The value of an argument: columns read as undefined while they are invalid.
Read(arg) ==
    IF arg = Sample THEN (IF is_valid THEN sample ELSE NaN) ELSE value[arg]

AddDatumUnchecked(o) ==
    /\ value' = [value EXCEPT ![o] = @ + Read(objects[o].arg)]
    /\ UNCHANGED points
\* Undefined arguments are skipped; a fit only collects the datum.
AddDatum(o) ==
    LET v == Read(objects[o].arg)
    IN  \/ v = NaN /\ UNCHANGED <<value, points>>
        \/ /\ v # NaN /\ objects[o].fit
           /\ points' = [points EXCEPT ![o] = @ + 1]
           /\ UNCHANGED value
        \/ /\ v # NaN /\ ~objects[o].fit
           /\ value' = [value EXCEPT ![o] = @ + v]
           /\ UNCHANGED points

UpdateObject ==
    /\ pc = "update" /\ next_obj <= Len(Here)
    /\ AddDatum(Here[next_obj])
    /\ updates' = [updates EXCEPT ![Here[next_obj]] = @ + 1]
    /\ next_obj' = next_obj + 1
    /\ UNCHANGED <<pc, lvl, deckVars, step_cntr, is_valid, sample, n_josim_runs,
                   once, history>>

\* next() of the scan parameter returns 1, or there is none.
LoopComplete == step_cntr[lvl] + 1 >= levels[lvl].steps

EndOfBody ==
    /\ pc = "update" /\ next_obj > Len(Here)
    /\ n_josim_runs' = IF lvl = 1 THEN n_josim_runs + 1 ELSE n_josim_runs
    /\ IF LoopComplete
       THEN pc' = "finalize" /\ UNCHANGED step_cntr
       ELSE pc' = "iterate" /\ step_cntr' = [step_cntr EXCEPT ![lvl] = @ + 1]
    /\ next_obj' = 1
    /\ UNCHANGED <<lvl, deckVars, valueVars, is_valid, sample, once, history>>

\* A fit without data has no solution, one with data may have none.
Solutions(o) == IF points[o] > 0 THEN {points[o], NaN} ELSE {NaN}

FinalizeKeepingPoints ==
    /\ pc = "finalize" /\ next_obj <= Len(Here)
    /\ LET o == Here[next_obj]
       IN  IF objects[o].fit
           THEN \E v \in Solutions(o) : value' = [value EXCEPT ![o] = v]
           ELSE UNCHANGED value
    /\ next_obj' = next_obj + 1
    /\ UNCHANGED <<pc, lvl, deckVars, step_cntr, points, updates, is_valid,
                   sample, n_josim_runs, once, history>>
FinalizeUntilSolved ==
    /\ pc = "finalize" /\ next_obj <= Len(Here)
    /\ LET o == Here[next_obj]
       IN  IF objects[o].fit
           THEN \E v \in Solutions(o) :
                    /\ value' = [value EXCEPT ![o] = v]
                    /\ points' = [points EXCEPT ![o] = 0]
                    /\ next_obj' = IF v = NaN THEN next_obj ELSE next_obj + 1
           ELSE next_obj' = next_obj + 1 /\ UNCHANGED <<value, points>>
    /\ UNCHANGED <<pc, lvl, deckVars, step_cntr, updates, is_valid,
                   sample, n_josim_runs, once, history>>

\* A fit is solved and made ready for the next pass.
FinalizeObject ==
    /\ pc = "finalize" /\ next_obj <= Len(Here)
    /\ LET o == Here[next_obj]
       IN  IF objects[o].fit
           THEN /\ \E v \in Solutions(o) : value' = [value EXCEPT ![o] = v]
                /\ points' = [points EXCEPT ![o] = 0]
           ELSE UNCHANGED <<value, points>>
    /\ next_obj' = next_obj + 1
    /\ UNCHANGED <<pc, lvl, deckVars, step_cntr, updates, is_valid, sample,
                   n_josim_runs, once, history>>

\* The level returns to the one above it, whose body continues.
ReturnFromLevel ==
    /\ pc = "finalize" /\ next_obj > Len(Here)
    /\ IF lvl = Top
       THEN pc' = "returned" /\ UNCHANGED lvl
       ELSE pc' = "update" /\ lvl' = lvl + 1
    /\ next_obj' = 1
    /\ UNCHANGED <<deckVars, step_cntr, valueVars, is_valid, sample, n_josim_runs,
                   once, history>>

Ended ==
    /\ pc = "exited" \/ (pc = "returned" /\ once = MaxOnce)
    /\ UNCHANGED vars

Run ==
    \/ InitializeLevel \/ Iterate
    \/ \E s \in {1, NaN} : RunJosim(s)
    \/ JosimExits
    \/ UpdateObject \/ EndOfBody \/ FinalizeObject \/ ReturnFromLevel

Next ==
    \/ \E n \in ScanSteps : DefineScan(n)
    \/ \E fit \in BOOLEAN, arg \in {Sample} \cup Objects : DefineObject(fit, arg)
    \/ RunOnce
    \/ Run
    \/ Ended

Spec == Init /\ [][Next]_vars /\ WF_vars(Run)

(***************************************************************************)
(* Properties                                                              *)
(***************************************************************************)
LoopTypeOK ==
    /\ pc \in {"parse", "initialize", "iterate", "josim", "update", "finalize",
               "returned", "exited"}
    /\ lvl \in 1 .. Top
    /\ levels \in Seq([steps : Nat \ {0}, objects : Seq(Objects)])
    /\ objects \in Seq([fit : BOOLEAN, arg : Nat])
    /\ step_cntr \in Seq(Nat) /\ Len(step_cntr) = Top
    /\ value \in [Objects -> Value] /\ points \in [Objects -> Nat]
    /\ updates \in [Objects -> Nat]
    /\ next_obj \in Nat \ {0}
    /\ is_valid \in BOOLEAN /\ sample \in {1, NaN}
    /\ n_josim_runs \in Nat /\ once \in 0 .. MaxOnce /\ runs \in Nat

\* The number of simulations that level l and the levels below it stand for.
Inner[l \in 0 .. Top] == IF l = 0 THEN 1 ELSE levels[l].steps * Inner[l - 1]

\* The rank of the combination the scan parameters are set to.
Rank[l \in 0 .. Top] == IF l = 0 THEN 0 ELSE step_cntr[l] * Inner[l - 1] + Rank[l - 1]

\* The nested loops are an odometer: just before a simulation, the scan
\* parameters are set to the combination whose rank is the number of
\* simulations done, so that each combination is simulated exactly once per
\* run_once(), whatever the previous one left in the counters.
EachCombinationOnce ==
    /\ pc = "josim" => runs = Rank[Top]
    /\ pc = "returned" => runs = Inner[Top]

\* An object is updated exactly once for each iteration of its own level
\* between its initialization and its finalization.
OneUpdatePerIteration ==
    pc = "finalize" => \A o \in HereSet : updates[o] = levels[lvl].steps

\* Every combination is simulated, and every object updated for it, once.
IterationsExact == EachCombinationOnce /\ OneUpdatePerIteration

\* When an object is updated every level below has come to its end and solved
\* its fits: the results are valid, and no fit below still holds raw points.
UpdatesSeeFinalResults ==
    pc = "update" =>
        /\ is_valid
        /\ \A l \in 1 .. lvl - 1 :
              /\ step_cntr[l] = levels[l].steps - 1
              /\ \A i \in DOMAIN levels[l].objects :
                    points[levels[l].objects[i]] = 0

\* A sum over the samples at the innermost level counts the valid samples since
\* that level started, and a sum at the next level over such a sum counts those
\* since its own level started: nothing is counted twice, lost, or left over
\* from an earlier pass or an earlier run_once().
IsSampleSum(o) ==
    ~objects[o].fit /\ objects[o].arg = Sample /\ LevelOf(o) = 1
IsSumOfSums(o) ==
    /\ ~objects[o].fit /\ objects[o].arg # Sample /\ LevelOf(o) = 2
    /\ IsSampleSum(objects[o].arg)
SumsAreExact ==
    pc = "finalize" =>
        \A o \in HereSet :
            IsSampleSum(o) \/ IsSumOfSums(o) => value[o] = good[o]

\* Once started, run_once() returns or the program has exited.
RunOnceReturns == pc = "initialize" ~> pc \in {"returned", "exited"}
=============================================================================
