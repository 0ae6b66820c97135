# sdc_optimizer: models, model checks and proofs

`sdc_optimizer` tunes the parameters of a superconducting circuit described by
a spice deck.  It runs the external simulator `josim-cli` again and again,
reads voltages and phases of some nodes back, turns them into one score with
user-defined expressions, and searches for the parameter values with the least
score, by simulated annealing, Bayesian optimization or a gradient method.
This directory holds TLA+ models of that program, the TLC configurations that
check them on small instances, and proofs checked by TLAPS.

## 1. The system

```
 spice deck --parser--> parameters, nodes of interest, run levels, optimizers
                                             |
   sim_anneal / JoSimBO (+ EvalCache) / NL_lsq_fit / binary_ellipsoid_fit
                      | comp_eval(), evaluateSample(), ...
                      v
              LoopComplex::run_once() --nested loops--> run_josim()
                      |                                   | fork, named pipes
     StatefulExpression initialize/update/finalize     josim-cli (external)
```

| Component | State it keeps | Operations | What is hard | What makes it correct |
|---|---|---|---|---|
| Evaluation cache (`eval_cache.cpp`) | table of slots (vector, score, NaN = vacant), counters | `lookup`, `store` | probe runs, near matches, averaging, a full table | a stored vector stays reachable; entries never move; counters agree with the table |
| Bayesian driver (`bo_optimizer.cpp`) | best score, best point, the cache, the deck | `evaluateSample`, `run_optimize` | exceptions of the library at any point; near answers from the cache; samples without a score | what is saved is what was seen to be best; every answer stems from a simulation |
| Annealer (`anneal.cpp`) | the deck, old/new/best score, per-parameter adaptive range and counters | `change`, `unchange`, `save_best`, `restore_best`, `optimize` | accept, reject, give-up and reset paths that each have to keep deck and score together; NaN scores | the score kept is that of the vector kept; the best vector is never lost |
| Loop complex (`loop_complex.cpp`) | stack of run levels, registered objects, validity flag | `register_*`, `run_once`, `run_this_level` | recursion; order of initialize/update/finalize over levels; state left from earlier runs | each combination simulated once; objects see the final results of the levels below |
| Stateful expressions, line fit (`*_expression.cpp`, `lsq_fit_function.cpp`) | accumulators, collected points | `initialize`, `update`, `finalize` | undefined arguments, re-entry | a sum is exact, no leftovers |
| JoSIM run (`main.cpp: run_josim`) | child process, two named pipes, columns | fork, write deck, read header and rows, reap | interleaving of two processes over pipes; death of the child at any moment | no run leaks into the next; columns stay aligned; valid means complete |
| Nodes of interest (`nodes_of_interest.cpp`) | columns, column index, validity flag | `set_col_index`, `add_data`, detectors | window edges, missing pulses | column matching; detectors agree with their definition |
| Parameters, expressions, waveforms (`parameter.cpp`, `expression.cpp`, `pwl_parameter.cpp`) | values, ranges, mapping to 0..1, cycle locks | `get_cur_value`, `set_mapped_value`, `initialize`, `next`, evaluation, export to the optimizers, saving | mutual recursion, values that are not finite, rounding at range ends | cycles found, evaluation agrees with the order of the deck, what is tuned maps to 0..1 |
| Parser (`parser.y`, `lexer.l`, `parser_interface.cpp`) | registries of parameters, nodes, fits, patterns, optimizer settings; error count | one handler per pragma | errors are counted and reading goes on; half-refused definitions; assertions where a report was due | nothing refused is used; names are unique; references point back |
| Deck (`spice_deck.cpp`, lexer states) | element list, include stack, line numbers | `add_line`, `add_param_ref`, `add_nl`, `open_include_file`, `yywrap`, printing | nested, missing, recursive and unterminated includes; one token of lookahead | the deck is written as it was read; reading ends |
| Linear fit and index functions (`lsq_fit.c`) | sums of a fit, work buffers | new, init, add, solve, eval | growth of shared buffers | solve only with data |
| Nonlinear fit (`nl_lsq_fit.cpp`) | data, damping, residuals, last parameters, retry counter, state | alloc, clear, init, add, solve one step | calls in the wrong state; steps undone; refusals by the parameter check | every answer keeps the contract its caller asserts |
| Binary ellipsoid fit (`binary_ellipsoid_fit.cpp`, `bef_functions.cpp`, `bef_plan.h`) | budget plan, points, beam of solutions, ellipsoid | `run`, `explore`, `ray_search`, `solve`, `solve_one`, `derive_solution`, recoveries, `de_duplicate`, shell search, filters | unsigned budget, bisection with a budget, refusals and their repair, global failure reasons | the shell searches keep to the plan; only viable starts are fitted; the choice is the best on offer |
| Random numbers (`xrand.cpp`) | generator state | draws | - | numeric quality, not modelled |

Interaction is by call and by shared state: the parser fills the registries and
the element list that everything else reads; the optimizers write parameter
values, `run_once()` writes the deck with them, the simulator's answer goes to
the columns, the expressions read the columns when the validity flag is set,
and the optimizer reads the result parameter.  The only concurrency is between
the program and the child process it forks.

## 2. The modules

| Module | Models | State and actions against the code |
|---|---|---|
| `EvalCache` | `eval_cache.cpp` | `table[i]` is slot i of the array; `score = NaN` marks it vacant.  `Lookup` is the probe loop of `lookup()`; `Store` splits into the branches of the loop in `store()`: `StoreVacant`, `StoreMatch`, `StoreOverflow` and `StoreIgnored` (the early return).  `Near` is the comparison within `eps`, which need not be transitive. |
| `JoSimBO` | `bo_optimizer.cpp`, composed with `EvalCache` | `pc` separates the call of `evaluateSample` (`AskCached`, `AskMissed`) from the simulation (`Simulate`, which also stores, tracks the best point and answers).  The library is external: it asks for any vector, returns the argument of the least answer (`Finish`), or throws (`Throw`). |
| `SimAnneal` | `anneal.cpp`, `anneal.h` | `pc` walks through `optimize()` and `change()`.  One action per outcome: `Draw`, `GiveUp`, `Abort`; `FoundBetter`, `NoProgress`, `ResetToBest`; `Accept`, `Reject`. |
| `LoopComplex` | `loop_complex.cpp`, `scan_parameter`, stateful expressions, `lsq_fit_function` | The recursion is `lvl` and `pc`: the registers of the level below are not needed after it returns.  Decks are built by `DefineScan` and `DefineObject` in any order, then `RunOnce` walks `InitializeLevel`, `Iterate`, `RunJosim`, `UpdateObject`, `EndOfBody`, `FinalizeObject`, `ReturnFromLevel`. |
| `JosimRun` | `main.cpp: run_josim`, column matching, the validity flag | Two processes.  `child` is the program counter of the forked child and of `josim-cli`; the result pipe is the bounded queue `csv`.  Opening a named pipe is one joint action (`OpenDeck`, `OpenCsv`). |
| `RaySearch` | `binary_ellipsoid_fit.cpp: ray_search` and its two probes | The recursion is a stack of searches to be made, the current one last; `SearchMode0` and `SearchMode1` are one activation each and push what it would call, in reverse.  Positions are integers, and `FineAssumption` makes the ray as fine as its divisions, as the doubles of the code are. |
| `FitCodes` | the codes and failure flags of `nl_lsq_fit.cpp`, `bef_functions.h` | the vocabulary of an answer; `Answers` are those a caller may rely on |
| `FitContract` | abstract: what `solve_one()` promises | one variable, the answer; `Ask` forgets it, `Reply` gives one of `Answers` |
| `NlLsqFit` | `nl_lsq_fit.cpp`, parameter check of `bef_functions.cpp` | a fit object is a record, every member function an operator on it; `Solve1s` gives the set of outcomes of one damped step |
| `SolveOne` | `binary_ellipsoid_fit.cpp: solve_one`, over `NlLsqFit` | `BeginFit` checks and initializes, `AddDataPoints` fills, `Step` is `solve_1s()` and what is recorded of it; objects and reasons outlive a fit.  Refines `FitContract` (`KeepsContract`). |
| `BefPlan` | `bef_plan.h: finalise` | operators on a record of inputs, with the arithmetic of an unsigned word.  `PlannedSims` is the plan's own account; what is simulated is counted in `BeamSearch` |
| `BeamSearch` | `binary_ellipsoid_fit.cpp: run, solve` and what they call, over `BefPlan` | `pc` walks through a round: `FitOne` per solution, `Prune`, `DeriveOne`, `EndDerive`, again `FitOne`, `Select`, `SearchShell`, `Filter`.  `points` counts what the constructor explored, whose number it keeps in `n_ctor_sims_` before there is a plan, and what each shell search adds.  A fit is an answer of `FitContract`: the guarantee proved of `SolveOne` is the assumption `BeamAssumption` here. |
| `Registry` | `parser_interface.cpp`, `parameter.cpp`, `expression.cpp`, `pwl_parameter.cpp` | one operator per pragma handler from registry to registry, its refusals in order in a `Refuse...` operator; an expression is the sequence of its nodes, evaluated in the order in which the parser made them; the mutual recursion of `get_cur_value()` is `CurValues`, with the locks as the set of parameters being evaluated.  Recursion is by recursive functions, so that it can be reasoned about |
| `TimePattern` | class `time_pattern` | operators: `GetTimes` resolves the entries, `StopAt` and `CountIn` are the inner loop of `cnt_missmatches()`, `Mismatches` is what its result is defined to be. |
| `Deck` | `parser.y`, `lexer.l`, `spice_deck.cpp`, over `Registry` and `TimePattern` | one action per statement of the grammar; `include_file_stack` is the stack of open files with positions; `Registry` operators are applied when a pragma has been read to its end.  A pragma that an included file leaves open takes in the next line of the including file (`ContinueStatement`): `Continued` says what the grammar makes of the two |
| `PulseSearch` | class `time_series` and the callbacks of `nodes_of_interest.cpp`, over `TimePattern` | `from` is the start of the next search.  `FindPeak` is one `peak_search()`; an `edge_search()` is `FindSwing`, then `Widen` for each turn of the window loop, then `LocateEdge`.  `NextInterval` is one turn of the loop of `cnt_missmatches()`. |
| `MC*` | | constants for TLC |
| `JoSimBO_proofs`, `SimAnneal_proofs`, `RaySearch_proofs`, `SolveOne_proofs`, `BeamSearch_proofs`, `LoopComplex_proofs`, `NodesOfInterest_proofs`, `Deck_proofs` | | theorems and their proofs; those about `EvalCache` are in `JoSimBO_proofs`, those about `BefPlan` in `BeamSearch_proofs`, those about `JosimRun` and `PulseSearch` in `NodesOfInterest_proofs` |

Definitions whose body differs from another in one place (`StoreLastProbe`
next to `StoreVacant`, ...) are faults: they stand for a plausible mistake in
the code, and the property named for each in `PROJECT.json` is the one that
notices it.

### Abstractions

* Scores are a handful of integers with their order, plus `NaN`.  The average
  in `EvalCache` keeps integers whole by scaling the scores in the instance.
* The hash of a vector is an arbitrary function chosen at the start; the code
  rounds the coordinates so that vectors that match hash alike in the usual case,
  and `Hashes` holds the functions the model admits.
* Parameters take their mapped value from a grid; range factors 0.8 and 1.25
  are one level down and up.  The two are inverse, so levels lose nothing.
* A random number is a free choice, also for the acceptance of a worse score
  while the temperature is above zero.
* A sample read from the simulator is 1 or undefined, so a sum counts the
  samples that went into it; a fit is the number of points it was solved from.
* Rows of a column are one unit of time apart, so that a time is a position; the
  parabola of a peak is exact rational arithmetic, and the cubic fit of an edge
  is any position inside its window, or a failure.
* Rows and headers are the lines of the pipe; a torn line is its length.
* A nonlinear fit moves between a few parameter vectors.  Where a step leads is
  a free choice, so are convergence and a singular system; the residuals are
  kept and come from a landscape, because the solver decides by comparing them.
  The damping factor only scales the step and is left out.
* The points of the ellipsoid fit are counted by kind, and an ellipsoid is the
  set of reasons to refuse it; which point a filter picks and whether a repair
  of the foci helps is left open where geometry decides it.
* A deck is a sequence of tokens; numbers are small integers with one value for
  everything that is not finite; `sqrt`, `ln` and `exp` are left out.  A number
  in a pragma may be NAN wherever the grammar has a number (`Numbers`, `Counts`):
  every comparison with it is false, and cast to an integer it is what x86-64
  makes of it (`AsInt`, `AsUnsigned`), for C leaves that undefined.  Infinite
  literals, which only an exponent out of range gives, are not modelled.  Which
  two halves of a pragma make a whole one is a constant (`Continued`); it is a
  matter of characters.

## 3. What the runs check

| Run | Instance | Shows |
|---|---|---|
| `eval_cache` | four slots, two to three probes, five vectors of which neighbours match | no history of stores and lookups hides, moves or miscounts an entry |
| `josim_bo` | the same cache below an optimizer with a bounded number of samples, returns and throws at any time | answers are simulated scores, the saved vector is best, the unset best point is read only if every sample failed |
| `sim_anneal` | two parameters of two values, one vector rejected, two schedule entries of three steps of which the very last is cold | old score and deck agree on every path; the best vector is returned if the start has a score |
| `loop_complex` | decks of up to two scans and two objects, each evaluated twice | each combination once, updates once per iteration with final results, exact sums |
| `josim_run` | three runs, a simulator that never fails or one that may fail anywhere or write another header | no leak between runs, aligned columns; complete data if nothing failed, else the program ends or waits at a pipe for ever |
| `ray_search` | a ray of six probes, every pattern of passes and fails and of cache answers | bisections are made across a boundary only, positions differ, at most twice the budget is probed, passes behind a fail are squashed |
| `pulse_search` | every column of up to seven rows of the values -1, 0, 3 and 5, peaks or edges, six time patterns | each excursion is one peak, each change is consumed by one edge, edges ascend, mismatches are exact, searches end and abort only at the end of the data |
| `solve_one` | two fits with the same two solver objects, two to three data points or none, four parameter vectors of which two are refused, landscapes flat, rising, growing with the slope and with a datum that cannot be added | each fit keeps its contract whatever the one before left behind; the residual reported is the least accepted |
| `beam_search` | beam of three, one spare place, one solution derived from, two slopes, two to three rounds, plans with tight and ample budgets | only viable starts are fitted, assertions of the recovery hold, the ellipsoid handed on is viable and the best on offer, the shell searches leave of the budget what the plan sets aside for the rays |
| `deck` | all decks of up to three lines and `.end` with an included file that is empty, defines, is unterminated, ends within a pragma, includes itself or ends the deck; and any two pragmas, some with operands that are not numbers, after five beginnings of a working deck | an accepted deck is printed as written, refers back only, evaluates as an evaluation in deck order does, and what it tunes has a range; reading always ends |
| `josim_valid`, `beam_clean` | as above | the disagreements of section 6 |

Several properties are conjunctions of named parts, each with its comment in
the module: `CacheConsistent`, `BestSaved`, `BestKept`, `IterationsExact`,
`RunsApart`, `RunsEnd`, `RayDivided`, `PulsesFound`, `SearchAdvances` and
`AcceptedIsSound`.

Bounds.  A probe run wraps around the table and meets holes with four slots;
every kind of probe (vacant, matching, foreign) can precede every other with
five vectors.  The annealer needs two parameters so that a rejection can
concern another parameter than the one last accepted, and two entries in the
schedule so that the step size changes; the last step of the last entry is at
temperature zero.  Two scans are the
least number with a level above another, and two evaluations the least that
show leftovers.  Three runs of a failing simulator show a first header, a
later one, and the run after a failed one.  Six probes let both modes nest
twice: an even search after a bisection, with a bisection in its turn.  Seven
rows hold two pulses with their margins; of the four values one is negative, one
lies in the hysteresis of the largest, and an edge may take one, two or three
rows.  The ray is somewhat longer than
`FineAssumption` asks for six probes.  `PipeSize` below `Rows` makes the
child wait for the parent.  Two fits are the least that show what one leaves to
the next; a retry limit of one lets a fit retry, succeed, and exhaust its
retries within six steps.  A beam of three with a spare place is cut, extended
by up to three variants and cut again; two slopes make a variant fall off either
end.  Plans with more shell probes than `MaxShell` are
not run; of those with three rounds one that runs has a probe of its own in each
round, so that their sum over the rounds meets the budget.  Three lines hold a definition, its use and an include in every order,
`MaxOpen` of three lets an include that includes itself meet the limit.  Two
pragmas after a beginning are enough for each refusal, as no handler looks at
more than the registry and its own operands.

Fairness.  The optimizers and the loop complex are sequential programs: weak
fairness of their next step says that the program is scheduled.  The user is
under no obligation to call `run_once()` again.  In `JosimRun` parent and
child each have weak fairness, which says that the operating system schedules
both and that the simulator does not compute for ever; failure has no
fairness.  In `PulseSearch` the search is fair, the user who fills the column
is not.  Reading a deck is sequential (`ParseEnds` under weak fairness of
`Deck`'s next step).  The optimizers call the simulator a bounded number of times because
their budgets are parameters of the deck.

## 4. What is proved

All proofs hold for every value of the constants that satisfies the named
assumptions of the module (`CacheAssumption`, `BOAssumption`,
`AnnealAssumption`, `RayAssumption` with `FineAssumption`, `FitAssumption` with
`SolveAssumption`, `PlanAssumption` with `BeamAssumption`, `JosimAssumption`,
`LoopAssumption`, `PulseAssumption`, `DeckAssumption` with
`RegistryAssumption`).  Every inductive invariant was first
checked as an invariant of the run of its module.

* `JoSimBO_proofs`.  The first part is about the cache alone.  `CacheInv` =
  `CacheTypeOK`, scores of modest size, and `EntriesReachable`.  Reachability is
  inductive only together with the fact that an occupied slot never becomes
  vacant, and that needs the average of two scores to be a score again, which is
  where modest scores come in.  From the invariant follow `EntriesStay` (an
  action property) and `SizeIsOccupancy`, whose step adds exactly one slot to the
  set counted.  In the second part `BOInv` adds that a vector being simulated
  has no match the cache would find (so `StoreMatch` is dead for this caller,
  which gives `AnswersFrozen`), that each cached pair was simulated, and that the
  best score was told to the library (`BestTold`), which is what `SavedIsBest`
  needs when the library returns its own idea of the best.
* `SimAnneal_proofs`.  `AnnealInv` = types, bookkeeping of `pc`, phase and the
  change flag, `OldEvalIsBaseline`, `BestIsLeast`.  The main step is that the
  vector to go back to is the deck with the old value of the changed parameter
  put back, which draws and give-ups leave alone; the best vector is in the
  history `eval` because it is saved in the very step that scores it.
* `LoopComplex_proofs`.  The recursion of `run_this_level()` is gone from the
  model, so `LoopInv` says what the levels below have left behind (`Final`: their
  counters are at the end and their fits solved) and what the levels above will
  find when they go on (`Counts`: as many updates as turns), and `Deck` that an
  object is in one place of one registry and reads earlier ones only.  For the sums
  `SampleSumExact` and `SumOfSumExact` follow a sum through a turn of the loops:
  what an inner sum has counted is owed to the outer one until its update.
  `IterationsExact` follows from `Odometer`: the runs made are the counters read
  as one number, with the scans of the levels below as its digits (`Rank`).
  `Rank` and `Inner` are recursive functions of the level; that they solve their
  equations is proved first (`InnerSolves`, `RankSolves`), and equal numbers have
  equal digits (`RankDetermines`), so that no combination is simulated twice.
* `NodesOfInterest_proofs`, about `JosimRun`.  `IInv` = types, `Phase` (where the child can be while the
  parent is at each place), `Stream` (what is in the pipe is the end of what the
  child has written), `Columns` and `Healthy`.  The argument counts lines: a
  fresh column holds the lines written, less those in the pipe, less the header.
  The parent leaves its loop only with an empty pipe and no writer, so with a
  child that closed in the regular way all `TableRows` are there.
* The same module about `PulseSearch`.  `PulseInv` = types (`SearchTyped`, `FoundTyped`,
  `MatchTyped`), `Phases`, `Consecutive`, `EachFound`, `Locating`, `Ending` and
  `Counting`.  `Consecutive` says that each search begins where the one before
  ended and leaves no row between them; `EachFound` describes what was found by
  the rows from where its search began (`PeakFrom`, `EdgeFrom`), which is what
  the properties, stated over the whole column, are put together from, and
  `Locating` the same of the edge whose window is being widened.  `Counting` is
  the loop of `cnt_missmatches()` from one interval to the next: of the events
  taken all but the last lie before the interval, and the last is the one read
  ahead, so that counting on from it counts each event of the interval once.
* `RaySearch_proofs`.  `IInv` = types, `GoodStack`, and the probes made plus
  those the stack may still make are at most twice `NProbes`.  Sums over a
  stack are out of the prover's reach, so each search carries the history
  variable `owed`, what the searches below it may still make, and `GoodStack`
  says that these links agree.  `Divided` adds where the searches are: their
  stretches follow each other outwards (`Laid`), none contains a point probed
  before (`Untouched`), and each has `Room` for the divisions that its probes can
  make (`Fits`); a probe leaves parts of the stretch of the search on top, on
  one side of the point probed (`PartOf`, one lemma for each call the code can
  make).  The code divides doubles; in integers the same holds if the ray is as
  fine as its divisions, which is what `FineAssumption` says.  `Known`, what is
  recorded of a point is what was seen of it, then gives `OneTransition`.
* `SolveOne_proofs`.  `SolveInv` = types, `InFit` and `Answered`.  The contract
  says nothing of the parameters a step starts from, so it is not inductive:
  `InFit` adds that between steps they are viable, that no reason is left, and
  that the parameters a retry would restore are viable too, once a step of this
  fit has saved them (`Sound`); before that `para_last` still is what the last
  fit left.  `StepResult` says of one damped step that it either is refused or
  keeps `Sound`, by cases of `Solve1s`.  Then every step of `SolveOne` is an
  `Ask`, a `Reply` or a stutter of `FitContract` (`FitKeepsContract`).
  `ReportsLeast` needs `Ledger`: once a step has been accepted, `res_last` is the
  residual of the parameters `para_last` a retry restores, and it is the least so
  far; the residual just summed up may still be less.  Before the first step
  only the residual of the start is known.
* `BeamSearch_proofs`.  The plan is arithmetic, from the bounds of a division
  (`DivBounds`): what it shares out stays within the budget and leaves fewer than
  `n_iter + n_probes_per_ray` simulations of it over (`PlanSpendsBudget`), if the
  rays along the axes fit into it and leave one probe of the shell for each
  round; otherwise it wraps around (`PlanWrapsAround`) or is taken for a plan
  without shell probes, and the default number overspends (`NoShellOverspends`).
  These are about the plan.  Of what is simulated, `BudgetAlwaysKept` says that
  run() leaves the share of the rays untouched, whatever its shell searches find
  in the cache or beyond the parameters: by `Counted`, which bounds the points
  simulated since the constructor by the shell probes of the rounds run so far
  (`ShellPoints` is one search), and the sum of all rounds, which is the plan's.
  `BeamInv` of the run = types, `ChoiceIsBest` and the parts that make them
  inductive.  `HonestBeam`: only a refusal leaves reasons, and a fit without
  a slope none that concern it; it is the contract proved of `SolveOne`, and
  what the assertions of the recovery need.  `Starting`: parameters that cannot
  be started from are in the first estimate or nowhere.  `Growing` bounds
  the beam while variants are derived, `Comparing` the places `de_duplicate()`
  looks at.

* `Deck_proofs`.  `DeckInv` = types, the stack of open files and the files on it
  (`StackOK`, `WithinFiles`), which give `DeckTypeOK`.  `RegistryInv` is about what
  the pragmas define.  Its `RegistryOK` is kept by the handler of every pragma
  (`DefineKeeps`): names are unique, a tunable constant has a range and lies in
  it (`ConstantOK`), at most one optimizer is set up, and *if no error has been
  counted* everything is `Clean`: an expression refers to parameters before it
  only, and a control of a waveform and an entry of a pattern to what is defined.  The
  condition is what makes it inductive.  A handler that finds a NULL in an
  expression goes on, and only the counter remembers it, so the proof counts
  the errors of each body (`BodyCounted`) and follows a pattern through its
  repetitions (`PatternTermsFrom`).  From `RegistryInv` follow, for an
  accepted deck, the parts of `AcceptedIsSound`.  The pull evaluation and the
  evaluation in order agree by induction over the deck (`PullIsOrder`): with any
  set of locks behind the first m parameters, and as many evaluations left as
  there are parameters, the first m have their values.  A waveform is cut into
  its pulses (`PulsePoints`), and a tuned parameter has the range its handler
  asked for (`ConstantOK`), of which no bound is NAN, or the constructor would
  have aborted.
  `DeckAsWritten` compares the elements with a second description of the files,
  `Written`, which nests includes from the outside in, while the code reads them
  from the inside of a stack.  `ReadInv` connects the two.  The complete lines
  are, without the blank ones, what was written before the file being read,
  and then what was read of it (`Finished`); and what was written before a
  file is what was before the one that includes it, and then what was read
  of that one up to the pragma (`Laid`).  So an include adds a level with nothing
  read (`FinishedInclude`), and the end of a file makes of everything read of it
  the one line of its pragma (`FinishedReturn`).  `Begun` relates the last, open line of
  the elements to the tokens read of a line; the error counter is in the condition
  again, for an include that cannot be opened or a reference to nothing
  leaves the line out and is only counted.  Printing then replaces names by values
  that agree (`PrintedAgrees`), and a reference once defined stays so
  (`DefineGrows`).

Only model-checked: liveness (`RunOnceReturns`, `RunsEnd`, `SearchEnds`,
`ParseEnds`), which is out of the prover's reach.  Where
a definition is a recursive function the proofs first show that it solves its
equations (`GetValueSolves`, `CurValuesSolves`, `InnerSolves` and others); induction
over the naturals (`SetInduction`) has a set in the place of the predicate the
library's theorem takes.

## 5. What is not modelled

* The linear algebra of `lsq_fit.c` and `nl_lsq_fit.cpp`, the nearest rational
  index functions (called by nobody), and the storage of data inside
  `nl_lsq_fit`, which no caller uses.
* The geometry of points and ellipsoids (`bef_functions.cpp` beyond the
  parameter checks) and the PostScript output.
* Random numbers, the BayesOpt library and `josim-cli` beyond what the code
  sees of them, logging and printing, option parsing.
* `run_gradient`, `run_robustness` and the dead `run_binary` of
  `bo_optimizer.cpp`.
* Characters, units and the formatting of numbers below the tokens of the lexer,
  and with them the pragmas that `save_result()` prints: whether they read back
  is a question of digits and quotes (section 6);
  the logarithmic map and its rounding; the default length of `.tran`.
* The stdio buffers parent and child share across `fork`.

## 6. Findings

Two runs expect a violation.

| Run | The text | The code |
|---|---|---|
| `josim_valid` | "set once the JoSIM completed successfully" (nodes_of_interest.h:64-65) | set whatever became of the simulator |
| `beam_clean` | "Only consider solution within 10% of best", "Found a good solution that does not need fixing" (binary_ellipsoid_fit.cpp:1239-1240) | the limit is `1.1 * s_sel` with `s_sel = -1`, so the loop stops at the first solution, and the choice always comes from those to be repaired |

More disagreements show in the models without a run of their own.  The first
five have a definition that states the text and a configuration under which TLC
finds it violated: `MCSimAnnealForgets`, `MCSimAnnealCredits`,
`MCSimAnnealDirection`, `MCPulseSearchRange` and `MCSolveOneRetries`, each for
the module its name begins with.

* `SimAnneal!NeverForgetsBest`: "It will never forget the best value
  encountereed during the search" (anneal.cpp:191); with a NaN at the start
  `new_eval < min` is never true and nothing is ever saved again (251).
* `SimAnneal!CreditsAcceptedOnly`: "change followed by change => last change was
  accepted" (anneal.cpp:102); a reset leaves `changed_flag` set (258), and the next
  change credits one that was thrown away.
* `SimAnneal!AcceptDirection`: "last accept was a positive change" (anneal.h:90);
  a mapped value is compared with a physical one (anneal.cpp:104).
* `PulseSearch!StaysInRange`: "reaching the data range limits, this widening
  process is complte" (nodes_of_interest.cpp:259-260); `win_bgn - 1` wraps at row
  0 (267), and the row before the first is read.
* `SolveOne!RetriesLimited`: "Re-try limit (before giving up)"
  (nl_lsq_fit.h); a retry restores the old parameters, the next evaluation
  therefore equals `res_last`, which is progress, and resets `n_retry`.  The
  limit is never reached by a fit that goes back and forth.
* `update()` of an object is called once per iteration of the object's own
  level, where expression.h:62 says "called after every JoSIM run".
* A level finalizes its objects in the order of the deck (`FinalizeObject`),
  where loop_complex.h:47 says "StatefulExpressions finalize before LsqFits at
  each level".
* A ray makes up to twice `n_probes_per_ray` probes besides its end point
  (`ProbesBounded`), where bef_plan.h:89 says "Simulation budget per ray".
* The crossing of the middle of an edge lies between `e_pos - 1` and `e_pos`
  (`Crossing`), where nodes_of_interest.cpp:250 says "between the data [e_pos]
  and [e_pos + 1]".  A steep fall onto a plateau then has a window of equal
  values and the time 0 / 0, which no caller takes for a failure.
* The parabola through a short, lopsided peak has its vertex away from it, or
  no vertex at all; then the search ends as if no peak were left (`lost`).
* The hysteresis of a peak is a share of the largest value: in a column without a
  row above 0 there is none, and peaks are made up (`PeaksAreExcursions` is stated
  for a positive maximum).
* "Total JoSIM simulation budget for the entire run" (bef_plan.h:71): only the
  shell searches follow the plan.  Its rays are never made, as the call of
  `explore()` in `run()` is commented out (binary_ellipsoid_fit.cpp:230); the
  constructor has explored before there is a plan, 5 * `n_dim` rays of 16
  probes (149-164), each of which may make twice that.  `ShellsWithinBudget`
  therefore counts from the end of the constructor.
* A plan whose axis rays exceed the budget wraps around (bef_plan.h:320,
  `PlanWrapsAround`).  A plan with no shell probes runs with the default of 600
  (binary_ellipsoid_fit.cpp:231).
* `derive_solution()` reads the slope through a reference into the vector it
  appends to (934); `DeriveOne` allows any prefix of the variants therefore.
  The beam may exceed `n_best_solutions` (`BeamTypeOK` states the bound it keeps).
* `de_duplicate()` skips the neighbour of an erased solution (1136).
* `min_param_recovery()` is asked for a slope by `a_incr > 0`, not
  `a_init > 0` (1247), and repairs a focal sum to 1.01 times the distance of the
  foci, below the excess the check requires.
* Nothing but an assertion stands between few passing points and
  `reject_outliers()` (1449); a wall is never built in the build that only keeps the
  center inside.
* A fit refused or singular at its first step leaves `cur_res` uninitialized
  (`Garbage`), and a derivative that is not a number aborts on the assertion
  after `add_datum()`.
* The repetition of a pattern gives n + 1 copies in all, where
  parser_interface.cpp:708 says "replicate n times".
* The messages for most pragmas name the next line, since the parser has read one
  token further; those for monitor, snapshot and the annealer name their own.
* `get_mapped_value()` "Returns the value in [0,1] provided that a range is
  defined" (parameter.h:99); a constant of value NAN passes the range check and
  maps to NaN.
* Some mistakes in a scan abort by an assertion instead of being reported, and so
  do a range with a bound that is NAN and a schedule of NAN steps or temperature
  (`Aborts`): no comparison of the handlers is true of them.
  A `baysian_opt` of NAN iterations passes its check and is set up with none.
* `save_result()` prints what the optimizers found as pragmas, and `print_self()`
  (parameter.cpp:168-180) keeps 12 digits, writes 1e12 and more as `1e+12`, whose
  `+` the lexer does not know (lexer.l:29), a name that had to be quoted
  (lexer.l:96) without its quotes, and a value that is not finite as `nan`.
* A file without a final newline leaves its last statement open in the file that
  included it, and a pragma goes on with the next line of that file, whatever it
  is (`ContinueStatement`); `.end` as the very last characters of a file is a line of text,
  and anything after `.end` is a syntax error.

## 7. Plan

1. Composition: an abstract oracle (ask, answer or fail) that `LoopComplex` over
   `JosimRun` implements, and the optimizers as its clients; `run_gradient` and
   `run_robustness` over it.
2. `LsqFit`: growth of the shared buffers and the states of a linear fit.
