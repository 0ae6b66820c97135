------------------------------ MODULE Registry ------------------------------
(***************************************************************************)
(* What the pragmas of a deck define (parser_interface.cpp) and what the   *)
(* definitions evaluate to (parameter.cpp, expression.cpp,                 *)
(* pwl_parameter.cpp).  This module is a library of operators on a         *)
(* registry; Deck takes their steps.                                       *)
(*                                                                         *)
(* A registry is                                                           *)
(*   params    the parameters, in the order of their definition;           *)
(*   nois, lsqs   the names of the monitored nodes and of the line fits;   *)
(*   patterns  the time patterns, [name, entries];                         *)
(*   anneal    the schedule of the annealer, or NoAnneal;                  *)
(*   bo        the mode of the Bayesian optimizer, or "none";              *)
(*   snapshot  <<first, frequency>> of the snapshots, or <<>>;             *)
(*   errs      yy_n_parse_err;                                             *)
(*   aborted   an assertion failed.                                        *)
(*                                                                         *)
(* Numbers are small integers; NoValue stands for a double that is not     *)
(* finite, which in a deck is NAN or a number that cannot be read, and     *)
(* -Unbounded .. Unbounded for the range of a double.                      *)
(*                                                                         *)
(* An expression is the sequence of its nodes, in the order in which the   *)
(* parser makes them: the arguments of a node are the positions of nodes   *)
(* before it, and the last one is the expression.                          *)
(***************************************************************************)
EXTENDS TimePattern

CONSTANTS
    NoValue,
    Exit            \* exit(1): a parameter depends on itself

ASSUME RegistryAssumption == NoValue \notin Int /\ Exit \notin Int /\ NoValue # Exit

Unbounded == 900
NoAnneal == <<<<-1, 0>>>>          \* no deck has a temperature below 0
IsFinite(v) == v \notin {NoValue, Exit}

\* x < y and x <= y: false if one of them is not a number.
Below(x, y) == IsFinite(x) /\ IsFinite(y) /\ x < y
AtMost(x, y) == IsFinite(x) /\ IsFinite(y) /\ x <= y

\* (unsigned) and (int) of a number.  Of NAN the language leaves them undefined;
\* these are the ones of x86-64.
LeastInt == -2147483647 - 1
AsUnsigned(x) == IF IsFinite(x) THEN x ELSE 0
AsInt(x) == IF IsFinite(x) THEN x ELSE LeastInt

Func1Tab == {"isfinite", "abs"}
Func2Tab == [peak |-> "noi", fit_ok |-> "lsq", match_peaks |-> "pattern"]
Func1Ops == {"function1", "not_op"}
Arithmetic == {"addition", "subtraction", "multiplication", "division"}
Comparisons == {"comp_eq", "comp_ne", "comp_gt", "comp_ge", "comp_lt", "comp_le"}

(***************************************************************************)
(* The bodies of pragmas, as the grammar builds them.  A pattern is the    *)
(* sequence of its items: a term is [expr, is_relative]; [since, n]        *)
(* repeats what came after the first "since" items, up to here.            *)
(***************************************************************************)
NoRange == <<>>
Finite == (1 - Unbounded) .. (Unbounded - 1)
Numbers == Finite \cup {NoValue}
Ranges == {NoRange} \cup (Numbers \X Numbers)
Counts == Int \cup {NoValue}
Flags == {"tune", "log_map", "no_print"}
PwlControls == {"rise", "fall", "width", "high", "low"}

Arity(op) == CASE op \in {"constant", "p_reference"} -> 0
               [] op \in Func1Ops \cup {"function2"} -> 1
               [] op \in Arithmetic \cup Comparisons -> 2
               [] op = "test_select" -> 3

Node == [op : {"constant", "p_reference", "function2", "test_select"}
                \cup Func1Ops \cup Arithmetic \cup Comparisons,
         name : STRING,        \* of the parameter or of the function
         object : STRING,      \* of a function2
         value : Numbers,      \* of a constant
         args : Seq(Nat)]
Exprs == {e \in Seq(Node) : /\ e # <<>>
                            /\ \A k \in DOMAIN e : /\ Len(e[k].args) = Arity(e[k].op)
                                                   /\ \A a \in DOMAIN e[k].args : e[k].args[a] \in 1 .. k - 1}

Terms == [expr : Exprs, is_relative : BOOLEAN]
Items == {items \in Seq(Terms \cup [since : Nat, n : Counts]) :
            \A k \in DOMAIN items : "since" \in DOMAIN items[k] => items[k].since < k}

NoExpr == <<>>      \* the expression of a control that is missing
Bodies ==
    [op : {"const"}, name : STRING, value : Numbers, range : Ranges, flags : SUBSET Flags]
    \cup [op : {"expr"}, name : STRING, expr : Exprs, range : Ranges, flags : SUBSET Flags]
    \cup [op : {"scan"}, name : STRING, n : Counts, range : Ranges \ {NoRange}, flags : SUBSET Flags]
    \cup [op : {"pwl"}, name : STRING, pattern : STRING, ctrl : [PwlControls -> Exprs \cup {NoExpr}]]
    \cup [op : {"pattern"}, name : STRING, noi : STRING, items : Items]
    \cup [op : {"monitor"}, name : STRING]
    \cup [op : {"lsq_fit"}, name : STRING, order : Counts, x : Exprs, y : Exprs]
    \cup [op : {"snapshot"}, start : Counts, freq : Counts]
    \cup [op : {"sim_anneal"}]
    \cup [op : {"sa_schedule"}, temp : Counts, n : Counts]
    \cup [op : {"baysian_opt"}, n : Counts, attrs : Seq(STRING)]

EmptyRegistry ==
    [params |-> <<>>, nois |-> {}, lsqs |-> {}, patterns |-> <<>>, anneal |-> NoAnneal,
     bo |-> "none", snapshot |-> <<>>, errs |-> 0, aborted |-> FALSE]

\* The position of the first definition of that name, or 0.
FindParameter(r, name) == SelectInSeq(r.params, LAMBDA p : p.name = name)
FindPattern(r, name) == SelectInSeq(r.patterns, LAMBDA p : p.name = name)

(***************************************************************************)
(* define_ref(), define_function1(), define_function2(): NULL and one      *)
(* error for a name that is not defined yet.  The operators build on the   *)
(* NULL without an error of their own.                                     *)
(***************************************************************************)
NullNode(r, node) ==
    CASE node.op = "p_reference" -> FindParameter(r, node.name) = 0
      [] node.op = "function1" -> node.name \notin Func1Tab
      [] node.op = "function2" ->
            LET objects == [noi |-> r.nois, lsq |-> r.lsqs,
                            pattern |-> {p.name : p \in ToSet(r.patterns)}]
            IN  node.name \notin DOMAIN Func2Tab \/ node.object \notin objects[Func2Tab[node.name]]
      [] OTHER -> FALSE
IsNull(r, e) == NullNode(r, Last(e))

NullNodes(r, e) == {k \in DOMAIN e : NullNode(r, e[k])}
ExprErrors(r, e) == Cardinality(NullNodes(r, e))
\* The same of several expressions.
ExprsErrors(r, es) == Cardinality(UNION {{i} \X NullNodes(r, es[i]) : i \in DOMAIN es})

(***************************************************************************)
(* define_p_rep() appends n copies to the list it repeats.  define_p_term()*)
(* counts an error of its own for a NULL, and define_pattern() leaves it   *)
(* out.                                                                    *)
(***************************************************************************)
IsRep(item) == "since" \in DOMAIN item

\* A list over and over, up to that length.
Cycled(list, length) == [i \in 1 .. length |-> list[((i - 1) % Len(list)) + 1]]

\* The list after one more item; lists are the ones after 0, 1, ... items.
AddItem(r, lists, item) ==
    LET before == Last(lists)
        repeated == SubSeq(before, Len(lists[item.since + 1]) + 1, Len(before))
        copies == IF Below(item.n, 1) THEN 0 ELSE AsUnsigned(item.n)
    IN  IF IsRep(item) THEN before \o Cycled(repeated, copies * Len(repeated))
        ELSE IF IsNull(r, item.expr) THEN before
        ELSE Append(before, item)

PatternTerms(r, items) ==
    LET lists[k \in 0 .. Len(items)] ==
            IF k = 0 THEN <<<<>>>>
            ELSE Append(lists[k - 1], AddItem(r, lists[k - 1], items[k]))
    IN  Last(lists[Len(items)])

PatternErrors(r, items) ==
    LET terms == {k \in DOMAIN items : ~IsRep(items[k])}
    IN  ExprsErrors(r, [k \in terms |-> items[k].expr])
        + Cardinality({k \in terms : IsNull(r, items[k].expr)})
        + Cardinality({k \in DOMAIN items \ terms : Below(items[k].n, 1)})

(***************************************************************************)
(* define_range(): NULL and one error if from >= to, which a bound that is *)
(* not a number never is.  Without a range the bounds are those of a       *)
(* double.                                                                 *)
(***************************************************************************)
BadRange(range) == range # NoRange /\ AtMost(range[2], range[1])
HasRange(b) == b.range # NoRange /\ ~BadRange(b.range)
VMin(b) == IF HasRange(b) THEN b.range[1] ELSE -Unbounded
VMax(b) == IF HasRange(b) THEN b.range[2] ELSE Unbounded

(***************************************************************************)
(* The errors counted while the body b of a pragma is parsed, before its   *)
(* handler runs.                                                           *)
(***************************************************************************)
BodyErrors(r, b) ==
    (IF "range" \in DOMAIN b /\ BadRange(b.range) THEN 1 ELSE 0)
    + CASE b.op = "expr" -> ExprErrors(r, b.expr)
        [] b.op = "pwl" -> ExprsErrors(r, b.ctrl)
        [] b.op = "lsq_fit" -> ExprErrors(r, b.x) + ExprErrors(r, b.y)
        [] b.op = "pattern" -> PatternErrors(r, b.items)
        [] OTHER -> 0

(***************************************************************************)
(* The handlers, define_param_constant() to define_bo(): Refuse<X>(r, b)   *)
(* says when define_<x>() reports an error and returns without defining    *)
(* anything, Added what it defines otherwise.                              *)
(***************************************************************************)
RedefinesNothing(r, b) == FALSE
Redefines(r, b) == FindParameter(r, b.name) # 0

RefuseParamConstant(r, b) ==
    \/ Redefines(r, b)
    \/ ~HasRange(b) /\ b.flags \cap {"tune", "log_map"} # {}
    \/ Below(b.value, VMin(b)) \/ Below(VMax(b), b.value)
    \/ "log_map" \in b.flags /\ AtMost(VMin(b), 0)

RefuseParamExpression(r, b) == Redefines(r, b) \/ b.flags \cap {"tune", "log_map"} # {}

RefuseParamScan(r, b) ==
    \/ Redefines(r, b)
    \/ "tune" \in b.flags
    \/ Below(b.n, 0) \/ Below(100000, b.n)
    \/ ~HasRange(b) /\ "log_map" \in b.flags

RefuseParamPwl(r, b) ==
    \/ Redefines(r, b)
    \/ FindPattern(r, b.pattern) = 0
    \/ \E k \in PwlControls : b.ctrl[k] = NoExpr \/ IsNull(r, b.ctrl[k])

RefusePattern(r, b) == b.noi \notin r.nois \/ FindPattern(r, b.name) # 0
RefuseMonitor(r, b) == b.name \in r.nois
RefuseLsqFit(r, b) == b.name \in r.lsqs \/ AsInt(b.order) \notin 1 .. 4
RefuseSnapshot(r, b) == AsInt(b.start) < 0 \/ AsInt(b.freq) < 1

RefuseSimAnneal(r, b) ==
    r.anneal # NoAnneal \/ r.bo # "none" \/ FindParameter(r, "EVAL") = 0
RefuseAdd2SASched(r, b) == r.anneal = NoAnneal \/ Below(b.temp, 0) \/ Below(b.n, 1)
RefuseBO(r, b) ==
    r.bo # "none" \/ r.anneal # NoAnneal \/ Below(b.n, 1) \/ FindParameter(r, "OBJECTIVE") = 0

Refused(r, b) ==
    CASE b.op = "const" -> RefuseParamConstant(r, b)
      [] b.op = "expr" -> RefuseParamExpression(r, b)
      [] b.op = "scan" -> RefuseParamScan(r, b)
      [] b.op = "pwl" -> RefuseParamPwl(r, b)
      [] b.op = "pattern" -> RefusePattern(r, b)
      [] b.op = "monitor" -> RefuseMonitor(r, b)
      [] b.op = "lsq_fit" -> RefuseLsqFit(r, b)
      [] b.op = "snapshot" -> RefuseSnapshot(r, b)
      [] b.op = "sim_anneal" -> RefuseSimAnneal(r, b)
      [] b.op = "sa_schedule" -> RefuseAdd2SASched(r, b)
      [] b.op = "baysian_opt" -> RefuseBO(r, b)

\* The assertions of the constructors of parameters and of add_sa_sched().
Aborts(b) ==
    CASE b.op \in {"const", "expr"} -> ~Below(VMin(b), VMax(b))
      [] b.op = "scan" ->
            \/ ~HasRange(b) \/ ~Below(VMin(b), VMax(b)) \/ AsUnsigned(b.n) <= 1
            \/ "log_map" \in b.flags /\ VMin(b) <= 0
      [] b.op = "sa_schedule" -> ~AtMost(0, b.temp) \/ AsUnsigned(b.n) = 0
      [] OTHER -> FALSE

Parameter(b) ==
    [name |-> b.name, kind |-> b.op,
     lo |-> IF b.op = "pwl" THEN -Unbounded ELSE VMin(b),
     hi |-> IF b.op = "pwl" THEN Unbounded ELSE VMax(b),
     flags |-> IF b.op = "pwl" THEN {"no_print"} ELSE b.flags,
     body |-> b]

\* define_bo(): a mode keyword, margin or a submode, selects robustness.
BOMode(attrs) ==
    IF ToSet(attrs) \cap {"margin", "binary", "gradient", "probabilistic"} # {}
    THEN "robustness" ELSE "optimize"

Added(r, b) ==
    CASE b.op \in {"const", "expr", "scan", "pwl"} -> [r EXCEPT !.params = Append(@, Parameter(b))]
      [] b.op = "monitor" -> [r EXCEPT !.nois = @ \cup {b.name}]
      [] b.op = "lsq_fit" -> [r EXCEPT !.lsqs = @ \cup {b.name}]
      [] b.op = "pattern" ->
            [r EXCEPT !.patterns = Append(@, [name |-> b.name,
                entries |-> PatternTerms(r, b.items)])]
      [] b.op = "sim_anneal" -> [r EXCEPT !.anneal = <<>>]
      [] b.op = "sa_schedule" -> [r EXCEPT !.anneal = Append(@, <<b.temp, b.n>>)]
      [] b.op = "baysian_opt" -> [r EXCEPT !.bo = BOMode(b.attrs)]
      [] b.op = "snapshot" -> [r EXCEPT !.snapshot = <<b.start, b.freq>>]

Define(r, b) ==
    LET parsed == [r EXCEPT !.errs = @ + BodyErrors(r, b)]
    IN  IF Refused(r, b) THEN [parsed EXCEPT !.errs = @ + 1]
        ELSE IF Aborts(b) THEN [parsed EXCEPT !.aborted = TRUE]
        ELSE Added(parsed, b)

(***************************************************************************)
(* get_value() and get_cur_value(): recursive pull evaluation.  A scan is  *)
(* at its first step.  Before the first simulation the functions of nodes, *)
(* fits and patterns have no value, but fit_ok, which is 0.  Division is   *)
(* the one of integers.                                                    *)
(***************************************************************************)
Func1(name, v) ==
    CASE v = Exit -> Exit
      [] name = "isfinite" -> IF v = NoValue THEN 0 ELSE 1
      [] name = "not_op" -> IF v = 0 THEN 1 ELSE 0
      [] name = "abs" -> IF v = NoValue \/ v >= 0 THEN v ELSE -v

Binary(op, l, r) ==
    LET truth(b) == IF b THEN 1 ELSE 0
    IN  CASE op = "addition" -> l + r
          [] op = "subtraction" -> l - r
          [] op = "multiplication" -> l * r
          [] op = "division" -> IF r = 0 THEN NoValue ELSE IF r > 0 THEN l \div r ELSE (-l) \div (-r)
          [] op = "comp_eq" -> truth(l = r)
          [] op = "comp_ne" -> truth(l # r)
          [] op = "comp_gt" -> truth(l > r)
          [] op = "comp_ge" -> truth(l >= r)
          [] op = "comp_lt" -> truth(l < r)
          [] op = "comp_le" -> truth(l <= r)

Clamp(p, v) == IF ~IsFinite(v) THEN v ELSE IF v < p.lo THEN p.lo ELSE IF v > p.hi THEN p.hi ELSE v

\* Of a node, from the values of those before it; current holds what
\* get_cur_value() returns for each parameter.
NodeValue(r, node, before, current) ==
    LET arg(i) == before[node.args[i]]
    IN  CASE node.op = "constant" -> node.value
          [] node.op = "p_reference" -> current[FindParameter(r, node.name)]
          [] node.op = "function1" -> Func1(node.name, arg(1))
          [] node.op = "not_op" -> Func1("not_op", arg(1))
          [] node.op = "function2" ->
                IF IsFinite(arg(1)) /\ node.name = "fit_ok" THEN 0
                ELSE IF arg(1) = Exit THEN Exit ELSE NoValue
          [] node.op = "test_select" ->
                IF ~IsFinite(arg(1)) THEN arg(1) ELSE IF arg(1) > 0 THEN arg(2) ELSE arg(3)
          [] node.op \in Arithmetic \cup Comparisons ->
                IF node.op \in Comparisons /\ arg(2) = Exit THEN Exit
                ELSE IF ~IsFinite(arg(1)) THEN arg(1)
                ELSE IF ~IsFinite(arg(2)) THEN arg(2)
                ELSE Binary(node.op, arg(1), arg(2))

GetValue(r, e, current) ==
    LET values[k \in 0 .. Len(e)] ==
            IF k = 0 THEN <<>>
            ELSE Append(values[k - 1], NodeValue(r, e[k], values[k - 1], current))
    IN  Last(values[Len(e)])

OwnValue(r, p, current) ==
    CASE p.kind = "const" -> p.body.value
      [] p.kind = "scan" -> p.lo
      [] p.kind = "pwl" -> NoValue
      [] p.kind = "expr" -> Clamp(p, GetValue(r, p.body.expr, current))

\* get_cur_value() of each parameter.  locked is the set of the expression
\* parameters being evaluated; with each of them one fewer can still be.
CurValues(r) ==
    LET current[left \in 0 .. Len(r.params)] ==
            [locked \in SUBSET DOMAIN r.params |-> [i \in DOMAIN r.params |->
                IF left = 0 \/ (r.params[i].kind = "expr" /\ i \in locked) THEN Exit
                ELSE OwnValue(r, r.params[i], current[left - 1][locked \cup {i}])]]
    IN  current[Len(r.params)][{}]

(***************************************************************************)
(* print_to_file(): a number, or the points of a waveform <<time, level>>, *)
(* with times in half units so that half a width is a whole number.        *)
(***************************************************************************)
NoWave == <<<<0, 0>>, <<2, 0>>>>

PatternTimes(r, name, current) ==
    LET entries == r.patterns[FindPattern(r, name)].entries
        dt(e) == LET v == GetValue(r, e.expr, current) IN IF IsFinite(v) THEN v ELSE -1
    IN  GetTimes([k \in DOMAIN entries |->
                    [dt |-> dt(entries[k]), is_relative |-> entries[k].is_relative]])

\* The points of the pulse at time t.
Pulse(v, t) ==
    <<<<2 * t - v.width - 2 * v.rise, v.low>>, <<2 * t - v.width, v.high>>,
      <<2 * t + v.width, v.high>>, <<2 * t + v.width + 2 * v.fall, v.low>>>>

Waveform(r, p, current) ==
    LET v == [k \in PwlControls |-> GetValue(r, p.body.ctrl[k], current)]
        times == PatternTimes(r, p.body.pattern, current)
    IN  IF \E k \in PwlControls : ~IsFinite(v[k]) THEN NoWave
        ELSE IF v.rise < 0 \/ v.fall < 0 \/ v.width < 0 THEN NoWave
        ELSE [k \in 1 .. 4 * Len(times) + 1 |->
                IF k = 1 THEN <<0, v.low>>
                ELSE Pulse(v, times[(k + 2) \div 4])[((k - 2) % 4) + 1]]

PrintToFile(r, name, current) ==
    LET i == FindParameter(r, name)
    IN  IF r.params[i].kind = "pwl" THEN Waveform(r, r.params[i], current) ELSE <<current[i]>>

(***************************************************************************)
(* The tunable parameters: what sa_p_export() and bo_export() hand to the  *)
(* optimizers.                                                             *)
(***************************************************************************)
Tunable(r) == {i \in DOMAIN r.params : r.params[i].kind = "const" /\ "tune" \in r.params[i].flags}
=============================================================================
