------------------------------- MODULE MCDeck -------------------------------
(***************************************************************************)
(* Decks for Deck: all short sequences of lines of a few kinds, with one   *)
(* included file (structure), and all short sequences of pragmas.          *)
(***************************************************************************)
EXTENDS Deck

Text(t) == [kind |-> "LINE", text |-> t]
Subst(p) == [kind |-> "PSUB", name |-> p]
Pragma(b) == <<[kind |-> "PRAGMA", body |-> b]>>
End == <<[kind |-> "END"]>>
File(lines, terminated) == [lines |-> lines, terminated |-> terminated]

Leaf(o, name, v) == [op |-> o, name |-> name, object |-> "", value |-> v, args |-> <<>>]
Num(v) == <<Leaf("constant", "", v)>>
Ref(p) == <<Leaf("p_reference", p, 0)>>

\* The nodes of some expressions, and a node that has them for its arguments.
Shifted(e, n) == [k \in DOMAIN e |-> [e[k] EXCEPT !.args = [i \in DOMAIN @ |-> @[i] + n]]]
Join(d, e) == d \o Shifted(e, Len(d))
Node1(o, f, object, e) ==
    Append(e, [op |-> o, name |-> f, object |-> object, value |-> 0, args |-> <<Len(e)>>])
Node2(o, d, e) ==
    Append(Join(d, e), [Leaf(o, "", 0) EXCEPT !.args = <<Len(d), Len(d) + Len(e)>>])
Select(c, d, e) ==
    Append(Join(Join(c, d), e), [Leaf("test_select", "", 0) EXCEPT
        !.args = <<Len(c), Len(c) + Len(d), Len(c) + Len(d) + Len(e)>>])
Not(e) == Node1("not_op", "", "", e)
Call(f, object, e) == Node1("function2", f, object, e)

Const(p, v, range, flags) ==
    [op |-> "const", name |-> p, value |-> v, range |-> range, flags |-> flags]
Expr(p, e, range) == [op |-> "expr", name |-> p, expr |-> e, range |-> range, flags |-> {}]

Monitor == [op |-> "monitor", name |-> "n"]

-----------------------------------------------------------------------------
\* Structure.  The comment is "* 4", and the text "+ 4" a line of spice that
\* goes on with the one before; so they do with the pragmas left open.
Open == [kind |-> "PRAGMA", body |-> Expr("y", Ref("x"), NoRange)]
Half == [kind |-> "PART", text |-> "pattern p for n = 4,"]
Longer(o) == [Open EXCEPT !.body.expr = Node2(o, Ref("x"), Num(4))]
TwoTimes ==
    [kind |-> "PRAGMA", body |->
        [op |-> "pattern", name |-> "p", noi |-> "n",
         items |-> <<[expr |-> Num(4), is_relative |-> FALSE],
                     [expr |-> Num(4), is_relative |-> TRUE]>>]]
MCContinued ==
    (<<Open, <<Text("+ 4")>>>> :> Longer("addition"))
    @@ (<<Open, <<[kind |-> "COMMENT"]>>>> :> Longer("multiplication"))
    @@ (<<Half, <<Text("+ 4")>>>> :> TwoTimes)

LinePool ==
    {<<>>,
     <<Text("+ 4")>>,
     <<Text("R2 "), Subst("x"), Text(" 5")>>,
     <<[kind |-> "COMMENT"]>>,
     <<[kind |-> "TRAN"]>>,
     <<[kind |-> "BAD"]>>,
     Pragma(Const("x", 3, <<1, 4>>, {})),
     Pragma([op |-> "include", file |-> "inc"])}

Include ==
    {File(<<>>, TRUE),
     File(<<<<Text("L1")>>, Pragma(Const("x", 2, NoRange, {})), <<Subst("x")>>>>, TRUE),
     File(<<<<Text("L1")>>>>, FALSE),
     File(<<Pragma(Const("x", 2, NoRange, {})), <<Open>>>>, FALSE),
     File(<<Pragma(Monitor), <<Half>>>>, FALSE),
     File(<<<<>>, Pragma([op |-> "include", file |-> "inc"])>>, TRUE),
     File(<<<<Text("L1")>>, End>>, TRUE)}

Structure ==
    {[main |-> File(lines \o tail, t), inc |-> i] :
        lines \in BoundedSeq(LinePool, 3), tail \in {<<>>, <<End>>}, t \in {TRUE}, i \in Include}
    \cup {[main |-> File(lines \o <<End>>, FALSE)] : lines \in BoundedSeq(LinePool, 2)}

-----------------------------------------------------------------------------
\* Pragmas; the deck prints x, y and w, where they are defined.
Five(width) == [rise |-> Num(1), fall |-> Num(1), width |-> width, high |-> Ref("x"), low |-> Num(0)]

BodyPool ==
    {Const("x", 3, <<1, 4>>, {"tune", "log_map"}),
     Const("x", NoValue, <<1, 4>>, {"tune"}),
     Const("y", 2, <<4, 1>>, {}),
     Const("EVAL", 1, NoRange, {"tune"}),
     Expr("y", Node2("addition", Ref("x"), Node2("comp_gt", Ref("x"), Num(2))), <<0, 3>>),
     Expr("EVAL", Select(Ref("y"), Not(Ref("x")), Num(NoValue)), NoRange),
     Expr("OBJECTIVE", Call("match_peaks", "p", Ref("EVAL")), NoRange),
     Expr("w", Call("fit_ok", "f", Ref("x")), NoRange),
     Const("y", 2, <<NoValue, 4>>, {"tune"}),
     [op |-> "scan", name |-> "x", range |-> <<1, 4>>, n |-> 3, flags |-> {}],
     [op |-> "scan", name |-> "y", range |-> <<0, 4>>, n |-> 2, flags |-> {"log_map"}],
     [op |-> "monitor", name |-> "n"],
     [op |-> "pattern", name |-> "p", noi |-> "n",
      items |-> <<[expr |-> Num(4), is_relative |-> FALSE],
                  [expr |-> Num(5), is_relative |-> TRUE], [since |-> 1, n |-> 1]>>],
     [op |-> "pattern", name |-> "p", noi |-> "n",
      items |-> <<[expr |-> Ref("x"), is_relative |-> FALSE],
                  [expr |-> Num(2), is_relative |-> FALSE], [since |-> 1, n |-> NoValue]>>],
     [op |-> "pwl", name |-> "w", pattern |-> "p", ctrl |-> Five(Num(2))],
     [op |-> "lsq_fit", name |-> "f", order |-> 1, x |-> Ref("x"), y |-> Ref("y")],
     [op |-> "sim_anneal"],
     [op |-> "sa_schedule", temp |-> 0, n |-> 5],
     [op |-> "sa_schedule", temp |-> 0, n |-> NoValue],
     [op |-> "baysian_opt", n |-> NoValue, attrs |-> <<"binary">>],
     [op |-> "snapshot", start |-> 0, freq |-> 0]}

\* Any two of these after one of the beginnings of a deck that works.
X == Const("x", 3, <<1, 4>>, {"tune", "log_map"})
Y == Expr("y", Node2("addition", Ref("x"), Node2("comp_gt", Ref("x"), Num(2))), <<0, 3>>)
Pattern ==
    [op |-> "pattern", name |-> "p", noi |-> "n",
     items |-> <<[expr |-> Ref("x"), is_relative |-> FALSE],
                 [expr |-> Num(5), is_relative |-> TRUE], [since |-> 1, n |-> 1]>>]
Beginnings == {<<>>, <<X>>, <<X, Monitor, Pattern>>,
               <<X, Monitor, Pattern, Const("EVAL", 1, NoRange, {})>>,
               <<X, Y, Expr("EVAL", Node2("division", Ref("y"), Num(1)), NoRange)>>}

Pragmas ==
    {[main |-> File([k \in DOMAIN bodies |-> Pragma(bodies[k])]
                        \o [k \in 1 .. Len(prints) |-> <<Subst(prints[k])>>] \o <<End>>, TRUE)] :
        bodies \in {b \o more : b \in Beginnings, more \in BoundedSeq(BodyPool, 2)},
        prints \in {<<>>, <<"x">>, <<"y">>, <<"w", "x">>}}

MCTexts == {"+ 4", "R2 ", " 5", "L1", EndText}
MCDecks == Structure \cup Pragmas
=============================================================================
