---------------------------- MODULE MCJosimRun ----------------------------
(* Two nodes of interest in a table of three columns; a failing simulator   *)
(* may also swap, repeat, or leave out a node.                              *)
EXTENDS JosimRun

MCNodes == {"a", "b"}
MCHeader == <<"time", "a", "b">>
MCHeaders ==
    {MCHeader, <<"time", "b", "a">>, <<"a", "b", "a">>, <<"time", "c", "b">>}
=============================================================================
