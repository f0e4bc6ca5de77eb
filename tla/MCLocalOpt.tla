----------------------------- MODULE MCLocalOpt -----------------------------
(***************************************************************************)
(* A small instance of LocalOpt for TLC: blocks of four quadruples over two *)
(* variables and a temporary, for the graph and the copy passes, and with  *)
(* other quadruples for the copy passes alone.                             *)
(***************************************************************************)
EXTENDS LocalOpt

CONSTANTS x, y, t, n1, n2, n3, n4, n5, n6, n7, n8, n9, n10, n11, n12, none

MCNewVars == <<n1, n2, n3, n4, n5, n6, n7, n8, n9, n10, n11, n12>>
MCVars == {x, y, t} \cup ToSet(MCNewVars)

Q(op, r, a, b) == [op |-> op, result |-> r, arg1 |-> a, arg2 |-> b]
Copies == {Q("copy", r, a, none) : r \in {x, y, t}, a \in {x, y, t}}
            \ {Q("copy", y, y, none), Q("copy", t, t, none)}
Others ==
  { Q("copy", x, 0, none), Q("sub", t, x, y), Q("add", y, t, t),
    Q("call", t, none, none), Q("write_ptr", y, x, t),
    Q("effect", none, x, none), Q("effect", none, t, none) }
Source ==
  { Q("copy", x, y, none), Q("copy", y, x, none), Q("copy", x, 0, none), Q("copy", t, 1, none),
    Q("add", x, x, y), Q("add", t, y, x), Q("sub", x, t, y), Q("div", y, t, x), Q("add", t, t, t),
    Q("call", t, none, none), Q("effect", none, x, none), Q("write_ptr", y, x, t) }

CopyBlocks == {qs \in [1..4 -> Copies \cup Others] : CallsOwnResult(qs)}
SourceBlocks == {qs \in [1..4 -> Source] : CallsOwnResult(qs)}
=============================================================================
