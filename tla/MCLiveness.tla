----------------------------- MODULE MCLiveness -----------------------------
(***************************************************************************)
(* A small instance of Liveness for TLC: four blocks, one variable whose   *)
(* liveness is followed and another that it can be copied from.            *)
(***************************************************************************)
EXTENDS Liveness

CONSTANTS u, v, none

MCVars == {u, v}

Q(op, r, as, l) == [op |-> op, result |-> r, args |-> as, label |-> l]
Show(a) == Q("other", none, {a}, NoBlock)

(* What the liveness of v is about: nothing, a use, an assignment, ... *)
Few == { <<>>, <<Show(v)>>, <<Q("assign", v, {}, NoBlock)>> }
(* ... and several in one quadruple or block, in either order. *)
Many == Few \cup
  { <<Q("assign", v, {u, v}, NoBlock)>>,
    <<Q("assign", u, {v}, NoBlock), Q("assign", v, {}, NoBlock)>>,
    <<Q("assign", v, {}, NoBlock), Q("write_ptr", v, {u}, NoBlock)>> }

(* The block goes on to the next one, or jumps to one of the others but    *)
(* the first, perhaps on a condition. *)
Flows(b) ==
  {<<>>} \cup {<<Q(op, none, {}, l)>> : op \in {"goto", "if"}, l \in (2..N) \ {b + 1}}
Ends == {<<Q("return", none, {v}, NoBlock)>>, <<>>} \cup {<<Q("goto", none, {}, l)>> : l \in {2, 3}}

(* Four blocks: enough for a loop whose body is left through another block *)
(* than its head, where one traversal does not reach the fixpoint. *)
Codes4 ==
  {<<c1, b2 \o f2, b3 \o f3, b4 \o f4>> :
     c1 \in Flows(1) \ {<<Q("goto", none, {}, l)>> : l \in 2..N},
     b2 \in Few, f2 \in Flows(2), b3 \in Many, f3 \in Flows(3), b4 \in Few, f4 \in Ends}
=============================================================================
