----------------------------- MODULE Quadruples -----------------------------
(***************************************************************************)
(* The quadruples of one basic block, as both halves of opt.cpp see them,  *)
(* and what a block computes.                                              *)
(*                                                                         *)
(* "add" stands for a commutative operation, "sub" and "div" for the other *)
(* arithmetic ones, "call" for a Q_CALL with a result, "effect" for        *)
(* Q_PARAM, Q_RETURN or a conditional jump, which only use variables.  An  *)
(* argument is a variable, an integer constant or None.                    *)
(***************************************************************************)
EXTENDS Integers, FiniteSets, SequencesExt

CONSTANTS
  Vars,     \* the variables of the function
  None      \* no argument, no result

ASSUME QuadruplesAssumption == None \notin Vars \cup Int /\ \A v \in Vars : v \notin Int

Arithmetic == {"add", "sub", "div"}
IsCommutative(op) == op = "add"

Gone == [op |-> "gone", result |-> None, arg1 |-> None, arg2 |-> None]
CopyQuadr(v, a) == [op |-> "copy", result |-> v, arg1 |-> a, arg2 |-> None]

(* What the quadruples of a block look like, and a removed one. *)
Operand == Vars \cup Int
Quadr ==
  {Gone}
    \cup [op : {"copy"}, result : Vars, arg1 : Operand, arg2 : {None}]
    \cup [op : Arithmetic, result : Vars, arg1 : Operand, arg2 : Operand]
    \cup [op : {"call"}, result : Vars, arg1 : {None}, arg2 : {None}]
    \cup [op : {"effect"}, result : {None}, arg1 : Operand \cup {None}, arg2 : Operand \cup {None}]
    \cup [op : {"write_ptr"}, result : Vars, arg1 : Operand, arg2 : Operand]

IsConst(a) == a \notin Vars \cup {None}
Used(q, v) == v \in {q.arg1, q.arg2} \/ (q.op = "write_ptr" /\ q.result = v)
Assigned(q, v) == q.op # "write_ptr" /\ q.result = v

Quotient(a, b) ==
  LET size(n) == IF n < 0 THEN -n ELSE n
      q == size(a) \div size(b)
  IN IF (a < 0) = (b < 0) THEN q ELSE -q

(* DO_CONSTANT_OP.  A division by zero gives 1, and an error. *)
ConstantOp(op, a, b) ==
  CASE op = "add" -> a + b
    [] op = "sub" -> a - b
    [] op = "div" -> IF b = 0 THEN 1 ELSE Quotient(a, b)
-----------------------------------------------------------------------------
(* The reference: what a block computes, as terms over the values its      *)
(* variables have at its start, and the effects it has on the way.         *)
Start(v) == <<"start", {<<0, v>>}>>
Fixed(a) == <<"fixed", {<<0, a>>}>>
Term(op, l, r) ==
  <<op, IF IsCommutative(op) THEN {<<0, l>>, <<0, r>>} ELSE {<<1, l>>, <<2, r>>}>>
ConstOf(t) == (CHOOSE p \in t[2] : TRUE)[2]

Computed(op, l, r) ==
  IF l[1] = "fixed" /\ r[1] = "fixed" THEN Fixed(ConstantOp(op, ConstOf(l), ConstOf(r)))
  ELSE Term(op, l, r)

Value(env, a) == IF a \in Vars THEN env[a] ELSE Fixed(a)

(* The operations that give their result a value, and those that can be    *)
(* seen from outside the block. *)
Assigning == Arithmetic \cup {"copy", "call"}
Visible == {"call", "effect", "write_ptr"}

Given(s, q) ==
  CASE q.op = "copy" -> Value(s.env, q.arg1)
    [] q.op \in Arithmetic -> Computed(q.op, Value(s.env, q.arg1), Value(s.env, q.arg2))
    [] q.op = "call" -> <<"call", {<<0, Len(s.effects) + 1>>}>>

Event(s, q) ==
  [op |-> q.op, l |-> Value(s.env, q.arg1), r |-> Value(s.env, q.arg2),
   to |-> IF q.op = "call" THEN Fixed(None) ELSE Value(s.env, q.result)]

Execute(s, q) ==
  [env |-> IF q.op \in Assigning THEN [s.env EXCEPT ![q.result] = Given(s, q)] ELSE s.env,
   effects |-> IF q.op \in Visible THEN Append(s.effects, Event(s, q)) ELSE s.effects]

(* The states a block goes through, and the one it ends in. *)
Execution(qs) ==
  LET after[k \in 0..Len(qs)] ==
        IF k = 0 THEN [env |-> [v \in Vars |-> Start(v)], effects |-> <<>>]
        ELSE Execute(after[k - 1], qs[k])
  IN after
Meaning(qs) == Execution(qs)[Len(qs)]
=============================================================================
