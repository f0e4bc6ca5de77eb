--------------------------- MODULE MCBasicBlocks ---------------------------
(***************************************************************************)
(* Small instances of BasicBlocks for TLC: bodies of two statements, one   *)
(* of which has conditions or statements inside.                           *)
(***************************************************************************)
EXTENDS BasicBlocks

Pool == [i \in 1..32 |-> i]

Test(a) == [k |-> "test", atom |-> a]
Const(v) == [k |-> "const", val |-> v]
Not(c) == [k |-> "not", l |-> c]
And(l, r) == [k |-> "and", l |-> l, r |-> r]
Or(l, r) == [k |-> "or", l |-> l, r |-> r]
Call(c) == [k |-> "call", atom |-> "f", arg |-> c]

Simple == {Test("a"), Const(TRUE), Const(FALSE)}
Joined == {And(l, r) : l, r \in Simple \cup {Test("b")}} \cup {Or(l, r) : l, r \in Simple \cup {Test("b")}}
Conds ==
  Simple \cup Joined \cup {Not(c) : c \in Joined} \cup {Call(c) : c \in Simple}
    \cup { Or(And(Test("a"), Test("b")), Test("c")), And(Or(Test("a"), Test("b")), Test("c")),
           And(Test("a"), Or(Test("b"), Test("c"))), Or(Test("a"), And(Test("b"), Test("c"))),
           Or(Or(Test("a"), Test("b")), Test("c")), And(And(Test("a"), Test("b")), Test("c")),
           Call(And(Test("a"), Test("b"))), And(Call(Test("a")), Test("b")) }

Do(w) == [k |-> "act", what |-> w]
Return == [k |-> "return"]
If(c, s) == [k |-> "if", c |-> c, then |-> s]
IfElse(c, s, t) == [k |-> "ifelse", c |-> c, then |-> s, else |-> t]
While(c, s) == [k |-> "while", c |-> c, body |-> s]
For(c, s) == [k |-> "for", init |-> Do("i"), c |-> c, step |-> Do("j"), body |-> s]
Skip == Block(<<>>)

(* Around one condition ... *)
Around(c) ==
  { Set(c), If(c, Do("p")), If(c, Skip), If(c, Return), IfElse(c, Do("p"), Do("q")),
    IfElse(c, Return, Skip), While(c, Do("p")), For(c, Do("p")) }

(* ... and one in another, where a loop does not begin with an empty block *)
(* (see EmptyLoops). *)
Inside(c) ==
  LET in == {Do("q"), If(Test("b"), Do("q")), If(Test("b"), Return), IfElse(Test("b"), Return, Do("q")),
             While(Test("b"), Do("q")), While(Or(Test("b"), Test("c")), Do("q"))}
  IN {While(c, s) : s \in in} \cup {While(c, Block(<<Do("p"), s>>)) : s \in in}
       \cup {If(c, s) : s \in in} \cup {IfElse(c, s, t) : s, t \in in} \cup {For(c, s) : s \in in}

Statements == UNION {Around(c) : c \in Conds} \cup UNION {Inside(c) : c \in {Test("a"), Const(FALSE), Or(Test("a"), Test("d"))}}
Others == {Do("r"), Return, Skip, If(Test("e"), Skip), While(Test("e"), Do("r"))}
TwoStatements == {Block(<<s, t>>) : s \in Statements, t \in Others}
                   \cup {Block(<<t, s>>) : s \in Statements, t \in Others}

(* Loops whose body begins with what leaves its first block empty. *)
EmptyLoops ==
  {Block(<<While(Test("a"), s), t>>) :
     s \in {Skip, Set(Const(FALSE)), If(Const(TRUE), Do("p")), If(Const(TRUE), Skip)}, t \in Others}
    \cup {IfElse(Test("b"), While(Test("a"), Skip), Return)}
=============================================================================
