---------------------------- MODULE BasicBlocks ----------------------------
(***************************************************************************)
(* How semantic_check (tree.c) and the quadruple generator (quadr.c) cut   *)
(* a function into basic blocks: blocks come from a pool, a new block is   *)
(* appended to the function's list and becomes the current one, an empty   *)
(* block nobody is known to jump to is given back to the pool, and a label *)
(* is the address of a block.                                              *)
(*                                                                         *)
(* A statement or condition is abstracted to the control flow in it: "act" *)
(* is any quadruple that does not jump, "test" a comparison, a variable or *)
(* a call used as a condition, "call" a call of which an argument is a     *)
(* boolean expression.  The recursion of the generator over the syntax     *)
(* tree is the sequence "todo".                                            *)
(***************************************************************************)
EXTENDS Naturals, Sequences, FiniteSets

CONSTANTS
  Bodies,      \* the function bodies to translate
  Ids,         \* the memory for blocks, in the order of the pool: a bound
  None,        \* no block
  MaxEvents    \* how many events of an execution SameMeaning compares

ASSUME BasicBlocksAssumption ==
  Ids \in Seq(Nat) /\ Len(Ids) > 1 /\ None \notin {Ids[i] : i \in DOMAIN Ids} /\ MaxEvents \in Nat

VARIABLES
  body,   \* the body of the function
  todo,   \* what is left to translate, and the steps under way
  d       \* mem: the memory of the blocks; pool: the free list; cur, prev:
          \* cur_block and prev_block; ok: no assertion has failed

vars == <<body, todo, d>>

Memory == {Ids[i] : i \in DOMAIN Ids}
First == Ids[1]
EmptyBlock == [quadrs |-> <<>>, next |-> None, ref |-> FALSE]
InPool(e, b) == \E i \in DOMAIN e.pool : e.pool[i] = b
-----------------------------------------------------------------------------
(***************************************************************************)
(* Blocks and labels (quadr.c).                                            *)
(***************************************************************************)

(* new_basic_block *)
NewBlock(e) == Head(e.pool)
Alloc(e) == [e EXCEPT !.pool = Tail(@), !.mem[NewBlock(e)] = EmptyBlock]

LastOp(e, b) ==
  LET qs == e.mem[b].quadrs IN IF qs = <<>> THEN "none" ELSE qs[Len(qs)].op

(* add_quadr, which asserts that the block has not ended. *)
AddQuadr(e, q) ==
  [e EXCEPT !.mem[e.cur].quadrs = Append(@, q),
            !.ok = @ /\ LastOp(e, e.cur) \notin {"test", "goto", "return"}]

Quadr(op, what, sense, label) == [op |-> op, what |-> what, sense |-> sense, label |-> label]
Act(what) == Quadr("act", what, TRUE, None)

(* From b along the links, not further than there are blocks. *)
Chain(e, b) ==
  LET path[n \in 1..Len(Ids)] ==
        IF n = 1 THEN <<b>>
        ELSE LET so == path[n - 1]
                 next == e.mem[so[Len(so)]].next
             IN IF next = None THEN so ELSE Append(so, next)
  IN path[Len(Ids)]

(* A conditional jump is followed by an empty block of its own. *)
NotDivided(e, b) == [e |-> e, b |-> b]   \* a variant without it
Divided(e, b) ==
  IF LastOp(e, e.cur) # "test" THEN [e |-> e, b |-> b]
  ELSE [e |-> [Alloc(e) EXCEPT !.mem[NewBlock(e)] = [EmptyBlock EXCEPT !.next = b, !.ref = TRUE]],
        b |-> NewBlock(e)]

KeptIfFull(e) == e.prev = None \/ e.mem[e.cur].quadrs # <<>>   \* a variant: jumps do not count
Kept(e) == e.prev = None \/ e.mem[e.cur].quadrs # <<>> \/ e.mem[e.cur].ref

(* Where the walk over the blocks given ends; a variant forgets prev_block.*)
MovedCurOnly(e, b) == [e EXCEPT !.cur = Chain(e, b)[Len(Chain(e, b))]]
Moved(e, b) ==
  LET path == Chain(e, b)
  IN [e EXCEPT !.cur = path[Len(path)],
               !.prev = IF Len(path) > 1 THEN path[Len(path) - 1] ELSE @]

(* add_basic_blocks *)
AddBasicBlocks(e, b) ==
  LET f == Divided(e, b)
  IN Moved(IF Kept(f.e)
           THEN [f.e EXCEPT !.mem[e.cur].next = f.b, !.prev = e.cur]
           ELSE [f.e EXCEPT !.mem[e.prev].next = f.b,
                            !.pool = <<e.cur>> \o @,
                            !.ok = @ /\ e.mem[e.prev].next = e.cur],
           f.b)
AddNew(e) == AddBasicBlocks(Alloc(e), NewBlock(e))

(* quadr_arg_label: a second forward jump to a block gets an empty block   *)
(* of its own behind it.  The memory of a block in the pool looks nonempty:*)
(* the pool's link is in its first word. *)
LabelShared(e, b) ==   \* a variant that jumps to the same block
  IF InPool(e, b) THEN [e |-> e, b |-> b]
  ELSE [e |-> [e EXCEPT !.mem[b].ref = TRUE], b |-> b]
Label(e, b) ==
  IF InPool(e, b) \/ e.mem[b].quadrs # <<>> THEN [e |-> e, b |-> b]
  ELSE IF ~e.mem[b].ref THEN [e |-> [e EXCEPT !.mem[b].ref = TRUE], b |-> b]
  ELSE LET n == NewBlock(e)
       IN [e |-> [Alloc(e) EXCEPT !.mem[n] = [EmptyBlock EXCEPT !.next = e.mem[b].next, !.ref = TRUE],
                                  !.mem[b].next = n],
           b |-> n]

GenGoto(e, b) ==
  LET l == Label(e, b) IN AddNew(AddQuadr(l.e, Quadr("goto", "", TRUE, l.b)))
-----------------------------------------------------------------------------
(***************************************************************************)
(* The generator.  A step of "todo" is a statement, a condition with its   *)
(* jump, or the rest of a statement whose first part is translated.        *)
(***************************************************************************)
Block(ss) == [k |-> "block", ss |-> ss]
Cond(c, dest, sense) == [k |-> "cond", c |-> c, dest |-> dest, sense |-> sense]
Jump(atom, label, sense) == [k |-> "jump", atom |-> atom, label |-> label, sense |-> sense]
Set(c) == [k |-> "set", c |-> c]
Blocks(b) == [k |-> "blocks", b |-> b]
Goto(b) == [k |-> "goto", b |-> b]
New == [k |-> "new"]

Doing(kind) == todo # <<>> /\ Head(todo).k = kind
This == Head(todo)
Then(steps) == todo' = steps \o Tail(todo) /\ UNCHANGED body

GenAct == Doing("act") /\ d' = AddQuadr(d, Act(This.what)) /\ Then(<<>>)
GenNew == Doing("new") /\ d' = AddNew(d) /\ Then(<<>>)
GenBlocks == Doing("blocks") /\ d' = AddBasicBlocks(d, This.b) /\ Then(<<>>)
GenJumpTo == Doing("goto") /\ d' = GenGoto(d, This.b) /\ Then(<<>>)

(* NODE_BLOCK; NODE_FOR is translated as a NODE_WHILE that ends with the   *)
(* third part. *)
GenBlock == Doing("block") /\ Then(This.ss) /\ UNCHANGED d
GenFor ==
  /\ Doing("for")
  /\ Then(<<This.init, [k |-> "while", c |-> This.c, body |-> Block(<<This.body, This.step>>)]>>)
  /\ UNCHANGED d

GenReturn ==
  /\ Doing("return")
  /\ d' = AddNew(AddQuadr(d, Quadr("return", "", TRUE, None)))
  /\ Then(<<>>)

GenIf ==
  /\ Doing("if")
  /\ d' = Alloc(d)
  /\ LET ifFalse == NewBlock(d)
     IN Then(<<Cond(This.c, ifFalse, FALSE), New, This.then, Blocks(ifFalse)>>)

GenIfElse ==
  /\ Doing("ifelse")
  /\ d' = Alloc(d)
  /\ LET ifFalse == NewBlock(d)
     IN Then(<<Cond(This.c, ifFalse, FALSE), New, This.then,
               [k |-> "else", ifFalse |-> ifFalse, else |-> This.else]>>)
GenElse ==
  /\ Doing("else")
  /\ LET ifEnd == NewBlock(d)
     IN /\ d' = AddBasicBlocks(GenGoto(Alloc(d), ifEnd), This.ifFalse)
        /\ Then(<<This.else, Blocks(ifEnd)>>)

GenWhile ==
  /\ Doing("while")
  /\ LET bCond == NewBlock(d)
         e == GenGoto(Alloc(d), bCond)
         bWhile == NewBlock(e)
     IN /\ d' = AddBasicBlocks(Alloc(e), bWhile)
        /\ Then(<<This.body, Blocks(bCond), Cond(This.c, bWhile, TRUE), New>>)

(* gen_quadr_bool_expr *)
GenConst ==
  /\ Doing("cond") /\ This.c.k = "const"
  /\ d' = IF This.c.val = This.sense THEN GenGoto(d, This.dest) ELSE d
  /\ Then(<<>>)

GenNot ==
  /\ Doing("cond") /\ This.c.k = "not"
  /\ Then(<<Cond(This.c.l, This.dest, ~This.sense)>>)
  /\ UNCHANGED d

(* "or" decides for the jump, or "and" against it, as soon as one operand  *)
(* does ... *)
DecidesSwapped == This.sense = (This.c.k = "and")   \* a variant: the wrong way round
Decides == This.sense = (This.c.k = "or")
GenDecisive ==
  /\ Doing("cond") /\ This.c.k \in {"and", "or"} /\ Decides
  /\ Then(<<Cond(This.c.l, This.dest, This.sense), Cond(This.c.r, This.dest, This.sense)>>)
  /\ UNCHANGED d

(* ... otherwise one operand suffices to skip the jump. *)
GenSkipping ==
  /\ Doing("cond") /\ This.c.k \in {"and", "or"} /\ ~Decides
  /\ d' = Alloc(d)
  /\ LET end == NewBlock(d)
     IN Then(<<Cond(This.c.l, end, ~This.sense), Cond(This.c.r, end, ~This.sense),
               Goto(This.dest), Blocks(end)>>)

(* The label is made before the operands are translated, which may take    *)
(* blocks of their own. *)
GenTest ==
  /\ Doing("cond") /\ This.c.k \in {"test", "call"}
  /\ LET l == Label(d, This.dest)
     IN /\ d' = l.e
        /\ Then((IF This.c.k = "call" THEN <<Set(This.c.arg)>> ELSE <<>>)
                  \o <<Jump(This.c.atom, l.b, This.sense)>>)

GenJump ==
  /\ Doing("jump")
  /\ d' = AddNew(AddQuadr(d, Quadr("test", This.atom, This.sense, This.label)))
  /\ Then(<<>>)

(* gen_quadr_expr for a boolean expression that is a value. *)
GenSet ==
  /\ Doing("set")
  /\ d' = Alloc(d)
  /\ LET ifTrue == NewBlock(d)
     IN Then(<<Cond(This.c, ifTrue, TRUE), New, [k |-> "setrest", ifTrue |-> ifTrue]>>)
GenSetRest ==
  /\ Doing("setrest")
  /\ LET end == NewBlock(d)
         e == GenGoto(AddQuadr(Alloc(d), Act("F")), end)
     IN d' = AddBasicBlocks(AddQuadr(AddBasicBlocks(e, This.ifTrue), Act("T")), end)
  /\ Then(<<>>)

(* was_return of do_semantic_check *)
RECURSIVE WasReturn(_)
WasReturn(s) ==
  CASE s.k = "return" -> TRUE
    [] s.k = "block"  -> \E i \in DOMAIN s.ss : WasReturn(s.ss[i])
    [] s.k = "ifelse" -> WasReturn(s.then) /\ WasReturn(s.else)
    [] OTHER          -> FALSE

GenEnd ==
  /\ Doing("end")
  /\ d' = IF WasReturn(body) THEN d
          ELSE AddQuadr(AddNew(d), Quadr("return", "", TRUE, None))
  /\ Then(<<>>)

(* start_function *)
Init ==
  /\ body \in Bodies
  /\ todo = <<body, [k |-> "end"]>>
  /\ d = [mem |-> [b \in Memory |-> EmptyBlock], pool |-> Tail(Ids), cur |-> First, prev |-> None,
          ok |-> TRUE]

Next ==
  \/ GenAct \/ GenNew \/ GenBlocks \/ GenJumpTo \/ GenBlock \/ GenFor \/ GenReturn
  \/ GenIf \/ GenIfElse \/ GenElse \/ GenWhile
  \/ GenConst \/ GenNot \/ GenDecisive \/ GenSkipping \/ GenTest \/ GenJump
  \/ GenSet \/ GenSetRest \/ GenEnd

Spec == Init /\ [][Next]_vars
-----------------------------------------------------------------------------
Quadrs == [op : {"act", "test", "goto", "return"}, what : STRING, sense : BOOLEAN,
           label : Memory \cup {None}]
Finished == todo = <<>>
Listed == Chain(d, First)
Jumps(i) ==   \* the labels of the i-th block's jumps, by position
  LET qs == d.mem[Listed[i]].quadrs IN {qs[k].label : k \in DOMAIN qs} \ {None}

(* The assertions of quadr.c: no quadruple is added behind a jump, and the *)
(* block that is given back is the one after prev_block.  No block is      *)
(* given back twice, and the current one never. *)
AssertionsHold ==
  /\ d.ok
  /\ ~InPool(d, d.cur)
  /\ \A k, m \in DOMAIN d.pool : d.pool[k] = d.pool[m] => k = m

(* Labels are the beginnings of basic blocks (doc.tex: "etykiety           *)
(* utozsamiane sa z poczatkami tych blokow"): a block that is jumped to is *)
(* never given back, so that it is in the function's list at the end. *)
LabelsAreBlocks ==
  Finished => \A i \in DOMAIN Listed : \A b \in Jumps(i) : \E j \in DOMAIN Listed : Listed[j] = b

(* Each block is the target of one forward jump at most, however many      *)
(* conditions lead to it: what a variable's location is at the start of    *)
(* the block is decided by one jump and one fall-through. *)
OneJumpForward ==
  Finished =>
    LET list == Listed
    IN \A j \in DOMAIN list :
         \A i, k \in 1..(j - 1) : list[j] \in Jumps(i) \cap Jumps(k) => i = k

(* The block after a conditional jump is entered from there only, so that  *)
(* the code generator can move variables on that edge. *)
FallThroughOwn ==
  Finished =>
    LET list == Listed
    IN \A i \in DOMAIN list :
         LastOp(d, list[i]) = "test" =>
           i + 1 \in DOMAIN list /\ \A k \in DOMAIN list : list[i + 1] \notin Jumps(k)
-----------------------------------------------------------------------------
(***************************************************************************)
(* The reference: an execution of the source, where the n-th event, if it  *)
(* is the outcome of a test, is given by o[n].                             *)
(***************************************************************************)
Event(op, what, val) == [op |-> op, what |-> what, val |-> val]
Note(r, e) ==
  [r EXCEPT !.events = Append(@, e), !.stop = Len(r.events) + 1 >= MaxEvents]
Outcome(r, o) == o[Len(r.events) + 1]
Noted(r, o, atom) ==
  LET v == Outcome(r, o) IN [Note(r, Event("test", atom, v)) EXCEPT !.val = v]

RECURSIVE Eval(_, _, _)
Eval(c, r, o) ==
  IF r.stop THEN r
  ELSE CASE c.k = "const" -> [r EXCEPT !.val = c.val]
         [] c.k = "not"   -> [Eval(c.l, r, o) EXCEPT !.val = ~@]
         [] c.k = "and"   -> LET x == Eval(c.l, r, o) IN IF x.val THEN Eval(c.r, x, o) ELSE x
         [] c.k = "or"    -> LET x == Eval(c.l, r, o) IN IF x.val THEN x ELSE Eval(c.r, x, o)
         [] c.k = "test"  -> Noted(r, o, c.atom)
         [] c.k = "call"  -> LET x == Eval(c.arg, r, o)
                                 y == Note(x, Event("act", IF x.val THEN "T" ELSE "F", TRUE))
                             IN IF x.stop THEN x ELSE IF y.stop THEN y ELSE Noted(y, o, c.atom)

RECURSIVE Exec(_, _, _)
Exec(s, r, o) ==
  IF r.stop THEN r
  ELSE CASE s.k = "act"    -> Note(r, Event("act", s.what, TRUE))
         [] s.k = "return" -> [Note(r, Event("return", "", TRUE)) EXCEPT !.stop = TRUE]
         [] s.k = "set"    -> LET x == Eval(s.c, r, o)
                              IN IF x.stop THEN x
                                 ELSE Note(x, Event("act", IF x.val THEN "T" ELSE "F", TRUE))
         [] s.k = "block"  -> IF s.ss = <<>> THEN r
                              ELSE Exec(Block(Tail(s.ss)), Exec(Head(s.ss), r, o), o)
         [] s.k = "if"     -> LET x == Eval(s.c, r, o) IN IF x.val THEN Exec(s.then, x, o) ELSE x
         [] s.k = "ifelse" -> LET x == Eval(s.c, r, o)
                              IN IF x.val THEN Exec(s.then, x, o) ELSE Exec(s.else, x, o)
         [] s.k = "while"  -> LET x == Eval(s.c, r, o)
                              IN IF x.stop \/ ~x.val THEN x ELSE Exec(s, Exec(s.body, x, o), o)
         [] s.k = "for"    -> LET loop == [k |-> "while", c |-> s.c, body |-> Block(<<s.body, s.step>>)]
                              IN Exec(loop, Exec(s.init, r, o), o)

Meant(o) ==
  Exec(Block(<<body, [k |-> "return"]>>), [events |-> <<>>, val |-> TRUE, stop |-> FALSE], o).events

(* An execution of the blocks, from the i-th quadruple of b; no more than  *)
(* fuel steps. *)
RECURSIVE Run(_, _, _, _, _)
Run(b, i, r, o, fuel) ==
  LET qs == d.mem[b].quadrs
      q == qs[i]
      x == Noted(r, o, q.what)
  IN IF r.stop THEN r
     ELSE IF fuel = 0 \/ InPool(d, b) THEN Note(r, Event("lost", "", TRUE))
     ELSE IF i > Len(qs) THEN IF d.mem[b].next = None THEN Note(r, Event("lost", "", TRUE))
                              ELSE Run(d.mem[b].next, 1, r, o, fuel - 1)
     ELSE CASE q.op = "act"    -> Run(b, i + 1, Note(r, Event("act", q.what, TRUE)), o, fuel - 1)
            [] q.op = "return" -> Note(r, Event("return", "", TRUE))
            [] q.op = "goto"   -> Run(q.label, 1, r, o, fuel - 1)
            [] q.op = "test"   -> IF x.val = q.sense THEN Run(q.label, 1, x, o, fuel - 1)
                                  ELSE Run(b, i + 1, x, o, fuel - 1)
Done(o) == Run(First, 1, [events |-> <<>>, val |-> TRUE, stop |-> FALSE], o, 12 * MaxEvents).events

(* The blocks do what the body says: whatever the tests come out as, the   *)
(* same quadruples are executed in the same order, no test is made that    *)
(* the body would not make, and control is never lost between two blocks.  *)
SameMeaning == Finished => \A o \in [1..MaxEvents -> BOOLEAN] : Done(o) = Meant(o)
=============================================================================
