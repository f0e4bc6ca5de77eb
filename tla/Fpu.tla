--------------------------------- MODULE Fpu ---------------------------------
(***************************************************************************)
(* The i386 back end (i386_backend.c) on the quadruples that compute with  *)
(* doubles, composed with the tables of gencode.c and the x87 unit         *)
(* (FpuStack): where it finds its operands, which registers it gives up,   *)
(* and where it records the result, on any path through a function.        *)
(*                                                                         *)
(* A quadruple is one action, except a call, which stores its arguments    *)
(* one by one.  The program is chosen step by step: any quadruple whose    *)
(* operands are live may come next, and what is live after it is any set   *)
(* the liveness marks of gencode_for_block allow.                          *)
(***************************************************************************)
EXTENDS FpuStack

CONSTANTS
  MaxArgs,        \* bound: arguments of a call that are doubles
  PentiumPro,     \* f_pentium_pro: comparisons set the flags themselves
  CallInPlace,    \* a call may return into a variable that has a place, as
                  \* after opt.cpp::copy_backpropagation (-O1)
  SelfCopy        \* x = x reaches the generator, as at -O0

ASSUME FpuAssumption ==
  MaxArgs \in Nat /\ {PentiumPro, CallInPlace, SelfCopy} \subseteq BOOLEAN

VARIABLES
  m,        \* the tables, the unit, and what went wrong
  live,     \* the variables that are live
  pc,       \* "quadr", "args" inside gen_call, "returned"
  call      \* gen_call: its arguments, their liveness, the result

vars == <<m, live, pc, call>>

NoCall == [args |-> <<>>, alive |-> <<>>, next |-> 1, result |-> {}, after |-> {}]

(* The sets that may be live after a quadruple that uses args and assigns  *)
(* the variables of res. *)
Afters(args, res) == {A \in SUBSET Vars : (A \ res) \cup args = live}
-----------------------------------------------------------------------------
(***************************************************************************)
(* One instruction with two operands, and what precedes it.                *)
(***************************************************************************)

(* we_may_change_loc *)
MayChange(d, v, p, after) ==
  (Cardinality(d.loc[v]) > 1 \/ v \notin after) /\ RefNum(d, p) = 1

(* A variant of UpdateLocations that saves nobody who shares the register. *)
UpdateLocationsUnsaved(d, x0, operands, after, r) ==
  LET e == [d EXCEPT !.live = (@ \ operands) \cup (operands \cap after)]
      f == FoldSet(LAMBDA v, h : Discard(h, v, r), Discard(e, x0, r), operands \ e.live)
  IN [Located(f, x0, r) EXCEPT !.live = @ \cup {x0}]

(* update_locations: x0 will be in register r, and the operands that die   *)
(* lose their places, before anything in r is saved. *)
UpdateLocations(d, x0, operands, after, r) ==
  LET e == [d EXCEPT !.live = (@ \ operands) \cup (operands \cap after)]
      f == FoldSet(LAMBDA v, h : Discard(h, v, r), Discard(e, x0, r), operands \ e.live)
      g == Located(FreeReg(f, r, {}, FALSE), x0, r)
  IN [g EXCEPT !.live = @ \cup {x0}]

(* The instruction: dst := dst op src, or src op dst if it is a reversed   *)
(* one, where the left operand should be v and the right one w. *)
Fop(d, dst, src, rev, v, w, x0) ==
  LET left == IF rev THEN src ELSE dst
      right == IF rev THEN dst ELSE src
      e == Reads(Reads(d, left, v), right, w)
      result == IF v \in d.holds[left] /\ w \in d.holds[right] THEN {x0} ELSE {}
  IN [e EXCEPT !.full[dst] = TRUE,
               !.holds = [p \in Places |-> IF p = dst THEN result ELSE e.holds[p] \ {x0}]]

(* swap_fpu_regs(0, r), unless r is the top. *)
ToTop(d, r) == IF r = 0 THEN d ELSE SwapFpuRegs(d, 0, r)

(* gen_fpu_arithmetic_op: x0 := x op y.  v, w are var1, var2 and p, q are  *)
(* loc1, loc2 after the exchanges at its beginning.                        *)
GenFpuArithmetic(d, x0, x, y, after, victim) ==
  LET px == BestSrc(d, x)
      py == BestSrc(d, y)
      swapped == (px \in Slots /\ py \in Regs) \/ (px \in Regs \ {0} /\ py = 0)
      v == IF swapped THEN y ELSE x
      w == IF swapped THEN x ELSE y
      p == IF swapped THEN py ELSE px
      q == IF swapped THEN px ELSE py
      update(e, r) == UpdateLocations(e, x0, {x, y}, after, r)
      top == ToTop(d, p)
  IN IF p \in Slots
     THEN Fop(update(FpuLoad(d, v, victim), 0), 0, q, FALSE, x, y, x0)
     ELSE IF p = 0 /\ q = 0
     THEN IF after \cap {x, y} = {} /\ RefNum(d, 0) <= 1
          THEN Fop(update(d, 0), 0, 0, FALSE, x, y, x0)
          ELSE \* loc1 is the location the load has renumbered
               Slip(Fop(update(FpuLoad(d, v, victim), 1), 0, 0, FALSE, x, y, x0), "recorded")
     ELSE IF MayChange(d, v, p, after)
     THEN LET r == BestSrc(top, w)
          IN IF MayChange(d, w, q, after) /\ r \in Regs
             THEN FpuPop(Fop(update(top, r), r, 0, ~swapped, x, y, x0), {})
             ELSE Fop(update(top, 0), 0, r, swapped, x, y, x0)
     ELSE IF MayChange(d, w, q, after)
     THEN IF q \in Slots
          THEN Slip(d, "undefined")     \* loc2->u.reg of a stack location
          ELSE LET e == ToTop(d, q)
               IN Fop(update(e, 0), 0, BestSrc(e, v), ~swapped, x, y, x0)
     ELSE LET e == FpuLoad(d, v, victim)
          IN Fop(update(e, 0), 0, BestSrc(e, w), swapped, x, y, x0)
-----------------------------------------------------------------------------
(***************************************************************************)
(* Quadruples.                                                             *)
(***************************************************************************)

Running == pc = "quadr" /\ m.slip = "none"

(* The victim matters only where a register has to be vacated. *)
VictimsOf(d) == IF d.list[MaxReg] = {} THEN {MaxReg} ELSE Victims(d)

(* What gen_code does last: dead operands lose their places. *)
DiscardDead(d, vs, after) ==
  FoldSet(LAMBDA v, e : Discard(e, v, Nowhere),
          [d EXCEPT !.live = (@ \ vs) \cup (vs \cap after)], vs \ after)

(* The quadruple has been dealt with. *)
Then(d, A) == m' = Settled(d) /\ live' = A /\ UNCHANGED <<pc, call>>

(* x0 := x op y *)
Arithmetic ==
  \E x0 \in Vars, x, y \in live : \E A \in Afters({x, y}, {x0}) :
    /\ Running
    /\ x0 \in A
    /\ \E k \in VictimsOf(m) : Then(GenFpuArithmetic(Started(m), x0, x, y, A, k), A)

(* gencode_for_quadr: a result that is not used only loses its places. *)
DeadResult ==
  \E x0 \in Vars, S \in SUBSET live : \E A \in Afters(S, {x0}) :
    /\ Running
    /\ Cardinality(S) \in 1 .. 2
    /\ x0 \notin A
    /\ Then(DiscardDead([m EXCEPT !.live = @ \ {x0}], S \cup {x0}, A), A)

(* copy_to_var: x gets the places of w. *)
CopyVar ==
  \E x \in Vars, w \in live : \E A \in Afters({w}, {x}) :
    LET d == Discard(m, x, Nowhere)
        e == FoldSet(LAMBDA p, f : Located(f, x, p), d, d.loc[w])
        h == [p \in Places |-> (e.holds[p] \ {x}) \cup (IF w \in e.holds[p] THEN {x} ELSE {})]
    IN /\ Running
       /\ x # w \/ SelfCopy
       /\ x \in A
       /\ Then(DiscardDead([e EXCEPT !.holds = h, !.live = @ \cup {x}], {w}, A), A)

(* The top is needed no longer, and by nobody else. *)
MayPop(d, v, after) == v \notin after /\ RefNum(d, 0) <= 1

PoppedIf(d, v, after) ==
  IF MayPop(d, v, after) THEN Discard(FpuPop([d EXCEPT !.live = @ \ {v}], {}), v, Nowhere)
  ELSE d

(* gen_fpu_cmp up to save_live: one operand is brought to the top, compared *)
(* with the other, and popped if it was needed no longer. *)
GenFpuCmp(d, x, y, after, victim) ==
  LET px == BestSrc(d, x)
      py == BestSrc(d, y)
      swapped == IF PentiumPro /\ px \in Regs /\ py \in Regs THEN py = 0
                 ELSE py \in Regs /\ px # 0
      v == IF swapped THEN y ELSE x
      w == IF swapped THEN x ELSE y
      p == IF swapped THEN py ELSE px
      q == IF swapped THEN px ELSE py
      e == IF p \in Slots THEN FpuLoad(d, v, victim) ELSE ToTop(d, p)
      r == IF p \in Slots \/ p = 0 \/ q \notin {0, p} THEN q ELSE p - q
  IN PoppedIf(Reads(Reads(e, 0, v), r, w), v, after)

(* The block ends, and the path goes on in a block at whose start those of *)
(* B are live: they have the places they had.  The others are discarded,   *)
(* which frees no register of the unit (discard_var0).  Other blocks may   *)
(* have been generated in between, which leaves fpu_initialised open.      *)
(* Bound: each variable has a place of its own, so that save_live has      *)
(* nothing to do. *)
NextBlock(d, A) ==
  /\ d.slip = "none" =>
       \A v \in A : Cardinality(d.loc[v]) = 1 /\ \A p \in d.loc[v] : d.list[p] = {v}
  /\ \E B \in SUBSET A, flag \in BOOLEAN :
       Then([d EXCEPT !.loc = [v \in Vars |-> IF v \in B THEN d.loc[v] ELSE {}],
                      !.list = [p \in Places |-> d.list[p] \cap B],
                      !.live = B, !.init = flag], B)

(* A conditional jump on doubles. *)
Compare ==
  \E x, y \in live : \E A \in Afters({x, y}, {}) : \E k \in VictimsOf(m) :
    /\ Running
    /\ NextBlock(DiscardDead(GenFpuCmp(Started(m), x, y, A, k), {x, y}, A), A)

(* GOTO, a conditional jump on integers, or a block that ends without one. *)
Goto ==
  /\ Running
  /\ NextBlock(m, live)

BestToTop(d, v) == ToTop(d, BestSrc(d, v))

(* WRITE_PTR of a double: it is stored from the top, which is never popped, *)
(* because gen_code has set its var->live. *)
WritePtr ==
  \E v \in live : \E A \in Afters({v}, {}) : \E k \in VictimsOf(m) :
    LET d == Started(m)
        e == IF BestSrc(d, v) \in Slots THEN FpuLoad(d, v, k) ELSE d
    IN /\ Running
       /\ Then(DiscardDead(Reads(BestToTop(e, v), 0, v), {v}, A), A)

(* gen_print_string *)
PrintString ==
  /\ Running
  /\ Then(Unknown(FreeAll(m)), live)

(* RETURN of a double *)
Return ==
  \E v \in live : \E k \in VictimsOf(m) :
    LET d == Started(m)
    IN /\ Running
       /\ m' = Reads(IF BestSrc(d, v) = 0 THEN d ELSE FpuLoad(d, v, k), 0, v)
       /\ pc' = "returned"
       /\ UNCHANGED <<live, call>>
-----------------------------------------------------------------------------
(***************************************************************************)
(* gen_call.                                                               *)
(***************************************************************************)

(* The liveness of the arguments is set aside, and all are marked live;    *)
(* an argument that comes twice is found marked the second time. *)
StartCall ==
  \E n \in 0 .. MaxArgs : \E args \in [1 .. n -> live], res \in {{}} \cup {{v} : v \in Vars} :
    \E A \in Afters(ToSet(args), res) :
      /\ Running
      /\ CallInPlace \/ \A v \in res : m.loc[v] = {}
      /\ call' = [args |-> args, next |-> 1, result |-> res, after |-> A,
                  alive |-> [i \in 1 .. n |-> args[i] \in A \/
                                              \E j \in 1 .. i - 1 : args[j] = args[i]]]
      /\ m' = [m EXCEPT !.live = (@ \ res) \cup (res \cap A) \cup ToSet(args)]
      /\ pc' = "args"
      /\ UNCHANGED live

RolAlone(d) ==
  Rol(IF \E r \in Regs : d.list[r] # {} THEN Slip(d, "rotated") ELSE d)

(* PUSH_FPU_ARG, and the rol_fpu_regs() that follows it.  An argument that *)
(* has been pushed before is copied from there. *)
PushArg ==
  LET i == call.next
      v == call.args[i]
      d == [m EXCEPT !.live = IF call.alive[i] THEN @ \cup {v} ELSE @ \ {v}]
      pushed == \E j \in 1 .. i - 1 : call.args[j] = v
  IN /\ pc = "args" /\ m.slip = "none" /\ i <= Len(call.args)
     /\ \E k \in VictimsOf(m) :
          LET e == IF 0 \in d.loc[v] THEN d ELSE FpuLoad(d, v, k)
          IN m' = IF pushed THEN d ELSE RolAlone(FpuPop(Reads(e, 0, v), {}))
     /\ call' = [call EXCEPT !.next = @ + 1]
     /\ UNCHANGED <<live, pc>>

(* The marks are put back, in the order they were taken; what is live goes *)
(* to the frame; the result of the call is loaded after finit. *)
DoCall ==
  LET put(e, i) == [e EXCEPT !.live = IF call.alive[i] THEN @ \cup {call.args[i]}
                                      ELSE @ \ {call.args[i]}]
      d == Unknown(FreeAll(FoldLeft(put, m, [i \in DOMAIN call.args |-> i])))
      e == [d EXCEPT !.holds = [p \in Places |-> @[p] \ call.result]]
      got(v) == Located(Push(Finit(IF e.loc[v] = {} THEN e ELSE Slip(e, "recorded")), {v}), v, 0)
      f == FoldSet(LAMBDA v, g : got(v), e, call.result)
  IN /\ pc = "args" /\ m.slip = "none" /\ call.next > Len(call.args)
     /\ m' = IF f.live = call.after THEN f ELSE Slip(f, "marked")
     /\ live' = call.after
     /\ pc' = "quadr"
     /\ call' = NoCall
-----------------------------------------------------------------------------
(* A parameter is in a stack element of its own; a parameter that is not   *)
(* used keeps it.  *)
Init ==
  \E params \in SUBSET Vars, home \in {CHOOSE f \in [Vars -> Slots] : IsInjective(f)} :
    /\ live \in SUBSET params
    /\ m = [loc   |-> [v \in Vars |-> IF v \in params THEN {home[v]} ELSE {}],
            list  |-> [p \in Places |-> {v \in params : home[v] = p}],
            live  |-> live,
            init  |-> FALSE,
            ready |-> FALSE,
            full  |-> [p \in Places |-> TRUE],
            holds |-> [p \in Places |-> {v \in params : home[v] = p}],
            slip  |-> "none"]
    /\ pc = "quadr"
    /\ call = NoCall

Next ==
  \/ Arithmetic \/ DeadResult \/ CopyVar \/ Compare \/ Goto \/ WritePtr
  \/ PrintString \/ Return \/ StartCall \/ PushArg \/ DoCall

Spec == Init /\ [][Next]_vars
-----------------------------------------------------------------------------
(* The two tables mirror each other, no location is listed twice, and the  *)
(* steps taken so far have left values of the right kind: what every       *)
(* function of gencode.c leaves true (gencode_invariant).                  *)
Listed ==
  /\ m.slip \in Slips \cup {"none"}
  /\ \A v \in Vars, p \in Places : p \in m.loc[v] <=> v \in m.list[p]
  /\ \A v \in Vars : m.loc[v] \in SUBSET Places
  /\ \A v \in Vars : pc = "quadr" /\ m.slip = "none" =>
       Cardinality(m.loc[v] \cap Regs) <= 1 /\ Cardinality(m.loc[v] \cap Slots) <= 1

(* No live value is lost: the result of a quadruple and whatever is used   *)
(* later has a place, though registers are vacated for others and dropped. *)
LiveLocated ==
  pc # "args" /\ m.slip \notin Failures => \A v \in live : m.loc[v] # {}

(* quadr.h says that var->loc are the "current locations of the variable": *)
(* every place recorded for a live variable holds its value in the unit or *)
(* the frame when the code runs.  Violated: some instructions read, wipe   *)
(* or rename registers otherwise than the tables are changed. *)
PlacesCurrent ==
  \A v \in live : \A p \in m.loc[v] : m.full[p] /\ v \in m.holds[p]

(* As long as none of Slips has happened, every place recorded for a live  *)
(* variable holds its value, through the renaming of the registers by all  *)
(* pushes, pops and exchanges, through saving and vacating, the popping of *)
(* everything before a call, and the ends of blocks.  What Slips names is  *)
(* not covered: PlacesCurrent is about that. *)
PlacesHold == m.slip = "none" => PlacesCurrent

(***************************************************************************)
(* What the comments say and the code does not do.  All are violated; the  *)
(* first one is broken by most of Slips, of which each of the others says  *)
(* that it does not happen.                                                *)
(***************************************************************************)

(* gencode.h says of the register stack_ra vacates that "data may be       *)
(* immediately loaded" into it, and of fpu_reg_free that it "marks fpu_reg *)
(* as free".                                                               *)
LoadsFit == m.slip # "overflow"

(* A finit written because fpu_initialised was reset by another block      *)
(* never empties registers that are recorded. *)
FinitSpares == m.slip # "wiped"

(* gencode.h says that an operand must be marked live before anything is   *)
(* called that may erase its location; update_locations takes the marks    *)
(* back and discards, which empties the register of an operand before the  *)
(* instruction that reads it. *)
OperandsFull == m.slip # "empty"

(* gencode.h says that gen_code can handle all quadruples;                 *)
(* gen_fpu_arithmetic_op reads the register of an operand that is in a     *)
(* stack element. *)
OperandsInRegisters == m.slip # "undefined"

(* A call rotates fpu_regs[] as often as the unit when it passes arguments. *)
TurnedAlike == m.slip # "rotated"

(* gencode.h says that var->live is the liveness "_after_ the current      *)
(* instruction"; a variable passed twice to a call stays marked. *)
MarksRestored == m.slip # "marked"
=============================================================================
