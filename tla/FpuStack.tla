------------------------------ MODULE FpuStack ------------------------------
(***************************************************************************)
(* The floating-point registers of the i386 back end: the tables gencode.c *)
(* keeps about them (fpu_regs[], stack_elem->vars, var->loc), and the x87  *)
(* unit the generated instructions run on.                                 *)
(*                                                                         *)
(* The registers form a stack: place i < RegNum is st(i), counted from the *)
(* top both in the tables and in the instructions, so that a push or a pop *)
(* renames all of them.  The other places are stack elements of the frame. *)
(* A state d of tables and unit is a record:                               *)
(*   loc    var->loc                                                      *)
(*   list   fpu_regs[] and stack_elem->vars                                *)
(*   live   the variables whose var->live is set                           *)
(*   init   fpu_initialised, which follows the order code is generated in  *)
(*   ready  finit has been executed, on this path, since the function was  *)
(*          entered or a call returned                                     *)
(*   full   the tag word: the registers the unit takes for full            *)
(*   holds  the variables whose present value a place holds                *)
(*   slip   what went wrong first, or that the compiler failed, or "none"  *)
(* ready, full and holds are what the instructions emitted so far really   *)
(* do; the code generator does not see them.                               *)
(***************************************************************************)
EXTENDS Integers, FiniteSets, Sequences, SequencesExt, FiniteSetsExt

CONSTANTS
  Vars,     \* the variables of type double
  RegNum    \* fpu_reg_num, 8 in the code

ASSUME FpuStackAssumption == IsFiniteSet(Vars) /\ RegNum \in Nat \ {0, 1}

Regs == 0 .. RegNum - 1
Slots == RegNum .. RegNum + Cardinality(Vars) - 1
Places == Regs \cup Slots
MaxReg == RegNum - 1
Nowhere == -1

Slips == {"overflow",     \* a push onto a full register
          "empty",        \* an instruction reads an empty register
          "operand",      \* an instruction reads a place that holds another value
          "recorded",     \* a result is recorded where it is not, or not only where it is
          "rotated",      \* fpu_regs[] is rotated and the unit is not
          "wiped",        \* finit empties registers that are listed
          "unready",      \* finit is left out, though this path has had none
          "asserted",     \* fpu_initialised is asserted and is not set
          "undefined",    \* a null location, or a member of a union that was
                          \* not written, is read
          "marked"}       \* var->live is left set on a dead variable

(* The compiler itself fails; before that only its output is wrong. *)
Failures == {"undefined", "asserted"}

Slip(d, why) ==
  IF d.slip = "none" \/ (why \in Failures /\ d.slip \notin Failures)
  THEN [d EXCEPT !.slip = why] ELSE d
-----------------------------------------------------------------------------
(***************************************************************************)
(* The unit.                                                               *)
(***************************************************************************)

(* What st(i) was before a push or a pop renamed the registers. *)
Up(f) == [p \in Places |-> IF p \in Regs THEN f[(p + 1) % RegNum] ELSE f[p]]
Down(f) == [p \in Places |-> IF p \in Regs THEN f[(p + RegNum - 1) % RegNum] ELSE f[p]]

(* finit *)
Finit(d) ==
  LET e == IF \E r \in Regs : d.list[r] # {} THEN Slip(d, "wiped") ELSE d
  IN [e EXCEPT !.full = [r \in Places |-> r \in Slots], !.init = TRUE, !.ready = TRUE,
               !.holds = [p \in Places |-> IF p \in Regs THEN {} ELSE e.holds[p]]]

(* gen_code, gen_mov, gen_swap and gen_fpu_load write finit unless         *)
(* fpu_initialised says that it has been written. *)
Started(d) ==
  IF ~d.init THEN Finit(d) ELSE IF d.ready THEN d ELSE Slip(d, "unready")

(* assert (fpu_initialised) in gen_fpu_store and gen_fpu_pop *)
Asserted(d) == IF d.init THEN d ELSE Slip(d, "asserted")

(* An instruction reads v from p. *)
Reads(d, p, v) ==
  IF p = Nowhere THEN Slip(d, "undefined")
  ELSE IF ~d.full[p] THEN Slip(d, "empty")
  ELSE IF v \notin d.holds[p] THEN Slip(d, "operand") ELSE d

(* fld: the register below the top must be empty, or nothing is loaded. *)
Push(d, value) ==
  LET e == IF d.full[MaxReg] THEN Slip(d, "overflow") ELSE d
  IN [e EXCEPT !.full = [Down(e.full) EXCEPT ![0] = TRUE],
               !.holds = [Down(e.holds) EXCEPT ![0] = IF d.full[MaxReg] THEN {} ELSE value]]

(* ffree *)
Ffree(d, r) == [d EXCEPT !.full[r] = FALSE, !.holds[r] = {}]

(* fincstp: the top moves and the tags stay. *)
Fincstp(d) == [d EXCEPT !.full = Up(d.full), !.holds = Up(d.holds)]

(* fstp st0, or fincstp alone for a register taken for empty. *)
Fstp(d, empty) == Fincstp(IF empty THEN d ELSE Ffree(d, 0))

(* fst: the top is copied to p. *)
Fst(d, p) ==
  LET e == IF d.full[0] THEN d ELSE Slip(d, "empty")
  IN [e EXCEPT !.full[p] = TRUE, !.holds[p] = e.holds[0]]

(* fxch for two registers; the code brings both through the top. *)
Fxch(d, r, s) ==
  LET e == IF d.full[r] /\ d.full[s] THEN d ELSE Slip(d, "empty")
  IN [e EXCEPT !.full[r] = TRUE, !.full[s] = TRUE,
               !.holds[r] = e.holds[s], !.holds[s] = e.holds[r]]

(* What can still be read: the values of live variables in places listed   *)
(* for them. *)
Settled(d) == [d EXCEPT !.holds = [p \in Places |-> @[p] \cap d.list[p] \cap d.live]]

(* A call is written and fpu_initialised reset.  After the call nothing is *)
(* known of the unit's registers.                                          *)
Unknown(d) ==
  [d EXCEPT !.full = [p \in Places |-> TRUE], !.init = FALSE, !.ready = FALSE,
            !.holds = [p \in Places |-> IF p \in Regs THEN {} ELSE d.holds[p]]]
-----------------------------------------------------------------------------
(***************************************************************************)
(* The tables.                                                             *)
(***************************************************************************)

(* std_find_best_src_loc: a register, else the stack element.  A variable  *)
(* is in two registers only while it has just been loaded into the top,    *)
(* which then comes first in its list. *)
BestSrc(d, v) == IF d.loc[v] = {} THEN Nowhere ELSE Min(d.loc[v])

(* ref_num: the variables listed for p that are nowhere else. *)
RefNum(d, p) == Cardinality({v \in d.list[p] : Cardinality(d.loc[v]) = 1})

(* update_var_loc *)
Located(d, v, p) ==
  [d EXCEPT !.list[p] = @ \cup {v}, !.loc[v] = @ \cup {p}]

(* A variant of ShouldSave that counts the register to be freed as a place. *)
ShouldSaveCountingIt(d, v, r, denied) == v \in d.live /\ d.loc[v] \subseteq denied

(* should_save_var *)
ShouldSave(d, v, r, denied) ==
  v \in d.live /\ d.loc[v] \subseteq {r} \cup denied

(* From the top, or from a register brought to the top and back. *)
StoreFrom(d, r, s) ==
  IF r = 0 THEN Fst(d, s) ELSE Fxch(Fst(Fxch(d, 0, r), s), 0, r)

(* gen_mov to a stack element. *)
GenMov(d, s, v) ==
  LET r == BestSrc(d, v)
  IN StoreFrom(Reads(Started(d), r, v), r, s)

(* save_var: a stack element, if the variable has none. *)
SaveVar(d, v) ==
  IF d.loc[v] \cap Slots # {} THEN d
  ELSE LET s == Min({p \in Slots : d.list[p] = {}})
           e == [d EXCEPT !.list[s] = {v}]
       IN [GenMov(e, s, v) EXCEPT !.loc[v] = @ \cup {s}]

Vacated(d, r, physically) ==
  [(IF physically /\ d.list[r] # {} THEN Ffree(d, r) ELSE d) EXCEPT !.list[r] = {}]

(* A variant of FreeReg that empties the list and keeps the locations. *)
FreeRegListOnly(d, r, denied, physically) ==
  LET leave(v, e) == IF ShouldSave(e, v, r, denied) THEN SaveVar(e, v) ELSE e
  IN Vacated(FoldSet(leave, d, d.list[r]), r, physically)

(* free_fpu_reg *)
FreeReg(d, r, denied, physically) ==
  LET leave(v, e) ==
        [(IF ShouldSave(e, v, r, denied) THEN SaveVar(e, v) ELSE e)
           EXCEPT !.loc[v] = @ \ {r}]
  IN Vacated(FoldSet(leave, d, d.list[r]), r, physically)

(* discard_var0: a register nothing is listed for any more is emptied,     *)
(* unless it is kept (disallowed_fpu_reg_for_freeing). *)
Discard(d, v, kept) ==
  LET mine == d.loc[v]
      left == {r \in mine \cap Regs : d.list[r] \subseteq {v} /\ r # kept}
  IN [d EXCEPT !.loc[v] = {},
               !.list = [p \in Places |-> d.list[p] \ (IF p \in mine THEN {v} ELSE {})],
               !.full = [p \in Places |-> d.full[p] /\ p \notin left],
               !.holds = [p \in Places |-> IF p \in left THEN {} ELSE d.holds[p]]]

(* A variable that is in two registers is visited once. *)
Renumbered(d, by) ==
  LET listed == UNION {d.list[r] : r \in Regs}
  IN [v \in Vars |->
        IF v \notin listed THEN d.loc[v]
        ELSE {IF p \in Regs THEN (p + by) % RegNum ELSE p : p \in d.loc[v]}]

(* rol_fpu_regs, ror_fpu_regs *)
Rol(d) ==
  [d EXCEPT !.list = Up(d.list), !.loc = Renumbered(d, RegNum - 1)]
Ror(d) ==
  [d EXCEPT !.list = Down(d.list), !.loc = Renumbered(d, 1)]

(* fpu_pop.  A register that nothing is listed for is taken for empty. *)
FpuPop(d, denied) ==
  Fstp(Asserted(Rol(FreeReg(d, 0, denied, FALSE))), d.list[0] = {})

(* fpu_store to a register that nothing is listed for. *)
FpuStore(d, r) ==
  Fst(Asserted(FoldSet(LAMBDA v, e : Located(e, v, r), d, d.list[0])), r)

(* do_bellady_ra: the first register nothing is listed for; else any, as   *)
(* its second pass goes by the distance of the next use. *)
Victims(d) ==
  LET free == {r \in Regs : d.list[r] = {}}
  IN IF free # {} THEN {Min(free)} ELSE Regs

(* stack_ra: the last register is vacated, by saving its variables or by   *)
(* moving the top to the victim and popping. *)
StackRa(d, victim) ==
  IF d.list[MaxReg] = {} THEN d
  ELSE IF victim = MaxReg THEN FreeReg(d, MaxReg, {}, TRUE)
  ELSE FpuPop(FpuStore(FreeReg(d, victim, {}, FALSE), victim), {})

Fld(d, v) ==
  LET p == BestSrc(d, v)
  IN Located(Ror(Push(Reads(d, p, v), IF p = Nowhere THEN {} ELSE d.holds[p])), v, 0)

(* fpu_load *)
FpuLoad(d, v, victim) == Fld(Started(StackRa(d, victim)), v)

(* swap_fpu_regs: in the locations of the variables listed for r, then of  *)
(* those listed for s, the register is replaced by the other one. *)
SwapFpuRegs(d, r, s) ==
  LET there(v) == IF v \in d.list[r] THEN (d.loc[v] \ {r}) \cup {s} ELSE d.loc[v]
      back(v) == IF v \in d.list[s] THEN (there(v) \ {s}) \cup {r} ELSE there(v)
      e == [d EXCEPT !.list[r] = d.list[s], !.list[s] = d.list[r],
                     !.loc = [v \in Vars |-> back(v)]]
  IN Fxch(Started(e), r, s)

(* free_all_fpu_regs: pops as far as the last register that is listed. *)
FreeAll(d) ==
  LET listed == {r \in Regs : d.list[r] # {}}
      pops == IF listed = {} THEN 0 ELSE Max(listed) + 1
  IN FoldLeft(LAMBDA e, i : FpuPop(e, Regs), d, [i \in 1 .. pops |-> i])
=============================================================================
