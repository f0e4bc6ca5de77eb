------------------------------- MODULE GenLoc -------------------------------
(***************************************************************************)
(* The location tracker of the code generator (gencode.c), driven by the   *)
(* quadruple backend (quadr_backend.c) through one chain of basic blocks.  *)
(*                                                                         *)
(* A variable has a set of locations (var->loc: registers, stack elements  *)
(* and constants); a register or stack element has a list of variables     *)
(* (regs[i], stack_elem->vars).  The tracker moves values around while it  *)
(* generates code, and the two tables are its only knowledge of where a    *)
(* value is.  The ghost field "holds" says what the generated code has     *)
(* really put into each place, so that the tables can be compared with it. *)
(*                                                                         *)
(* One class of registers is modelled, without permanent locations         *)
(* (arrays) and without READ_PTR/WRITE_PTR.  The order of a list, the      *)
(* first-fit choice of a place and the nearest-use heuristics are choices  *)
(* of the model.                                                           *)
(***************************************************************************)
EXTENDS Naturals, FiniteSets, Functions

CONSTANTS
  Vars,           \* the variables (var_t) of the function
  Regs,           \* the general-purpose registers of the backend
  Slots,          \* the stack elements; an element can always be appended
                  \* in the code, so this is a bound of the model
  Consts,         \* the integer constants of LOC_INT locations
  RetReg,         \* the register in which a call leaves its result
  NoVar,          \* an absent operand or result (QA_NONE)
  CallInPlace,    \* a call may write its result straight into a variable
                  \* that already has locations, as after
                  \* opt.cpp::copy_backpropagation (-O1)
  SelfCopy        \* the source has a statement "x = x;" (and -O0)

ASSUME GenLocAssumption ==
  /\ IsFiniteSet(Vars) /\ IsFiniteSet(Regs) /\ IsFiniteSet(Slots)
  /\ Regs \cap Slots = {} /\ Regs \cap Consts = {} /\ Slots \cap Consts = {}
  /\ RetReg \in Regs
  /\ NoVar \notin Vars
  /\ CallInPlace \in BOOLEAN
  /\ SelfCopy \in BOOLEAN

VARIABLES
  m,        \* the tables and what the generated code has stored
  live,     \* var->live: the variables live before the current quadruple
  pc,       \* the step of the handler of the current quadruple
  cur,      \* the current quadruple and the handler's local variables
  pending,  \* live_at_end[] still to be visited by save_live()
  entry     \* vd->loc of the child block's vars_at_start

vars == <<m, live, pc, cur, pending, entry>>

Places == Regs \cup Slots
Locs == Places \cup Consts

Machines == [loc : [Vars -> SUBSET Locs],
             list : [Places -> SUBSET Vars],
             holds : [Locs -> SUBSET Vars]]

Handlers == {"copy", "arith", "if", "goto", "call", "print", "read", "return"}
NoQuadr == [op |-> "goto", res |-> NoVar, args |-> {}, after |-> {},
            todo |-> {}, dst |-> RetReg, opnd |-> [v \in Vars |-> RetReg]]
Quadrs == [op : Handlers, res : Vars \cup {NoVar}, args : SUBSET Vars,
           after : SUBSET Vars, todo : SUBSET Vars, dst : Regs,
           opnd : [Vars -> Locs]]

Steps == {"quadr", "load", "result", "update", "emit", "call", "save",
          "leave", "returned", "abort", "undefined"}
-----------------------------------------------------------------------------
(***************************************************************************)
(* Operators of the tracker.  Each takes tables d; one that may choose     *)
(* where a value goes returns the set of the tables it can produce.        *)
(***************************************************************************)

FreeRegs(d) == {r \in Regs : d.list[r] = {}}
FreeSlots(d) == {s \in Slots : d.list[s] = {}}

(* std_find_best_src_loc: a register, else a constant, else a slot. *)
BestSrc(d, v) ==
  IF d.loc[v] \cap Regs # {} THEN d.loc[v] \cap Regs
  ELSE IF d.loc[v] \cap Consts # {} THEN d.loc[v] \cap Consts
  ELSE d.loc[v]

(* gen_mov + update_var_loc: each v of DOMAIN f is copied from src[v] into *)
(* the free place f[v]. *)
Copies(d, f, src) ==
  [loc   |-> [v \in Vars |-> d.loc[v] \cup {p \in Places : v \in DOMAIN f /\ f[v] = p}],
   list  |-> [p \in Places |-> d.list[p] \cup {v \in DOMAIN f : f[v] = p}],
   holds |-> [l \in Locs |->
                IF \E v \in DOMAIN f : f[v] = l
                THEN UNION {d.holds[src[v]] : v \in {u \in DOMAIN f : f[u] = l}}
                ELSE d.holds[l]]]

(* The source each variable of S is copied from when it is saved. *)
Sources(d, S) ==
  {src \in [S -> UNION {BestSrc(d, v) : v \in S}] : \A v \in S : src[v] \in BestSrc(d, v)}

(* save_var for every v of S, into distinct free places of P. *)
Saved(d, S, P) ==
  {Copies(d, f, src) : f \in Injection(S, P), src \in Sources(d, S)}

(* A variant of Erase that empties the list and keeps the locations. *)
EraseListOnly(d, p) == [d EXCEPT !.list[p] = {}]

(* loc_erase_reg / loc_erase_stack for the whole list of p. *)
Erase(d, p) ==
  [d EXCEPT !.loc = [v \in Vars |-> d.loc[v] \ (IF v \in d.list[p] THEN {p} ELSE {})],
            !.list[p] = {}]

(* should_save_var: a live variable with no valid location besides l. *)
ShouldSave(d, v, l, alive) == v \in alive /\ d.loc[v] \subseteq {l}

(* free_reg with the variables of alive marked live: the ones that are     *)
(* nowhere else go to another register or to the stack. *)
FreeReg(d, r, alive) ==
  {Erase(e, r) : e \in Saved(d, {v \in d.list[r] : ShouldSave(d, v, r, alive)},
                             FreeRegs(d) \cup FreeSlots(d))}

(* do_bellady_ra: a free register; else one whose variables are all in     *)
(* another register too; else any (the second pass looks at the distance   *)
(* of the next use only). *)
Victims(d) ==
  LET redundant == {r \in Regs : \A v \in d.list[r] : Cardinality(d.loc[v] \cap Regs) # 1}
  IN IF FreeRegs(d) # {} THEN FreeRegs(d)
     ELSE IF redundant # {} THEN redundant
     ELSE Regs

(* The assertions of its first pass, made when no register is free: some   *)
(* register holds no operand of the current quadruple that is in this      *)
(* register only, and a variable of a list scanned is in a register.       *)
HoldsOperand(d, r, used) == \E v \in d.list[r] \cap used : d.loc[v] \cap Regs = {r}
AllocAborts(d, used) ==
  LET eligible == {r \in Regs : ~HoldsOperand(d, r, used)}
  IN /\ FreeRegs(d) = {}
     /\ \/ eligible = {}
        \/ \E r \in eligible : \E v \in d.list[r] : d.loc[v] \cap Regs = {}

(* alloc_reg: the register chosen and the tables after it is freed. *)
AllocReg(d, alive, used) ==
  IF AllocAborts(d, used) THEN {}
  ELSE UNION {{<<r, e>> : e \in FreeReg(d, r, alive)} : r \in Victims(d)}

(* move_to_reg for a variable that is in no register. *)
MoveToReg(d, v, alive, used) ==
  UNION {Saved(re[2], {v}, {re[1]}) : re \in AllocReg(d, alive, used)}

(* discard_var for every variable of D: only the lists of known locations  *)
(* are visited. *)
Discard(d, D) ==
  [d EXCEPT !.loc = [v \in Vars |-> IF v \in D THEN {} ELSE d.loc[v]],
            !.list = [p \in Places |-> {v \in d.list[p] : v \in D => p \notin d.loc[v]}]]

(* discard_var + update_var_loc for an instruction that writes v into the  *)
(* place p; the value itself arrives when the instruction runs. *)
SetTo(d, v, p) ==
  [d EXCEPT !.loc[v] = @ \cup {p}, !.list[p] = @ \cup {v}]

(* The instruction runs: p holds the new value of v, every other place an  *)
(* old one. *)
Store(d, v, p) ==
  [d EXCEPT !.holds = [l \in Locs |-> IF l = p THEN {v} \cap Vars ELSE d.holds[l] \ {v}]]

(* Between quadruples only what the tables say can be read back: of the    *)
(* ghost, the values at recorded locations are kept. *)
Settle(d) == [d EXCEPT !.holds = [l \in Locs |-> {v \in d.holds[l] : l \in d.loc[v]}]]

(* free_all: every register is denied, so that a live variable that is     *)
(* only in registers goes to the stack; then all lists are emptied. *)
FreeAll(d, alive) ==
  LET S == {v \in alive : d.loc[v] # {} /\ d.loc[v] \subseteq Regs}
      drop(e) == [e EXCEPT !.loc = [v \in Vars |-> e.loc[v] \ Regs],
                           !.list = [p \in Places |-> IF p \in Regs THEN {} ELSE e.list[p]]]
  IN {drop(e) : e \in Saved(d, S, FreeSlots(d))}
-----------------------------------------------------------------------------
(***************************************************************************)
(* Quadruples.  live is what is live before the quadruple; the liveness    *)
(* marks of gencode_for_block give what is live after it.                  *)
(***************************************************************************)

Afters(args, res) == {A \in SUBSET Vars : (A \ {res}) \cup args = live}

(* A temporary holds the result of a call unless copies are propagated     *)
(* backwards, and a temporary is assigned once. *)
MayReceiveCall(v) ==
  v # NoVar /\ ~CallInPlace => m.loc[v] = {} /\ \A p \in Places : v \notin m.list[p]

Begin(op, res, args, A, step) ==
  /\ pc = "quadr"
  /\ args \subseteq live
  /\ A \in Afters(args, res)
  /\ cur' = IF step = "quadr" THEN NoQuadr
            ELSE [NoQuadr EXCEPT !.op = op, !.res = res, !.args = args,
                                 !.after = A, !.todo = args]
  /\ pc' = step

(* copy_to_var(x, w): x gets all locations of w; no code is generated. *)
Aliased(d, x, w) ==
  [loc   |-> [d.loc EXCEPT ![x] = d.loc[w]],
   list  |-> [p \in Places |-> d.list[p] \cup (IF p \in d.loc[w] THEN {x} ELSE {})],
   holds |-> [l \in Locs |-> (d.holds[l] \ {x}) \cup (IF w \in d.holds[l] THEN {x} ELSE {})]]

(* update_var_loc asserts that a variable already in a list has the        *)
(* location. *)
UpdateAborts(d, v, L) == \E p \in L \cap Places : v \in d.list[p] /\ p \notin d.loc[v]

CopyVar(x, w, A) ==
  LET d == Discard(m, {x})
  IN /\ x \in A
     /\ x = w => SelfCopy
     /\ Begin("copy", x, {w}, A, IF UpdateAborts(d, x, d.loc[w]) THEN "abort" ELSE "quadr")
     /\ m' = Settle(Discard(IF x = w THEN d ELSE Aliased(d, x, w), {w} \ A))
     /\ live' = A
     /\ UNCHANGED <<pending, entry>>

CopyConst(x, c, A) ==
  LET d == Discard(m, {x})
  IN /\ x \in A
     /\ Begin("copy", x, {}, A, "quadr")
     /\ m' = Settle([d EXCEPT !.loc[x] = {c},
                              !.holds = [l \in Locs |->
                                (d.holds[l] \ {x}) \cup (IF l = c THEN {x} ELSE {})]])
     /\ live' = A
     /\ UNCHANGED <<pending, entry>>

(* A quadruple whose result is dead generates nothing. *)
DeadResult(x, args, A) ==
  /\ x \notin A
  /\ Begin("copy", x, args, A, "quadr")
  /\ m' = Settle(Discard(m, {x} \cup (args \ A)))
  /\ live' = A
  /\ UNCHANGED <<pending, entry>>

StartArith(x, args, A) ==
  /\ x \in A
  /\ args # {}
  /\ Begin("arith", x, args, A, "load")
  /\ UNCHANGED <<m, live, pending, entry>>

StartIf(args, A) ==
  /\ args # {}
  /\ Begin("if", NoVar, args, A, "load")
  /\ pending' = A
  /\ UNCHANGED <<m, live, entry>>

StartGoto ==
  /\ Begin("goto", NoVar, {}, live, "save")
  /\ pending' = live
  /\ UNCHANGED <<m, live, entry>>

(* The PARAM quadruples and their CALL.  A result that is dead is still    *)
(* given the return register. *)
StartCall(x, args, A) ==
  /\ MayReceiveCall(x)
  /\ Begin("call", x, args, A, IF args = {} THEN "call" ELSE "load")
  /\ UNCHANGED <<m, live, pending, entry>>

StartPrint(v, A) ==
  /\ Begin("print", NoVar, {v}, A, "load")
  /\ UNCHANGED <<m, live, pending, entry>>

StartRead(x, A) ==
  /\ MayReceiveCall(x)
  /\ Begin("read", x, {}, A, "result")
  /\ UNCHANGED <<m, live, pending, entry>>

StartReturn(v) ==
  /\ Begin("return", NoVar, {v}, {}, "load")
  /\ UNCHANGED <<m, live, pending, entry>>
-----------------------------------------------------------------------------
(***************************************************************************)
(* gen_code and gen_call.                                                  *)
(***************************************************************************)

Dying == cur.args \ cur.after

(* A variant that leaves dying operands dead while operands are loaded. *)
AliveAfterOnly == cur.after

(* The live fields while operands are loaded: gen_code marks the operands  *)
(* live and the result dead, gen_call changes nothing. *)
AliveDuringLoad ==
  CASE cur.op = "arith" -> (cur.after \ {cur.res}) \cup cur.args
    [] cur.op \in {"if", "return"} -> cur.after \cup cur.args
    [] OTHER -> cur.after

(* used_in_quadr: the PARAM operands are not operands of the CALL. *)
Used == IF cur.op \in {"call", "print"} THEN {} ELSE cur.args

(* move_to_reg_if_sensible: an operand that stays live is brought into a   *)
(* free register. *)
Prefetch(v) ==
  /\ pc = "load" /\ cur.op \in {"arith", "if"} /\ cur.todo = cur.args
  /\ v \in cur.args \cap cur.after
  /\ m.loc[v] \subseteq Slots
  /\ FreeRegs(m) # {}
  /\ m' \in MoveToReg(m, v, AliveDuringLoad, Used)
  /\ UNCHANGED <<live, pc, cur, pending, entry>>

AfterLoad ==
  CASE cur.op = "if" -> "save" [] cur.op = "call" -> "call" [] OTHER -> "result"

(* A variant that brings constants into registers too. *)
LoadConstToo(v) ==
  /\ pc = "load"
  /\ v \in cur.todo
  /\ cur.op \in {"call", "print"} => m.loc[v] # {}
  /\ IF m.loc[v] \cap Regs = {}
     THEN m' \in MoveToReg(m, v, AliveDuringLoad, Used)
     ELSE m' = m
  /\ cur' = [cur EXCEPT !.todo = @ \ {v}]
  /\ pc' = IF cur.todo = {v} THEN AfterLoad ELSE "load"
  /\ UNCHANGED <<live, pending, entry>>

LoadArg(v) ==
  /\ pc = "load"
  /\ v \in cur.todo
  /\ cur.op \in {"call", "print"} => m.loc[v] # {}
  /\ IF m.loc[v] \subseteq Slots
     THEN m' \in MoveToReg(m, v, AliveDuringLoad, Used)
     ELSE m' = m
  /\ cur' = [cur EXCEPT !.todo = @ \ {v}]
  /\ pc' = IF cur.todo = {v} THEN AfterLoad ELSE "load"
  /\ UNCHANGED <<live, pending, entry>>

(* gen_call reads the tag of the first location of an argument that has    *)
(* none. *)
LoadLostArg(v) ==
  /\ pc = "load" /\ cur.op \in {"call", "print"}
  /\ v \in cur.todo
  /\ m.loc[v] = {}
  /\ pc' = "undefined"
  /\ UNCHANGED <<m, live, cur, pending, entry>>

(* The register of the result: one of a variable's own (the result's, or,  *)
(* if it has no location, that of a dying operand: the second one's if     *)
(* both die), or a new one. *)
ResultOwners == IF m.loc[cur.res] # {} THEN {cur.res} ELSE Dying
NeedsReg == ResultOwners = {} \/ \E v \in ResultOwners : m.loc[v] \cap Regs = {}
ResultRegs ==
  {<<r, m>> : r \in Regs \cap UNION {m.loc[v] : v \in ResultOwners}}
    \cup (IF NeedsReg THEN AllocReg(m, AliveDuringLoad, Used) ELSE {})

(* A register is needed for an operand or for the result and the allocator *)
(* asserts. *)
AllocAbort ==
  /\ \/ pc = "load" /\ \E v \in cur.todo : m.loc[v] # {} /\ m.loc[v] \subseteq Slots
     \/ pc = "result" /\ cur.op \in {"arith", "read"} /\ NeedsReg
  /\ AllocAborts(m, Used)
  /\ pc' = "abort"
  /\ UNCHANGED <<m, live, cur, pending, entry>>

ChooseResult ==
  /\ pc = "result" /\ cur.op = "arith"
  /\ \E re \in ResultRegs :
       /\ m' = re[2]
       /\ \E src \in Sources(re[2], cur.args) :
            cur' = [cur EXCEPT !.dst = re[1],
                               !.opnd = [v \in Vars |-> IF v \in cur.args THEN src[v] ELSE RetReg]]
  /\ pc' = "update"
  /\ UNCHANGED <<live, pending, entry>>

(* A variant that keeps the old locations of the result. *)
UpdateWithoutDiscard ==
  /\ pc = "update"
  /\ \E e \in FreeReg(Discard(m, Dying), cur.dst, cur.after \ {cur.res}) :
       m' = SetTo(e, cur.res, cur.dst)
  /\ pc' = "emit"
  /\ UNCHANGED <<live, cur, pending, entry>>

(* The macro update_locations of quadr_backend.c. *)
UpdateLocations ==
  /\ pc = "update"
  /\ \E e \in FreeReg(Discard(m, {cur.res} \cup Dying), cur.dst, cur.after \ {cur.res}) :
       m' = SetTo(e, cur.res, cur.dst)
  /\ pc' = "emit"
  /\ UNCHANGED <<live, cur, pending, entry>>

Emit ==
  /\ pc = "emit"
  /\ m' = Settle(Store(m, cur.res, cur.dst))
  /\ live' = cur.after
  /\ pc' = "quadr"
  /\ cur' = NoQuadr
  /\ UNCHANGED <<pending, entry>>

(* free_all, the call, and the result in RetReg.  The callee may write     *)
(* every register. *)
DoCall ==
  /\ pc = "call"
  /\ \E e \in FreeAll(m, cur.after) :
       LET d == [e EXCEPT !.holds = [l \in Locs |-> IF l \in Regs THEN {} ELSE e.holds[l]]]
       IN m' = Settle(IF cur.res = NoVar THEN d
                      ELSE SetTo(Store(d, cur.res, RetReg), cur.res, RetReg))
  /\ live' = cur.after
  /\ pc' = "quadr"
  /\ cur' = NoQuadr
  /\ UNCHANGED <<pending, entry>>

(* printInt: dying arguments are discarded.  readInt: the result is       *)
(* written into a register of its own or a new one, and nothing is flushed.*)
PrintValue ==
  /\ pc = "result" /\ cur.op = "print"
  /\ m' = Settle(Discard(m, Dying))
  /\ live' = cur.after
  /\ pc' = "quadr"
  /\ cur' = NoQuadr
  /\ UNCHANGED <<pending, entry>>

ReadValue ==
  /\ pc = "result" /\ cur.op = "read"
  /\ \E re \in ResultRegs :
       m' = Settle(Store(SetTo(Discard(re[2], {cur.res}), cur.res, re[1]), cur.res, re[1]))
  /\ live' = cur.after
  /\ pc' = "quadr"
  /\ cur' = NoQuadr
  /\ UNCHANGED <<pending, entry>>

(* A variant that is content with any register. *)
ReturnFromAnyReg ==
  /\ pc = "result" /\ cur.op = "return"
  /\ \E v \in cur.args :
       IF m.loc[v] \cap Regs # {} THEN m' = m
       ELSE \E e \in FreeReg(m, RetReg, cur.args) : m' \in Saved(e, {v}, {RetReg})
  /\ pc' = "returned"
  /\ UNCHANGED <<live, cur, pending, entry>>

(* save_var_to_loc for the return register. *)
ReturnValue ==
  /\ pc = "result" /\ cur.op = "return"
  /\ \E v \in cur.args :
       IF v \in m.list[RetReg] THEN m' = m
       ELSE \E e \in FreeReg(m, RetReg, cur.args) : m' \in Saved(e, {v}, {RetReg})
  /\ pc' = "returned"
  /\ UNCHANGED <<live, cur, pending, entry>>
-----------------------------------------------------------------------------
(***************************************************************************)
(* The end of a block: save_live, and the start of the child.              *)
(***************************************************************************)

Refs(d, l) == IF l \in Consts THEN 1 ELSE Cardinality(d.list[l])

(* A variant off by one: a location shared with one variable counts. *)
NearlyOwnLocs(d, v) == {l \in d.loc[v] : Refs(d, l) <= 2}

(* ensure_unique when some location is the variable's own: the shared ones *)
(* are dropped. *)
OwnLocs(d, v) == {l \in d.loc[v] : Refs(d, l) = 1}
KeepOwn(d, v) ==
  [d EXCEPT !.loc[v] = OwnLocs(d, v),
            !.list = [p \in Places |-> IF p \in d.loc[v] \ OwnLocs(d, v)
                                       THEN d.list[p] \ {v} ELSE d.list[p]]]

(* The shared location ensure_unique chooses: least shared, a register     *)
(* before a slot. *)
LeastShared(d, v) ==
  LET least == {l \in d.loc[v] : \A k \in d.loc[v] : Refs(d, l) <= Refs(d, k)}
  IN IF least \cap Regs # {} THEN least \cap Regs ELSE least

(* ensure_unique_for_var: v keeps l only (its entries in other lists stay) *)
(* and the other variables of l leave it.  Those that are nowhere else are *)
(* saved; but for a slot save_var uses a register, if it sees fit, or      *)
(* finds the slot itself and moves nothing (nor does it on a build where a *)
(* pointer does not fit the int of FILL_SLOC), so that some are lost. *)
TakeOver(d, v, l, alive) ==
  LET e == [d EXCEPT !.loc[v] = {l}]
      others == {u \in d.list[l] \ {v} : ShouldSave(d, u, l, alive)}
      moved == IF l \in Regs THEN Saved(e, others, FreeRegs(d) \cup FreeSlots(d))
               ELSE UNION {Saved(e, S, FreeRegs(d)) : S \in SUBSET others}
  IN {[Erase(f, l) EXCEPT !.loc[v] = {l}, !.list[l] = {v}] : f \in moved}

EnsureUnique(d, v, alive) ==
  IF OwnLocs(d, v) # {} THEN {KeepOwn(d, v)}
  ELSE UNION {TakeOver(d, v, l, alive) : l \in LeastShared(d, v)}

(* Variants that take a register without asking whether it is free, and    *)
(* that remember the constant. *)
PlacedAnywhere(d, v) ==
  LET d1 == IF d.loc[v] \subseteq Consts THEN Saved(d, {v}, Regs) ELSE {d}
  IN {[e EXCEPT !.loc[v] = @ \ Consts] : e \in d1}
PlacedWithConst(d, v) ==
  IF d.loc[v] \subseteq Consts THEN Saved(d, {v}, FreeRegs(d) \cup FreeSlots(d)) ELSE {d}

(* update_child_vars, the child visited for the first time: a constant is  *)
(* put into a place, then forgotten. *)
Placed(d, v) ==
  LET d1 == IF d.loc[v] \subseteq Consts
            THEN Saved(d, {v}, FreeRegs(d) \cup FreeSlots(d)) ELSE {d}
  IN {[e EXCEPT !.loc[v] = @ \ Consts] : e \in d1}

(* save_var_at_block_end, for the child that has no location of v yet.     *)
(* block_var_hint, which after GOTO and RETURN may suggest the place to a  *)
(* block that this one does not lead to, is left out, and so is a child    *)
(* that was given such a hint before. *)
SaveVarAtBlockEnd(v) ==
  /\ pc = "save"
  /\ v \in pending
  /\ m.loc[v] # {}
  /\ \E e \in EnsureUnique(m, v, cur.after \cup cur.args) :
     \E f \in Placed(e, v) :
       /\ m' = f
       /\ entry' = [entry EXCEPT ![v] = f.loc[v]]
  /\ pending' = pending \ {v}
  /\ UNCHANGED <<live, pc, cur>>

(* ensure_unique asserts that there is a location. *)
SaveLostVar(v) ==
  /\ pc = "save"
  /\ v \in pending
  /\ m.loc[v] = {}
  /\ pc' = "abort"
  /\ UNCHANGED <<m, live, cur, pending, entry>>

(* The jump is written, dying operands and then all variables of           *)
(* live_at_end are discarded. *)
Branch ==
  /\ pc = "save" /\ pending = {}
  /\ \A v \in cur.args : m.loc[v] # {}
  /\ m' = Discard(m, cur.after \cup cur.args)
  /\ pc' = "leave"
  /\ UNCHANGED <<live, cur, pending, entry>>

(* An operand of the comparison has no location left. *)
BranchLostArg ==
  /\ pc = "save" /\ pending = {}
  /\ \E v \in cur.args : m.loc[v] = {}
  /\ pc' = "undefined"
  /\ UNCHANGED <<m, live, cur, pending, entry>>

(* init_descr: what is live in the child is where the parent left it. *)
NextBlock(L) ==
  /\ pc = "leave"
  /\ L \subseteq cur.after
  /\ m' = Settle([m EXCEPT !.loc = [v \in Vars |-> IF v \in L THEN entry[v] ELSE m.loc[v]],
                           !.list = [p \in Places |-> m.list[p] \cup {v \in L : p \in entry[v]}]])
  /\ pc' = IF \E v \in L : UpdateAborts(m, v, entry[v]) THEN "abort" ELSE "quadr"
  /\ live' = L
  /\ cur' = NoQuadr
  /\ entry' = [v \in Vars |-> {}]
  /\ UNCHANGED pending
-----------------------------------------------------------------------------
(* gencode, start_func: parameters are in stack elements of their own. *)
Init ==
  /\ \E P \in SUBSET Vars :
     \E f \in Injection(P, Slots) :
       /\ live = P
       /\ m = [loc   |-> [v \in Vars |-> {s \in Slots : v \in P /\ f[v] = s}],
               list  |-> [p \in Places |-> {v \in P : f[v] = p}],
               holds |-> [l \in Locs |-> {v \in P : f[v] = l}]]
  /\ pc = "quadr"
  /\ cur = NoQuadr
  /\ pending = {}
  /\ entry = [v \in Vars |-> {}]

(* The function is finished, the compiler stopped, or the bound on stack   *)
(* elements is reached. *)
Halted ==
  /\ \/ pc \in {"returned", "abort", "undefined"}
     \/ Cardinality(FreeSlots(m)) < Cardinality(Vars)
  /\ UNCHANGED vars

StartQuadr ==
  \/ \E x \in Vars, A \in SUBSET Vars :
       \/ \E w \in Vars : CopyVar(x, w, A)
       \/ \E c \in Consts : CopyConst(x, c, A)
       \/ \E a, b \in Vars : DeadResult(x, {a, b}, A) \/ StartArith(x, {a, b}, A)
  \/ \E A \in SUBSET Vars, a, b \in Vars : StartIf({a, b}, A)
  \/ StartGoto
  \/ \E x \in Vars \cup {NoVar}, args \in SUBSET Vars, A \in SUBSET Vars : StartCall(x, args, A)
  \/ \E v \in Vars, A \in SUBSET Vars : StartPrint(v, A) \/ StartRead(v, A)
  \/ \E v \in Vars : StartReturn(v)

Next ==
  \/ StartQuadr
  \/ \E v \in Vars : Prefetch(v) \/ LoadArg(v) \/ LoadLostArg(v)
  \/ AllocAbort \/ ChooseResult \/ UpdateLocations \/ Emit
  \/ DoCall \/ PrintValue \/ ReadValue \/ ReturnValue
  \/ \E v \in Vars : SaveVarAtBlockEnd(v) \/ SaveLostVar(v)
  \/ Branch \/ BranchLostArg
  \/ \E L \in SUBSET Vars : NextBlock(L)
  \/ Halted

Spec == Init /\ [][Next]_vars
-----------------------------------------------------------------------------
(* The state of the tables is well formed. *)
TypeOK ==
  /\ m \in Machines
  /\ live \in SUBSET Vars
  /\ pc \in Steps
  /\ cur \in Quadrs
  /\ pending \in SUBSET Vars
  /\ entry \in [Vars -> SUBSET Places]

(* gencode_invariant, which the code asserts around every operation: a     *)
(* location of a variable has the variable in its list. *)
LocListed == \A v \in Vars : \A p \in m.loc[v] \cap Places : v \in m.list[p]

(* The tables never lie: a location recorded for a variable holds the      *)
(* variable's current value, whatever was moved, shared, evicted or        *)
(* overwritten since it was recorded.  (Between update_var_loc and the     *)
(* instruction itself the result is still on its way.) *)
DescSound ==
  \A v \in Vars : \A l \in m.loc[v] :
    v \in m.holds[l] \/ (pc = "emit" /\ v = cur.res /\ l = cur.dst)

(* Which variables must have a location in the current step. *)
MustBeLocated ==
  CASE pc = "quadr" -> live
    [] pc \in {"load", "call", "result"} ->
         (cur.after \ {cur.res}) \cup (IF cur.op \in {"arith", "if", "return"} THEN cur.args ELSE {})
    [] pc = "emit" -> cur.after
    [] OTHER -> {}

(* No live variable is ever left without a location while quadruples are   *)
(* translated (gencode.h: all live variables have at least one valid       *)
(* location): evictions, flushes and calls save what only they hold. *)
LiveLocated == \A v \in MustBeLocated : m.loc[v] # {}

(* A variable known to be a constant has no other location.  discard_const *)
(* relies on it: if the constant were first in the list and a place after  *)
(* it, its pointer prev would be read before it is set. *)
ConstAlone ==
  pc # "returned" =>
    \A v \in Vars : m.loc[v] \cap Consts # {} => m.loc[v] \subseteq Consts

(* save_live leaves each variable live at the end of the block alone in    *)
(* each of its locations, so that the recorded locations of the child do   *)
(* not overlap. *)
UniqueAtEnd ==
  (pc = "save" /\ pending = {}) =>
    \A v \in cur.after : \A l \in m.loc[v] : m.list[l] = {v}

(* What is recorded for the child when a variable is saved is still true   *)
(* when the jump is written, after all the other variables were saved. *)
EntryAgrees ==
  pc = "leave" => \A v \in cur.after : entry[v] # {} /\ \A l \in entry[v] : v \in m.holds[l]

(* RETURN: the register the caller reads holds the value. *)
ReturnedInPlace ==
  pc = "returned" => \A v \in cur.args : v \in m.holds[RetReg]

(* gencode.h: it is necessary, when calling any function that may erase a  *)
(* location of a variable used in the current quadruple, to set all        *)
(* arguments live.  When the instruction runs, each operand still is in    *)
(* the place the instruction reads, whatever update_locations moved. *)
OperandsIntact ==
  pc = "emit" => \A v \in cur.args : v \in m.holds[cur.opnd[v]]

(* gencode.h: all live variables have at least one valid location; while   *)
(* save_live makes the variables unique one after the other, each one not  *)
(* yet visited still has a location.  It does not hold: a stack element    *)
(* two of them share is taken from the other when the first is made unique.*)
PendingLocated == pc = "save" => \A v \in pending : m.loc[v] # {}
=============================================================================
