# Verification of the Javalette compiler `jl`

TLA+ modules that model the core of the compiler in `src/`, TLC
configurations that check them on small instances, and proofs that TLAPS
checks for every instance. The numbers after file names are lines of the
source at the commit modelled; paths are relative to `src/`.

Contents: [the system](#1-the-system) · [modules](#2-modules) ·
[runs](#3-runs-and-what-they-show) · [proofs](#4-proofs) ·
[findings](#5-where-the-code-and-its-comments-differ) ·
[what is not modelled](#6-what-is-not-modelled-and-why) · [plan](#7-plan)

## 1. The system

`jl` compiles Javalette, a small imperative language, to i386 assembly. It is
one sequential process that runs its passes once, in a fixed order:

```
 scan.lex / parse.y ──tree──▶ tree.c  semantic_check()      (symtab, types, scopes)
                                │ emits quadruples as it checks
                                ▼
                             quadr.c  basic blocks of each function
                                │
               opt.cpp  optimize_local(), optimize_local_2()   (-O1, per block)
                                │
               flow.c   create_block_graph(), analyze_flow()   (per function)
                                │ var_descr_t trees (rbtree.c): liveness, next use
                                ▼
               gencode.c  gencode() ◀── calls ──▶ backend (i386 or quadruples)
                                │ where every variable is
                                ▼
               outbuf.c → peephole.c → file → nasm, ld
```

There is no concurrency and nothing survives the process. What is hard in it is
of another kind:

* **tables that describe something else** - the code generator knows where a
  value is only from its own lists, which it changes in pairs (variable →
  locations, location → variables) while other code holds pointers into them;
* **order inside an operation** - a variable's places are dropped before or
  after something else is saved, and the instruction is written last;
* **rewriting in place** - the optimiser renames variables with loops that stop
  at conditions of their own; a red-black tree is repaired without parent
  pointers while the stack of ancestors is patched by hand;
* **fixpoints** - the liveness analysis and the dead-assignment pass repeat
  until a flag stays down: too early loses values, too late never ends;
* **bounds** - an array of ancestors sized from the black-height, tables that
  grow by doubling, counters of 16 bits.

### Components

| component | state it keeps | operations | what makes it correct |
|---|---|---|---|
| location tracker (`gencode.c`) | `var->loc`, `regs[]`, `stack_elem->vars`, `var->live`, the child's `vars_at_start` | `alloc_reg`, `free_reg`, `free_all`, `move_to_reg`, `save_var_to_loc`, `copy_to_var`, `discard_var`, `update_var_loc`, `save_live`, `init_descr` | recorded places hold the recorded values; no live value is lost; blocks agree at their border |
| quadruple backend (`quadr_backend.c`) | none of its own | `gen_code`, `gen_call` as clients of the tracker | operands are where the instruction reads them; liveness marks are set before anything is evicted |
| i386 backend (`i386_backend.c`, FPU part of `gencode.c`) | `fpu_regs[]`, `fpu_initialised`; the x87 unit of the generated code | `gen_fpu_arithmetic_op`, `gen_fpu_cmp`, `gen_call`, `fpu_load`, `fpu_pop`, `swap_fpu_regs`, `free_all_fpu_regs` | the tables and the unit's stack stay turned alike; operands are where they are read; no push onto a full register |
| flow analysis (`flow.c`) | block graph, `live_def`, `vars_at_start`, `live_at_end`, visit marks | scan of a block, depth-first traversals | sets are the least fixpoint; ends; agrees with the second scan in `gencode.c` |
| red-black trees (`rbtree.c`) | nodes, root, black-height, ancestor stack | search, insert, delete, min, join, clear | ordered bag; balanced; the stack never overflows |
| copy optimisation (`opt.cpp`, second half) | a block's quadruples | redundant copies, dead assignments, propagation backwards and forwards | the block keeps its meaning; ends |
| expression graph (`opt.cpp`, first half) | DAG of a block, keys made of node ids | build, simplify, regenerate | the block keeps its meaning; one node per expression, though ids are given out again |
| quadruple generator (`quadr.c`) | block list, current block, labels | `add_basic_blocks`, `gen_*` | blocks end where control leaves them; labels are live blocks |
| semantic checker (`tree.c`, `symtab.c`, `types.c`) | stack of scopes, chain of declarations per symbol, `decls` | `push_scope`, `pop_scope`, `declare`, `add_sym` | a name means its innermost declaration; tables do not overflow |
| memory (`mem.c`) | pools with free lists, hash table of strings | `palloc`, `pfree`, `add_str` | no object handed out twice or lost; equal strings are one symbol |
| output buffer, peephole, driver, flags, utilities | text | | |
| lexer, parser, run-time library | generated, or assembly | | |

They interact by direct calls, by callbacks (the backend's function table) and
by shared structures: `flow.c` writes `vars_at_start` and `live_at_end`, which
`gencode.c` reads and completes; the backend changes the tracker's tables
through its API between two reads of its own.

## 2. Modules

| module | models | role |
|---|---|---|
| `GenLoc` | `gencode.c` with `quadr_backend.c` | the core: tracker and its client composed in one state machine |
| `GenLocProofs` | | inductive invariants and theorems of `GenLoc`: that what is recorded is true, that no live variable is lost, constants stand alone and RETURN finds the value it leaves behind |
| `OrderedBag` | what `rbtree.h` promises | abstract specification: two bags, calls that take effect once |
| `RbTree` | `rbtree.c` | detailed specification, refines `OrderedBag` |
| `RbTreeProofs` | | inductive invariant and theorems of `RbTree` |
| `Liveness` | `flow.c`, and the second scan in `gencode_for_block` | analysis of one function |
| `LivenessProofs` | | that the data-flow equations are solved when it stops, and that their solution is what the program does |
| `Quadruples` | `quadr.h`, and what a quadruple means | operators: constant folding as in the code, and the reference `Meaning` of a block |
| `ExprGraph` | `optimize_local` of `opt.cpp` | the graph of a block's expressions |
| `CopyOpt` | `optimize_local_2` of `opt.cpp` | passes over one block |
| `CopyOptProofs` | | that these passes keep what a block computes |
| `LocalOpt` | `perform_local_optimizations` | composes `ExprGraph` and `CopyOpt` |
| `LocalOptProofs` | | that the graph has one node per expression and that graph and copy passes together keep what a block computes |
| `BasicBlocks` | `quadr.c` with the statements of `tree.c` | how a function is cut into blocks |
| `Pool`, `StrTab` | `pool_t`, `strtab_t` of `mem.c` | state and operations of the two stores |
| `Allocator`, `Environment` | what the users of pools and of scopes rely on | abstract specifications |
| `Scopes` | `tree.c` (declarations, scopes), `symtab.c` | composes `Pool` and `StrTab`; refines `Environment` and `Allocator` |
| `ScopesProofs` | | inductive invariants and theorems of `Scopes` and `Pool` |
| `DeclsProofs` | | that a name has one symbol, that `decls` and the chains agree, and the refinement of `Environment` |
| `FpuStack` | the FPU functions of `gencode.c`, and the x87 unit | tables and unit as one value, with the operations on both |
| `Fpu` | `i386_backend.c` on doubles | the second client of the tracker, one action per quadruple |
| `Induction` | | induction and recursion over intervals and ranks, as lemmas the other proofs cite |
| `MCGenLoc`, `MCRbTree`, `MCLiveness`, `MCLocalOpt`, `MCBasicBlocks`, `MCScopes`, `MCFpu` | | instances for TLC |

### GenLoc

State. `m.loc[v]` is `var->loc` as a set; `m.list[p]` is the list of variables
of a register or stack element; `live` is `var->live`; `entry[v]` is `vd->loc`
in the child's `vars_at_start`. `m.holds[l]` is a **ghost**: the variables whose
current value the generated code has really put into `l`. No guard reads it; the
properties compare the tables with it. `cur` holds the quadruple at hand
and the handler's locals, `pc` the point inside the handler.

Actions. `CopyVar`, `CopyConst`, `DeadResult`, `StartArith`, `StartIf`,
`StartGoto`, `StartCall`, `StartPrint`, `StartRead`, `StartReturn` are the cases
of `gen_code`; `Prefetch` and `LoadArg` are the loading of operands (each may
evict others), `ChooseResult`, `UpdateLocations` and `Emit` the choice of the
result register, the macro `update_locations` and the instruction;
`DoCall`, `PrintValue`, `ReadValue`, `ReturnValue` the parts of `gen_call` and
RETURN; `SaveVarAtBlockEnd`, `Branch` and `NextBlock` are `save_live` for one
variable, the jump, and `init_descr` of the child. What the code asserts or
leaves undefined is a state of its own: `abort` (an assertion fails:
`AllocAbort`, `SaveLostVar`) and `undefined` (the first location of an empty
list is read: `LoadLostArg`, `BranchLostArg`).

The program is chosen by TLC: any quadruple whose operands are live may come
next, and the set live after it is any set the liveness marks allow
(`Afters`). So a behaviour is one path through a function, of any length.

Abstractions, each of which allows more behaviours than the code: lists are
sets; a free place is any free place (the code takes the first); the victim of
`do_bellady_ra` is any that its second pass may choose; on a build where a
pointer does not fit the `int` of `FILL_SLOC`, `save_var` may or may not move a
variable of a shared stack element (`TakeOver`). One class of registers;
arrays and other permanent locations, `READ_PTR`/`WRITE_PTR`/`GET_ADDR`, the FPU
and the second visit of a child that already has code are left out. So is
`block_var_hint` (`gencode.c:602`): after GOTO and RETURN it suggests the variable's place to
the block that follows in the text, to which this one need not lead; the model's child has been given no
location before its parent ends.

Two constants describe the program that is compiled: `CallInPlace` (a call's
result goes into a variable that already has a place: only after
`copy_backpropagation`, `-O1`) and `SelfCopy` (`x = x;` reaches the generator:
only at `-O0`). Both are FALSE in the runs; what happens when one is TRUE is in section 5.

### RbTree and OrderedBag

A step is one iteration of a loop of `rbtree.c`: `Descend`, `DoInsert`,
`InsertRecolor`/`InsertRotate`/`InsertDone` (`rb_insert_fixup`), `FindVictim`,
`Successor`, `Unlink`, `DeleteRecolor`/`DeleteLift`/`DeleteRotate`/`DeleteDone`
(`rb_delete_fixup`), `GoLeft`, `Minimum`, `Clear`, `JoinTrivial`,
`JoinStart`, `JoinDescend`, `JoinLink` (`rb_join`, whose `black_height` is `bh`). `Call` is the
user, `Swap` the user turning to the other tree: it stands for no code. The cases that the code writes
twice with left and right exchanged take the side as a parameter. The
stack of ancestors, its size and its growth are explicit, since the two
comments "now the stack is corrupted" and "we can always do this"
(`rbtree.c:247`, `:248`) are claims about them.

`OrderedBag` has three steps per call: it begins, takes effect once, returns the
result that fits the bag found. The refinement mapping reads the bag off the
tree's nodes; a fixup is a stutter, which is the point: no repair may change the
contents. `JoinOfEmpty` allows a join to forget its key when one of the trees
is empty.

### Liveness

`CreateGraph`, `Scan` (one block), `BeginTraversal`, `Visit`, `Leave`
(`compute_in_out` for both children), `Finish`. The recursion of `do_liveness` is
the explicit `stack`; the trees of variables are sets. `compute_in_out` is
translated with its slip, `node` for `node2` at `flow.c:120`, which makes
the distance of the child, not of the block, the one that is lowered. The
reference is independent of the algorithm: `UseDists` walks program points.

### Quadruples, ExprGraph, CopyOpt, LocalOpt

`Meaning` executes a block on symbolic terms: the value of each variable at the
end, and the effects in order with the values they use. It folds constants as
the code does and knows that `add` commutes, and nothing else of arithmetic.
`Execution` is the sequence of states it goes through, a recursive function, and
`Quadr` the quadruples `quadr.h:61` allows, without jumps' labels.

`ExprGraph`: `EnterOp`, `EnterCopy` and `Keep` are the three cases of the loop of
`optimize_local` (arithmetic, a copy, anything else, before which the graph
is flushed), `Finish` the flush at the end. Constants are folded, the operands of
a commutative operation put in order and a duplicate's id given out again as in
the code. A flush is one step (`FromGraph`): the variables that are inputs are saved (`SaveInputs`), then `GenNode` is
applied to the nodes in the order in which the recursion of `gencode_for_node` comes to them from the roots and the
constants (`Visited`, the operands of a node first, which is `Below`; a node it has been at is left as it is), then the
variables are set that equal an input (`SetEqual`). A node is its number, which stands for address and
id, since the pool hands nodes out in order and takes only the last one back. The
order of the roots depends on the shape of a red-black tree and is any order. Nodes are found by `Key`, the number
`opt.cpp:84` makes of operation and operands; different operands have different keys only as long
as ids stay below `IdRange`, 8192 in the code.

Two ghosts say when the block's meaning may be lost: `stale`, a list of the
graph named a variable that has another value (a finding, see 5), and `failed`,
a division by a constant zero was reported. The table of `double` constants
works as the one of integers and is left out. Integers have no width: folding
`INT_MIN / -1` would trap the compiler itself, which is not modelled.

`CopyOpt`: one step is one iteration of a pass's outer loop (`RemoveCopies`,
`RemoveDead`, `RemoveDeadAgain`, `Back`, `BackDone`, `Forward`, `ForwardDone`);
inner loops are described by where they stop. `CopySpec` is the machine of these
passes alone, from any block of `Quadr` in which, as `gen_call` sees to (`quadr.c:398`), nothing else
assigns the result of a call (`CallsOwnResult`).

`LocalOpt` runs one on the output of the other, as
`perform_local_optimizations` does, and the copy passes alone, as
`perform_local_optimizations_2` does.

### BasicBlocks

The generator recurses over the syntax tree while it is checked; `todo` is that
recursion, a sequence of statements, conditions with their jump
(`gen_quadr_bool_expr`) and rests of statements that wait for a part. `d` holds the
memory of the blocks, the pool's free list (last in, first out: the memory of a
freed block is the next one given out), `cur_block` and `prev_block`. Each
case of `do_semantic_check`, `gen_quadr_bool_expr` and `gen_quadr_expr` that makes
blocks is an action; `AddBasicBlocks` and `Label` are `add_basic_blocks` and
`quadr_arg_label` in full, with the block that divides a conditional jump
from what follows, the block that is given back, and the extra block for a second
jump to the same label. Quadruples that do not jump are `act`. The reference
executes the source body and the blocks under the same outcomes of tests and
compares the events (`SameMeaning`).

### Pool, StrTab, Scopes

`Pool` has `Palloc` and `Pfree` as actions that `Scopes` conjoins with its
own. The list of the nodes with a free cell is explicit, with the stale link that a
full node keeps; which free cell of a node is handed out is any (the code takes
the one given back last). `StrTab` is the hash table as an array with chains
that lead behind the buckets, which grows in the middle of an insertion. Both
take sizes and the hash function as constants.

`Scopes` has an action for each thing the parser and the checker do with names:
`AddSym` (a name is read), `DeclareFunc`, `DeclareArg`, `DeclareVar` (three
callers of `declare`), `Use`, `Assign`, `PushScope`, `PopScope`, and `PopDecl`
for one iteration of `pop_scope`'s loop. The cell of each declaration comes from
the pool. `Env` maps these tables to `Environment`: it follows the chains of
declarations, so that `MeansInnermost` compares the answers of the code with those of
a stack of scopes. `InForce` maps them to `Allocator`.

Three constants are about hazards that the passing run keeps away from, because the code fails there
(see 5): `Moves` (an array that `xrealloc` enlarges
moves: the chain is then extended in the freed array, `mem.c:233`), a `Hash` of 0 (which marks an
empty bucket, `mem.c:247`) and a small `DeclsSize` (`tree.c:433`). Without them a name has one symbol
(`OneSymbol`), and that symbol is never replaced while the table is enlarged around it (`SymbolsKept`).

### FpuStack and Fpu

The state `m` holds the tables (`loc`, `list`, `live`), `init`, which is `fpu_initialised`,
and **ghosts**, what the generated instructions do to the unit when they run: `full`, the
tag word, `holds`, the variables whose present value a place holds, and `ready`, whether `finit` has been
executed since the function was entered or a call returned. Each operation of
`gencode.c` changes both, where the code changes a table and writes an
instruction. A step follows the path that is executed, but `init` follows the order in which the blocks are
*generated*: at each block's start (`NextBlock`) it has any value, the one some other block may have left.

`slip` records the first thing that went wrong (`Slips`), and a behaviour stops there: a push onto a full
register, a read of an empty one or of one that holds another value, a result recorded elsewhere, a
rotation of the table alone, a `finit` that wipes what is recorded, one that is left out, the assertion of
`fpu_initialised`, a null location or a wrong member of a union, a liveness mark not put back.
What an instruction computes from such operands is no value that the model knows. `PlacesCurrent` is what
`var->loc` should mean, that each recorded place holds the value, and most of the slips break it. `PlacesHold` is the
claim about the rest: **without** one of these slips the tables and the unit never
part. It says nothing about what the slips stand for.

`Arithmetic`, `Compare`, `WritePtr`, `CopyVar`, `PrintString`, `Return`,
`DeadResult` are a quadruple each, `Goto` is the end of a block without a comparison of doubles; a call is
`StartCall`, one `PushArg` for each argument, `DoCall`. The victim of `stack_ra` is any register, a path any path, as
in `GenLoc`. Locations are sets of which the best is the smallest place. Constants
and array elements as operands (`LOC_DOUBLE`, `READ_PTR`) are left out. `CallInPlace` and `SelfCopy` mean what they mean in
`GenLoc`. Blocks end
only where every live variable has one place of its own, so that `save_live` has
nothing to do, and the next block takes the places over: a block reached again, whose places are those of its first
predecessor, is left to `GenBlock` (see 7). `gen_call` also calls `discard_dead_vars(NULL)`
(`i386_backend.c:1382`), which the model, whose dead variables lose their places at once,
has no use for.

## 3. Runs and what they show

| run | instance | states | result |
|---|---|---|---|
| `genloc` | 3 variables, 2 registers, 4 stack elements, 1 constant; symmetric variables, elements and the other register | 670 866 | holds: `TypeOK`, `LocListed`, `DescSound`, `LiveLocated`, `ConstAlone`, `UniqueAtEnd`, `EntryAgrees`, `ReturnedInPlace` |
| `genloc_operands` | the same | | `OperandsIntact` violated, see 5 |
| `rbtree` | one tree of at most 7 different keys; two trees of 3 keys with duplicates and 6 nodes, with joins | 306 859 | holds: `TypeOK`, `RedBlack`, `NothingLost`, `StackIsPath`, `AssertionsHold`, `IsOrderedBag` |
| `liveness` | 4 blocks, some 16 000 functions | 318 960 | holds: `InExact`, `OutExact`, `DistReal`, `ScanAgrees`, `Termination` |
| `local_opt` | blocks of 4 quadruples over `x`, `y` and a temporary: all of 12 kinds through the graph and the copy passes, all of 14 kinds through the copy passes alone | 1 357 492 | holds: `SameMeaning`, `CallsApart`, `DistinctNodes`, `CopiesKeepMeaning`, `Termination` |
| `local_opt_lists` | the same | | `GraphRight` violated, see 5 |
| `basic_blocks` | some 8000 bodies of two statements with nested conditions and statements; 6 events of each execution | 145 920 | holds: `AssertionsHold`, `LabelsAreBlocks`, `OneJumpForward`, `FallThroughOwn`, `SameMeaning` |
| `basic_blocks_empty` | loops whose body leaves its first block empty | | `LabelsAreBlocks` violated, see 5 |
| `scopes` | 4 names of one hash, a table of one node that is enlarged twice; 4 scopes, 3 declarations, 5 names and declarations together; a pool of nodes with 1, 2 and 4 cells; symmetric names | 105 566 | holds: `PoolTypeOK`, `CellsPartitioned`, `FreeNodesLinked`, `OneSymbol`, `DeclsListed`, `SymbolsKept`, `MeansInnermost`, `CellsOwned` |
| `scopes_decls` | `decls` with room for 2 | | `DeclsStored` violated, see 5 |
| `fpu` | 3 variables, 3 registers, calls with up to 2 arguments | 193 531 | holds: `Listed`, `LiveLocated`, `PlacesHold` |
| `fpu_places` | the same, without results of calls in variables that have a place | | `PlacesCurrent` violated, see 5 |

Why the bounds are enough.

* `genloc`: three variables on two registers force evictions at every second
  quadruple, shared places, and an operand evicted for another one. Paths are not
  bounded; only stack elements are. A behaviour stops (`Halted`) when fewer
  elements are free than there are variables, which is the most one operation
  saves, so the bound never blocks an operation half-way.
* `rbtree`: with seven keys the tree reaches black-height three, every case
  of both fixups and the lift over two levels occur; six nodes in two trees give joins
  at a node on the way down the taller one, and joins with an empty tree.
* `VIEW Canonical` numbers nodes from left to right: their addresses are
  not part of a state's identity and no action reads them.
* `liveness`: four blocks hold two nested or crossing loops, a loop left through
  another block than its head, and unreachable blocks; three traversals are needed
  for some of them.
* `local_opt`: an assignment, a copy, a reassignment and a use are what
  the stopping conditions tell apart, in any order; a node, its duplicate, the
  reuse of its id and an assignment to an operand fit in as many. Results of calls are
  temporaries assigned once, as `gen_call` of `quadr.c` makes them. `declare_var` makes a variable for each node
  and a quadruple adds three nodes at most, so that twelve new variables are enough for four (`Fresh`).
* `basic_blocks`: every kind of condition under every kind of statement, and every
  statement under every loop and branch, before and after another statement: so
  that each call of `add_basic_blocks` finds a current block that is full, empty,
  referenced or ended by a conditional jump. The bodies leave out what
  `basic_blocks_empty` is about, and only that. The pool of 32 blocks is never
  used up.
* `scopes`: three declarations in force shadow a name twice and fill the pool's
  first node, so that nodes are full, half empty and given back in every
  order; the hash table grows in the middle of a chain. `MAX_SCOPES` 4 lets the abort
  happen.
  With four names a chain is walked to its middle and its end, past names with the same hash, and the
  second enlargement happens with a chain already there. `MaxNames` lets either many names
  (four, and one declaration) or many declarations (three, of two names) occur. Whether the table moves
  and whether a hash is 0 is not open here: the code fails there.
* `fpu`: with three variables and three registers a load has to vacate a register, a
  variable is in the top, below it, in the frame, or shares a place. Four
  registers were checked, too, and show nothing new.

Deadlock is checked for `genloc`, `rbtree` and `local_opt`. `Liveness`,
`BasicBlocks`, `Scopes` and `Fpu` end by design (the function is done, the program is
left, an assertion or a slip stops it), so their configurations say
`CHECK_DEADLOCK FALSE`.

Fairness. `Liveness` and `LocalOpt` assume weak fairness of `Next` and no more: a
sequential program that can take a step takes one. Which step it is is never a
matter of fairness. `LocalOpt` writes it out with `pc = "done"` for "no step
is possible", which the deadlock check of the same run confirms.
The others state safety only: the length of the input and the next
call are the user's.

Each property of a passing run has a variant of a mapped definition, next
to it in the module ("a variant ..."), with which TLC finds the property
violated: a missing discard, an off-by-one in the reference count, a rotation
that forgets a subtree, a flag reset too early.

## 4. Proofs

Every invariant the run `genloc` checks is proved for **all** finite sets of variables, registers
and stack elements and all constants, under `GenLocAssumption` and what the table says:

| theorem | states |
|---|---|
| `TypeCorrect` | `Spec => []TypeOK` |
| `GencodeInvariant` | `Spec => []LocListed`: what `gencode_invariant()` asserts |
| `SavedUnique` | `Spec => []UniqueAtEnd` |
| `DescriptorsSound` | `Spec => []DescSound`, if `~CallInPlace` |
| `EntryCorrect` | `Spec => []EntryAgrees`, if `~CallInPlace` |
| `LiveNeverLost` | `Spec => []LiveLocated`, if `~SelfCopy` |
| `ConstantsAlone` | `Spec => []ConstAlone`, if `~CallInPlace` |
| `ReturnCorrect` | `Spec => []ReturnedInPlace`, if `~CallInPlace` |

Each assumption is needed: with `CallInPlace` TRUE, or `SelfCopy` TRUE, TLC finds a
counterexample to the property. Both restrict the input, and depend on the options: a call's
result is a fresh temporary unless `copy_backpropagation` (`-O1`) makes the call write
the variable itself, and a copy `x = x` of the source is removed by the copy passes but not at `-O0`.
Where `SelfCopy` is not excluded, a lost variable has no recorded place, so nothing that is
recorded is wrong.

The argument. `LocListed` alone is not inductive: `save_live` shortens
`m.loc` without touching lists, and what it records must survive the
variables saved after it. `TableInv` adds `Shape` (which fields of `cur` are
meaningful in which step) and `Kept`: every variable already saved in this block is
alone in its places and these are the ones in `entry`. `TableInv` says
nothing of the ghost and holds whatever the program is. `ValueInv` is
proved on top of it: every recorded place holds the value (`Sound`), but for the
result that is on its way in step `emit` (`OnItsWay`), a call's result has no
stale place (`FreshResult`, from `~CallInPlace`), and `EntryAgrees`. Lemmas about
the operators come first - what `Copies`, `Saved`, `Erase`, `FreeReg`, `AllocReg`,
`Discard`, `EnsureUnique`, `Placed` preserve - then one lemma per group of actions,
then the step from `Next`. The variables' liveness never enters: an eviction that
saves too little loses values but records nothing false, which is why
`LiveLocated` is a property of its own.

`LiveLocated` has `LocatedInv`, on top of `TableInv`: also in the middle of a
handler, when the result's register is chosen, what is live after the quadruple is
somewhere, and at the end of a block what is live has an entry in the child. Each operator on
the tables `Keeps` located every variable it is told is alive; the proof is that each
handler tells it of enough variables (`MustBeAlive`), which is what an eviction
that forgets a live operand would break. `ConstAlone` has `PureInv`: only variables without
a constant are given places, because a variable whose constant is loaded gives the
constant up at once, and a result arrives in a variable that was discarded.

`ReturnedInPlace` rests on the list of a register, because `save_var_to_loc` does nothing
if it finds the variable there. `LocListed` is the wrong direction: an entry could be
stale, and `ensure_unique_for_var` does leave stale entries in lists
(`gencode.c:1884`). `ReturnInv` says why they are never a register's: its tables are `Tidy`, that is,
the registers' lists are exact, a variable has at most one register, and variables that share a
register share all their stack elements. The last makes `ensure_unique` choose
the register (`RegisterTaken`), whose list is then rewritten, and never a stack element that would leave
the register's entry behind. `Cleared` carries this over the end of a block.

`ScopesProofs` proves for **all** sets of names, hash functions, sizes and
bounds, under the assumptions of `Pool`, `StrTab` and `Scopes`:

| theorem | states |
|---|---|
| `PoolTypeCorrect` | `Spec => []PoolTypeOK` |
| `NoCellLost` | `Spec => []CellsPartitioned`: each cell is free in its node or handed out, never both |
| `PallocFindsCell` | the node `palloc` looks at has a free cell |
| `NoNodeForgotten` | `Spec => []FreeNodesLinked`: each node with a free cell is met on the way from the head to `NULL` |
| `DeclarationsOwnCells` | `Spec => CellsOwned`: the refinement of `Allocator` |
| `OneSymbolPerName` (`DeclsProofs`) | `Spec => []OneSymbol`, if `TableSound` |
| `SymbolsNeverChange` (`DeclsProofs`) | `Spec => SymbolsKept`, if `TableSound` |
| `ListAndChainsAgree` (`DeclsProofs`) | `Spec => []DeclsListed`, if `TableSound` |
| `NamesMeanInnermost` (`DeclsProofs`) | `Spec => MeansInnermost`, if `TableSound`: the refinement of `Environment` |

`TableSound` keeps the two slips of `add_str` away that `Moves` and `Hash` stand for: the table is
enlarged where it is, and no name hashes to 0. Without it TLC finds the statements
violated. It leaves the hash function arbitrary otherwise: all names may share a bucket.
The assumption of `Scopes` that no type is called `"none"` is only about the constants: `"none"` is the
answer for a name that means nothing.

The argument. That `palloc` may take a cell without asking needs `LinksSound`: the
links between the nodes with a free cell stay among them, no two lead to the same
node and none leads to the head. A full node's stale link is harmless
because only nodes with a cell are asked about. `PoolInv` is inductive for
`Palloc` and `Pfree` alone, and every step of `Scopes` is one of them or leaves the pool
alone (`NextIsPoolStep`). The refinement adds `ScopesInv`: the scopes begin one
behind the other and within `decls`, and while a scope is left `popped` lies
in its part, so that the number of declarations in force falls by one with each cell
given back. For `NoNodeForgotten` the list is written out: `LinkedAs(m, q)` says that `q` runs
through the `m` nodes with a free cell, each once, from the head to `NULL`. A node is taken off at
the head, when its last cell goes, and put on there, when its first comes back, so that `q` is shifted by one;
`PoolInv` alone would allow nodes in a circle of their own.

`TableOK` of `DeclsProofs`: the nodes of a chain have higher and higher indices, a node behind
the buckets is linked from one before it, in the chain of its name's bucket, and no two have the same name or symbol.
The walk of `add_str` then ends at the name's node, or at the end of its chain, which is shown by going down the
indices (`WalkIs`). A new node is linked there and nowhere else.

`CellsAre(c)` of `DeclsProofs` gives each declaration in force its cell, `c[i]`: the cells in use are these,
each once; the cell's scope is that in whose part of `decls` it is; no scope has two of a symbol;
and the symbol's `decl`, and the `prev` of each cell, is the cell of the symbol's last declaration
before. While `pop_scope` runs, the ones it has undone no longer count
(`Listed`). Looking a name up in a scope follows `prev` through falling scopes; what
it finds is proved by induction on the cell's place in `decls`. `ListAndChainsAgree` counts: looking up is one-to-one
between declarations in force and entries of `decls`. For `NamesMeanInnermost` the map is: `AddSym`, `CheckProgram`,
`PopDecl` and an aborted `PushScope` are stutters; `DeclareFunc`, `DeclareArg` and `DeclareVar` are
`Declare`, `Use` and `Assign` are their namesakes and `PushScope` is `Enter`. A scope is left in the environment
as soon as `pop_scope` is called for it (`PopScope`, and `PopDone` where the scope of a function's arguments is left
next): the loop that undoes its declarations is a stutter.

`LivenessProofs` proves for **all** numbers of blocks, variables and codes, under
`LivenessAssumption` (jumps lead to blocks of the function):

| theorem | states |
|---|---|
| `LiveAtEndExact` | `Spec => []OutExact`: at the end `out` of a reachable block is the union of its successors' `in` |
| `LiveAtStartSolved` | at the end `in` of each block is what it uses and what of its `out` it does not define |
| `LiveAtStartExact` | `Spec => []InExact`: at the end a variable is in `in` of a reachable block if and only if a path from there uses it first |
| `DistancesReal` | `Spec => []DistReal`: each distance recorded is that of a use on a path of the program |
| `ScansAgreeAtStart` | `Spec => []ScanAgrees`: the code generator's scan of a block finds live what the analysis did |

The argument. `FlowInv` says of every step, not only the last, that what is known is consistent:
`in` always satisfies its equation (`Equations`), also for a block that is its own
successor, and `out` has nothing a successor lacks (`OutSound`). The other half of
`OutExact` is `Settled`: as long as the flag is clear, the blocks the traversal
has left know all that is live at their successors, and are followed by visited blocks only. At the end
the visited blocks are closed under successors, so that they include every block that
can be reached. A flag that one block resets (`GrewLast`) breaks exactly this.

That the equations' solution is the least one is the second half. `ReachInv` adds `Distances`: every distance
recorded for a variable live at a block's start is found by the reference, `UseDists`, and within as many steps as
there are program points in the blocks at whose start the variable is known to be live. A block is entered for a
variable when it is not among these and counts on a successor that is, so that the count makes room
for its length, in whatever order the blocks are visited. So `in` never holds too much and `DistReal` is had. It never
holds too little at the end, because the reference is a recursion on the number of
steps and each step goes along an equation (`LiveAtStartExact`). `ScansAgreeAtStart` is an induction
backwards along the block.

`CopyOptProofs` proves for **all** variables, blocks and lengths, of `CopySpec`:

| theorem | states |
|---|---|
| `CopyPassesKeepMeaning` | `CopySpec => CopiesKeepMeaning`: no iteration of a pass changes the block's `Meaning` |
| `CopyPassesEquivalent` | the block means at every point what it meant at first |
| `CallsStayApart` | `CopySpec => []CallsApart`: as long as the dead-assignment pass may run, nothing else assigns a call's result |

The argument. The executions of the block before and after an iteration are compared state by
state. They are equal outside a stretch, and on it differ in the variables that the loop exchanges: in
the variable whose assignment is removed (`DeadKeeps`, `Agree`), in `a`, which has `b`'s value, until the copy is reached
(`BackwardKeeps`, `Exchanged`), and not at all while `a = b` holds forwards (`ForwardKeeps`).
Where each loop stops is what makes the next quadruple respect that relation: one use or assignment missed and the lemma about one
quadruple (`ExecuteUnused`, `ExecuteExchanged`, `ExecuteForward`) has no proof. Propagation
forwards in `copy_backpropagation` runs before the copy is swapped; `ForwardLocal` shows it could run after.
The invariant needs `CallsApart` because `remove_dead_assignments` does not look at the operation: a call
whose result is overwritten would disappear with its effects. Back-propagation ends that, and the pass does not run again.
That the graph's output satisfies the initial condition of `CopySpec` is a theorem of `LocalOptProofs`.

`LocalOptProofs` proves for **all** variables, blocks, lengths and orders of the roots, of `LocalOpt`:

| theorem | states |
|---|---|
| `EachExpressionOnce` | `Spec => []DistinctNodes`: no two nodes of the graph stand for the same expression |
| `OptimizedMeansTheSame` | `Spec => []SameMeaning`: graph and copy passes together keep what the block computes |
| `GeneratedCallsApart` | `Spec => []CallsApart`: the graph's code gives each call a result of its own, too |
| `GeneratedCodeKeepsMeaning` | `Spec => CopiesKeepMeaning`: no copy pass changes the meaning of the graph's code |

The assumptions are those of `Quadruples` (`None` and numbers are not variables), `ExprGraph` (`declare_var` gives
different variables, and ids have room in the keys: `opt.cpp:84` assumes it and the code does not check it; `DigitsApart` and
`KeysApart` then give that no two operations share a key) and `LocalOpt`: the blocks are quadruples, nothing else assigns a call's result, and the program does
not know the variables `declare_var` gives, of which there are three for each quadruple. The last one says that the bound
`NewVars` is not met; in the code the number is bounded by memory. `SameMeaning` keeps its two exceptions, `stale` and `failed`.

The argument. `LocalInv` has two halves. While quadruples are entered (`GraphInv`) there is a `j` such that what is left is
the block without its first `j` quadruples (`Remains`), the graph is well formed (`GraphOK`: operands come before their
node, one leaf per variable or constant, one node per operation and operands, a variable is in the list of the node it
points to), no more than `3 * j` variables are used up by the code and the nodes, and `Agrees`: the state after those `j` quadruples is
*represented* by the code so far together with the graph. `Represents` says that there is a function `val` from nodes to values
which satisfies the graph's equations on the state the code leaves (`Values`), and that a variable's value is
its node's, or the code's where it has no node (`Holds`). Proofs do not compute on graphs: each step says how `val` is extended.
After the graph, `CopyInv` of `CopyOptProofs` holds and the meaning is the block's.

For `EnterOp` and `EnterCopy` (`Entered`): a new leaf's value is the variable's, a new root's its operation on two values, and
`val` is as before on the rest. An exchange of operands is right because `Computed` commutes for the operations it is done for; a
node found is right because its value satisfies the same equation. `ExpressionsDistinct` is `GraphOK` carried
from nodes to expressions, upwards along the numbers: terms are equal only if their parts are (`TermIs`).

A flush is where order matters. `Sound` is its invariant: a result once given holds the node's value, and a variable of the
program holds **either** what it held before the flush **or** the value of its node. The inputs need no more: they are saved
before anything else, in variables of their own, so that no leaf is read after it was overwritten (`FromGraphLate`, which saves them
later, has no such invariant and TLC refutes it). What a list sets to a node's value is right if `ListsTrue`, and at the end
every list is empty, so that the second case of the disjunction is what is left (`Generated`). That a node's operands have
results when it is reached is the property of `Below` (operands first), that every node is reached follows from a
node being a root, an operand or a leaf. `Emitted` says the new code consists of arithmetic and copies into new variables and into variables that
the block assigns by such quadruples itself (`Targets`), so that no call gets a second assignment of its result (`OutFine`).
The theorem compares states on the program's variables only (`Same`), as `declare_var`'s are nobody's input.

`RbTreeProofs` proves for **all** sets of keys, all amounts of memory and all users, under `RbTreeAssumption` (keys
are positive numbers, memory is finite):

| theorem | states |
|---|---|
| `TypesHold` | `Spec => []TypeOK`: every field of a node in use and every pointer of a tree is nil or a node in use |
| `TreesAreRedBlack` | `Spec => []RedBlack`: between two calls both trees are red-black trees and `tree->bh` is right |
| `NoNodeIsLost` | `Spec => []NothingLost`: no rotation, deletion or join loses or shares a subtree, in any step |
| `StackIsSound` | `Spec => []StackIsPath`: the stack holds the ancestors of the node at hand and does not outgrow its memory |
| `NoAssertionFails` | `Spec => []AssertionsHold`: no assertion of `rbtree.c` fails |
| `TreesAreBags` | `Spec => IsOrderedBag`: the refinement of `OrderedBag` |

The argument. The proofs do not compute on trees: `Inv(D, b)` says that *there are* functions `D`, the nodes below each
node, and `b`, its black-height, which satisfy the equations of a forest (`Forest`), of order (`Ordered`) and of balance
(`Balanced`), and each action says how they change. A rotation exchanges the sets of two
nodes (`TurnedBelow`) and, with its recolouring, the heights of two (`SpunHeights`); a new node is grafted (`Grafted`) with the
subtrees below it, none for an insertion and two for a join; a freed one is pruned (`Pruned`) and its child takes its place. `BelowIs` and
`HeightIs` then show that what the properties compute from the heap is `D` and `b`.

What the invariant says while a call is at work is the point of it. In `insert_fixup` two reds may touch at `node` and nowhere else,
and the root may be red if it is `node`. In `delete_fixup` one black is missing at one side of `Up(0)` (`Hole`), or
in the whole tree once `node` is the root (`MissingAtRoot`). The case analysis of both
fixups is then that of the places where the black is found. `Ancestors` says that `stack` is the path to the node at hand, and `Short` that each
entry is at most twice as deep as the black nodes above it allow, which gives both the assertion `depth <= 2 * bh` before each push and,
in `rb_delete_fixup`, room for the one that is not checked. `Lifted` is the patch of the "corrupted" stack after the
rotation, `PathLifted` that it is a path again. `Searching` says that where a walk turned is where the key belongs, so that the graft
keeps the order; `Removing` that the successor's key may take the node's place; `Meeting` that `rb_join` goes down the side of the higher tree
until the black-heights meet.

For the refinement a bag counts the nodes of each key in `D[tree.root]` (`Bagged`). `Call` is `Begin`. The walks and the inner steps of
the fixups are stutters, the last step of a fixup is `Return`. `DoInsert`, `Unlink` and `JoinLink` are where a call takes effect: one node more, one less or
two sets of nodes that are apart and one more (`BaggedMore`, `BaggedLess`, `BaggedUnion`). `BaggedLess` has the case that makes deletion hard: the node freed
is not the one found, and its key moves. What a call returns follows from the invariant: `Searching` for what is found or not
there, `Leftmost` for the minimum. `ResultLast` says that no result is there before the call returns.

Induction. The library's induction theorems take an operator as parameter, which no
prover here instantiates. `Induction` proves from `WFMin` the same with sets and functions: to show P(n)
for all n, the set of numbers with P is shown to be everything. `RecursionUp`, `RecursionDown` and `RecursionByRank` give the function that a
recursive definition chooses (along an interval, or by falling rank), and with it the definition's equation, from which
`ExecutionIs`, `KeptKeeps`, `WalkIs`, the lemmas on the block's scans and `InScope` follow. `StrTab`, `CopyOpt`, `ExprGraph` and
`Quadruples` are written with recursive functions for this (`TwoTo` for powers of two, `Kept`, `Below`, `Execution`).

Only model-checked: `BasicBlocks`, and `Fpu`, whose tables are the results of folds over
sets of variables. Their definitions recurse over syntax and over sets, where an induction is possible in the
same way but not done. Liveness properties under fairness stay with TLC, and so does `OperandsIntact`, which is false.

## 5. Where the code and its comments differ

Each is a run that finds the statement violated by what the code does.

* **`OperandsIntact`** - `update_locations` (`quadr_backend.c:170`) discards
  dying operands, which frees their registers, before it flushes the result
  register; a variable saved by the flush can land in an operand's register.
  `gencode.h:78` demands that operands be marked live around such calls.
* **`LabelsAreBlocks` with empty loop bodies** - `add_basic_blocks` (`quadr.c:870-880`)
  frees the first block of a loop's body if it is empty, before the loop's jump to it
  is made; the jump goes to free memory, or to the block that got the memory next. A
  body that begins with `b = false;` or `if (true)` is enough.
* **`GraphRight`** - `remove_var` (`opt.cpp:445`) does nothing for a leaf, so that a
  variable assigned from a constant or another variable, and then again, is set to
  both; the leaf's assignment comes last. `x = 6; x = 5; return x;` returns 6
  with the default optimisation.
* **`DeclsStored`** - `declare` (`tree.c:433`) enlarges its table to twice as many bytes as
  it had elements, which makes it smaller.
* **`PlacesCurrent`** - `update_locations` (`i386_backend.c:328-343`) discards the result and the dying operands,
  which empties their registers, before the instruction that reads them is written: `x = x + x` with `x` in the top
  register adds to an empty one, and records the result one register off.

Others have no run of their own. They follow from a formula of the module, which TLC
refutes when it is put into the configuration named, or are seen from the definition:

* In `GenLoc.cfg`: `DescSound`, with `CallInPlace` TRUE - `gen_call` (`quadr_backend.c:613`) does not
  discard the old places of its result; nor does the i386 backend's (slip "recorded"). Only
  `copy_backpropagation` (`opt.cpp:744`) makes a call write a variable that has any.
* `LiveLocated`, with `SelfCopy` TRUE - `copy_to_var` (`gencode.c:1363`) discards the
  destination before it reads the source.
* `PendingLocated` - `ensure_unique_for_var` (`gencode.c:1882`) erases a
  shared stack element from the other variables even when saving them moved
  nothing; when their turn comes `ensure_unique` asserts.
* In `Scopes.cfg`: `OneSymbol`, with `Moves` TRUE - `add_str` keeps a pointer into the table over the call that may move it
  (`mem.c:233`, `:268`), so that a name just added is not found again.
* `OneSymbol`, with 0 for 5 in `MCHash` - `add_str` (`mem.c:247`) takes the name's bucket for empty and overwrites it.
* In `FpuPlaces.cfg`: `LoadsFit` - when the register that `stack_ra` (`gencode.c:2408`) gives up is
  the top, the register stays full in the unit and the load that follows overflows.
* `FinitSpares` - `fpu_initialised` (`i386_backend.c:1078`) follows the order of the text: after
  `if (c) { printString("a"); return; }` the next operation on doubles writes a `finit` that empties
  the registers recorded at the start of the block. For the same reason a `finit` may be left out or its assertion fail.
* `OperandsFull` - an operand's register is emptied by `update_locations`, as in the run.
* `OperandsInRegisters` - `gen_fpu_arithmetic_op` (`i386_backend.c:811`) reads `u.reg` of an operand in a stack element.
* `TurnedAlike` - `gen_call` (`i386_backend.c:1323`, `:1348`) rotates `fpu_regs[]` once more than the unit for each
  argument.
* `MarksRestored` - `gen_call` (`i386_backend.c:1294`) sets aside the liveness of an argument that comes twice after
  it has marked it.
* `Propagated` (`CopyOpt`) - a copy may stay without need: what one iteration of `copy_propagation` brings about for
  its copy, a later one that removes the source's assignment undoes. `x = y; t = y; f(y); y = t; f(x)` keeps the use of `x`,
  which is `y` there. It takes five quadruples, one more than the run's blocks; nothing is wrong with the code it generates.
* `DistNearest` (`Liveness`) - the distance of the next use is not the minimum over the
  successors that `doc.tex:81` defines (`flow.c:120`). The choice of a victim is
  worse than intended, nothing else.
* More slips of `Fpu` - an argument of a call whose only place is the register given up
  for it is lost (`i386_backend.c:1331`); the result is recorded one register off when both operands are in the top and
  one had to be loaded again.
* `rb_join` (`rbtree.c:632`) drops its key when one of the trees is empty, where
  `rbtree.h:46` promises the union. Nothing in the compiler calls it; `OrderedBag`
  says so (`JoinOfEmpty`).
* `rb_copy_subtree` (`rbtree.c:50`) allocates the size of a pointer for a node; nothing calls
  it. `begin_traversal` (`quadr.h:305`) compares a `short` that wraps with an
  `unsigned short`, after 65 535 traversals. `a[i]++` is computed from and into the array
  instead of the element (`quadr.c:683`).
* `doc.tex:105` says each label is the target of one jump at most: `OneJumpForward`
  says it of forward jumps only, since `while (a || b)` jumps back to one label twice.

## 6. What is not modelled, and why

* Lexer and parser: input of flex and bison. Flags, driver, utilities: options,
  files and child processes, run once. Peephole optimiser: an empty function.
* Run-time library: assembly linked into the compiled program.
* Types and the translation of arithmetic, parameters and arrays (`tree.c`,
  `quadr.c`): syntax-directed case tables that only append quadruples.
* The integer part of `i386_backend.c`: instruction selection for two operands, division in
  `eax:edx` and arrays, over the same tracker that `GenLoc` models with another client.
* `alloc_t` of `mem.c`: it appends to an array and is freed as a whole. The output buffer
  is a list of lines.
* `rb_copy`, `rb_size`, `rb_for_each`, `rb_free`: no caller, or nothing changed.
* In `GenLoc`, `LocalOpt`, `Scopes` and `Fpu`: see the abstractions above. Instruction
  texts are not modelled.

The list "hazards" of `PROJECT.json` names, at its line, each thing that can go wrong
and that a test would hardly reach, with the properties that cover it or the
reason why none does yet.

## 7. Plan

Done, in this order, because the tracker is what every compiled program depends
on, and its inputs come from the others: `GenLoc` and its proofs; `RbTree` under
`OrderedBag`; `Liveness`; `CopyOpt`; `BasicBlocks`; `Scopes` on `Pool` and `StrTab`, and
their proofs; `RbTreeProofs`; `Fpu`; `ExprGraph`, the composition `LocalOpt` and `LocalOptProofs`.

Next modules:

1. `GenBlock`, composing `GenLoc`'s block end with a graph of blocks: the second
   visit of a child that has code, `shuffle` of locations, the assertion in
   `init_descr`.
2. The integer part of the i386 backend as a third client of the tracker: two-operand
   instructions and the fixed registers of division.

Next theorems: with `GenBlock`, that what `EntryCorrect` says of the end of a block is
what `init_descr` needs at the start of the child, for any graph of blocks; that the tables of `FpuStack` and the unit
stay turned alike (`PlacesHold`), by induction over the folds.
