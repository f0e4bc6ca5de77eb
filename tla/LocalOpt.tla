------------------------------ MODULE LocalOpt ------------------------------
(***************************************************************************)
(* perform_local_optimizations on one basic block: the graph of its        *)
(* expressions (ExprGraph), then the copy passes on the code generated     *)
(* from it (CopyOpt).  perform_local_optimizations_2 runs the copy passes  *)
(* alone.                                                                  *)
(***************************************************************************)
EXTENDS ExprGraph, CopyOpt

CONSTANTS
  Inputs,   \* the blocks to optimise
  Copied    \* the blocks for the copy passes alone

(* declare_var finds enough variables, and the program does not know them. *)
Fresh(qs) ==
  /\ 3 * Len(qs) <= Len(NewVars)
  /\ \A k \in DOMAIN qs : {qs[k].result, qs[k].arg1, qs[k].arg2} \cap ToSet(NewVars) = {}

ASSUME LocalOptAssumption ==
  /\ \A qs \in Inputs \cup Copied : qs \in Seq(Quadr) /\ CallsOwnResult(qs)
  /\ \A qs \in Inputs : Fresh(qs)

VARIABLE
  block     \* the quadruples before the optimisation

vars == <<block, rest, graph, qtab, pc, i, changed>>

Enter ==
  /\ pc = "graph"
  /\ EnterOp \/ EnterCopy \/ Keep
  /\ UNCHANGED <<block, copyVars>>

StartCopies ==
  /\ pc = "graph"
  /\ Finish
  /\ qtab' = graph'.out
  /\ pc' = "copies"
  /\ UNCHANGED <<block, i, changed>>

OptimizeCopies == CopyNext /\ UNCHANGED <<block, graphVars>>

Init ==
  /\ graph = EmptyGraph /\ i = 1 /\ changed = FALSE
  /\ \/ block \in Inputs /\ rest = block /\ qtab = <<>> /\ pc = "graph"
     \/ block \in Copied /\ rest = <<>> /\ qtab = block /\ pc = "copies"

(* The block is left as it is. *)
Finished == pc = "done" /\ UNCHANGED vars

Next == Enter \/ StartCopies \/ OptimizeCopies \/ Finished

(* The optimiser runs to its end unless it loops.  This is WF_vars(Next),  *)
(* as a step other than Finished is possible until pc is "done": TLC looks *)
(* for a state without one as for a deadlock. *)
Fairness == []<>(pc = "done") \/ []<><<Next>>_vars

Spec == Init /\ [][Next]_vars /\ Fairness
-----------------------------------------------------------------------------
(* The value of each variable of the program at the end of the block (the  *)
(* passes run before liveness is known), and its calls, stores, parameters *)
(* and jumps with the values they use. *)
Effect(qs) ==
  LET m == Meaning(qs)
  IN [m EXCEPT !.env = [v \in Vars \ ToSet(NewVars) |-> m.env[v]]]

(* Every step of every pass leaves the block's meaning alone, unless the   *)
(* graph lists a variable in a node it no longer has its value from, or a  *)
(* division by zero was reported. *)
SameMeaning ==
  pc # "graph" /\ ~graph.stale /\ ~graph.failed => Effect(qtab) = Effect(block)

(* The passes end, though one of them starts over as long as it finds      *)
(* something to remove. *)
Termination == <>(pc = "done")

(* Violated: opt.cpp says of var_list that it "contains variables that     *)
(* should be set to the value of this node", and that is what the block    *)
(* should do to them. *)
GraphRight ==
  pc = "copies" /\ ~graph.failed => Effect(qtab) = Effect(block)
=============================================================================
