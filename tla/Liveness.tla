------------------------------ MODULE Liveness ------------------------------
(***************************************************************************)
(* The global liveness analysis of flow.c on one function: the block graph *)
(* is made from the last quadruple of each block, every block is scanned   *)
(* backwards for the variables it uses and defines, and depth-first        *)
(* traversals propagate live variables to the predecessors until nothing   *)
(* changes.  The code generator (gencode.c) then recomputes liveness       *)
(* inside each block from what is live at its end.                         *)
(*                                                                         *)
(* A quadruple is abstracted to what the analysis reads of it: the         *)
(* variable in its result, those among its arguments, its operation class  *)
(* and its label.  The trees of variables are sets; see RbTree.            *)
(***************************************************************************)
EXTENDS Naturals, Sequences, FiniteSets

CONSTANTS
  Vars,       \* the variables of the function
  NoVar,      \* a result or argument that is no variable
  N,          \* the number of basic blocks, linked in the order 1..N
  Codes       \* what the basic blocks may contain: a set of sequences of N blocks

Blocks == 1..N
NoBlock == 0

(* QA_VAR arguments only: constants, strings and functions do not matter.  *)
Ops == {"assign", "write_ptr", "return", "goto", "if", "other"}
Quadrs == [op : Ops, result : Vars \cup {NoVar}, args : SUBSET Vars,
           label : Blocks \cup {NoBlock}]

(* That jumps lead to blocks of the function is LabelsAreBlocks of         *)
(* BasicBlocks. *)
ASSUME LivenessAssumption ==
  N \in Nat \ {0} /\ NoVar \notin Vars /\ Codes \subseteq [Blocks -> Seq(Quadrs)]

Used(q, v) == v \in q.args \/ (q.op = "write_ptr" /\ q.result = v)
Assigned(q, v) == q.op # "write_ptr" /\ q.result = v

VARIABLES
  code,      \* the quadruples of each block
  child,     \* child[b] = <<child1, child2>>
  pc,        \* "graph", "scan", "traverse" or "done"
  scan,      \* the block to scan next
  def, in, out, dist,   \* live_def, live_in with its nearest_use_dist, live_out
  visited,   \* the blocks that bear the current mark
  stack,     \* the active calls of do_liveness()
  changed

vars == <<code, child, pc, scan, def, in, out, dist, visited, stack, changed>>
-----------------------------------------------------------------------------
(* create_block_graph: the flow out of the block's last quadruple. *)
NextBlock(b) == IF b = N THEN NoBlock ELSE b + 1
Children(b) ==
  LET last == code[b][Len(code[b])]
  IN IF code[b] = <<>> THEN <<NextBlock(b), NoBlock>>
     ELSE CASE last.op = "return" -> <<NoBlock, NoBlock>>
            [] last.op = "goto"   -> <<last.label, NoBlock>>
            [] last.op = "if"     -> <<last.label, NextBlock(b)>>
            [] OTHER              -> <<NextBlock(b), NoBlock>>

CreateGraph ==
  /\ pc = "graph"
  /\ child' = [b \in Blocks |-> Children(b)]
  /\ pc' = "scan"
  /\ UNCHANGED <<code, scan, def, in, out, dist, visited, stack, changed>>
-----------------------------------------------------------------------------
(* compute_live_def_use: one quadruple, the i-th counted from 0, of the    *)
(* backward scan. *)
Use(s, A, i) ==
  [def |-> s.def \ A, use |-> s.use \cup A,
   dist |-> [v \in Vars |-> IF v \in A THEN i ELSE s.dist[v]]]
Define(s, v) ==
  [def |-> s.def \cup {v}, use |-> s.use \ {v}, dist |-> [s.dist EXCEPT ![v] = 0]]

ScanQuadr(s, q, i) ==
  LET r == q.result
      t == IF r \in Vars /\ Assigned(q, r) THEN Define(s, r)
           ELSE IF r \in Vars THEN Use(s, {r}, i) ELSE s
  IN Use(t, q.args, i)

Nothing == [def |-> {}, use |-> {}, dist |-> [v \in Vars |-> 0]]
ScanFrom(qs) ==   \* what the scan has found when it has come to the i-th quadruple
  LET after[i \in 1..(Len(qs) + 1)] ==
        IF i = Len(qs) + 1 THEN Nothing ELSE ScanQuadr(after[i + 1], qs[i], i - 1)
  IN after
ScanBlock(qs) == ScanFrom(qs)[1]

Scan ==
  /\ pc = "scan"
  /\ LET s == ScanBlock(code[scan])
     IN /\ def' = [def EXCEPT ![scan] = s.def]
        /\ in' = [in EXCEPT ![scan] = s.use]
        /\ dist' = [dist EXCEPT ![scan] = s.dist]
  /\ scan' = NextBlock(scan)
  /\ pc' = IF scan = N THEN "traverse" ELSE "scan"
  /\ UNCHANGED <<code, child, out, visited, stack, changed>>
-----------------------------------------------------------------------------
(* compute_in_out: what is live at the start of the child c is live at the *)
(* end of b, and at the start of b unless b defines it.  A distance once   *)
(* recorded for b is not lowered: the code compares and writes the child's *)
(* (node instead of node2).                                                *)
InstrNum(b) == Len(code[b])
State == [in |-> in, out |-> out, dist |-> dist, changed |-> changed]

NewIn(s, b, c) == (s.in[c] \ def[b]) \ s.in[b]
DistSame(s, b, c) == s.dist[c]   \* a variant that forgets the length of the block
DistThrough(s, b, c) == [v \in Vars |-> s.dist[c][v] + InstrNum(b)]

GrewLast(s, b, c) == NewIn(s, b, c) # {}                    \* a variant that resets the flag
GrewAny(s, b, c) == s.changed \/ s.in[c] \ def[b] # {}      \* a variant for old ones, too
Grew(s, b, c) == s.changed \/ NewIn(s, b, c) # {}

Smaller(i, j) == IF i <= j THEN i ELSE j
ComputeInOut(s, b, c) ==
  IF c = NoBlock THEN s
  ELSE LET pass == s.in[c] \ def[b]
           new == NewIn(s, b, c)
           far == DistThrough(s, b, c)
           d == [s.dist EXCEPT ![b] = [v \in Vars |-> IF v \in new THEN far[v] ELSE @[v]]]
       IN [in |-> [s.in EXCEPT ![b] = @ \cup pass],
           out |-> [s.out EXCEPT ![b] = @ \cup s.in[c]],
           dist |-> [d EXCEPT ![c] = [v \in Vars |-> IF v \in pass \ new
                                                    THEN Smaller(@[v], far[v]) ELSE @[v]]],
           changed |-> Grew(s, b, c)]

(* analyze_liveness: another traversal from the root, as long as the last  *)
(* one changed something. *)
Top == stack[Len(stack)]
Unvisited(b) == {i \in 1..2 : child[b][i] # NoBlock /\ child[b][i] \notin visited}

BeginTraversal ==
  /\ pc = "traverse" /\ stack = <<>> /\ changed
  /\ changed' = FALSE
  /\ visited' = {1}
  /\ stack' = <<1>>
  /\ UNCHANGED <<code, child, pc, scan, def, in, out, dist>>

(* do_liveness calls itself for child1, then for child2. *)
Visit ==
  /\ stack # <<>> /\ Unvisited(Top) # {}
  /\ LET c == child[Top][IF 1 \in Unvisited(Top) THEN 1 ELSE 2]
     IN visited' = visited \cup {c} /\ stack' = Append(stack, c)
  /\ UNCHANGED <<code, child, pc, scan, def, in, out, dist, changed>>

Leave ==
  /\ stack # <<>> /\ Unvisited(Top) = {}
  /\ LET s == ComputeInOut(ComputeInOut(State, Top, child[Top][1]), Top, child[Top][2])
     IN in' = s.in /\ out' = s.out /\ dist' = s.dist /\ changed' = s.changed
  /\ stack' = SubSeq(stack, 1, Len(stack) - 1)
  /\ UNCHANGED <<code, child, pc, scan, def, visited>>

Finish ==
  /\ pc = "traverse" /\ stack = <<>> /\ ~changed
  /\ pc' = "done"
  /\ UNCHANGED <<code, child, scan, def, in, out, dist, visited, stack, changed>>

Init ==
  /\ code \in Codes
  /\ child = [b \in Blocks |-> <<NoBlock, NoBlock>>]
  /\ pc = "graph" /\ scan = 1
  /\ def = [b \in Blocks |-> {}] /\ in = [b \in Blocks |-> {}] /\ out = [b \in Blocks |-> {}]
  /\ dist = [b \in Blocks |-> [v \in Vars |-> 0]]
  /\ visited = {} /\ stack = <<>>
  /\ changed = TRUE

Next == CreateGraph \/ Scan \/ BeginTraversal \/ Visit \/ Leave \/ Finish

(* The analysis runs to its end unless it loops. *)
Spec == Init /\ [][Next]_vars /\ WF_vars(Next)
-----------------------------------------------------------------------------
(* The reference: program points <<b, i>> before the i-th quadruple of b;  *)
(* the one after the last quadruple stands for the block's end. *)
Points == UNION {{<<b, i>> : i \in 1..(InstrNum(b) + 1)} : b \in Blocks}
Here(p) == p[2] <= InstrNum(p[1])
QuadrAt(p) == code[p[1]][p[2]]
After(p) ==
  IF Here(p) THEN {<<p[1], p[2] + 1>>}
  ELSE {<<child[p[1]][i], 1>> : i \in {j \in 1..2 : child[p[1]][j] # NoBlock}}

(* How many quadruples are executed from p, along some path through no     *)
(* point twice, until one that uses v, none before it using or defining v. *)
UsedHere(v) == [p \in Points |-> IF Here(p) /\ Used(QuadrAt(p), v) THEN {0} ELSE {}]
Touches(p, v) == Here(p) /\ (Used(QuadrAt(p), v) \/ Assigned(QuadrAt(p), v))
Onward(prev, p) ==
  LET far == UNION {prev[q] : q \in After(p)} IN IF Here(p) THEN {d + 1 : d \in far} ELSE far
UsedLater(prev, v) == [p \in Points |-> IF Touches(p, v) THEN prev[p] ELSE Onward(prev, p)]
DistsUpTo(v) ==
  LET D[n \in 0..Cardinality(Points)] ==
        IF n = 0 THEN UsedHere(v) ELSE UsedLater(D[n - 1], v)
  IN D
UseDists(v) ==
  LET last == DistsUpTo(v)[Cardinality(Points)] IN [b \in Blocks |-> last[<<b, 1>>]]

(* The blocks that can be reached: the least set that has the first block  *)
(* and the successors of its blocks. *)
Closed(C) == 1 \in C /\ \A b \in C : \A i \in 1..2 : child[b][i] \in C \cup {NoBlock}
Reachable == {b \in Blocks : \A C \in SUBSET Blocks : Closed(C) => b \in C}

(* At the end, a variable is live at the start of a block that can be      *)
(* reached exactly if some path from there uses it before it assigns it,   *)
(* and live at the end exactly if it is at the start of a successor.  The  *)
(* analysis stops when a whole traversal has found nothing new: too early  *)
(* and the allocator drops a value that a loop reads again.                *)
InExact ==
  pc = "done" => \A v \in Vars : LET d == UseDists(v)
                                 IN \A b \in Reachable : v \in in[b] <=> d[b] # {}
OutExact ==
  pc = "done" => \A b \in Reachable :
                   out[b] = UNION {in[child[b][i]] : i \in {j \in 1..2 : child[b][j] # NoBlock}}

(* The distance recorded for a variable is the one along some path: it is  *)
(* a use the program really has, that far away. *)
DistReal ==
  pc = "done" => \A v \in Vars : LET d == UseDists(v)
                                 IN \A b \in Reachable : v \in in[b] => dist[b][v] \in d[b]

(* doc.tex: the distance is that of the first use in the block, or else    *)
(* the minimum of those of the successors.  It does not hold: a distance   *)
(* once recorded is not lowered. *)
DistNearest ==
  pc = "done" =>
    \A b \in Reachable : \A v \in in[b] : \A i \in 1..2 :
      LET c == child[b][i]
      IN c # NoBlock /\ v \in in[c] /\ v \notin ScanBlock(code[b]).use
         => dist[b][v] <= dist[c][v] + InstrNum(b)

(* A variant that takes the arguments before the result. *)
LiveArgsFirst(q, after) ==
  LET all == after \cup q.args
  IN IF q.result \in Vars /\ Assigned(q, q.result) THEN all \ {q.result}
     ELSE all \cup ({q.result} \cap Vars)

(* gencode_for_block: liveness inside a block, from what is live at its    *)
(* end. *)
LiveBeforeQuadr(q, after) ==
  LET r == q.result
  IN (IF r \in Vars /\ Assigned(q, r) THEN after \ {r}
      ELSE IF r \in Vars THEN after \cup {r} ELSE after) \cup q.args
LiveBefore(b) ==
  LET L[i \in 1..(InstrNum(b) + 1)] ==
        IF i = InstrNum(b) + 1 THEN out[b] ELSE LiveBeforeQuadr(code[b][i], L[i + 1])
  IN L

(* The code generator's liveness agrees at the start of every block, also  *)
(* of those never reached, with that of the analysis: init_descr gives     *)
(* places to the variables live at the start, and the generator counts on  *)
(* these being the ones its own scan leaves live. *)
ScanAgrees == pc = "done" => \A b \in Blocks : LiveBefore(b)[1] = in[b]

(* The analysis comes to an end, also for loops that cannot be left. *)
Termination == <>(pc = "done")
=============================================================================
