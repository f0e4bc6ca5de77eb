----------------------------- MODULE ExprGraph ------------------------------
(***************************************************************************)
(* optimize_local of opt.cpp on one basic block: arithmetic and copies are *)
(* entered into a graph with one node for each expression, which remembers *)
(* the variables to be set to its value; before every other quadruple, and *)
(* at the end, code is generated from the graph and the graph is emptied.  *)
(*                                                                         *)
(* A step enters one quadruple.  A node is its number: nodes are allocated *)
(* from one pool in order, so that it stands for the address, too, and for *)
(* the id.  The tree "graph" is the set of nodes that are not leaves.      *)
(***************************************************************************)
EXTENDS Quadruples

CONSTANTS
  NewVars,  \* declare_var: the variables it gives, in order; a bound
  IdRange   \* how many ids have a place of their own in a key

(* opt.cpp assumes that the ids of a graph fit in a key; every node may    *)
(* need a variable. *)
ASSUME ExprGraphAssumption ==
  /\ NewVars \in Seq(Vars) /\ IsInjective(NewVars)
  /\ IdRange \in Nat /\ Len(NewVars) <= IdRange

VARIABLES
  rest,     \* the quadruples that are not entered yet
  graph     \* nodes, at (var_node), out (the code so far), used (how many of
            \* NewVars), failed (error() was called), stale (see ListsTrue)

graphVars == <<rest, graph>>

Null == 0
NoNodes == [v \in Vars |-> Null]

(* gencode's list of a node may name a variable that has another value by  *)
(* now; but a leaf for a variable always lists that variable itself, which *)
(* is skipped. *)
ListsTrue(g) ==
  \A n \in DOMAIN g.nodes : \A v \in ToSet(g.nodes[n].list) :
    g.at[v] = n \/ (g.nodes[n].tag = "leaf" /\ g.nodes[n].arg = v)
-----------------------------------------------------------------------------
(* new_graph_leaf *)
Leaf(a) == [tag |-> "leaf", op |-> "none", left |-> Null, right |-> Null, arg |-> a,
            list |-> <<>>, result |-> None]

(* The leaf of a constant, or the node a variable has its value from. *)
Node(g, a) ==
  IF a \in Vars THEN g.at[a]
  ELSE LET found == {n \in DOMAIN g.nodes : g.nodes[n].tag = "leaf" /\ g.nodes[n].arg = a}
       IN IF found = {} THEN Null ELSE CHOOSE n \in found : TRUE

AddVar(g, n, v) == [g EXCEPT !.nodes[n].list = <<v>> \o @, !.at[v] = n]

(* get_node *)
GetNode(g, a) ==
  LET e == [g EXCEPT !.nodes = Append(@, Leaf(a))]
  IN IF Node(g, a) # Null THEN g
     ELSE IF a \in Vars THEN AddVar(e, Len(e.nodes), a) ELSE e

(* remove_var: the first entry goes, but nothing is done for a leaf. *)
RemoveVar(g, n, v) ==
  IF n = Null \/ g.nodes[n].tag = "leaf" THEN g
  ELSE [g EXCEPT !.nodes[n].list = RemoveFirst(@, v)]

(* A variant of Ordered that never exchanges the operands. *)
AsWritten(op, l, r) == <<l, r>>

(* new_graph_root puts the operands of a commutative operation in order. *)
Ordered(op, l, r) == IF IsCommutative(op) /\ l > r THEN <<r, l>> ELSE <<l, r>>

(* make_key: the ids side by side (node n has the id n - 1).  The bitwise  *)
(* or is a sum as long as the ids stay below IdRange. *)
Key(op, l, r) == <<op, (l - 1) * IdRange + (r - 1)>>

(* new_graph_root, unless rb_insert_if_absent finds a node of the same key.*)
SameNodes(g, op, l, r) ==
  LET key == Key(op, Ordered(op, l, r)[1], Ordered(op, l, r)[2])
  IN {n \in DOMAIN g.nodes : /\ g.nodes[n].op # "none"
                             /\ Key(g.nodes[n].op, g.nodes[n].left, g.nodes[n].right) = key}
NewRoot(g, op, l, r) ==
  LET inner(n) == IF g.nodes[n].tag = "root" THEN "internal" ELSE g.nodes[n].tag
      marked == [n \in DOMAIN g.nodes |->
                   IF n \in {l, r} THEN [g.nodes[n] EXCEPT !.tag = inner(n)] ELSE g.nodes[n]]
      root == [tag |-> "root", op |-> op, left |-> Ordered(op, l, r)[1],
               right |-> Ordered(op, l, r)[2], arg |-> None, list |-> <<>>, result |-> None]
  IN IF SameNodes(g, op, l, r) # {} THEN g ELSE [g EXCEPT !.nodes = Append(marked, root)]

EnterOp ==
  LET q == Head(rest)
      got == GetNode(GetNode(graph, q.arg1), q.arg2)
      l == Node(got, q.arg1)
      r == Node(got, q.arg2)
      g == NewRoot(got, q.op, l, r)
      n == CHOOSE m \in SameNodes(g, q.op, l, r) : TRUE
  IN /\ rest # <<>> /\ q.op \in Arithmetic
     /\ graph' = AddVar(RemoveVar(g, graph.at[q.result], q.result), n, q.result)
     /\ rest' = Tail(rest)

EnterCopy ==
  LET q == Head(rest)
      g == GetNode(graph, q.arg1)
  IN /\ rest # <<>> /\ q.op = "copy"
     /\ graph' = AddVar(RemoveVar(g, g.at[q.result], q.result), Node(g, q.arg1), q.result)
     /\ rest' = Tail(rest)
-----------------------------------------------------------------------------
Emit(g, q) == [g EXCEPT !.out = Append(@, q)]

(* node->result = declare_var(...) *)
WithNewVar(g, n) == [g EXCEPT !.used = @ + 1, !.nodes[n].result = NewVars[g.used + 1]]

(* gencode_for_leaf *)
GenLeaf(g, n) ==
  LET e == WithNewVar(g, n) IN Emit(e, CopyQuadr(e.nodes[n].result, e.nodes[n].arg))

(* update_node_vars *)
UpdateNodeVars(g, n) ==
  LET node == g.nodes[n]
      bad == IF node.tag = "leaf" THEN node.arg ELSE None
      after[k \in 0..Len(node.list)] ==
        IF k = 0 THEN g.out
        ELSE IF node.list[k] = bad THEN after[k - 1]
        ELSE Append(after[k - 1], CopyQuadr(node.list[k], node.result))
  IN [g EXCEPT !.out = after[Len(node.list)], !.nodes[n].list = <<>>]

(* What gencode_for_node does with a node whose operands have results: two *)
(* constants are folded. *)
GenOp(g, n) ==
  LET node == g.nodes[n]
      l == g.nodes[node.left]
      r == g.nodes[node.right]
      e == WithNewVar(g, n)
      val == ConstantOp(node.op, l.arg, r.arg)
  IN IF l.tag = "leaf" /\ r.tag = "leaf" /\ IsConst(l.arg) /\ IsConst(r.arg)
     THEN Emit([e EXCEPT !.nodes[n].tag = "leaf", !.nodes[n].arg = val,
                         !.failed = @ \/ (node.op = "div" /\ r.arg = 0)],
               CopyQuadr(e.nodes[n].result, val))
     ELSE Emit(e, [op |-> node.op, result |-> e.nodes[n].result,
                   arg1 |-> l.result, arg2 |-> r.result])

(* gencode_for_node, but for its calls on the operands. *)
GenNode(g, n) ==
  IF g.nodes[n].result # None THEN g
  ELSE UpdateNodeVars(IF g.nodes[n].tag = "leaf" THEN GenLeaf(g, n) ELSE GenOp(g, n), n)

(* The nodes it comes to in this way, from each of "tops" on: the operands *)
(* of a node first. *)
Below(nodes) ==
  LET below[n \in DOMAIN nodes] ==
        IF nodes[n].tag = "leaf" THEN <<n>>
        ELSE below[nodes[n].left] \o below[nodes[n].right] \o <<n>>
  IN below

Visited(nodes, tops) ==
  LET after[k \in 0..Len(tops)] ==
        IF k = 0 THEN <<>> ELSE after[k - 1] \o Below(nodes)[tops[k]]
  IN after[Len(tops)]

(* The loops of gencode_from_graph, over the variables that are inputs, in *)
(* the order of var_leaves, and over roots and constants. *)
IsInput(g, n) == g.nodes[n].tag = "leaf" /\ g.nodes[n].arg \in Vars

SaveInputs(g) ==
  LET after[k \in 0..Len(g.nodes)] ==
        IF k = 0 THEN g ELSE IF IsInput(g, k) THEN GenLeaf(after[k - 1], k) ELSE after[k - 1]
  IN after[Len(g.nodes)]

GenAll(g, ns) ==
  LET after[k \in 0..Len(ns)] == IF k = 0 THEN g ELSE GenNode(after[k - 1], ns[k])
  IN after[Len(ns)]

SetEqual(g) ==
  LET after[k \in 0..Len(g.nodes)] ==
        IF k = 0 THEN g ELSE IF IsInput(g, k) THEN UpdateNodeVars(after[k - 1], k) ELSE after[k - 1]
  IN after[Len(g.nodes)]

(* find_roots takes them in an order that depends on the shape of the tree, *)
(* int_leaves has the constants in ascending order. *)
Orders(S) == {ns \in [1..Cardinality(S) -> S] : ToSet(ns) = S}
Roots(g) == Orders({n \in DOMAIN g.nodes : g.nodes[n].tag = "root"})
Constants(g) ==
  {ns \in Orders({n \in DOMAIN g.nodes : g.nodes[n].tag = "leaf" /\ IsConst(g.nodes[n].arg)}) :
     \A j, k \in DOMAIN ns : j < k => g.nodes[ns[j]].arg < g.nodes[ns[k]].arg}

(* reset_graph *)
Reset(g) == [g EXCEPT !.nodes = <<>>, !.at = NoNodes]

(* A variant of FromGraph that saves no inputs before the roots are computed. *)
FromGraphLate(g, tops) ==
  [Reset(SetEqual(SaveInputs(GenAll(g, Visited(g.nodes, tops)))))
     EXCEPT !.stale = @ \/ ~ListsTrue(g)]

(* gencode_from_graph: the variables that are inputs are saved, then roots *)
(* and constants are computed, then the variables set that equal an input. *)
FromGraph(g, tops) ==
  [Reset(SetEqual(GenAll(SaveInputs(g), Visited(g.nodes, tops))))
     EXCEPT !.stale = @ \/ ~ListsTrue(g)]

FromGraphInOrder(g) ==
  {FromGraph(g, roots \o constants) : roots \in Roots(g), constants \in Constants(g)}

(* Any other quadruple stays as it is, after the code for the graph. *)
Keep ==
  /\ rest # <<>> /\ Head(rest).op \notin Arithmetic \cup {"copy"}
  /\ \E g \in FromGraphInOrder(graph) : graph' = Emit(g, Head(rest))
  /\ rest' = Tail(rest)

(* The end of the block. *)
Finish ==
  /\ rest = <<>>
  /\ graph' \in FromGraphInOrder(graph)
  /\ UNCHANGED rest

EmptyGraph == [nodes |-> <<>>, at |-> NoNodes, out |-> <<>>, used |-> 0,
               failed |-> FALSE, stale |-> FALSE]
-----------------------------------------------------------------------------
(* The expressions the nodes stand for. *)
Expressions(g) ==
  LET value[n \in DOMAIN g.nodes] ==
        IF g.nodes[n].op # "none"
        THEN Term(g.nodes[n].op, value[g.nodes[n].left], value[g.nodes[n].right])
        ELSE IF g.nodes[n].arg \in Vars THEN Start(g.nodes[n].arg) ELSE Fixed(g.nodes[n].arg)
  IN value

(* Common subexpressions have one node: however it is written, and whatever*)
(* is assigned in between, no expression is computed twice. *)
DistinctNodes == IsInjective(Expressions(graph))

=============================================================================
