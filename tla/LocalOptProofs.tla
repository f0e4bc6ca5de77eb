--------------------------- MODULE LocalOptProofs ---------------------------
(***************************************************************************)
(* Proof that no expression of a block is computed twice, and that the     *)
(* local optimisation keeps what a block computes, for any block.          *)
(*                                                                         *)
(* The block is compared with the code generated so far and the graph: a   *)
(* function "val" from nodes to values says what the nodes stand for, in   *)
(* terms of the values the variables have after the code so far.           *)
(***************************************************************************)
EXTENDS LocalOpt, CopyOptProofs, SequenceTheorems, FiniteSetTheorems

-----------------------------------------------------------------------------
(* Graphs. *)
NodeType ==
  [tag : {"leaf", "root", "internal"}, op : Arithmetic \cup {"none"}, left : Nat, right : Nat,
   arg : Operand \cup {None}, list : Seq(Vars), result : Vars \cup {None}]

GraphType ==
  [nodes : Seq(NodeType), at : [Vars -> Nat], out : Seq(Quadr), used : Nat, failed : BOOLEAN,
   stale : BOOLEAN]

IsLeaf(node) == node.op = "none"
Own == Vars \ ToSet(NewVars)

(* What each node and each entry of var_node looks like. *)
NodeOK(g, n) ==
  LET node == g.nodes[n]
  IN /\ node.result = None
     /\ IsLeaf(node) => node.tag = "leaf" /\ node.arg \in Operand
     /\ ~IsLeaf(node) => /\ node.tag # "leaf"
                         /\ node.left \in 1..(n - 1) /\ node.right \in 1..(n - 1)
                         /\ IsCommutative(node.op) => node.left <= node.right
     /\ node.tag = "internal" =>
          \E m \in DOMAIN g.nodes : ~IsLeaf(g.nodes[m]) /\ n \in {g.nodes[m].left, g.nodes[m].right}

SameLeaf(p, q) == IsLeaf(p) /\ IsLeaf(q) /\ p.arg = q.arg
SameOp(p, q) == ~IsLeaf(p) /\ p.op = q.op /\ p.left = q.left /\ p.right = q.right

AtOK(g, v) ==
  /\ g.at[v] \in 0..Len(g.nodes)
  /\ g.at[v] # 0 => v \in ToSet(g.nodes[g.at[v]].list)
  /\ \A n \in DOMAIN g.nodes : IsLeaf(g.nodes[n]) /\ g.nodes[n].arg = v => g.at[v] # 0

GraphOK(g) ==
  /\ g \in GraphType
  /\ \A n \in DOMAIN g.nodes : NodeOK(g, n)
  /\ \A m, n \in DOMAIN g.nodes :
       SameLeaf(g.nodes[m], g.nodes[n]) \/ SameOp(g.nodes[m], g.nodes[n]) => m = n
  /\ \A v \in Vars : AtOK(g, v)

-----------------------------------------------------------------------------
(* Lists of variables. *)
LEMMA RemoveFirstIs ==
  ASSUME NEW s \in Seq(Vars), NEW v
  PROVE  /\ RemoveFirst(s, v) \in Seq(Vars)
         /\ ToSet(RemoveFirst(s, v)) \subseteq ToSet(s)
         /\ \A w \in ToSet(s) : w # v => w \in ToSet(RemoveFirst(s, v))
<1> PICK n \in Nat : n = Len(s)
  OBVIOUS
<1> DEFINE r == RemoveFirst(s, v)
<1>1. CASE \E k \in 1..n : s[k] = v
  <2> DEFINE I == {k \in 1..n : s[k] = v}
  <2>1. I \in SUBSET Nat /\ I # {}
    BY <1>1
  <2>2. PICK m \in I : \A k \in I : m <= k
    <3> HIDE DEF I
    <3> QED BY <2>1, NatLeast
  <2>3. SelectInSeq(s, LAMBDA w : w = v) \in I
    <3>1. SelectInSeq(s, LAMBDA w : w = v) = CHOOSE x \in I : \A y \in I : x <= y
      BY <2>1 DEF SelectInSeq, Min
    <3> HIDE DEF I
    <3> QED BY <2>2, <3>1
  <2>4. PICK k \in 1..n : k = SelectInSeq(s, LAMBDA w : w = v) /\ s[k] = v
    BY <2>3
  <2>5. r = SubSeq(s, 1, k - 1) \o SubSeq(s, k + 1, Len(s))
    BY <1>1, <2>4 DEF RemoveFirst, RemoveAt
  <2> HIDE DEF r
  <2> DEFINE a == SubSeq(s, 1, k - 1)
             b == SubSeq(s, k + 1, n)
  <2>6. /\ a \in Seq(Vars) /\ Len(a) = k - 1 /\ \A j \in 1..(k - 1) : a[j] = s[j]
        /\ b \in Seq(Vars) /\ Len(b) = n - k /\ \A j \in 1..(n - k) : b[j] = s[k + j]
    OBVIOUS
  <2> HIDE DEF a, b
  <2>7. r = a \o b
    BY <2>5 DEF a, b
  <2>8. /\ r \in Seq(Vars) /\ Len(r) = n - 1
        /\ \A j \in 1..(k - 1) : r[j] = s[j]
        /\ \A j \in k..(n - 1) : r[j] = s[j + 1]
    <3>1. r \in Seq(Vars) /\ Len(r) = Len(a) + Len(b)
      BY <2>6, <2>7, ConcatProperties
    <3>2. \A j \in 1..Len(r) : r[j] = IF j <= Len(a) THEN a[j] ELSE b[j - Len(a)]
      BY <2>6, <2>7, <3>1, ConcatProperties
    <3>3. Len(r) = n - 1
      BY <2>6, <3>1
    <3>4. ASSUME NEW j \in 1..(k - 1) PROVE r[j] = s[j]
      <4>1. j \in 1..Len(r) /\ j <= Len(a)
        BY <2>6, <3>3
      <4> QED BY <2>6, <3>2, <4>1
    <3>5. ASSUME NEW j \in k..(n - 1) PROVE r[j] = s[j + 1]
      <4>1. j \in 1..Len(r) /\ ~(j <= Len(a)) /\ j - Len(a) = j - (k - 1)
        BY <2>6, <3>3
      <4>2. r[j] = b[j - (k - 1)]
        BY <3>2, <4>1
      <4>3. j - (k - 1) \in 1..(n - k) /\ k + (j - (k - 1)) = j + 1
        OBVIOUS
      <4> QED BY <2>6, <4>2, <4>3
    <3> QED BY <3>1, <3>3, <3>4, <3>5
  <2>9. ASSUME NEW w \in ToSet(s), w # v PROVE w \in ToSet(r)
    <3>1. PICK j \in 1..n : s[j] = w
      BY DEF ToSet
    <3>2. j # k
      BY <2>4, <2>9, <3>1
    <3>3. \E x \in 1..(n - 1) : r[x] = w
      <4>1. CASE j < k
        BY <2>8, <3>1, <4>1
      <4>2. CASE j > k
        <5>1. j - 1 \in k..(n - 1) /\ (j - 1) + 1 = j
          BY <4>2
        <5>2. j - 1 \in 1..(n - 1) /\ r[j - 1] = w
          BY <2>8, <3>1, <5>1
        <5> QED BY <5>2
      <4> QED BY <3>2, <4>1, <4>2
    <3>4. DOMAIN r = 1..(n - 1)
      BY <2>8
    <3> QED BY <3>3, <3>4 DEF ToSet
  <2>10. ASSUME NEW w \in ToSet(r) PROVE w \in ToSet(s)
    <3>1. PICK j \in 1..(n - 1) : r[j] = w
      BY <2>8 DEF ToSet
    <3>2. \E x \in 1..n : s[x] = w
      <4>1. CASE j < k
        BY <2>8, <3>1, <4>1
      <4>2. CASE ~(j < k)
        <5>1. j \in k..(n - 1) /\ j + 1 \in 1..n
          BY <4>2
        <5> QED BY <2>8, <3>1, <5>1
      <4> QED BY <4>1, <4>2
    <3> QED BY <3>2 DEF ToSet
  <2> QED BY <2>8, <2>9, <2>10 DEF r
<1>2. CASE ~\E k \in 1..n : s[k] = v
  BY <1>2 DEF RemoveFirst
<1> QED BY <1>1, <1>2

(* A list with one more variable. *)
LEMMA PrependIs ==
  ASSUME NEW l \in Seq(Vars), NEW v \in Vars
  PROVE  <<v>> \o l \in Seq(Vars) /\ ToSet(<<v>> \o l) = ToSet(l) \cup {v}
<1> PICK list : list = <<v>> \o l
  OBVIOUS
<1>1. <<v>> \in Seq(Vars) /\ Len(<<v>>) = 1 /\ <<v>>[1] = v
  OBVIOUS
<1>2. list \in Seq(Vars) /\ Len(list) = 1 + Len(l)
  BY <1>1, ConcatProperties
<1>3. \A j \in 1..Len(list) : list[j] = IF j <= 1 THEN <<v>>[j] ELSE l[j - 1]
  BY <1>1, <1>2, ConcatProperties
<1>4. Len(l) \in Nat /\ DOMAIN l = 1..Len(l) /\ DOMAIN list = 1..Len(list)
  BY <1>2
<1>5. ASSUME NEW w \in ToSet(l) \cup {v} PROVE w \in ToSet(list)
  <2>1. \E j \in 1..Len(list) : list[j] = w
    <3>1. CASE w = v
      BY <1>1, <1>2, <1>3, <1>4, <3>1
    <3>2. CASE w # v
      <4>1. PICK j \in 1..Len(l) : l[j] = w
        BY <1>4, <3>2 DEF ToSet
      <4>2. j + 1 \in 1..Len(list) /\ ~(j + 1 <= 1) /\ (j + 1) - 1 = j
        BY <1>2, <1>4
      <4>3. list[j + 1] = w
        BY <1>3, <4>1, <4>2
      <4> QED BY <4>2, <4>3
    <3> QED BY <3>1, <3>2
  <2> QED BY <1>4, <2>1 DEF ToSet
<1>6. ASSUME NEW w \in ToSet(list) PROVE w \in ToSet(l) \cup {v}
  <2>1. PICK j \in 1..Len(list) : list[j] = w
    BY <1>4 DEF ToSet
  <2>2. CASE j = 1
    BY <1>1, <1>3, <2>1, <2>2
  <2>3. CASE j # 1
    <3>1. j - 1 \in 1..Len(l) /\ ~(j <= 1)
      BY <1>2, <1>4, <2>3
    <3>2. l[j - 1] = w
      BY <1>3, <2>1, <3>1
    <3> QED BY <1>4, <3>1, <3>2 DEF ToSet
  <2> QED BY <2>2, <2>3
<1> QED BY <1>2, <1>5, <1>6

LEMMA OneMore ==
  ASSUME NEW N \in Nat
  PROVE  /\ N + 1 \in Nat /\ N + 1 \in 1..(N + 1) /\ N + 1 # N
         /\ \A m \in 1..N : m \in 1..(N + 1) /\ m # N + 1
         /\ \A m \in 1..(N + 1) : m \in 1..N \/ m = N + 1
         /\ \A m \in 1..N : \A j \in 1..(m - 1) : j \in 1..N
OBVIOUS

(* What a record of a graph, or of a node, is. *)
LEMMA NodeIs ==
  ASSUME NEW p \in NodeType
  PROVE  /\ p = [tag |-> p.tag, op |-> p.op, left |-> p.left, right |-> p.right, arg |-> p.arg,
                 list |-> p.list, result |-> p.result]
         /\ p.tag \in {"leaf", "root", "internal"} /\ p.op \in Arithmetic \cup {"none"}
         /\ p.left \in Nat /\ p.right \in Nat /\ p.arg \in Operand \cup {None}
         /\ p.list \in Seq(Vars) /\ p.result \in Vars \cup {None}
BY DEF NodeType

LEMMA GraphIs ==
  ASSUME NEW g \in GraphType
  PROVE  /\ g = [nodes |-> g.nodes, at |-> g.at, out |-> g.out, used |-> g.used,
                 failed |-> g.failed, stale |-> g.stale]
         /\ g.nodes \in Seq(NodeType) /\ Len(g.nodes) \in Nat /\ DOMAIN g.nodes = 1..Len(g.nodes)
         /\ \A n \in 1..Len(g.nodes) : g.nodes[n] \in NodeType
         /\ g.at \in [Vars -> Nat] /\ g.out \in Seq(Quadr) /\ g.used \in Nat
         /\ g.failed \in BOOLEAN /\ g.stale \in BOOLEAN
BY DEF GraphType

LEMMA GraphFrom ==
  ASSUME NEW g, NEW nodes \in Seq(NodeType), NEW at \in [Vars -> Nat], NEW out \in Seq(Quadr),
         NEW used \in Nat, NEW failed \in BOOLEAN, NEW stale \in BOOLEAN,
         g = [nodes |-> nodes, at |-> at, out |-> out, used |-> used, failed |-> failed, stale |-> stale]
  PROVE  g \in GraphType
BY DEF GraphType

(* add_var *)
WithList(node, list) == [node EXCEPT !.list = list]

LEMMA WithListIs ==
  ASSUME NEW p \in NodeType, NEW list \in Seq(Vars)
  PROVE  /\ WithList(p, list) \in NodeType
         /\ WithList(p, list) = [tag |-> p.tag, op |-> p.op, left |-> p.left, right |-> p.right,
                                 arg |-> p.arg, list |-> list, result |-> p.result]
<1>1. WithList(p, list) = [tag |-> p.tag, op |-> p.op, left |-> p.left, right |-> p.right,
                           arg |-> p.arg, list |-> list, result |-> p.result]
  BY NodeIs DEF WithList
<1> QED BY <1>1, NodeIs DEF NodeType

WithNode(nodes, n, node) == [nodes EXCEPT ![n] = node]

LEMMA WithNodeIs ==
  ASSUME NEW nodes \in Seq(NodeType), NEW n \in 1..Len(nodes), NEW p \in NodeType
  PROVE  /\ WithNode(nodes, n, p) \in Seq(NodeType)
         /\ Len(WithNode(nodes, n, p)) = Len(nodes)
         /\ WithNode(nodes, n, p)[n] = p
         /\ \A m \in 1..Len(nodes) : m # n => WithNode(nodes, n, p)[m] = nodes[m]
BY DEF WithNode

(* Nodes that differ in their lists alone. *)
Alike(p, q) ==
  /\ p.tag = q.tag /\ p.op = q.op /\ p.left = q.left /\ p.right = q.right
  /\ p.arg = q.arg /\ p.result = q.result

Relist(nodes, n, list) == WithNode(nodes, n, WithList(nodes[n], list))

LEMMA Relisted ==
  ASSUME NEW nodes \in Seq(NodeType), NEW n \in 1..Len(nodes), NEW list \in Seq(Vars)
  PROVE  /\ Relist(nodes, n, list) \in Seq(NodeType) /\ Len(Relist(nodes, n, list)) = Len(nodes)
         /\ Relist(nodes, n, list)[n].list = list
         /\ \A m \in 1..Len(nodes) : Alike(Relist(nodes, n, list)[m], nodes[m])
         /\ \A m \in 1..Len(nodes) : m # n => Relist(nodes, n, list)[m] = nodes[m]
<1> PICK r : r = Relist(nodes, n, list)
  OBVIOUS
<1> PICK p \in NodeType : p = nodes[n]
  OBVIOUS
<1> PICK q : q = WithList(p, list)
  OBVIOUS
<1>1. q \in NodeType /\ q = [tag |-> p.tag, op |-> p.op, left |-> p.left, right |-> p.right,
                             arg |-> p.arg, list |-> list, result |-> p.result]
  BY WithListIs
<1>2. Alike(q, p) /\ q.list = list
  BY <1>1 DEF Alike
<1>3. r = WithNode(nodes, n, q)
  BY DEF Relist
<1>4. /\ r \in Seq(NodeType) /\ Len(r) = Len(nodes) /\ r[n] = q
      /\ \A m \in 1..Len(nodes) : m # n => r[m] = nodes[m]
  <2>1. nodes \in Seq(NodeType) /\ n \in 1..Len(nodes) /\ q \in NodeType
    BY <1>1
  <2> QED BY ONLY <2>1, <1>3, WithNodeIs
<1>5. ASSUME NEW m \in 1..Len(nodes) PROVE Alike(r[m], nodes[m])
  <2>1. CASE m = n
    BY <1>2, <1>4, <2>1
  <2>2. CASE m # n
    BY <1>4, <2>2 DEF Alike
  <2> QED BY <2>1, <2>2
<1> QED BY <1>2, <1>4, <1>5

LEMMA AddVarIs ==
  ASSUME NEW g \in GraphType, NEW n \in 1..Len(g.nodes), NEW v \in Vars
  PROVE  /\ AddVar(g, n, v) \in GraphType
         /\ AddVar(g, n, v) =
              [nodes |-> Relist(g.nodes, n, <<v>> \o g.nodes[n].list),
               at |-> [g.at EXCEPT ![v] = n], out |-> g.out, used |-> g.used,
               failed |-> g.failed, stale |-> g.stale]
<1> PICK list : list = <<v>> \o g.nodes[n].list
  OBVIOUS
<1> PICK nodes : nodes = Relist(g.nodes, n, list)
  OBVIOUS
<1> PICK at : at = [g.at EXCEPT ![v] = n]
  OBVIOUS
<1>1. g.nodes[n] \in NodeType
  BY GraphIs
<1>2. list \in Seq(Vars)
  BY <1>1, NodeIs
<1>3. nodes \in Seq(NodeType) /\ at \in [Vars -> Nat]
  <2>1. g.nodes \in Seq(NodeType)
    BY GraphIs
  <2>2. nodes \in Seq(NodeType)
    BY <1>2, <2>1, Relisted
  <2>3. n \in Nat /\ g.at \in [Vars -> Nat]
    BY GraphIs
  <2> QED BY <2>2, <2>3
<1>4. AddVar(g, n, v) = [g EXCEPT !.nodes = nodes, !.at = at]
  BY DEF AddVar, Relist, WithNode, WithList
<1>5. AddVar(g, n, v) = [nodes |-> nodes, at |-> at, out |-> g.out, used |-> g.used,
                         failed |-> g.failed, stale |-> g.stale]
  BY <1>4, GraphIs
<1>6. AddVar(g, n, v) \in GraphType
  BY <1>3, <1>5, GraphIs, GraphFrom
<1> QED BY <1>5, <1>6

(* remove_var, for a node that exists or for none. *)
LEMMA RemoveVarIs ==
  ASSUME NEW g \in GraphType, NEW n \in 0..Len(g.nodes), NEW v \in Vars
  PROVE  \/ RemoveVar(g, n, v) = g
         \/ /\ n # 0
            /\ RemoveVar(g, n, v) \in GraphType
            /\ RemoveVar(g, n, v) =
                 [nodes |-> Relist(g.nodes, n, RemoveFirst(g.nodes[n].list, v)),
                  at |-> g.at, out |-> g.out, used |-> g.used, failed |-> g.failed, stale |-> g.stale]
<1> SUFFICES ASSUME RemoveVar(g, n, v) # g
             PROVE  /\ n # 0
                    /\ RemoveVar(g, n, v) \in GraphType
                    /\ RemoveVar(g, n, v) =
                         [nodes |-> Relist(g.nodes, n, RemoveFirst(g.nodes[n].list, v)),
                          at |-> g.at, out |-> g.out, used |-> g.used, failed |-> g.failed, stale |-> g.stale]
  OBVIOUS
<1>0. n # 0 /\ RemoveVar(g, n, v) = [g EXCEPT !.nodes[n].list = RemoveFirst(@, v)]
  BY DEF RemoveVar, Null
<1> PICK list : list = RemoveFirst(g.nodes[n].list, v)
  OBVIOUS
<1> PICK nodes : nodes = Relist(g.nodes, n, list)
  OBVIOUS
<1>1. g.nodes[n] \in NodeType /\ n \in 1..Len(g.nodes)
  BY <1>0, GraphIs
<1>2. list \in Seq(Vars)
  BY <1>1, NodeIs, RemoveFirstIs
<1>3. nodes \in Seq(NodeType)
  <2>1. g.nodes \in Seq(NodeType)
    BY GraphIs
  <2> QED BY <1>1, <1>2, <2>1, Relisted
<1>4. RemoveVar(g, n, v) = [g EXCEPT !.nodes = nodes]
  BY <1>0 DEF Relist, WithNode, WithList
<1>5. RemoveVar(g, n, v) = [nodes |-> nodes, at |-> g.at, out |-> g.out, used |-> g.used,
                            failed |-> g.failed, stale |-> g.stale]
  BY <1>4, GraphIs
<1>6. RemoveVar(g, n, v) \in GraphType
  BY <1>3, <1>5, GraphIs, GraphFrom
<1> QED BY <1>0, <1>5, <1>6

LEMMA AlikeOK ==
  ASSUME NEW g, GraphOK(g), NEW e \in GraphType, Len(e.nodes) = Len(g.nodes),
         \A n \in 1..Len(g.nodes) : Alike(e.nodes[n], g.nodes[n]), \A v \in Vars : AtOK(e, v)
  PROVE  GraphOK(e)
<1>1. DOMAIN e.nodes = 1..Len(g.nodes) /\ DOMAIN g.nodes = 1..Len(g.nodes)
  BY GraphIs DEF GraphOK
<1>2. ASSUME NEW n \in 1..Len(g.nodes) PROVE NodeOK(e, n)
  <2>1. NodeOK(g, n) /\ Alike(e.nodes[n], g.nodes[n])
    BY <1>1 DEF GraphOK
  <2> PICK p, q : p = e.nodes[n] /\ q = g.nodes[n]
    OBVIOUS
  <2>2. /\ p.result = None
        /\ IsLeaf(p) => p.tag = "leaf" /\ p.arg \in Operand
        /\ ~IsLeaf(p) => /\ p.tag # "leaf" /\ p.left \in 1..(n - 1) /\ p.right \in 1..(n - 1)
                         /\ IsCommutative(p.op) => p.left <= p.right
    BY <2>1 DEF NodeOK, Alike, IsLeaf
  <2>3. p.tag = "internal" =>
          \E m \in DOMAIN e.nodes : ~IsLeaf(e.nodes[m]) /\ n \in {e.nodes[m].left, e.nodes[m].right}
    <3> SUFFICES ASSUME p.tag = "internal"
                 PROVE  \E m \in DOMAIN e.nodes :
                          ~IsLeaf(e.nodes[m]) /\ n \in {e.nodes[m].left, e.nodes[m].right}
      OBVIOUS
    <3>1. PICK m \in 1..Len(g.nodes) : ~IsLeaf(g.nodes[m]) /\ n \in {g.nodes[m].left, g.nodes[m].right}
      BY <1>1, <2>1 DEF NodeOK, Alike
    <3>2. Alike(e.nodes[m], g.nodes[m])
      OBVIOUS
    <3> QED BY <1>1, <3>1, <3>2 DEF Alike, IsLeaf
  <2>4. NodeOK(e, n) <=>
          /\ p.result = None
          /\ IsLeaf(p) => p.tag = "leaf" /\ p.arg \in Operand
          /\ ~IsLeaf(p) => /\ p.tag # "leaf"
                           /\ p.left \in 1..(n - 1) /\ p.right \in 1..(n - 1)
                           /\ IsCommutative(p.op) => p.left <= p.right
          /\ p.tag = "internal" =>
               \E m \in DOMAIN e.nodes : ~IsLeaf(e.nodes[m]) /\ n \in {e.nodes[m].left, e.nodes[m].right}
    BY DEF NodeOK
  <2> QED BY ONLY <2>2, <2>3, <2>4
<1>3. ASSUME NEW m \in 1..Len(g.nodes), NEW n \in 1..Len(g.nodes),
             SameLeaf(e.nodes[m], e.nodes[n]) \/ SameOp(e.nodes[m], e.nodes[n])
      PROVE  m = n
  <2>1. SameLeaf(g.nodes[m], g.nodes[n]) \/ SameOp(g.nodes[m], g.nodes[n])
    BY <1>3 DEF SameLeaf, SameOp, IsLeaf, Alike
  <2> QED BY <1>1, <2>1 DEF GraphOK
<1> QED BY <1>1, <1>2, <1>3 DEF GraphOK

(* What add_var and remove_var do together: v's value is that of n now. *)
SetVar(g, old, n, v) == AddVar(RemoveVar(g, old, v), n, v)

VarSet(g, v, n, e) ==
  /\ GraphOK(e)
  /\ Len(e.nodes) = Len(g.nodes)
  /\ \A m \in 1..Len(g.nodes) : /\ Alike(e.nodes[m], g.nodes[m])
                                /\ ToSet(e.nodes[m].list) \subseteq ToSet(g.nodes[m].list) \cup {v}
  /\ \A w \in Vars : e.at[w] = IF w = v THEN n ELSE g.at[w]
  /\ e.out = g.out /\ e.used = g.used /\ e.failed = g.failed /\ e.stale = g.stale

LEMMA SetVarKeeps ==
  ASSUME NEW g, GraphOK(g), NEW v \in Vars, NEW n \in 1..Len(g.nodes), NEW old \in {0, g.at[v]}
  PROVE  VarSet(g, v, n, SetVar(g, old, n, v))
<1> PICK e : e = SetVar(g, old, n, v)
  OBVIOUS
<1>1. g \in GraphType /\ old \in 0..Len(g.nodes)
  BY GraphIs DEF GraphOK, AtOK
<1> PICK f : f = RemoveVar(g, old, v)
  OBVIOUS
<1> PICK N \in Nat : N = Len(g.nodes)
  BY <1>1, GraphIs
<1>2. /\ f \in GraphType /\ Len(f.nodes) = N
      /\ \A m \in 1..N : /\ Alike(f.nodes[m], g.nodes[m])
                         /\ ToSet(f.nodes[m].list) \subseteq ToSet(g.nodes[m].list)
                         /\ \A w \in ToSet(g.nodes[m].list) : w # v => w \in ToSet(f.nodes[m].list)
      /\ f.at = g.at /\ f.out = g.out /\ f.used = g.used /\ f.failed = g.failed /\ f.stale = g.stale
  <2>1. CASE f = g
    BY <1>1, <2>1 DEF Alike
  <2>2. CASE f # g
    <3> PICK list : list = RemoveFirst(g.nodes[old].list, v)
      OBVIOUS
    <3> PICK nodes : nodes = Relist(g.nodes, old, list)
      OBVIOUS
    <3>1. /\ old # 0 /\ f \in GraphType
          /\ f = [nodes |-> nodes, at |-> g.at, out |-> g.out, used |-> g.used,
                  failed |-> g.failed, stale |-> g.stale]
      BY <1>1, <2>2, RemoveVarIs
    <3>2. old \in 1..N /\ g.nodes[old] \in NodeType /\ g.nodes \in Seq(NodeType)
      BY <1>1, <3>1, GraphIs
    <3>3. list \in Seq(Vars)
      BY <3>2, NodeIs, RemoveFirstIs
    <3>5. /\ Len(nodes) = N /\ nodes[old].list = list
          /\ \A m \in 1..N : Alike(nodes[m], g.nodes[m])
          /\ \A m \in 1..N : m # old => nodes[m] = g.nodes[m]
      <4> PICK gs : gs = g.nodes
        OBVIOUS
      <4>1. gs \in Seq(NodeType) /\ old \in 1..Len(gs) /\ Len(gs) = N /\ list \in Seq(Vars)
        BY <3>2, <3>3
      <4>2. nodes = Relist(gs, old, list)
        OBVIOUS
      <4>3. /\ Len(nodes) = N /\ nodes[old].list = list
            /\ \A m \in 1..N : Alike(nodes[m], gs[m])
            /\ \A m \in 1..N : m # old => nodes[m] = gs[m]
        BY ONLY <4>1, <4>2, Relisted
      <4> QED BY <4>3
    <3>6. f.nodes = nodes
      BY <3>1
    <3>7. ASSUME NEW m \in 1..N
          PROVE  /\ Alike(nodes[m], g.nodes[m])
                 /\ ToSet(nodes[m].list) \subseteq ToSet(g.nodes[m].list)
                 /\ \A w \in ToSet(g.nodes[m].list) : w # v => w \in ToSet(nodes[m].list)
      <4>1. CASE m = old
        <5>1. nodes[m].list = list /\ Alike(nodes[m], g.nodes[m])
          BY <3>5, <4>1
        <5>2. g.nodes[m].list \in Seq(Vars)
          BY <3>2, <4>1, NodeIs
        <5> QED BY <4>1, <5>1, <5>2, RemoveFirstIs
      <4>2. CASE m # old
        BY <3>5, <4>2 DEF Alike
      <4> QED BY <4>1, <4>2
    <3>8. f.at = g.at /\ f.out = g.out /\ f.used = g.used /\ f.failed = g.failed /\ f.stale = g.stale
      BY <3>1
    <3> QED BY ONLY <3>1, <3>5, <3>6, <3>7, <3>8
  <2> QED BY <2>1, <2>2
<1>3. n \in 1..N /\ e = AddVar(f, n, v)
  BY DEF SetVar
<1> PICK list : list = <<v>> \o f.nodes[n].list
  OBVIOUS
<1> PICK nodes : nodes = Relist(f.nodes, n, list)
  OBVIOUS
<1>4. /\ e \in GraphType
      /\ e = [nodes |-> nodes, at |-> [f.at EXCEPT ![v] = n], out |-> f.out, used |-> f.used,
              failed |-> f.failed, stale |-> f.stale]
  BY <1>2, <1>3, AddVarIs
<1>5. f.nodes[n] \in NodeType /\ f.nodes \in Seq(NodeType) /\ f.nodes[n].list \in Seq(Vars)
  BY <1>2, <1>3, GraphIs, NodeIs
<1>6. list \in Seq(Vars) /\ ToSet(list) = ToSet(f.nodes[n].list) \cup {v}
  BY <1>5, PrependIs
<1>8. /\ Len(nodes) = N /\ nodes[n].list = list
      /\ \A m \in 1..N : Alike(nodes[m], f.nodes[m])
      /\ \A m \in 1..N : m # n => nodes[m] = f.nodes[m]
  <2> PICK fs : fs = f.nodes
    OBVIOUS
  <2>1. fs \in Seq(NodeType) /\ n \in 1..Len(fs) /\ Len(fs) = N /\ list \in Seq(Vars)
    BY <1>2, <1>3, <1>5, <1>6
  <2>2. nodes = Relist(fs, n, list)
    OBVIOUS
  <2>3. /\ Len(nodes) = N /\ nodes[n].list = list
        /\ \A m \in 1..N : Alike(nodes[m], fs[m])
        /\ \A m \in 1..N : m # n => nodes[m] = fs[m]
    BY ONLY <2>1, <2>2, Relisted
  <2> QED BY <2>3
<1>9. e.nodes = nodes /\ Len(e.nodes) = N
  <2>1. e.nodes = nodes
    BY ONLY <1>4
  <2> QED BY <1>8, <2>1
<1>10. ASSUME NEW m \in 1..N
       PROVE  /\ Alike(e.nodes[m], g.nodes[m])
              /\ ToSet(e.nodes[m].list) \subseteq ToSet(g.nodes[m].list) \cup {v}
              /\ \A w \in ToSet(g.nodes[m].list) : w # v => w \in ToSet(e.nodes[m].list)
              /\ m = n => v \in ToSet(e.nodes[m].list)
  <2>1. /\ Alike(f.nodes[m], g.nodes[m])
        /\ ToSet(f.nodes[m].list) \subseteq ToSet(g.nodes[m].list)
        /\ \A w \in ToSet(g.nodes[m].list) : w # v => w \in ToSet(f.nodes[m].list)
    BY <1>2
  <2>2. CASE m = n
    <3>1. Alike(e.nodes[m], f.nodes[m]) /\ e.nodes[m].list = list
      BY <1>8, <1>9, <2>2
    <3> QED BY <1>6, <2>1, <2>2, <3>1 DEF Alike
  <2>3. CASE m # n
    BY <1>8, <1>9, <2>1, <2>3
  <2> QED BY <2>2, <2>3
<1>11. \A w \in Vars : e.at[w] = IF w = v THEN n ELSE g.at[w]
  BY <1>1, <1>2, <1>4, GraphIs
<1>12. /\ e.out = g.out /\ e.used = g.used /\ e.failed = g.failed /\ e.stale = g.stale
  BY <1>2, <1>4
<1>13. ASSUME NEW w \in Vars PROVE AtOK(e, w)
  <2>1. AtOK(g, w) /\ DOMAIN e.nodes = 1..N /\ DOMAIN g.nodes = 1..N
    BY <1>1, <1>4, <1>9, GraphIs DEF GraphOK
  <2>2. \A m \in 1..N : IsLeaf(e.nodes[m]) /\ e.nodes[m].arg = w => e.at[w] # 0
    <3> SUFFICES ASSUME NEW m \in 1..N, IsLeaf(e.nodes[m]), e.nodes[m].arg = w PROVE e.at[w] # 0
      OBVIOUS
    <3>1. IsLeaf(g.nodes[m]) /\ g.nodes[m].arg = w
      BY <1>10 DEF Alike, IsLeaf
    <3>2. g.at[w] # 0
      BY <2>1, <3>1 DEF AtOK
    <3> QED BY <1>11, <3>2
  <2>3. e.at[w] \in 0..N
    BY <1>11, <2>1 DEF AtOK
  <2>4. e.at[w] # 0 => w \in ToSet(e.nodes[e.at[w]].list)
    <3>1. CASE w = v
      BY <1>10, <1>11, <3>1
    <3>2. CASE w # v
      <4>1. e.at[w] = g.at[w] /\ (g.at[w] # 0 => g.at[w] \in 1..N /\ w \in ToSet(g.nodes[g.at[w]].list))
        BY <1>11, <2>1, <3>2 DEF AtOK
      <4> QED BY <1>10, <3>2, <4>1
    <3> QED BY <3>1, <3>2
  <2> QED BY <1>9, <2>1, <2>2, <2>3, <2>4 DEF AtOK
<1>14. GraphOK(e)
  BY <1>4, <1>9, <1>10, <1>13, AlikeOK
<1>15. VarSet(g, v, n, e)
  BY <1>9, <1>10, <1>11, <1>12, <1>14 DEF VarSet
<1> QED BY <1>15

(* A graph with one more node, whose operands may have become internal. *)
Marked(p, q, n, new) ==
  /\ p.op = q.op /\ p.left = q.left /\ p.right = q.right /\ p.arg = q.arg /\ p.result = q.result
  /\ \/ p.tag = q.tag
     \/ q.tag = "root" /\ p.tag = "internal" /\ ~IsLeaf(new) /\ n \in {new.left, new.right}

LEMMA ExtendOK ==
  ASSUME NEW g, GraphOK(g), NEW e \in GraphType, NEW N \in Nat, N = Len(g.nodes),
         Len(e.nodes) = N + 1, NEW new, new = e.nodes[N + 1],
         \A n \in 1..N : Marked(e.nodes[n], g.nodes[n], n, new),
         NodeOK(e, N + 1),
         \A n \in 1..N : ~SameLeaf(g.nodes[n], new) /\ ~SameOp(g.nodes[n], new),
         \A v \in Vars : AtOK(e, v)
  PROVE  GraphOK(e)
<1>1. DOMAIN e.nodes = 1..(N + 1) /\ DOMAIN g.nodes = 1..N
  BY GraphIs DEF GraphOK
<1>2. ASSUME NEW n \in 1..N PROVE NodeOK(e, n)
  <2>1. NodeOK(g, n) /\ Marked(e.nodes[n], g.nodes[n], n, new)
    BY <1>1 DEF GraphOK
  <2> PICK p, q : p = e.nodes[n] /\ q = g.nodes[n]
    OBVIOUS
  <2>2. /\ p.result = None
        /\ IsLeaf(p) => p.tag = "leaf" /\ p.arg \in Operand
        /\ ~IsLeaf(p) => /\ p.tag # "leaf"
                         /\ p.left \in 1..(n - 1) /\ p.right \in 1..(n - 1)
                         /\ IsCommutative(p.op) => p.left <= p.right
    <3>1. /\ q.result = None
          /\ IsLeaf(q) => q.tag = "leaf" /\ q.arg \in Operand
          /\ ~IsLeaf(q) => /\ q.tag # "leaf"
                           /\ q.left \in 1..(n - 1) /\ q.right \in 1..(n - 1)
                           /\ IsCommutative(q.op) => q.left <= q.right
      BY <2>1 DEF NodeOK
    <3>2. Marked(p, q, n, new)
      BY <2>1
    <3> QED BY ONLY <3>1, <3>2 DEF Marked, IsLeaf
  <2>3. p.tag = "internal" =>
          \E m \in DOMAIN e.nodes : ~IsLeaf(e.nodes[m]) /\ n \in {e.nodes[m].left, e.nodes[m].right}
    <3> SUFFICES ASSUME p.tag = "internal"
                 PROVE  \E m \in DOMAIN e.nodes :
                          ~IsLeaf(e.nodes[m]) /\ n \in {e.nodes[m].left, e.nodes[m].right}
      OBVIOUS
    <3>1. CASE q.tag = "internal"
      <4>1. PICK m \in 1..N : ~IsLeaf(g.nodes[m]) /\ n \in {g.nodes[m].left, g.nodes[m].right}
        BY <1>1, <2>1, <3>1 DEF NodeOK
      <4>2. Marked(e.nodes[m], g.nodes[m], m, new) /\ m \in DOMAIN e.nodes
        BY <1>1
      <4>3. ~IsLeaf(e.nodes[m]) /\ n \in {e.nodes[m].left, e.nodes[m].right}
        BY <4>1, <4>2 DEF Marked, IsLeaf
      <4> QED BY <4>2, <4>3
    <3>2. CASE q.tag # "internal"
      <4>1. ~IsLeaf(new) /\ n \in {new.left, new.right}
        BY <2>1, <3>2 DEF Marked
      <4>2. N + 1 \in DOMAIN e.nodes
        BY <1>1
      <4> QED BY <4>1, <4>2
    <3> QED BY <3>1, <3>2
  <2>4. NodeOK(e, n) <=>
          /\ p.result = None
          /\ IsLeaf(p) => p.tag = "leaf" /\ p.arg \in Operand
          /\ ~IsLeaf(p) => /\ p.tag # "leaf"
                           /\ p.left \in 1..(n - 1) /\ p.right \in 1..(n - 1)
                           /\ IsCommutative(p.op) => p.left <= p.right
          /\ p.tag = "internal" =>
               \E m \in DOMAIN e.nodes : ~IsLeaf(e.nodes[m]) /\ n \in {e.nodes[m].left, e.nodes[m].right}
    BY DEF NodeOK
  <2> QED BY ONLY <2>2, <2>3, <2>4
<1>3. ASSUME NEW n \in 1..(N + 1) PROVE NodeOK(e, n)
  <2>1. n = N + 1 \/ n \in 1..N
    OBVIOUS
  <2> QED BY <1>2, <2>1
<1>4. ASSUME NEW m \in 1..(N + 1), NEW n \in 1..(N + 1),
             SameLeaf(e.nodes[m], e.nodes[n]) \/ SameOp(e.nodes[m], e.nodes[n])
      PROVE  m = n
  <2>1. ASSUME NEW j \in 1..N, NEW p
        PROVE  /\ SameLeaf(e.nodes[j], p) <=> SameLeaf(g.nodes[j], p)
               /\ SameOp(e.nodes[j], p) <=> SameOp(g.nodes[j], p)
               /\ SameLeaf(p, e.nodes[j]) <=> SameLeaf(g.nodes[j], p)
               /\ SameOp(p, e.nodes[j]) <=> SameOp(g.nodes[j], p)
    <3>1. Marked(e.nodes[j], g.nodes[j], j, new)
      OBVIOUS
    <3> QED BY <3>1 DEF Marked, SameLeaf, SameOp, IsLeaf
  <2>2. (m \in 1..N \/ m = N + 1) /\ (n \in 1..N \/ n = N + 1)
    OBVIOUS
  <2>3. CASE m \in 1..N /\ n \in 1..N
    <3>1. SameLeaf(g.nodes[m], e.nodes[n]) \/ SameOp(g.nodes[m], e.nodes[n])
      BY <1>4, <2>1, <2>3
    <3>2. SameLeaf(g.nodes[n], g.nodes[m]) \/ SameOp(g.nodes[n], g.nodes[m])
      BY <2>1, <2>3, <3>1
    <3> QED BY <1>1, <2>3, <3>2 DEF GraphOK
  <2>4. CASE m \in 1..N /\ n = N + 1
    BY <1>4, <2>1, <2>4
  <2>5. CASE m = N + 1 /\ n \in 1..N
    BY <1>4, <2>1, <2>5
  <2> QED BY <2>2, <2>3, <2>4, <2>5
<1> QED BY <1>1, <1>3, <1>4 DEF GraphOK

(* get_node *)
LEMMA NodeFound ==
  ASSUME NEW g, GraphOK(g), NEW a \in Operand, NEW N \in Nat, N = Len(g.nodes)
  PROVE  /\ Node(g, a) \in 0..N
         /\ a \in Vars => Node(g, a) = g.at[a]
         /\ a \notin Vars /\ Node(g, a) # 0 =>
              IsLeaf(g.nodes[Node(g, a)]) /\ g.nodes[Node(g, a)].arg = a
         /\ Node(g, a) = 0 => \A n \in 1..N : ~(IsLeaf(g.nodes[n]) /\ g.nodes[n].arg = a)
<1>1. DOMAIN g.nodes = 1..N
  BY GraphIs DEF GraphOK
<1>2. \A n \in 1..N : g.nodes[n].tag = "leaf" <=> IsLeaf(g.nodes[n])
  BY <1>1 DEF GraphOK, NodeOK
<1>3. CASE a \in Vars
  <2>1. Node(g, a) = g.at[a]
    BY <1>3 DEF Node
  <2>2. AtOK(g, a)
    BY <1>3 DEF GraphOK
  <2>3. g.at[a] \in 0..N /\ (g.at[a] = 0 => \A n \in 1..N : ~(IsLeaf(g.nodes[n]) /\ g.nodes[n].arg = a))
    BY <1>1, <2>2 DEF AtOK
  <2> QED BY <1>3, <2>1, <2>3
<1>4. CASE a \notin Vars
  <2> DEFINE found == {n \in 1..N : g.nodes[n].tag = "leaf" /\ g.nodes[n].arg = a}
  <2>1. Node(g, a) = IF found = {} THEN 0 ELSE CHOOSE n \in found : TRUE
    BY <1>1, <1>4 DEF Node, Null
  <2>2. CASE found = {}
    <3>1. Node(g, a) = 0 /\ \A n \in 1..N : ~(IsLeaf(g.nodes[n]) /\ g.nodes[n].arg = a)
      BY <1>2, <2>1, <2>2
    <3> QED BY <1>4, <3>1
  <2>3. CASE found # {}
    <3>1. Node(g, a) \in found
      <4> HIDE DEF found
      <4> QED BY <2>1, <2>3
    <3>2. Node(g, a) \in 1..N /\ Node(g, a) # 0
      BY <3>1
    <3> QED BY <1>2, <1>4, <3>1, <3>2
  <2> QED BY <2>2, <2>3
<1> QED BY <1>3, <1>4

LEMMA LeafIs ==
  ASSUME NEW a \in Operand, NEW list \in Seq(Vars), NEW p, p = WithList(Leaf(a), list)
  PROVE  /\ p \in NodeType /\ p.list = list /\ IsLeaf(p) /\ p.tag = "leaf" /\ p.arg = a
         /\ p.result = None
<1>1. Leaf(a) \in NodeType
  <2>1. <<>> \in Seq(Vars) /\ 0 \in Nat
    OBVIOUS
  <2> QED BY <2>1 DEF Leaf, NodeType, Null
<1>2. p \in NodeType /\ p = [tag |-> Leaf(a).tag, op |-> Leaf(a).op, left |-> Leaf(a).left,
                             right |-> Leaf(a).right, arg |-> Leaf(a).arg, list |-> list,
                             result |-> Leaf(a).result]
  BY <1>1, WithListIs
<1>3. Leaf(a).tag = "leaf" /\ Leaf(a).op = "none" /\ Leaf(a).arg = a /\ Leaf(a).result = None
  BY DEF Leaf
<1> QED BY <1>2, <1>3 DEF IsLeaf

LEMMA GetNodeNew ==
  ASSUME NEW g, GraphOK(g), NEW a \in Operand, Node(g, a) = 0,
         NEW e, e = GetNode(g, a), NEW N \in Nat, N = Len(g.nodes)
  PROVE  /\ e \in GraphType /\ Len(e.nodes) = N + 1
         /\ \A n \in 1..N : e.nodes[n] = g.nodes[n]
         /\ \A w \in Vars : e.at[w] = IF w = a THEN N + 1 ELSE g.at[w]
         /\ e.out = g.out /\ e.used = g.used /\ e.failed = g.failed /\ e.stale = g.stale
         /\ e.nodes[N + 1] = WithList(Leaf(a), IF a \in Vars THEN <<a>> ELSE <<>>)
<1>1. g \in GraphType /\ g.nodes \in Seq(NodeType) /\ g.at \in [Vars -> Nat]
  BY GraphIs DEF GraphOK
<1> PICK leaf \in NodeType : leaf = Leaf(a) /\ leaf.list = <<>> /\ leaf = WithList(leaf, <<>>)
  <2>1. <<>> \in Seq(Vars) /\ 0 \in Nat
    OBVIOUS
  <2>2. Leaf(a) \in NodeType
    BY <2>1 DEF Leaf, NodeType, Null
  <2>3. Leaf(a).list = <<>>
    BY DEF Leaf
  <2>4. Leaf(a) = WithList(Leaf(a), <<>>)
    BY DEF Leaf, WithList
  <2> QED BY <2>2, <2>3, <2>4
<1> PICK nodes : nodes = Append(g.nodes, leaf)
  OBVIOUS
<1>2. /\ nodes \in Seq(NodeType)
      /\ Len(nodes) = N + 1 /\ nodes[N + 1] = leaf /\ \A n \in 1..N : nodes[n] = g.nodes[n]
  <2> PICK gs : gs = g.nodes
    OBVIOUS
  <2>1. gs \in Seq(NodeType) /\ leaf \in NodeType /\ nodes = Append(gs, leaf) /\ Len(gs) = N
    BY <1>1
  <2>2. /\ nodes \in Seq(NodeType)
        /\ Len(nodes) = N + 1 /\ nodes[N + 1] = leaf /\ \A n \in 1..N : nodes[n] = gs[n]
    BY ONLY <2>1
  <2> QED BY <2>2
<1> PICK f : f = [g EXCEPT !.nodes = nodes]
  OBVIOUS
<1>3. f = [nodes |-> nodes, at |-> g.at, out |-> g.out, used |-> g.used, failed |-> g.failed,
           stale |-> g.stale]
  <2>1. g = [nodes |-> g.nodes, at |-> g.at, out |-> g.out, used |-> g.used, failed |-> g.failed,
             stale |-> g.stale]
    BY <1>1, GraphIs
  <2> QED BY ONLY <2>1, f = [g EXCEPT !.nodes = nodes]
<1>4. /\ f \in GraphType /\ f.nodes = nodes /\ f.at = g.at /\ f.out = g.out /\ f.used = g.used
      /\ f.failed = g.failed /\ f.stale = g.stale
  <2>1. f \in GraphType
    BY <1>1, <1>2, <1>3, GraphIs, GraphFrom
  <2> QED BY <1>3, <2>1
<1>5. e = IF a \in Vars THEN AddVar(f, Len(f.nodes), a) ELSE f
  BY DEF GetNode, Null
<1>6. CASE a \in Vars
  <2> PICK list : list = <<a>>
    OBVIOUS
  <2>8. list \in Seq(Vars)
    BY <1>6
  <2>0. <<a>> \o leaf.list = list
    OBVIOUS
  <2>1. /\ e \in GraphType
        /\ e = [nodes |-> Relist(nodes, N + 1, list), at |-> [g.at EXCEPT ![a] = N + 1],
                out |-> g.out, used |-> g.used, failed |-> g.failed, stale |-> g.stale]
    <3>1. N + 1 \in 1..Len(f.nodes) /\ e = AddVar(f, N + 1, a)
      BY <1>2, <1>4, <1>5, <1>6
    <3>2. /\ e \in GraphType
          /\ e = [nodes |-> Relist(f.nodes, N + 1, <<a>> \o f.nodes[N + 1].list),
                  at |-> [f.at EXCEPT ![a] = N + 1], out |-> f.out, used |-> f.used,
                  failed |-> f.failed, stale |-> f.stale]
      <4>1. f \in GraphType /\ N + 1 \in 1..Len(f.nodes) /\ a \in Vars
        BY <1>4, <1>6, <3>1
      <4> QED BY ONLY <3>1, <4>1, AddVarIs
    <3>3. <<a>> \o f.nodes[N + 1].list = list
      BY <1>2, <1>4, <2>0
    <3> QED BY <1>4, <3>2, <3>3
  <2> PICK ns : ns = Relist(nodes, N + 1, list)
    OBVIOUS
  <2>2. Len(ns) = N + 1 /\ \A n \in 1..(N + 1) : n # N + 1 => ns[n] = nodes[n]
    <3>1. nodes \in Seq(NodeType) /\ N + 1 \in 1..Len(nodes) /\ Len(nodes) = N + 1
      BY <1>2
    <3>2. Len(Relist(nodes, N + 1, list)) = Len(nodes)
      BY ONLY <2>8, <3>1, Relisted
    <3>3. \A n \in 1..Len(nodes) : n # N + 1 => Relist(nodes, N + 1, list)[n] = nodes[n]
      BY ONLY <2>8, <3>1, Relisted
    <3> QED BY <3>1, <3>2, <3>3
  <2>3. ns[N + 1] = WithList(leaf, list)
    <3>1. N + 1 \in 1..Len(nodes) /\ nodes[N + 1] = leaf
      BY <1>2
    <3>2. WithList(leaf, list) \in NodeType
      BY <2>8, WithListIs
    <3>3. ns = WithNode(nodes, N + 1, WithList(leaf, list))
      BY <3>1 DEF Relist
    <3> QED BY ONLY <3>1, <3>2, <3>3, <1>2, WithNodeIs
  <2>4. \A n \in 1..N : ns[n] = g.nodes[n]
    <3>1. \A n \in 1..N : n \in 1..(N + 1) /\ n # N + 1
      OBVIOUS
    <3> QED BY <1>2, <2>2, <3>1
  <2>5. /\ e.nodes = ns /\ e.at = [g.at EXCEPT ![a] = N + 1] /\ e.out = g.out /\ e.used = g.used
        /\ e.failed = g.failed /\ e.stale = g.stale
    BY <2>1
  <2>6. \A w \in Vars : e.at[w] = IF w = a THEN N + 1 ELSE g.at[w]
    BY <1>1, <2>5
  <2> QED BY <1>6, <2>1, <2>2, <2>3, <2>4, <2>5, <2>6
<1>7. CASE a \notin Vars
  <2>1. e = f
    BY <1>5, <1>7
  <2> QED BY <1>2, <1>4, <1>7, <2>1
<1> QED BY <1>6, <1>7

-----------------------------------------------------------------------------
(* What a graph stands for: the value of each node, given the values the   *)
(* variables have before the code for the graph, and the value it holds    *)
(* for each variable of the program, which is benv[v]. *)
WellFormed(x) == x[1] = "fixed" => \E c \in Int : x = Fixed(c)

NodeValue(node, val, env) ==
  IF IsLeaf(node) THEN Value(env, node.arg) ELSE Computed(node.op, val[node.left], val[node.right])

Values(g, val, env) ==
  \A n \in DOMAIN g.nodes : WellFormed(val[n]) /\ val[n] = NodeValue(g.nodes[n], val, env)

Holds(g, val, env, benv) ==
  \A v \in Own : benv[v] = IF g.at[v] = 0 THEN env[v] ELSE val[g.at[v]]

(* The variables listed are among X, but for a leaf's own. *)
ListsIn(g, X) ==
  \A n \in DOMAIN g.nodes : \A v \in ToSet(g.nodes[n].list) :
    v \in X \/ (IsLeaf(g.nodes[n]) /\ g.nodes[n].arg = v)

Quiet(e, g) == e.out = g.out /\ e.used = g.used /\ e.failed = g.failed /\ e.stale = g.stale

LEMMA FixedIs ==
  ASSUME NEW c
  PROVE  Fixed(c)[1] = "fixed" /\ ConstOf(Fixed(c)) = c
<1>1. Fixed(c)[1] = "fixed" /\ Fixed(c)[2] = {<<0, c>>}
  BY DEF Fixed
<1>2. (CHOOSE p \in {<<0, c>>} : TRUE) = <<0, c>>
  OBVIOUS
<1> QED BY <1>1, <1>2 DEF ConstOf

LEMMA OperandValue ==
  ASSUME NEW a \in Operand, NEW env, \A v \in Vars : WellFormed(env[v])
  PROVE  WellFormed(Value(env, a)) /\ (a \notin Vars => a \in Int /\ Value(env, a) = Fixed(a))
BY DEF Operand, Value, WellFormed

(* The node of a constant or a variable, which exists then. *)
GotNode(g, a, e, n) ==
  /\ GraphOK(e)
  /\ Len(g.nodes) <= Len(e.nodes) /\ Len(e.nodes) <= Len(g.nodes) + 1
  /\ n \in 1..Len(e.nodes)
  /\ Quiet(e, g)
  /\ a \in Vars => n = e.at[a]
  /\ \A v \in Vars : e.at[v] = g.at[v] \/ (v = a /\ g.at[v] = 0)
  /\ \A m \in 1..Len(g.nodes) : e.nodes[m] = g.nodes[m]
  /\ a \notin Vars => IsLeaf(e.nodes[n]) /\ e.nodes[n].arg = a
  /\ \A X : ListsIn(g, X) => ListsIn(e, X)
  /\ Len(e.nodes) = Len(g.nodes) + 1 =>
       /\ n = Len(g.nodes) + 1 /\ IsLeaf(e.nodes[n]) /\ e.nodes[n].arg = a
       /\ a \in Vars => g.at[a] = 0
  /\ Len(e.nodes) = Len(g.nodes) => e = g

LEMMA GetNodeKeeps ==
  ASSUME NEW g, GraphOK(g), NEW a \in Operand
  PROVE  GotNode(g, a, GetNode(g, a), Node(GetNode(g, a), a))
<1> PICK e, n : e = GetNode(g, a) /\ n = Node(e, a)
  OBVIOUS
<1> SUFFICES GotNode(g, a, e, n)
  OBVIOUS
<1> PICK N \in Nat : N = Len(g.nodes)
  BY GraphIs DEF GraphOK
<1>0. g \in GraphType /\ DOMAIN g.nodes = 1..N
  BY GraphIs DEF GraphOK
<1>1. CASE Node(g, a) # 0
  <2>1. e = g
    BY <1>1 DEF GetNode, Null
  <2>2. n \in 1..N /\ (a \in Vars => n = e.at[a])
        /\ (a \notin Vars => IsLeaf(e.nodes[n]) /\ e.nodes[n].arg = a)
    BY <1>1, <2>1, NodeFound
  <2>3. Len(g.nodes) = N /\ N <= N + 1 /\ N # N + 1
    BY OneMore
  <2> QED BY <2>1, <2>2, <2>3 DEF Quiet, GotNode
<1>2. CASE Node(g, a) = 0
  <2>1. /\ e \in GraphType /\ Len(e.nodes) = N + 1
        /\ \A m \in 1..N : e.nodes[m] = g.nodes[m]
        /\ \A w \in Vars : e.at[w] = IF w = a THEN N + 1 ELSE g.at[w]
        /\ Quiet(e, g)
        /\ e.nodes[N + 1] = WithList(Leaf(a), IF a \in Vars THEN <<a>> ELSE <<>>)
    BY <1>2, GetNodeNew DEF Quiet
  <2> PICK list : list = IF a \in Vars THEN <<a>> ELSE <<>>
    OBVIOUS
  <2>2. list \in Seq(Vars) /\ (a \in Vars => ToSet(list) = {a}) /\ (a \notin Vars => ToSet(list) = {})
    <3>1. CASE a \in Vars
      <4>1. list = <<a>> /\ list \in Seq(Vars) /\ DOMAIN list = {1} /\ list[1] = a
        BY <3>1
      <4> QED BY <3>1, <4>1 DEF ToSet
    <3>2. CASE a \notin Vars
      <4>1. list = <<>> /\ list \in Seq(Vars) /\ DOMAIN list = {}
        BY <3>2
      <4> QED BY <3>2, <4>1 DEF ToSet
    <3> QED BY <3>1, <3>2
  <2> PICK new : new = e.nodes[N + 1]
    OBVIOUS
  <2>3. /\ new.list = list /\ IsLeaf(new) /\ new.tag = "leaf" /\ new.arg = a /\ new.result = None
    <3>1. new = WithList(Leaf(a), list)
      BY <2>1
    <3>2. list \in Seq(Vars) /\ a \in Operand
      BY <2>2
    <3> QED BY ONLY <3>1, <3>2, LeafIs
  <2>4. DOMAIN e.nodes = 1..(N + 1)
    BY <2>1, GraphIs
  <2>5. \A m \in 1..N : ~(IsLeaf(g.nodes[m]) /\ g.nodes[m].arg = a)
    BY <1>2, NodeFound
  <2>6. a \in Vars => g.at[a] = 0
    BY <1>2, NodeFound
  <2>7. \A m \in 1..(N + 1) : m \in 1..N \/ m = N + 1
    OBVIOUS
  <2>8. ASSUME NEW w \in Vars PROVE AtOK(e, w)
    <3>1. AtOK(g, w)
      BY DEF GraphOK
    <3>2. e.at[w] = IF w = a THEN N + 1 ELSE g.at[w]
      BY <2>1
    <3>3. CASE w = a
      <4>1. e.at[w] = N + 1 /\ N + 1 # 0
        BY <3>2, <3>3
      <4>2. w \in ToSet(e.nodes[N + 1].list)
        BY <2>2, <2>3, <3>3
      <4> QED BY <2>1, <4>1, <4>2 DEF AtOK
    <3>4. CASE w # a
      <4>1. e.at[w] = g.at[w] /\ g.at[w] \in 0..N
            /\ (g.at[w] # 0 => g.at[w] \in 1..N /\ w \in ToSet(g.nodes[g.at[w]].list))
            /\ \A m \in 1..N : IsLeaf(g.nodes[m]) /\ g.nodes[m].arg = w => g.at[w] # 0
        BY <1>0, <3>1, <3>2, <3>4 DEF AtOK
      <4>2. \A m \in 1..(N + 1) : IsLeaf(e.nodes[m]) /\ e.nodes[m].arg = w => m \in 1..N
        BY <2>3, <2>7, <3>4
      <4>3. \A m \in 1..(N + 1) : IsLeaf(e.nodes[m]) /\ e.nodes[m].arg = w => e.at[w] # 0
        BY <2>1, <4>1, <4>2
      <4>4. e.at[w] # 0 => w \in ToSet(e.nodes[e.at[w]].list)
        BY <2>1, <4>1
      <4>5. e.at[w] \in 0..(N + 1)
        BY <4>1
      <4> QED BY <2>1, <2>4, <4>3, <4>4, <4>5 DEF AtOK
    <3> QED BY <3>3, <3>4
  <2>9. GraphOK(e)
    <3>1. \A m \in 1..N : Marked(e.nodes[m], g.nodes[m], m, new)
      BY <2>1 DEF Marked
    <3>2. NodeOK(e, N + 1)
      BY <2>3 DEF NodeOK
    <3>3. \A m \in 1..N : ~SameLeaf(g.nodes[m], new) /\ ~SameOp(g.nodes[m], new)
      BY <2>3, <2>5 DEF SameLeaf, SameOp, IsLeaf
    <3> QED BY <2>1, <2>8, <3>1, <3>2, <3>3, ExtendOK
  <2>10. n = N + 1
    <3>1. /\ n \in 0..(N + 1) /\ (a \in Vars => n = e.at[a])
          /\ a \notin Vars /\ n # 0 => IsLeaf(e.nodes[n]) /\ e.nodes[n].arg = a
          /\ n = 0 => \A m \in 1..(N + 1) : ~(IsLeaf(e.nodes[m]) /\ e.nodes[m].arg = a)
      BY <2>1, <2>9, NodeFound
    <3>2. n # 0
      <4>1. N + 1 \in 1..(N + 1) /\ IsLeaf(e.nodes[N + 1]) /\ e.nodes[N + 1].arg = a
        BY <2>3
      <4> QED BY <3>1, <4>1
    <3>3. n \in 1..N \/ n = N + 1
      BY <3>1, <3>2
    <3>4. CASE a \in Vars
      BY <2>1, <3>1, <3>4
    <3>5. CASE a \notin Vars
      BY <2>1, <2>5, <3>1, <3>2, <3>3, <3>5
    <3> QED BY <3>4, <3>5
  <2>11. \A X : ListsIn(g, X) => ListsIn(e, X)
    <3> SUFFICES ASSUME NEW X, ListsIn(g, X), NEW m \in 1..(N + 1), NEW v \in ToSet(e.nodes[m].list)
                 PROVE  v \in X \/ (IsLeaf(e.nodes[m]) /\ e.nodes[m].arg = v)
      BY <2>4 DEF ListsIn
    <3>1. CASE m = N + 1
      BY <2>2, <2>3, <3>1
    <3>2. CASE m \in 1..N
      <4>1. e.nodes[m] = g.nodes[m] /\ m \in DOMAIN g.nodes
        BY <1>0, <2>1, <3>2
      <4> QED BY <4>1 DEF ListsIn
    <3> QED BY <2>7, <3>1, <3>2
  <2>12. n \in 1..Len(e.nodes)
    BY <2>1, <2>10
  <2>13. IsLeaf(e.nodes[n]) /\ e.nodes[n].arg = a
    BY <2>3, <2>10
  <2>14. \A v \in Vars : e.at[v] = g.at[v] \/ (v = a /\ g.at[v] = 0)
    BY <2>1, <2>6
  <2>15. a \in Vars => n = e.at[a]
    BY <2>1, <2>10
  <2>16. Len(e.nodes) = N + 1 /\ N <= N + 1 /\ N + 1 # N
    BY <2>1
  <2> QED BY <2>1, <2>6, <2>9, <2>10, <2>11, <2>12, <2>13, <2>14, <2>15, <2>16 DEF GotNode
<1> QED BY <1>1, <1>2

(* One more node leaves the values of the others alone. *)
Longer(g, e) ==
  /\ e \in GraphType /\ Len(e.nodes) = Len(g.nodes) + 1
  /\ \A m \in 1..Len(g.nodes) :
       /\ e.nodes[m].op = g.nodes[m].op /\ e.nodes[m].left = g.nodes[m].left
       /\ e.nodes[m].right = g.nodes[m].right /\ e.nodes[m].arg = g.nodes[m].arg
Continues(val2, val, g) == \A m \in 1..Len(g.nodes) : val2[m] = val[m]
LastValue(e, val, env) ==
  LET N == Len(e.nodes) IN WellFormed(val[N]) /\ val[N] = NodeValue(e.nodes[N], val, env)

LEMMA ValuesExtend ==
  ASSUME NEW g, GraphOK(g), NEW e, Longer(g, e), NEW val, NEW env, Values(g, val, env),
         NEW val2, Continues(val2, val, g), LastValue(e, val2, env)
  PROVE  Values(e, val2, env)
<1> PICK N \in Nat : N = Len(g.nodes)
  BY GraphIs DEF GraphOK
<1> USE DEF Longer, Continues, LastValue
<1>1. DOMAIN e.nodes = 1..(N + 1) /\ DOMAIN g.nodes = 1..N
  BY GraphIs DEF GraphOK
<1>2. \A m \in 1..N : val2[m] = val[m]
  OBVIOUS
<1>3. ASSUME NEW m \in 1..N PROVE WellFormed(val2[m]) /\ val2[m] = NodeValue(e.nodes[m], val2, env)
  <2>1. WellFormed(val[m]) /\ val[m] = NodeValue(g.nodes[m], val, env)
    BY <1>1 DEF Values
  <2> PICK p, q : p = e.nodes[m] /\ q = g.nodes[m]
    OBVIOUS
  <2>2. p.op = q.op /\ p.left = q.left /\ p.right = q.right /\ p.arg = q.arg
    OBVIOUS
  <2>3. ~IsLeaf(q) => q.left \in 1..N /\ q.right \in 1..N
    <3>1. NodeOK(g, m)
      BY <1>1 DEF GraphOK
    <3>2. ~IsLeaf(q) => q.left \in 1..(m - 1) /\ q.right \in 1..(m - 1)
      BY <3>1 DEF NodeOK
    <3> QED BY ONLY <3>2, N \in Nat, m \in 1..N, OneMore
  <2>4. ~IsLeaf(q) => val2[p.left] = val[q.left] /\ val2[p.right] = val[q.right]
    BY <1>2, <2>2, <2>3
  <2>5. NodeValue(p, val2, env) = NodeValue(q, val, env)
    BY ONLY <2>2, <2>4 DEF NodeValue, IsLeaf
  <2> QED BY <1>2, <2>1, <2>5
<1>4. \A m \in 1..(N + 1) : m \in 1..N \/ m = N + 1
  BY OneMore
<1>5. \A m \in 1..(N + 1) : WellFormed(val2[m]) /\ val2[m] = NodeValue(e.nodes[m], val2, env)
  BY <1>2, <1>3, <1>4
<1> QED BY <1>1, <1>5 DEF Values

LEMMA GetNodeValues ==
  ASSUME NEW g, GraphOK(g), NEW a \in Operand, NEW e, e = GetNode(g, a), NEW n, n = Node(e, a),
         NEW val, NEW env, NEW benv, \A v \in Vars : WellFormed(env[v]),
         Values(g, val, env), Holds(g, val, env, benv), a \in Vars => a \in Own
  PROVE  \E val2 : /\ Values(e, val2, env) /\ Holds(e, val2, env, benv)
                   /\ val2[n] = Value(benv, a)
                   /\ \A m \in 1..Len(g.nodes) : val2[m] = val[m]
<1> PICK N \in Nat : N = Len(g.nodes)
  BY GraphIs DEF GraphOK
<1>0. /\ GraphOK(e) /\ e \in GraphType /\ DOMAIN g.nodes = 1..N /\ DOMAIN e.nodes = 1..Len(e.nodes)
      /\ Len(e.nodes) \in Nat
  BY GetNodeKeeps, GraphIs DEF GraphOK, GotNode
<1>1. /\ Len(e.nodes) = N \/ Len(e.nodes) = N + 1
      /\ n \in 1..Len(e.nodes)
      /\ a \in Vars => n = e.at[a]
      /\ \A v \in Vars : e.at[v] = g.at[v] \/ (v = a /\ g.at[v] = 0)
      /\ \A m \in 1..N : e.nodes[m] = g.nodes[m]
      /\ a \notin Vars => IsLeaf(e.nodes[n]) /\ e.nodes[n].arg = a
      /\ Len(e.nodes) = N + 1 =>
              /\ n = N + 1 /\ IsLeaf(e.nodes[n]) /\ e.nodes[n].arg = a
              /\ a \in Vars => g.at[a] = 0
      /\ Len(e.nodes) = N => e = g
  <2>1. Len(g.nodes) = N /\ GotNode(g, a, e, n)
    BY GetNodeKeeps
  <2>2. /\ N <= Len(e.nodes) /\ Len(e.nodes) <= N + 1
        /\ n \in 1..Len(e.nodes)
        /\ a \in Vars => n = e.at[a]
        /\ \A v \in Vars : e.at[v] = g.at[v] \/ (v = a /\ g.at[v] = 0)
        /\ \A m \in 1..N : e.nodes[m] = g.nodes[m]
        /\ a \notin Vars => IsLeaf(e.nodes[n]) /\ e.nodes[n].arg = a
        /\ Len(e.nodes) = N + 1 =>
              /\ n = N + 1 /\ IsLeaf(e.nodes[n]) /\ e.nodes[n].arg = a
              /\ a \in Vars => g.at[a] = 0
        /\ Len(e.nodes) = N => e = g
    BY ONLY <2>1 DEF GotNode
  <2>3. Len(e.nodes) = N \/ Len(e.nodes) = N + 1
    BY ONLY <1>0, <2>2, N \in Nat
  <2> QED BY ONLY <2>2, <2>3
<1>2. WellFormed(Value(env, a)) /\ (a \notin Vars => Value(env, a) = Value(benv, a))
      /\ (a \in Vars => Value(env, a) = env[a] /\ Value(benv, a) = benv[a])
  <2>1. WellFormed(Value(env, a))
    BY OperandValue
  <2> QED BY <2>1 DEF Value
<1>3. CASE Len(e.nodes) = N
  <2>1. e = g
    BY <1>1, <1>3
  <2>2. val[n] = Value(benv, a)
    <3>1. CASE a \in Vars
      <4>1. g.at[a] = n /\ n # 0 /\ a \in Own
        BY <1>1, <1>3, <2>1, <3>1
      <4>2. benv[a] = val[n]
        BY <4>1 DEF Holds
      <4> QED BY <1>2, <3>1, <4>2
    <3>2. CASE a \notin Vars
      <4>1. n \in DOMAIN g.nodes /\ IsLeaf(g.nodes[n]) /\ g.nodes[n].arg = a
        BY <1>0, <1>1, <1>3, <2>1, <3>2
      <4>2. val[n] = Value(env, a)
        BY <4>1 DEF Values, NodeValue
      <4> QED BY <1>2, <3>2, <4>2
    <3> QED BY <3>1, <3>2
  <2> QED BY <2>1, <2>2
<1>4. CASE Len(e.nodes) = N + 1
  <2> PICK x : x = Value(env, a)
    OBVIOUS
  <2> PICK val2 : val2 = [m \in 1..(N + 1) |-> IF m = N + 1 THEN x ELSE val[m]]
    OBVIOUS
  <2>1. val2[N + 1] = x /\ \A m \in 1..N : val2[m] = val[m]
    BY OneMore
  <2>2. n = N + 1 /\ IsLeaf(e.nodes[N + 1]) /\ e.nodes[N + 1].arg = a
    BY <1>1, <1>4
  <2>3. Values(e, val2, env)
    <3>1. x = NodeValue(e.nodes[N + 1], val2, env)
      BY <2>2 DEF NodeValue
    <3>2. \A m \in 1..N : /\ e.nodes[m].op = g.nodes[m].op /\ e.nodes[m].left = g.nodes[m].left
                          /\ e.nodes[m].right = g.nodes[m].right /\ e.nodes[m].arg = g.nodes[m].arg
      BY <1>1
    <3>3. LastValue(e, val2, env)
      BY <1>2, <1>4, <2>1, <3>1 DEF LastValue
    <3>4. Longer(g, e) /\ Continues(val2, val, g)
      BY <1>0, <1>4, <2>1, <3>2 DEF Longer, Continues
    <3> QED BY <3>3, <3>4, ValuesExtend
  <2>4. Holds(e, val2, env, benv)
    <3> SUFFICES ASSUME NEW v \in Own
                 PROVE  benv[v] = IF e.at[v] = 0 THEN env[v] ELSE val2[e.at[v]]
      BY DEF Holds
    <3>1. v \in Vars /\ benv[v] = IF g.at[v] = 0 THEN env[v] ELSE val[g.at[v]]
      BY DEF Holds, Own
    <3>2. g.at[v] \in 0..N
      BY <3>1 DEF GraphOK, AtOK
    <3>3. CASE e.at[v] = g.at[v]
      <4>1. g.at[v] # 0 => val2[g.at[v]] = val[g.at[v]]
        BY <2>1, <3>2
      <4> QED BY <3>1, <3>3, <4>1
    <3>4. CASE e.at[v] # g.at[v]
      <4>1. v = a /\ g.at[v] = 0 /\ e.at[v] = N + 1 /\ N + 1 # 0
        BY <1>1, <2>2, <3>1, <3>4
      <4>2. x = env[v]
        BY <1>2, <3>1, <4>1
      <4> QED BY <2>1, <3>1, <4>1, <4>2
    <3> QED BY <3>3, <3>4
  <2>5. val2[n] = Value(benv, a)
    <3>1. CASE a \in Vars
      <4>1. a \in Own /\ g.at[a] = 0
        BY <1>1, <1>4, <3>1
      <4>2. benv[a] = env[a]
        BY <4>1 DEF Holds
      <4> QED BY <1>2, <2>1, <2>2, <3>1, <4>2
    <3>2. CASE a \notin Vars
      BY <1>2, <2>1, <2>2, <3>2
    <3> QED BY <3>1, <3>2
  <2> QED BY <2>1, <2>3, <2>4, <2>5
<1> QED BY <1>1, <1>3, <1>4

-----------------------------------------------------------------------------
(* new_graph_root *)
Rooted(g, op, l, r, e, n) ==
  /\ GraphOK(e)
  /\ n \in 1..Len(e.nodes)
  /\ ~IsLeaf(e.nodes[n]) /\ e.nodes[n].op = op
  /\ <<e.nodes[n].left, e.nodes[n].right>> = Ordered(op, l, r)
  /\ e.at = g.at /\ Quiet(e, g)
  /\ \A m \in 1..Len(g.nodes) :
       /\ e.nodes[m].op = g.nodes[m].op /\ e.nodes[m].left = g.nodes[m].left
       /\ e.nodes[m].right = g.nodes[m].right /\ e.nodes[m].arg = g.nodes[m].arg
       /\ e.nodes[m].list = g.nodes[m].list
  /\ e = g \/ (Len(e.nodes) = Len(g.nodes) + 1 /\ n = Len(g.nodes) + 1 /\ e.nodes[n].list = <<>>)

LEMMA OrderedIs ==
  ASSUME NEW op, NEW N \in Nat, NEW l \in 1..N, NEW r \in 1..N
  PROVE  /\ Ordered(op, l, r)[1] \in 1..N /\ Ordered(op, l, r)[2] \in 1..N
         /\ IsCommutative(op) => Ordered(op, l, r)[1] <= Ordered(op, l, r)[2]
         /\ Ordered(op, l, r) = <<Ordered(op, l, r)[1], Ordered(op, l, r)[2]>>
         /\ {Ordered(op, l, r)[1], Ordered(op, l, r)[2]} = {l, r}
         /\ \/ Ordered(op, l, r) = <<l, r>>
            \/ IsCommutative(op) /\ Ordered(op, l, r) = <<r, l>>
BY DEF Ordered

Retagged(p, tag) == [p EXCEPT !.tag = tag]

LEMMA RetaggedIs ==
  ASSUME NEW p \in NodeType, NEW tag \in {"leaf", "root", "internal"}
  PROVE  /\ Retagged(p, tag) \in NodeType /\ Retagged(p, tag).tag = tag
         /\ Retagged(p, tag).op = p.op /\ Retagged(p, tag).left = p.left
         /\ Retagged(p, tag).right = p.right /\ Retagged(p, tag).arg = p.arg
         /\ Retagged(p, tag).list = p.list /\ Retagged(p, tag).result = p.result
<1>1. Retagged(p, tag) = [tag |-> tag, op |-> p.op, left |-> p.left, right |-> p.right, arg |-> p.arg,
                          list |-> p.list, result |-> p.result]
  BY NodeIs DEF Retagged
<1>2. Retagged(p, tag) \in NodeType
  BY <1>1, NodeIs DEF NodeType
<1> QED BY <1>1, <1>2

(* What NewRoot leaves: the new node last, its children marked internal. *)
RootAdded(e, g, op, l, r) ==
  /\ e \in GraphType /\ Len(e.nodes) = Len(g.nodes) + 1 /\ e.at = g.at /\ Quiet(e, g)
  /\ e.nodes[Len(g.nodes) + 1] =
       [tag |-> "root", op |-> op, left |-> Ordered(op, l, r)[1], right |-> Ordered(op, l, r)[2],
        arg |-> None, list |-> <<>>, result |-> None]
  /\ \A m \in 1..Len(g.nodes) : /\ Marked(e.nodes[m], g.nodes[m], m, e.nodes[Len(g.nodes) + 1])
                                /\ e.nodes[m].list = g.nodes[m].list

LEMMA NewRootNew ==
  ASSUME NEW g, GraphOK(g), NEW N \in Nat, N = Len(g.nodes), NEW op \in Arithmetic,
         NEW l \in 1..N, NEW r \in 1..N, SameNodes(g, op, l, r) = {}, NEW e, e = NewRoot(g, op, l, r)
  PROVE  RootAdded(e, g, op, l, r)
<1>1. g \in GraphType /\ DOMAIN g.nodes = 1..N /\ \A m \in 1..N : g.nodes[m] \in NodeType
  BY GraphIs DEF GraphOK
<1> DEFINE inner(n) == IF g.nodes[n].tag = "root" THEN "internal" ELSE g.nodes[n].tag
<1> PICK marked : marked = [n \in 1..N |-> IF n \in {l, r} THEN Retagged(g.nodes[n], inner(n)) ELSE g.nodes[n]]
  OBVIOUS
<1> PICK root : root = [tag |-> "root", op |-> op, left |-> Ordered(op, l, r)[1],
                        right |-> Ordered(op, l, r)[2], arg |-> None, list |-> <<>>, result |-> None]
  OBVIOUS
<1> PICK nodes : nodes = Append(marked, root)
  OBVIOUS
<1>2. e = [g EXCEPT !.nodes = nodes]
  <2>1. [n \in DOMAIN g.nodes |->
           IF n \in {l, r} THEN [g.nodes[n] EXCEPT !.tag = inner(n)] ELSE g.nodes[n]] = marked
    BY <1>1 DEF Retagged
  <2>2. e = [g EXCEPT !.nodes = Append([n \in DOMAIN g.nodes |->
           IF n \in {l, r} THEN [g.nodes[n] EXCEPT !.tag = inner(n)] ELSE g.nodes[n]], root)]
    BY DEF NewRoot
  <2> QED BY <2>1, <2>2
<1>3. \A n \in 1..N : inner(n) \in {"leaf", "root", "internal"}
  BY <1>1, NodeIs
<1>4. ASSUME NEW m \in 1..N
      PROVE  /\ marked[m] \in NodeType /\ Marked(marked[m], g.nodes[m], m, root)
             /\ marked[m].list = g.nodes[m].list
  <2> PICK p \in NodeType : p = g.nodes[m]
    BY <1>1
  <2>1. CASE m \in {l, r}
    <3> PICK tag \in {"leaf", "root", "internal"} : tag = inner(m)
      BY <1>3
    <3>1. marked[m] = Retagged(p, tag)
      BY <2>1
    <3>2. /\ Retagged(p, tag) \in NodeType /\ Retagged(p, tag).tag = tag
          /\ Retagged(p, tag).op = p.op /\ Retagged(p, tag).left = p.left
          /\ Retagged(p, tag).right = p.right /\ Retagged(p, tag).arg = p.arg
          /\ Retagged(p, tag).list = p.list /\ Retagged(p, tag).result = p.result
      BY RetaggedIs
    <3>3. ~IsLeaf(root) /\ m \in {root.left, root.right}
      <4>1. {Ordered(op, l, r)[1], Ordered(op, l, r)[2]} = {l, r}
        <5>1. Ordered(op, l, r) = <<l, r>> \/ Ordered(op, l, r) = <<r, l>>
          BY ONLY TRUE DEF Ordered
        <5> QED BY ONLY <5>1
      <4>2. root.op = op /\ root.left = Ordered(op, l, r)[1] /\ root.right = Ordered(op, l, r)[2]
        OBVIOUS
      <4>3. op # "none"
        BY DEF Arithmetic
      <4> QED BY <2>1, <4>1, <4>2, <4>3 DEF IsLeaf
    <3>4. tag = p.tag \/ (p.tag = "root" /\ tag = "internal")
      OBVIOUS
    <3> QED BY <3>1, <3>2, <3>3, <3>4 DEF Marked
  <2>2. CASE m \notin {l, r}
    <3>1. marked[m] = p
      BY <2>2
    <3> QED BY <3>1 DEF Marked
  <2> QED BY <2>1, <2>2
<1>5. root \in NodeType
  <2> PICK x, y \in Nat : x = Ordered(op, l, r)[1] /\ y = Ordered(op, l, r)[2]
    <3>1. Ordered(op, l, r)[1] \in 1..N /\ Ordered(op, l, r)[2] \in 1..N
      BY ONLY N \in Nat, l \in 1..N, r \in 1..N, OrderedIs
    <3>2. 1..N \subseteq Nat
      OBVIOUS
    <3> QED BY ONLY <3>1, <3>2
  <2>1. root = [tag |-> "root", op |-> op, left |-> x, right |-> y, arg |-> None, list |-> <<>>,
                result |-> None]
    OBVIOUS
  <2>2. <<>> \in Seq(Vars)
    OBVIOUS
  <2> QED BY ONLY <2>1, <2>2, x \in Nat, y \in Nat, op \in Arithmetic DEF NodeType
<1>6. /\ nodes \in Seq(NodeType) /\ Len(nodes) = N + 1 /\ nodes[N + 1] = root
      /\ \A m \in 1..N : nodes[m] = marked[m]
  <2>1. marked \in [1..N -> NodeType]
    BY <1>4
  <2>2. marked \in Seq(NodeType) /\ Len(marked) = N
    BY ONLY <2>1, N \in Nat, SeqFromFunction
  <2>3. nodes = Append(marked, root)
    OBVIOUS
  <2> QED BY ONLY <1>5, <2>2, <2>3, N \in Nat
<1>7. e = [nodes |-> nodes, at |-> g.at, out |-> g.out, used |-> g.used, failed |-> g.failed,
           stale |-> g.stale]
  <2>1. g = [nodes |-> g.nodes, at |-> g.at, out |-> g.out, used |-> g.used, failed |-> g.failed,
             stale |-> g.stale]
    BY <1>1, GraphIs
  <2> QED BY ONLY <2>1, <1>2
<1>8. e \in GraphType
  BY <1>1, <1>6, <1>7, GraphIs, GraphFrom
<1>9. e.nodes = nodes /\ e.at = g.at /\ Quiet(e, g)
  BY <1>7 DEF Quiet
<1>10. N + 1 \in 1..(N + 1) /\ \A m \in 1..N : e.nodes[m] = marked[m] /\ e.nodes[N + 1] = root
  BY ONLY <1>6, <1>9, N \in Nat, OneMore
<1>11. Len(e.nodes) = N + 1 /\ e.nodes[N + 1] = root
  BY ONLY <1>6, <1>9
<1>12. \A m \in 1..N : /\ Marked(e.nodes[m], g.nodes[m], m, e.nodes[N + 1])
                       /\ e.nodes[m].list = g.nodes[m].list
  BY <1>4, <1>10
<1> QED BY ONLY <1>8, <1>9, <1>11, <1>12, N = Len(g.nodes),
             root = [tag |-> "root", op |-> op, left |-> Ordered(op, l, r)[1],
                     right |-> Ordered(op, l, r)[2], arg |-> None, list |-> <<>>, result |-> None]
        DEF RootAdded

FirstSame(g, op, l, r) == CHOOSE m \in SameNodes(g, op, l, r) : TRUE

(* Ids below IdRange can be read from a key again. *)
LEMMA DigitsApart ==
  ASSUME NEW K \in Nat, NEW a \in 0..(K - 1), NEW b \in 0..(K - 1), NEW c \in 0..(K - 1),
         NEW d \in 0..(K - 1), a * K + b = c * K + d
  PROVE  a = c
<1>1. ASSUME NEW x \in 0..(K - 1), NEW y \in 0..(K - 1), NEW v \in 0..(K - 1),
             NEW w \in 0..(K - 1), x < y
      PROVE  x * K + v < y * K + w
  <2> PICK z \in Nat : y = x + 1 + z
    <3>1. y - x - 1 \in Nat /\ y = x + 1 + (y - x - 1)
      BY <1>1
    <3> QED BY <3>1
  <2>1. y * K = x * K + K + z * K
    OBVIOUS
  <2>2. z * K \in Nat /\ x * K \in Nat
    OBVIOUS
  <2> QED BY <2>1, <2>2
<1> QED BY <1>1

LEMMA KeysApart ==
  ASSUME NEW o, NEW op, NEW a \in 1..IdRange, NEW b \in 1..IdRange, NEW l \in 1..IdRange,
         NEW r \in 1..IdRange
  PROVE  Key(o, a, b) = Key(op, l, r) <=> o = op /\ a = l /\ b = r
<1> SUFFICES ASSUME Key(o, a, b) = Key(op, l, r) PROVE o = op /\ a = l /\ b = r
  OBVIOUS
<1> PICK K \in Nat : K = IdRange
  BY ExprGraphAssumption
<1>1. o = op /\ (a - 1) * K + (b - 1) = (l - 1) * K + (r - 1)
  BY DEF Key
<1>2. /\ a - 1 \in 0..(K - 1) /\ b - 1 \in 0..(K - 1)
      /\ l - 1 \in 0..(K - 1) /\ r - 1 \in 0..(K - 1)
  OBVIOUS
<1>3. a - 1 = l - 1
  BY ONLY K \in Nat, <1>1, <1>2, DigitsApart
<1>4. a = l
  BY <1>3
<1>5. b = r
  <2> PICK p \in Int : p = (a - 1) * K
    OBVIOUS
  <2>1. p + (b - 1) = p + (r - 1)
    BY <1>1, <1>4
  <2> QED BY ONLY <2>1, p \in Int, b \in 1..IdRange, r \in 1..IdRange
<1> QED BY <1>1, <1>4, <1>5

LEMMA SameNodesAre ==
  ASSUME NEW g, GraphOK(g), Len(g.nodes) <= IdRange, NEW op, NEW l \in 1..Len(g.nodes),
         NEW r \in 1..Len(g.nodes), NEW n
  PROVE  n \in SameNodes(g, op, l, r) <=>
           /\ n \in DOMAIN g.nodes /\ ~IsLeaf(g.nodes[n])
           /\ g.nodes[n].op = op /\ <<g.nodes[n].left, g.nodes[n].right>> = Ordered(op, l, r)
<1> PICK N \in Nat : N = Len(g.nodes) /\ DOMAIN g.nodes = 1..N
  BY GraphIs DEF GraphOK
<1> PICK x, y : x = Ordered(op, l, r)[1] /\ y = Ordered(op, l, r)[2]
  OBVIOUS
<1>1. x \in 1..N /\ y \in 1..N /\ Ordered(op, l, r) = <<x, y>>
  BY ONLY N \in Nat, l \in 1..Len(g.nodes), r \in 1..Len(g.nodes), N = Len(g.nodes),
          x = Ordered(op, l, r)[1], y = Ordered(op, l, r)[2], OrderedIs
<1>2. IdRange \in Nat /\ 1..N \subseteq 1..IdRange
  BY ExprGraphAssumption
<1>3. n \in SameNodes(g, op, l, r) <=>
        /\ n \in DOMAIN g.nodes /\ ~IsLeaf(g.nodes[n])
        /\ Key(g.nodes[n].op, g.nodes[n].left, g.nodes[n].right) = Key(op, x, y)
  BY DEF SameNodes, IsLeaf
<1>4. ASSUME n \in DOMAIN g.nodes, ~IsLeaf(g.nodes[n])
      PROVE  /\ Key(g.nodes[n].op, g.nodes[n].left, g.nodes[n].right) = Key(op, x, y)
                <=> g.nodes[n].op = op /\ g.nodes[n].left = x /\ g.nodes[n].right = y
  <2>1. g.nodes[n].left \in 1..N /\ g.nodes[n].right \in 1..N
    <3>1. n \in 1..N /\ g.nodes[n].left \in 1..(n - 1) /\ g.nodes[n].right \in 1..(n - 1)
      BY <1>4 DEF GraphOK, NodeOK
    <3> QED BY <3>1
  <2> PICK o, a, b : o = g.nodes[n].op /\ a = g.nodes[n].left /\ b = g.nodes[n].right
    OBVIOUS
  <2>2. a \in 1..IdRange /\ b \in 1..IdRange /\ x \in 1..IdRange /\ y \in 1..IdRange
    BY <1>1, <1>2, <2>1
  <2>3. Key(o, a, b) = Key(op, x, y) <=> o = op /\ a = x /\ b = y
    BY ONLY <2>2, KeysApart
  <2> QED BY <2>3
<1>5. <<g.nodes[n].left, g.nodes[n].right>> = Ordered(op, l, r)
        <=> g.nodes[n].left = x /\ g.nodes[n].right = y
  BY <1>1
<1> QED BY <1>3, <1>4, <1>5

LEMMA NewRootKeeps ==
  ASSUME NEW g, GraphOK(g), Len(g.nodes) + 1 <= IdRange, NEW op \in Arithmetic,
         NEW l \in 1..Len(g.nodes), NEW r \in 1..Len(g.nodes)
  PROVE  Rooted(g, op, l, r, NewRoot(g, op, l, r), FirstSame(NewRoot(g, op, l, r), op, l, r))
<1> PICK N \in Nat : N = Len(g.nodes)
  BY GraphIs DEF GraphOK
<1> PICK e : e = NewRoot(g, op, l, r)
  OBVIOUS
<1> PICK n : n = CHOOSE m \in SameNodes(e, op, l, r) : TRUE
  OBVIOUS
<1> SUFFICES Rooted(g, op, l, r, e, n)
  BY DEF FirstSame
<1>0. /\ g \in GraphType /\ DOMAIN g.nodes = 1..N /\ op # "none"
      /\ N <= IdRange /\ N + 1 <= IdRange /\ l \in 1..N /\ r \in 1..N
      /\ l \in 1..(N + 1) /\ r \in 1..(N + 1)
  BY GraphIs, ExprGraphAssumption DEF GraphOK, Arithmetic
<1>1. ASSUME NEW f, GraphOK(f), Len(f.nodes) <= IdRange, l \in 1..Len(f.nodes), r \in 1..Len(f.nodes),
             SameNodes(f, op, l, r) # {}, n = CHOOSE m \in SameNodes(f, op, l, r) : TRUE
      PROVE  /\ n \in DOMAIN f.nodes /\ ~IsLeaf(f.nodes[n]) /\ f.nodes[n].op = op
             /\ <<f.nodes[n].left, f.nodes[n].right>> = Ordered(op, l, r)
  <2>1. n \in SameNodes(f, op, l, r)
    BY <1>1
  <2> QED BY ONLY <1>1, <2>1, SameNodesAre
<1>2. CASE SameNodes(g, op, l, r) # {}
  <2>1. e = g
    BY <1>2 DEF NewRoot
  <2>2. /\ n \in 1..N /\ ~IsLeaf(g.nodes[n]) /\ g.nodes[n].op = op
        /\ <<g.nodes[n].left, g.nodes[n].right>> = Ordered(op, l, r)
    BY <1>0, <1>1, <1>2, <2>1
  <2> QED BY <2>1, <2>2 DEF Rooted, Quiet
<1>3. CASE SameNodes(g, op, l, r) = {}
  <2> PICK root : root = [tag |-> "root", op |-> op, left |-> Ordered(op, l, r)[1],
                          right |-> Ordered(op, l, r)[2], arg |-> None, list |-> <<>>, result |-> None]
    OBVIOUS
  <2>1. /\ e \in GraphType /\ Len(e.nodes) = N + 1 /\ e.at = g.at /\ Quiet(e, g)
        /\ e.nodes[N + 1] = root
        /\ \A m \in 1..N : /\ Marked(e.nodes[m], g.nodes[m], m, root)
                           /\ e.nodes[m].list = g.nodes[m].list
    <3>1. RootAdded(e, g, op, l, r)
      BY <1>0, <1>3, NewRootNew
    <3> QED BY ONLY <3>1, N = Len(g.nodes),
               root = [tag |-> "root", op |-> op, left |-> Ordered(op, l, r)[1],
                       right |-> Ordered(op, l, r)[2], arg |-> None, list |-> <<>>, result |-> None]
          DEF RootAdded
  <2>2. DOMAIN e.nodes = 1..(N + 1)
    BY <2>1, GraphIs
  <2>3. /\ root.op = op /\ root.left = Ordered(op, l, r)[1] /\ root.right = Ordered(op, l, r)[2]
        /\ root.list = <<>> /\ root.result = None /\ root.tag = "root"
    OBVIOUS
  <2>4. /\ Ordered(op, l, r) = <<root.left, root.right>> /\ root.left \in 1..N /\ root.right \in 1..N
        /\ IsCommutative(op) => root.left <= root.right
    <3>1. l \in 1..N /\ r \in 1..N
      OBVIOUS
    <3>2. /\ Ordered(op, l, r)[1] \in 1..N /\ Ordered(op, l, r)[2] \in 1..N
          /\ IsCommutative(op) => Ordered(op, l, r)[1] <= Ordered(op, l, r)[2]
          /\ Ordered(op, l, r) = <<Ordered(op, l, r)[1], Ordered(op, l, r)[2]>>
      BY ONLY N \in Nat, <3>1, OrderedIs
    <3> QED BY ONLY <2>3, <3>2
  <2>5. \A m \in 1..N : ~SameLeaf(g.nodes[m], root) /\ ~SameOp(g.nodes[m], root)
    <3> SUFFICES ASSUME NEW m \in 1..N, SameOp(g.nodes[m], root) PROVE FALSE
      BY <1>0, <2>3 DEF SameLeaf, IsLeaf
    <3>1. m \in SameNodes(g, op, l, r)
      <4>1. m \in DOMAIN g.nodes /\ ~IsLeaf(g.nodes[m]) /\ g.nodes[m].op = op
        BY <1>0, <2>3 DEF SameOp
      <4>2. <<g.nodes[m].left, g.nodes[m].right>> = Ordered(op, l, r)
        BY <2>4 DEF SameOp
      <4> QED BY <1>0, <4>1, <4>2, SameNodesAre
    <3> QED BY <1>3, <3>1
  <2>6. ASSUME NEW w \in Vars PROVE AtOK(e, w)
    <3>1. AtOK(g, w)
      BY DEF GraphOK
    <3>2. e.at[w] = g.at[w] /\ g.at[w] \in 0..N
          /\ (g.at[w] # 0 => g.at[w] \in 1..N /\ w \in ToSet(g.nodes[g.at[w]].list))
          /\ \A m \in 1..N : IsLeaf(g.nodes[m]) /\ g.nodes[m].arg = w => g.at[w] # 0
      BY <1>0, <2>1, <3>1 DEF AtOK
    <3>3. \A m \in 1..(N + 1) : IsLeaf(e.nodes[m]) /\ e.nodes[m].arg = w => e.at[w] # 0
      <4> SUFFICES ASSUME NEW m \in 1..(N + 1), IsLeaf(e.nodes[m]), e.nodes[m].arg = w
                   PROVE  e.at[w] # 0
        OBVIOUS
      <4>1. m \in 1..N
        BY <1>0, <2>1, <2>3, OneMore DEF IsLeaf
      <4>2. IsLeaf(g.nodes[m]) /\ g.nodes[m].arg = w
        BY <2>1, <4>1 DEF Marked, IsLeaf
      <4> QED BY <3>2, <4>1, <4>2
    <3>4. e.at[w] # 0 => w \in ToSet(e.nodes[e.at[w]].list)
      BY <2>1, <3>2
    <3>5. e.at[w] \in 0..(N + 1)
      BY <3>2
    <3> QED BY <2>1, <2>2, <3>3, <3>4, <3>5 DEF AtOK
  <2>7. NodeOK(e, N + 1)
    <3>1. ~IsLeaf(root) /\ (N + 1) - 1 = N
      BY <1>0, <2>3 DEF IsLeaf
    <3> QED BY <2>1, <2>3, <2>4, <3>1 DEF NodeOK
  <2>8. GraphOK(e)
    BY <2>1, <2>5, <2>6, <2>7, ExtendOK
  <2>9. N + 1 \in SameNodes(e, op, l, r)
    <3>1. N + 1 \in DOMAIN e.nodes
      BY <2>2, OneMore
    <3>2. ~IsLeaf(root)
      BY <1>0, <2>3 DEF IsLeaf
    <3>3. l \in 1..Len(e.nodes) /\ r \in 1..Len(e.nodes) /\ Len(e.nodes) <= IdRange
      BY <1>0, <2>1
    <3>4. /\ ~IsLeaf(e.nodes[N + 1]) /\ e.nodes[N + 1].op = op
          /\ <<e.nodes[N + 1].left, e.nodes[N + 1].right>> = Ordered(op, l, r)
      BY <2>1, <2>3, <2>4, <3>2
    <3> QED BY ONLY <2>8, <3>1, <3>3, <3>4, SameNodesAre
  <2>10. /\ n \in 1..(N + 1) /\ ~IsLeaf(e.nodes[n]) /\ e.nodes[n].op = op
         /\ <<e.nodes[n].left, e.nodes[n].right>> = Ordered(op, l, r)
    BY <1>0, <1>1, <2>1, <2>2, <2>8, <2>9
  <2>11. n = N + 1
    <3>1. SameOp(e.nodes[n], e.nodes[N + 1])
      BY <2>1, <2>3, <2>4, <2>10 DEF SameOp
    <3> QED BY <2>2, <2>8, <2>10, <3>1, OneMore DEF GraphOK
  <2>12. \A m \in 1..N :
           /\ e.nodes[m].op = g.nodes[m].op /\ e.nodes[m].left = g.nodes[m].left
           /\ e.nodes[m].right = g.nodes[m].right /\ e.nodes[m].arg = g.nodes[m].arg
           /\ e.nodes[m].list = g.nodes[m].list
    BY <2>1 DEF Marked
  <2>13. e.nodes[n].list = <<>>
    BY <2>1, <2>3, <2>11
  <2> QED BY <2>1, <2>8, <2>10, <2>11, <2>12, <2>13 DEF Rooted
<1> QED BY <1>2, <1>3

(* Operations on values. *)
LEMMA ConstantOpIs ==
  ASSUME NEW op \in Arithmetic, NEW a \in Int, NEW b \in Int
  PROVE  ConstantOp(op, a, b) \in Int /\ (IsCommutative(op) => ConstantOp(op, a, b) = ConstantOp(op, b, a))
<1>1. b # 0 => Quotient(a, b) \in Int
  <2> DEFINE size(n) == IF n < 0 THEN -n ELSE n
  <2>1. b # 0 => size(b) \in Nat /\ size(b) > 0 /\ size(a) \in Int
    OBVIOUS
  <2>2. b # 0 => size(a) \div size(b) \in Int
    BY <2>1
  <2> QED BY <2>2 DEF Quotient
<1> QED BY <1>1 DEF ConstantOp, Arithmetic, IsCommutative

LEMMA ComputedIs ==
  ASSUME NEW op \in Arithmetic, NEW x, WellFormed(x), NEW y, WellFormed(y)
  PROVE  WellFormed(Computed(op, x, y)) /\ (IsCommutative(op) => Computed(op, x, y) = Computed(op, y, x))
<1>1. CASE x[1] = "fixed" /\ y[1] = "fixed"
  <2>1. PICK c \in Int : x = Fixed(c)
    BY <1>1 DEF WellFormed
  <2>2. PICK d \in Int : y = Fixed(d)
    BY <1>1 DEF WellFormed
  <2>3. ConstOf(x) = c /\ ConstOf(y) = d
    BY <2>1, <2>2, FixedIs
  <2>4. /\ Computed(op, x, y) = Fixed(ConstantOp(op, c, d))
        /\ Computed(op, y, x) = Fixed(ConstantOp(op, d, c))
    BY <1>1, <2>3 DEF Computed
  <2>5. ConstantOp(op, c, d) \in Int /\ (IsCommutative(op) => ConstantOp(op, c, d) = ConstantOp(op, d, c))
    BY ConstantOpIs
  <2> QED BY <2>4, <2>5 DEF WellFormed
<1>2. CASE ~(x[1] = "fixed" /\ y[1] = "fixed")
  <2>1. Computed(op, x, y) = Term(op, x, y) /\ Computed(op, y, x) = Term(op, y, x)
    BY <1>2 DEF Computed
  <2>2. Term(op, x, y)[1] = op /\ op # "fixed"
    BY DEF Term, Arithmetic
  <2>3. IsCommutative(op) => Term(op, x, y) = Term(op, y, x)
    <3>1. {<<0, x>>, <<0, y>>} = {<<0, y>>, <<0, x>>}
      OBVIOUS
    <3> QED BY <3>1 DEF Term
  <2> QED BY <2>1, <2>2, <2>3 DEF WellFormed
<1> QED BY <1>1, <1>2

Represents(g, env, benv) ==
  \E val : Values(g, val, env) /\ Holds(g, val, env, benv)

GivenAs(s, q) ==
  /\ q.op = "copy" => Given(s, q) = Value(s.env, q.arg1)
  /\ q.op \in Arithmetic => Given(s, q) = Computed(q.op, Value(s.env, q.arg1), Value(s.env, q.arg2))
  /\ q.op = "call" => Given(s, q) = <<"call", {<<0, Len(s.effects) + 1>>}>>

LEMMA GivenIs ==
  ASSUME NEW s, NEW q
  PROVE  GivenAs(s, q)
<1>1. q.op \in Arithmetic => q.op # "copy" /\ q.op # "call"
  BY DEF Arithmetic
<1>2. CASE q.op = "copy"
  <2>1. Given(s, q) = Value(s.env, q.arg1)
    BY <1>1, <1>2 DEF Given
  <2> QED BY <1>1, <1>2, <2>1 DEF GivenAs
<1>3. CASE q.op \in Arithmetic
  <2>1. Given(s, q) = Computed(q.op, Value(s.env, q.arg1), Value(s.env, q.arg2))
    BY <1>1, <1>3 DEF Given
  <2> QED BY <1>1, <1>3, <2>1 DEF GivenAs
<1>4. CASE q.op = "call"
  <2>1. Given(s, q) = <<"call", {<<0, Len(s.effects) + 1>>}>>
    BY <1>1, <1>4 DEF Given
  <2> QED BY <1>1, <1>4, <2>1 DEF GivenAs
<1> QED BY <1>2, <1>3, <1>4 DEF GivenAs

LEMMA NewRootValues ==
  ASSUME NEW g, GraphOK(g), NEW op \in Arithmetic, NEW l \in 1..Len(g.nodes), NEW r \in 1..Len(g.nodes),
         NEW e, NEW n, Rooted(g, op, l, r, e, n),
         NEW val, NEW env, NEW benv, Values(g, val, env), Holds(g, val, env, benv)
  PROVE  \E val2 : /\ Values(e, val2, env) /\ Holds(e, val2, env, benv)
                   /\ val2[n] = Computed(op, val[l], val[r])
<1> PICK N \in Nat : N = Len(g.nodes)
  BY GraphIs DEF GraphOK
<1>0. /\ DOMAIN g.nodes = 1..N /\ e \in GraphType /\ \A m \in 1..N : WellFormed(val[m])
      /\ DOMAIN e.nodes = 1..Len(e.nodes) /\ l \in 1..N /\ r \in 1..N
  BY GraphIs DEF GraphOK, Values, Rooted
<1> PICK x, y : <<x, y>> = Ordered(op, l, r)
  BY DEF Ordered
<1>1. x \in 1..N /\ y \in 1..N /\ (<<x, y>> = <<l, r>> \/ (IsCommutative(op) /\ <<x, y>> = <<r, l>>))
  BY <1>0 DEF Ordered
<1>2. Computed(op, val[x], val[y]) = Computed(op, val[l], val[r]) /\ WellFormed(Computed(op, val[l], val[r]))
  <2>1. WellFormed(val[l]) /\ WellFormed(val[r])
    BY <1>0
  <2>2. WellFormed(Computed(op, val[l], val[r]))
        /\ (IsCommutative(op) => Computed(op, val[l], val[r]) = Computed(op, val[r], val[l]))
    BY <2>1, ComputedIs
  <2>3. (x = l /\ y = r) \/ (IsCommutative(op) /\ x = r /\ y = l)
    BY <1>1
  <2> QED BY <2>2, <2>3
<1>3. n \in 1..Len(e.nodes) /\ ~IsLeaf(e.nodes[n]) /\ e.nodes[n].op = op /\ e.at = g.at
      /\ e.nodes[n].left = x /\ e.nodes[n].right = y
  BY DEF Rooted
<1>4. CASE e = g
  <2>1. val[n] = NodeValue(g.nodes[n], val, env)
    BY <1>0, <1>3, <1>4 DEF Values
  <2>2. val[n] = Computed(op, val[x], val[y])
    BY <1>3, <1>4, <2>1 DEF NodeValue
  <2> QED BY <1>2, <1>4, <2>2
<1>5. CASE e # g
  <2>1. Len(e.nodes) = N + 1 /\ n = N + 1
    BY <1>5 DEF Rooted
  <2> PICK z : z = Computed(op, val[x], val[y])
    OBVIOUS
  <2> PICK val2 : val2 = [m \in 1..(N + 1) |-> IF m = N + 1 THEN z ELSE val[m]]
    OBVIOUS
  <2>2. val2[N + 1] = z /\ \A m \in 1..N : val2[m] = val[m]
    BY OneMore
  <2>3. Values(e, val2, env)
    <3>1. val2[x] = val[x] /\ val2[y] = val[y]
      BY <1>1, <2>2
    <3>2. LastValue(e, val2, env)
      BY <1>2, <1>3, <2>1, <2>2, <3>1 DEF NodeValue, LastValue
    <3>3. \A m \in 1..N : /\ e.nodes[m].op = g.nodes[m].op /\ e.nodes[m].left = g.nodes[m].left
                          /\ e.nodes[m].right = g.nodes[m].right /\ e.nodes[m].arg = g.nodes[m].arg
      BY DEF Rooted
    <3>4. Longer(g, e) /\ Continues(val2, val, g)
      BY <1>0, <2>1, <2>2, <3>3 DEF Longer, Continues
    <3> QED BY <3>2, <3>4, ValuesExtend
  <2>4. Holds(e, val2, env, benv)
    <3> SUFFICES ASSUME NEW v \in Own
                 PROVE  benv[v] = IF e.at[v] = 0 THEN env[v] ELSE val2[e.at[v]]
      BY DEF Holds
    <3>1. v \in Vars /\ benv[v] = IF g.at[v] = 0 THEN env[v] ELSE val[g.at[v]]
      BY DEF Holds, Own
    <3>2. g.at[v] \in 0..N
      BY <3>1 DEF GraphOK, AtOK
    <3>3. g.at[v] # 0 => val2[g.at[v]] = val[g.at[v]]
      BY <2>2, <3>2
    <3> QED BY <1>3, <3>1, <3>3
  <2> QED BY <1>2, <2>1, <2>2, <2>3, <2>4
<1> QED BY <1>4, <1>5

LEMMA SetVarValues ==
  ASSUME NEW g, GraphOK(g), NEW v \in Own, NEW n \in 1..Len(g.nodes), NEW old \in {0, g.at[v]},
         NEW e, e = SetVar(g, old, n, v),
         NEW val, NEW env, NEW benv, Values(g, val, env), Holds(g, val, env, benv),
         NEW benv2, benv2[v] = val[n], \A w \in Own : w # v => benv2[w] = benv[w]
  PROVE  Represents(e, env, benv2)
<1>0. v \in Vars
  BY DEF Own
<1> PICK N \in Nat : N = Len(g.nodes)
  BY GraphIs DEF GraphOK
<1>1. /\ GraphOK(e) /\ Len(e.nodes) = N /\ \A m \in 1..N : Alike(e.nodes[m], g.nodes[m])
      /\ \A w \in Vars : e.at[w] = IF w = v THEN n ELSE g.at[w]
  <2>1. VarSet(g, v, n, e)
    BY ONLY <1>0, GraphOK(g), n \in 1..Len(g.nodes), old \in {0, g.at[v]}, e = SetVar(g, old, n, v),
            SetVarKeeps
  <2> QED BY ONLY <2>1, N = Len(g.nodes) DEF VarSet
<1>2. DOMAIN g.nodes = 1..N /\ DOMAIN e.nodes = 1..N
  BY <1>1, GraphIs DEF GraphOK
<1>3. Values(e, val, env)
  BY <1>1, <1>2 DEF Values, NodeValue, Alike, IsLeaf
<1>4. Holds(e, val, env, benv2)
  <2> SUFFICES ASSUME NEW w \in Own
               PROVE  benv2[w] = IF e.at[w] = 0 THEN env[w] ELSE val[e.at[w]]
    BY DEF Holds
  <2>1. w \in Vars /\ benv[w] = IF g.at[w] = 0 THEN env[w] ELSE val[g.at[w]]
    BY DEF Holds, Own
  <2>2. CASE w = v
    BY <1>1, <2>1, <2>2
  <2>3. CASE w # v
    BY <1>1, <2>1, <2>3
  <2> QED BY <2>2, <2>3
<1> QED BY <1>3, <1>4 DEF Represents

-----------------------------------------------------------------------------
(* Entering a quadruple of the program into the graph. *)
LeavesOwn(g) ==
  \A n \in DOMAIN g.nodes : IsLeaf(g.nodes[n]) /\ g.nodes[n].arg \in Vars => g.nodes[n].arg \in Own
OfProgram(q) == {q.result, q.arg1, q.arg2} \cap ToSet(NewVars) = {}

Entered(g, q, e) ==
  /\ GraphOK(e) /\ Quiet(e, g) /\ Len(e.nodes) <= Len(g.nodes) + 3
  /\ \A X : q.result \in X /\ ListsIn(g, X) => ListsIn(e, X)
  /\ LeavesOwn(g) => LeavesOwn(e)
  /\ \A env, s : (\A v \in Vars : WellFormed(env[v])) /\ State(s) /\ Represents(g, env, s.env) =>
       Represents(e, env, Execute(s, q).env)

LEMMA SetVarLists ==
  ASSUME NEW g, GraphOK(g), NEW v \in Vars, NEW n \in 1..Len(g.nodes), NEW old \in {0, g.at[v]},
         NEW X, v \in X, ListsIn(g, X)
  PROVE  ListsIn(SetVar(g, old, n, v), X)
<1> PICK e : e = SetVar(g, old, n, v)
  OBVIOUS
<1> PICK N \in Nat : N = Len(g.nodes)
  BY GraphIs DEF GraphOK
<1>1. /\ GraphOK(e) /\ Len(e.nodes) = N
      /\ \A m \in 1..N : /\ Alike(e.nodes[m], g.nodes[m])
                         /\ ToSet(e.nodes[m].list) \subseteq ToSet(g.nodes[m].list) \cup {v}
  <2>1. VarSet(g, v, n, e)
    BY ONLY v \in Vars, GraphOK(g), n \in 1..Len(g.nodes), old \in {0, g.at[v]},
            e = SetVar(g, old, n, v), SetVarKeeps
  <2> QED BY ONLY <2>1, N = Len(g.nodes) DEF VarSet
<1>2. DOMAIN g.nodes = 1..N /\ DOMAIN e.nodes = 1..N
  BY <1>1, GraphIs DEF GraphOK
<1>3. ListsIn(e, X)
  <2> SUFFICES ASSUME NEW m \in 1..N, NEW w \in ToSet(e.nodes[m].list)
               PROVE  w \in X \/ (IsLeaf(e.nodes[m]) /\ e.nodes[m].arg = w)
    BY <1>2 DEF ListsIn
  <2>1. w \in ToSet(g.nodes[m].list) \/ w = v
    BY <1>1
  <2>2. w \in ToSet(g.nodes[m].list) => w \in X \/ (IsLeaf(g.nodes[m]) /\ g.nodes[m].arg = w)
    BY <1>2 DEF ListsIn
  <2>3. Alike(e.nodes[m], g.nodes[m])
    BY <1>1
  <2> QED BY <2>1, <2>2, <2>3 DEF Alike, IsLeaf
<1> QED BY <1>3

LEMMA RootedLists ==
  ASSUME NEW g, GraphOK(g), NEW op, NEW l, NEW r, NEW e, NEW n, Rooted(g, op, l, r, e, n),
         NEW X, ListsIn(g, X)
  PROVE  ListsIn(e, X)
<1> PICK N \in Nat : N = Len(g.nodes)
  BY GraphIs DEF GraphOK
<1>1. DOMAIN g.nodes = 1..N /\ DOMAIN e.nodes = 1..Len(e.nodes)
  BY GraphIs DEF GraphOK, Rooted
<1>2. CASE e = g
  BY <1>2
<1>3. CASE e # g
  <2>1. /\ Len(e.nodes) = N + 1 /\ e.nodes[N + 1].list = <<>>
        /\ \A m \in 1..N : /\ e.nodes[m].op = g.nodes[m].op /\ e.nodes[m].arg = g.nodes[m].arg
                           /\ e.nodes[m].list = g.nodes[m].list
    BY <1>3 DEF Rooted
  <2>2. ToSet(e.nodes[N + 1].list) = {}
    BY <2>1 DEF ToSet
  <2> SUFFICES ASSUME NEW m \in 1..(N + 1), NEW w \in ToSet(e.nodes[m].list)
               PROVE  w \in X \/ (IsLeaf(e.nodes[m]) /\ e.nodes[m].arg = w)
    BY <1>1, <2>1 DEF ListsIn
  <2>3. m \in 1..N
    BY <2>2, OneMore
  <2>4. w \in ToSet(g.nodes[m].list)
    BY <2>1, <2>3
  <2>5. w \in X \/ (IsLeaf(g.nodes[m]) /\ g.nodes[m].arg = w)
    BY <1>1, <2>3, <2>4 DEF ListsIn
  <2> QED BY <2>1, <2>3, <2>5 DEF IsLeaf
<1> QED BY <1>2, <1>3

LEMMA OwnArguments ==
  ASSUME NEW q \in Quadr, OfProgram(q), q.op \in Arithmetic \cup {"copy"}
  PROVE  /\ q.arg1 \in Operand /\ (q.arg1 \in Vars => q.arg1 \in Own)
         /\ q.op \in Arithmetic => q.arg2 \in Operand /\ (q.arg2 \in Vars => q.arg2 \in Own)
         /\ q.result \in Own /\ q.result \in Vars
         /\ q.op \in Assigning
<1>1. q.arg1 \in Operand /\ q.result \in Vars /\ (q.op \in Arithmetic => q.arg2 \in Operand)
  BY DEF Quadr, Gone, Arithmetic
<1> QED BY <1>1 DEF OfProgram, Own, Assigning

LEMMA GotLeaves ==
  ASSUME NEW g, GraphOK(g), LeavesOwn(g), NEW a, a \in Vars => a \in Own, NEW e, NEW n, GotNode(g, a, e, n)
  PROVE  LeavesOwn(e)
<1> PICK N \in Nat, M \in Nat : N = Len(g.nodes) /\ M = Len(e.nodes)
  BY GraphIs DEF GraphOK, GotNode
<1>1. DOMAIN g.nodes = 1..N /\ DOMAIN e.nodes = 1..M
  BY GraphIs DEF GraphOK, GotNode
<1>2. /\ N <= M /\ M <= N + 1 /\ \A m \in 1..N : e.nodes[m] = g.nodes[m]
      /\ M = N + 1 => e.nodes[N + 1].arg = a
  BY DEF GotNode
<1>3. \A m \in 1..M : m \in 1..N \/ (m = N + 1 /\ M = N + 1)
  BY <1>2
<1> QED BY <1>1, <1>2, <1>3 DEF LeavesOwn

LEMMA RootLeaves ==
  ASSUME NEW g, GraphOK(g), LeavesOwn(g), NEW op, NEW l, NEW r, NEW e, NEW n, Rooted(g, op, l, r, e, n)
  PROVE  LeavesOwn(e)
<1> PICK N \in Nat, M \in Nat : N = Len(g.nodes) /\ M = Len(e.nodes)
  BY GraphIs DEF GraphOK, Rooted
<1>1. DOMAIN g.nodes = 1..N /\ DOMAIN e.nodes = 1..M
  BY GraphIs DEF GraphOK, Rooted
<1>2. CASE e = g
  BY <1>2
<1>3. CASE M = N + 1 /\ n = N + 1
  <2>1. ~IsLeaf(e.nodes[N + 1]) /\ \A m \in 1..N : e.nodes[m].op = g.nodes[m].op /\ e.nodes[m].arg = g.nodes[m].arg
    BY <1>3 DEF Rooted
  <2>2. \A m \in 1..M : m \in 1..N \/ m = N + 1
    BY <1>3
  <2> QED BY <1>1, <2>1, <2>2 DEF LeavesOwn, IsLeaf
<1> QED BY <1>2, <1>3 DEF Rooted

LEMMA SetLeaves ==
  ASSUME NEW g, GraphOK(g), LeavesOwn(g), NEW v, NEW n, NEW e, VarSet(g, v, n, e)
  PROVE  LeavesOwn(e)
<1> PICK N \in Nat : N = Len(g.nodes) /\ N = Len(e.nodes)
  BY GraphIs DEF GraphOK, VarSet
<1>1. DOMAIN g.nodes = 1..N /\ DOMAIN e.nodes = 1..N
  BY GraphIs DEF GraphOK, VarSet
<1>2. \A m \in 1..N : e.nodes[m].op = g.nodes[m].op /\ e.nodes[m].arg = g.nodes[m].arg
  BY DEF VarSet, Alike
<1> QED BY <1>1, <1>2 DEF LeavesOwn, IsLeaf

LEMMA EnterCopyKeeps ==
  ASSUME NEW g, GraphOK(g), NEW q \in Quadr, OfProgram(q), q.op = "copy",
         NEW f, f = GetNode(g, q.arg1),
         NEW e, e = AddVar(RemoveVar(f, f.at[q.result], q.result), Node(f, q.arg1), q.result)
  PROVE  Entered(g, q, e)
<1> PICK a, v, n : a = q.arg1 /\ v = q.result /\ n = Node(f, a)
  OBVIOUS
<1>1. a \in Operand /\ (a \in Vars => a \in Own) /\ v \in Own /\ v \in Vars /\ q.op \in Assigning
  BY OwnArguments
<1>2. GotNode(g, a, f, n)
  BY <1>1, GetNodeKeeps
<1>3. GraphOK(f) /\ n \in 1..Len(f.nodes) /\ Quiet(f, g)
  BY <1>2 DEF GotNode
<1>4. e = SetVar(f, f.at[v], n, v)
  BY DEF SetVar
<1>10. VarSet(f, v, n, e)
  <2>1. f.at[v] \in {0, f.at[v]}
    OBVIOUS
  <2> QED BY ONLY <1>1, <1>3, <1>4, <2>1, SetVarKeeps
<1>5. GraphOK(e) /\ Len(e.nodes) = Len(f.nodes) /\ Quiet(e, f)
  BY <1>10 DEF VarSet, Quiet
<1>6. Quiet(e, g)
  BY <1>3, <1>5 DEF Quiet
<1>7. Len(e.nodes) <= Len(g.nodes) + 3
  <2>1. Len(f.nodes) <= Len(g.nodes) + 1 /\ Len(g.nodes) \in Nat /\ Len(f.nodes) \in Nat
    BY <1>2, GraphIs DEF GotNode, GraphOK
  <2> QED BY <1>5, <2>1
<1>8. ASSUME NEW X, v \in X, ListsIn(g, X) PROVE ListsIn(e, X)
  <2>1. ListsIn(f, X)
    BY <1>2, <1>8 DEF GotNode
  <2> QED BY <1>1, <1>3, <1>4, <1>8, <2>1, SetVarLists
<1>9. ASSUME NEW env, NEW s, \A w \in Vars : WellFormed(env[w]), State(s), Represents(g, env, s.env)
      PROVE  Represents(e, env, Execute(s, q).env)
  <2> PICK benv, benv2 : benv = s.env /\ benv2 = Execute(s, q).env
    OBVIOUS
  <2>1. PICK val : Values(g, val, env) /\ Holds(g, val, env, benv)
    BY <1>9 DEF Represents
  <2>2. PICK val2 : Values(f, val2, env) /\ Holds(f, val2, env, benv) /\ val2[n] = Value(benv, a)
    BY <1>1, <1>9, <2>1, GetNodeValues
  <2>3. benv2[v] = Given(s, q) /\ \A w \in Vars \ {v} : benv2[w] = benv[w]
    BY <1>1, <1>9, ExecuteIs
  <2>4. Given(s, q) = Value(benv, a)
    <3>1. q.op = "copy" /\ q.arg1 = a /\ s.env = benv
      OBVIOUS
    <3> QED BY ONLY <3>1, GivenIs DEF GivenAs
  <2>5. benv2[v] = val2[n] /\ \A w \in Own : w # v => benv2[w] = benv[w]
    BY <2>2, <2>3, <2>4 DEF Own
  <2> QED BY <1>1, <1>3, <1>4, <2>2, <2>5, SetVarValues
<1>11. LeavesOwn(g) => LeavesOwn(e)
  <2> SUFFICES ASSUME LeavesOwn(g) PROVE LeavesOwn(e)
    OBVIOUS
  <2>1. LeavesOwn(f)
    BY ONLY GraphOK(g), LeavesOwn(g), <1>1, <1>2, GotLeaves
  <2> QED BY ONLY <1>3, <1>10, <2>1, SetLeaves
<1> QED BY <1>5, <1>6, <1>7, <1>8, <1>9, <1>11 DEF Entered

LEMMA NodeStays ==
  ASSUME NEW f, GraphOK(f), NEW a \in Operand, Node(f, a) # 0,
         NEW b, NEW e, NEW m, GotNode(f, b, e, m)
  PROVE  Node(e, a) = Node(f, a)
<1> PICK N \in Nat : N = Len(f.nodes)
  BY GraphIs DEF GraphOK
<1> PICK n, x : n = Node(f, a) /\ x = Node(e, a)
  OBVIOUS
<1>1. GraphOK(e) /\ Len(e.nodes) \in Nat /\ N <= Len(e.nodes)
      /\ \A k \in 1..N : e.nodes[k] = f.nodes[k]
  BY GraphIs DEF GotNode, GraphOK
<1>2. n \in 1..N /\ (a \in Vars => n = f.at[a])
      /\ (a \notin Vars => IsLeaf(f.nodes[n]) /\ f.nodes[n].arg = a)
  BY NodeFound
<1>3. /\ x \in 0..Len(e.nodes) /\ (a \in Vars => x = e.at[a])
      /\ a \notin Vars /\ x # 0 => IsLeaf(e.nodes[x]) /\ e.nodes[x].arg = a
      /\ x = 0 => \A k \in 1..Len(e.nodes) : ~(IsLeaf(e.nodes[k]) /\ e.nodes[k].arg = a)
  BY <1>1, NodeFound
<1>4. CASE a \in Vars
  <2>1. e.at[a] = f.at[a] \/ f.at[a] = 0
    BY <1>4 DEF GotNode
  <2> QED BY <1>2, <1>3, <1>4, <2>1
<1>5. CASE a \notin Vars
  <2>1. n \in 1..Len(e.nodes) /\ IsLeaf(e.nodes[n]) /\ e.nodes[n].arg = a
    BY <1>1, <1>2, <1>5
  <2>2. x \in 1..Len(e.nodes) /\ IsLeaf(e.nodes[x]) /\ e.nodes[x].arg = a
    BY <1>1, <1>3, <1>5, <2>1
  <2>3. SameLeaf(e.nodes[x], e.nodes[n])
    BY <2>1, <2>2 DEF SameLeaf
  <2>4. DOMAIN e.nodes = 1..Len(e.nodes)
    BY <1>1, GraphIs DEF GraphOK
  <2> QED BY <1>1, <2>1, <2>2, <2>3, <2>4 DEF GraphOK
<1> QED BY <1>4, <1>5

LEMMA EnterOpKeeps ==
  ASSUME NEW g, GraphOK(g), Len(g.nodes) + 3 <= IdRange,
         NEW q \in Quadr, OfProgram(q), q.op \in Arithmetic,
         NEW got, got = GetNode(GetNode(g, q.arg1), q.arg2),
         NEW l, l = Node(got, q.arg1), NEW r, r = Node(got, q.arg2),
         NEW h, h = NewRoot(got, q.op, l, r),
         NEW n, n = FirstSame(h, q.op, l, r),
         NEW e, e = AddVar(RemoveVar(h, g.at[q.result], q.result), n, q.result)
  PROVE  Entered(g, q, e)
<1> PICK op, a, b, v : op = q.op /\ a = q.arg1 /\ b = q.arg2 /\ v = q.result
  OBVIOUS
<1> PICK f, k : f = GetNode(g, a) /\ k = Node(f, a)
  OBVIOUS
<1>1. /\ a \in Operand /\ (a \in Vars => a \in Own) /\ b \in Operand /\ (b \in Vars => b \in Own)
      /\ v \in Own /\ v \in Vars /\ op \in Assigning /\ op \in Arithmetic
  BY OwnArguments
<1>2. GotNode(g, a, f, k)
  BY <1>1, GetNodeKeeps
<1>3. GraphOK(f) /\ k \in 1..Len(f.nodes)
  BY <1>2 DEF GotNode
<1>4. got = GetNode(f, b) /\ GotNode(f, b, got, r)
  BY <1>1, <1>3, GetNodeKeeps
<1>5. GraphOK(got) /\ r \in 1..Len(got.nodes)
  BY <1>4 DEF GotNode
<1>6. l = k /\ l \in 1..Len(got.nodes)
  <2>1. k # 0 /\ Node(f, a) = k /\ Node(got, a) = l
    BY <1>3
  <2>2. l = k
    BY ONLY <1>1, <1>3, <1>4, <2>1, NodeStays
  <2>3. Len(f.nodes) <= Len(got.nodes) /\ Len(f.nodes) \in Nat /\ Len(got.nodes) \in Nat
    BY <1>3, <1>4, <1>5, GraphIs DEF GotNode, GraphOK
  <2> QED BY <1>3, <2>2, <2>3
<1>7. Rooted(got, op, l, r, h, n)
  <2>1. Len(f.nodes) <= Len(g.nodes) + 1 /\ Len(got.nodes) <= Len(f.nodes) + 1
    BY <1>2, <1>4 DEF GotNode
  <2>2. Len(g.nodes) \in Nat /\ Len(f.nodes) \in Nat /\ Len(got.nodes) \in Nat /\ IdRange \in Nat
    BY <1>3, <1>5, GraphIs, ExprGraphAssumption DEF GraphOK
  <2>3. Len(got.nodes) + 1 <= IdRange
    BY <2>1, <2>2
  <2> QED BY <1>1, <1>5, <1>6, <2>3, NewRootKeeps
<1>8. GraphOK(h) /\ n \in 1..Len(h.nodes) /\ h.at = got.at
  BY <1>7 DEF Rooted
<1>9. g.at[v] \in {0, h.at[v]}
  <2>1. f.at[v] = g.at[v] \/ g.at[v] = 0
    BY <1>1, <1>2 DEF GotNode
  <2>2. got.at[v] = f.at[v] \/ f.at[v] = 0
    BY <1>1, <1>4 DEF GotNode
  <2> QED BY <1>8, <2>1, <2>2
<1>10. e = SetVar(h, g.at[v], n, v)
  BY DEF SetVar
<1>11. VarSet(h, v, n, e)
  BY ONLY <1>1, <1>8, <1>9, <1>10, SetVarKeeps
<1>12. GraphOK(e) /\ Len(e.nodes) = Len(h.nodes) /\ Quiet(e, g)
  <2>1. Quiet(f, g) /\ Quiet(got, f) /\ Quiet(h, got)
    BY <1>2, <1>4, <1>7 DEF GotNode, Rooted
  <2>2. Quiet(h, g)
    BY ONLY <2>1 DEF Quiet
  <2>3. GraphOK(e) /\ Len(e.nodes) = Len(h.nodes) /\ Quiet(e, h)
    BY ONLY <1>11 DEF VarSet, Quiet
  <2> QED BY ONLY <2>2, <2>3 DEF Quiet
<1>13. Len(e.nodes) <= Len(g.nodes) + 3
  <2>1. Len(f.nodes) <= Len(g.nodes) + 1 /\ Len(got.nodes) <= Len(f.nodes) + 1
    BY <1>2, <1>4 DEF GotNode
  <2>2. h = got \/ Len(h.nodes) = Len(got.nodes) + 1
    BY <1>7 DEF Rooted
  <2>3. /\ Len(g.nodes) \in Nat /\ Len(f.nodes) \in Nat /\ Len(got.nodes) \in Nat
        /\ Len(h.nodes) \in Nat
    BY <1>3, <1>5, <1>8, GraphIs DEF GraphOK
  <2> QED BY <1>12, <2>1, <2>2, <2>3
<1>14. ASSUME NEW X, v \in X, ListsIn(g, X) PROVE ListsIn(e, X)
  <2>1. ListsIn(f, X)
    BY <1>2, <1>14 DEF GotNode
  <2>2. ListsIn(got, X)
    BY <1>4, <2>1 DEF GotNode
  <2>3. ListsIn(h, X)
    BY <1>5, <1>7, <2>2, RootedLists
  <2> QED BY <1>1, <1>8, <1>9, <1>10, <1>14, <2>3, SetVarLists
<1>15. ASSUME NEW env, NEW s, \A w \in Vars : WellFormed(env[w]), State(s), Represents(g, env, s.env)
       PROVE  Represents(e, env, Execute(s, q).env)
  <2> PICK benv, benv2 : benv = s.env /\ benv2 = Execute(s, q).env
    OBVIOUS
  <2>1. PICK val : Values(g, val, env) /\ Holds(g, val, env, benv)
    BY <1>15 DEF Represents
  <2>2. PICK val1 : Values(f, val1, env) /\ Holds(f, val1, env, benv) /\ val1[k] = Value(benv, a)
    BY <1>1, <1>15, <2>1, GetNodeValues
  <2>3. PICK val2 : /\ Values(got, val2, env) /\ Holds(got, val2, env, benv)
                    /\ val2[r] = Value(benv, b) /\ \A m \in 1..Len(f.nodes) : val2[m] = val1[m]
    BY <1>1, <1>3, <1>4, <1>15, <2>2, GetNodeValues
  <2>4. val2[l] = Value(benv, a)
    BY <1>3, <1>6, <2>2, <2>3
  <2>5. PICK val3 : /\ Values(h, val3, env) /\ Holds(h, val3, env, benv)
                    /\ val3[n] = Computed(op, val2[l], val2[r])
    <3>1. r \in 1..Len(got.nodes) /\ GraphOK(got) /\ op \in Arithmetic /\ l \in 1..Len(got.nodes)
      BY ONLY <1>1, <1>5, <1>6
    <3> QED BY ONLY <3>1, <1>7, <2>3, NewRootValues
  <2>6. benv2[v] = Given(s, q) /\ \A w \in Vars \ {v} : benv2[w] = benv[w]
    BY <1>1, <1>15, ExecuteIs
  <2>7. Given(s, q) = Computed(op, Value(benv, a), Value(benv, b))
    <3>1. q.op = op /\ q.arg1 = a /\ q.arg2 = b /\ s.env = benv /\ op \in Arithmetic /\ op # "copy"
      BY <1>1 DEF Arithmetic
    <3> QED BY ONLY <3>1, GivenIs DEF GivenAs
  <2>8. benv2[v] = val3[n] /\ \A w \in Own : w # v => benv2[w] = benv[w]
    BY <2>3, <2>4, <2>5, <2>6, <2>7 DEF Own
  <2> QED BY <1>1, <1>8, <1>9, <1>10, <2>5, <2>8, SetVarValues
<1>16. LeavesOwn(g) => LeavesOwn(e)
  <2> SUFFICES ASSUME LeavesOwn(g) PROVE LeavesOwn(e)
    OBVIOUS
  <2>1. LeavesOwn(f)
    BY ONLY GraphOK(g), LeavesOwn(g), <1>1, <1>2, GotLeaves
  <2>2. LeavesOwn(got)
    BY ONLY <1>1, <1>3, <1>4, <2>1, GotLeaves
  <2>3. LeavesOwn(h)
    BY ONLY <1>5, <1>7, <2>2, RootLeaves
  <2> QED BY ONLY <1>8, <1>11, <2>3, SetLeaves
<1> QED BY <1>12, <1>13, <1>14, <1>15, <1>16 DEF Entered

-----------------------------------------------------------------------------
(* What the loops of gencode_from_graph compute. *)
WithCopy(out, v, r, bad) == IF v = bad THEN out ELSE Append(out, CopyQuadr(v, r))
Updated(g, n, out) == [g EXCEPT !.out = out, !.nodes[n].list = <<>>]

UpdatedBy(g, n1, l, r, bad) ==
  \E a : /\ a[0] = g.out
         /\ \A k \in 1..Len(l) : a[k] = WithCopy(a[k - 1], l[k], r, bad)
         /\ UpdateNodeVars(g, n1) = Updated(g, n1, a[Len(l)])

LEMMA UpdateIs ==
  ASSUME NEW g, NEW n1, NEW l, l = g.nodes[n1].list, Len(l) \in Nat, NEW r, r = g.nodes[n1].result,
         NEW bad, bad = IF g.nodes[n1].tag = "leaf" THEN g.nodes[n1].arg ELSE None
  PROVE  UpdatedBy(g, n1, l, r, bad)
<1> SUFFICES \E a : /\ a[0] = g.out
                    /\ \A k \in 1..Len(l) : a[k] = WithCopy(a[k - 1], l[k], r, bad)
                    /\ UpdateNodeVars(g, n1) = Updated(g, n1, a[Len(l)])
  BY DEF UpdatedBy
<1> PICK n \in Nat : n = Len(l)
  OBVIOUS
<1> PICK c : c = g.out
  OBVIOUS
<1> DEFINE Is(f) == f = [k \in 0..n |-> IF k = 0 THEN c ELSE WithCopy(f[k - 1], l[k], r, bad)]
           Upto(f, m) == f[0] = c /\ \A k \in 1..m : f[k] = WithCopy(f[k - 1], l[k], r, bad)
           T == {m \in 0..n : \E f : Upto(f, m)}
<1>1. \A a : a = (CHOOSE f : Is(f)) => UpdateNodeVars(g, n1) = Updated(g, n1, a[Len(l)])
  <2> DEFINE node == g.nodes[n1]
             barred == IF node.tag = "leaf" THEN node.arg ELSE None
             As(f) == f = [k \in 0..Len(node.list) |->
                             IF k = 0 THEN g.out
                             ELSE IF node.list[k] = barred THEN f[k - 1]
                             ELSE Append(f[k - 1], CopyQuadr(node.list[k], node.result))]
  <2>1. UpdateNodeVars(g, n1) = Updated(g, n1, (CHOOSE f : As(f))[Len(node.list)])
    BY DEF UpdateNodeVars, Updated
  <2>2. \A f : As(f) <=> Is(f)
    BY DEF WithCopy
  <2>3. (CHOOSE f : As(f)) = (CHOOSE f : Is(f))
    <3> HIDE DEF As, Is
    <3> QED BY <2>2
  <2> QED BY <2>1, <2>3
<1>2. 0 \in T
  <2> DEFINE f == [k \in {0} |-> c]
  <2>1. f[0] = c /\ 1..0 = {}
    OBVIOUS
  <2>2. Upto(f, 0)
    BY <2>1
  <2> HIDE DEF f
  <2> QED BY <2>2
<1>3. ASSUME NEW m \in 0..(n - 1), m \in T PROVE m + 1 \in T
  <2>1. PICK f : Upto(f, m)
    BY <1>3
  <2> PICK last : last = WithCopy(f[m], l[m + 1], r, bad)
    OBVIOUS
  <2> DEFINE h == [k \in 0..(m + 1) |-> IF k = m + 1 THEN last ELSE f[k]]
  <2>2. h[0] = c
    BY <2>1
  <2>3. ASSUME NEW k \in 1..(m + 1) PROVE h[k] = WithCopy(h[k - 1], l[k], r, bad)
    <3>1. CASE k = m + 1
      <4>1. k - 1 = m /\ m # m + 1 /\ m \in 0..(m + 1) /\ m + 1 \in 0..(m + 1)
        BY <3>1
      <4>2. h[m + 1] = last /\ h[m] = f[m]
        BY <4>1
      <4> QED BY <3>1, <4>1, <4>2
    <3>2. CASE k # m + 1
      <4>1. k \in 1..m /\ k - 1 \in 0..(m + 1) /\ k - 1 # m + 1 /\ k \in 0..(m + 1)
        BY <3>2
      <4>2. h[k] = f[k] /\ h[k - 1] = f[k - 1]
        BY <3>2, <4>1
      <4> QED BY <2>1, <4>1, <4>2
    <3> QED BY <3>1, <3>2
  <2> HIDE DEF h
  <2>4. Upto(h, m + 1)
    BY <2>2, <2>3
  <2> QED BY <2>4
<1>4. n \in T
  <2>1. 0 \in Int /\ n \in Int
    OBVIOUS
  <2> HIDE DEF T
  <2>2. \A k \in 0..(n - 1) : k \in T => k + 1 \in T
    BY <1>3
  <2>3. 0..n \subseteq T
    BY <1>2, <2>1, <2>2, UpTo
  <2> QED BY <2>3
<1>5. PICK f : Upto(f, n)
  BY <1>4
<1> PICK h : h = [k \in 0..n |-> f[k]]
  OBVIOUS
<1>6. h[0] = c /\ \A k \in 1..n : h[k] = WithCopy(h[k - 1], l[k], r, bad)
  <2>1. \A k \in 1..n : k \in 0..n /\ k - 1 \in 0..n
    OBVIOUS
  <2> QED BY <1>5, <2>1
<1>7. Is(h)
  <2>1. \A k \in 0..n : f[k] = IF k = 0 THEN c ELSE WithCopy(h[k - 1], l[k], r, bad)
    <3>1. \A k \in 0..n : k = 0 \/ k \in 1..n
      OBVIOUS
    <3>2. \A k \in 1..n : k # 0 /\ f[k] = h[k]
      OBVIOUS
    <3> QED BY <1>5, <1>6, <3>1, <3>2
  <2> QED BY <2>1
<1> PICK a : a = CHOOSE x : Is(x)
  OBVIOUS
<1>8. Is(a)
  <2> HIDE DEF Is
  <2> QED BY <1>7
<1>9. a[0] = c /\ \A k \in 1..n : a[k] = WithCopy(a[k - 1], l[k], r, bad)
  <2>1. 0 \in 0..n /\ \A k \in 1..n : k \in 0..n /\ k # 0
    OBVIOUS
  <2> QED BY <1>8, <2>1
<1> HIDE DEF Is
<1> QED BY <1>1, <1>9

WithBelow(c, nodes, n) == c \o Below(nodes)[n]

VisitedBy(nodes, tops) ==
  \E a : /\ a[0] = <<>>
         /\ \A k \in 1..Len(tops) : a[k] = WithBelow(a[k - 1], nodes, tops[k])
         /\ Visited(nodes, tops) = a[Len(tops)]

LEMMA VisitedIs ==
  ASSUME NEW nodes, NEW tops, Len(tops) \in Nat
  PROVE  VisitedBy(nodes, tops)
<1> SUFFICES \E a : /\ a[0] = <<>>
                    /\ \A k \in 1..Len(tops) : a[k] = WithBelow(a[k - 1], nodes, tops[k])
                    /\ Visited(nodes, tops) = a[Len(tops)]
  BY DEF VisitedBy
<1> PICK n \in Nat : n = Len(tops)
  OBVIOUS
<1> PICK c : c = <<>>
  OBVIOUS
<1> DEFINE Is(f) == f = [k \in 0..n |-> IF k = 0 THEN c ELSE WithBelow(f[k - 1], nodes, tops[k])]
           Upto(f, m) == f[0] = c /\ \A k \in 1..m : f[k] = WithBelow(f[k - 1], nodes, tops[k])
           T == {m \in 0..n : \E f : Upto(f, m)}
<1>1. \A a : a = (CHOOSE f : Is(f)) => Visited(nodes, tops) = a[Len(tops)]
  BY DEF Visited, WithBelow
<1>2. 0 \in T
  <2> DEFINE f == [k \in {0} |-> c]
  <2>1. f[0] = c /\ 1..0 = {}
    OBVIOUS
  <2>2. Upto(f, 0)
    BY <2>1
  <2> HIDE DEF f
  <2> QED BY <2>2
<1>3. ASSUME NEW m \in 0..(n - 1), m \in T PROVE m + 1 \in T
  <2>1. PICK f : Upto(f, m)
    BY <1>3
  <2> PICK last : last = WithBelow(f[m], nodes, tops[m + 1])
    OBVIOUS
  <2> DEFINE h == [k \in 0..(m + 1) |-> IF k = m + 1 THEN last ELSE f[k]]
  <2>2. h[0] = c
    BY <2>1
  <2>3. ASSUME NEW k \in 1..(m + 1) PROVE h[k] = WithBelow(h[k - 1], nodes, tops[k])
    <3>1. CASE k = m + 1
      <4>1. k - 1 = m /\ m # m + 1 /\ m \in 0..(m + 1) /\ m + 1 \in 0..(m + 1)
        BY <3>1
      <4>2. h[m + 1] = last /\ h[m] = f[m]
        BY <4>1
      <4> QED BY <3>1, <4>1, <4>2
    <3>2. CASE k # m + 1
      <4>1. k \in 1..m /\ k - 1 \in 0..(m + 1) /\ k - 1 # m + 1 /\ k \in 0..(m + 1)
        BY <3>2
      <4>2. h[k] = f[k] /\ h[k - 1] = f[k - 1]
        BY <3>2, <4>1
      <4> QED BY <2>1, <4>1, <4>2
    <3> QED BY <3>1, <3>2
  <2> HIDE DEF h
  <2>4. Upto(h, m + 1)
    BY <2>2, <2>3
  <2> QED BY <2>4
<1>4. n \in T
  <2>1. 0 \in Int /\ n \in Int
    OBVIOUS
  <2> HIDE DEF T
  <2>2. \A k \in 0..(n - 1) : k \in T => k + 1 \in T
    BY <1>3
  <2>3. 0..n \subseteq T
    BY <1>2, <2>1, <2>2, UpTo
  <2> QED BY <2>3
<1>5. PICK f : Upto(f, n)
  BY <1>4
<1> PICK h : h = [k \in 0..n |-> f[k]]
  OBVIOUS
<1>6. h[0] = c /\ \A k \in 1..n : h[k] = WithBelow(h[k - 1], nodes, tops[k])
  <2>1. \A k \in 1..n : k \in 0..n /\ k - 1 \in 0..n
    OBVIOUS
  <2> QED BY <1>5, <2>1
<1>7. Is(h)
  <2>1. \A k \in 0..n : f[k] = IF k = 0 THEN c ELSE WithBelow(h[k - 1], nodes, tops[k])
    <3>1. \A k \in 0..n : k = 0 \/ k \in 1..n
      OBVIOUS
    <3>2. \A k \in 1..n : k # 0 /\ f[k] = h[k]
      OBVIOUS
    <3> QED BY <1>5, <1>6, <3>1, <3>2
  <2> QED BY <2>1
<1> PICK a : a = CHOOSE x : Is(x)
  OBVIOUS
<1>8. Is(a)
  <2> HIDE DEF Is
  <2> QED BY <1>7
<1>9. a[0] = c /\ \A k \in 1..n : a[k] = WithBelow(a[k - 1], nodes, tops[k])
  <2>1. 0 \in 0..n /\ \A k \in 1..n : k \in 0..n /\ k # 0
    OBVIOUS
  <2> QED BY <1>8, <2>1
<1> HIDE DEF Is
<1> QED BY <1>1, <1>9

Saved(g, e, n) == IF IsInput(g, n) THEN GenLeaf(e, n) ELSE e

SavedBy(g) ==
  \E a : /\ a[0] = g
         /\ \A k \in 1..Len(g.nodes) : a[k] = Saved(g, a[k - 1], k)
         /\ SaveInputs(g) = a[Len(g.nodes)]

LEMMA SaveIs ==
  ASSUME NEW g, Len(g.nodes) \in Nat
  PROVE  SavedBy(g)
<1> SUFFICES \E a : /\ a[0] = g
                    /\ \A k \in 1..Len(g.nodes) : a[k] = Saved(g, a[k - 1], k)
                    /\ SaveInputs(g) = a[Len(g.nodes)]
  BY DEF SavedBy
<1> PICK n \in Nat : n = Len(g.nodes)
  OBVIOUS
<1> PICK c : c = g
  OBVIOUS
<1> DEFINE Is(f) == f = [k \in 0..n |-> IF k = 0 THEN c ELSE Saved(g, f[k - 1], k)]
           Upto(f, m) == f[0] = c /\ \A k \in 1..m : f[k] = Saved(g, f[k - 1], k)
           T == {m \in 0..n : \E f : Upto(f, m)}
<1>1. \A a : a = (CHOOSE f : Is(f)) => SaveInputs(g) = a[Len(g.nodes)]
  BY DEF SaveInputs, Saved
<1>2. 0 \in T
  <2> DEFINE f == [k \in {0} |-> c]
  <2>1. f[0] = c /\ 1..0 = {}
    OBVIOUS
  <2>2. Upto(f, 0)
    BY <2>1
  <2> HIDE DEF f
  <2> QED BY <2>2
<1>3. ASSUME NEW m \in 0..(n - 1), m \in T PROVE m + 1 \in T
  <2>1. PICK f : Upto(f, m)
    BY <1>3
  <2> PICK last : last = Saved(g, f[m], m + 1)
    OBVIOUS
  <2> DEFINE h == [k \in 0..(m + 1) |-> IF k = m + 1 THEN last ELSE f[k]]
  <2>2. h[0] = c
    BY <2>1
  <2>3. ASSUME NEW k \in 1..(m + 1) PROVE h[k] = Saved(g, h[k - 1], k)
    <3>1. CASE k = m + 1
      <4>1. k - 1 = m /\ m # m + 1 /\ m \in 0..(m + 1) /\ m + 1 \in 0..(m + 1)
        BY <3>1
      <4>2. h[m + 1] = last /\ h[m] = f[m]
        BY <4>1
      <4> QED BY <3>1, <4>1, <4>2
    <3>2. CASE k # m + 1
      <4>1. k \in 1..m /\ k - 1 \in 0..(m + 1) /\ k - 1 # m + 1 /\ k \in 0..(m + 1)
        BY <3>2
      <4>2. h[k] = f[k] /\ h[k - 1] = f[k - 1]
        BY <3>2, <4>1
      <4> QED BY <2>1, <4>1, <4>2
    <3> QED BY <3>1, <3>2
  <2> HIDE DEF h
  <2>4. Upto(h, m + 1)
    BY <2>2, <2>3
  <2> QED BY <2>4
<1>4. n \in T
  <2>1. 0 \in Int /\ n \in Int
    OBVIOUS
  <2> HIDE DEF T
  <2>2. \A k \in 0..(n - 1) : k \in T => k + 1 \in T
    BY <1>3
  <2>3. 0..n \subseteq T
    BY <1>2, <2>1, <2>2, UpTo
  <2> QED BY <2>3
<1>5. PICK f : Upto(f, n)
  BY <1>4
<1> PICK h : h = [k \in 0..n |-> f[k]]
  OBVIOUS
<1>6. h[0] = c /\ \A k \in 1..n : h[k] = Saved(g, h[k - 1], k)
  <2>1. \A k \in 1..n : k \in 0..n /\ k - 1 \in 0..n
    OBVIOUS
  <2> QED BY <1>5, <2>1
<1>7. Is(h)
  <2>1. \A k \in 0..n : f[k] = IF k = 0 THEN c ELSE Saved(g, h[k - 1], k)
    <3>1. \A k \in 0..n : k = 0 \/ k \in 1..n
      OBVIOUS
    <3>2. \A k \in 1..n : k # 0 /\ f[k] = h[k]
      OBVIOUS
    <3> QED BY <1>5, <1>6, <3>1, <3>2
  <2> QED BY <2>1
<1> PICK a : a = CHOOSE x : Is(x)
  OBVIOUS
<1>8. Is(a)
  <2> HIDE DEF Is
  <2> QED BY <1>7
<1>9. a[0] = c /\ \A k \in 1..n : a[k] = Saved(g, a[k - 1], k)
  <2>1. 0 \in 0..n /\ \A k \in 1..n : k \in 0..n /\ k # 0
    OBVIOUS
  <2> QED BY <1>8, <2>1
<1> HIDE DEF Is
<1> QED BY <1>1, <1>9

GeneratedBy(g, ns) ==
  \E a : /\ a[0] = g
         /\ \A k \in 1..Len(ns) : a[k] = GenNode(a[k - 1], ns[k])
         /\ GenAll(g, ns) = a[Len(ns)]

LEMMA GenAllIs ==
  ASSUME NEW g, NEW ns, Len(ns) \in Nat
  PROVE  GeneratedBy(g, ns)
<1> SUFFICES \E a : /\ a[0] = g
                    /\ \A k \in 1..Len(ns) : a[k] = GenNode(a[k - 1], ns[k])
                    /\ GenAll(g, ns) = a[Len(ns)]
  BY DEF GeneratedBy
<1> PICK n \in Nat : n = Len(ns)
  OBVIOUS
<1> PICK c : c = g
  OBVIOUS
<1> DEFINE Is(f) == f = [k \in 0..n |-> IF k = 0 THEN c ELSE GenNode(f[k - 1], ns[k])]
           Upto(f, m) == f[0] = c /\ \A k \in 1..m : f[k] = GenNode(f[k - 1], ns[k])
           T == {m \in 0..n : \E f : Upto(f, m)}
<1>1. \A a : a = (CHOOSE f : Is(f)) => GenAll(g, ns) = a[Len(ns)]
  BY DEF GenAll
<1>2. 0 \in T
  <2> DEFINE f == [k \in {0} |-> c]
  <2>1. f[0] = c /\ 1..0 = {}
    OBVIOUS
  <2>2. Upto(f, 0)
    BY <2>1
  <2> HIDE DEF f
  <2> QED BY <2>2
<1>3. ASSUME NEW m \in 0..(n - 1), m \in T PROVE m + 1 \in T
  <2>1. PICK f : Upto(f, m)
    BY <1>3
  <2> PICK last : last = GenNode(f[m], ns[m + 1])
    OBVIOUS
  <2> DEFINE h == [k \in 0..(m + 1) |-> IF k = m + 1 THEN last ELSE f[k]]
  <2>2. h[0] = c
    BY <2>1
  <2>3. ASSUME NEW k \in 1..(m + 1) PROVE h[k] = GenNode(h[k - 1], ns[k])
    <3>1. CASE k = m + 1
      <4>1. k - 1 = m /\ m # m + 1 /\ m \in 0..(m + 1) /\ m + 1 \in 0..(m + 1)
        BY <3>1
      <4>2. h[m + 1] = last /\ h[m] = f[m]
        BY <4>1
      <4> QED BY <3>1, <4>1, <4>2
    <3>2. CASE k # m + 1
      <4>1. k \in 1..m /\ k - 1 \in 0..(m + 1) /\ k - 1 # m + 1 /\ k \in 0..(m + 1)
        BY <3>2
      <4>2. h[k] = f[k] /\ h[k - 1] = f[k - 1]
        BY <3>2, <4>1
      <4> QED BY <2>1, <4>1, <4>2
    <3> QED BY <3>1, <3>2
  <2> HIDE DEF h
  <2>4. Upto(h, m + 1)
    BY <2>2, <2>3
  <2> QED BY <2>4
<1>4. n \in T
  <2>1. 0 \in Int /\ n \in Int
    OBVIOUS
  <2> HIDE DEF T
  <2>2. \A k \in 0..(n - 1) : k \in T => k + 1 \in T
    BY <1>3
  <2>3. 0..n \subseteq T
    BY <1>2, <2>1, <2>2, UpTo
  <2> QED BY <2>3
<1>5. PICK f : Upto(f, n)
  BY <1>4
<1> PICK h : h = [k \in 0..n |-> f[k]]
  OBVIOUS
<1>6. h[0] = c /\ \A k \in 1..n : h[k] = GenNode(h[k - 1], ns[k])
  <2>1. \A k \in 1..n : k \in 0..n /\ k - 1 \in 0..n
    OBVIOUS
  <2> QED BY <1>5, <2>1
<1>7. Is(h)
  <2>1. \A k \in 0..n : f[k] = IF k = 0 THEN c ELSE GenNode(h[k - 1], ns[k])
    <3>1. \A k \in 0..n : k = 0 \/ k \in 1..n
      OBVIOUS
    <3>2. \A k \in 1..n : k # 0 /\ f[k] = h[k]
      OBVIOUS
    <3> QED BY <1>5, <1>6, <3>1, <3>2
  <2> QED BY <2>1
<1> PICK a : a = CHOOSE x : Is(x)
  OBVIOUS
<1>8. Is(a)
  <2> HIDE DEF Is
  <2> QED BY <1>7
<1>9. a[0] = c /\ \A k \in 1..n : a[k] = GenNode(a[k - 1], ns[k])
  <2>1. 0 \in 0..n /\ \A k \in 1..n : k \in 0..n /\ k # 0
    OBVIOUS
  <2> QED BY <1>8, <2>1
<1> HIDE DEF Is
<1> QED BY <1>1, <1>9

Equated(g, e, n) == IF IsInput(g, n) THEN UpdateNodeVars(e, n) ELSE e

EquatedBy(g) ==
  \E a : /\ a[0] = g
         /\ \A k \in 1..Len(g.nodes) : a[k] = Equated(g, a[k - 1], k)
         /\ SetEqual(g) = a[Len(g.nodes)]

LEMMA SetEqualIs ==
  ASSUME NEW g, Len(g.nodes) \in Nat
  PROVE  EquatedBy(g)
<1> SUFFICES \E a : /\ a[0] = g
                    /\ \A k \in 1..Len(g.nodes) : a[k] = Equated(g, a[k - 1], k)
                    /\ SetEqual(g) = a[Len(g.nodes)]
  BY DEF EquatedBy
<1> PICK n \in Nat : n = Len(g.nodes)
  OBVIOUS
<1> PICK c : c = g
  OBVIOUS
<1> DEFINE Is(f) == f = [k \in 0..n |-> IF k = 0 THEN c ELSE Equated(g, f[k - 1], k)]
           Upto(f, m) == f[0] = c /\ \A k \in 1..m : f[k] = Equated(g, f[k - 1], k)
           T == {m \in 0..n : \E f : Upto(f, m)}
<1>1. \A a : a = (CHOOSE f : Is(f)) => SetEqual(g) = a[Len(g.nodes)]
  BY DEF SetEqual, Equated
<1>2. 0 \in T
  <2> DEFINE f == [k \in {0} |-> c]
  <2>1. f[0] = c /\ 1..0 = {}
    OBVIOUS
  <2>2. Upto(f, 0)
    BY <2>1
  <2> HIDE DEF f
  <2> QED BY <2>2
<1>3. ASSUME NEW m \in 0..(n - 1), m \in T PROVE m + 1 \in T
  <2>1. PICK f : Upto(f, m)
    BY <1>3
  <2> PICK last : last = Equated(g, f[m], m + 1)
    OBVIOUS
  <2> DEFINE h == [k \in 0..(m + 1) |-> IF k = m + 1 THEN last ELSE f[k]]
  <2>2. h[0] = c
    BY <2>1
  <2>3. ASSUME NEW k \in 1..(m + 1) PROVE h[k] = Equated(g, h[k - 1], k)
    <3>1. CASE k = m + 1
      <4>1. k - 1 = m /\ m # m + 1 /\ m \in 0..(m + 1) /\ m + 1 \in 0..(m + 1)
        BY <3>1
      <4>2. h[m + 1] = last /\ h[m] = f[m]
        BY <4>1
      <4> QED BY <3>1, <4>1, <4>2
    <3>2. CASE k # m + 1
      <4>1. k \in 1..m /\ k - 1 \in 0..(m + 1) /\ k - 1 # m + 1 /\ k \in 0..(m + 1)
        BY <3>2
      <4>2. h[k] = f[k] /\ h[k - 1] = f[k - 1]
        BY <3>2, <4>1
      <4> QED BY <2>1, <4>1, <4>2
    <3> QED BY <3>1, <3>2
  <2> HIDE DEF h
  <2>4. Upto(h, m + 1)
    BY <2>2, <2>3
  <2> QED BY <2>4
<1>4. n \in T
  <2>1. 0 \in Int /\ n \in Int
    OBVIOUS
  <2> HIDE DEF T
  <2>2. \A k \in 0..(n - 1) : k \in T => k + 1 \in T
    BY <1>3
  <2>3. 0..n \subseteq T
    BY <1>2, <2>1, <2>2, UpTo
  <2> QED BY <2>3
<1>5. PICK f : Upto(f, n)
  BY <1>4
<1> PICK h : h = [k \in 0..n |-> f[k]]
  OBVIOUS
<1>6. h[0] = c /\ \A k \in 1..n : h[k] = Equated(g, h[k - 1], k)
  <2>1. \A k \in 1..n : k \in 0..n /\ k - 1 \in 0..n
    OBVIOUS
  <2> QED BY <1>5, <2>1
<1>7. Is(h)
  <2>1. \A k \in 0..n : f[k] = IF k = 0 THEN c ELSE Equated(g, h[k - 1], k)
    <3>1. \A k \in 0..n : k = 0 \/ k \in 1..n
      OBVIOUS
    <3>2. \A k \in 1..n : k # 0 /\ f[k] = h[k]
      OBVIOUS
    <3> QED BY <1>5, <1>6, <3>1, <3>2
  <2> QED BY <2>1
<1> PICK a : a = CHOOSE x : Is(x)
  OBVIOUS
<1>8. Is(a)
  <2> HIDE DEF Is
  <2> QED BY <1>7
<1>9. a[0] = c /\ \A k \in 1..n : a[k] = Equated(g, a[k - 1], k)
  <2>1. 0 \in 0..n /\ \A k \in 1..n : k \in 0..n /\ k # 0
    OBVIOUS
  <2> QED BY <1>8, <2>1
<1> HIDE DEF Is
<1> QED BY <1>1, <1>9

BelowStep(nodes, below, n) ==
  IF nodes[n].tag = "leaf" THEN <<n>>
  ELSE below[nodes[n].left] \o below[nodes[n].right] \o <<n>>

LEMMA BelowIs ==
  ASSUME NEW nodes, NEW N \in Nat, DOMAIN nodes = 1..N,
         \A n \in 1..N : nodes[n].tag # "leaf" =>
           nodes[n].left \in 1..(n - 1) /\ nodes[n].right \in 1..(n - 1)
  PROVE  DOMAIN Below(nodes) = 1..N /\ \A n \in 1..N : Below(nodes)[n] = BelowStep(nodes, Below(nodes), n)
<1> DEFINE Is(f) == f = [n \in 1..N |-> BelowStep(nodes, f, n)]
           Upto(f, m) == \A k \in 1..m : f[k] = BelowStep(nodes, f, k)
           T == {m \in 0..N : \E f : Upto(f, m)}
<1>1. Below(nodes) = CHOOSE f : Is(f)
  BY DEF Below, BelowStep
<1>2. ASSUME NEW k \in 1..N, NEW f, NEW h, \A j \in 1..(k - 1) : h[j] = f[j]
      PROVE  BelowStep(nodes, h, k) = BelowStep(nodes, f, k)
  BY <1>2 DEF BelowStep
<1>3. 0 \in T
  <2>1. Upto([j \in {0} |-> 0], 0)
    OBVIOUS
  <2> QED BY <2>1
<1>4. ASSUME NEW m \in 0..(N - 1), m \in T PROVE m + 1 \in T
  <2>1. PICK f : Upto(f, m)
    BY <1>4
  <2> PICK last : last = BelowStep(nodes, f, m + 1)
    OBVIOUS
  <2> PICK h : h = [k \in 1..(m + 1) |-> IF k = m + 1 THEN last ELSE f[k]]
    OBVIOUS
  <2>2. h[m + 1] = last /\ \A k \in 1..m : h[k] = f[k]
    BY OneMore
  <2>3. ASSUME NEW k \in 1..(m + 1) PROVE h[k] = BelowStep(nodes, h, k)
    <3>1. \A j \in 1..(k - 1) : h[j] = f[j]
      BY <2>2
    <3>2. k \in 1..N
      OBVIOUS
    <3>3. BelowStep(nodes, h, k) = BelowStep(nodes, f, k)
      BY <1>2, <3>1, <3>2
    <3>4. k = m + 1 \/ k \in 1..m
      OBVIOUS
    <3> QED BY <2>1, <2>2, <3>3, <3>4
  <2>4. Upto(h, m + 1)
    BY <2>3
  <2> QED BY <2>4
<1>5. N \in T
  <2>1. 0 \in Int /\ N \in Int
    OBVIOUS
  <2> HIDE DEF T
  <2>2. \A k \in 0..(N - 1) : k \in T => k + 1 \in T
    BY <1>4
  <2>3. 0..N \subseteq T
    BY <1>3, <2>1, <2>2, UpTo
  <2> QED BY <2>3
<1>6. PICK f : Upto(f, N)
  BY <1>5
<1> PICK h : h = [k \in 1..N |-> f[k]]
  OBVIOUS
<1>7. \A k \in 1..N : f[k] = BelowStep(nodes, h, k)
  <2> SUFFICES ASSUME NEW k \in 1..N PROVE f[k] = BelowStep(nodes, h, k)
    OBVIOUS
  <2>1. \A j \in 1..(k - 1) : j \in 1..N /\ h[j] = f[j]
    OBVIOUS
  <2> QED BY <1>2, <1>6, <2>1
<1>8. Is(h)
  BY <1>7
<1> PICK a : a = CHOOSE x : Is(x)
  OBVIOUS
<1>9. Is(a)
  <2> HIDE DEF Is
  <2> QED BY <1>8
<1>10. DOMAIN a = 1..N /\ \A k \in 1..N : a[k] = BelowStep(nodes, a, k)
  BY <1>9
<1> HIDE DEF Is
<1> QED BY <1>1, <1>10


ExpressionStep(g, value, n) ==
  IF g.nodes[n].op # "none"
  THEN Term(g.nodes[n].op, value[g.nodes[n].left], value[g.nodes[n].right])
  ELSE IF g.nodes[n].arg \in Vars THEN Start(g.nodes[n].arg) ELSE Fixed(g.nodes[n].arg)

LEMMA ExpressionsAre ==
  ASSUME NEW g, NEW N \in Nat, DOMAIN g.nodes = 1..N,
         \A n \in 1..N : ~IsLeaf(g.nodes[n]) =>
           g.nodes[n].left \in 1..(n - 1) /\ g.nodes[n].right \in 1..(n - 1)
  PROVE  DOMAIN Expressions(g) = 1..N /\ \A n \in 1..N : Expressions(g)[n] = ExpressionStep(g, Expressions(g), n)
<1> DEFINE Is(f) == f = [n \in 1..N |-> ExpressionStep(g, f, n)]
           Upto(f, m) == \A k \in 1..m : f[k] = ExpressionStep(g, f, k)
           T == {m \in 0..N : \E f : Upto(f, m)}
<1>1. Expressions(g) = CHOOSE f : Is(f)
  BY DEF Expressions, ExpressionStep
<1>2. ASSUME NEW k \in 1..N, NEW f, NEW h, \A j \in 1..(k - 1) : h[j] = f[j]
      PROVE  ExpressionStep(g, h, k) = ExpressionStep(g, f, k)
  BY <1>2 DEF ExpressionStep, IsLeaf
<1>3. 0 \in T
  <2>1. Upto([j \in {0} |-> 0], 0)
    OBVIOUS
  <2> QED BY <2>1
<1>4. ASSUME NEW m \in 0..(N - 1), m \in T PROVE m + 1 \in T
  <2>1. PICK f : Upto(f, m)
    BY <1>4
  <2> PICK last : last = ExpressionStep(g, f, m + 1)
    OBVIOUS
  <2> PICK h : h = [k \in 1..(m + 1) |-> IF k = m + 1 THEN last ELSE f[k]]
    OBVIOUS
  <2>2. h[m + 1] = last /\ \A k \in 1..m : h[k] = f[k]
    BY OneMore
  <2>3. ASSUME NEW k \in 1..(m + 1) PROVE h[k] = ExpressionStep(g, h, k)
    <3>1. \A j \in 1..(k - 1) : h[j] = f[j]
      BY <2>2
    <3>2. k \in 1..N
      OBVIOUS
    <3>3. ExpressionStep(g, h, k) = ExpressionStep(g, f, k)
      BY <1>2, <3>1, <3>2
    <3>4. k = m + 1 \/ k \in 1..m
      OBVIOUS
    <3> QED BY <2>1, <2>2, <3>3, <3>4
  <2>4. Upto(h, m + 1) /\ m + 1 \in 0..N
    BY <2>3
  <2> HIDE DEF Upto
  <2> QED BY <2>4
<1>5. N \in T
  <2>1. 0 \in Int /\ N \in Int
    OBVIOUS
  <2> HIDE DEF T
  <2>2. \A k \in 0..(N - 1) : k \in T => k + 1 \in T
    BY <1>4
  <2>3. 0..N \subseteq T
    BY <1>3, <2>1, <2>2, UpTo
  <2> QED BY <2>3
<1>6. PICK f : Upto(f, N)
  BY <1>5
<1> PICK h : h = [k \in 1..N |-> f[k]]
  OBVIOUS
<1>7. \A k \in 1..N : f[k] = ExpressionStep(g, h, k)
  <2> SUFFICES ASSUME NEW k \in 1..N PROVE f[k] = ExpressionStep(g, h, k)
    OBVIOUS
  <2>1. \A j \in 1..(k - 1) : j \in 1..N /\ h[j] = f[j]
    OBVIOUS
  <2> QED BY <1>2, <1>6, <2>1
<1>8. Is(h)
  BY <1>7
<1> PICK a : a = CHOOSE x : Is(x)
  OBVIOUS
<1>9. Is(a)
  <2> HIDE DEF Is
  <2> QED BY <1>8
<1>10. DOMAIN a = 1..N /\ \A k \in 1..N : a[k] = ExpressionStep(g, a, k)
  BY <1>9
<1> HIDE DEF Is
<1> QED BY <1>1, <1>10
LEMMA TermIs ==
  ASSUME NEW op \in Arithmetic, NEW p \in Arithmetic, NEW x, NEW y, NEW z, NEW w,
         Term(op, x, y) = Term(p, z, w)
  PROVE  /\ op = p
         /\ (x = z /\ y = w) \/ (IsCommutative(op) /\ x = w /\ y = z)
<1>1. Term(op, x, y)[1] = op /\ Term(p, z, w)[1] = p
  BY DEF Term
<1>2. op = p
  BY <1>1
<1>3. /\ Term(op, x, y)[2] = IF IsCommutative(op) THEN {<<0, x>>, <<0, y>>} ELSE {<<1, x>>, <<2, y>>}
      /\ Term(p, z, w)[2] = IF IsCommutative(p) THEN {<<0, z>>, <<0, w>>} ELSE {<<1, z>>, <<2, w>>}
  BY DEF Term
<1>4. CASE IsCommutative(op)
  <2>1. {<<0, x>>, <<0, y>>} = {<<0, z>>, <<0, w>>}
    BY <1>2, <1>3, <1>4
  <2>2. ASSUME NEW b, NEW c, <<0, b>> = <<0, c>> PROVE b = c
    BY <2>2
  <2>3. ASSUME NEW b, NEW c, NEW d, <<0, b>> \in {<<0, c>>, <<0, d>>} PROVE b = c \/ b = d
    <3>1. <<0, b>> = <<0, c>> \/ <<0, b>> = <<0, d>>
      BY <2>3
    <3> QED BY <3>1, <2>2
  <2>4. /\ <<0, x>> \in {<<0, z>>, <<0, w>>} /\ <<0, y>> \in {<<0, z>>, <<0, w>>}
        /\ <<0, z>> \in {<<0, x>>, <<0, y>>} /\ <<0, w>> \in {<<0, x>>, <<0, y>>}
    BY <2>1
  <2>5. (x = z \/ x = w) /\ (y = z \/ y = w) /\ (z = x \/ z = y) /\ (w = x \/ w = y)
    BY ONLY <2>3, <2>4
  <2> QED BY <1>2, <1>4, <2>5
<1>5. CASE ~IsCommutative(op)
  <2>1. {<<1, x>>, <<2, y>>} = {<<1, z>>, <<2, w>>}
    BY <1>2, <1>3, <1>5
  <2>2. ASSUME NEW m \in {1, 2}, NEW n \in {1, 2}, NEW b, NEW c, <<m, b>> = <<n, c>> PROVE m = n /\ b = c
    <3>1. <<m, b>>[1] = <<n, c>>[1] /\ <<m, b>>[2] = <<n, c>>[2]
      BY <2>2
    <3> QED BY <3>1
  <2>3. <<1, x>> \in {<<1, z>>, <<2, w>>} /\ <<2, y>> \in {<<1, z>>, <<2, w>>}
    BY <2>1
  <2>4. x = z /\ y = w
    <3>1. <<1, x>> = <<1, z>> \/ <<1, x>> = <<2, w>>
      BY <2>3
    <3>2. <<2, y>> = <<1, z>> \/ <<2, y>> = <<2, w>>
      BY <2>3
    <3>3. 1 # 2 /\ 1 \in {1, 2} /\ 2 \in {1, 2}
      OBVIOUS
    <3> QED BY ONLY <2>2, <3>1, <3>2, <3>3
  <2> QED BY <1>2, <2>4
<1> QED BY <1>4, <1>5

LEMMA ExpressionsDistinct ==
  ASSUME NEW g, GraphOK(g)
  PROVE  IsInjective(Expressions(g))
<1> PICK N \in Nat : N = Len(g.nodes)
  BY GraphIs DEF GraphOK
<1> PICK value : value = Expressions(g)
  OBVIOUS
<1>1. DOMAIN g.nodes = 1..N /\ \A n \in 1..N : g.nodes[n] \in NodeType /\ NodeOK(g, n)
  BY GraphIs DEF GraphOK
<1>2. \A n \in 1..N : /\ IsLeaf(g.nodes[n]) => g.nodes[n].arg \in Operand
                      /\ ~IsLeaf(g.nodes[n]) =>
                           /\ g.nodes[n].op \in Arithmetic
                           /\ g.nodes[n].left \in 1..(n - 1) /\ g.nodes[n].right \in 1..(n - 1)
                           /\ IsCommutative(g.nodes[n].op) => g.nodes[n].left <= g.nodes[n].right
  BY <1>1, NodeIs DEF NodeOK, IsLeaf
<1>3. DOMAIN value = 1..N /\ \A n \in 1..N : value[n] = ExpressionStep(g, value, n)
  BY <1>1, <1>2, ExpressionsAre
<1>4. ASSUME NEW n \in 1..N, ~IsLeaf(g.nodes[n])
      PROVE  value[n] = Term(g.nodes[n].op, value[g.nodes[n].left], value[g.nodes[n].right])
  BY <1>3, <1>4 DEF ExpressionStep, IsLeaf
<1>5. ASSUME NEW n \in 1..N, IsLeaf(g.nodes[n])
      PROVE  value[n] = IF g.nodes[n].arg \in Vars THEN Start(g.nodes[n].arg) ELSE Fixed(g.nodes[n].arg)
  BY <1>3, <1>5 DEF ExpressionStep, IsLeaf
<1>6. ASSUME NEW a, NEW b
      PROVE  /\ Start(a) = Start(b) => a = b
             /\ Fixed(a) = Fixed(b) => a = b
             /\ Start(a)[1] = "start" /\ Fixed(a)[1] = "fixed"
  <2>1. ASSUME NEW c, NEW d, {c} = {d} PROVE c = d
    BY <2>1
  <2>2. ASSUME NEW c, NEW d, <<0, c>> = <<0, d>> PROVE c = d
    BY <2>2
  <2>3. ASSUME NEW s, NEW c, NEW d, <<s, {<<0, c>>}>> = <<s, {<<0, d>>}>> PROVE c = d
    <3>1. <<s, {<<0, c>>}>>[2] = <<s, {<<0, d>>}>>[2]
      BY <2>3
    <3>2. {<<0, c>>} = {<<0, d>>}
      BY <3>1
    <3> QED BY <3>2, <2>1, <2>2
  <2>4. Start(a) = Start(b) => a = b
    BY <2>3 DEF Start
  <2>5. Fixed(a) = Fixed(b) => a = b
    BY <2>3 DEF Fixed
  <2>6. Start(a)[1] = "start" /\ Fixed(a)[1] = "fixed"
    BY DEF Start, Fixed
  <2> QED BY <2>4, <2>5, <2>6
<1>7. \A op \in Arithmetic : \A a, b : Term(op, a, b)[1] = op
  BY DEF Term
<1> DEFINE T == {m \in 0..N : \A j, k \in 1..m : value[j] = value[k] => j = k}
<1>8. 0 \in T
  OBVIOUS
<1>9. ASSUME NEW m \in 0..(N - 1), m \in T PROVE m + 1 \in T
  <2>1. \A j, k \in 1..m : value[j] = value[k] => j = k
    BY <1>9
  <2>2. ASSUME NEW k \in 1..m, value[k] = value[m + 1] PROVE FALSE
    <3>0. k \in 1..N /\ m + 1 \in 1..N /\ k # m + 1
      OBVIOUS
    <3> PICK p, q : p = g.nodes[k] /\ q = g.nodes[m + 1]
      OBVIOUS
    <3>1. ~SameLeaf(p, q) /\ ~SameOp(p, q)
      BY <1>1, <3>0 DEF GraphOK
    <3>2. CASE IsLeaf(p) /\ IsLeaf(q)
      <4>1. p.arg # q.arg
        BY <3>1, <3>2 DEF SameLeaf
      <4>2. /\ value[k] = IF p.arg \in Vars THEN Start(p.arg) ELSE Fixed(p.arg)
            /\ value[m + 1] = IF q.arg \in Vars THEN Start(q.arg) ELSE Fixed(q.arg)
        BY <1>5, <3>0, <3>2
      <4>3. \A a, b : Start(a) # Fixed(b)
        <5> SUFFICES ASSUME NEW a, NEW b, Start(a) = Fixed(b) PROVE FALSE
          OBVIOUS
        <5>1. "start" = "fixed"
          BY <1>6
        <5> QED BY <5>1
      <4>4. Start(p.arg) # Start(q.arg) /\ Fixed(p.arg) # Fixed(q.arg)
        BY <1>6, <4>1
      <4> QED BY <2>2, <4>2, <4>3, <4>4
    <3>3. ASSUME NEW n1 \in 1..N, NEW n2 \in 1..N, IsLeaf(g.nodes[n1]), ~IsLeaf(g.nodes[n2]),
                 value[n1] = value[n2]
          PROVE  FALSE
      <4>1. value[n2][1] = g.nodes[n2].op /\ g.nodes[n2].op \in Arithmetic
        BY <1>2, <1>4, <1>7, <3>3
      <4>2. value[n1][1] \in {"start", "fixed"}
        BY <1>5, <1>6, <3>3
      <4> QED BY <3>3, <4>1, <4>2 DEF Arithmetic
    <3>4. CASE ~IsLeaf(p) /\ ~IsLeaf(q)
      <4>1. /\ p.op \in Arithmetic /\ p.left \in 1..m /\ p.right \in 1..m
            /\ IsCommutative(p.op) => p.left <= p.right
        <5>1. /\ p.op \in Arithmetic /\ p.left \in 1..(k - 1) /\ p.right \in 1..(k - 1)
              /\ IsCommutative(p.op) => p.left <= p.right
          BY <1>2, <3>0, <3>4
        <5> QED BY <5>1
      <4>2. /\ q.op \in Arithmetic /\ q.left \in 1..m /\ q.right \in 1..m
            /\ IsCommutative(q.op) => q.left <= q.right
        <5>1. /\ q.op \in Arithmetic /\ q.left \in 1..((m + 1) - 1) /\ q.right \in 1..((m + 1) - 1)
              /\ IsCommutative(q.op) => q.left <= q.right
          BY <1>2, <3>0, <3>4
        <5> QED BY <5>1
      <4>3. /\ value[k] = Term(p.op, value[p.left], value[p.right])
            /\ value[m + 1] = Term(q.op, value[q.left], value[q.right])
        BY <1>4, <3>0, <3>4
      <4>4. /\ p.op = q.op
            /\ \/ value[p.left] = value[q.left] /\ value[p.right] = value[q.right]
               \/ /\ IsCommutative(p.op)
                  /\ value[p.left] = value[q.right] /\ value[p.right] = value[q.left]
        <5>1. /\ p.op \in Arithmetic /\ q.op \in Arithmetic
              /\ Term(p.op, value[p.left], value[p.right]) = Term(q.op, value[q.left], value[q.right])
          BY <2>2, <4>1, <4>2, <4>3
        <5> QED BY ONLY <5>1, TermIs
      <4>5. \/ p.left = q.left /\ p.right = q.right
            \/ IsCommutative(p.op) /\ p.left = q.right /\ p.right = q.left
        BY <2>1, <4>1, <4>2, <4>4
      <4>6. p.left = q.left /\ p.right = q.right
        BY <4>1, <4>2, <4>4, <4>5
      <4> QED BY <3>1, <3>4, <4>4, <4>6 DEF SameOp
    <3> QED BY <2>2, <3>0, <3>2, <3>3, <3>4
  <2>3. \A j, k \in 1..(m + 1) : value[j] = value[k] => j = k
    <3>1. \A j \in 1..(m + 1) : j \in 1..m \/ j = m + 1
      OBVIOUS
    <3> QED BY <2>1, <2>2, <3>1
  <2> QED BY <2>3
<1>10. N \in T
  <2>1. 0 \in Int /\ N \in Int
    OBVIOUS
  <2> HIDE DEF T
  <2>2. \A k \in 0..(N - 1) : k \in T => k + 1 \in T
    BY <1>9
  <2>3. 0..N \subseteq T
    BY <1>8, <2>1, <2>2, UpTo
  <2> QED BY <2>3
<1>11. \A j, k \in 1..N : value[j] = value[k] => j = k
  BY <1>10
<1> QED BY <1>3, <1>11 DEF IsInjective

-----------------------------------------------------------------------------
(* The order in which code is generated for the nodes: operands first. *)
First(nodes, ns, k) ==
  nodes[ns[k]].tag # "leaf" =>
    \E i1, j \in 1..(k - 1) : ns[i1] = nodes[ns[k]].left /\ ns[j] = nodes[ns[k]].right
OperandsFirst(nodes, ns) == \A k \in 1..Len(ns) : First(nodes, ns, k)
Acyclic(nodes, N) ==
  /\ DOMAIN nodes = 1..N
  /\ \A n \in 1..N : nodes[n].tag # "leaf" =>
       nodes[n].left \in 1..(n - 1) /\ nodes[n].right \in 1..(n - 1)

Concats(S, s, t, u) ==
  /\ u \in Seq(S) /\ Len(u) = Len(s) + Len(t)
  /\ \A k \in 1..Len(s) : u[k] = s[k]
  /\ \A k \in 1..Len(t) : u[Len(s) + k] = t[k]
  /\ \A k \in 1..Len(u) : k \in 1..Len(s) \/ (k - Len(s) \in 1..Len(t) /\ k = Len(s) + (k - Len(s)))
  /\ ToSet(u) = ToSet(s) \cup ToSet(t)

LEMMA ConcatIs ==
  ASSUME NEW S, NEW s \in Seq(S), NEW t \in Seq(S), NEW u, u = s \o t
  PROVE  Concats(S, s, t, u)
<1> SUFFICES /\ u \in Seq(S) /\ Len(u) = Len(s) + Len(t)
             /\ \A k \in 1..Len(s) : u[k] = s[k]
             /\ \A k \in 1..Len(t) : u[Len(s) + k] = t[k]
             /\ \A k \in 1..Len(u) : k \in 1..Len(s) \/ (k - Len(s) \in 1..Len(t) /\ k = Len(s) + (k - Len(s)))
             /\ ToSet(u) = ToSet(s) \cup ToSet(t)
  BY DEF Concats
<1> PICK m, n \in Nat : m = Len(s) /\ n = Len(t)
  OBVIOUS
<1>1. u \in Seq(S) /\ Len(u) = m + n
  BY ConcatProperties
<1>2. \A k \in 1..Len(u) : u[k] = IF k <= m THEN s[k] ELSE t[k - m]
  BY ConcatProperties
<1>3. ASSUME NEW k \in 1..m PROVE u[k] = s[k]
  <2>1. k \in 1..Len(u) /\ k <= m
    BY <1>1
  <2> QED BY <1>2, <2>1
<1>4. ASSUME NEW k \in 1..n PROVE u[m + k] = t[k]
  <2>1. m + k \in 1..Len(u) /\ ~(m + k <= m) /\ (m + k) - m = k
    BY <1>1
  <2> QED BY <1>2, <2>1
<1>5. \A k \in 1..Len(u) : k \in 1..m \/ (k - m \in 1..n /\ k = m + (k - m))
  BY <1>1
<1>6. DOMAIN u = 1..Len(u) /\ DOMAIN s = 1..m /\ DOMAIN t = 1..n
  BY <1>1
<1>7. ASSUME NEW x \in ToSet(u) PROVE x \in ToSet(s) \cup ToSet(t)
  <2>1. PICK k \in 1..Len(u) : u[k] = x
    BY <1>6 DEF ToSet
  <2>2. CASE k \in 1..m
    BY <1>3, <1>6, <2>1, <2>2 DEF ToSet
  <2>3. CASE k - m \in 1..n /\ k = m + (k - m)
    BY <1>4, <1>6, <2>1, <2>3 DEF ToSet
  <2> QED BY <1>5, <2>2, <2>3
<1>8. ASSUME NEW x \in ToSet(s) \cup ToSet(t) PROVE x \in ToSet(u)
  <2>1. CASE x \in ToSet(s)
    <3>1. PICK k \in 1..m : s[k] = x
      BY <1>6, <2>1 DEF ToSet
    <3>2. k \in DOMAIN u /\ u[k] = x
      BY <1>1, <1>3, <1>6, <3>1
    <3> QED BY <3>2 DEF ToSet
  <2>2. CASE x \in ToSet(t)
    <3>1. PICK k \in 1..n : t[k] = x
      BY <1>6, <2>2 DEF ToSet
    <3>2. m + k \in DOMAIN u /\ u[m + k] = x
      BY <1>1, <1>4, <1>6, <3>1
    <3> QED BY <3>2 DEF ToSet
  <2> QED BY <2>1, <2>2
<1> QED BY <1>1, <1>3, <1>4, <1>5, <1>7, <1>8

BothFirst(nodes, S, s, t, u) ==
  u \in Seq(S) /\ OperandsFirst(nodes, u) /\ ToSet(u) = ToSet(s) \cup ToSet(t)

LEMMA JoinedFirst ==
  ASSUME NEW nodes, NEW S, NEW s \in Seq(S), NEW t \in Seq(S), NEW u, u = s \o t,
         OperandsFirst(nodes, s), OperandsFirst(nodes, t)
  PROVE  BothFirst(nodes, S, s, t, u)
<1> SUFFICES u \in Seq(S) /\ OperandsFirst(nodes, u) /\ ToSet(u) = ToSet(s) \cup ToSet(t)
  BY DEF BothFirst
<1> PICK m, n \in Nat : m = Len(s) /\ n = Len(t)
  OBVIOUS
<1>1. /\ u \in Seq(S)
      /\ \A k \in 1..m : u[k] = s[k]
      /\ \A k \in 1..n : u[m + k] = t[k]
      /\ \A k \in 1..Len(u) : k \in 1..m \/ (k - m \in 1..n /\ k = m + (k - m))
      /\ ToSet(u) = ToSet(s) \cup ToSet(t)
  <2>1. Concats(S, s, t, u)
    BY ONLY s \in Seq(S), t \in Seq(S), u = s \o t, ConcatIs
  <2> QED BY ONLY <2>1, m = Len(s), n = Len(t) DEF Concats
<1>2. ASSUME NEW k \in 1..m PROVE First(nodes, u, k)
  <2> SUFFICES ASSUME nodes[u[k]].tag # "leaf"
               PROVE  \E i1, j \in 1..(k - 1) : u[i1] = nodes[u[k]].left /\ u[j] = nodes[u[k]].right
    BY DEF First
  <2>1. u[k] = s[k] /\ First(nodes, s, k)
    BY <1>1 DEF OperandsFirst
  <2>2. PICK i1, j \in 1..(k - 1) : s[i1] = nodes[s[k]].left /\ s[j] = nodes[s[k]].right
    BY <2>1 DEF First
  <2>3. i1 \in 1..m /\ j \in 1..m
    OBVIOUS
  <2> QED BY <1>1, <2>1, <2>2, <2>3
<1>3. ASSUME NEW k \in 1..n PROVE First(nodes, u, m + k)
  <2> SUFFICES ASSUME nodes[u[m + k]].tag # "leaf"
               PROVE  \E i1, j \in 1..((m + k) - 1) :
                        u[i1] = nodes[u[m + k]].left /\ u[j] = nodes[u[m + k]].right
    BY DEF First
  <2>1. u[m + k] = t[k] /\ First(nodes, t, k)
    BY <1>1 DEF OperandsFirst
  <2>2. PICK i1, j \in 1..(k - 1) : t[i1] = nodes[t[k]].left /\ t[j] = nodes[t[k]].right
    BY <2>1 DEF First
  <2>3. i1 \in 1..n /\ j \in 1..n
    OBVIOUS
  <2>4. u[m + i1] = t[i1] /\ u[m + j] = t[j] /\ m + i1 \in 1..((m + k) - 1) /\ m + j \in 1..((m + k) - 1)
    BY <1>1, <2>3
  <2> QED BY <2>1, <2>2, <2>4
<1>4. ASSUME NEW k \in 1..Len(u) PROVE First(nodes, u, k)
  <2>1. CASE k \in 1..m
    BY <1>2, <2>1
  <2>2. CASE k - m \in 1..n /\ k = m + (k - m)
    <3> PICK d \in 1..n : d = k - m /\ k = m + d
      BY <2>2
    <3> QED BY <1>3
  <2> QED BY <1>1, <2>1, <2>2
<1> QED BY <1>1, <1>4 DEF OperandsFirst

NextFirst(nodes, S, s, n, u) ==
  u \in Seq(S) /\ OperandsFirst(nodes, u) /\ ToSet(u) = ToSet(s) \cup {n}

LEMMA OneFirst ==
  ASSUME NEW nodes, NEW S, NEW s \in Seq(S), NEW n \in S, NEW u, u = s \o <<n>>,
         OperandsFirst(nodes, s),
         nodes[n].tag # "leaf" => {nodes[n].left, nodes[n].right} \subseteq ToSet(s)
  PROVE  NextFirst(nodes, S, s, n, u)
<1> SUFFICES u \in Seq(S) /\ OperandsFirst(nodes, u) /\ ToSet(u) = ToSet(s) \cup {n}
  BY DEF NextFirst
<1> PICK m \in Nat : m = Len(s)
  OBVIOUS
<1> PICK t \in Seq(S) : t = <<n>> /\ Len(t) = 1 /\ t[1] = n /\ ToSet(t) = {n}
  <2>1. <<n>> \in Seq(S) /\ Len(<<n>>) = 1 /\ <<n>>[1] = n /\ DOMAIN <<n>> = {1}
    OBVIOUS
  <2> QED BY <2>1 DEF ToSet
<1>1. /\ u \in Seq(S)
      /\ \A k \in 1..m : u[k] = s[k]
      /\ \A k \in 1..1 : u[m + k] = t[k]
      /\ \A k \in 1..Len(u) : k \in 1..m \/ (k - m \in 1..1 /\ k = m + (k - m))
      /\ ToSet(u) = ToSet(s) \cup {n}
  <2>1. u = s \o t
    OBVIOUS
  <2>2. Concats(S, s, t, u)
    BY ONLY s \in Seq(S), t \in Seq(S), <2>1, ConcatIs
  <2> QED BY ONLY <2>2, m = Len(s), Len(t) = 1, ToSet(t) = {n} DEF Concats
<1>2. ASSUME NEW k \in 1..m PROVE First(nodes, u, k)
  <2> SUFFICES ASSUME nodes[u[k]].tag # "leaf"
               PROVE  \E i1, j \in 1..(k - 1) : u[i1] = nodes[u[k]].left /\ u[j] = nodes[u[k]].right
    BY DEF First
  <2>1. u[k] = s[k] /\ First(nodes, s, k)
    BY <1>1 DEF OperandsFirst
  <2>2. PICK i1, j \in 1..(k - 1) : s[i1] = nodes[s[k]].left /\ s[j] = nodes[s[k]].right
    BY <2>1 DEF First
  <2>3. i1 \in 1..m /\ j \in 1..m
    OBVIOUS
  <2> QED BY <1>1, <2>1, <2>2, <2>3
<1>3. First(nodes, u, m + 1)
  <2> SUFFICES ASSUME nodes[u[m + 1]].tag # "leaf"
               PROVE  \E i1, j \in 1..((m + 1) - 1) :
                        u[i1] = nodes[u[m + 1]].left /\ u[j] = nodes[u[m + 1]].right
    BY DEF First
  <2>1. u[m + 1] = n
    BY <1>1
  <2>2. nodes[n].left \in ToSet(s) /\ nodes[n].right \in ToSet(s) /\ DOMAIN s = 1..m
    BY <2>1
  <2>3. PICK i1, j \in 1..m : s[i1] = nodes[n].left /\ s[j] = nodes[n].right
    BY <2>2 DEF ToSet
  <2>4. 1..((m + 1) - 1) = 1..m
    OBVIOUS
  <2> QED BY <1>1, <2>1, <2>3, <2>4
<1>4. ASSUME NEW k \in 1..Len(u) PROVE First(nodes, u, k)
  <2>1. k \in 1..m \/ k = m + 1
    BY <1>1
  <2> QED BY <1>2, <1>3, <2>1
<1> QED BY <1>1, <1>4 DEF OperandsFirst

BelowOK(nodes, N, n) ==
  /\ Below(nodes)[n] \in Seq(1..N) /\ n \in ToSet(Below(nodes)[n])
  /\ OperandsFirst(nodes, Below(nodes)[n])

LEMMA BelowFirst ==
  ASSUME NEW nodes, NEW N \in Nat, Acyclic(nodes, N)
  PROVE  \A n \in 1..N : BelowOK(nodes, N, n)
<1> PICK b : b = Below(nodes)
  OBVIOUS
<1>1. \A n \in 1..N : b[n] = BelowStep(nodes, b, n)
  BY BelowIs DEF Acyclic
<1>2. ASSUME NEW n \in 1..N, \A m \in 1..(n - 1) : BelowOK(nodes, N, m) PROVE BelowOK(nodes, N, n)
  <2>1. \E s \in Seq(1..N) :
          /\ b[n] = s \o <<n>> /\ OperandsFirst(nodes, s)
          /\ nodes[n].tag # "leaf" => {nodes[n].left, nodes[n].right} \subseteq ToSet(s)
    <3>1. CASE nodes[n].tag = "leaf"
      <4>1. b[n] = <<n>>
        BY <1>1, <3>1 DEF BelowStep
      <4>2. <<>> \in Seq(1..N) /\ <<n>> = <<>> \o <<n>> /\ OperandsFirst(nodes, <<>>)
        BY DEF OperandsFirst
      <4> QED BY <3>1, <4>1, <4>2
    <3>2. CASE nodes[n].tag # "leaf"
      <4> PICK l, r : l = nodes[n].left /\ r = nodes[n].right
        OBVIOUS
      <4>1. b[n] = b[l] \o b[r] \o <<n>>
        BY <1>1, <3>2 DEF BelowStep
      <4>2. BelowOK(nodes, N, l) /\ BelowOK(nodes, N, r)
        BY <1>2, <3>2 DEF Acyclic
      <4> PICK s : s = b[l] \o b[r]
        OBVIOUS
      <4>3. s \in Seq(1..N) /\ OperandsFirst(nodes, s) /\ ToSet(s) = ToSet(b[l]) \cup ToSet(b[r])
        <5>1. /\ b[l] \in Seq(1..N) /\ b[r] \in Seq(1..N)
              /\ OperandsFirst(nodes, b[l]) /\ OperandsFirst(nodes, b[r])
          BY <4>2 DEF BelowOK
        <5> PICK S, c, d : S = 1..N /\ c = b[l] /\ d = b[r]
          OBVIOUS
        <5>2. /\ c \in Seq(S) /\ d \in Seq(S) /\ s = c \o d
              /\ OperandsFirst(nodes, c) /\ OperandsFirst(nodes, d)
          BY <5>1
        <5>3. BothFirst(nodes, S, c, d, s)
          BY ONLY <5>2, JoinedFirst
        <5> QED BY <5>3 DEF BothFirst
      <4>4. l \in ToSet(s) /\ r \in ToSet(s)
        BY <4>2, <4>3 DEF BelowOK
      <4> QED BY <4>1, <4>3, <4>4
    <3> QED BY <3>1, <3>2
  <2>2. PICK s \in Seq(1..N) :
          /\ b[n] = s \o <<n>> /\ OperandsFirst(nodes, s)
          /\ nodes[n].tag # "leaf" => {nodes[n].left, nodes[n].right} \subseteq ToSet(s)
    BY <2>1
  <2>3. b[n] \in Seq(1..N) /\ OperandsFirst(nodes, b[n]) /\ ToSet(b[n]) = ToSet(s) \cup {n}
    <3> PICK S, u : S = 1..N /\ u = b[n]
      OBVIOUS
    <3>1. /\ s \in Seq(S) /\ n \in S /\ u = s \o <<n>> /\ OperandsFirst(nodes, s)
          /\ nodes[n].tag # "leaf" => {nodes[n].left, nodes[n].right} \subseteq ToSet(s)
      BY <2>2
    <3>2. NextFirst(nodes, S, s, n, u)
      BY ONLY <3>1, OneFirst
    <3> QED BY <3>2 DEF NextFirst
  <2> QED BY <2>3 DEF BelowOK
<1> DEFINE T == {m \in 0..N : \A n \in 1..m : BelowOK(nodes, N, n)}
<1>3. 0 \in T
  OBVIOUS
<1>4. ASSUME NEW m \in 0..(N - 1), m \in T PROVE m + 1 \in T
  <2>1. m + 1 \in 1..N /\ (m + 1) - 1 = m
    OBVIOUS
  <2>2. BelowOK(nodes, N, m + 1)
    BY <1>2, <1>4, <2>1
  <2>3. \A n \in 1..(m + 1) : n \in 1..m \/ n = m + 1
    OBVIOUS
  <2> QED BY <1>4, <2>2, <2>3
<1>5. N \in T
  <2>1. 0 \in Int /\ N \in Int
    OBVIOUS
  <2> HIDE DEF T
  <2>2. \A k \in 0..(N - 1) : k \in T => k + 1 \in T
    BY <1>4
  <2>3. 0..N \subseteq T
    BY <1>3, <2>1, <2>2, UpTo
  <2> QED BY <2>3
<1> QED BY <1>5

LEMMA VisitedFirst ==
  ASSUME NEW nodes, NEW N \in Nat, Acyclic(nodes, N), NEW tops \in Seq(1..N),
         NEW ns, ns = Visited(nodes, tops)
  PROVE  ns \in Seq(1..N) /\ OperandsFirst(nodes, ns) /\ ToSet(tops) \subseteq ToSet(ns)
<1> PICK n \in Nat : n = Len(tops)
  OBVIOUS
<1>1. PICK a : /\ a[0] = <<>>
               /\ \A k \in 1..n : a[k] = WithBelow(a[k - 1], nodes, tops[k])
               /\ ns = a[n]
  <2>1. Len(tops) \in Nat
    OBVIOUS
  <2>2. VisitedBy(nodes, tops)
    BY ONLY <2>1, VisitedIs
  <2> QED BY ONLY <2>2, n = Len(tops), ns = Visited(nodes, tops) DEF VisitedBy
<1> DEFINE OK(k) == /\ a[k] \in Seq(1..N) /\ OperandsFirst(nodes, a[k])
                    /\ \A j \in 1..k : tops[j] \in ToSet(a[k])
           T == {k \in 0..n : OK(k)}
<1>2. 0 \in T
  <2>1. a[0] \in Seq(1..N) /\ Len(a[0]) = 0
    BY <1>1
  <2> QED BY <2>1 DEF OperandsFirst
<1>3. ASSUME NEW m \in 0..(n - 1), m \in T PROVE m + 1 \in T
  <2> PICK b : b = Below(nodes)[tops[m + 1]]
    OBVIOUS
  <2>1. m + 1 \in 1..n /\ (m + 1) - 1 = m /\ tops[m + 1] \in 1..N
    OBVIOUS
  <2>2. a[m + 1] = a[m] \o b
    BY <1>1, <2>1 DEF WithBelow
  <2>3. b \in Seq(1..N) /\ tops[m + 1] \in ToSet(b) /\ OperandsFirst(nodes, b)
    BY <2>1, BelowFirst DEF BelowOK
  <2>4. OK(m)
    BY <1>3
  <2>5. /\ a[m + 1] \in Seq(1..N) /\ OperandsFirst(nodes, a[m + 1])
        /\ ToSet(a[m + 1]) = ToSet(a[m]) \cup ToSet(b)
    <3> PICK S, u, c : S = 1..N /\ u = a[m + 1] /\ c = a[m]
      OBVIOUS
    <3>1. /\ c \in Seq(S) /\ b \in Seq(S) /\ u = c \o b
          /\ OperandsFirst(nodes, c) /\ OperandsFirst(nodes, b)
      BY <2>2, <2>3, <2>4
    <3>2. BothFirst(nodes, S, c, b, u)
      BY ONLY <3>1, JoinedFirst
    <3> QED BY <3>2 DEF BothFirst
  <2>6. \A j \in 1..(m + 1) : j \in 1..m \/ j = m + 1
    OBVIOUS
  <2>7. OK(m + 1)
    BY <2>3, <2>4, <2>5, <2>6
  <2> HIDE DEF OK
  <2> QED BY <2>7
<1>4. n \in T
  <2>1. 0 \in Int /\ n \in Int
    OBVIOUS
  <2> HIDE DEF T
  <2>2. \A k \in 0..(n - 1) : k \in T => k + 1 \in T
    BY <1>3
  <2>3. 0..n \subseteq T
    BY <1>2, <2>1, <2>2, UpTo
  <2> QED BY <2>3
<1>5. OK(n) /\ DOMAIN tops = 1..n
  BY <1>4
<1> QED BY <1>1, <1>5 DEF ToSet

-----------------------------------------------------------------------------
(* Code for one node: a quadruple q that gives it a result. *)
Made(e, n, p, q, failed) ==
  [nodes |-> WithNode(e.nodes, n, p), at |-> e.at, out |-> Append(e.out, q), used |-> e.used + 1,
   failed |-> failed, stale |-> e.stale]

LEMMA MadeIs ==
  ASSUME NEW e \in GraphType, NEW n \in 1..Len(e.nodes), NEW p \in NodeType, NEW q \in Quadr,
         NEW failed \in BOOLEAN
  PROVE  Made(e, n, p, q, failed) \in GraphType
<1>1. WithNode(e.nodes, n, p) \in Seq(NodeType)
  <2>1. e.nodes \in Seq(NodeType)
    BY GraphIs
  <2> QED BY <2>1, WithNodeIs
<1>2. Append(e.out, q) \in Seq(Quadr)
  <2>1. e.out \in Seq(Quadr)
    BY GraphIs
  <2> QED BY <2>1
<1>3. e.used + 1 \in Nat /\ e.at \in [Vars -> Nat] /\ e.stale \in BOOLEAN
  BY GraphIs
<1> QED BY <1>1, <1>2, <1>3, GraphFrom DEF Made

Resulting(p, x) == [p EXCEPT !.result = x]
Folded(p, x, c) == [p EXCEPT !.result = x, !.tag = "leaf", !.arg = c]

LEMMA ResultingIs ==
  ASSUME NEW p \in NodeType, NEW x \in Vars
  PROVE  /\ Resulting(p, x) \in NodeType
         /\ Resulting(p, x) = [tag |-> p.tag, op |-> p.op, left |-> p.left, right |-> p.right,
                               arg |-> p.arg, list |-> p.list, result |-> x]
<1>1. Resulting(p, x) = [tag |-> p.tag, op |-> p.op, left |-> p.left, right |-> p.right,
                         arg |-> p.arg, list |-> p.list, result |-> x]
  BY NodeIs DEF Resulting
<1> QED BY <1>1, NodeIs DEF NodeType

LEMMA FoldedIs ==
  ASSUME NEW p \in NodeType, NEW x \in Vars, NEW c \in Int
  PROVE  /\ Folded(p, x, c) \in NodeType
         /\ Folded(p, x, c) = [tag |-> "leaf", op |-> p.op, left |-> p.left, right |-> p.right,
                               arg |-> c, list |-> p.list, result |-> x]
<1>1. Folded(p, x, c) = [tag |-> "leaf", op |-> p.op, left |-> p.left, right |-> p.right,
                         arg |-> c, list |-> p.list, result |-> x]
  <2>1. p = [tag |-> p.tag, op |-> p.op, left |-> p.left, right |-> p.right,
             arg |-> p.arg, list |-> p.list, result |-> p.result]
    BY NodeIs
  <2>2. ASSUME NEW a1, NEW a2, NEW a3, NEW a4, NEW a5, NEW a6, NEW a7,
               p = [tag |-> a1, op |-> a2, left |-> a3, right |-> a4, arg |-> a5, list |-> a6, result |-> a7]
        PROVE  Folded(p, x, c) = [tag |-> "leaf", op |-> a2, left |-> a3, right |-> a4,
                                  arg |-> c, list |-> a6, result |-> x]
    <3> PICK p1 : p1 = [p EXCEPT !.result = x]
      OBVIOUS
    <3> PICK p2 : p2 = [p1 EXCEPT !.tag = "leaf"]
      OBVIOUS
    <3>1. p1 = [tag |-> a1, op |-> a2, left |-> a3, right |-> a4, arg |-> a5, list |-> a6, result |-> x]
      BY ONLY <2>2, p1 = [p EXCEPT !.result = x]
    <3>2. p2 = [tag |-> "leaf", op |-> a2, left |-> a3, right |-> a4, arg |-> a5, list |-> a6,
                result |-> x]
      BY ONLY <3>1, p2 = [p1 EXCEPT !.tag = "leaf"]
    <3>3. [p2 EXCEPT !.arg = c] =
            [tag |-> "leaf", op |-> a2, left |-> a3, right |-> a4, arg |-> c, list |-> a6, result |-> x]
      BY ONLY <3>2
    <3> QED BY <3>3 DEF Folded
  <2> QED BY ONLY <2>1, <2>2
<1> QED BY <1>1, NodeIs DEF NodeType, Operand

NextVar(e) == NewVars[e.used + 1]

LEMMA WithNewVarIs ==
  ASSUME NEW e \in GraphType, NEW n \in 1..Len(e.nodes), NEW x \in Vars, x = NextVar(e)
  PROVE  WithNewVar(e, n) =
           [nodes |-> WithNode(e.nodes, n, Resulting(e.nodes[n], x)), at |-> e.at, out |-> e.out,
            used |-> e.used + 1, failed |-> e.failed, stale |-> e.stale]
<1> PICK nodes : nodes = WithNode(e.nodes, n, Resulting(e.nodes[n], x))
  OBVIOUS
<1>1. WithNewVar(e, n) = [e EXCEPT !.used = e.used + 1, !.nodes = nodes]
  BY DEF WithNewVar, WithNode, Resulting, NextVar
<1>2. e = [nodes |-> e.nodes, at |-> e.at, out |-> e.out, used |-> e.used,
           failed |-> e.failed, stale |-> e.stale]
  BY GraphIs
<1> QED BY ONLY <1>1, <1>2, nodes = WithNode(e.nodes, n, Resulting(e.nodes[n], x))

LEMMA GenLeafIs ==
  ASSUME NEW e \in GraphType, NEW n \in 1..Len(e.nodes), NEW x \in Vars, x = NextVar(e)
  PROVE  GenLeaf(e, n) = Made(e, n, Resulting(e.nodes[n], x), CopyQuadr(x, e.nodes[n].arg), e.failed)
<1> PICK p : p = Resulting(e.nodes[n], x)
  OBVIOUS
<1> PICK nodes : nodes = WithNode(e.nodes, n, p)
  OBVIOUS
<1> PICK f : f = WithNewVar(e, n)
  OBVIOUS
<1>1. f = [nodes |-> nodes, at |-> e.at, out |-> e.out, used |-> e.used + 1, failed |-> e.failed,
           stale |-> e.stale]
  BY WithNewVarIs
<1>2. e.nodes[n] \in NodeType /\ e.nodes \in Seq(NodeType)
  BY GraphIs
<1>3. p \in NodeType /\ p.result = x /\ p.arg = e.nodes[n].arg
  BY <1>2, ResultingIs
<1>4. nodes[n] = p
  BY <1>2, <1>3, WithNodeIs
<1>5. GenLeaf(e, n) = [f EXCEPT !.out = Append(f.out, CopyQuadr(f.nodes[n].result, f.nodes[n].arg))]
  BY DEF GenLeaf, Emit
<1> PICK q : q = CopyQuadr(x, e.nodes[n].arg)
  OBVIOUS
<1>6. f.nodes = nodes /\ f.out = e.out
  BY <1>1
<1>7. GenLeaf(e, n) = [f EXCEPT !.out = Append(e.out, q)]
  BY <1>3, <1>4, <1>5, <1>6
<1>8. GenLeaf(e, n) = Made(e, n, p, q, e.failed)
  <2> PICK made : made = GenLeaf(e, n)
    OBVIOUS
  <2>1. made = [f EXCEPT !.out = Append(e.out, q)]
    BY <1>7
  <2>2. made = [nodes |-> nodes, at |-> e.at, out |-> Append(e.out, q), used |-> e.used + 1,
                failed |-> e.failed, stale |-> e.stale]
    BY ONLY <1>1, <2>1
  <2>3. made = Made(e, n, p, q, e.failed)
    BY ONLY <2>2, nodes = WithNode(e.nodes, n, p) DEF Made
  <2> QED BY <2>3
<1> QED BY <1>8

BothConst(e, n) ==
  LET l == e.nodes[e.nodes[n].left]
      r == e.nodes[e.nodes[n].right]
  IN l.tag = "leaf" /\ r.tag = "leaf" /\ IsConst(l.arg) /\ IsConst(r.arg)

FoldedValue(e, n) ==
  ConstantOp(e.nodes[n].op, e.nodes[e.nodes[n].left].arg, e.nodes[e.nodes[n].right].arg)

LEMMA GenOpIs ==
  ASSUME NEW e \in GraphType, NEW n \in 1..Len(e.nodes), NEW x \in Vars, x = NextVar(e)
  PROVE  /\ BothConst(e, n) /\ FoldedValue(e, n) \in Int =>
              \E failed \in BOOLEAN :
                GenOp(e, n) = Made(e, n, Folded(e.nodes[n], x, FoldedValue(e, n)),
                                   CopyQuadr(x, FoldedValue(e, n)), failed)
         /\ ~BothConst(e, n) =>
              GenOp(e, n) = Made(e, n, Resulting(e.nodes[n], x),
                                 [op |-> e.nodes[n].op, result |-> x,
                                  arg1 |-> e.nodes[e.nodes[n].left].result,
                                  arg2 |-> e.nodes[e.nodes[n].right].result], e.failed)
<1> PICK p : p = Resulting(e.nodes[n], x)
  OBVIOUS
<1> PICK nodes : nodes = WithNode(e.nodes, n, p)
  OBVIOUS
<1> PICK f : f = WithNewVar(e, n)
  OBVIOUS
<1> PICK node, l, r, c : /\ node = e.nodes[n] /\ l = e.nodes[node.left] /\ r = e.nodes[node.right]
                         /\ c = FoldedValue(e, n)
  OBVIOUS
<1>1. f = [nodes |-> nodes, at |-> e.at, out |-> e.out, used |-> e.used + 1, failed |-> e.failed,
           stale |-> e.stale]
  BY WithNewVarIs
<1>2. node \in NodeType /\ e.nodes \in Seq(NodeType) /\ e.failed \in BOOLEAN
  BY GraphIs
<1>3. p \in NodeType /\ p.result = x
  BY <1>2, ResultingIs
<1>4. nodes[n] = p /\ nodes \in Seq(NodeType)
  BY <1>2, <1>3, WithNodeIs
<1>5. f.nodes = nodes /\ f.out = e.out /\ f.failed = e.failed /\ f.nodes[n].result = x
  BY <1>1, <1>3, <1>4
<1>6. CASE ~BothConst(e, n)
  <2> PICK q : q = [op |-> node.op, result |-> x, arg1 |-> l.result, arg2 |-> r.result]
    OBVIOUS
  <2>1. GenOp(e, n) = [f EXCEPT !.out = Append(e.out, q)]
    BY <1>5, <1>6 DEF GenOp, BothConst, Emit
  <2>2. GenOp(e, n) = Made(e, n, p, q, e.failed)
    <3> PICK made : made = GenOp(e, n)
      OBVIOUS
    <3>1. made = [f EXCEPT !.out = Append(e.out, q)]
      BY <2>1
    <3>2. made = [nodes |-> nodes, at |-> e.at, out |-> Append(e.out, q), used |-> e.used + 1,
                  failed |-> e.failed, stale |-> e.stale]
      BY ONLY <1>1, <3>1
    <3>3. made = Made(e, n, p, q, e.failed)
      BY ONLY <3>2, nodes = WithNode(e.nodes, n, p) DEF Made
    <3> QED BY <3>3
  <2> QED BY <1>6, <2>2
<1>7. ASSUME BothConst(e, n), c \in Int
      PROVE  \E failed \in BOOLEAN : GenOp(e, n) = Made(e, n, Folded(node, x, c), CopyQuadr(x, c), failed)
  <2> PICK q : q = CopyQuadr(x, c)
    OBVIOUS
  <2> PICK failed \in BOOLEAN : failed = (e.failed \/ (node.op = "div" /\ r.arg = 0))
    BY <1>2
  <2> PICK h : h = [f EXCEPT !.nodes[n].tag = "leaf", !.nodes[n].arg = c, !.failed = failed]
    OBVIOUS
  <2>1. GenOp(e, n) = [h EXCEPT !.out = Append(h.out, q)]
    <3>1. c = ConstantOp(node.op, l.arg, r.arg)
      BY DEF FoldedValue
    <3> QED BY <1>5, <1>7, <3>1 DEF GenOp, BothConst, Emit
  <2> PICK w : w = Folded(node, x, c)
    OBVIOUS
  <2>2. w = [p EXCEPT !.tag = "leaf", !.arg = c]
    <3>1. p = [tag |-> node.tag, op |-> node.op, left |-> node.left, right |-> node.right,
               arg |-> node.arg, list |-> node.list, result |-> x]
      BY <1>2, ResultingIs
    <3>2. w = [tag |-> "leaf", op |-> node.op, left |-> node.left, right |-> node.right,
               arg |-> c, list |-> node.list, result |-> x]
      BY <1>2, <1>7, FoldedIs
    <3> PICK p1 : p1 = [p EXCEPT !.tag = "leaf"]
      OBVIOUS
    <3>3. p1 = [tag |-> "leaf", op |-> node.op, left |-> node.left, right |-> node.right,
                arg |-> node.arg, list |-> node.list, result |-> x]
      BY ONLY <3>1, p1 = [p EXCEPT !.tag = "leaf"]
    <3>4. [p1 EXCEPT !.arg = c] =
            [tag |-> "leaf", op |-> node.op, left |-> node.left, right |-> node.right,
             arg |-> c, list |-> node.list, result |-> x]
      BY ONLY <3>3
    <3>5. w = [p1 EXCEPT !.arg = c]
      BY ONLY <3>2, <3>4
    <3> QED BY <3>5
  <2> PICK ns : ns = [nodes EXCEPT ![n] = w]
    OBVIOUS
  <2> PICK p1 : p1 = [p EXCEPT !.tag = "leaf"]
    OBVIOUS
  <2> PICK ns1 : ns1 = [nodes EXCEPT ![n] = p1]
    OBVIOUS
  <2> PICK f1 : f1 = [f EXCEPT !.nodes = ns1]
    OBVIOUS
  <2>31. f1 = [f EXCEPT !.nodes[n].tag = "leaf"]
    <3>1. f.nodes = nodes /\ nodes[n] = p
      BY <1>4, <1>5
    <3> QED BY <3>1
  <2>32. f1 = [nodes |-> ns1, at |-> e.at, out |-> e.out, used |-> e.used + 1, failed |-> e.failed,
               stale |-> e.stale]
    BY ONLY <1>1, f1 = [f EXCEPT !.nodes = ns1]
  <2>33. ns1[n] = p1 /\ [ns1 EXCEPT ![n] = w] = ns
    <3>1. n \in DOMAIN nodes
      <4>1. Len(nodes) = Len(e.nodes) /\ nodes \in Seq(NodeType)
        BY <1>2, <1>3, WithNodeIs
      <4> QED BY <4>1
    <3> QED BY ONLY <3>1, ns1 = [nodes EXCEPT ![n] = p1], ns = [nodes EXCEPT ![n] = w]
  <2> PICK f2 : f2 = [f1 EXCEPT !.nodes = ns]
    OBVIOUS
  <2>34. f2 = [f1 EXCEPT !.nodes[n].arg = c]
    <3>1. f1.nodes = ns1
      BY ONLY <2>32
    <3>2. w = [p1 EXCEPT !.arg = c]
      BY <2>2
    <3>3. [f1.nodes[n] EXCEPT !.arg = c] = w
      BY ONLY <2>33, <3>1, <3>2
    <3>4. [f1.nodes EXCEPT ![n] = w] = ns
      BY ONLY <2>33, <3>1
    <3> QED BY ONLY <3>3, <3>4, f2 = [f1 EXCEPT !.nodes = ns]
  <2>35. f2 = [nodes |-> ns, at |-> e.at, out |-> e.out, used |-> e.used + 1, failed |-> e.failed,
               stale |-> e.stale]
    BY ONLY <2>32, f2 = [f1 EXCEPT !.nodes = ns]
  <2>3. h = [f2 EXCEPT !.failed = failed]
    BY <2>31, <2>34
  <2>4. ns = WithNode(e.nodes, n, w)
    BY <1>2 DEF WithNode
  <2>5. h = [nodes |-> ns, at |-> e.at, out |-> e.out, used |-> e.used + 1, failed |-> failed,
             stale |-> e.stale]
    BY ONLY <2>35, <2>3
  <2>6. GenOp(e, n) = Made(e, n, w, q, failed)
    <3> PICK made : made = GenOp(e, n)
      OBVIOUS
    <3>1. made = [h EXCEPT !.out = Append(h.out, q)]
      BY <2>1
    <3>2. made = [nodes |-> ns, at |-> e.at, out |-> Append(e.out, q), used |-> e.used + 1,
                  failed |-> failed, stale |-> e.stale]
      BY ONLY <2>5, <3>1
    <3>3. made = Made(e, n, w, q, failed)
      BY ONLY <2>4, <3>2 DEF Made
    <3> QED BY <3>3
  <2> QED BY <2>6
<1> QED BY <1>6, <1>7

-----------------------------------------------------------------------------
(* The graph while code is generated from it: e, which was g before. *)
Ready(g, X) ==
  /\ GraphOK(g) /\ LeavesOwn(g) /\ ListsIn(g, X) /\ X \subseteq Own
  /\ g.used + Len(g.nodes) <= Len(NewVars)

NewUpTo(k) == {NewVars[m] : m \in 1..k}
Resulted(e) == {n \in 1..Len(e.nodes) : e.nodes[n].result # None}

Gives(p, old, x) ==
  /\ p.op = old.op /\ p.left = old.left /\ p.right = old.right /\ p.list = old.list /\ p.result = x
  /\ \/ p.tag = old.tag /\ p.arg = old.arg
     \/ ~IsLeaf(old) /\ p.tag = "leaf" /\ p.arg \in Int

MidNode(p, q, used) ==
  /\ p.op = q.op /\ p.left = q.left /\ p.right = q.right
  /\ \/ p.tag = q.tag /\ p.arg = q.arg
     \/ ~IsLeaf(q) /\ p.tag = "leaf" /\ p.arg \in Int /\ p.result # None
  /\ p.list \in {q.list, <<>>}
  /\ p.result \in NewUpTo(used) \cup {None}

Emitted(X) == {q \in Quadr : q.op \in Arithmetic \cup {"copy"} /\ q.result \in X \cup ToSet(NewVars)}
Extends(old, new, X) ==
  /\ Len(old) <= Len(new) /\ \A k \in 1..Len(old) : new[k] = old[k]
  /\ \A k \in (Len(old) + 1)..Len(new) : new[k] \in Emitted(X)

Shape(g, e, X) ==
  /\ e \in GraphType /\ Len(e.nodes) = Len(g.nodes) /\ e.at = g.at /\ e.stale = g.stale
  /\ \A n \in 1..Len(g.nodes) : MidNode(e.nodes[n], g.nodes[n], e.used)
  /\ e.used = g.used + Cardinality(Resulted(e))
  /\ Extends(g.out, e.out, X)

(* What holds of the values, if no list names a variable whose value is    *)
(* another node's by now. *)
Right(g, val) == ListsTrue(g) /\ Values(g, val, Meaning(g.out).env)

Sound(g, e, val) ==
  /\ Meaning(e.out).effects = Meaning(g.out).effects
  /\ \A n \in 1..Len(g.nodes) : e.nodes[n].result # None => Meaning(e.out).env[e.nodes[n].result] = val[n]
  /\ \A n \in 1..Len(g.nodes) : e.nodes[n].tag = "leaf" /\ ~IsLeaf(g.nodes[n]) =>
       val[n] = Fixed(e.nodes[n].arg)
  /\ \A v \in Own : \/ Meaning(e.out).env[v] = Meaning(g.out).env[v]
                    \/ g.at[v] # 0 /\ Meaning(e.out).env[v] = val[g.at[v]]
  /\ \A v \in Own : g.at[v] # 0 /\ e.nodes[g.at[v]].list = <<>> =>
       Meaning(e.out).env[v] = val[g.at[v]]

LEMMA NewVarsAre ==
  /\ NewVars \in Seq(Vars) /\ Len(NewVars) \in Nat
  /\ \A k \in 1..Len(NewVars) : NewVars[k] \in ToSet(NewVars) /\ NewVars[k] \in Vars
  /\ \A j, k \in 1..Len(NewVars) : NewVars[j] = NewVars[k] => j = k
  /\ ToSet(NewVars) \subseteq Vars
<1>1. NewVars \in Seq(Vars) /\ Len(NewVars) \in Nat /\ DOMAIN NewVars = 1..Len(NewVars)
  BY ExprGraphAssumption
<1>2. \A k \in 1..Len(NewVars) : NewVars[k] \in Vars
  BY <1>1
<1>3. \A k \in 1..Len(NewVars) : NewVars[k] \in ToSet(NewVars)
  BY <1>1 DEF ToSet
<1>4. \A j, k \in 1..Len(NewVars) : NewVars[j] = NewVars[k] => j = k
  BY <1>1, ExprGraphAssumption DEF IsInjective
<1>5. ToSet(NewVars) \subseteq Vars
  BY <1>1, <1>2 DEF ToSet
<1> QED BY <1>1, <1>2, <1>3, <1>4, <1>5

LEMMA Count ==
  ASSUME NEW N \in Nat, NEW S \in SUBSET (1..N)
  PROVE  /\ Cardinality(S) \in Nat /\ Cardinality(S) <= N
         /\ \A n \in 1..N : n \notin S =>
              Cardinality(S) + 1 <= N /\ Cardinality(S \cup {n}) = Cardinality(S) + 1
<1>1. IsFiniteSet(1..N) /\ Cardinality(1..N) = N
  <2>1. IsFiniteSet(1..N) /\ Cardinality(1..N) = IF 1 > N THEN 0 ELSE N - 1 + 1
    BY FS_Interval
  <2> QED BY <2>1
<1>2. \A T \in SUBSET (1..N) : IsFiniteSet(T) /\ Cardinality(T) <= N /\ Cardinality(T) \in Nat
  BY <1>1, FS_Subset, FS_CardinalityType
<1>3. ASSUME NEW n \in 1..N, n \notin S
      PROVE  Cardinality(S) + 1 <= N /\ Cardinality(S \cup {n}) = Cardinality(S) + 1
  <2>1. Cardinality(S \cup {n}) = Cardinality(S) + 1
    BY <1>2, <1>3, FS_AddElement
  <2>2. S \cup {n} \in SUBSET (1..N)
    OBVIOUS
  <2> QED BY <1>2, <2>1, <2>2
<1> QED BY <1>2, <1>3

(* The variable the next node gets. *)
IsNext(e, x) ==
  /\ x = NextVar(e) /\ x \in Vars /\ x \in ToSet(NewVars) /\ x \notin NewUpTo(e.used) /\ x # None
  /\ \A k \in 0..e.used : NewUpTo(k) \subseteq Vars /\ NewUpTo(k) \subseteq ToSet(NewVars)

LEMMA NextVarIs ==
  ASSUME NEW g, NEW X, Ready(g, X), NEW e, Shape(g, e, X), NEW n \in 1..Len(g.nodes),
         e.nodes[n].result = None
  PROVE  IsNext(e, NextVar(e))
<1> PICK N \in Nat : N = Len(g.nodes)
  BY GraphIs DEF Ready, GraphOK
<1> PICK S : S = Resulted(e)
  OBVIOUS
<1>1. S \in SUBSET (1..N) /\ n \notin S /\ n \in 1..N
  BY DEF Resulted, Shape
<1>2. Cardinality(S) \in Nat /\ Cardinality(S) + 1 <= N
  BY <1>1, Count
<1>3. e.used \in Nat /\ g.used \in Nat /\ e.used = g.used + Cardinality(S) /\ g.used + N <= Len(NewVars)
  BY GraphIs DEF Shape, Ready, GraphOK
<1>4. e.used + 1 \in 1..Len(NewVars) /\ e.used + 1 \in Nat /\ Len(NewVars) \in Nat
  BY <1>2, <1>3, NewVarsAre
<1> PICK x : x = NextVar(e)
  OBVIOUS
<1>5. x = NewVars[e.used + 1]
  BY DEF NextVar
<1>6. x \in ToSet(NewVars) /\ x \in Vars
  BY <1>4, <1>5, NewVarsAre
<1>7. x # None
  BY <1>6, QuadruplesAssumption
<1>8. x \notin NewUpTo(e.used)
  <2> SUFFICES ASSUME NEW m \in 1..e.used, x = NewVars[m] PROVE FALSE
    BY DEF NewUpTo
  <2>1. m \in 1..Len(NewVars) /\ m # e.used + 1
    BY <1>3, <1>4
  <2> QED BY <1>4, <1>5, <2>1, NewVarsAre
<1>9. \A k \in 0..e.used : NewUpTo(k) \subseteq Vars /\ NewUpTo(k) \subseteq ToSet(NewVars)
  <2>1. \A k \in 0..e.used : \A m \in 1..k : m \in 1..Len(NewVars)
    BY <1>3, <1>4
  <2> QED BY <2>1, NewVarsAre DEF NewUpTo
<1> QED BY <1>6, <1>7, <1>8, <1>9 DEF IsNext

LEMMA ExtendsMore ==
  ASSUME NEW old \in Seq(Quadr), NEW mid \in Seq(Quadr), NEW new \in Seq(Quadr), NEW X,
         Extends(old, mid, X), Extends(mid, new, X)
  PROVE  Extends(old, new, X)
<1> PICK a, b, c \in Nat : a = Len(old) /\ b = Len(mid) /\ c = Len(new)
  OBVIOUS
<1>1. /\ a <= b /\ b <= c
      /\ \A k \in 1..a : mid[k] = old[k]
      /\ \A k \in 1..b : new[k] = mid[k]
      /\ \A k \in (a + 1)..b : mid[k] \in Emitted(X)
      /\ \A k \in (b + 1)..c : new[k] \in Emitted(X)
  BY DEF Extends
<1>2. \A k \in (a + 1)..c : (k \in (a + 1)..b /\ k \in 1..b) \/ k \in (b + 1)..c
  BY <1>1
<1>3. \A k \in 1..a : k \in 1..b
  BY <1>1
<1>4. \A k \in (a + 1)..c : new[k] \in Emitted(X)
  BY <1>1, <1>2
<1>5. \A k \in 1..a : new[k] = old[k]
  BY <1>1, <1>3
<1>6. a <= c
  BY <1>1
<1> QED BY <1>4, <1>5, <1>6 DEF Extends

LEMMA ExtendsOne ==
  ASSUME NEW out \in Seq(Quadr), NEW q, NEW X, q \in Emitted(X)
  PROVE  Append(out, q) \in Seq(Quadr) /\ Extends(out, Append(out, q), X)
<1> PICK n \in Nat : n = Len(out)
  OBVIOUS
<1> PICK new : new = Append(out, q)
  OBVIOUS
<1>1. q \in Quadr
  BY DEF Emitted
<1>2. new \in Seq(Quadr) /\ Len(new) = n + 1 /\ new[n + 1] = q /\ \A k \in 1..n : new[k] = out[k]
  BY <1>1
<1>3. n <= n + 1 /\ \A k \in (n + 1)..(n + 1) : k = n + 1
  OBVIOUS
<1> QED BY <1>2, <1>3 DEF Extends

(* What Made leaves: node n is p, quadruple q is written, the rest as before. *)
MadeOf(h, e, n, p, q) ==
  /\ h \in GraphType /\ Len(h.nodes) = Len(e.nodes) /\ h.nodes[n] = p
  /\ \A m \in 1..Len(e.nodes) : m # n => h.nodes[m] = e.nodes[m]
  /\ h.at = e.at /\ h.stale = e.stale /\ h.used = e.used + 1 /\ h.out = Append(e.out, q)

LEMMA MadeFields ==
  ASSUME NEW e \in GraphType, NEW n \in 1..Len(e.nodes), NEW p \in NodeType, NEW q \in Quadr,
         NEW failed \in BOOLEAN, NEW h, h = Made(e, n, p, q, failed)
  PROVE  MadeOf(h, e, n, p, q)
<1> PICK ns : ns = e.nodes
  OBVIOUS
<1>1. ns \in Seq(NodeType) /\ n \in 1..Len(ns)
  BY GraphIs
<1>2. /\ Len(WithNode(ns, n, p)) = Len(ns)
      /\ WithNode(ns, n, p)[n] = p
      /\ \A m \in 1..Len(ns) : m # n => WithNode(ns, n, p)[m] = ns[m]
  BY <1>1, WithNodeIs
<1>3. /\ h.nodes = WithNode(ns, n, p) /\ h.at = e.at /\ h.stale = e.stale /\ h.used = e.used + 1
      /\ h.out = Append(e.out, q)
  BY DEF Made
<1>4. h \in GraphType
  BY MadeIs
<1> QED BY <1>1, <1>2, <1>3, <1>4 DEF MadeOf

LEMMA MadeShape ==
  ASSUME NEW g, NEW X, Ready(g, X), NEW e, Shape(g, e, X), NEW n \in 1..Len(g.nodes),
         e.nodes[n].result = None, NEW x, IsNext(e, x),
         NEW p \in NodeType, Gives(p, e.nodes[n], x),
         NEW q \in Quadr, q.op \in Arithmetic \cup {"copy"}, q.result = x, NEW failed \in BOOLEAN,
         NEW h, h = Made(e, n, p, q, failed)
  PROVE  Shape(g, h, X)
<1> PICK N \in Nat : N = Len(g.nodes)
  BY GraphIs DEF Ready, GraphOK
<1>1. e \in GraphType /\ Len(e.nodes) = N /\ n \in 1..N /\ e.used \in Nat
  BY GraphIs DEF Shape
<1>2. /\ h \in GraphType /\ Len(h.nodes) = N /\ h.nodes[n] = p
      /\ \A m \in 1..N : m # n => h.nodes[m] = e.nodes[m]
      /\ h.at = e.at /\ h.stale = e.stale /\ h.used = e.used + 1 /\ h.out = Append(e.out, q)
  <2>1. n \in 1..Len(e.nodes)
    BY <1>1
  <2>2. MadeOf(h, e, n, p, q)
    BY <1>1, <2>1, MadeFields
  <2> QED BY ONLY <1>1, <2>2 DEF MadeOf
<1>3. NewUpTo(e.used) \subseteq NewUpTo(e.used + 1) /\ x \in NewUpTo(e.used + 1)
  <2>1. \A m \in 1..e.used : m \in 1..(e.used + 1)
    BY <1>1
  <2>2. e.used + 1 \in 1..(e.used + 1)
    BY <1>1
  <2>3. x = NewVars[e.used + 1]
    BY DEF IsNext, NextVar
  <2> QED BY <2>1, <2>2, <2>3 DEF NewUpTo
<1>4. ASSUME NEW m \in 1..N PROVE MidNode(h.nodes[m], g.nodes[m], h.used)
  <2>1. MidNode(e.nodes[m], g.nodes[m], e.used)
    BY DEF Shape
  <2>2. CASE m # n
    <3>1. h.nodes[m] = e.nodes[m]
      BY <1>2, <2>2
    <3> QED BY <1>2, <1>3, <2>1, <3>1 DEF MidNode
  <2>3. CASE m = n
    <3> PICK old, o : old = e.nodes[m] /\ o = g.nodes[m]
      OBVIOUS
    <3>1. h.nodes[m] = p /\ Gives(p, old, x) /\ old.result = None /\ x # None
      BY <1>2, <2>3 DEF IsNext
    <3>2. p.op = o.op /\ p.left = o.left /\ p.right = o.right /\ p.list \in {o.list, <<>>}
      BY <2>1, <3>1 DEF MidNode, Gives
    <3>3. p.result \in NewUpTo(h.used) \cup {None}
      BY <1>2, <1>3, <3>1 DEF Gives
    <3>4. \/ p.tag = o.tag /\ p.arg = o.arg
          \/ ~IsLeaf(o) /\ p.tag = "leaf" /\ p.arg \in Int /\ p.result # None
      <4>1. old.tag = o.tag /\ old.arg = o.arg /\ (IsLeaf(old) <=> IsLeaf(o))
        BY <2>1, <3>1 DEF MidNode, IsLeaf
      <4> QED BY <3>1, <4>1 DEF Gives
    <3> QED BY <3>1, <3>2, <3>3, <3>4 DEF MidNode
  <2> QED BY <2>2, <2>3
<1>5. h.used = g.used + Cardinality(Resulted(h))
  <2>1. Resulted(h) = Resulted(e) \cup {n}
    <3>1. p.result # None
      BY DEF Gives, IsNext
    <3> QED BY <1>1, <1>2, <3>1 DEF Resulted
  <2>2. n \notin Resulted(e) /\ Resulted(e) \in SUBSET (1..N)
    BY <1>1 DEF Resulted
  <2>3. Cardinality(Resulted(h)) = Cardinality(Resulted(e)) + 1 /\ Cardinality(Resulted(e)) \in Nat
    BY <1>1, <2>1, <2>2, Count
  <2>4. g.used \in Nat /\ e.used = g.used + Cardinality(Resulted(e))
    BY GraphIs DEF Shape, Ready, GraphOK
  <2>5. h.used = e.used + 1
    BY <1>2
  <2> QED BY ONLY <2>3, <2>4, <2>5
<1>6. Extends(g.out, h.out, X)
  <2>1. q \in Emitted(X)
    BY DEF Emitted, IsNext
  <2>2. g.out \in Seq(Quadr) /\ e.out \in Seq(Quadr) /\ h.out \in Seq(Quadr)
    BY <1>1, <1>2, GraphIs DEF Ready, GraphOK
  <2>3. Extends(e.out, h.out, X)
    BY <1>2, <2>1, <2>2, ExtendsOne
  <2> QED BY <2>2, <2>3, ExtendsMore DEF Shape
<1> QED BY <1>1, <1>2, <1>4, <1>5, <1>6 DEF Shape

LEMMA OutState ==
  ASSUME NEW e \in GraphType
  PROVE  e.out \in Seq(Quadr) /\ State(Meaning(e.out))
<1>1. e.out \in Seq(Quadr) /\ Len(e.out) \in 0..Len(e.out)
  BY GraphIs
<1> QED BY <1>1, ExecutionStates DEF Meaning

LEMMA MadeSound ==
  ASSUME NEW g, NEW X, Ready(g, X), NEW e, Shape(g, e, X), NEW n \in 1..Len(g.nodes),
         e.nodes[n].result = None, NEW x, IsNext(e, x),
         NEW p \in NodeType, Gives(p, e.nodes[n], x),
         NEW q \in Quadr, q.op \in Arithmetic \cup {"copy"}, q.result = x, NEW failed \in BOOLEAN,
         NEW h, h = Made(e, n, p, q, failed),
         NEW val, Sound(g, e, val), Given(Meaning(e.out), q) = val[n],
         p.tag = "leaf" /\ ~IsLeaf(g.nodes[n]) => val[n] = Fixed(p.arg)
  PROVE  Sound(g, h, val)
<1> PICK N \in Nat : N = Len(g.nodes)
  BY GraphIs DEF Ready, GraphOK
<1>1. e \in GraphType /\ Len(e.nodes) = N /\ n \in 1..N /\ e.used \in Nat
  BY GraphIs DEF Shape
<1>2. /\ Len(h.nodes) = N /\ h.nodes[n] = p
      /\ \A m \in 1..N : m # n => h.nodes[m] = e.nodes[m]
      /\ h.out = Append(e.out, q)
  <2>1. n \in 1..Len(e.nodes)
    BY <1>1
  <2>2. MadeOf(h, e, n, p, q)
    BY <1>1, <2>1, MadeFields
  <2> QED BY ONLY <1>1, <2>2 DEF MadeOf
<1> PICK s, t : s = Meaning(e.out) /\ t = Meaning(h.out)
  OBVIOUS
<1>3. t = Execute(s, q) /\ State(s)
  <2>1. e.out \in Seq(Quadr) /\ State(s)
    BY <1>1, OutState
  <2> QED BY <1>2, <2>1, MeaningAppend
<1>4. /\ t.effects = s.effects /\ t.env[x] = val[n]
      /\ \A v \in Vars \ {x} : t.env[v] = s.env[v]
  <2>1. q.op \in Assigning /\ q.op \notin Visible
    BY DEF Assigning, Visible, Arithmetic
  <2> QED BY <1>3, <2>1, ExecuteIs
<1>5. \A v \in Own : v \in Vars \ {x} /\ t.env[v] = s.env[v]
  <2>1. \A v \in Own : v \in Vars \ {x}
    BY DEF Own, IsNext
  <2> QED BY <1>4, <2>1
<1>6. ASSUME NEW m \in 1..N, h.nodes[m].result # None PROVE t.env[h.nodes[m].result] = val[m]
  <2>1. CASE m = n
    BY <1>2, <1>4, <2>1 DEF Gives
  <2>2. CASE m # n
    <3>1. h.nodes[m] = e.nodes[m]
      BY <1>2, <2>2
    <3>2. e.nodes[m].result \in NewUpTo(e.used) /\ e.used \in 0..e.used
      BY <1>1, <1>6, <3>1 DEF Shape, MidNode
    <3>3. e.nodes[m].result \in Vars \ {x}
      BY <3>2 DEF IsNext
    <3>4. s.env[e.nodes[m].result] = val[m]
      BY <1>6, <3>1 DEF Sound
    <3> QED BY <1>4, <3>1, <3>3, <3>4
  <2> QED BY <2>1, <2>2
<1>7. ASSUME NEW m \in 1..N, h.nodes[m].tag = "leaf", ~IsLeaf(g.nodes[m])
      PROVE  val[m] = Fixed(h.nodes[m].arg)
  BY <1>2, <1>7 DEF Sound
<1>8. ASSUME NEW v \in Own, g.at[v] # 0, h.nodes[g.at[v]].list = <<>> PROVE t.env[v] = val[g.at[v]]
  <2>1. g.at[v] \in 1..N
    <3>1. AtOK(g, v)
      BY DEF Ready, GraphOK, Own
    <3> QED BY <1>8, <3>1 DEF AtOK
  <2>2. e.nodes[g.at[v]].list = <<>>
    BY <1>2, <1>8, <2>1 DEF Gives
  <2>3. s.env[v] = val[g.at[v]]
    BY <1>8, <2>2 DEF Sound
  <2> QED BY <1>5, <2>3
<1>9. /\ s.effects = Meaning(g.out).effects
      /\ \A v \in Own : s.env[v] = Meaning(g.out).env[v] \/ (g.at[v] # 0 /\ s.env[v] = val[g.at[v]])
  BY DEF Sound
<1> QED BY <1>4, <1>5, <1>6, <1>7, <1>8, <1>9 DEF Sound

NodeMade(e, h, n) ==
  /\ Len(h.nodes) = Len(e.nodes) /\ h.nodes[n].result # None /\ h.nodes[n].list = e.nodes[n].list
  /\ \A m \in 1..Len(e.nodes) : m # n => h.nodes[m] = e.nodes[m]

LEMMA ReadyNode ==
  ASSUME NEW g, NEW X, Ready(g, X), NEW n \in 1..Len(g.nodes)
  PROVE  /\ IsLeaf(g.nodes[n]) <=> g.nodes[n].tag = "leaf"
         /\ IsLeaf(g.nodes[n]) => /\ g.nodes[n].arg \in Operand
                                  /\ g.nodes[n].arg \in Vars => g.nodes[n].arg \in Own
         /\ ~IsLeaf(g.nodes[n]) => /\ g.nodes[n].left \in 1..(n - 1) /\ g.nodes[n].right \in 1..(n - 1)
                                   /\ g.nodes[n].left \in 1..Len(g.nodes)
                                   /\ g.nodes[n].right \in 1..Len(g.nodes)
                                   /\ g.nodes[n].op \in Arithmetic
         /\ g.nodes[n].result = None /\ g.nodes[n].list \in Seq(Vars) /\ n \in DOMAIN g.nodes
         /\ \A val : Right(g, val) =>
              val[n] = NodeValue(g.nodes[n], val, Meaning(g.out).env)
<1> PICK N \in Nat : N = Len(g.nodes)
  BY GraphIs DEF Ready, GraphOK
<1>1. DOMAIN g.nodes = 1..N /\ g.nodes[n] \in NodeType /\ NodeOK(g, n)
  BY GraphIs DEF Ready, GraphOK
<1> PICK p \in NodeType : p = g.nodes[n]
  BY <1>1
<1>2. /\ p.result = None
      /\ IsLeaf(p) => p.tag = "leaf" /\ p.arg \in Operand
      /\ ~IsLeaf(p) => p.tag # "leaf" /\ p.left \in 1..(n - 1) /\ p.right \in 1..(n - 1)
  BY <1>1 DEF NodeOK
<1>3. IsLeaf(p) /\ p.arg \in Vars => p.arg \in Own
  BY <1>1 DEF Ready, LeavesOwn
<1>4. p.list \in Seq(Vars) /\ (~IsLeaf(p) => p.op \in Arithmetic)
  BY NodeIs DEF IsLeaf
<1>5. \A j \in 1..(n - 1) : j \in 1..N
  BY OneMore
<1>6. \A val : Right(g, val) => val[n] = NodeValue(p, val, Meaning(g.out).env)
  BY <1>1 DEF Right, Values
<1> QED BY <1>1, <1>2, <1>3, <1>4, <1>5, <1>6

LEMMA MidNodeIs ==
  ASSUME NEW g, NEW X, Ready(g, X), NEW e, Shape(g, e, X), NEW n \in 1..Len(g.nodes)
  PROVE  /\ e \in GraphType /\ Len(e.nodes) = Len(g.nodes) /\ n \in 1..Len(e.nodes)
         /\ e.nodes[n] \in NodeType /\ MidNode(e.nodes[n], g.nodes[n], e.used)
         /\ e.nodes[n].result = None =>
              e.nodes[n].tag = g.nodes[n].tag /\ e.nodes[n].arg = g.nodes[n].arg
         /\ IsLeaf(g.nodes[n]) =>
              e.nodes[n].tag = "leaf" /\ e.nodes[n].arg = g.nodes[n].arg
         /\ e.nodes[n].op = g.nodes[n].op /\ e.nodes[n].left = g.nodes[n].left
         /\ e.nodes[n].right = g.nodes[n].right
         /\ e.nodes[n].result # None => e.nodes[n].result \in NewUpTo(e.used)
         /\ e.used \in 0..e.used
<1>1. /\ e \in GraphType /\ Len(e.nodes) = Len(g.nodes) /\ n \in 1..Len(e.nodes)
      /\ MidNode(e.nodes[n], g.nodes[n], e.used)
  BY DEF Shape
<1>2. e.nodes[n] \in NodeType /\ e.used \in Nat
  BY <1>1, GraphIs
<1>3. IsLeaf(g.nodes[n]) <=> g.nodes[n].tag = "leaf"
  BY ReadyNode
<1> PICK p, q, u : p = e.nodes[n] /\ q = g.nodes[n] /\ u = e.used
  OBVIOUS
<1>4. MidNode(p, q, u)
  BY <1>1
<1>5. /\ p.result = None => p.tag = q.tag /\ p.arg = q.arg
      /\ IsLeaf(q) => p.tag = "leaf" /\ p.arg = q.arg
      /\ p.op = q.op /\ p.left = q.left /\ p.right = q.right
      /\ p.result # None => p.result \in NewUpTo(u)
  BY <1>3, <1>4 DEF MidNode
<1> QED BY <1>1, <1>2, <1>5

LEMMA ConstLeafIs ==
  ASSUME NEW g, NEW X, Ready(g, X), NEW e, Shape(g, e, X), NEW n \in 1..Len(g.nodes),
         e.nodes[n].tag = "leaf", IsConst(e.nodes[n].arg)
  PROVE  /\ e.nodes[n].arg \in Int
         /\ \A val : Right(g, val) /\ Sound(g, e, val) => val[n] = Fixed(e.nodes[n].arg)
<1> PICK p, q : p = e.nodes[n] /\ q = g.nodes[n]
  OBVIOUS
<1>1. MidNode(p, q, e.used)
  BY MidNodeIs
<1>2. /\ IsLeaf(q) <=> q.tag = "leaf"
      /\ IsLeaf(q) => q.arg \in Operand
      /\ \A val : Right(g, val) => val[n] = NodeValue(q, val, Meaning(g.out).env)
  BY ReadyNode
<1>3. CASE IsLeaf(q)
  <2>1. p.arg = q.arg
    BY <1>3, MidNodeIs
  <2>2. q.arg \in Int /\ q.arg \notin Vars
    BY <1>2, <1>3, <2>1 DEF IsConst, Operand
  <2>3. \A val : Right(g, val) => val[n] = Fixed(q.arg)
    BY <1>2, <1>3, <2>2 DEF NodeValue, Value
  <2> QED BY <2>1, <2>2, <2>3
<1>4. CASE ~IsLeaf(q)
  <2>1. p.arg \in Int
    BY <1>1, <1>2, <1>4 DEF MidNode
  <2>2. \A val : Sound(g, e, val) => val[n] = Fixed(p.arg)
    BY <1>4 DEF Sound
  <2> QED BY <2>1, <2>2
<1> QED BY <1>3, <1>4

LEMMA GenLeafKeeps ==
  ASSUME NEW g, NEW X, Ready(g, X), NEW e, Shape(g, e, X), NEW n \in 1..Len(g.nodes),
         e.nodes[n].result = None, IsLeaf(g.nodes[n])
  PROVE  /\ Shape(g, GenLeaf(e, n), X) /\ NodeMade(e, GenLeaf(e, n), n)
         /\ \A val :
              /\ Right(g, val) /\ Sound(g, e, val)
              /\ g.nodes[n].arg \in Vars =>
                   Meaning(e.out).env[g.nodes[n].arg] = Meaning(g.out).env[g.nodes[n].arg]
              => Sound(g, GenLeaf(e, n), val)
<1> PICK N \in Nat : N = Len(g.nodes)
  BY GraphIs DEF Ready, GraphOK
<1> PICK x : x = NextVar(e)
  OBVIOUS
<1>1. IsNext(e, x)
  BY NextVarIs
<1>2. e \in GraphType /\ Len(e.nodes) = N /\ n \in 1..Len(e.nodes) /\ e.nodes[n] \in NodeType
      /\ e.nodes[n].tag = "leaf" /\ e.nodes[n].arg = g.nodes[n].arg
  BY MidNodeIs
<1> PICK a \in Operand : a = g.nodes[n].arg
  BY ReadyNode
<1> PICK p, q, h : p = Resulting(e.nodes[n], x) /\ q = CopyQuadr(x, a) /\ h = GenLeaf(e, n)
  OBVIOUS
<1>3. x \in Vars /\ x = NextVar(e)
  BY <1>1 DEF IsNext
<1>4. h = Made(e, n, p, q, e.failed)
  BY <1>2, <1>3, GenLeafIs
<1>5. p \in NodeType /\ Gives(p, e.nodes[n], x)
  <2>1. p \in NodeType /\ p = [tag |-> e.nodes[n].tag, op |-> e.nodes[n].op, left |-> e.nodes[n].left,
              right |-> e.nodes[n].right, arg |-> e.nodes[n].arg, list |-> e.nodes[n].list, result |-> x]
    BY <1>2, <1>3, ResultingIs
  <2> QED BY <2>1 DEF Gives
<1>6. /\ q \in Quadr /\ q.op \in Arithmetic \cup {"copy"} /\ q.result = x /\ q.op = "copy"
      /\ q.arg1 = a
  BY <1>3 DEF CopyQuadr, Quadr
<1>7. e.failed \in BOOLEAN
  BY <1>2, GraphIs
<1>8. Shape(g, h, X)
  BY <1>1, <1>4, <1>5, <1>6, <1>7, MadeShape
<1>9. NodeMade(e, h, n)
  <2>1. /\ Len(h.nodes) = Len(e.nodes) /\ h.nodes[n] = p
        /\ \A m \in 1..Len(e.nodes) : m # n => h.nodes[m] = e.nodes[m]
    <3>1. MadeOf(h, e, n, p, q)
      BY <1>2, <1>4, <1>5, <1>6, <1>7, MadeFields
    <3> QED BY ONLY <3>1 DEF MadeOf
  <2>2. p.result # None /\ p.list = e.nodes[n].list
    BY <1>1, <1>5 DEF Gives, IsNext
  <2> QED BY <2>1, <2>2 DEF NodeMade
<1>10. ASSUME NEW val, Right(g, val), Sound(g, e, val),
              a \in Vars => Meaning(e.out).env[a] = Meaning(g.out).env[a]
       PROVE  Sound(g, h, val)
  <2>1. val[n] = Value(Meaning(g.out).env, a)
    <3>1. val[n] = NodeValue(g.nodes[n], val, Meaning(g.out).env)
      BY <1>10, ReadyNode
    <3> QED BY <3>1 DEF NodeValue
  <2>2. Given(Meaning(e.out), q) = Value(Meaning(e.out).env, a)
    BY ONLY <1>6, GivenIs DEF GivenAs
  <2>3. Given(Meaning(e.out), q) = val[n]
    BY <1>10, <2>1, <2>2 DEF Value
  <2> QED BY <1>1, <1>4, <1>5, <1>6, <1>7, <1>10, <2>3, MadeSound
<1> QED BY <1>8, <1>9, <1>10

LEMMA GenOpKeeps ==
  ASSUME NEW g, NEW X, Ready(g, X), NEW e, Shape(g, e, X), NEW n \in 1..Len(g.nodes),
         e.nodes[n].result = None, ~IsLeaf(g.nodes[n]),
         e.nodes[g.nodes[n].left].result # None, e.nodes[g.nodes[n].right].result # None
  PROVE  /\ Shape(g, GenOp(e, n), X) /\ NodeMade(e, GenOp(e, n), n)
         /\ \A val : Right(g, val) /\ Sound(g, e, val) => Sound(g, GenOp(e, n), val)
<1> PICK N \in Nat : N = Len(g.nodes)
  BY GraphIs DEF Ready, GraphOK
<1> PICK x : x = NextVar(e)
  OBVIOUS
<1>1. IsNext(e, x)
  BY NextVarIs
<1>2. x \in Vars /\ x = NextVar(e)
  BY <1>1 DEF IsNext
<1> PICK l, r, op : l = g.nodes[n].left /\ r = g.nodes[n].right /\ op = g.nodes[n].op
  OBVIOUS
<1>3. l \in 1..N /\ r \in 1..N /\ op \in Arithmetic
  BY ReadyNode
<1>4. /\ e \in GraphType /\ Len(e.nodes) = N /\ n \in 1..Len(e.nodes) /\ e.nodes[n] \in NodeType
      /\ e.nodes[n].left = l /\ e.nodes[n].right = r /\ e.nodes[n].op = op
      /\ e.used \in 0..e.used
  BY MidNodeIs
<1>5. e.nodes[l].result \in Vars /\ e.nodes[r].result \in Vars
  <2>1. e.nodes[l].result \in NewUpTo(e.used) /\ e.nodes[r].result \in NewUpTo(e.used)
    BY <1>3, MidNodeIs
  <2> QED BY <1>1, <1>4, <2>1 DEF IsNext
<1> PICK h : h = GenOp(e, n)
  OBVIOUS
<1>6. ASSUME NEW p \in NodeType, Gives(p, e.nodes[n], x),
             NEW q \in Quadr, q.op \in Arithmetic \cup {"copy"}, q.result = x, NEW failed \in BOOLEAN,
             h = Made(e, n, p, q, failed),
             \A val : Right(g, val) /\ Sound(g, e, val) =>
               /\ Given(Meaning(e.out), q) = val[n]
               /\ p.tag = "leaf" => val[n] = Fixed(p.arg)
      PROVE  /\ Shape(g, h, X) /\ NodeMade(e, h, n)
             /\ \A val : Right(g, val) /\ Sound(g, e, val) => Sound(g, h, val)
  <2>1. Shape(g, h, X)
    BY <1>1, <1>6, MadeShape
  <2>2. NodeMade(e, h, n)
    <3>1. /\ Len(h.nodes) = Len(e.nodes) /\ h.nodes[n] = p
          /\ \A m \in 1..Len(e.nodes) : m # n => h.nodes[m] = e.nodes[m]
      <4>1. MadeOf(h, e, n, p, q)
        BY <1>4, <1>6, MadeFields
      <4> QED BY ONLY <4>1 DEF MadeOf
    <3>2. p.result # None /\ p.list = e.nodes[n].list
      BY <1>1, <1>6 DEF Gives, IsNext
    <3> QED BY <3>1, <3>2 DEF NodeMade
  <2>3. ASSUME NEW val, Right(g, val), Sound(g, e, val) PROVE Sound(g, h, val)
    <3>1. Given(Meaning(e.out), q) = val[n] /\ (p.tag = "leaf" => val[n] = Fixed(p.arg))
      BY <1>6, <2>3
    <3> QED BY <1>1, <1>6, <2>3, <3>1, MadeSound
  <2> QED BY <2>1, <2>2, <2>3
<1>7. \A val : Right(g, val) => val[n] = Computed(op, val[l], val[r])
  <2> SUFFICES ASSUME NEW val, Right(g, val) PROVE val[n] = Computed(op, val[l], val[r])
    OBVIOUS
  <2>1. val[n] = NodeValue(g.nodes[n], val, Meaning(g.out).env)
    BY ReadyNode
  <2> QED BY <2>1 DEF NodeValue
<1>8. CASE BothConst(e, n)
  <2> PICK a, b : a = e.nodes[l].arg /\ b = e.nodes[r].arg
    OBVIOUS
  <2>1. e.nodes[l].tag = "leaf" /\ e.nodes[r].tag = "leaf" /\ IsConst(a) /\ IsConst(b)
    BY <1>4, <1>8 DEF BothConst
  <2>2. /\ a \in Int /\ b \in Int
        /\ \A val : Right(g, val) /\ Sound(g, e, val) => val[l] = Fixed(a) /\ val[r] = Fixed(b)
    <3>1. l \in 1..Len(g.nodes) /\ r \in 1..Len(g.nodes) /\ Ready(g, X) /\ Shape(g, e, X)
      BY <1>3
    <3>2. a \in Int /\ \A val : Right(g, val) /\ Sound(g, e, val) => val[l] = Fixed(a)
      BY ONLY <2>1, <3>1, a = e.nodes[l].arg, ConstLeafIs, SMTT(30)
    <3>3. b \in Int /\ \A val : Right(g, val) /\ Sound(g, e, val) => val[r] = Fixed(b)
      BY ONLY <2>1, <3>1, b = e.nodes[r].arg, ConstLeafIs, SMTT(30)
    <3> QED BY <3>2, <3>3
  <2> PICK c : c = FoldedValue(e, n)
    OBVIOUS
  <2>3. c = ConstantOp(op, a, b) /\ c \in Int
    <3>1. c = ConstantOp(op, a, b)
      BY <1>4 DEF FoldedValue
    <3>2. op \in Arithmetic /\ a \in Int /\ b \in Int
      BY <1>3, <2>2
    <3> QED BY ONLY <3>1, <3>2, ConstantOpIs
  <2> PICK p, q : p = Folded(e.nodes[n], x, c) /\ q = CopyQuadr(x, c)
    OBVIOUS
  <2>4. PICK failed \in BOOLEAN : h = Made(e, n, p, q, failed)
    BY <1>2, <1>4, <1>8, <2>3, GenOpIs
  <2>5. /\ q \in Quadr /\ q.op \in Arithmetic \cup {"copy"} /\ q.result = x /\ q.op = "copy"
        /\ q.arg1 = c
    BY <1>2, <2>3 DEF CopyQuadr, Quadr, Operand
  <2>6. p \in NodeType /\ Gives(p, e.nodes[n], x) /\ p.arg = c
    <3>1. p \in NodeType /\ p = [tag |-> "leaf", op |-> e.nodes[n].op, left |-> e.nodes[n].left,
                right |-> e.nodes[n].right, arg |-> c, list |-> e.nodes[n].list, result |-> x]
      BY <1>2, <1>4, <2>3, FoldedIs
    <3>2. ~IsLeaf(e.nodes[n])
      BY <1>4 DEF IsLeaf
    <3>3. /\ p.op = e.nodes[n].op /\ p.left = e.nodes[n].left /\ p.right = e.nodes[n].right
          /\ p.list = e.nodes[n].list /\ p.result = x /\ p.tag = "leaf" /\ p.arg = c
      BY ONLY <3>1
    <3> QED BY ONLY <2>3, <3>1, <3>2, <3>3 DEF Gives
  <2>7. ASSUME NEW val, Right(g, val), Sound(g, e, val)
        PROVE  Given(Meaning(e.out), q) = val[n] /\ val[n] = Fixed(c)
    <3>1. val[n] = Computed(op, Fixed(a), Fixed(b))
      BY <1>7, <2>2, <2>7
    <3>2. val[n] = Fixed(c)
      <4>1. Fixed(a)[1] = "fixed" /\ Fixed(b)[1] = "fixed" /\ ConstOf(Fixed(a)) = a /\ ConstOf(Fixed(b)) = b
        BY ONLY FixedIs
      <4>2. Computed(op, Fixed(a), Fixed(b)) = Fixed(ConstantOp(op, a, b))
        BY ONLY <4>1 DEF Computed
      <4> QED BY ONLY <2>3, <3>1, <4>2
    <3>3. Given(Meaning(e.out), q) = Fixed(c)
      <4>1. c \notin Vars
        BY <2>3, QuadruplesAssumption
      <4>2. Given(Meaning(e.out), q) = Value(Meaning(e.out).env, q.arg1)
        BY ONLY <2>5, GivenIs DEF GivenAs
      <4> QED BY ONLY <2>5, <4>1, <4>2 DEF Value
    <3> QED BY <3>2, <3>3
  <2> QED BY <1>6, <2>4, <2>5, <2>6, <2>7
<1>9. CASE ~BothConst(e, n)
  <2> PICK a, b \in Vars : a = e.nodes[l].result /\ b = e.nodes[r].result
    BY <1>5
  <2> PICK p, q : p = Resulting(e.nodes[n], x) /\ q = [op |-> op, result |-> x, arg1 |-> a, arg2 |-> b]
    OBVIOUS
  <2>1. h = Made(e, n, p, q, e.failed)
    BY <1>2, <1>4, <1>9, GenOpIs
  <2>2. /\ q \in Quadr /\ q.op \in Arithmetic \cup {"copy"} /\ q.result = x /\ q.op = op
        /\ q.arg1 = a /\ q.arg2 = b
    BY <1>2, <1>3 DEF Quadr, Operand
  <2>3. p \in NodeType /\ Gives(p, e.nodes[n], x) /\ p.tag # "leaf"
    <3>1. p \in NodeType /\ p = [tag |-> e.nodes[n].tag, op |-> e.nodes[n].op, left |-> e.nodes[n].left,
                right |-> e.nodes[n].right, arg |-> e.nodes[n].arg, list |-> e.nodes[n].list, result |-> x]
      BY <1>2, <1>4, ResultingIs
    <3>2. e.nodes[n].tag # "leaf"
      BY MidNodeIs, ReadyNode
    <3> QED BY <3>1, <3>2 DEF Gives
  <2>4. ASSUME NEW val, Right(g, val), Sound(g, e, val) PROVE Given(Meaning(e.out), q) = val[n]
    <3> PICK s : s = Meaning(e.out)
      OBVIOUS
    <3>1. s.env[a] = val[l] /\ s.env[b] = val[r]
      BY <1>3, <1>5, <2>4, QuadruplesAssumption DEF Sound
    <3>2. Given(s, q) = Computed(op, s.env[a], s.env[b])
      <4>1. Given(s, q) = Computed(q.op, Value(s.env, q.arg1), Value(s.env, q.arg2))
        <5>1. q.op \in Arithmetic
          BY <1>3, <2>2
        <5> QED BY ONLY <5>1, GivenIs DEF GivenAs
      <4> QED BY <2>2, <4>1 DEF Value
    <3> QED BY <1>7, <2>4, <3>1, <3>2
  <2>5. e.failed \in BOOLEAN
    BY <1>4, GraphIs
  <2> QED BY <1>6, <2>1, <2>2, <2>3, <2>4, <2>5
<1> QED BY <1>8, <1>9

-----------------------------------------------------------------------------
(* update_node_vars *)
CopiesMade(out, S, r, new) ==
  /\ new \in Seq(Quadr) /\ Extends(out, new, S)
  /\ Meaning(new).effects = Meaning(out).effects
  /\ \A v \in Vars : Meaning(new).env[v] = IF v \in S THEN Meaning(out).env[r] ELSE Meaning(out).env[v]

LEMMA CopiesAre ==
  ASSUME NEW l \in Seq(Vars), NEW n \in Nat, n = Len(l), NEW r \in Vars, NEW bad,
         NEW out \in Seq(Quadr), NEW S, S = ToSet(l) \ {bad}, r \notin S,
         NEW a, a[0] = out, \A k \in 1..n : a[k] = WithCopy(a[k - 1], l[k], r, bad)
  PROVE  CopiesMade(out, S, r, a[n])
<1> DEFINE Upto(k) == {l[j] : j \in 1..k} \ {bad}
           OK(k) == /\ a[k] \in Seq(Quadr) /\ Extends(out, a[k], S)
                    /\ Meaning(a[k]).effects = Meaning(out).effects
                    /\ \A v \in Vars : Meaning(a[k]).env[v] =
                         IF v \in Upto(k) THEN Meaning(out).env[r] ELSE Meaning(out).env[v]
           T == {k \in 0..n : OK(k)}
<1>1. 0 \in T
  <2>1. Extends(out, out, S)
    <3> PICK m \in Nat : m = Len(out)
      OBVIOUS
    <3>1. m <= m /\ (m + 1)..m = {}
      OBVIOUS
    <3> QED BY <3>1 DEF Extends
  <2>2. Upto(0) = {}
    OBVIOUS
  <2> QED BY <2>1, <2>2
<1>2. ASSUME NEW m \in 0..(n - 1), m \in T PROVE m + 1 \in T
  <2> PICK v \in Vars : v = l[m + 1]
    OBVIOUS
  <2> PICK mid, new : mid = a[m] /\ new = a[m + 1]
    OBVIOUS
  <2>1. new = WithCopy(mid, v, r, bad)
    <3>1. m + 1 \in 1..n /\ (m + 1) - 1 = m
      OBVIOUS
    <3> QED BY <3>1
  <2>2. OK(m)
    BY <1>2
  <2>3. Upto(m + 1) = Upto(m) \cup ({v} \ {bad})
    <3>1. \A j \in 1..(m + 1) : j \in 1..m \/ j = m + 1
      OBVIOUS
    <3>2. m + 1 \in 1..(m + 1) /\ \A j \in 1..m : j \in 1..(m + 1)
      OBVIOUS
    <3> QED BY <3>1, <3>2
  <2>4. CASE v = bad
    <3>1. new = mid /\ Upto(m + 1) = Upto(m)
      BY <2>1, <2>3, <2>4 DEF WithCopy
    <3>2. OK(m + 1)
      BY <2>2, <3>1
    <3> HIDE DEF OK
    <3> QED BY <3>2
  <2>5. CASE v # bad
    <3> PICK q : q = CopyQuadr(v, r)
      OBVIOUS
    <3>1. new = Append(mid, q)
      BY <2>1, <2>5 DEF WithCopy
    <3>2. q \in Quadr /\ q.op = "copy" /\ q.result = v /\ q.arg1 = r
      BY DEF CopyQuadr, Quadr, Operand
    <3>3. v \in S
      <4>1. m + 1 \in DOMAIN l
        OBVIOUS
      <4> QED BY <2>5, <4>1 DEF ToSet
    <3>4. q \in Emitted(S)
      BY <3>2, <3>3 DEF Emitted
    <3>5. new \in Seq(Quadr) /\ Extends(mid, new, S)
      BY <2>2, <3>1, <3>4, ExtendsOne
    <3>6. Extends(out, new, S)
      BY <2>2, <3>5, ExtendsMore
    <3> PICK s, t : s = Meaning(mid) /\ t = Meaning(new)
      OBVIOUS
    <3>7. State(s) /\ t = Execute(s, q)
      <4>1. t = Execute(s, q)
        BY <2>2, <3>1, <3>2, MeaningAppend
      <4>2. mid \in Seq(Quadr) /\ Len(mid) \in 0..Len(mid)
        BY <2>2
      <4> QED BY <4>1, <4>2, ExecutionStates DEF Meaning
    <3>8. t.effects = s.effects /\ t.env[v] = Given(s, q) /\ \A w \in Vars \ {v} : t.env[w] = s.env[w]
      <4>1. q.op \in Assigning /\ q.op \notin Visible
        BY <3>2 DEF Assigning, Visible
      <4> QED BY <3>2, <3>7, <4>1, ExecuteIs
    <3>9. Given(s, q) = s.env[r]
      <4>1. Given(s, q) = Value(s.env, q.arg1)
        BY ONLY <3>2, GivenIs DEF GivenAs
      <4> QED BY <3>2, <4>1 DEF Value
    <3>10. r \notin Upto(m)
      <4>1. \A j \in 1..m : j \in DOMAIN l
        OBVIOUS
      <4>2. Upto(m) \subseteq S
        BY <4>1 DEF ToSet
      <4> QED BY <4>2
    <3>11. s.env[r] = Meaning(out).env[r]
      BY <2>2, <3>10
    <3>12. \A w \in Vars : t.env[w] = IF w \in Upto(m + 1) THEN Meaning(out).env[r] ELSE Meaning(out).env[w]
      <4> SUFFICES ASSUME NEW w \in Vars
                   PROVE  t.env[w] = IF w \in Upto(m + 1) THEN Meaning(out).env[r] ELSE Meaning(out).env[w]
        OBVIOUS
      <4>1. s.env[w] = IF w \in Upto(m) THEN Meaning(out).env[r] ELSE Meaning(out).env[w]
        BY <2>2
      <4>2. w \in Upto(m + 1) <=> w \in Upto(m) \/ w = v
        BY <2>3, <2>5
      <4> HIDE DEF Upto
      <4>3. CASE w = v
        BY <3>8, <3>9, <3>11, <4>2, <4>3
      <4>4. CASE w # v
        BY <3>8, <4>1, <4>2, <4>4
      <4> QED BY <4>3, <4>4
    <3>13. t.effects = Meaning(out).effects
      BY <2>2, <3>8
    <3>14. OK(m + 1)
      <4> HIDE DEF Upto
      <4> QED BY <3>5, <3>6, <3>12, <3>13
    <3> HIDE DEF OK
    <3> QED BY <3>14
  <2> QED BY <2>4, <2>5
<1>3. n \in T
  <2>1. 0 \in Int /\ n \in Int
    OBVIOUS
  <2> HIDE DEF T
  <2>2. \A k \in 0..(n - 1) : k \in T => k + 1 \in T
    BY <1>2
  <2>3. 0..n \subseteq T
    BY <1>1, <2>1, <2>2, UpTo
  <2> QED BY <2>3
<1>4. OK(n)
  BY <1>3
<1>5. Upto(n) = S
  BY DEF ToSet
<1> HIDE DEF Upto
<1> QED BY <1>4, <1>5 DEF CopiesMade

BadOf(node) == IF node.tag = "leaf" THEN node.arg ELSE None

VarsUpdated(e, n, r, S, h) ==
  /\ h \in GraphType /\ CopiesMade(e.out, S, r, h.out)
  /\ h.nodes = Relist(e.nodes, n, <<>>) /\ h.at = e.at /\ h.used = e.used /\ h.stale = e.stale

LEMMA UpdateNodeVarsIs ==
  ASSUME NEW e \in GraphType, NEW n \in 1..Len(e.nodes), NEW r \in Vars, r = e.nodes[n].result,
         NEW S, S = ToSet(e.nodes[n].list) \ {BadOf(e.nodes[n])}, r \notin S,
         NEW h, h = UpdateNodeVars(e, n)
  PROVE  VarsUpdated(e, n, r, S, h)
<1> PICK l : l = e.nodes[n].list
  OBVIOUS
<1>1. l \in Seq(Vars) /\ e.nodes \in Seq(NodeType) /\ e.out \in Seq(Quadr)
  BY GraphIs, NodeIs
<1> PICK len \in Nat : len = Len(l)
  BY <1>1
<1> PICK bad : bad = BadOf(e.nodes[n])
  OBVIOUS
<1>2. PICK a : /\ a[0] = e.out
               /\ \A k \in 1..len : a[k] = WithCopy(a[k - 1], l[k], r, bad)
               /\ h = Updated(e, n, a[len])
  <2>1. UpdatedBy(e, n, l, r, bad)
    <3>1. /\ l = e.nodes[n].list /\ r = e.nodes[n].result /\ Len(l) \in Nat
          /\ bad = IF e.nodes[n].tag = "leaf" THEN e.nodes[n].arg ELSE None
      BY DEF BadOf
    <3> QED BY ONLY <3>1, UpdateIs
  <2>2. h = UpdateNodeVars(e, n) /\ len = Len(l)
    OBVIOUS
  <2> QED BY ONLY <2>1, <2>2 DEF UpdatedBy
<1> PICK new : new = a[len]
  OBVIOUS
<1>3. CopiesMade(e.out, S, r, new)
  <2>1. /\ l \in Seq(Vars) /\ len \in Nat /\ len = Len(l) /\ r \in Vars /\ e.out \in Seq(Quadr)
        /\ S = ToSet(l) \ {bad} /\ r \notin S
        /\ a[0] = e.out /\ \A k \in 1..len : a[k] = WithCopy(a[k - 1], l[k], r, bad)
    BY <1>1, <1>2
  <2>2. CopiesMade(e.out, S, r, a[len])
    BY ONLY <2>1, CopiesAre
  <2> QED BY <2>2
<1> PICK nodes : nodes = Relist(e.nodes, n, <<>>)
  OBVIOUS
<1>4. nodes \in Seq(NodeType)
  <2>1. <<>> \in Seq(Vars)
    OBVIOUS
  <2> QED BY <1>1, <2>1, Relisted
<1>5. h = [nodes |-> nodes, at |-> e.at, out |-> new, used |-> e.used, failed |-> e.failed,
           stale |-> e.stale]
  <2>1. h = [e EXCEPT !.out = new, !.nodes = nodes]
    BY <1>2 DEF Updated, Relist, WithNode, WithList
  <2>2. e = [nodes |-> e.nodes, at |-> e.at, out |-> e.out, used |-> e.used, failed |-> e.failed,
             stale |-> e.stale]
    BY GraphIs
  <2> QED BY ONLY <2>1, <2>2
<1>6. new \in Seq(Quadr)
  BY <1>3 DEF CopiesMade
<1>7. h \in GraphType
  BY <1>4, <1>5, <1>6, GraphIs, GraphFrom
<1>8. h.out = new /\ h.nodes = nodes /\ h.at = e.at /\ h.used = e.used /\ h.stale = e.stale
  BY ONLY <1>5
<1> QED BY <1>3, <1>7, <1>8 DEF VarsUpdated

LEMMA ResultsNew ==
  ASSUME NEW g, NEW X, Ready(g, X), NEW e, Shape(g, e, X)
  PROVE  /\ e.used \in Nat /\ NewUpTo(e.used) \subseteq ToSet(NewVars)
         /\ NewUpTo(e.used) \cap Own = {} /\ NewUpTo(e.used) \subseteq Vars
<1> PICK N \in Nat : N = Len(g.nodes)
  BY GraphIs DEF Ready, GraphOK
<1> PICK M \in Nat : M = Len(NewVars)
  BY NewVarsAre
<1> PICK u \in Nat : u = g.used
  BY GraphIs DEF Ready, GraphOK
<1>1. Resulted(e) \in SUBSET (1..N)
  BY DEF Resulted, Shape
<1> PICK c \in Nat : c = Cardinality(Resulted(e)) /\ c <= N
  BY <1>1, Count
<1>2. e.used = u + c /\ u + N <= M
  BY DEF Shape, Ready
<1>3. e.used \in Nat /\ \A k \in 1..e.used : k \in 1..M
  BY <1>2
<1>4. NewUpTo(e.used) \subseteq ToSet(NewVars)
  BY <1>3, NewVarsAre DEF NewUpTo
<1> QED BY <1>3, <1>4, NewVarsAre DEF Own

NodeCleared(e, h, n) ==
  /\ Len(h.nodes) = Len(e.nodes) /\ h.nodes[n].list = <<>>
  /\ \A m \in 1..Len(e.nodes) : /\ Alike(h.nodes[m], e.nodes[m])
                                /\ m # n => h.nodes[m] = e.nodes[m]

LEMMA ClearedMid ==
  ASSUME NEW p, NEW q, NEW old, NEW used, MidNode(q, old, used), Alike(p, q), p.list = <<>>
  PROVE  MidNode(p, old, used)
BY DEF MidNode, Alike

LEMMA UpdateKeeps ==
  ASSUME NEW g, NEW X, Ready(g, X), NEW e, Shape(g, e, X), NEW n \in 1..Len(g.nodes),
         e.nodes[n].result # None, NEW h, h = UpdateNodeVars(e, n)
  PROVE  /\ Shape(g, h, X) /\ NodeCleared(e, h, n)
         /\ \A val : Right(g, val) /\ Sound(g, e, val) => Sound(g, h, val)
<1> PICK N \in Nat : N = Len(g.nodes)
  BY GraphIs DEF Ready, GraphOK
<1> PICK p, q : p = e.nodes[n] /\ q = g.nodes[n]
  OBVIOUS
<1> PICK r : r = p.result
  OBVIOUS
<1>1. /\ e \in GraphType /\ Len(e.nodes) = N /\ n \in 1..Len(e.nodes) /\ p \in NodeType
      /\ MidNode(p, q, e.used) /\ r \in NewUpTo(e.used)
      /\ IsLeaf(q) => p.tag = "leaf" /\ p.arg = q.arg
  BY MidNodeIs
<1>2. /\ e.used \in Nat /\ NewUpTo(e.used) \subseteq ToSet(NewVars)
      /\ NewUpTo(e.used) \cap Own = {} /\ NewUpTo(e.used) \subseteq Vars
  BY ResultsNew
<1> PICK S : S = ToSet(p.list) \ {BadOf(p)}
  OBVIOUS
<1>3. X \subseteq Own /\ X \subseteq Vars
  BY DEF Ready, Own
<1>4. q.list \in Seq(Vars) /\ (IsLeaf(q) <=> q.tag = "leaf") /\ n \in DOMAIN g.nodes
  BY ReadyNode
<1>5. ToSet(p.list) \subseteq ToSet(q.list) /\ (p.list = q.list \/ ToSet(p.list) = {})
  <2>1. ToSet(<<>>) = {}
    BY DEF ToSet
  <2>2. p.list = q.list \/ p.list = <<>>
    BY <1>1 DEF MidNode
  <2> QED BY <2>1, <2>2
<1>6. \A v \in S : ~(IsLeaf(q) /\ q.arg = v)
  BY <1>1 DEF BadOf
<1>7. S \subseteq X
  <2> SUFFICES ASSUME NEW v \in S PROVE v \in X
    OBVIOUS
  <2>1. v \in ToSet(q.list)
    BY <1>5
  <2>2. v \in X \/ (IsLeaf(q) /\ q.arg = v)
    BY <1>4, <2>1 DEF Ready, ListsIn
  <2> QED BY <1>6, <2>2
<1>8. r \notin S /\ r \in Vars /\ S \cap NewUpTo(e.used) = {}
  BY <1>1, <1>2, <1>3, <1>7
<1>9. /\ h \in GraphType /\ CopiesMade(e.out, S, r, h.out)
      /\ h.nodes = Relist(e.nodes, n, <<>>) /\ h.at = e.at /\ h.used = e.used /\ h.stale = e.stale
  <2>1. /\ e \in GraphType /\ n \in 1..Len(e.nodes) /\ r \in Vars /\ r = e.nodes[n].result
        /\ S = ToSet(e.nodes[n].list) \ {BadOf(e.nodes[n])} /\ r \notin S /\ h = UpdateNodeVars(e, n)
    BY <1>1, <1>8
  <2>2. VarsUpdated(e, n, r, S, h)
    BY ONLY <2>1, UpdateNodeVarsIs
  <2> QED BY ONLY <2>2 DEF VarsUpdated
<1>10. NodeCleared(e, h, n)
  <2>1. <<>> \in Seq(Vars) /\ e.nodes \in Seq(NodeType)
    BY <1>1, GraphIs
  <2>2. n \in 1..Len(e.nodes)
    BY <1>1
  <2> PICK old, nodes : old = e.nodes /\ nodes = h.nodes
    OBVIOUS
  <2>3. old \in Seq(NodeType) /\ n \in 1..Len(old) /\ nodes = Relist(old, n, <<>>)
    BY <1>9, <2>1, <2>2
  <2>4. /\ Len(nodes) = Len(old) /\ nodes[n].list = <<>>
        /\ \A m \in 1..Len(old) : Alike(nodes[m], old[m])
        /\ \A m \in 1..Len(old) : m # n => nodes[m] = old[m]
    BY ONLY <2>1, <2>3, Relisted
  <2> QED BY ONLY <2>4, old = e.nodes, nodes = h.nodes DEF NodeCleared
<1>11. \A m \in 1..N : /\ Alike(h.nodes[m], e.nodes[m])
                       /\ h.nodes[m] = e.nodes[m] \/ (m = n /\ h.nodes[m].list = <<>>)
  BY <1>1, <1>10 DEF NodeCleared
<1>12. Shape(g, h, X)
  <2>1. Len(h.nodes) = N /\ h.at = g.at /\ h.stale = g.stale
    BY <1>1, <1>9, <1>10 DEF NodeCleared, Shape
  <2>2. \A m \in 1..N : MidNode(h.nodes[m], g.nodes[m], h.used)
    <3> SUFFICES ASSUME NEW m \in 1..N PROVE MidNode(h.nodes[m], g.nodes[m], e.used)
      BY <1>9
    <3>1. MidNode(e.nodes[m], g.nodes[m], e.used)
      BY DEF Shape
    <3> QED BY <1>11, <3>1, ClearedMid
  <2>3. Resulted(h) = Resulted(e)
    BY <1>1, <1>11, <2>1 DEF Resulted, Alike
  <2>4. Extends(g.out, h.out, X)
    <3>1. Emitted(S) \subseteq Emitted(X)
      BY <1>7 DEF Emitted
    <3>2. Extends(e.out, h.out, X)
      BY <1>9, <3>1 DEF CopiesMade, Extends
    <3>3. Extends(g.out, e.out, X)
      BY DEF Shape
    <3>4. g.out \in Seq(Quadr) /\ e.out \in Seq(Quadr) /\ h.out \in Seq(Quadr)
      BY <1>1, <1>9, GraphIs DEF Ready, GraphOK
    <3> QED BY <3>2, <3>3, <3>4, ExtendsMore
  <2> QED BY <1>9, <2>1, <2>2, <2>3, <2>4 DEF Shape
<1>13. ASSUME NEW val, Right(g, val), Sound(g, e, val) PROVE Sound(g, h, val)
  <2> PICK b, s, t : b = Meaning(g.out) /\ s = Meaning(e.out) /\ t = Meaning(h.out)
    OBVIOUS
  <2>1. t.effects = s.effects /\ \A v \in Vars : t.env[v] = IF v \in S THEN s.env[r] ELSE s.env[v]
    BY <1>9 DEF CopiesMade
  <2>2. s.effects = b.effects /\ s.env[r] = val[n]
    BY <1>13 DEF Sound
  <2>3. \A v \in S : g.at[v] = n
    <3> SUFFICES ASSUME NEW v \in S PROVE g.at[v] = n
      OBVIOUS
    <3>1. v \in ToSet(q.list)
      BY <1>5
    <3>2. g.at[v] = n \/ (q.tag = "leaf" /\ q.arg = v)
      BY <1>4, <1>13, <3>1 DEF Right, ListsTrue
    <3> QED BY <1>4, <1>6, <3>2
  <2>4. \A m \in 1..N : h.nodes[m].result # None => t.env[h.nodes[m].result] = val[m]
    <3> SUFFICES ASSUME NEW m \in 1..N, h.nodes[m].result # None PROVE t.env[h.nodes[m].result] = val[m]
      OBVIOUS
    <3> PICK x : x = h.nodes[m].result
      OBVIOUS
    <3>1. x = e.nodes[m].result
      BY <1>11 DEF Alike
    <3>2. x \in NewUpTo(e.used)
      BY <3>1, MidNodeIs
    <3>3. s.env[x] = val[m]
      BY <1>13, <3>1 DEF Sound
    <3> QED BY <1>2, <1>8, <2>1, <3>2, <3>3
  <2>5. \A m \in 1..N : h.nodes[m].tag = "leaf" /\ ~IsLeaf(g.nodes[m]) => val[m] = Fixed(h.nodes[m].arg)
    BY <1>11, <1>13 DEF Alike, Sound
  <2>6. \A v \in Own : t.env[v] = b.env[v] \/ (g.at[v] # 0 /\ t.env[v] = val[g.at[v]])
    <3> SUFFICES ASSUME NEW v \in Own PROVE t.env[v] = b.env[v] \/ (g.at[v] # 0 /\ t.env[v] = val[g.at[v]])
      OBVIOUS
    <3>1. v \in Vars
      BY DEF Own
    <3>2. s.env[v] = b.env[v] \/ (g.at[v] # 0 /\ s.env[v] = val[g.at[v]])
      BY <1>13 DEF Sound
    <3>3. CASE v \in S
      <4>1. n # 0
        OBVIOUS
      <4> QED BY <2>1, <2>2, <2>3, <3>1, <3>3, <4>1
    <3>4. CASE v \notin S
      BY <2>1, <3>1, <3>2, <3>4
    <3> QED BY <3>3, <3>4
  <2>7. \A v \in Own : g.at[v] # 0 /\ h.nodes[g.at[v]].list = <<>> => t.env[v] = val[g.at[v]]
    <3> SUFFICES ASSUME NEW v \in Own, g.at[v] # 0, h.nodes[g.at[v]].list = <<>>
                 PROVE  t.env[v] = val[g.at[v]]
      OBVIOUS
    <3>1. v \in Vars
      BY DEF Own
    <3> PICK m : m = g.at[v]
      OBVIOUS
    <3>2. AtOK(g, v)
      BY <3>1 DEF Ready, GraphOK
    <3>3. m \in 1..N /\ v \in ToSet(g.nodes[m].list)
      BY <3>2 DEF AtOK
    <3>4. e.nodes[m].list = <<>> => s.env[v] = val[m]
      BY <1>13 DEF Sound
    <3>5. CASE m # n
      <4>1. v \notin S
        BY <2>3, <3>5
      <4>2. e.nodes[m].list = <<>>
        BY <1>11, <3>3, <3>5
      <4> QED BY <2>1, <3>1, <3>4, <4>1, <4>2
    <3>6. CASE m = n
      <4>1. CASE v \in S
        BY <2>1, <2>2, <3>1, <3>6, <4>1
      <4>2. CASE v \notin S
        <5>1. t.env[v] = s.env[v]
          BY <2>1, <3>1, <4>2
        <5>2. CASE p.list = <<>>
          BY <3>4, <3>6, <5>1, <5>2
        <5>3. CASE p.list # <<>>
          <6>1. p.list = q.list
            BY <1>1, <5>3 DEF MidNode
          <6>2. v = BadOf(p)
            BY <3>3, <3>6, <4>2, <6>1
          <6>3. p.tag = "leaf" /\ p.arg = v
            BY <3>1, <6>2, QuadruplesAssumption DEF BadOf
          <6>4. IsLeaf(q) /\ q.arg = v
            <7>1. v \notin Int
              BY <3>1, QuadruplesAssumption
            <7> QED BY <1>1, <1>4, <6>3, <7>1 DEF MidNode
          <6>5. val[n] = b.env[v]
            <7>1. val[n] = NodeValue(q, val, b.env)
              BY <1>13, ReadyNode
            <7> QED BY <3>1, <6>4, <7>1 DEF NodeValue, Value
          <6>6. s.env[v] = b.env[v] \/ s.env[v] = val[m]
            BY <1>13 DEF Sound
          <6> QED BY <3>6, <5>1, <6>5, <6>6
        <5> QED BY <5>2, <5>3
      <4> QED BY <4>1, <4>2
    <3> QED BY <3>5, <3>6
  <2> QED BY <2>1, <2>2, <2>4, <2>5, <2>6, <2>7 DEF Sound
<1> QED BY <1>10, <1>12, <1>13

-----------------------------------------------------------------------------
(* gencode_from_graph *)
LEMMA StartShape ==
  ASSUME NEW g, NEW X, Ready(g, X)
  PROVE  Shape(g, g, X) /\ \A val : Right(g, val) => Sound(g, g, val)
<1> PICK N \in Nat : N = Len(g.nodes)
  BY GraphIs DEF Ready, GraphOK
<1>1. g \in GraphType /\ g.out \in Seq(Quadr) /\ g.used \in Nat
  BY GraphIs DEF Ready, GraphOK
<1>2. \A n \in 1..N : g.nodes[n].result = None
  BY ReadyNode
<1>3. \A n \in 1..N : MidNode(g.nodes[n], g.nodes[n], g.used)
  BY <1>2 DEF MidNode
<1>4. g.used = g.used + Cardinality(Resulted(g))
  <2>1. Resulted(g) = {}
    BY <1>2 DEF Resulted
  <2>2. Cardinality({}) = 0
    BY FS_EmptySet
  <2> QED BY <1>1, <2>1, <2>2
<1>5. Extends(g.out, g.out, X)
  <2> PICK m \in Nat : m = Len(g.out)
    BY <1>1
  <2>1. m <= m /\ (m + 1)..m = {}
    OBVIOUS
  <2> QED BY <2>1 DEF Extends
<1>6. ASSUME NEW val, Right(g, val) PROVE Sound(g, g, val)
  <2>1. \A v \in Own : g.at[v] # 0 => g.nodes[g.at[v]].list # <<>>
    <3> SUFFICES ASSUME NEW v \in Own, g.at[v] # 0 PROVE g.nodes[g.at[v]].list # <<>>
      OBVIOUS
    <3>1. AtOK(g, v)
      BY DEF Ready, GraphOK, Own
    <3>2. v \in ToSet(g.nodes[g.at[v]].list)
      BY <3>1 DEF AtOK
    <3> QED BY <3>2 DEF ToSet
  <2>2. \A n \in 1..N : g.nodes[n].tag = "leaf" => IsLeaf(g.nodes[n])
    BY ReadyNode
  <2> QED BY <1>2, <2>1, <2>2 DEF Sound
<1> QED BY <1>1, <1>3, <1>4, <1>5, <1>6 DEF Shape

LEMMA GenLeafApart ==
  ASSUME NEW g, NEW X, Ready(g, X), NEW e, Shape(g, e, X), NEW n \in 1..Len(g.nodes),
         e.nodes[n].result = None, IsLeaf(g.nodes[n])
  PROVE  \A v \in Own : Meaning(GenLeaf(e, n).out).env[v] = Meaning(e.out).env[v]
<1> PICK x : x = NextVar(e)
  OBVIOUS
<1>1. IsNext(e, x)
  BY NextVarIs
<1>2. x \in Vars /\ x = NextVar(e) /\ x \notin Own
  BY <1>1 DEF IsNext, Own
<1>3. e \in GraphType /\ n \in 1..Len(e.nodes) /\ e.nodes[n].arg = g.nodes[n].arg
  BY MidNodeIs
<1> PICK a \in Operand : a = g.nodes[n].arg
  BY ReadyNode
<1> PICK p, q, h : p = Resulting(e.nodes[n], x) /\ q = CopyQuadr(x, a) /\ h = GenLeaf(e, n)
  OBVIOUS
<1>4. h = Made(e, n, p, q, e.failed)
  BY <1>2, <1>3, GenLeafIs
<1>5. h.out = Append(e.out, q)
  BY <1>4 DEF Made
<1>6. q \in Quadr /\ q.op = "copy" /\ q.result = x
  BY <1>2 DEF CopyQuadr, Quadr
<1> PICK s, t : s = Meaning(e.out) /\ t = Meaning(h.out)
  OBVIOUS
<1>7. State(s) /\ t = Execute(s, q)
  BY <1>3, <1>5, <1>6, OutState, MeaningAppend
<1>8. \A v \in Vars \ {x} : t.env[v] = s.env[v]
  <2>1. q.op \in Assigning
    BY <1>6 DEF Assigning
  <2> QED BY <1>6, <1>7, <2>1, ExecuteIs
<1> QED BY <1>2, <1>8 DEF Own

InputsSaved(g, e, k) ==
  \A n \in 1..Len(g.nodes) : /\ e.nodes[n].list = g.nodes[n].list
                             /\ e.nodes[n].result # None <=> (n <= k /\ IsInput(g, n))
OwnKept(g, e) == \A v \in Own : Meaning(e.out).env[v] = Meaning(g.out).env[v]

LEMMA SavedKeeps ==
  ASSUME NEW g, NEW X, Ready(g, X), NEW k \in 1..Len(g.nodes),
         NEW e, Shape(g, e, X), InputsSaved(g, e, k - 1), OwnKept(g, e),
         NEW h, h = Saved(g, e, k)
  PROVE  /\ Shape(g, h, X) /\ InputsSaved(g, h, k) /\ OwnKept(g, h)
         /\ \A val : Right(g, val) /\ Sound(g, e, val) => Sound(g, h, val)
<1> PICK N \in Nat : N = Len(g.nodes)
  BY GraphIs DEF Ready, GraphOK
<1>1. \A n \in 1..N : n <= k <=> n <= k - 1 \/ n = k
  OBVIOUS
<1>2. CASE ~IsInput(g, k)
  <2>1. h = e
    BY <1>2 DEF Saved
  <2>2. InputsSaved(g, e, k)
    BY <1>1, <1>2 DEF InputsSaved
  <2> QED BY <2>1, <2>2
<1>3. CASE IsInput(g, k)
  <2>1. h = GenLeaf(e, k)
    BY <1>3 DEF Saved
  <2>2. ~(k <= k - 1)
    OBVIOUS
  <2>3. e.nodes[k].result = None
    BY <2>2 DEF InputsSaved
  <2>4. IsLeaf(g.nodes[k]) /\ g.nodes[k].arg \in Own
    BY <1>3, ReadyNode DEF IsInput
  <2>5. Shape(g, h, X) /\ NodeMade(e, h, k)
    BY <2>1, <2>3, <2>4, GenLeafKeeps
  <2>6. ASSUME NEW val, Right(g, val), Sound(g, e, val) PROVE Sound(g, h, val)
    <3>1. Meaning(e.out).env[g.nodes[k].arg] = Meaning(g.out).env[g.nodes[k].arg]
      BY <2>4 DEF OwnKept
    <3> QED BY <2>1, <2>3, <2>4, <2>6, <3>1, GenLeafKeeps
  <2>7. OwnKept(g, h)
    BY <2>1, <2>3, <2>4, GenLeafApart DEF OwnKept
  <2>8. InputsSaved(g, h, k)
    <3> SUFFICES ASSUME NEW n \in 1..N
                 PROVE  /\ h.nodes[n].list = g.nodes[n].list
                        /\ h.nodes[n].result # None <=> (n <= k /\ IsInput(g, n))
      BY DEF InputsSaved
    <3>1. /\ e.nodes[n].list = g.nodes[n].list
          /\ e.nodes[n].result # None <=> (n <= k - 1 /\ IsInput(g, n))
      BY DEF InputsSaved
    <3>2. Len(e.nodes) = N
      BY DEF Shape
    <3>3. CASE n = k
      <4>1. h.nodes[k].result # None /\ h.nodes[k].list = e.nodes[k].list
        BY <2>5 DEF NodeMade
      <4> QED BY <1>1, <1>3, <3>1, <3>3, <4>1
    <3>4. CASE n # k
      <4>1. h.nodes[n] = e.nodes[n]
        BY <2>5, <3>2, <3>4 DEF NodeMade
      <4> QED BY <1>1, <3>1, <3>4, <4>1
    <3> QED BY <3>3, <3>4
  <2> QED BY <2>5, <2>6, <2>7, <2>8
<1> QED BY <1>2, <1>3

LEMMA SaveInputsKeeps ==
  ASSUME NEW g, NEW X, Ready(g, X), NEW h, h = SaveInputs(g)
  PROVE  /\ Shape(g, h, X) /\ InputsSaved(g, h, Len(g.nodes))
         /\ \A val : Right(g, val) => Sound(g, h, val)
<1> PICK N \in Nat : N = Len(g.nodes)
  BY GraphIs DEF Ready, GraphOK
<1>1. PICK a : a[0] = g /\ (\A k \in 1..N : a[k] = Saved(g, a[k - 1], k)) /\ h = a[N]
  <2>1. SavedBy(g)
    <3>1. Len(g.nodes) \in Nat
      OBVIOUS
    <3> QED BY ONLY <3>1, SaveIs
  <2> QED BY <2>1 DEF SavedBy
<1> DEFINE OK(k) == /\ Shape(g, a[k], X) /\ InputsSaved(g, a[k], k) /\ OwnKept(g, a[k])
                    /\ \A val : Right(g, val) => Sound(g, a[k], val)
           T == {k \in 0..N : OK(k)}
<1>2. 0 \in T
  <2>1. InputsSaved(g, g, 0)
    <3>1. \A n \in 1..N : ~(n <= 0) /\ g.nodes[n].result = None
      BY ReadyNode
    <3> QED BY <3>1 DEF InputsSaved
  <2>2. OwnKept(g, g)
    BY DEF OwnKept
  <2> QED BY <1>1, <2>1, <2>2, StartShape
<1>3. ASSUME NEW m \in 0..(N - 1), m \in T PROVE m + 1 \in T
  <2>1. m + 1 \in 1..N /\ (m + 1) - 1 = m
    OBVIOUS
  <2> PICK k \in 1..N : k = m + 1 /\ k - 1 = m
    BY <2>1
  <2> PICK e, f : e = a[m] /\ f = a[k]
    OBVIOUS
  <2>2. f = Saved(g, e, k)
    BY <1>1
  <2>3. /\ Shape(g, e, X) /\ InputsSaved(g, e, k - 1) /\ OwnKept(g, e)
        /\ \A val : Right(g, val) => Sound(g, e, val)
    BY <1>3
  <2>4. /\ Shape(g, f, X) /\ InputsSaved(g, f, k) /\ OwnKept(g, f)
        /\ \A val : Right(g, val) /\ Sound(g, e, val) => Sound(g, f, val)
    BY <2>2, <2>3, SavedKeeps
  <2>5. OK(k)
    BY <2>3, <2>4
  <2> HIDE DEF OK
  <2> QED BY <2>5
<1>4. N \in T
  <2>1. 0 \in Int /\ N \in Int
    OBVIOUS
  <2> HIDE DEF T
  <2>2. \A k \in 0..(N - 1) : k \in T => k + 1 \in T
    BY <1>3
  <2>3. 0..N \subseteq T
    BY <1>2, <2>1, <2>2, UpTo
  <2> QED BY <2>3
<1> QED BY <1>1, <1>4

NodeDone(e, h, n) ==
  /\ Len(h.nodes) = Len(e.nodes) /\ h.nodes[n].result # None
  /\ h.nodes[n] = e.nodes[n] \/ (e.nodes[n].result = None /\ h.nodes[n].list = <<>>)
  /\ \A m \in 1..Len(e.nodes) : m # n => h.nodes[m] = e.nodes[m]

LEMMA GenNodeKeeps ==
  ASSUME NEW g, NEW X, Ready(g, X), NEW e, Shape(g, e, X), NEW n \in 1..Len(g.nodes),
         IsInput(g, n) => e.nodes[n].result # None,
         ~IsLeaf(g.nodes[n]) =>
           e.nodes[g.nodes[n].left].result # None /\ e.nodes[g.nodes[n].right].result # None,
         NEW h, h = GenNode(e, n)
  PROVE  /\ Shape(g, h, X) /\ NodeDone(e, h, n)
         /\ \A val : Right(g, val) /\ Sound(g, e, val) => Sound(g, h, val)
<1>1. CASE e.nodes[n].result # None
  <2>1. h = e
    BY <1>1 DEF GenNode
  <2> QED BY <1>1, <2>1 DEF NodeDone
<1>2. CASE e.nodes[n].result = None
  <2> PICK f : f = IF e.nodes[n].tag = "leaf" THEN GenLeaf(e, n) ELSE GenOp(e, n)
    OBVIOUS
  <2>1. h = UpdateNodeVars(f, n)
    BY <1>2 DEF GenNode
  <2>2. e.nodes[n].tag = g.nodes[n].tag /\ (IsLeaf(g.nodes[n]) <=> g.nodes[n].tag = "leaf")
        /\ Len(e.nodes) = Len(g.nodes)
    BY <1>2, MidNodeIs, ReadyNode
  <2>3. /\ Shape(g, f, X) /\ NodeMade(e, f, n)
        /\ \A val : Right(g, val) /\ Sound(g, e, val) => Sound(g, f, val)
    <3>1. CASE IsLeaf(g.nodes[n])
      <4>1. f = GenLeaf(e, n)
        BY <2>2, <3>1
      <4>2. g.nodes[n].arg \notin Vars
        BY <1>2, <2>2, <3>1 DEF IsInput
      <4> QED BY <1>2, <3>1, <4>1, <4>2, GenLeafKeeps
    <3>2. CASE ~IsLeaf(g.nodes[n])
      <4>1. f = GenOp(e, n)
        BY <2>2, <3>2
      <4> QED BY <1>2, <3>2, <4>1, GenOpKeeps
    <3> QED BY <3>1, <3>2
  <2>4. f.nodes[n].result # None
    BY <2>3 DEF NodeMade
  <2>5. /\ Shape(g, h, X) /\ NodeCleared(f, h, n)
        /\ \A val : Right(g, val) /\ Sound(g, f, val) => Sound(g, h, val)
    BY <2>1, <2>3, <2>4, UpdateKeeps
  <2>6. NodeDone(e, h, n)
    <3>1. Len(f.nodes) = Len(e.nodes) /\ \A m \in 1..Len(e.nodes) : m # n => f.nodes[m] = e.nodes[m]
      BY <2>3 DEF NodeMade
    <3>2. /\ Len(h.nodes) = Len(f.nodes) /\ h.nodes[n].list = <<>>
          /\ \A m \in 1..Len(f.nodes) : m # n => h.nodes[m] = f.nodes[m]
          /\ h.nodes[n].result = f.nodes[n].result
      BY <2>2, <2>5, <3>1 DEF NodeCleared, Alike
    <3> QED BY <1>2, <2>4, <3>1, <3>2 DEF NodeDone
  <2> QED BY <2>3, <2>5, <2>6
<1> QED BY <1>1, <1>2

Lists(g, e) ==
  \A n \in 1..Len(g.nodes) :
    IF IsInput(g, n) THEN e.nodes[n].result # None /\ e.nodes[n].list = g.nodes[n].list
    ELSE e.nodes[n].result # None => e.nodes[n].list = <<>>
DoneUpTo(e, ns, k) == \A j \in 1..k : e.nodes[ns[j]].result # None

LEMMA GenAllKeeps ==
  ASSUME NEW g, NEW X, Ready(g, X), NEW N \in Nat, N = Len(g.nodes),
         NEW ns \in Seq(1..N), OperandsFirst(g.nodes, ns),
         NEW e, Shape(g, e, X), Lists(g, e), NEW h, h = GenAll(e, ns)
  PROVE  /\ Shape(g, h, X) /\ Lists(g, h) /\ DoneUpTo(h, ns, Len(ns))
         /\ \A val : Right(g, val) /\ Sound(g, e, val) => Sound(g, h, val)
<1> PICK M \in Nat : M = Len(ns)
  OBVIOUS
<1>1. PICK a : a[0] = e /\ (\A k \in 1..M : a[k] = GenNode(a[k - 1], ns[k])) /\ h = a[M]
  <2>1. GeneratedBy(e, ns)
    <3>1. Len(ns) \in Nat
      OBVIOUS
    <3> QED BY ONLY <3>1, GenAllIs
  <2> QED BY <2>1 DEF GeneratedBy
<1> DEFINE OK(k) == /\ Shape(g, a[k], X) /\ Lists(g, a[k]) /\ DoneUpTo(a[k], ns, k)
                    /\ \A val : Right(g, val) /\ Sound(g, e, val) => Sound(g, a[k], val)
           T == {k \in 0..M : OK(k)}
<1>2. 0 \in T
  <2>1. DoneUpTo(e, ns, 0)
    <3>1. 1..0 = {}
      OBVIOUS
    <3> QED BY <3>1 DEF DoneUpTo
  <2> QED BY <1>1, <2>1
<1>3. ASSUME NEW m \in 0..(M - 1), m \in T PROVE m + 1 \in T
  <2>1. m + 1 \in 1..M /\ (m + 1) - 1 = m
    OBVIOUS
  <2> PICK k \in 1..M : k = m + 1 /\ k - 1 = m
    BY <2>1
  <2> PICK b, c : b = a[m] /\ c = a[k]
    OBVIOUS
  <2> PICK n \in 1..N : n = ns[k]
    OBVIOUS
  <2>2. c = GenNode(b, n)
    BY <1>1
  <2>3. /\ Shape(g, b, X) /\ Lists(g, b) /\ DoneUpTo(b, ns, m)
        /\ \A val : Right(g, val) /\ Sound(g, e, val) => Sound(g, b, val)
    BY <1>3
  <2>4. Len(b.nodes) = N
    BY <2>3 DEF Shape
  <2>5. ~IsLeaf(g.nodes[n]) =>
          b.nodes[g.nodes[n].left].result # None /\ b.nodes[g.nodes[n].right].result # None
    <3> SUFFICES ASSUME ~IsLeaf(g.nodes[n])
                 PROVE  b.nodes[g.nodes[n].left].result # None /\ b.nodes[g.nodes[n].right].result # None
      OBVIOUS
    <3>1. g.nodes[n].tag # "leaf"
      BY ReadyNode
    <3>2. PICK i1, j \in 1..(k - 1) : ns[i1] = g.nodes[n].left /\ ns[j] = g.nodes[n].right
      BY <3>1 DEF OperandsFirst, First
    <3> QED BY <2>3, <3>2 DEF DoneUpTo
  <2>6. IsInput(g, n) => b.nodes[n].result # None
    BY <2>3 DEF Lists
  <2>7. /\ Shape(g, c, X) /\ NodeDone(b, c, n)
        /\ \A val : Right(g, val) /\ Sound(g, b, val) => Sound(g, c, val)
    BY <2>2, <2>3, <2>5, <2>6, GenNodeKeeps
  <2>8. \A j \in 1..N : /\ c.nodes[j] = b.nodes[j] \/ (j = n /\ b.nodes[j].result = None /\ c.nodes[j].list = <<>>)
                        /\ b.nodes[j].result # None => c.nodes[j].result # None
                        /\ j = n => c.nodes[j].result # None
    BY <2>4, <2>7 DEF NodeDone
  <2>9. Lists(g, c)
    <3> SUFFICES ASSUME NEW j \in 1..N
                 PROVE  IF IsInput(g, j) THEN c.nodes[j].result # None /\ c.nodes[j].list = g.nodes[j].list
                        ELSE c.nodes[j].result # None => c.nodes[j].list = <<>>
      BY DEF Lists
    <3>1. IF IsInput(g, j) THEN b.nodes[j].result # None /\ b.nodes[j].list = g.nodes[j].list
          ELSE b.nodes[j].result # None => b.nodes[j].list = <<>>
      BY <2>3 DEF Lists
    <3>2. c.nodes[j] = b.nodes[j] \/ (b.nodes[j].result = None /\ c.nodes[j].list = <<>>)
      BY <2>8
    <3> QED BY <3>1, <3>2
  <2>10. DoneUpTo(c, ns, k)
    <3> SUFFICES ASSUME NEW j \in 1..k PROVE c.nodes[ns[j]].result # None
      BY DEF DoneUpTo
    <3>1. j \in 1..m \/ j = k
      OBVIOUS
    <3>2. j \in 1..M
      OBVIOUS
    <3>3. ns[j] \in 1..N
      BY <3>2
    <3>4. j \in 1..m => b.nodes[ns[j]].result # None
      BY <2>3 DEF DoneUpTo
    <3> QED BY <2>8, <3>1, <3>3, <3>4
  <2>11. OK(k)
    BY <2>3, <2>7, <2>9, <2>10
  <2> HIDE DEF OK
  <2> QED BY <2>11
<1>4. M \in T
  <2>1. 0 \in Int /\ M \in Int
    OBVIOUS
  <2> HIDE DEF T
  <2>2. \A k \in 0..(M - 1) : k \in T => k + 1 \in T
    BY <1>3
  <2>3. 0..M \subseteq T
    BY <1>2, <2>1, <2>2, UpTo
  <2> QED BY <2>3
<1> QED BY <1>1, <1>4

Cleared(g, e, k) ==
  \A n \in 1..Len(g.nodes) : /\ e.nodes[n].result # None
                             /\ ~IsInput(g, n) \/ n <= k => e.nodes[n].list = <<>>

LEMMA InputsSame ==
  ASSUME NEW g, NEW X, Ready(g, X), NEW e, Shape(g, e, X), NEW n \in 1..Len(g.nodes)
  PROVE  IsInput(e, n) <=> IsInput(g, n)
<1> PICK p, q : p = e.nodes[n] /\ q = g.nodes[n]
  OBVIOUS
<1>1. MidNode(p, q, e.used) /\ (IsLeaf(q) => p.tag = "leaf" /\ p.arg = q.arg)
  BY MidNodeIs
<1>2. IsLeaf(q) <=> q.tag = "leaf"
  BY ReadyNode
<1>3. \A v \in Vars : v \notin Int
  BY QuadruplesAssumption
<1> QED BY <1>1, <1>2, <1>3 DEF MidNode, IsInput

LEMMA SetEqualKeeps ==
  ASSUME NEW g, NEW X, Ready(g, X), NEW N \in Nat, N = Len(g.nodes),
         NEW e, Shape(g, e, X), Cleared(g, e, 0), NEW h, h = SetEqual(e)
  PROVE  /\ Shape(g, h, X) /\ Cleared(g, h, N)
         /\ \A val : Right(g, val) /\ Sound(g, e, val) => Sound(g, h, val)
<1>1. Len(e.nodes) = N
  BY DEF Shape
<1>2. PICK a : a[0] = e /\ (\A k \in 1..N : a[k] = Equated(e, a[k - 1], k)) /\ h = a[N]
  <2>1. EquatedBy(e)
    <3>1. Len(e.nodes) \in Nat
      BY <1>1
    <3> QED BY ONLY <3>1, SetEqualIs
  <2> QED BY <1>1, <2>1 DEF EquatedBy
<1> DEFINE OK(k) == /\ Shape(g, a[k], X) /\ Cleared(g, a[k], k)
                    /\ \A val : Right(g, val) /\ Sound(g, e, val) => Sound(g, a[k], val)
           T == {k \in 0..N : OK(k)}
<1>3. 0 \in T
  BY <1>2
<1>4. ASSUME NEW m \in 0..(N - 1), m \in T PROVE m + 1 \in T
  <2>1. m + 1 \in 1..N /\ (m + 1) - 1 = m
    OBVIOUS
  <2> PICK k \in 1..N : k = m + 1 /\ k - 1 = m
    BY <2>1
  <2> PICK b, c : b = a[m] /\ c = a[k]
    OBVIOUS
  <2>2. c = IF IsInput(g, k) THEN UpdateNodeVars(b, k) ELSE b
    <3>1. c = Equated(e, b, k)
      BY <1>2
    <3> QED BY <3>1, InputsSame DEF Equated
  <2>3. /\ Shape(g, b, X) /\ Cleared(g, b, m)
        /\ \A val : Right(g, val) /\ Sound(g, e, val) => Sound(g, b, val)
    BY <1>4
  <2>4. \A n \in 1..N : n <= k => n <= m \/ n = k
    OBVIOUS
  <2>5. OK(k)
    <3>1. CASE IsInput(g, k)
      <4>1. c = UpdateNodeVars(b, k) /\ b.nodes[k].result # None /\ Len(b.nodes) = N
        BY <2>2, <2>3, <3>1 DEF Cleared, Shape
      <4>2. /\ Shape(g, c, X) /\ NodeCleared(b, c, k)
            /\ \A val : Right(g, val) /\ Sound(g, b, val) => Sound(g, c, val)
        BY <2>3, <4>1, UpdateKeeps
      <4>3. \A n \in 1..N : /\ c.nodes[n].result = b.nodes[n].result
                            /\ n # k => c.nodes[n] = b.nodes[n]
                            /\ n = k => c.nodes[n].list = <<>>
        BY <4>1, <4>2 DEF NodeCleared, Alike
      <4>4. Cleared(g, c, k)
        BY <2>3, <2>4, <4>3 DEF Cleared
      <4> QED BY <2>3, <4>2, <4>4
    <3>2. CASE ~IsInput(g, k)
      <4>1. c = b
        BY <2>2, <3>2
      <4>2. Cleared(g, b, k)
        BY <2>3, <2>4, <3>2 DEF Cleared
      <4> QED BY <2>3, <4>1, <4>2
    <3> QED BY <3>1, <3>2
  <2> HIDE DEF OK
  <2> QED BY <2>5
<1>5. N \in T
  <2>1. 0 \in Int /\ N \in Int
    OBVIOUS
  <2> HIDE DEF T
  <2>2. \A k \in 0..(N - 1) : k \in T => k + 1 \in T
    BY <1>4
  <2>3. 0..N \subseteq T
    BY <1>3, <2>1, <2>2, UpTo
  <2> QED BY <2>3
<1> QED BY <1>2, <1>5

(* The loops over the roots and the constants come to every other node. *)
LEMMA OrdersAre ==
  ASSUME NEW N \in Nat, NEW S \in SUBSET (1..N), NEW ns \in Orders(S)
  PROVE  ns \in Seq(1..N) /\ ToSet(ns) = S
<1>1. Cardinality(S) \in Nat
  BY Count
<1> PICK c \in Nat : c = Cardinality(S)
  BY <1>1
<1>2. ns \in [1..c -> S] /\ ToSet(ns) = S
  BY DEF Orders
<1>3. ns \in [1..c -> 1..N]
  BY <1>2
<1> QED BY <1>2, <1>3, SeqFromFunction

LEMMA GraphAcyclic ==
  ASSUME NEW g, NEW X, Ready(g, X), NEW N \in Nat, N = Len(g.nodes)
  PROVE  Acyclic(g.nodes, N)
<1>1. DOMAIN g.nodes = 1..N
  BY GraphIs DEF Ready, GraphOK
<1>2. ASSUME NEW n \in 1..N, g.nodes[n].tag # "leaf"
      PROVE  g.nodes[n].left \in 1..(n - 1) /\ g.nodes[n].right \in 1..(n - 1)
  BY <1>2, ReadyNode
<1> QED BY <1>1, <1>2 DEF Acyclic

Reached(g, ns, n) == IsInput(g, n) \/ n \in ToSet(ns)

LEMMA AllReached ==
  ASSUME NEW g, NEW X, Ready(g, X), NEW N \in Nat, N = Len(g.nodes),
         NEW roots \in Roots(g), NEW constants \in Constants(g), NEW tops, tops = roots \o constants,
         NEW ns, ns = Visited(g.nodes, tops)
  PROVE  /\ ns \in Seq(1..N) /\ OperandsFirst(g.nodes, ns)
         /\ \A n \in 1..N : Reached(g, ns, n)
<1>1. DOMAIN g.nodes = 1..N
  BY GraphIs DEF Ready, GraphOK
<1> PICK R : R = {n \in DOMAIN g.nodes : g.nodes[n].tag = "root"}
  OBVIOUS
<1> PICK C : C = {n \in DOMAIN g.nodes : g.nodes[n].tag = "leaf" /\ IsConst(g.nodes[n].arg)}
  OBVIOUS
<1>2. roots \in Seq(1..N) /\ ToSet(roots) = R
  <2>1. R \in SUBSET (1..N) /\ roots \in Orders(R)
    BY <1>1 DEF Roots
  <2> QED BY ONLY N \in Nat, <2>1, OrdersAre
<1>3. constants \in Seq(1..N) /\ ToSet(constants) = C
  <2>1. C \in SUBSET (1..N) /\ constants \in Orders(C)
    BY <1>1 DEF Constants
  <2> QED BY ONLY N \in Nat, <2>1, OrdersAre
<1>4. tops \in Seq(1..N) /\ ToSet(tops) = R \cup C
  <2> PICK S : S = 1..N
    OBVIOUS
  <2>1. roots \in Seq(S) /\ constants \in Seq(S) /\ tops = roots \o constants
    BY <1>2, <1>3
  <2>2. Concats(S, roots, constants, tops)
    BY ONLY <2>1, ConcatIs
  <2> QED BY <1>2, <1>3, <2>2 DEF Concats
<1>5. Acyclic(g.nodes, N)
  BY GraphAcyclic
<1>6. ns \in Seq(1..N) /\ OperandsFirst(g.nodes, ns) /\ ToSet(tops) \subseteq ToSet(ns)
  BY <1>4, <1>5, VisitedFirst
<1>7. ASSUME NEW n \in 1..N,
             \A m \in 1..N : m > n => Reached(g, ns, m)
      PROVE  Reached(g, ns, n)
  <2> PICK p : p = g.nodes[n]
    OBVIOUS
  <2>1. NodeOK(g, n) /\ p \in NodeType
    BY <1>1, GraphIs DEF Ready, GraphOK
  <2>2. p.tag \in {"leaf", "root", "internal"}
    BY <2>1, NodeIs
  <2>3. CASE p.tag = "leaf"
    <3>1. p.arg \in Operand
      BY <2>3, ReadyNode
    <3>2. CASE p.arg \in Vars
      BY <2>3, <3>2 DEF Reached, IsInput
    <3>3. CASE p.arg \notin Vars
      <4>1. p.arg \in Int /\ p.arg # None
        BY <3>1, <3>3, QuadruplesAssumption DEF Operand
      <4>2. n \in C
        BY <1>1, <2>3, <3>3, <4>1 DEF IsConst
      <4> QED BY <1>4, <1>6, <4>2 DEF Reached
    <3> QED BY <3>2, <3>3
  <2>4. CASE p.tag = "root"
    <3>1. n \in R
      BY <1>1, <2>4
    <3> QED BY <1>4, <1>6, <3>1 DEF Reached
  <2>5. CASE p.tag = "internal"
    <3>1. PICK m \in 1..N : ~IsLeaf(g.nodes[m]) /\ n \in {g.nodes[m].left, g.nodes[m].right}
      BY <1>1, <2>1, <2>5 DEF NodeOK
    <3>2. g.nodes[m].left \in 1..(m - 1) /\ g.nodes[m].right \in 1..(m - 1) /\ g.nodes[m].tag # "leaf"
      BY <3>1, ReadyNode
    <3>3. m > n
      BY <3>1, <3>2
    <3>4. m \in ToSet(ns)
      <4>1. Reached(g, ns, m)
        BY <1>7, <3>3
      <4> QED BY <3>2, <4>1 DEF Reached, IsInput
    <3> PICK M \in Nat : M = Len(ns)
      BY <1>6
    <3>5. ToSet(ns) = {ns[k] : k \in 1..M}
      BY <1>6 DEF ToSet
    <3>6. PICK k \in 1..M : ns[k] = m
      BY <3>4, <3>5
    <3>7. First(g.nodes, ns, k)
      BY <1>6 DEF OperandsFirst
    <3>8. \E i1, j \in 1..(k - 1) : ns[i1] = g.nodes[m].left /\ ns[j] = g.nodes[m].right
      BY <3>2, <3>6, <3>7 DEF First
    <3>9. \A j \in 1..(k - 1) : j \in 1..M
      OBVIOUS
    <3> QED BY <3>1, <3>5, <3>8, <3>9 DEF Reached
  <2> QED BY <2>2, <2>3, <2>4, <2>5
<1> DEFINE T == {k \in 0..N : \A n \in 1..N : n > N - k => Reached(g, ns, n)}
<1>8. 0 \in T
  BY <1>1
<1>9. ASSUME NEW k \in 0..(N - 1), k \in T PROVE k + 1 \in T
  <2>1. N - k \in 1..N /\ k + 1 \in 0..N
    OBVIOUS
  <2> PICK n \in 1..N : n = N - k
    BY <2>1
  <2>2. Reached(g, ns, n)
    BY <1>7, <1>9
  <2>3. \A m \in 1..N : m > N - (k + 1) => m > N - k \/ m = n
    OBVIOUS
  <2> QED BY <1>9, <2>1, <2>2, <2>3
<1>10. N \in T
  <2>1. 0 \in Int /\ N \in Int
    OBVIOUS
  <2> HIDE DEF T
  <2>2. \A k \in 0..(N - 1) : k \in T => k + 1 \in T
    BY <1>9
  <2>3. 0..N \subseteq T
    BY <1>8, <2>1, <2>2, UpTo
  <2> QED BY <2>3
<1>11. \A n \in 1..N : n > N - N
  OBVIOUS
<1> QED BY <1>6, <1>10, <1>11

(* The graph is emptied, and every variable has the value of its node. *)
Generated(g, e, X) ==
  /\ e \in GraphType /\ e.nodes = <<>> /\ e.at = NoNodes
  /\ e.used <= g.used + Len(g.nodes) /\ Extends(g.out, e.out, X)
  /\ e.stale <=> g.stale \/ ~ListsTrue(g)
  /\ \A val : Right(g, val) =>
       /\ Meaning(e.out).effects = Meaning(g.out).effects
       /\ \A v \in Own : Meaning(e.out).env[v] = IF g.at[v] = 0 THEN Meaning(g.out).env[v]
                                                   ELSE val[g.at[v]]

Emptied(g, h, e) ==
  /\ e \in GraphType /\ e.nodes = <<>> /\ e.at = NoNodes /\ e.used = h.used /\ e.out = h.out
  /\ e.stale <=> g.stale \/ ~ListsTrue(g)

LEMMA ResetIs ==
  ASSUME NEW g, NEW h \in GraphType, h.stale = g.stale,
         NEW e, e = [Reset(h) EXCEPT !.stale = @ \/ ~ListsTrue(g)]
  PROVE  Emptied(g, h, e)
<1> PICK st \in BOOLEAN : st = (h.stale \/ ~ListsTrue(g))
  OBVIOUS
<1>1. h = [nodes |-> h.nodes, at |-> h.at, out |-> h.out, used |-> h.used, failed |-> h.failed,
           stale |-> h.stale]
  BY GraphIs
<1> PICK f : f = Reset(h)
  OBVIOUS
<1>2. f = [h EXCEPT !.nodes = <<>>, !.at = NoNodes]
  BY DEF Reset
<1>3. f = [nodes |-> <<>>, at |-> NoNodes, out |-> h.out, used |-> h.used, failed |-> h.failed,
           stale |-> h.stale]
  BY ONLY <1>1, <1>2
<1>4. e = [f EXCEPT !.stale = st]
  <2>1. f.stale = h.stale
    BY <1>3
  <2>2. e = [f EXCEPT !.stale = f.stale \/ ~ListsTrue(g)]
    OBVIOUS
  <2> QED BY <2>1, <2>2
<1>5. e = [nodes |-> <<>>, at |-> NoNodes, out |-> h.out, used |-> h.used, failed |-> h.failed,
           stale |-> st]
  BY ONLY <1>3, <1>4
<1>6. <<>> \in Seq(NodeType) /\ NoNodes \in [Vars -> Nat]
  BY DEF NoNodes, Null
<1>7. e \in GraphType
  <2>1. h.out \in Seq(Quadr) /\ h.used \in Nat /\ h.failed \in BOOLEAN
    BY GraphIs
  <2> QED BY ONLY <1>5, <1>6, <2>1, st \in BOOLEAN, GraphFrom
<1>8. /\ e.nodes = <<>> /\ e.at = NoNodes /\ e.used = h.used /\ e.out = h.out /\ e.stale = st
  BY ONLY <1>5
<1>9. st <=> g.stale \/ ~ListsTrue(g)
  OBVIOUS
<1> QED BY <1>7, <1>8, <1>9 DEF Emptied

LEMMA FromGraphKeeps ==
  ASSUME NEW g, NEW X, Ready(g, X), NEW e \in FromGraphInOrder(g)
  PROVE  Generated(g, e, X)
<1> PICK N \in Nat : N = Len(g.nodes)
  BY GraphIs DEF Ready, GraphOK
<1>1. PICK roots \in Roots(g), constants \in Constants(g) : e = FromGraph(g, roots \o constants)
  BY DEF FromGraphInOrder
<1> PICK ns : ns = Visited(g.nodes, roots \o constants)
  OBVIOUS
<1> PICK a, b, h : a = SaveInputs(g) /\ b = GenAll(a, ns) /\ h = SetEqual(b)
  OBVIOUS
<1>2. e = [Reset(h) EXCEPT !.stale = @ \/ ~ListsTrue(g)]
  BY <1>1 DEF FromGraph
<1>3. ns \in Seq(1..N) /\ OperandsFirst(g.nodes, ns) /\ \A n \in 1..N : Reached(g, ns, n)
  BY AllReached
<1>4. /\ Shape(g, a, X) /\ InputsSaved(g, a, N)
      /\ \A val : Right(g, val) => Sound(g, a, val)
  BY SaveInputsKeeps
<1>5. Lists(g, a)
  <2>1. \A n \in 1..N : n <= N
    OBVIOUS
  <2> QED BY <1>4, <2>1 DEF InputsSaved, Lists
<1> PICK M \in Nat : M = Len(ns)
  BY <1>3
<1>6. /\ Shape(g, b, X) /\ Lists(g, b) /\ DoneUpTo(b, ns, M)
      /\ \A val : Right(g, val) /\ Sound(g, a, val) => Sound(g, b, val)
  BY <1>3, <1>4, <1>5, GenAllKeeps
<1>7. Cleared(g, b, 0)
  <2>1. ASSUME NEW n \in 1..N PROVE b.nodes[n].result # None
    <3>1. CASE IsInput(g, n)
      BY <1>6, <3>1 DEF Lists
    <3>2. CASE ~IsInput(g, n)
      <4>1. n \in ToSet(ns)
        BY <1>3, <3>2 DEF Reached
      <4>2. ToSet(ns) = {ns[k] : k \in 1..M}
        BY <1>3 DEF ToSet
      <4>3. PICK k \in 1..M : ns[k] = n
        BY <4>1, <4>2
      <4> QED BY <1>6, <4>3 DEF DoneUpTo
    <3> QED BY <3>1, <3>2
  <2>2. \A n \in 1..N : ~(n <= 0)
    OBVIOUS
  <2> QED BY <1>6, <2>1, <2>2 DEF Lists, Cleared
<1>8. /\ Shape(g, h, X) /\ Cleared(g, h, N)
      /\ \A val : Right(g, val) /\ Sound(g, b, val) => Sound(g, h, val)
  BY <1>6, <1>7, SetEqualKeeps
<1>9. /\ e \in GraphType /\ e.nodes = <<>> /\ e.at = NoNodes /\ e.used = h.used /\ e.out = h.out
      /\ e.stale <=> g.stale \/ ~ListsTrue(g)
  <2>1. h \in GraphType /\ h.stale = g.stale
    BY <1>8 DEF Shape
  <2>2. Emptied(g, h, e)
    BY ONLY <1>2, <2>1, ResetIs
  <2> QED BY <2>2 DEF Emptied
<1>10. e.used <= g.used + N /\ Extends(g.out, e.out, X)
  <2>1. Resulted(h) \in SUBSET (1..N)
    BY <1>8 DEF Resulted, Shape
  <2>2. Cardinality(Resulted(h)) \in Nat /\ Cardinality(Resulted(h)) <= N
    BY <2>1, Count
  <2>3. g.used \in Nat
    BY GraphIs DEF Ready, GraphOK
  <2>4. h.used = g.used + Cardinality(Resulted(h)) /\ Extends(g.out, h.out, X)
    BY <1>8 DEF Shape
  <2> QED BY <1>9, <2>2, <2>3, <2>4
<1>11. ASSUME NEW val, Right(g, val)
       PROVE  /\ Meaning(e.out).effects = Meaning(g.out).effects
              /\ \A v \in Own : Meaning(e.out).env[v] = IF g.at[v] = 0 THEN Meaning(g.out).env[v]
                                                          ELSE val[g.at[v]]
  <2>1. Sound(g, h, val)
    BY <1>4, <1>6, <1>8, <1>11
  <2>2. Meaning(h.out).effects = Meaning(g.out).effects
    BY <2>1 DEF Sound
  <2>3. ASSUME NEW v \in Own
        PROVE  Meaning(h.out).env[v] = IF g.at[v] = 0 THEN Meaning(g.out).env[v] ELSE val[g.at[v]]
    <3>1. CASE g.at[v] = 0
      BY <2>1, <3>1 DEF Sound
    <3>2. CASE g.at[v] # 0
      <4>1. AtOK(g, v)
        BY DEF Ready, GraphOK, Own
      <4> PICK m \in 1..N : m = g.at[v]
        BY <3>2, <4>1 DEF AtOK
      <4>2. h.nodes[m].list = <<>>
        <5>1. m <= N
          OBVIOUS
        <5> QED BY <1>8, <5>1 DEF Cleared
      <4> QED BY <2>1, <3>2, <4>2 DEF Sound
    <3> QED BY <3>1, <3>2
  <2> QED BY <1>9, <2>2, <2>3
<1> QED BY <1>9, <1>10, <1>11 DEF Generated

-----------------------------------------------------------------------------
(* The block as a whole. *)
LEMMA GivenFormed ==
  ASSUME NEW s, \A v \in Vars : WellFormed(s.env[v]), NEW q \in Quadr, q.op \in Assigning
  PROVE  WellFormed(Given(s, q))
<1>1. CASE q.op = "copy"
  <2>1. q.arg1 \in Operand
    BY <1>1 DEF Quadr, Gone, Arithmetic
  <2>2. WellFormed(Value(s.env, q.arg1))
    BY <2>1, OperandValue
  <2>3. Given(s, q) = Value(s.env, q.arg1)
    BY ONLY <1>1, GivenIs DEF GivenAs
  <2> QED BY <2>2, <2>3
<1>2. CASE q.op \in Arithmetic
  <2>1. q.arg1 \in Operand /\ q.arg2 \in Operand
    BY <1>2 DEF Quadr, Gone, Arithmetic
  <2> PICK x, y, op : x = Value(s.env, q.arg1) /\ y = Value(s.env, q.arg2) /\ op = q.op
    OBVIOUS
  <2>2. WellFormed(x) /\ WellFormed(y)
    BY <2>1, OperandValue
  <2>3. WellFormed(Computed(op, x, y))
    BY <1>2, <2>2, ComputedIs
  <2>4. Given(s, q) = Computed(op, x, y)
    <3>1. Given(s, q) = Computed(q.op, Value(s.env, q.arg1), Value(s.env, q.arg2))
      BY ONLY <1>2, GivenIs DEF GivenAs
    <3> QED BY <3>1
  <2> QED BY <2>3, <2>4
<1>3. CASE q.op = "call"
  <2>1. Given(s, q) = <<"call", {<<0, Len(s.effects) + 1>>}>>
    BY <1>3 DEF Given, Arithmetic
  <2> QED BY <2>1 DEF WellFormed
<1> QED BY <1>1, <1>2, <1>3 DEF Assigning

LEMMA ExecutionFormed ==
  ASSUME NEW qs \in Seq(Quadr)
  PROVE  \A k \in 0..Len(qs) : State(Execution(qs)[k]) /\ \A v \in Vars : WellFormed(Execution(qs)[k].env[v])
<1> PICK n \in Nat : n = Len(qs)
  OBVIOUS
<1> DEFINE T == {k \in 0..n : \A v \in Vars : WellFormed(Execution(qs)[k].env[v])}
<1>1. 0 \in T
  <2> PICK s : s = Execution(qs)[0]
    OBVIOUS
  <2>1. s = [env |-> [v \in Vars |-> Start(v)], effects |-> <<>>]
    BY ExecutionIs
  <2>2. \A v \in Vars : s.env[v] = Start(v)
    BY <2>1
  <2>3. \A v \in Vars : WellFormed(Start(v))
    BY DEF Start, WellFormed
  <2> QED BY <2>2, <2>3
<1>2. ASSUME NEW k \in 0..(n - 1), k \in T PROVE k + 1 \in T
  <2>1. k + 1 \in 1..n /\ (k + 1) - 1 = k /\ k \in 0..n /\ k + 1 \in 0..n
    OBVIOUS
  <2> PICK q \in Quadr : q = qs[k + 1]
    BY <2>1
  <2> PICK s, t : s = Execution(qs)[k] /\ t = Execution(qs)[k + 1]
    OBVIOUS
  <2>2. t = Execute(s, q) /\ State(s)
    BY <2>1, ExecutionIs, ExecutionStates
  <2>3. \A v \in Vars : WellFormed(s.env[v])
    BY <1>2
  <2>4. ASSUME NEW v \in Vars PROVE WellFormed(t.env[v])
    <3>1. CASE q.op \in Assigning /\ v = q.result
      <4>1. t.env[v] = Given(s, q)
        BY <2>2, <3>1, ExecuteIs
      <4> QED BY <2>3, <3>1, <4>1, GivenFormed
    <3>2. CASE q.op \notin Assigning \/ v # q.result
      <4>1. t.env[v] = s.env[v]
        <5>1. CASE q.op \notin Assigning
          BY <2>2, <5>1, ExecuteIs
        <5>2. CASE q.op \in Assigning /\ v # q.result
          <6>1. State(s) /\ q \in Quadr /\ q.op \in Assigning
            BY <2>2, <5>2
          <6>2. \A w \in Vars \ {q.result} : Execute(s, q).env[w] = s.env[w]
            BY ONLY <6>1, ExecuteIs
          <6> QED BY <2>2, <5>2, <6>2
        <5> QED BY <3>2, <5>1, <5>2
      <4> QED BY <2>3, <4>1
    <3> QED BY <3>1, <3>2
  <2> QED BY <2>1, <2>4
<1>3. 0..n \subseteq T
  <2>1. 0 \in Int /\ n \in Int
    OBVIOUS
  <2> HIDE DEF T
  <2>2. \A k \in 0..(n - 1) : k \in T => k + 1 \in T
    BY <1>2
  <2> QED BY <1>1, <2>1, <2>2, UpTo
<1> QED BY <1>3, ExecutionStates

LEMMA OutFormed ==
  ASSUME NEW g, GraphOK(g)
  PROVE  /\ g.out \in Seq(Quadr) /\ State(Meaning(g.out))
         /\ \A v \in Vars : WellFormed(Meaning(g.out).env[v])
<1>1. g.out \in Seq(Quadr)
  BY GraphIs DEF GraphOK
<1> PICK n \in Nat : n = Len(g.out)
  BY <1>1
<1>2. n \in 0..n
  OBVIOUS
<1> QED BY <1>1, <1>2, ExecutionFormed DEF Meaning

LEMMA EmptyOK ==
  ASSUME NEW e \in GraphType, e.nodes = <<>>, e.at = NoNodes
  PROVE  /\ GraphOK(e) /\ LeavesOwn(e) /\ Len(e.nodes) = 0
         /\ \A X : ListsIn(e, X)
         /\ \A env, benv : (\A v \in Own : benv[v] = env[v]) => Represents(e, env, benv)
<1>1. DOMAIN e.nodes = {} /\ Len(e.nodes) = 0
  OBVIOUS
<1>2. \A v \in Vars : e.at[v] = 0
  BY DEF NoNodes, Null
<1>3. GraphOK(e)
  <2>1. 0 \in 0..0
    OBVIOUS
  <2> QED BY <1>1, <1>2, <2>1 DEF GraphOK, AtOK
<1>4. ASSUME NEW env, NEW benv, \A v \in Own : benv[v] = env[v] PROVE Represents(e, env, benv)
  <2>1. Own \subseteq Vars
    BY DEF Own
  <2> QED BY <1>1, <1>2, <1>4, <2>1 DEF Represents, Values, Holds
<1> QED BY <1>1, <1>3, <1>4 DEF LeavesOwn, ListsIn

LEMMA EmitIs ==
  ASSUME NEW e \in GraphType, NEW q \in Quadr, NEW h, h = Emit(e, q)
  PROVE  /\ h \in GraphType /\ h.nodes = e.nodes /\ h.at = e.at /\ h.used = e.used
         /\ h.stale = e.stale /\ h.out = Append(e.out, q)
<1> PICK out : out = Append(e.out, q)
  OBVIOUS
<1>1. e = [nodes |-> e.nodes, at |-> e.at, out |-> e.out, used |-> e.used, failed |-> e.failed,
           stale |-> e.stale]
  BY GraphIs
<1>2. h = [e EXCEPT !.out = out]
  BY DEF Emit
<1>3. h = [nodes |-> e.nodes, at |-> e.at, out |-> out, used |-> e.used, failed |-> e.failed,
           stale |-> e.stale]
  BY ONLY <1>1, <1>2
<1>4. out \in Seq(Quadr)
  BY GraphIs
<1>5. h \in GraphType
  BY <1>3, <1>4, GraphIs, GraphFrom
<1> QED BY <1>3, <1>5

(* The variables of declare_var apart, two states are the same. *)
Same(s, t) == s.effects = t.effects /\ \A v \in Own : s.env[v] = t.env[v]

LEMMA ExecuteSame ==
  ASSUME NEW s, State(s), NEW t, State(t), Same(s, t), NEW q \in Quadr, OfProgram(q)
  PROVE  Same(Execute(s, q), Execute(t, q))
<1>1. \A a : a \notin ToSet(NewVars) => Value(t.env, a) = Value(s.env, a)
  BY DEF Value, Same, Own
<1>2. q.arg1 \notin ToSet(NewVars) /\ q.arg2 \notin ToSet(NewVars) /\ q.result \notin ToSet(NewVars)
  BY DEF OfProgram
<1>3. Given(t, q) = Given(s, q) /\ Execute(t, q).effects = Execute(s, q).effects
  <2>1. s.effects = t.effects
    BY DEF Same
  <2> QED BY <1>1, <1>2, <2>1, Congruent
<1>4. ASSUME NEW v \in Own PROVE Execute(s, q).env[v] = Execute(t, q).env[v]
  <2>1. v \in Vars /\ s.env[v] = t.env[v]
    BY DEF Own, Same
  <2>2. CASE q.op \in Assigning /\ v = q.result
    BY <1>3, <2>1, <2>2, ExecuteIs
  <2>3. CASE q.op \notin Assigning \/ v # q.result
    BY <2>1, <2>3, ExecuteIs
  <2> QED BY <2>2, <2>3
<1> QED BY <1>3, <1>4 DEF Same

(* rest is what is left of the block after its first j quadruples. *)
Remains(qs, r, j) ==
  /\ j \in 0..Len(qs) /\ r \in Seq(Quadr) /\ Len(r) = Len(qs) - j
  /\ \A k \in 1..Len(r) : r[k] = qs[j + k]

LEMMA RemainsNext ==
  ASSUME NEW qs \in Seq(Quadr), NEW r, NEW j, Remains(qs, r, j), r # <<>>
  PROVE  /\ j + 1 \in 1..Len(qs) /\ (j + 1) - 1 = j /\ Head(r) = qs[j + 1] /\ Head(r) \in Quadr
         /\ Remains(qs, Tail(r), j + 1)
<1> PICK n \in Nat : n = Len(qs)
  OBVIOUS
<1>1. j \in 0..n /\ r \in Seq(Quadr) /\ Len(r) = n - j /\ \A k \in 1..Len(r) : r[k] = qs[j + k]
  BY DEF Remains
<1>2. Len(r) > 0
  BY <1>1
<1>3. j + 1 \in 1..n /\ (j + 1) - 1 = j /\ 1 \in 1..Len(r)
  BY <1>1, <1>2
<1>4. Head(r) = r[1] /\ Head(r) \in Quadr
  BY <1>1, <1>2
<1>5. Tail(r) \in Seq(Quadr) /\ Len(Tail(r)) = Len(r) - 1 /\ \A k \in 1..Len(Tail(r)) : Tail(r)[k] = r[k + 1]
  <2>1. r \in Seq(Quadr) /\ r # <<>>
    BY <1>1
  <2> QED BY ONLY <2>1, HeadTailProperties
<1>6. \A k \in 1..Len(Tail(r)) : k + 1 \in 1..Len(r) /\ j + (k + 1) = (j + 1) + k
  BY <1>1, <1>2, <1>5
<1>7. Len(Tail(r)) = n - (j + 1)
  <2>1. n \in Nat /\ j \in 0..n
    BY <1>1
  <2> QED BY ONLY <1>1, <1>5, <2>1
<1> QED BY <1>1, <1>3, <1>4, <1>5, <1>6, <1>7 DEF Remains

Targets(qs) == {qs[k].result : k \in {m \in 1..Len(qs) : qs[m].op \in Arithmetic \cup {"copy"}}}

LEMMA TargetsAre ==
  ASSUME NEW qs \in Seq(Quadr), Fresh(qs)
  PROVE  /\ Targets(qs) \subseteq Own
         /\ \A k \in 1..Len(qs) : /\ OfProgram(qs[k])
                                  /\ qs[k].op \in Arithmetic \cup {"copy"} => qs[k].result \in Targets(qs)
<1> PICK n \in Nat : n = Len(qs) /\ DOMAIN qs = 1..n
  OBVIOUS
<1>1. \A k \in 1..n : OfProgram(qs[k]) /\ qs[k] \in Quadr
  BY DEF Fresh, OfProgram
<1>2. \A k \in 1..n : qs[k].op \in Arithmetic \cup {"copy"} => qs[k].result \in Own
  BY <1>1, OwnArguments
<1> QED BY <1>1, <1>2 DEF Targets

(* Where the quadruples of the code so far come from. *)
OutFine(out, qs, j) ==
  /\ \A k \in 1..Len(out) : out[k].op = "call" => \E m \in 1..j : out[k] = qs[m]
  /\ \A k, m \in 1..Len(out) :
       out[k].op = "call" /\ out[m].op = "call" /\ out[k].result = out[m].result => k = m
  /\ \A k \in 1..Len(out) :
       out[k].op \in {"call", "write_ptr"} \/ out[k].result \in Targets(qs) \cup ToSet(NewVars) \cup {None}

LEMMA OutExtended ==
  ASSUME NEW out \in Seq(Quadr), NEW new \in Seq(Quadr), NEW qs, NEW j, OutFine(out, qs, j),
         Extends(out, new, Targets(qs))
  PROVE  OutFine(new, qs, j)
<1> PICK N \in Nat, M \in Nat : N = Len(out) /\ M = Len(new)
  OBVIOUS
<1>1. N <= M /\ \A k \in 1..N : new[k] = out[k]
  BY DEF Extends
<1>2. \A k \in (N + 1)..M : new[k].op \notin {"call", "write_ptr"}
                            /\ new[k].result \in Targets(qs) \cup ToSet(NewVars)
  <2>1. \A k \in (N + 1)..M : new[k] \in Emitted(Targets(qs))
    BY DEF Extends
  <2> QED BY <2>1 DEF Emitted, Arithmetic
<1>3. \A k \in 1..M : k \in 1..N \/ k \in (N + 1)..M
  OBVIOUS
<1>4. \A k \in 1..M : new[k].op = "call" => k \in 1..N /\ new[k] = out[k]
  BY <1>1, <1>2, <1>3
<1> PICK Ts : Ts = Targets(qs)
  OBVIOUS
<1>5. \A k \in 1..M :
        new[k].op \in {"call", "write_ptr"} \/ new[k].result \in Ts \cup ToSet(NewVars) \cup {None}
  BY <1>1, <1>2, <1>3 DEF OutFine
<1> QED BY <1>4, <1>5 DEF OutFine

LEMMA OutLater ==
  ASSUME NEW out, NEW qs, NEW j \in Nat, OutFine(out, qs, j)
  PROVE  OutFine(out, qs, j + 1)
<1>1. \A m \in 1..j : m \in 1..(j + 1)
  OBVIOUS
<1> QED BY <1>1 DEF OutFine

LEMMA OutAppended ==
  ASSUME NEW out \in Seq(Quadr), NEW qs \in Seq(Quadr), CallsOwnResult(qs), NEW j \in Nat, OutFine(out, qs, j),
         j + 1 \in 1..Len(qs), NEW q, q = qs[j + 1], q.op \notin Arithmetic \cup {"copy"}
  PROVE  OutFine(Append(out, q), qs, j + 1)
<1> PICK N \in Nat : N = Len(out)
  OBVIOUS
<1> PICK new : new = Append(out, q)
  OBVIOUS
<1>1. q \in Quadr
  OBVIOUS
<1>2. /\ Len(new) = N + 1 /\ new[N + 1] = q /\ \A k \in 1..N : new[k] = out[k]
      /\ \A k \in 1..(N + 1) : k \in 1..N \/ k = N + 1
  BY <1>1
<1>3. j + 1 \in 1..(j + 1) /\ \A m \in 1..j : m \in 1..(j + 1) /\ m # j + 1 /\ m \in 1..Len(qs)
  OBVIOUS
<1>4. \A k \in 1..N : out[k].op = "call" /\ q.op = "call" => out[k].result # q.result
  <2> SUFFICES ASSUME NEW k \in 1..N, out[k].op = "call", q.op = "call", out[k].result = q.result
               PROVE  FALSE
    OBVIOUS
  <2>1. PICK m \in 1..j : out[k] = qs[m]
    BY DEF OutFine
  <2>2. m \in DOMAIN qs /\ j + 1 \in DOMAIN qs /\ m # j + 1 /\ qs[m].op = "call" /\ qs[m].result = qs[j + 1].result
    BY <1>3, <2>1
  <2>3. qs[j + 1].op = "write_ptr"
    BY <2>2 DEF CallsOwnResult
  <2> QED BY <2>3
<1>5. \A k \in 1..(N + 1) : new[k].op = "call" => \E m \in 1..(j + 1) : new[k] = qs[m]
  BY <1>2, <1>3 DEF OutFine
<1>6. \A k, m \in 1..(N + 1) :
        new[k].op = "call" /\ new[m].op = "call" /\ new[k].result = new[m].result => k = m
  <2>1. \A k, m \in 1..N :
          out[k].op = "call" /\ out[m].op = "call" /\ out[k].result = out[m].result => k = m
    BY DEF OutFine
  <2> QED BY <1>2, <1>4, <2>1
<1>7. q.op \in {"call", "write_ptr"} \/ q.result = None
  BY <1>1 DEF Quadr, Gone
<1> PICK Ts : Ts = Targets(qs)
  OBVIOUS
<1>8. \A k \in 1..(N + 1) :
        new[k].op \in {"call", "write_ptr"} \/ new[k].result \in Ts \cup ToSet(NewVars) \cup {None}
  BY <1>2, <1>7 DEF OutFine
<1> QED BY <1>2, <1>5, <1>6, <1>8 DEF OutFine

LEMMA OutApart ==
  ASSUME NEW out \in Seq(Quadr), NEW qs \in Seq(Quadr), CallsOwnResult(qs), Fresh(qs),
         NEW j \in 0..Len(qs), OutFine(out, qs, j)
  PROVE  CallsOwnResult(out)
<1> PICK n \in Nat, N \in Nat : n = Len(qs) /\ N = Len(out) /\ DOMAIN qs = 1..n /\ DOMAIN out = 1..N
  OBVIOUS
<1> SUFFICES ASSUME NEW k \in 1..N, NEW l \in 1..N, out[k].op = "call",
                    out[k].result = out[l].result, l # k, out[l].op # "write_ptr"
             PROVE  FALSE
  BY DEF CallsOwnResult
<1>1. PICK m \in 1..j : out[k] = qs[m]
  BY DEF OutFine
<1>2. m \in 1..n /\ qs[m] \in Quadr /\ qs[m].op = "call"
  BY <1>1
<1>3. qs[m].result \in Vars /\ qs[m].result \notin ToSet(NewVars)
  <2>1. qs[m].result \in Vars
    BY <1>2, QuadrIs DEF Assigning
  <2>2. OfProgram(qs[m])
    BY <1>2, TargetsAre
  <2> QED BY <2>1, <2>2 DEF OfProgram
<1>4. out[l].op # "call"
  BY DEF OutFine
<1>5. out[l].result \in Targets(qs)
  <2>1. qs[m].result # None
    BY <1>3, QuadruplesAssumption
  <2> QED BY <1>1, <1>3, <1>4, <2>1 DEF OutFine
<1>6. PICK x \in 1..n : qs[x].op \in Arithmetic \cup {"copy"} /\ qs[x].result = out[l].result
  BY <1>5 DEF Targets
<1>7. x # m /\ qs[x].op # "write_ptr"
  BY <1>2, <1>6 DEF Arithmetic
<1> QED BY <1>1, <1>2, <1>6, <1>7 DEF CallsOwnResult

Agrees(g, s) ==
  /\ Meaning(g.out).effects = s.effects
  /\ Represents(g, Meaning(g.out).env, s.env)

GraphInv(qs, r, g, j) ==
  /\ Remains(qs, r, j)
  /\ GraphOK(g) /\ LeavesOwn(g) /\ ListsIn(g, Targets(qs))
  /\ g.used + Len(g.nodes) <= 3 * j
  /\ OutFine(g.out, qs, j)
  /\ ~g.stale => Agrees(g, Execution(qs)[j])

LEMMA InvReady ==
  ASSUME NEW qs \in Seq(Quadr), Fresh(qs), NEW r, NEW g, NEW j, GraphInv(qs, r, g, j)
  PROVE  Ready(g, Targets(qs)) /\ j \in 0..Len(qs) /\ State(Execution(qs)[j])
<1> PICK n \in Nat, M \in Nat : n = Len(qs) /\ M = Len(NewVars)
  BY NewVarsAre
<1>1. j \in 0..n /\ g.used + Len(g.nodes) <= 3 * j /\ 3 * n <= M
  BY DEF GraphInv, Remains, Fresh
<1>2. g.used \in Nat /\ Len(g.nodes) \in Nat
  BY GraphIs DEF GraphInv, GraphOK
<1>3. g.used + Len(g.nodes) <= M
  BY <1>1, <1>2
<1>4. Targets(qs) \subseteq Own
  BY TargetsAre
<1> QED BY <1>1, <1>3, <1>4, ExecutionFormed DEF GraphInv, Ready

LEMMA EnterStep ==
  ASSUME NEW qs \in Seq(Quadr), Fresh(qs), NEW r, NEW g, NEW j, GraphInv(qs, r, g, j), r # <<>>,
         NEW q, q = Head(r), q.op \in Arithmetic \cup {"copy"}, NEW e, Entered(g, q, e)
  PROVE  GraphInv(qs, Tail(r), e, j + 1)
<1> PICK n \in Nat : n = Len(qs)
  OBVIOUS
<1>1. /\ j + 1 \in 1..n /\ (j + 1) - 1 = j /\ q = qs[j + 1] /\ q \in Quadr /\ Remains(qs, Tail(r), j + 1)
  BY RemainsNext DEF GraphInv
<1>2. j \in 0..n /\ j \in Nat /\ State(Execution(qs)[j])
  BY InvReady
<1>3. q.result \in Targets(qs)
  BY <1>1, TargetsAre
<1>4. GraphOK(e) /\ LeavesOwn(e) /\ ListsIn(e, Targets(qs))
  BY <1>3 DEF GraphInv, Entered
<1>5. Quiet(e, g) /\ Len(e.nodes) <= Len(g.nodes) + 3
  BY DEF Entered
<1>6. e.used + Len(e.nodes) <= 3 * (j + 1)
  <2>1. g.used + Len(g.nodes) <= 3 * j /\ e.used = g.used
    BY <1>5 DEF GraphInv, Quiet
  <2>2. g.used \in Nat /\ Len(g.nodes) \in Nat /\ Len(e.nodes) \in Nat
    BY <1>4, GraphIs DEF GraphInv, GraphOK
  <2> QED BY <1>2, <1>5, <2>1, <2>2
<1>7. OutFine(e.out, qs, j + 1)
  <2>1. OutFine(g.out, qs, j) /\ e.out = g.out
    BY <1>5 DEF GraphInv, Quiet
  <2> QED BY <1>2, <2>1, OutLater
<1>8. ASSUME ~e.stale PROVE Agrees(e, Execution(qs)[j + 1])
  <2> PICK s, t : s = Execution(qs)[j] /\ t = Execution(qs)[j + 1]
    OBVIOUS
  <2>1. t = Execute(s, q)
    BY <1>1, ExecutionIs
  <2>2. e.out = g.out /\ ~g.stale
    BY <1>5, <1>8 DEF Quiet
  <2>3. Agrees(g, s)
    BY <2>2 DEF GraphInv
  <2>4. t.effects = s.effects
    <3>1. q.op \notin Visible
      BY DEF Visible, Arithmetic
    <3> QED BY <1>1, <1>2, <2>1, <3>1, ExecuteIs
  <2>5. \A v \in Vars : WellFormed(Meaning(g.out).env[v])
    BY OutFormed DEF GraphInv
  <2>6. Represents(e, Meaning(g.out).env, t.env)
    BY <1>2, <2>1, <2>3, <2>5 DEF Entered, Agrees
  <2> QED BY <2>2, <2>3, <2>4, <2>6 DEF Agrees
<1> QED BY <1>1, <1>4, <1>6, <1>7, <1>8 DEF GraphInv

(* The code for the graph brings the variables up to date. *)
LEMMA CodeGenerated ==
  ASSUME NEW qs \in Seq(Quadr), Fresh(qs), NEW r, NEW g, NEW j, GraphInv(qs, r, g, j),
         NEW e \in FromGraphInOrder(g)
  PROVE  /\ e \in GraphType /\ e.nodes = <<>> /\ e.at = NoNodes
         /\ GraphOK(e) /\ e.out \in Seq(Quadr) /\ State(Meaning(e.out))
         /\ e.used <= 3 * j /\ OutFine(e.out, qs, j)
         /\ ~e.stale => Same(Meaning(e.out), Execution(qs)[j])
<1>1. Ready(g, Targets(qs)) /\ j \in 0..Len(qs)
  BY InvReady
<1>2. Generated(g, e, Targets(qs))
  BY <1>1, FromGraphKeeps
<1>3. e \in GraphType /\ e.nodes = <<>> /\ e.at = NoNodes
  BY <1>2 DEF Generated
<1>4. GraphOK(e)
  BY <1>3, EmptyOK
<1>5. e.out \in Seq(Quadr) /\ State(Meaning(e.out)) /\ g.out \in Seq(Quadr)
  BY <1>4, OutFormed DEF GraphInv
<1>6. OutFine(e.out, qs, j)
  <2>1. Extends(g.out, e.out, Targets(qs)) /\ OutFine(g.out, qs, j)
    BY <1>2 DEF Generated, GraphInv
  <2> QED BY <1>5, <2>1, OutExtended
<1>7. e.used <= 3 * j
  <2>1. g.used \in Nat /\ Len(g.nodes) \in Nat /\ e.used \in Nat
    BY <1>3, GraphIs DEF GraphInv, GraphOK
  <2>2. e.used <= g.used + Len(g.nodes) /\ g.used + Len(g.nodes) <= 3 * j
    BY <1>2 DEF Generated, GraphInv
  <2> QED BY <1>1, <2>1, <2>2
<1>8. ASSUME ~e.stale PROVE Same(Meaning(e.out), Execution(qs)[j])
  <2> PICK b, s, t : b = Meaning(g.out) /\ s = Execution(qs)[j] /\ t = Meaning(e.out)
    OBVIOUS
  <2>1. ~g.stale /\ ListsTrue(g)
    BY <1>2, <1>8 DEF Generated
  <2>2. Agrees(g, s)
    BY <2>1 DEF GraphInv
  <2>3. PICK val : Values(g, val, b.env) /\ Holds(g, val, b.env, s.env)
    BY <2>2 DEF Agrees, Represents
  <2>4. Right(g, val)
    BY <2>1, <2>3 DEF Right
  <2>5. t.effects = b.effects /\ \A v \in Own : t.env[v] = IF g.at[v] = 0 THEN b.env[v] ELSE val[g.at[v]]
    BY <1>2, <2>4 DEF Generated
  <2>6. \A v \in Own : t.env[v] = s.env[v]
    BY <2>3, <2>5 DEF Holds
  <2> QED BY <2>2, <2>5, <2>6 DEF Same, Agrees
<1> QED BY <1>3, <1>4, <1>5, <1>6, <1>7, <1>8

LEMMA KeepStep ==
  ASSUME NEW qs \in Seq(Quadr), Fresh(qs), CallsOwnResult(qs), NEW r, NEW g, NEW j,
         GraphInv(qs, r, g, j), r # <<>>,
         NEW q, q = Head(r), q.op \notin Arithmetic \cup {"copy"},
         NEW e \in FromGraphInOrder(g), NEW h, h = Emit(e, q)
  PROVE  GraphInv(qs, Tail(r), h, j + 1)
<1> PICK n \in Nat : n = Len(qs)
  OBVIOUS
<1>1. /\ j + 1 \in 1..n /\ (j + 1) - 1 = j /\ q = qs[j + 1] /\ q \in Quadr /\ Remains(qs, Tail(r), j + 1)
  BY RemainsNext DEF GraphInv
<1>2. j \in 0..n /\ j \in Nat /\ State(Execution(qs)[j])
  BY InvReady
<1>3. /\ e \in GraphType /\ e.nodes = <<>> /\ e.at = NoNodes
      /\ e.out \in Seq(Quadr) /\ State(Meaning(e.out))
      /\ e.used <= 3 * j /\ OutFine(e.out, qs, j)
      /\ ~e.stale => Same(Meaning(e.out), Execution(qs)[j])
  BY CodeGenerated
<1>4. /\ h \in GraphType /\ h.nodes = <<>> /\ h.at = NoNodes /\ h.used = e.used
      /\ h.stale = e.stale /\ h.out = Append(e.out, q)
  BY <1>1, <1>3, EmitIs
<1>5. /\ GraphOK(h) /\ LeavesOwn(h) /\ Len(h.nodes) = 0 /\ ListsIn(h, Targets(qs))
      /\ \A env, benv : (\A v \in Own : benv[v] = env[v]) => Represents(h, env, benv)
  BY <1>4, EmptyOK
<1>6. h.used + Len(h.nodes) <= 3 * (j + 1)
  <2>1. e.used \in Nat
    BY <1>3, GraphIs
  <2> QED BY <1>2, <1>3, <1>4, <1>5, <2>1
<1>7. OutFine(h.out, qs, j + 1)
  BY <1>1, <1>2, <1>3, <1>4, OutAppended
<1>8. ASSUME ~h.stale PROVE Agrees(h, Execution(qs)[j + 1])
  <2> PICK s, t, s2, t2 : /\ s = Execution(qs)[j] /\ t = Meaning(e.out)
                          /\ s2 = Execution(qs)[j + 1] /\ t2 = Meaning(h.out)
    OBVIOUS
  <2>1. s2 = Execute(s, q) /\ t2 = Execute(t, q)
    <3>1. Len(qs) \in Nat /\ j + 1 \in 1..Len(qs) /\ (j + 1) - 1 = j /\ q = qs[j + 1]
      BY <1>1
    <3>2. Execution(qs)[j + 1] = Execute(Execution(qs)[(j + 1) - 1], qs[j + 1])
      BY ONLY <3>1, ExecutionIs
    <3>3. e.out \in Seq(Quadr) /\ q \in Quadr /\ h.out = Append(e.out, q)
      BY <1>1, <1>3, <1>4
    <3>4. Meaning(h.out) = Execute(Meaning(e.out), q)
      BY ONLY <3>3, MeaningAppend
    <3> QED BY <3>1, <3>2, <3>4
  <2>2. Same(t, s) /\ State(t) /\ State(s)
    BY <1>2, <1>3, <1>4, <1>8
  <2>3. OfProgram(q)
    BY <1>1, TargetsAre
  <2>4. Same(t2, s2)
    BY <1>1, <2>1, <2>2, <2>3, ExecuteSame
  <2>5. Represents(h, t2.env, s2.env)
    BY <1>5, <2>4 DEF Same
  <2> QED BY <2>4, <2>5 DEF Agrees, Same
<1> QED BY <1>1, <1>4, <1>5, <1>6, <1>7, <1>8 DEF GraphInv

LEMMA EffectSame ==
  ASSUME NEW p, NEW q, State(Meaning(p)), State(Meaning(q)), Same(Meaning(p), Meaning(q))
  PROVE  Effect(p) = Effect(q)
<1> PICK s, t : s = Meaning(p) /\ t = Meaning(q)
  OBVIOUS
<1>1. [v \in Own |-> s.env[v]] = [v \in Own |-> t.env[v]]
  BY DEF Same
<1>2. /\ Effect(p) = [s EXCEPT !.env = [v \in Own |-> s.env[v]]]
      /\ Effect(q) = [t EXCEPT !.env = [v \in Own |-> t.env[v]]]
  BY DEF Effect, Own
<1>3. s = [env |-> s.env, effects |-> s.effects] /\ t = [env |-> t.env, effects |-> t.effects]
  BY DEF State
<1>4. s.effects = t.effects
  BY DEF Same
<1> PICK e : e = [v \in Own |-> s.env[v]]
  OBVIOUS
<1>5. Effect(p) = [env |-> e, effects |-> s.effects] /\ Effect(q) = [env |-> e, effects |-> t.effects]
  <2>1. Effect(p) = [s EXCEPT !.env = e] /\ Effect(q) = [t EXCEPT !.env = e]
    BY <1>1, <1>2
  <2> QED BY ONLY <1>3, <2>1
<1> QED BY <1>4, <1>5

LEMMA FinishStep ==
  ASSUME NEW qs \in Seq(Quadr), Fresh(qs), CallsOwnResult(qs), NEW g, NEW j,
         GraphInv(qs, <<>>, g, j), NEW e \in FromGraphInOrder(g)
  PROVE  /\ GraphOK(e) /\ e.out \in Seq(Quadr) /\ CallsOwnResult(e.out)
         /\ ~e.stale => Effect(e.out) = Effect(qs)
<1> PICK n \in Nat : n = Len(qs)
  OBVIOUS
<1>1. /\ GraphOK(e) /\ e.out \in Seq(Quadr) /\ State(Meaning(e.out)) /\ OutFine(e.out, qs, j)
      /\ ~e.stale => Same(Meaning(e.out), Execution(qs)[j])
  BY CodeGenerated
<1>2. j \in 0..n /\ State(Execution(qs)[j])
  BY InvReady
<1>3. j = n
  <2>1. Len(<<>>) = n - j /\ Len(<<>>) = 0
    BY DEF GraphInv, Remains
  <2> QED BY <1>2, <2>1
<1>4. Execution(qs)[j] = Meaning(qs)
  BY <1>3 DEF Meaning
<1> QED BY <1>1, <1>2, <1>4, OutApart, EffectSame

-----------------------------------------------------------------------------
(* Every state of the optimiser.  With the graph, the variables of the     *)
(* program have the values they have after what is entered of the block:   *)
(* in the graph those of a node, the others already in the code so far.    *)
LocalInv ==
  /\ i \in Int /\ GraphOK(graph)
  /\ pc = "graph" => block \in Inputs /\ \E j : GraphInv(block, rest, graph, j)
  /\ pc # "graph" => CopyInv /\ (~graph.stale => Effect(qtab) = Effect(block))

LEMMA InputsAre ==
  ASSUME NEW qs \in Inputs
  PROVE  qs \in Seq(Quadr) /\ CallsOwnResult(qs) /\ Fresh(qs)
BY LocalOptAssumption

LEMMA EmptyGraphIs ==
  /\ EmptyGraph \in GraphType /\ EmptyGraph.nodes = <<>> /\ EmptyGraph.at = NoNodes
  /\ EmptyGraph.out = <<>> /\ EmptyGraph.used = 0 /\ GraphOK(EmptyGraph)
<1>1. /\ EmptyGraph.nodes = <<>> /\ EmptyGraph.at = NoNodes /\ EmptyGraph.out = <<>>
      /\ EmptyGraph.used = 0
  BY DEF EmptyGraph
<1>2. NoNodes \in [Vars -> Nat] /\ <<>> \in Seq(NodeType) /\ <<>> \in Seq(Quadr)
  BY DEF NoNodes, Null
<1>3. EmptyGraph \in GraphType
  BY <1>2, GraphFrom DEF EmptyGraph
<1> QED BY <1>1, <1>3, EmptyOK

LEMMA StartInv ==
  ASSUME NEW qs \in Seq(Quadr)
  PROVE  GraphInv(qs, qs, EmptyGraph, 0)
<1> PICK g : g = EmptyGraph
  OBVIOUS
<1> PICK n \in Nat : n = Len(qs)
  OBVIOUS
<1>1. g \in GraphType /\ g.nodes = <<>> /\ g.at = NoNodes /\ g.out = <<>> /\ g.used = 0
  BY EmptyGraphIs
<1>2. /\ GraphOK(g) /\ LeavesOwn(g) /\ Len(g.nodes) = 0 /\ ListsIn(g, Targets(qs))
      /\ \A env, benv : (\A v \in Own : benv[v] = env[v]) => Represents(g, env, benv)
  BY <1>1, EmptyOK
<1>3. Remains(qs, qs, 0)
  BY DEF Remains
<1>4. g.used + Len(g.nodes) <= 3 * 0
  BY <1>1, <1>2
<1>5. OutFine(g.out, qs, 0)
  <2>1. Len(g.out) = 0 /\ 1..0 = {}
    BY <1>1
  <2> QED BY <2>1 DEF OutFine
<1>6. Agrees(g, Execution(qs)[0])
  <2>1. Meaning(g.out) = Execution(qs)[0]
    <3>1. Len(g.out) = 0 /\ Len(g.out) \in Nat /\ Len(qs) \in Nat
      BY <1>1
    <3>2. Meaning(g.out) = Execution(g.out)[0]
      BY <3>1 DEF Meaning
    <3>3. Execution(g.out)[0] = Execution(qs)[0]
      BY <3>1, ExecutionIs
    <3> QED BY <3>2, <3>3
  <2> QED BY <1>2, <2>1 DEF Agrees
<1> QED BY <1>2, <1>3, <1>4, <1>5, <1>6 DEF GraphInv

LEMMA LocalInvInitially == Init => LocalInv
<1> SUFFICES ASSUME Init PROVE LocalInv
  OBVIOUS
<1>1. graph = EmptyGraph /\ i \in Int /\ GraphOK(graph)
  BY EmptyGraphIs DEF Init
<1>2. CASE block \in Inputs /\ rest = block /\ qtab = <<>> /\ pc = "graph"
  <2>1. GraphInv(block, rest, graph, 0)
    BY <1>1, <1>2, InputsAre, StartInv
  <2> QED BY <1>1, <1>2, <2>1 DEF LocalInv
<1>3. CASE block \in Copied /\ rest = <<>> /\ qtab = block /\ pc = "copies"
  <2>1. qtab \in Seq(Quadr) /\ CallsOwnResult(qtab)
    BY <1>3, LocalOptAssumption
  <2>2. CopyInv
    BY <1>1, <1>3, <2>1 DEF CopyInv, CallsApart
  <2> QED BY <1>1, <1>3, <2>2 DEF LocalInv
<1> QED BY <1>2, <1>3 DEF Init

LEMMA EnteredKeeps ==
  ASSUME LocalInv, EnterOp \/ EnterCopy, pc = "graph"
  PROVE  GraphOK(graph') /\ \E j : GraphInv(block, rest', graph', j)
<1> PICK q, e : q = Head(rest) /\ e = graph'
  OBVIOUS
<1>1. PICK j : GraphInv(block, rest, graph, j)
  BY DEF LocalInv
<1>2. block \in Seq(Quadr) /\ Fresh(block) /\ GraphOK(graph)
  BY InputsAre DEF LocalInv
<1>3. rest # <<>> /\ rest' = Tail(rest) /\ q.op \in Arithmetic \cup {"copy"}
  BY DEF EnterOp, EnterCopy
<1>4. q \in Quadr /\ OfProgram(q)
  <2>1. j + 1 \in 1..Len(block) /\ q = block[j + 1] /\ q \in Quadr
    BY <1>1, <1>2, <1>3, RemainsNext DEF GraphInv
  <2> QED BY <1>2, <2>1, TargetsAre
<1>4a. Len(graph.nodes) + 3 <= IdRange
  <2> PICK n \in Nat, K \in Nat, M \in Nat : n = Len(block) /\ K = IdRange /\ M = Len(NewVars)
    BY <1>2, ExprGraphAssumption
  <2>1. j \in 0..n /\ j + 1 \in 1..n /\ graph.used + Len(graph.nodes) <= 3 * j /\ 3 * n <= M
    BY <1>1, <1>2, <1>3, InvReady, RemainsNext DEF GraphInv, Fresh
  <2>2. graph.used \in Nat /\ Len(graph.nodes) \in Nat
    BY <1>2, GraphIs DEF GraphOK
  <2>3. M <= K
    BY ExprGraphAssumption
  <2>4. 3 * (j + 1) <= K /\ 3 * (j + 1) = 3 * j + 3
    BY <2>1, <2>3
  <2> QED BY <2>1, <2>2, <2>4
<1>5. Entered(graph, q, e)
  <2>1. CASE EnterOp
    <3>1. q.op \in Arithmetic
      BY <2>1 DEF EnterOp
    <3> PICK got : got = GetNode(GetNode(graph, q.arg1), q.arg2)
      OBVIOUS
    <3> PICK l, r : l = Node(got, q.arg1) /\ r = Node(got, q.arg2)
      OBVIOUS
    <3> PICK h : h = NewRoot(got, q.op, l, r)
      OBVIOUS
    <3> PICK n : n = CHOOSE m \in SameNodes(h, q.op, l, r) : TRUE
      OBVIOUS
    <3>2. e = AddVar(RemoveVar(h, graph.at[q.result], q.result), n, q.result)
      BY <2>1 DEF EnterOp
    <3>3. /\ got = GetNode(GetNode(graph, q.arg1), q.arg2)
          /\ l = Node(got, q.arg1) /\ r = Node(got, q.arg2) /\ h = NewRoot(got, q.op, l, r)
          /\ n = FirstSame(h, q.op, l, r)
      BY DEF FirstSame
    <3> QED BY ONLY <1>2, <1>4, <1>4a, <3>1, <3>2, <3>3, EnterOpKeeps
  <2>2. CASE EnterCopy
    <3>1. q.op = "copy"
      BY <2>2 DEF EnterCopy
    <3> PICK f : f = GetNode(graph, q.arg1)
      OBVIOUS
    <3>2. e = AddVar(RemoveVar(f, f.at[q.result], q.result), Node(f, q.arg1), q.result)
      BY <2>2 DEF EnterCopy
    <3> QED BY <1>2, <1>4, <3>1, <3>2, EnterCopyKeeps
  <2> QED BY <2>1, <2>2
<1>6. GraphInv(block, rest', e, j + 1)
  BY <1>1, <1>2, <1>3, <1>5, EnterStep
<1> QED BY <1>6 DEF GraphInv

LEMMA KeepKeeps ==
  ASSUME LocalInv, Keep, pc = "graph"
  PROVE  GraphOK(graph') /\ \E j : GraphInv(block, rest', graph', j)
<1>1. PICK j : GraphInv(block, rest, graph, j)
  BY DEF LocalInv
<1>2. block \in Seq(Quadr) /\ Fresh(block) /\ CallsOwnResult(block)
  BY InputsAre DEF LocalInv
<1> PICK q : q = Head(rest)
  OBVIOUS
<1>3. PICK e \in FromGraphInOrder(graph) : graph' = Emit(e, q)
  BY DEF Keep
<1>4. rest # <<>> /\ rest' = Tail(rest) /\ q.op \notin Arithmetic \cup {"copy"}
  BY DEF Keep
<1>5. GraphInv(block, rest', graph', j + 1)
  BY <1>1, <1>2, <1>3, <1>4, KeepStep
<1> QED BY <1>5 DEF GraphInv

LEMMA EnterKeeps == LocalInv /\ Enter => LocalInv'
<1> SUFFICES ASSUME LocalInv, Enter PROVE LocalInv'
  OBVIOUS
<1>1. pc = "graph" /\ block' = block /\ pc' = pc /\ i' = i
  BY DEF Enter, copyVars
<1>2. GraphOK(graph') /\ \E j : GraphInv(block, rest', graph', j)
  BY <1>1, EnteredKeeps, KeepKeeps DEF Enter
<1>3. (GraphOK(graph))' /\ (\E j : GraphInv(block, rest, graph, j))'
  BY <1>1, <1>2 DEF GraphOK, GraphInv
<1> QED BY <1>1, <1>3 DEF LocalInv

LEMMA StartCopiesKeeps == LocalInv /\ StartCopies => LocalInv'
<1> SUFFICES ASSUME LocalInv, StartCopies PROVE LocalInv'
  OBVIOUS
<1>1. /\ pc = "graph" /\ rest = <<>> /\ graph' \in FromGraphInOrder(graph)
      /\ qtab' = graph'.out /\ pc' = "copies" /\ block' = block /\ i' = i /\ i \in Int
  BY DEF StartCopies, Finish, LocalInv
<1>2. PICK j : GraphInv(block, rest, graph, j)
  BY <1>1 DEF LocalInv
<1>3. block \in Seq(Quadr) /\ Fresh(block) /\ CallsOwnResult(block)
  BY <1>1, InputsAre DEF LocalInv
<1> PICK e : e = graph'
  OBVIOUS
<1>4. /\ GraphOK(e) /\ e.out \in Seq(Quadr) /\ CallsOwnResult(e.out)
      /\ ~e.stale => Effect(e.out) = Effect(block)
  BY <1>1, <1>2, <1>3, FinishStep
<1>5. CopyInv'
  BY <1>1, <1>4 DEF CopyInv, CallsApart, Size
<1>6. (GraphOK(graph))' /\ (~graph.stale => Effect(qtab) = Effect(block))'
  BY <1>1, <1>4 DEF GraphOK, Effect
<1> QED BY <1>1, <1>5, <1>6 DEF LocalInv

LEMMA OptimizeCopiesKeeps ==
  LocalInv /\ OptimizeCopies => LocalInv' /\ Meaning(qtab') = Meaning(qtab)
<1> SUFFICES ASSUME LocalInv, OptimizeCopies PROVE LocalInv' /\ Meaning(qtab') = Meaning(qtab)
  OBVIOUS
<1>1. CopyNext /\ block' = block /\ graph' = graph
  BY DEF OptimizeCopies, graphVars
<1>2. pc # "graph"
  BY <1>1 DEF CopyNext, RemoveCopies, RemoveDead, RemoveDeadAgain, Back, BackDone, Forward, ForwardDone
<1>3. CopyInv /\ (~graph.stale => Effect(qtab) = Effect(block)) /\ GraphOK(graph)
  BY <1>2 DEF LocalInv
<1>4. CopyInv' /\ Meaning(qtab') = Meaning(qtab)
  BY <1>1, <1>3, CopyInvKept
<1>5. pc' # "graph" /\ i' \in Int
  BY <1>4 DEF CopyInv
<1>6. Effect(qtab') = Effect(qtab)
  BY <1>4 DEF Effect
<1>7. (GraphOK(graph))' /\ (~graph.stale => Effect(qtab) = Effect(block))'
  BY <1>1, <1>3, <1>6 DEF GraphOK, Effect
<1> QED BY <1>4, <1>5, <1>7 DEF LocalInv

LEMMA LocalInvKept == LocalInv /\ [Next]_vars => LocalInv' /\ [KeepsMeaning]_copyVars
<1> SUFFICES ASSUME LocalInv, [Next]_vars PROVE LocalInv' /\ [KeepsMeaning]_copyVars
  OBVIOUS
<1>1. CASE Enter
  <2>1. UNCHANGED copyVars
    BY <1>1 DEF Enter
  <2> QED BY <1>1, <2>1, EnterKeeps
<1>2. CASE StartCopies
  <2>1. KeepsMeaning
    BY <1>2 DEF StartCopies, KeepsMeaning
  <2> QED BY <1>2, <2>1, StartCopiesKeeps
<1>3. CASE OptimizeCopies
  BY <1>3, OptimizeCopiesKeeps DEF KeepsMeaning
<1>4. CASE UNCHANGED vars
  <2>1. UNCHANGED copyVars /\ UNCHANGED <<block, rest, graph>>
    BY <1>4 DEF vars, copyVars
  <2>3. CopyInv' <=> CopyInv
    BY <2>1 DEF CopyInv, CallsApart, Size, copyVars
  <2>4. (~graph.stale => Effect(qtab) = Effect(block))' <=> (~graph.stale => Effect(qtab) = Effect(block))
    BY <2>1 DEF copyVars
  <2>5. (GraphOK(graph))'
    BY <2>1 DEF LocalInv, GraphOK
  <2>6. pc' = pc /\ i' = i /\ block' = block
    BY <2>1 DEF copyVars
  <2>7. (\E j : GraphInv(block, rest, graph, j))' <=> (\E j : GraphInv(block, rest, graph, j))
    BY <2>1 DEF GraphInv
  <2> QED BY <2>1, <2>3, <2>4, <2>5, <2>6, <2>7 DEF LocalInv
<1> QED BY <1>1, <1>2, <1>3, <1>4 DEF Next, Finished

LEMMA LocalInvAlways == Spec => []LocalInv
BY LocalInvInitially, LocalInvKept, PTL DEF Spec

(* new_graph_leaf and new_graph_root look for an equal node first: whatever*)
(* the block, and in whatever order its variables are assigned, no two     *)
(* nodes of the graph stand for the same expression.                       *)
THEOREM EachExpressionOnce == Spec => []DistinctNodes
<1>1. LocalInv => DistinctNodes
  BY ExpressionsDistinct DEF LocalInv, DistinctNodes
<1> QED BY <1>1, LocalInvAlways, PTL

(* perform_local_optimizations as a whole: entering a block into the graph,*)
(* generating code from it, however often that happens, and every step of  *)
(* the copy passes leave alone what the block computes.                    *)
THEOREM OptimizedMeansTheSame == Spec => []SameMeaning
<1>1. LocalInv => SameMeaning
  BY DEF LocalInv, SameMeaning
<1> QED BY <1>1, LocalInvAlways, PTL

(* The code generated from the graph still gives each call a result of its *)
(* own, so that remove_dead_assignments removes no call there, either.     *)
THEOREM GeneratedCallsApart == Spec => []CallsApart
<1>1. LocalInv => CallsApart
  BY DEF LocalInv, CopyInv, CallsApart
<1> QED BY <1>1, LocalInvAlways, PTL

(* Every step of the copy passes leaves that code's meaning alone.         *)
THEOREM GeneratedCodeKeepsMeaning == Spec => CopiesKeepMeaning
BY LocalInvAlways, LocalInvKept, PTL DEF Spec, CopiesKeepMeaning
=============================================================================
