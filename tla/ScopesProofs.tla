---------------------------- MODULE ScopesProofs ----------------------------
(***************************************************************************)
(* Proofs about the memory pool, and about the declarations that live in   *)
(* it, for pools and cells of every size.  Why palloc never finds an empty *)
(* list: the links between the nodes that have a free cell stay among      *)
(* them, no two lead to the same node, and none leads back to the head.    *)
(***************************************************************************)
EXTENDS Scopes, Induction, FiniteSetTheorems, FunctionTheorems, TLAPS

LinksSound ==
  /\ first_free \in WithCell
  /\ \A k \in WithCell :
       /\ next_free[k] \in WithCell \cup {0}
       /\ next_free[k] # first_free
  /\ \A j, k \in WithCell : next_free[j] = next_free[k] /\ next_free[j] # 0 => j = k

PoolInv == PoolTypeOK /\ CellsPartitioned /\ LinksSound

LEMMA NewNodeHasCells ==
  ASSUME PoolTypeOK
  PROVE  NewNodeElems \in Nat \ {0}
<1>1. Len(node_elems) \in Nodes
  BY DEF PoolTypeOK, Nodes
<1>2. node_elems[Len(node_elems)] \in Nat \ {0}
  BY <1>1 DEF PoolTypeOK, Nodes
<1> QED
  BY <1>2, PoolAssumption DEF NewNodeElems

LEMMA PoolInitInv == PoolInit => PoolInv
<1> SUFFICES ASSUME PoolInit PROVE PoolInv
  OBVIOUS
<1>1. /\ Nodes = {1} /\ node_elems[1] = PoolElems /\ node_free[1] = 1..PoolElems
      /\ next_free[1] = 0 /\ first_free = 1 /\ used = {}
      /\ DOMAIN node_free = {1} /\ DOMAIN next_free = {1}
  BY DEF PoolInit, Nodes
<1>2. PoolTypeOK
  <2>1. /\ node_elems \in Seq(Nat \ {0})
        /\ node_free \in Seq(SUBSET Nat)
        /\ next_free \in Seq(Nat)
    BY PoolAssumption DEF PoolInit
  <2> QED
    BY <1>1, <2>1 DEF PoolTypeOK
<1>3. CellsPartitioned
  BY <1>1 DEF CellsPartitioned, Cells
<1>4. LinksSound
  BY <1>1, PoolAssumption DEF LinksSound, WithCell, Full
<1> QED
  BY <1>2, <1>3, <1>4 DEF PoolInv

(* A cell handed out while its node has others. *)
LEMMA PallocInv ==
  ASSUME PoolInv, NEW x \in Nat \X Nat, Palloc(x)
  PROVE  PoolInv'
<1> DEFINE n == Len(node_elems)
           rest == [node_free EXCEPT ![first_free] = @ \ {x[2]}]
<1> USE DEF PoolInv
<1>a. /\ n \in Nat \ {0} /\ Nodes = 1..n /\ DOMAIN node_free = 1..n /\ DOMAIN next_free = 1..n
      /\ first_free \in 1..n
      /\ x = <<first_free, x[2]>> /\ x[2] \in node_free[first_free] /\ x[2] \in Nat
  BY DEF PoolTypeOK, Nodes, Palloc
<1>b. /\ Len(node_free) = n /\ Len(next_free) = n
      /\ rest \in Seq(SUBSET Nat) /\ Len(rest) = n /\ DOMAIN rest = 1..n
      /\ rest[first_free] = node_free[first_free] \ {x[2]}
      /\ \A k \in 1..n : k # first_free => rest[k] = node_free[k]
  BY <1>a DEF PoolTypeOK
<1>c. x[2] \in Cells(first_free) /\ used' = used \cup {x}
  BY <1>a DEF CellsPartitioned, Palloc
<1>1. CASE /\ rest[first_free] # {}
           /\ node_free' = rest
           /\ UNCHANGED <<node_elems, next_free, first_free>>
  <2>1. PoolTypeOK'
    BY <1>1, <1>a, <1>b, <1>c DEF PoolTypeOK, Nodes, Cells
  <2>2. CellsPartitioned'
    BY <1>1, <1>a, <1>b, <1>c DEF CellsPartitioned, Nodes, Cells
  <2>3. WithCell' = WithCell
    BY <1>1, <1>a, <1>b DEF WithCell, Nodes, Full
  <2>4. LinksSound'
    BY <2>3, <1>1 DEF LinksSound
  <2> QED
    BY <2>1, <2>2, <2>4
<1>2. CASE /\ rest[first_free] = {} /\ next_free[first_free] # 0
           /\ first_free' = next_free[first_free]
           /\ node_free' = rest
           /\ UNCHANGED <<node_elems, next_free>>
  <2>0. next_free[first_free] \in 1..n
    BY <1>2, <1>a DEF LinksSound, WithCell
  <2>1. PoolTypeOK'
    BY <1>2, <1>a, <1>b, <1>c, <2>0 DEF PoolTypeOK, Nodes, Cells
  <2>2. CellsPartitioned'
    BY <1>2, <1>a, <1>b, <1>c DEF CellsPartitioned, Nodes, Cells
  <2>3. WithCell' = WithCell \ {first_free}
    BY <1>2, <1>a, <1>b DEF WithCell, Nodes, Full
  <2>4. LinksSound'
    BY <2>3, <1>2 DEF LinksSound
  <2> QED
    BY <2>1, <2>2, <2>4
<1>3. CASE /\ rest[first_free] = {} /\ next_free[first_free] = 0
           /\ node_elems' = Append(node_elems, NewNodeElems)
           /\ node_free' = Append(rest, 1..NewNodeElems)
           /\ next_free' = Append(next_free, 0)
           /\ first_free' = n + 1
  <2> DEFINE N == NewNodeElems
  <2>0. N \in Nat \ {0}
    BY NewNodeHasCells
  <2> HIDE DEF N
  <2>1. /\ node_elems' = Append(node_elems, N) /\ node_free' = Append(rest, 1..N)
        /\ Nodes' = 1..(n + 1)
        /\ DOMAIN node_free' = 1..(n + 1) /\ DOMAIN next_free' = 1..(n + 1)
        /\ node_free'[n + 1] = 1..N /\ next_free'[n + 1] = 0 /\ node_elems'[n + 1] = N
        /\ \A k \in 1..n : /\ node_free'[k] = rest[k]
                           /\ next_free'[k] = next_free[k]
                           /\ node_elems'[k] = node_elems[k]
    BY <1>3, <1>a, <1>b DEF N, PoolTypeOK, Nodes
  <2>2. PoolTypeOK'
    <3>1. /\ node_elems' \in Seq(Nat \ {0})
          /\ node_free' \in Seq(SUBSET Nat)
          /\ next_free' \in Seq(Nat)
      BY <1>3, <1>a, <1>b, <2>0, <2>1 DEF PoolTypeOK
    <3>2. \A y \in used' : y[1] \in Nodes' /\ y[2] \in Cells(y[1])'
      BY <1>a, <1>c, <2>1 DEF PoolTypeOK, Cells
    <3>3. used' \subseteq Nat \X Nat
      BY <1>c DEF PoolTypeOK
    <3> QED
      BY <3>1, <3>2, <3>3, <1>3, <1>a, <2>1 DEF PoolTypeOK
  <2>3. CellsPartitioned'
    <3> SUFFICES ASSUME NEW k \in 1..(n + 1)
                 PROVE  node_free'[k] = {c \in Cells(k)' : <<k, c>> \notin used'}
      BY <2>1 DEF CellsPartitioned
    <3>1. CASE k = n + 1
      <4>1. \A c : <<n + 1, c>> \notin used'
        BY <1>a, <1>c DEF PoolTypeOK
      <4> QED
        BY <3>1, <4>1, <2>1 DEF Cells
    <3>2. CASE k \in 1..n
      BY <3>2, <1>a, <1>b, <1>c, <2>1 DEF CellsPartitioned, Cells
    <3> QED
      BY <3>1, <3>2, <1>a
  <2>4. WithCell' = (WithCell \ {first_free}) \cup {n + 1}
    <3>0. 1 \in 1..N
      BY <2>0
    <3>1. node_free'[n + 1] # {} /\ node_free'[first_free] = {} /\ n + 1 \notin 1..n
      <4>1. node_free'[n + 1] # {}
        BY <3>0, <2>1
      <4>2. node_free'[first_free] = rest[first_free] /\ rest[first_free] = {}
        BY <1>3, <1>a, <2>1
      <4>3. n + 1 \notin 1..n
        BY <1>a
      <4> QED
        BY <4>1, <4>2, <4>3
    <3>2. \A k \in 1..n : k # first_free => node_free'[k] = node_free[k]
      BY <1>b, <2>1
    <3> QED
      BY <3>1, <3>2, <1>a, <2>1 DEF WithCell, Full
  <2>5. LinksSound'
    <3>1. first_free \in WithCell /\ WithCell \subseteq 1..n
      BY <1>a DEF LinksSound, WithCell
    <3>2. \A k \in WithCell \ {first_free} : next_free'[k] = next_free[k] /\ next_free[k] \in WithCell \cup {0}
      BY <2>1, <3>1 DEF LinksSound
    <3> HIDE DEF WithCell
    <3> QED
      BY <2>4, <2>1, <1>3, <1>a, <3>1, <3>2 DEF LinksSound
  <2> QED
    BY <2>2, <2>3, <2>5
<1> QED
  BY <1>1, <1>2, <1>3 DEF Palloc

LEMMA PfreeInv ==
  ASSUME PoolInv, NEW x, Pfree(x)
  PROVE  PoolInv'
<1> DEFINE n == Len(node_elems)
           k == x[1]
<1> USE DEF PoolInv
<1>a. /\ n \in Nat \ {0} /\ Nodes = 1..n /\ DOMAIN node_free = 1..n /\ DOMAIN next_free = 1..n
      /\ Len(node_free) = n /\ Len(next_free) = n
      /\ x \in used /\ x = <<k, x[2]>> /\ x[2] \in Nat
      /\ k \in 1..n /\ x[2] \in Cells(k) /\ x[2] \notin node_free[k]
  <2>1. /\ n \in Nat \ {0} /\ Nodes = 1..n /\ DOMAIN node_free = 1..n /\ DOMAIN next_free = 1..n
        /\ Len(node_free) = n /\ Len(next_free) = n
    BY DEF PoolTypeOK, Nodes
  <2>2. x \in used
    BY DEF Pfree
  <2>3. x = <<k, x[2]>> /\ x[2] \in Nat /\ k \in 1..n /\ x[2] \in Cells(k)
    BY <2>1, <2>2 DEF PoolTypeOK
  <2>4. x[2] \notin node_free[k]
    BY <2>1, <2>2, <2>3 DEF CellsPartitioned
  <2> QED
    BY <2>1, <2>2, <2>3, <2>4
<1>b. /\ UNCHANGED node_elems /\ used' = used \ {x}
      /\ node_free' \in Seq(SUBSET Nat) /\ DOMAIN node_free' = 1..n
      /\ node_free'[k] = node_free[k] \cup {x[2]}
      /\ \A j \in 1..n : j # k => node_free'[j] = node_free[j]
      /\ Nodes' = Nodes
  BY <1>a DEF PoolTypeOK, Pfree, Nodes
<1>1. CellsPartitioned'
  BY <1>a, <1>b DEF CellsPartitioned, Cells
<1>2. WithCell' = WithCell \cup {k}
  BY <1>a, <1>b DEF WithCell, Full
<1>3. PoolTypeOK' /\ LinksSound'
  <2>1. CASE Full(k)
    <3>1. /\ next_free' = [next_free EXCEPT ![k] = first_free]
          /\ first_free' = k /\ k \notin WithCell /\ first_free \in WithCell
      BY <2>1, <1>a DEF Pfree, WithCell, LinksSound
    <3>2. PoolTypeOK'
      BY <3>1, <1>a, <1>b DEF PoolTypeOK, Cells, WithCell
    <3>3. LinksSound'
      <4> WithCell \subseteq 1..n /\ 0 \notin WithCell
        BY <1>a DEF WithCell
      <4>1. next_free'[k] = first_free /\ \A j \in WithCell : next_free'[j] = next_free[j]
        BY <3>1, <1>a
      <4> QED
        <5> DEFINE W == WithCell
        <5> HIDE DEF W
        <5>1. /\ W' = W \cup {k} /\ k \notin W /\ first_free \in W /\ first_free' = k
              /\ next_free'[k] = first_free
              /\ \A j \in W : /\ next_free'[j] = next_free[j]
                             /\ next_free[j] \in W \cup {0}
                             /\ next_free[j] # first_free
              /\ \A i, j \in W : next_free[i] = next_free[j] /\ next_free[i] # 0 => i = j
              /\ k # 0
          BY <4>1, <3>1, <1>2, <1>a DEF LinksSound, W
        <5>2. /\ first_free' \in W'
              /\ \A j \in W' : next_free'[j] \in W' \cup {0} /\ next_free'[j] # first_free'
          BY <5>1
        <5>3. \A i, j \in W' : next_free'[i] = next_free'[j] /\ next_free'[i] # 0 => i = j
          BY <5>1
        <5> QED
          BY <5>2, <5>3 DEF LinksSound, W
    <3> QED
      BY <3>2, <3>3
  <2>2. CASE ~Full(k)
    <3>1. UNCHANGED <<next_free, first_free>> /\ WithCell' = WithCell
      BY <2>2, <1>2, <1>a DEF Pfree, WithCell
    <3>2. PoolTypeOK'
      BY <3>1, <1>a, <1>b DEF PoolTypeOK, Cells
    <3>3. LinksSound'
      BY <3>1 DEF LinksSound
    <3> QED
      BY <3>2, <3>3
  <2> QED
    BY <2>1, <2>2
<1> QED
  BY <1>1, <1>3
-----------------------------------------------------------------------------
(***************************************************************************)
(* The steps of Scopes leave the pool alone, hand out one cell or take one *)
(* back.                                                                   *)
(***************************************************************************)
PoolStep == (\E x \in Nat \X Nat : Palloc(x)) \/ (\E x : Pfree(x)) \/ UNCHANGED poolVars

LEMMA DeclareStep ==
  ASSUME PoolTypeOK, NEW type, NEW init, Declare(type, init)
  PROVE  PoolStep
<1>1. CASE DeclaredHere(ident.sym)
  BY <1>1 DEF Declare, PoolStep
<1>2. CASE ~DeclaredHere(ident.sym)
  <2>1. PICK x \in {first_free} \X node_free[first_free] : Palloc(x)
    BY <1>2 DEF Declare
  <2>2. x \in Nat \X Nat
    BY <2>1 DEF PoolTypeOK, Nodes
  <2> QED
    BY <2>1, <2>2 DEF PoolStep
<1> QED
  BY <1>1, <1>2

LEMMA NextIsPoolStep ==
  ASSUME PoolTypeOK, [Next]_vars
  PROVE  PoolStep
<1>1. CASE \E s \in Strings : AddSym(s)
  BY <1>1 DEF AddSym, PoolStep
<1>2. CASE DeclareFunc \/ DeclareArg \/ DeclareVar
  BY <1>2, DeclareStep DEF DeclareFunc, DeclareArg, DeclareVar
<1>3. CASE CheckProgram \/ Use \/ Assign
  BY <1>3 DEF CheckProgram, Use, Assign, PoolStep
<1>4. CASE PushScope \/ PopScope \/ PopDone
  BY <1>4 DEF PushScope, PopScope, PopDone, PoolStep
<1>5. CASE PopDecl
  BY <1>5 DEF PopDecl, PoolStep
<1>6. CASE UNCHANGED vars
  BY <1>6 DEF vars, PoolStep
<1> QED
  BY <1>1, <1>2, <1>3, <1>4, <1>5, <1>6 DEF Next

LEMMA PoolStepInv ==
  ASSUME PoolInv, PoolStep
  PROVE  PoolInv'
<1>1. CASE UNCHANGED poolVars
  BY <1>1 DEF poolVars, PoolInv, PoolTypeOK, CellsPartitioned, LinksSound, WithCell, Full, Cells, Nodes
<1> QED
  BY <1>1, PallocInv, PfreeInv DEF PoolStep

LEMMA PoolInvariant == Spec => []PoolInv
<1>1. Init => PoolInv
  BY PoolInitInv DEF Init
<1>2. PoolInv /\ [Next]_vars => PoolInv'
  BY NextIsPoolStep, PoolStepInv DEF PoolInv
<1> QED
  BY <1>1, <1>2, PTL DEF Spec

(* Through any sequence of declarations and scopes, the tables of the pool *)
(* of declarations stay well formed and its head always is a node.         *)
THEOREM PoolTypeCorrect == Spec => []PoolTypeOK
  BY PoolInvariant, PTL DEF PoolInv

(* No cell of a pool of any size is handed out twice or lost.              *)
THEOREM NoCellLost == Spec => []CellsPartitioned
  BY PoolInvariant, PTL DEF PoolInv

(* palloc takes the first cell of the head's list without asking whether   *)
(* there is one: there always is.                                          *)
THEOREM PallocFindsCell == Spec => [](node_free[first_free] # {})
<1>1. PoolInv => node_free[first_free] # {}
  BY DEF PoolInv, LinksSound, WithCell, Full
<1> QED
  BY <1>1, PoolInvariant, PTL
-----------------------------------------------------------------------------
(***************************************************************************)
(* The list of nodes with a free cell, written out: q runs through all of  *)
(* them once, from the head along next_free to NULL.                       *)
(***************************************************************************)
LinkedAs(m, q) ==
  /\ q \in [1..m -> WithCell]
  /\ \A i, j \in 1..m : q[i] = q[j] => i = j
  /\ \A k \in WithCell : \E i \in 1..m : q[i] = k
  /\ q[1] = first_free /\ next_free[q[m]] = 0
  /\ \A i \in 1..(m - 1) : next_free[q[i]] = q[i + 1]

Linked == \E m \in Nat \ {0} : \E q : LinkedAs(m, q)

LEMMA InitLinked == PoolInit => Linked
<1> SUFFICES ASSUME PoolInit PROVE Linked
  OBVIOUS
<1>1. WithCell = {1} /\ first_free = 1 /\ next_free[1] = 0
  BY PoolAssumption DEF PoolInit, WithCell, Nodes, Full
<1> DEFINE q == [i \in 1..1 |-> 1]
<1>2. LinkedAs(1, q)
  BY <1>1 DEF LinkedAs
<1> HIDE DEF q
<1> QED BY <1>2 DEF Linked

LEMMA SameLinked ==
  ASSUME Linked, WithCell' = WithCell, first_free' = first_free,
         \A k \in WithCell : next_free'[k] = next_free[k]
  PROVE  Linked'
<1>1. PICK m \in Nat \ {0} : \E q : LinkedAs(m, q)
  BY DEF Linked
<1>2. PICK q : LinkedAs(m, q)
  BY <1>1
<1>3. m \in 1..m /\ \A i \in 1..(m - 1) : i \in 1..m
  OBVIOUS
<1>4. LinkedAs(m, q)'
  BY <1>2, <1>3 DEF LinkedAs
<1> QED BY <1>4 DEF Linked

LEMMA PallocLinked ==
  ASSUME PoolInv, Linked, NEW x \in Nat \X Nat, Palloc(x)
  PROVE  Linked'
<1> DEFINE n == Len(node_elems)
           rest == [node_free EXCEPT ![first_free] = @ \ {x[2]}]
<1>a. /\ n \in Nat \ {0} /\ Nodes = 1..n /\ DOMAIN node_free = 1..n /\ DOMAIN next_free = 1..n
      /\ first_free \in 1..n /\ next_free \in Seq(Nat) /\ Len(next_free) = n
  BY DEF PoolInv, PoolTypeOK, Nodes
<1>b. /\ DOMAIN rest = 1..n /\ Len(node_free) = n /\ Len(rest) = n /\ rest \in Seq(SUBSET Nat)
      /\ rest[first_free] = node_free[first_free] \ {x[2]}
      /\ \A k \in 1..n : k # first_free => rest[k] = node_free[k]
  BY <1>a DEF PoolInv, PoolTypeOK
<1>c. first_free \in WithCell /\ WithCell \subseteq 1..n
  BY <1>a DEF PoolInv, LinksSound, WithCell
<1>d. PICK m \in Nat \ {0} : \E q : LinkedAs(m, q)
  BY DEF Linked
<1>e. PICK q : LinkedAs(m, q)
  BY <1>d
<1>1. CASE /\ rest[first_free] # {}
           /\ node_free' = rest
           /\ UNCHANGED <<node_elems, next_free, first_free>>
  <2>1. WithCell' = WithCell
    BY <1>1, <1>a, <1>b, <1>c DEF WithCell, Nodes, Full
  <2> QED BY <1>1, <2>1, SameLinked
<1>2. CASE /\ rest[first_free] = {} /\ next_free[first_free] # 0
           /\ first_free' = next_free[first_free]
           /\ node_free' = rest
           /\ UNCHANGED <<node_elems, next_free>>
  <2>1. WithCell' = WithCell \ {first_free}
    BY <1>2, <1>a, <1>b DEF WithCell, Nodes, Full
  <2>2. m # 1 /\ m - 1 \in Nat \ {0}
    BY <1>2, <1>e DEF LinkedAs
  <2> DEFINE p == [i \in 1..(m - 1) |-> q[i + 1]]
  <2>3. \A i \in 1..(m - 1) : i + 1 \in 1..m /\ i + 1 # 1 /\ p[i] = q[i + 1]
    OBVIOUS
  <2>4. p \in [1..(m - 1) -> WithCell']
    BY <2>1, <2>2, <2>3, <1>e DEF LinkedAs
  <2>5. \A i, j \in 1..(m - 1) : p[i] = p[j] => i = j
    BY <2>2, <2>3, <1>e DEF LinkedAs
  <2>6. \A k \in WithCell' : \E i \in 1..(m - 1) : p[i] = k
    <3> SUFFICES ASSUME NEW k \in WithCell, k # first_free PROVE \E i \in 1..(m - 1) : p[i] = k
      BY <2>1
    <3>1. PICK i \in 1..m : q[i] = k
      BY <1>e DEF LinkedAs
    <3>2. i # 1
      BY <3>1, <1>e DEF LinkedAs
    <3>3. i - 1 \in 1..(m - 1) /\ (i - 1) + 1 = i
      BY <3>2
    <3> QED BY <3>1, <3>3
  <2>7. p[1] = first_free'
    BY <1>2, <2>2, <1>e DEF LinkedAs
  <2>8. next_free'[p[m - 1]] = 0
    BY <1>2, <2>2, <1>e DEF LinkedAs
  <2>9. \A i \in 1..(m - 1 - 1) : next_free'[p[i]] = p[i + 1]
    BY <1>2, <2>2, <1>e DEF LinkedAs
  <2> HIDE DEF p
  <2>10. LinkedAs(m - 1, p)'
    BY <2>4, <2>5, <2>6, <2>7, <2>8, <2>9 DEF LinkedAs
  <2> QED BY <2>2, <2>10 DEF Linked
<1>3. CASE /\ rest[first_free] = {} /\ next_free[first_free] = 0
           /\ node_elems' = Append(node_elems, NewNodeElems)
           /\ node_free' = Append(rest, 1..NewNodeElems)
           /\ next_free' = Append(next_free, 0)
           /\ first_free' = n + 1
  <2>1. m = 1
    <3> SUFFICES ASSUME m # 1 PROVE FALSE
      OBVIOUS
    <3>1. 1 \in 1..(m - 1) /\ 2 \in 1..m
      OBVIOUS
    <3>2. next_free[first_free] = q[2] /\ q[2] \in WithCell
      BY <3>1, <1>e DEF LinkedAs
    <3> QED BY <3>2, <1>3, <1>c
  <2>2. WithCell = {first_free}
    <3>1. \A i \in 1..m : i = 1
      BY <2>1
    <3>2. \A k \in WithCell : k = first_free
      BY <3>1, <1>e DEF LinkedAs
    <3> QED BY <3>2, <1>c
  <2>3. /\ Nodes' = 1..(n + 1) /\ DOMAIN node_free' = 1..(n + 1)
        /\ node_free'[n + 1] # {} /\ next_free'[n + 1] = 0
        /\ \A k \in 1..n : node_free'[k] = rest[k]
    <3> DEFINE N == NewNodeElems
    <3>1. N \in Nat \ {0}
      BY NewNodeHasCells DEF PoolInv
    <3> HIDE DEF N
    <3>2. 1 \in 1..N
      BY <3>1
    <3>3. node_elems' = Append(node_elems, N) /\ node_free' = Append(rest, 1..N)
      BY <1>3 DEF N
    <3>4. Nodes' = 1..(n + 1)
      BY <3>1, <3>3, <1>a DEF PoolInv, PoolTypeOK, Nodes
    <3>5. /\ DOMAIN node_free' = 1..(n + 1) /\ node_free'[n + 1] = 1..N
          /\ \A k \in 1..n : node_free'[k] = rest[k]
      <4> HIDE DEF rest
      <4> QED BY <3>3, <1>a, <1>b
    <3>6. next_free'[n + 1] = 0
      BY <1>3, <1>a
    <3> QED BY <3>2, <3>4, <3>5, <3>6
  <2>4. WithCell' = {n + 1}
    <3>1. \A k \in 1..n : rest[k] = {}
      BY <1>3, <2>2, <1>a, <1>b DEF WithCell, Full
    <3>2. \A k \in 1..n : node_free'[k] = {} /\ k # n + 1
      BY <3>1, <2>3, <1>a, <1>b
    <3>3. 1..(n + 1) = 1..n \cup {n + 1}
      BY <1>a, SMTT(60)
    <3> QED BY <3>2, <3>3, <2>3 DEF WithCell, Full
  <2> PICK new : new = n + 1
    OBVIOUS
  <2> DEFINE p == [i \in 1..1 |-> new]
  <2>5. 1..1 = {1} /\ p[1] = new /\ 1..(1 - 1) = {}
    OBVIOUS
  <2>6. p \in [1..1 -> WithCell']
    BY <2>4
  <2> HIDE DEF p
  <2>7. LinkedAs(1, p)'
    <3>1. p[1] = first_free' /\ next_free'[p[1]] = 0
      BY <1>3, <2>3, <2>5
    <3> QED BY <3>1, <2>4, <2>5, <2>6 DEF LinkedAs
  <2> QED BY <2>7 DEF Linked
<1> QED
  BY <1>1, <1>2, <1>3 DEF Palloc

LEMMA PfreeLinked ==
  ASSUME PoolInv, Linked, NEW x, Pfree(x)
  PROVE  Linked'
<1> DEFINE n == Len(node_elems)
           k == x[1]
<1>a. /\ Nodes = 1..n /\ n \in Nat /\ k \in 1..n /\ DOMAIN node_free = 1..n /\ DOMAIN next_free = 1..n
      /\ node_free'[k] # {} /\ DOMAIN node_free' = 1..n /\ Nodes' = Nodes
      /\ \A j \in 1..n : j # k => node_free'[j] = node_free[j]
  <2>1. /\ Nodes = 1..n /\ n \in Nat /\ DOMAIN node_free = 1..n /\ DOMAIN next_free = 1..n
    BY DEF PoolInv, PoolTypeOK, Nodes
  <2>2. x \in used /\ node_free' = [node_free EXCEPT ![k] = @ \cup {x[2]}] /\ UNCHANGED node_elems
    BY DEF Pfree
  <2>3. k \in 1..n
    BY <2>1, <2>2 DEF PoolInv, PoolTypeOK
  <2>4. Nodes' = Nodes
    BY <2>2 DEF Nodes
  <2> HIDE DEF k
  <2> QED BY <2>1, <2>2, <2>3, <2>4
<1>b. WithCell' = WithCell \cup {k}
  BY <1>a DEF WithCell, Full
<1>1. CASE ~Full(k)
  BY <1>1, <1>a, <1>b, SameLinked DEF Pfree, WithCell
<1>2. CASE Full(k)
  <2>1. /\ k \notin WithCell /\ WithCell \subseteq 1..n /\ first_free' = k /\ next_free'[k] = first_free
        /\ \A j \in WithCell : next_free'[j] = next_free[j]
    BY <1>2, <1>a DEF Pfree, WithCell
  <2>2. PICK m \in Nat \ {0} : \E q : LinkedAs(m, q)
    BY DEF Linked
  <2>3. PICK q : LinkedAs(m, q)
    BY <2>2
  <2> DEFINE p == [i \in 1..(m + 1) |-> IF i = 1 THEN k ELSE q[i - 1]]
  <2> HIDE DEF k
  <2>4. p[1] = k /\ \A i \in 1..m : p[i + 1] = q[i] /\ q[i] \in WithCell
    BY <2>3 DEF LinkedAs
  <2>5. \A i \in 1..(m + 1) : i # 1 => i - 1 \in 1..m /\ p[i] = q[i - 1] /\ q[i - 1] \in WithCell
    BY <2>4
  <2>6. p \in [1..(m + 1) -> WithCell']
    BY <1>b, <2>4, <2>5
  <2> HIDE DEF p
  <2>7. \A i, j \in 1..(m + 1) : p[i] = p[j] => i = j
    <3> SUFFICES ASSUME NEW i \in 1..(m + 1), NEW j \in 1..(m + 1), p[i] = p[j] PROVE i = j
      OBVIOUS
    <3>1. (i = 1) <=> (j = 1)
      BY <2>1, <2>4, <2>5
    <3>2. CASE i # 1
      <4>1. q[i - 1] = q[j - 1] /\ i - 1 \in 1..m /\ j - 1 \in 1..m
        BY <3>1, <3>2, <2>5
      <4>2. i - 1 = j - 1
        BY <4>1, <2>3 DEF LinkedAs
      <4> QED BY <4>2
    <3> QED BY <3>1, <3>2
  <2>8. \A j \in WithCell' : \E i \in 1..(m + 1) : p[i] = j
    <3> SUFFICES ASSUME NEW j \in WithCell PROVE \E i \in 1..(m + 1) : p[i] = j
      BY <1>b, <2>4
    <3>1. PICK i \in 1..m : q[i] = j
      BY <2>3 DEF LinkedAs
    <3>2. i + 1 \in 1..(m + 1)
      OBVIOUS
    <3> QED BY <3>1, <3>2, <2>4
  <2>9. \A i \in 1..(m + 1 - 1) : next_free'[p[i]] = p[i + 1]
    <3> SUFFICES ASSUME NEW i \in 1..m PROVE next_free'[p[i]] = p[i + 1]
      OBVIOUS
    <3>1. CASE i = 1
      BY <3>1, <2>1, <2>3, <2>4 DEF LinkedAs
    <3>2. CASE i # 1
      <4>1. i - 1 \in 1..(m - 1) /\ (i - 1) + 1 = i /\ i \in 1..(m + 1)
        BY <3>2
      <4>2. p[i] = q[i - 1] /\ p[i + 1] = q[i] /\ q[i - 1] \in WithCell
        BY <4>1, <3>2, <2>4, <2>5
      <4>3. next_free[q[i - 1]] = q[i]
        BY <4>1, <2>3 DEF LinkedAs
      <4> QED BY <4>2, <4>3, <2>1
    <3> QED BY <3>1, <3>2
  <2>10. next_free'[p[m + 1]] = 0
    <3>1. m \in 1..m /\ p[m + 1] = q[m] /\ q[m] \in WithCell
      BY <2>4
    <3> QED BY <3>1, <2>1, <2>3, ZenonT(60) DEF LinkedAs
  <2>11. LinkedAs(m + 1, p)'
    BY <2>1, <2>4, <2>6, <2>7, <2>8, <2>9, <2>10 DEF LinkedAs
  <2> QED BY <2>11 DEF Linked
<1> QED BY <1>1, <1>2

LEMMA LinkedInvariant == Spec => [](PoolInv /\ Linked)
<1>1. Init => Linked
  BY InitLinked DEF Init
<1>2. PoolInv /\ Linked /\ [Next]_vars => Linked'
  <2> SUFFICES ASSUME PoolInv, Linked, [Next]_vars PROVE Linked'
    OBVIOUS
  <2>1. PoolStep
    BY NextIsPoolStep DEF PoolInv
  <2>2. CASE UNCHANGED poolVars
    <3>1. WithCell' = WithCell /\ UNCHANGED <<first_free, next_free>>
      BY <2>2 DEF poolVars, WithCell, Nodes, Full
    <3> QED BY <3>1, SameLinked
  <2> QED BY <2>1, <2>2, PallocLinked, PfreeLinked DEF PoolStep
<1> QED
  BY <1>1, <1>2, PoolInvariant, PTL DEF Spec

(* What Visits is: the nodes of the list, and then NULL. *)
LEMMA VisitsAre ==
  ASSUME NEW m \in Nat \ {0}, NEW q, LinkedAs(m, q), 0 \notin WithCell
  PROVE  /\ Cardinality(WithCell) = m
         /\ \A i \in 1..m : Visits[i] = q[i]
         /\ Visits[m + 1] = 0
<1>1. Cardinality(WithCell) = m
  <2>1. q \in Bijection(1..m, WithCell)
    BY DEF LinkedAs, Bijection, Injection, Surjection, IsInjective
  <2>2. ExistsBijection(1..m, WithCell)
    BY <2>1 DEF ExistsBijection
  <2> QED BY <2>2, FS_CountingElements
<1> DEFINE Is(v) == v = [i \in 1..(m + 1) |->
                           IF i = 1 THEN first_free ELSE IF v[i - 1] = 0 THEN 0 ELSE next_free[v[i - 1]]]
           f == [i \in 1..(m + 1) |-> IF i = m + 1 THEN 0 ELSE q[i]]
<1>2. Visits = CHOOSE v : Is(v)
  BY <1>1 DEF Visits
<1>3. Is(f)
  <2>1. ASSUME NEW i \in 1..(m + 1)
        PROVE  f[i] = IF i = 1 THEN first_free ELSE IF f[i - 1] = 0 THEN 0 ELSE next_free[f[i - 1]]
    <3>1. CASE i = 1
      BY <3>1 DEF LinkedAs
    <3>2. CASE i # 1
      <4>1. i - 1 \in 1..m /\ f[i - 1] = q[i - 1] /\ q[i - 1] \in WithCell
        BY <3>2 DEF LinkedAs
      <4>2. CASE i = m + 1
        BY <4>1, <4>2, <3>2 DEF LinkedAs
      <4>3. CASE i # m + 1
        <5>1. i - 1 \in 1..(m - 1) /\ (i - 1) + 1 = i /\ f[i] = q[i]
          BY <3>2, <4>3
        <5>2. next_free[q[i - 1]] = q[i]
          BY <5>1 DEF LinkedAs
        <5> QED BY <5>1, <5>2, <4>1, <3>2
      <4> QED BY <4>2, <4>3
    <3> QED BY <3>1, <3>2
  <2> QED BY <2>1
<1>4. Is(Visits)
  <2> HIDE DEF Is
  <2> QED BY <1>2, <1>3
<1> DEFINE T == {i \in 1..(m + 1) : Visits[i] = f[i]}
<1>5. 1 \in T
  BY <1>3, <1>4
<1>6. \A i \in 1..((m + 1) - 1) : i \in T => i + 1 \in T
  <2> SUFFICES ASSUME NEW i \in 1..m, Visits[i] = f[i] PROVE i + 1 \in T
    OBVIOUS
  <2>1. i + 1 \in 1..(m + 1) /\ i + 1 # 1 /\ (i + 1) - 1 = i
    OBVIOUS
  <2>2. Visits[i + 1] = IF Visits[i] = 0 THEN 0 ELSE next_free[Visits[i]]
    BY <1>4, <2>1
  <2>3. f[i + 1] = IF f[i] = 0 THEN 0 ELSE next_free[f[i]]
    <3> HIDE DEF f
    <3> QED BY <1>3, <2>1
  <2> QED BY <2>1, <2>2, <2>3
<1>7. 1..(m + 1) \subseteq T
  <2> HIDE DEF T
  <2>1. m + 1 \in Int
    OBVIOUS
  <2> QED BY <1>5, <1>6, <2>1, UpTo
<1>8. \A i \in 1..(m + 1) : Visits[i] = f[i]
  BY <1>7
<1> QED BY <1>1, <1>8

(* The list of nodes with a free cell has each of them once and ends, in a *)
(* pool of any size: no node is forgotten when it fills and is emptied     *)
(* again, whatever its next_free was left at.                              *)
THEOREM NoNodeForgotten == Spec => []FreeNodesLinked
<1>1. PoolInv /\ Linked => FreeNodesLinked
  <2> SUFFICES ASSUME PoolInv, Linked PROVE FreeNodesLinked
    OBVIOUS
  <2>1. PICK m \in Nat \ {0} : \E q : LinkedAs(m, q)
    BY DEF Linked
  <2>2. PICK q : LinkedAs(m, q)
    BY <2>1
  <2>3. 0 \notin WithCell
    BY DEF WithCell, Nodes, PoolInv, PoolTypeOK
  <2>4. /\ Cardinality(WithCell) = m /\ \A i \in 1..m : Visits[i] = q[i]
        /\ Visits[m + 1] = 0
    BY <2>2, <2>3, VisitsAre
  <2>5. {Visits[i] : i \in 1..m} = WithCell
    BY <2>2, <2>4 DEF LinkedAs
  <2> QED BY <2>4, <2>5 DEF FreeNodesLinked
<1> QED
  BY <1>1, LinkedInvariant, PTL
-----------------------------------------------------------------------------
(***************************************************************************)
(* pop_scope counts from the first declaration of the innermost scope, and *)
(* the scopes begin one behind the other.                                  *)
(***************************************************************************)
IsSequence(q) == \E S : q \in Seq(S)

ScopesInv ==
  /\ IsSequence(decls)
  /\ scopes \in Seq(Nat) /\ Len(scopes) > 0
  /\ \A i, j \in DOMAIN scopes : i <= j => scopes[i] <= scopes[j] /\ scopes[j] <= Len(decls)
  /\ popped \in Nat
  /\ where \in {"args", "popping"} => Len(scopes) >= 2
  /\ where = "body" => Len(scopes) >= 3
  /\ where = "popping" => scopes[Len(scopes)] <= popped /\ popped <= Len(decls)

LEMMA AppendAny ==
  ASSUME NEW q, IsSequence(q), NEW s
  PROVE  IsSequence(Append(q, s)) /\ Len(q) \in Nat /\ Len(Append(q, s)) = Len(q) + 1
<1>1. PICK S : q \in Seq(S)
  BY DEF IsSequence
<1>2. q \in Seq(S \cup {s})
  BY <1>1
<1>3. Append(q, s) \in Seq(S \cup {s}) /\ Len(q) \in Nat /\ Len(Append(q, s)) = Len(q) + 1
  BY <1>2
<1> QED
  BY <1>3 DEF IsSequence

LEMMA PrefixAny ==
  ASSUME NEW q, IsSequence(q), NEW n \in Nat, n <= Len(q)
  PROVE  IsSequence(SubSeq(q, 1, n)) /\ Len(SubSeq(q, 1, n)) = n
<1>1. PICK S : q \in Seq(S)
  BY DEF IsSequence
<1>2. SubSeq(q, 1, n) \in Seq(S) /\ Len(SubSeq(q, 1, n)) = n
  BY <1>1
<1> QED
  BY <1>2 DEF IsSequence

(* What a step does to the pool and to the declarations in force. *)
JointStep ==
  \/ UNCHANGED used /\ InForce' = InForce
  \/ (\E x \in Nat \X Nat : Palloc(x)) /\ InForce' = InForce + 1
  \/ (\E x : Pfree(x)) /\ InForce' = InForce - 1

LEMMA DeclareScopes ==
  ASSUME PoolTypeOK, ScopesInv, NEW type, NEW init, Declare(type, init), where # "popping"
  PROVE  ScopesInv' /\ JointStep
<1>1. CASE DeclaredHere(ident.sym)
  <2>1. UNCHANGED <<poolVars, decls, scopes, popped, where>>
    BY <1>1 DEF Declare
  <2> QED
    BY <2>1 DEF ScopesInv, JointStep, InForce, poolVars, IsSequence
<1>2. CASE ~DeclaredHere(ident.sym)
  <2>1. PICK s : decls' = Append(decls, s)
    BY <1>2 DEF Declare, ListDecl
  <2>2. UNCHANGED <<scopes, popped>> /\ (where' = where \/ where' = "undefined")
    BY <1>2 DEF Declare, ListDecl
  <2>3. PICK x \in {first_free} \X node_free[first_free] : Palloc(x)
    BY <1>2 DEF Declare
  <2>4. x \in Nat \X Nat
    BY <2>3 DEF PoolTypeOK, Nodes
  <2>5. IsSequence(decls') /\ Len(decls) \in Nat /\ Len(decls') = Len(decls) + 1
    BY <2>1, AppendAny DEF ScopesInv
  <2>6. ScopesInv'
    BY <2>2, <2>5 DEF ScopesInv
  <2>7. InForce' = InForce + 1
    BY <2>2, <2>5 DEF InForce
  <2> QED
    BY <2>3, <2>4, <2>6, <2>7 DEF JointStep
<1> QED
  BY <1>1, <1>2

LEMMA SameScopes ==
  ASSUME ScopesInv, UNCHANGED <<used, decls, scopes, popped>>,
         where' = where \/ (where # "popping" /\ where' \in {"global", "aborted", "undefined"})
  PROVE  ScopesInv' /\ JointStep
  BY DEF ScopesInv, JointStep, InForce, IsSequence

LEMMA PushScopeScopes ==
  ASSUME ScopesInv, PushScope
  PROVE  ScopesInv' /\ JointStep
<1>0. UNCHANGED <<used, decls, popped>> /\ where # "popping" /\ where' # "popping"
  BY DEF PushScope, poolVars, declVars
<1>1. Len(decls) \in Nat
  BY DEF ScopesInv, IsSequence
<1>2. CASE where' = "aborted" /\ UNCHANGED scopes
  BY <1>0, <1>2, SameScopes
<1>3. CASE /\ scopes' = Append(scopes, Len(decls))
           /\ where' = IF where = "global" THEN "args" ELSE "body"
           /\ where \in {"global", "args", "body"}
  <2>1. /\ scopes' \in Seq(Nat) /\ Len(scopes') = Len(scopes) + 1
        /\ scopes'[Len(scopes) + 1] = Len(decls)
        /\ \A i \in 1..Len(scopes) : scopes'[i] = scopes[i]
    BY <1>1, <1>3 DEF ScopesInv
  <2>2. \A i, j \in DOMAIN scopes' : i <= j => scopes'[i] <= scopes'[j] /\ scopes'[j] <= Len(decls)
    BY <1>1, <2>1, SMTT(30) DEF ScopesInv
  <2>3. ScopesInv'
    BY <1>0, <1>3, <2>1, <2>2 DEF ScopesInv, IsSequence
  <2> QED
    BY <1>0, <2>3 DEF JointStep, InForce
<1> QED
  BY <1>2, <1>3 DEF PushScope

LEMMA PopScopeScopes ==
  ASSUME ScopesInv, PopScope
  PROVE  ScopesInv' /\ JointStep
<1>1. /\ UNCHANGED <<used, decls, scopes>> /\ where = "body" /\ where' = "popping"
      /\ popped' = scopes[Len(scopes)]
  BY DEF PopScope, poolVars, declVars
<1>2. /\ Len(scopes) \in DOMAIN scopes /\ scopes[Len(scopes)] \in Nat
      /\ scopes[Len(scopes)] <= Len(decls) /\ Len(decls) \in Nat
  BY DEF ScopesInv, IsSequence
<1>3. ScopesInv'
  BY <1>1, <1>2 DEF ScopesInv, IsSequence
<1> QED
  BY <1>1, <1>2, <1>3 DEF JointStep, InForce

LEMMA PopDeclScopes ==
  ASSUME ScopesInv, PopDecl
  PROVE  ScopesInv' /\ JointStep
<1>1. /\ UNCHANGED <<decls, scopes, where>> /\ where = "popping"
      /\ popped < Len(decls) /\ popped' = popped + 1
      /\ \E x : Pfree(x)
  BY DEF PopDecl
<1>2. Len(decls) \in Nat /\ scopes[Len(scopes)] \in Nat
  BY DEF ScopesInv, IsSequence
<1>3. ScopesInv'
  BY <1>1, <1>2 DEF ScopesInv, IsSequence
<1> QED
  <2>1. popped \in Nat /\ scopes' = scopes /\ decls' = decls /\ where' = "popping"
    BY <1>1 DEF ScopesInv
  <2>2. InForce' = InForce - 1
    BY <1>1, <1>2, <2>1 DEF InForce
  <2> QED
    BY <1>1, <1>3, <2>2 DEF JointStep

LEMMA PopDoneScopes ==
  ASSUME ScopesInv, PopDone
  PROVE  ScopesInv' /\ JointStep
<1> DEFINE k == Len(scopes)
<1>0. UNCHANGED used /\ where = "popping" /\ popped = Len(decls)
  BY DEF PopDone, poolVars
<1>k. k \in Nat /\ k >= 2
  BY <1>0 DEF ScopesInv
<1>1. /\ k \in Nat /\ k >= 2 /\ DOMAIN scopes = 1..k
      /\ Len(decls) \in Nat
      /\ \A i \in 1..k : scopes[i] \in Nat /\ scopes[i] <= scopes[k] /\ scopes[k] <= Len(decls)
  BY <1>0 DEF ScopesInv, IsSequence
<1>2. /\ decls' = SubSeq(decls, 1, scopes[k])
      /\ scopes' = SubSeq(scopes, 1, k - 1)
      /\ IF k - 1 = 2
         THEN popped' = scopes[2] /\ where' = where
         ELSE popped' = 0 /\ where' = IF k - 1 = 1 THEN "global" ELSE "body"
  BY DEF PopDone, cur_scope
<1>3. IsSequence(decls') /\ Len(decls') = scopes[k]
  BY <1>1, <1>2, PrefixAny DEF ScopesInv
<1>4. /\ scopes' \in Seq(Nat) /\ Len(scopes') = k - 1 /\ DOMAIN scopes' = 1..(k - 1)
      /\ \A i \in 1..(k - 1) : scopes'[i] = scopes[i]
  BY <1>1, <1>2 DEF ScopesInv
<1>5. \A i, j \in DOMAIN scopes' : i <= j => scopes'[i] <= scopes'[j] /\ scopes'[j] <= Len(decls')
  <2> SUFFICES ASSUME NEW i \in 1..(k - 1), NEW j \in 1..(k - 1), i <= j
               PROVE  scopes'[i] <= scopes'[j] /\ scopes'[j] <= Len(decls')
    BY <1>4
  <2>1. scopes[i] <= scopes[j] /\ scopes[j] <= scopes[k]
    <3>1. i \in 1..k /\ j \in 1..k
      BY <1>k
    <3> QED
      BY <3>1, <1>1 DEF ScopesInv
  <2> QED
    BY <2>1, <1>3, <1>4
<1>6. CASE k - 1 = 2
  <2>1. popped' = scopes'[k - 1] /\ where' = "popping"
    <3>1. k = 3 /\ k - 1 = 2 /\ 2 \in 1..(k - 1)
      BY <1>k, <1>6
    <3>2. popped' = scopes[2] /\ where' = where
      BY <1>2, <1>6
    <3> QED
      BY <3>1, <3>2, <1>0, <1>4
  <2>2. ScopesInv'
    <3>1. k - 1 \in 1..(k - 1) /\ scopes'[k - 1] = scopes[k - 1] /\ scopes[k - 1] \in Nat
          /\ scopes[k - 1] <= scopes[k]
      BY <1>1, <1>4
    <3> QED
      <4>1. /\ popped' = scopes'[Len(scopes')] /\ popped' \in Nat /\ popped' <= Len(decls')
            /\ Len(scopes') = 2 /\ where' = "popping"
        BY <3>1, <2>1, <1>k, <1>3, <1>4, <1>6
      <4> QED
        BY <4>1, <1>3, <1>4, <1>5 DEF ScopesInv
  <2>3. InForce' = InForce
    BY <2>1, <1>0, <1>1, <1>3, <1>4, <1>6 DEF InForce
  <2> QED
    BY <2>2, <2>3, <1>0 DEF JointStep
<1>7. CASE k - 1 # 2
  <2>1. where' # "popping" /\ where' # "args" /\ popped' = 0
    BY <1>2, <1>7
  <2>2. where' = "body" => Len(scopes') >= 3
    BY <1>1, <1>2, <1>4, <1>7
  <2>3. ScopesInv'
    BY <2>1, <2>2, <1>1, <1>3, <1>4, <1>5 DEF ScopesInv
  <2>4. InForce' = InForce
    BY <2>1, <1>0, <1>1, <1>3 DEF InForce
  <2> QED
    BY <2>3, <2>4, <1>0 DEF JointStep
<1> QED
  BY <1>6, <1>7

LEMMA NextScopes ==
  ASSUME PoolTypeOK, ScopesInv, [Next]_vars
  PROVE  ScopesInv' /\ JointStep
<1>1. CASE \E s \in Strings : AddSym(s)
  BY <1>1, SameScopes DEF AddSym, poolVars
<1>2. CASE DeclareFunc \/ DeclareArg \/ DeclareVar
  BY <1>2, DeclareScopes DEF DeclareFunc, DeclareArg, DeclareVar
<1>3. CASE CheckProgram \/ Use \/ Assign
  BY <1>3, SameScopes DEF CheckProgram, Use, Assign, poolVars, declVars
<1>4. CASE UNCHANGED vars
  BY <1>4, SameScopes DEF vars, poolVars, declVars
<1> QED
  BY <1>1, <1>2, <1>3, <1>4, PushScopeScopes, PopScopeScopes, PopDeclScopes, PopDoneScopes DEF Next

LEMMA JointInvariant == Spec => [](PoolInv /\ ScopesInv)
<1>1. Init => ScopesInv
  <2> SUFFICES ASSUME Init PROVE ScopesInv
    OBVIOUS
  <2>1. decls \in Seq(Nat) /\ Len(decls) = 0 /\ scopes \in Seq(Nat) /\ Len(scopes) = 1 /\ scopes[1] = 0
    BY DEF Init
  <2> QED
    BY <2>1 DEF Init, ScopesInv, IsSequence
<1>2. PoolInv /\ ScopesInv /\ [Next]_vars => ScopesInv'
  BY NextScopes DEF PoolInv
<1> QED
  BY <1>1, <1>2, PoolInvariant, PTL DEF Spec

(* The declarations implement the abstract allocator: however scopes are   *)
(* opened and left, each declaration in force has a cell that no other one *)
(* has, and a declaration that is undone gives its cell back.              *)
THEOREM DeclarationsOwnCells == Spec => CellsOwned
<1>1. Init => Heap!Init
  <2> SUFFICES ASSUME Init PROVE used = {} /\ InForce = 0
    BY DEF Heap!Init
  <2> QED
    BY DEF Init, PoolInit, InForce
<1>2. PoolInv /\ ScopesInv /\ [Next]_vars => [Heap!Next]_<<used, InForce>>
  <2> SUFFICES ASSUME PoolInv, ScopesInv, [Next]_vars PROVE [Heap!Next]_<<used, InForce>>
    OBVIOUS
  <2>1. JointStep
    BY NextScopes DEF PoolInv
  <2>2. CASE (\E x \in Nat \X Nat : Palloc(x)) /\ InForce' = InForce + 1
    <3>1. PICK x \in Nat \X Nat : Palloc(x)
      BY <2>2
    <3>2. x \notin used /\ used' = used \cup {x}
      BY <3>1 DEF Palloc, PoolInv, PoolTypeOK, CellsPartitioned
    <3> QED
      BY <2>2, <3>2 DEF Heap!Next, Heap!Alloc
  <2>3. CASE (\E x : Pfree(x)) /\ InForce' = InForce - 1
    <3>1. PICK x : Pfree(x)
      BY <2>3
    <3>2. x \in used /\ used' = used \ {x}
      BY <3>1 DEF Pfree
    <3> QED
      BY <2>3, <3>2 DEF Heap!Next, Heap!Free
  <2> QED
    BY <2>1, <2>2, <2>3 DEF JointStep
<1> QED
  BY <1>1, <1>2, JointInvariant, PTL DEF Spec, CellsOwned, Heap!Spec
=============================================================================
