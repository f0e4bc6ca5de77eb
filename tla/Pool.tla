-------------------------------- MODULE Pool --------------------------------
(***************************************************************************)
(* pool_t of mem.c.  A pool is a list of nodes, each an array of cells with*)
(* a list of the free ones.  The nodes that have a free cell are on a list *)
(* of their own, through next_free; the field of a node that is not on the *)
(* list keeps whatever it was.  Cells are handed out at the head of that   *)
(* list and a node leaves it with its last cell.                           *)
(*                                                                         *)
(* A node is its position in the list of nodes, 0 is NULL, and a cell is   *)
(* a pair of a node and an index.  Which free cell of a node is handed out *)
(* is a choice of the model (the code takes the one given back last).      *)
(***************************************************************************)
EXTENDS Naturals, Sequences, FiniteSets

CONSTANTS
  PoolElems,   \* new_pool's size: the cells of the first node
  ElemSize,    \* the bytes of a cell, aligned
  MaxNodes     \* a bound of the model on the nodes of a pool

ASSUME PoolAssumption ==
  PoolElems \in Nat \ {0} /\ ElemSize \in Nat \ {0} /\ MaxNodes \in Nat \ {0}

VARIABLES
  node_elems,  \* the number of cells of each node
  node_free,   \* the free cells of each node
  next_free,   \* the next node on the list of nodes with a free cell
  first_free,  \* the head of that list
  used         \* the cells that were handed out

poolVars == <<node_elems, node_free, next_free, first_free, used>>

Nodes == DOMAIN node_elems
Cells(k) == 1..node_elems[k]
Full(k) == node_free[k] = {}

PoolInit ==
  /\ node_elems = <<PoolElems>>
  /\ node_free = <<1..PoolElems>>
  /\ next_free = <<0>>
  /\ first_free = 1
  /\ used = {}

(* palloc for a new node passes the last node's size in bytes for a number *)
(* of cells, doubled. *)
NewNodeElems == 2 * (node_elems[Len(node_elems)] * ElemSize)

(* Variants: one leaves the cell on the list, one has no new node to take. *)
PallocKeepsCell(x) ==
  /\ x[1] = first_free /\ x[2] \in node_free[first_free]
  /\ used' = used \cup {x}
  /\ UNCHANGED <<node_elems, node_free, next_free, first_free>>
PallocNoNewNode(x) ==
  /\ x[1] = first_free /\ x[2] \in node_free[first_free]
  /\ node_free' = [node_free EXCEPT ![first_free] = @ \ {x[2]}]
  /\ first_free' = IF node_free[first_free] = {x[2]} THEN next_free[first_free] ELSE first_free
  /\ used' = used \cup {x}
  /\ UNCHANGED <<node_elems, next_free>>

Palloc(x) ==
  /\ x[1] = first_free /\ x[2] \in node_free[first_free]
  /\ LET rest == [node_free EXCEPT ![first_free] = @ \ {x[2]}]
     IN \/ /\ rest[first_free] # {}
           /\ node_free' = rest
           /\ UNCHANGED <<node_elems, next_free, first_free>>
        \/ /\ rest[first_free] = {} /\ next_free[first_free] # 0
           /\ first_free' = next_free[first_free]
           /\ node_free' = rest
           /\ UNCHANGED <<node_elems, next_free>>
        \/ /\ rest[first_free] = {} /\ next_free[first_free] = 0
           /\ Len(node_elems) < MaxNodes
           /\ node_elems' = Append(node_elems, NewNodeElems)
           /\ node_free' = Append(rest, 1..NewNodeElems)
           /\ next_free' = Append(next_free, 0)
           /\ first_free' = Len(node_elems) + 1
  /\ used' = used \cup {x}

(* Variants: one loses the cell, one leaves a node that was full off the   *)
(* list. *)
PfreeLosesCell(x) ==
  /\ x \in used
  /\ used' = used \ {x}
  /\ UNCHANGED <<node_elems, node_free, next_free, first_free>>
PfreeOffList(x) ==
  /\ x \in used
  /\ node_free' = [node_free EXCEPT ![x[1]] = @ \cup {x[2]}]
  /\ used' = used \ {x}
  /\ UNCHANGED <<node_elems, next_free, first_free>>

Pfree(x) ==
  /\ x \in used
  /\ node_free' = [node_free EXCEPT ![x[1]] = @ \cup {x[2]}]
  /\ used' = used \ {x}
  /\ IF Full(x[1])
     THEN /\ next_free' = [next_free EXCEPT ![x[1]] = first_free]
          /\ first_free' = x[1]
     ELSE UNCHANGED <<next_free, first_free>>
  /\ UNCHANGED node_elems

PoolNext == \E x \in Nat \X Nat : Palloc(x) \/ Pfree(x)

PoolSpec == PoolInit /\ [][PoolNext]_poolVars
-----------------------------------------------------------------------------
PoolTypeOK ==
  /\ node_elems \in Seq(Nat \ {0}) /\ Nodes # {}
  /\ node_free \in Seq(SUBSET Nat) /\ DOMAIN node_free = Nodes
  /\ next_free \in Seq(Nat) /\ DOMAIN next_free = Nodes
  /\ first_free \in Nodes
  /\ used \subseteq Nat \X Nat
  /\ \A x \in used : x[1] \in Nodes /\ x[2] \in Cells(x[1])

(* No cell is handed out twice and none is lost: the cells of a node are   *)
(* those in use and, all the others, those on its free list. *)
CellsPartitioned ==
  \A k \in Nodes : node_free[k] = {c \in Cells(k) : <<k, c>> \notin used}

WithCell == {k \in Nodes : ~Full(k)}

(* The nodes that are met from the head on, followed by what ends them. *)
Visits ==
  LET visit[i \in 1..(Cardinality(WithCell) + 1)] ==
        IF i = 1 THEN first_free
        ELSE IF visit[i - 1] = 0 THEN 0 ELSE next_free[visit[i - 1]]
  IN visit

(* Following next_free from the head visits every node that has a free     *)
(* cell, once, and nothing else: a node that were missing would never be   *)
(* used again, and a list that came back to a node would lose the others.  *)
FreeNodesLinked ==
  /\ {Visits[i] : i \in 1..Cardinality(WithCell)} = WithCell
  /\ Visits[Cardinality(WithCell) + 1] = 0
=============================================================================
