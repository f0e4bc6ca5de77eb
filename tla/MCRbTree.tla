------------------------------ MODULE MCRbTree ------------------------------
(***************************************************************************)
(* Small instances of RbTree for TLC.                                      *)
(***************************************************************************)
EXTENDS RbTree

(* One tree without duplicates, as flow.c and opt.cpp use it; and two      *)
(* trees that may hold a key twice, and be joined. *)
MCUsers ==
  { [calls |-> {"search", "insert_if_absent", "delete", "minimum", "clear"},
     keys |-> 1..7, nodes |-> 1..7],
    [calls |-> {"insert", "delete", "swap", "join"}, keys |-> 1..3, nodes |-> 1..6] }

(* A subtree's nodes from left to right. *)
RECURSIVE Inorder(_, _)
Inorder(h, n) ==
  IF n = Nil THEN <<>> ELSE Inorder(h, h[n].left) \o <<n>> \o Inorder(h, h[n].right)

(* Which memory a node lives in is not part of its identity: nodes are     *)
(* numbered from left to right. *)
Canonical ==
  LET order == Inorder(heap, tree.root) \o Inorder(heap, spare.root)
      Rank == [n \in UNION {u.nodes : u \in Users} \cup {Nil} |->
                 IF n = Nil THEN 0
                 ELSE IF n \notin DOMAIN heap THEN Len(order) + 1
                 ELSE CHOOSE i \in DOMAIN order : order[i] = n]
      Seen(n) == [heap[n] EXCEPT !.left = Rank[@], !.right = Rank[@]]
  IN <<user, [i \in DOMAIN order |-> Seen(order[i])],
       [tree EXCEPT !.root = Rank[@]], [spare EXCEPT !.root = Rank[@]],
       [i \in DOMAIN stack |-> Rank[stack[i]]], pc, op, x, Rank[node], Rank[y], bh, result>>
=============================================================================
