------------------------------- MODULE RbTree -------------------------------
(***************************************************************************)
(* The red-black trees of rbtree.c: nodes without parent pointers, a stack *)
(* of the ancestors of the node at hand that belongs to the tree, and one  *)
(* sentinel for all leaves.  A step is one iteration of a loop of the      *)
(* code.  Where the code says "analogous, with 'right' and 'left'          *)
(* exchanged", the model takes the side as a parameter.                    *)
(*                                                                         *)
(* The right field of the sentinel, which the rotation of a root           *)
(* overwrites, is left out: nothing the code does depends on it.           *)
(***************************************************************************)
EXTENDS Naturals, Sequences, FiniteSets

CONSTANT
  Users       \* who uses a tree: the calls made, besides rb_new, the keys
              \* that rb_cmp_less compares, and the memory for nodes, which
              \* is a bound of the model

AllCalls == {"search", "insert", "insert_if_absent", "delete", "minimum", "clear", "swap", "join"}

ASSUME RbTreeAssumption ==
  \A u \in Users : /\ u.calls \subseteq AllCalls
                   /\ u.keys \subseteq Nat \ {0}
                   /\ u.nodes \subseteq Nat \ {0} /\ IsFiniteSet(u.nodes)

Keys == UNION {u.keys : u \in Users}

VARIABLES
  user,     \* the user at hand
  heap,     \* the nodes in use: key, red, left, right
  tree,     \* root, black-height and size of the stack of the tree
  spare,    \* the same of the caller's other tree
  stack,    \* tree->stack[1..depth]; stack[0] is always nil
  pc,       \* the loop the current call is in
  op,       \* the current call
  x,        \* its argument
  node,     \* its current node
  y,        \* the node rb_delete_node will free
  bh,       \* in rb_join: the black-height of the current node
  result    \* the key of the node returned, 0 for none

vars == <<user, heap, tree, spare, stack, pc, op, x, node, y, bh, result>>

Nil == 0
NewTree == [root |-> Nil, bh |-> 0, ssize |-> 0]
Opp(side) == IF side = "left" THEN "right" ELSE "left"

Red(h, n) == n # Nil /\ h[n].red
Depth == Len(stack)
Up(i) == IF Depth > i THEN stack[Depth - i] ELSE Nil

(* rb_left_rotate (side = "left") and rb_right_rotate of n, whose parent   *)
(* is p. *)
Relink(h, n, p, r) ==
  IF p = Nil THEN h
  ELSE IF h[p].left = n THEN [h EXCEPT ![p].left = r] ELSE [h EXCEPT ![p].right = r]
RotateLosing(h, n, p, side) ==   \* a variant that forgets the inner subtree
  LET r == h[n][Opp(side)]
  IN Relink([h EXCEPT ![r][side] = n, ![n][Opp(side)] = Nil], n, p, r)
Rotate(h, n, p, side) ==
  LET r == h[n][Opp(side)]
      h1 == [h EXCEPT ![r][side] = n, ![n][Opp(side)] = h[r][side]]
  IN Relink(h1, n, p, r)
RootAfter(h, root, n, side) == IF n = root THEN h[n][Opp(side)] ELSE root

Paint(h, n, red) == [h EXCEPT ![n].red = red]

(* rb_reallocate_stack, when the stack is too small. *)
Grown(t) ==
  LET need == 2 * t.bh + 1
  IN IF 2 * t.bh >= t.ssize
     THEN [t EXCEPT !.ssize = IF 2 * @ > need THEN 2 * @ ELSE need]
     ELSE t

(* malloc: which free node it is makes no difference. *)
Malloc == CHOOSE n \in user.nodes \ DOMAIN heap : TRUE
NewNode(k, red, l, r) ==
  [n \in DOMAIN heap \cup {Malloc} |->
     IF n = Malloc THEN [key |-> k, red |-> red, left |-> l, right |-> r] ELSE heap[n]]

Done(res) ==
  /\ pc' = "idle" /\ op' = "none" /\ x' = 0 /\ node' = Nil /\ y' = Nil
  /\ stack' = <<>> /\ bh' = 0
  /\ result' = res

-----------------------------------------------------------------------------
(* The nodes of a subtree, which is not deeper than there are nodes. *)
Below(h, n) ==
  LET within[d \in 0..Cardinality(DOMAIN h)] ==
        [m \in DOMAIN h \cup {Nil} |->
           IF m = Nil \/ d = 0 THEN {}
           ELSE {m} \cup within[d - 1][h[m].left] \cup within[d - 1][h[m].right]]
  IN within[Cardinality(DOMAIN h)][n]
NodesOf(t) == Below(heap, t.root)

(* rb_join's precondition: y <= x <= z, where y is any key from tree1, z is *)
(* any key from tree2. *)
Between(k) ==
  /\ \A n \in NodesOf(tree) : heap[n].key <= k
  /\ \A n \in NodesOf(spare) : k <= heap[n].key

(* A call, with its argument if it has one.  The calls that walk down the  *)
(* tree start at its root; rb_search needs no stack. *)
Inserts == {"insert", "insert_if_absent"}
Walks == Inserts \cup {"search", "delete"}
Takes(o) == IF o \in {"minimum", "clear", "swap"} THEN {0} ELSE user.keys
Call(o) ==
  /\ pc = "idle"
  /\ o \in Inserts \cup {"join"} => DOMAIN heap # user.nodes
  /\ op' = o /\ x' \in Takes(o)
  /\ o = "join" => Between(x')
  /\ pc' = IF o \in Walks THEN "descend" ELSE o
  /\ node' = IF o \in Walks \cup {"minimum"} THEN tree.root ELSE Nil
  /\ tree' = IF o \in Inserts \cup {"delete"} THEN Grown(tree) ELSE tree
  /\ result' = 0
  /\ UNCHANGED <<user, heap, spare, stack, y, bh>>

ChildSide(k, n) == IF k < heap[n].key THEN "left" ELSE "right"

AtEnd == node # Nil => (op # "insert" /\ heap[node].key = x)

Descend ==
  /\ pc = "descend" /\ ~AtEnd
  /\ op # "search" => Depth + 1 <= 2 * tree.bh
  /\ stack' = IF op = "search" THEN stack ELSE Append(stack, node)
  /\ node' = heap[node][ChildSide(x, node)]
  /\ UNCHANGED <<user, heap, tree, spare, pc, op, x, y, bh, result>>

ReturnFound ==
  /\ pc = "descend" /\ AtEnd
  /\ \/ op = "search" \/ (op = "insert_if_absent" /\ node # Nil) \/ (op = "delete" /\ node = Nil)
  /\ Done(IF node = Nil THEN 0 ELSE heap[node].key)
  /\ UNCHANGED <<user, heap, tree, spare>>
-----------------------------------------------------------------------------
(* rb_do_insert. *)
DoInsert ==
  LET n == Malloc
      p == Up(0)
      side == ChildSide(x, p)
  IN /\ pc = "descend" /\ node = Nil /\ op \in Inserts
     /\ IF p = Nil
        THEN /\ heap' = NewNode(x, FALSE, Nil, Nil)
             /\ tree' = [tree EXCEPT !.root = n, !.bh = @ + 1]
             /\ Done(0)
        ELSE /\ heap' = [NewNode(x, TRUE, Nil, Nil) EXCEPT ![p][side] = n]
             /\ pc' = "insert_fixup" /\ node' = n
             /\ UNCHANGED <<tree, stack, op, x, y, bh, result>>
     /\ UNCHANGED <<user, spare>>

(* The assertions of rb_insert_fixup, for a red parent. *)
InsertFixupOK ==
  Red(heap, Up(0)) => /\ Depth >= 2
                      /\ heap[node].red
                      /\ Up(0) # tree.root
                      /\ ~heap[Up(1)].red

(* The loop of rb_insert_fixup: the parent is red, and the uncle is ... *)
ParentSide == IF heap[Up(1)].left = Up(0) THEN "left" ELSE "right"
Uncle == heap[Up(1)][Opp(ParentSide)]

(* ... red. *)
InsertRecolor ==
  /\ pc = "insert_fixup" /\ InsertFixupOK
  /\ Red(heap, Up(0)) /\ Red(heap, Uncle)
  /\ heap' = Paint(Paint(Paint(heap, Uncle, FALSE), Up(0), FALSE), Up(1), TRUE)
  /\ node' = Up(1)
  /\ stack' = SubSeq(stack, 1, Depth - 2)
  /\ UNCHANGED <<user, tree, spare, pc, op, x, y, bh, result>>

(* ... black.  A node on the inner side is first rotated to the outer one. *)
InsertRotate ==
  LET side == ParentSide
      inner == node = heap[Up(0)][Opp(side)]
      h1 == IF inner THEN Rotate(heap, Up(0), Up(1), side) ELSE heap
      p == IF inner THEN node ELSE Up(0)
      h2 == Rotate(h1, Up(1), Up(2), Opp(side))
  IN /\ pc = "insert_fixup" /\ InsertFixupOK
     /\ Red(heap, Up(0)) /\ ~Red(heap, Uncle)
     /\ heap' = Paint(Paint(h2, p, FALSE), Up(1), TRUE)
     /\ tree' = [tree EXCEPT !.root = RootAfter(h1, @, Up(1), Opp(side))]
     /\ Done(0)
     /\ UNCHANGED <<user, spare>>

(* A variant that forgets the black-height when the root turns black. *)
InsertKeepHeight ==
  /\ pc = "insert_fixup" /\ ~Red(heap, Up(0))
  /\ heap' = IF node = tree.root THEN Paint(heap, node, FALSE) ELSE heap
  /\ tree' = tree
  /\ Done(0)
  /\ UNCHANGED <<user, spare>>

InsertDone ==
  /\ pc = "insert_fixup" /\ ~Red(heap, Up(0))
  /\ heap' = IF node = tree.root THEN Paint(heap, node, FALSE) ELSE heap
  /\ tree' = IF node = tree.root THEN [tree EXCEPT !.bh = @ + 1] ELSE tree
  /\ Done(0)
  /\ UNCHANGED <<user, spare>>

-----------------------------------------------------------------------------
(* rb_delete_node: the node to free is the one found or, if that has two   *)
(* children, its successor, whose key it then takes. *)
FindVictim ==
  /\ pc = "descend" /\ op = "delete" /\ node # Nil /\ AtEnd
  /\ IF heap[node].left = Nil \/ heap[node].right = Nil
     THEN pc' = "unlink" /\ y' = node /\ stack' = stack
     ELSE pc' = "successor" /\ y' = heap[node].right /\ stack' = Append(stack, node)
  /\ UNCHANGED <<user, heap, tree, spare, op, x, node, bh, result>>

Successor ==
  /\ pc = "successor"
  /\ IF heap[y].left = Nil THEN pc' = "unlink" /\ UNCHANGED <<y, stack>>
     ELSE /\ Depth + 1 <= 2 * tree.bh
          /\ y' = heap[y].left /\ stack' = Append(stack, y) /\ UNCHANGED pc
  /\ UNCHANGED <<user, heap, tree, spare, op, x, node, bh, result>>

UnlinkOK ==
  IF Depth = 0 THEN tree.root = y ELSE y \in {heap[Up(0)].left, heap[Up(0)].right}

(* A variant that unlinks the successor and keeps the key. *)
UnlinkKeepKey ==
  LET w == IF heap[y].right # Nil THEN heap[y].right ELSE heap[y].left
      h == Relink(heap, y, Up(0), w)
  IN /\ pc = "unlink" /\ UnlinkOK
     /\ heap' = [n \in DOMAIN heap \ {y} |-> h[n]]
     /\ tree' = IF Depth = 0 THEN [tree EXCEPT !.root = w] ELSE tree
     /\ IF heap[y].red THEN Done(0)
        ELSE /\ pc' = "delete_fixup" /\ node' = w /\ y' = Nil
             /\ UNCHANGED <<stack, op, x, bh, result>>
     /\ UNCHANGED <<user, spare>>

(* A variant that goes on from the node it has freed. *)
UnlinkGoOnFreed ==
  LET w == IF heap[y].right # Nil THEN heap[y].right ELSE heap[y].left
      h == Relink([heap EXCEPT ![node].key = heap[y].key], y, Up(0), w)
  IN /\ pc = "unlink" /\ UnlinkOK
     /\ heap' = [n \in DOMAIN heap \ {y} |-> h[n]]
     /\ tree' = IF Depth = 0 THEN [tree EXCEPT !.root = w] ELSE tree
     /\ IF heap[y].red THEN Done(0)
        ELSE /\ pc' = "delete_fixup" /\ node' = y /\ y' = Nil
             /\ UNCHANGED <<stack, op, x, bh, result>>
     /\ UNCHANGED <<user, spare>>

Unlink ==
  LET w == IF heap[y].right # Nil THEN heap[y].right ELSE heap[y].left
      h == Relink([heap EXCEPT ![node].key = heap[y].key], y, Up(0), w)
  IN /\ pc = "unlink" /\ UnlinkOK
     /\ heap' = [n \in DOMAIN heap \ {y} |-> h[n]]
     /\ tree' = IF Depth = 0 THEN [tree EXCEPT !.root = w] ELSE tree
     /\ IF heap[y].red THEN Done(0)
        ELSE /\ pc' = "delete_fixup" /\ node' = w /\ y' = Nil
             /\ UNCHANGED <<stack, op, x, bh, result>>
     /\ UNCHANGED <<user, spare>>

(* The loop of rb_delete_fixup: node has an extra black. *)
Side == IF heap[Up(0)].left = node THEN "left" ELSE "right"
Sibling == heap[Up(0)][Opp(Side)]
Nephew(side) == heap[Sibling][side]
NephewsBlack == ~Red(heap, Nephew("left")) /\ ~Red(heap, Nephew("right"))
Looping == pc = "delete_fixup" /\ ~Red(heap, node) /\ node # tree.root

DeleteFixupOK ==
  /\ Depth >= 1
  /\ Sibling # Nil
  /\ Sibling # Nil =>
       /\ Red(heap, Sibling) => NephewsBlack /\ ~heap[Up(0)].red
       /\ ~NephewsBlack /\ Up(0) # tree.root => Up(0) \in {heap[Up(1)].left, heap[Up(1)].right}

DeleteRecolor ==
  /\ Looping /\ DeleteFixupOK
  /\ NephewsBlack /\ ~heap[Sibling].red
  /\ heap' = Paint(heap, Sibling, TRUE)
  /\ node' = Up(0)
  /\ stack' = SubSeq(stack, 1, Depth - 1)
  /\ UNCHANGED <<user, tree, spare, pc, op, x, y, bh, result>>

(* A variant that does not repair the stack. *)
DeleteLiftStale ==
  /\ Looping /\ DeleteFixupOK
  /\ NephewsBlack /\ heap[Sibling].red
  /\ heap' = Paint(Paint(Rotate(heap, Up(0), Up(1), Side), Sibling, FALSE), Up(0), TRUE)
  /\ tree' = [tree EXCEPT !.root = RootAfter(heap, @, Up(0), Side)]
  /\ UNCHANGED <<user, spare, stack, pc, op, x, node, y, bh, result>>

DeleteLift ==
  /\ Looping /\ DeleteFixupOK
  /\ NephewsBlack /\ heap[Sibling].red
  /\ heap' = Paint(Paint(Rotate(heap, Up(0), Up(1), Side), Sibling, FALSE), Up(0), TRUE)
  /\ tree' = [tree EXCEPT !.root = RootAfter(heap, @, Up(0), Side)]
  /\ stack' = [stack EXCEPT ![Depth] = Sibling] \o <<Up(0)>>
  /\ UNCHANGED <<user, spare, pc, op, x, node, y, bh, result>>

(* A variant that leaves the far nephew red. *)
DeleteRotateRed ==
  LET side == Side
      far == Opp(side)
      p == Up(0)
      inner == ~Red(heap, Nephew(far))
      h1 == IF inner THEN Paint(Rotate(heap, Sibling, p, far), Sibling, TRUE) ELSE heap
      w == h1[p][far]
      h2 == IF inner THEN Paint(h1, w, FALSE) ELSE h1
      h3 == Rotate(h2, p, Up(1), side)
  IN /\ Looping /\ DeleteFixupOK
     /\ ~NephewsBlack
     /\ heap' = Paint(Paint(h3, w, heap[p].red), p, FALSE)
     /\ tree' = [tree EXCEPT !.root = RootAfter(h2, @, p, side)]
     /\ Done(0)
     /\ UNCHANGED <<user, spare>>

DeleteRotate ==
  LET side == Side
      far == Opp(side)
      p == Up(0)
      inner == ~Red(heap, Nephew(far))
      h1 == IF inner THEN Paint(Rotate(heap, Sibling, p, far), Sibling, TRUE) ELSE heap
      w == h1[p][far]
      h2 == IF inner THEN Paint(h1, w, FALSE) ELSE h1
      h3 == Rotate(h2, p, Up(1), side)
  IN /\ Looping /\ DeleteFixupOK
     /\ ~NephewsBlack
     /\ heap' = Paint(Paint(Paint(h3, w, heap[p].red), p, FALSE), h3[w][far], FALSE)
     /\ tree' = [tree EXCEPT !.root = RootAfter(h2, @, p, side)]
     /\ Done(0)
     /\ UNCHANGED <<user, spare>>

DeleteDone ==
  /\ pc = "delete_fixup" /\ ~Looping
  /\ heap' = IF Red(heap, node) THEN Paint(heap, node, FALSE) ELSE heap
  /\ tree' = IF Red(heap, node) THEN tree ELSE [tree EXCEPT !.bh = @ - 1]
  /\ Done(0)
  /\ UNCHANGED <<user, spare>>

-----------------------------------------------------------------------------
(* rb_minimum: to the left as far as possible. *)
GoLeft ==
  /\ pc = "minimum" /\ node # Nil /\ heap[node].left # Nil
  /\ node' = heap[node].left
  /\ UNCHANGED <<user, heap, tree, spare, stack, pc, op, x, y, bh, result>>

Minimum ==
  /\ pc = "minimum" /\ (node # Nil => heap[node].left = Nil)
  /\ Done(IF node = Nil THEN 0 ELSE heap[node].key)
  /\ UNCHANGED <<user, heap, tree, spare>>

Clear ==
  /\ pc = "clear"
  /\ heap' = [n \in DOMAIN heap \ NodesOf(tree) |-> heap[n]]
  /\ tree' = [tree EXCEPT !.root = Nil, !.bh = 0]
  /\ Done(0)
  /\ UNCHANGED <<user, spare>>

(* The caller turns to its other tree. *)
Swap ==
  /\ pc = "swap"
  /\ tree' = spare /\ spare' = tree
  /\ Done(0)
  /\ UNCHANGED <<user, heap>>

(* rb_join. *)
JoinTrivial ==
  /\ pc = "join" /\ Nil \in {tree.root, spare.root}
  /\ tree' = IF tree.root = Nil THEN spare ELSE tree
  /\ spare' = NewTree
  /\ Done(0)
  /\ UNCHANGED <<user, heap>>

(* The higher tree is entered along the side where the other one is to be. *)
JoinStart ==
  LET first == tree.bh >= spare.bh
  IN /\ pc = "join" /\ Nil \notin {tree.root, spare.root}
     /\ pc' = IF first THEN "join_right" ELSE "join_left"
     /\ tree' = IF first THEN Grown(tree) ELSE tree
     /\ spare' = IF first THEN spare ELSE Grown(spare)
     /\ node' = IF first THEN tree.root ELSE spare.root
     /\ bh' = IF first THEN tree.bh ELSE spare.bh
     /\ UNCHANGED <<user, heap, stack, op, x, y, result>>

Joining == pc \in {"join_right", "join_left"}
Higher == IF pc = "join_left" THEN spare ELSE tree
Lower == IF pc = "join_left" THEN tree ELSE spare
JoinSide == IF pc = "join_left" THEN "left" ELSE "right"
AtHeight == node = Nil \/ bh = Lower.bh

JoinDescend ==
  LET next == heap[node][JoinSide]
  IN /\ Joining /\ ~AtHeight
     /\ Depth + 1 <= 2 * Higher.bh
     /\ stack' = Append(stack, node)
     /\ node' = next
     /\ bh' = IF Red(heap, next) THEN bh ELSE bh - 1
     /\ UNCHANGED <<user, heap, tree, spare, pc, op, x, y, result>>

JoinLinkOK ==
  /\ bh = Lower.bh
  /\ Up(0) # Nil => IF pc = "join_right" THEN ~(x < heap[Up(0)].key) ELSE ~(heap[Up(0)].key < x)

JoinLink ==
  LET n == Malloc
      p == Up(0)
      l == IF pc = "join_right" THEN node ELSE Lower.root
      r == IF pc = "join_right" THEN Lower.root ELSE node
  IN /\ Joining /\ AtHeight /\ JoinLinkOK
     /\ spare' = NewTree
     /\ IF p = Nil
        THEN /\ heap' = NewNode(x, FALSE, l, r)
             /\ tree' = [Higher EXCEPT !.root = n, !.bh = @ + 1]
             /\ Done(0)
        ELSE /\ heap' = [NewNode(x, TRUE, l, r) EXCEPT ![p][JoinSide] = n]
             /\ tree' = Higher
             /\ pc' = "insert_fixup" /\ node' = n /\ bh' = 0
             /\ UNCHANGED <<stack, op, x, y, result>>
     /\ UNCHANGED user
-----------------------------------------------------------------------------
Init ==
  /\ user \in Users
  /\ heap = [n \in {} |-> 0]
  /\ tree = NewTree /\ spare = NewTree
  /\ stack = <<>> /\ pc = "idle" /\ op = "none"
  /\ x = 0 /\ node = Nil /\ y = Nil /\ bh = 0 /\ result = 0

Next ==
  \/ \E o \in user.calls : Call(o)
  \/ Descend \/ ReturnFound
  \/ DoInsert \/ InsertRecolor \/ InsertRotate \/ InsertDone
  \/ FindVictim \/ Successor \/ Unlink
  \/ DeleteRecolor \/ DeleteLift \/ DeleteRotate \/ DeleteDone
  \/ GoLeft \/ Minimum \/ Clear \/ Swap
  \/ JoinTrivial \/ JoinStart \/ JoinDescend \/ JoinLink

Spec == Init /\ [][Next]_vars
-----------------------------------------------------------------------------
TypeOK ==
  /\ user \in Users /\ DOMAIN heap \subseteq user.nodes
  /\ \A n \in DOMAIN heap :
       heap[n] \in [key : Keys, red : BOOLEAN, left : DOMAIN heap \cup {Nil},
                    right : DOMAIN heap \cup {Nil}]
  /\ {tree.root, spare.root, node, y} \subseteq DOMAIN heap \cup {Nil}
  /\ tree.bh \in Nat /\ spare.bh \in Nat /\ bh \in Nat
  /\ x \in Keys \cup {0} /\ result \in Keys \cup {0}

(* The number of black nodes on the way to any leaf, the leaf counted, if   *)
(* it is the same for all and no red node has a red child; else 0. *)
BlackHeight(h, n) ==
  LET height[d \in 0..Cardinality(DOMAIN h)] ==
        [m \in DOMAIN h \cup {Nil} |->
           IF m = Nil THEN 1
           ELSE IF d = 0 THEN 0
           ELSE LET l == height[d - 1][h[m].left]
                    r == height[d - 1][h[m].right]
                IN IF l = 0 \/ l # r \/ (h[m].red /\ (Red(h, h[m].left) \/ Red(h, h[m].right)))
                   THEN 0
                   ELSE IF h[m].red THEN l ELSE l + 1]
  IN height[Cardinality(DOMAIN h)][n]

(* A tree that no call is working on is a red-black tree: its root is      *)
(* black, no red node has a red child, every path to a leaf has the same   *)
(* number of black nodes, and tree->bh is that number: every path of every *)
(* later walk is therefore at most 2 * bh long. *)
RedBlack ==
  pc = "idle" => \A t \in {tree, spare} : ~Red(heap, t.root) /\ BlackHeight(heap, t.root) = t.bh + 1

(* A rotation loses no subtree and shares none: each node in use is in one *)
(* of the trees, once. *)
NothingLost ==
  /\ NodesOf(tree) \cup NodesOf(spare) = DOMAIN heap
  /\ NodesOf(tree) \cap NodesOf(spare) = {}
  /\ \A n \in DOMAIN heap :
       LET l == Below(heap, heap[n].left)
           r == Below(heap, heap[n].right)
       IN l \cap r = {} /\ n \notin l \cup r

(* The stack lists the ancestors of the node at hand, from the root down,  *)
(* although rotations change them, and it never outgrows its memory: in    *)
(* rb_delete_fixup it grows without a check ("we can always do this"). *)
StackIsPath ==
  LET at == IF y # Nil THEN y ELSE node
      path == stack \o <<at>>
  IN /\ Depth > 0 => /\ path[1] = Higher.root
                     /\ \A i \in 1..Depth : path[i + 1] \in {heap[path[i]].left, heap[path[i]].right}
                     /\ Depth < Higher.ssize

(* No assertion of rbtree.c fails: the path is never longer than twice the *)
(* black-height, which bounds the stack, and the fixups find the shapes and *)
(* colours they rely on. *)
AssertionsHold ==
  /\ \/ pc = "descend" /\ ~AtEnd /\ op # "search"
     \/ pc = "successor" /\ heap[y].left # Nil
     => Depth + 1 <= 2 * tree.bh
  /\ pc = "descend" /\ node = Nil /\ op \in Inserts /\ Depth = 0 => tree.bh = 0
  /\ pc = "insert_fixup" => InsertFixupOK /\ heap[node].red /\ (node = tree.root => Depth = 0)
  /\ pc = "unlink" => UnlinkOK
  /\ Looping => DeleteFixupOK
  /\ Joining /\ ~AtHeight => Depth + 1 <= 2 * Higher.bh
  /\ Joining /\ AtHeight => JoinLinkOK

(* The trees are the ordered bags of the header: each call takes effect    *)
(* once, and returns what the bag it found says; but a join may forget its *)
(* key if one of the trees is empty. *)
Contents(t) ==
  LET used == NodesOf(t)
  IN [k \in Keys |-> Cardinality({n \in used : heap[n].key = k})]
Bag == INSTANCE OrderedBag WITH
  bag <- Contents(tree),
  spare <- Contents(spare),
  call <- [op |-> op, key |-> x],
  phase <- IF pc = "idle" THEN "idle"
           ELSE IF pc \in {"insert_fixup", "delete_fixup"} THEN "effective" ELSE "called"
IsOrderedBag == Bag!BagSpec
=============================================================================
