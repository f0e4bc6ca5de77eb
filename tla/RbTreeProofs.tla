---------------------------- MODULE RbTreeProofs ----------------------------
(***************************************************************************)
(* Proofs about the red-black trees: between two calls both trees are      *)
(* balanced, a walk never outgrows its stack, no assertion fails, and the  *)
(* trees are ordered bags, for any keys, any memory and any calls.         *)
(*                                                                         *)
(* What the proofs know of a heap h is D, the nodes below each node, and   *)
(* b, its black-height.                                                    *)
(***************************************************************************)
EXTENDS RbTree, Induction, FiniteSetTheorems, SequenceTheorems
-----------------------------------------------------------------------------
(***************************************************************************)
(* Forests.  D[n] is the set of the nodes of the subtree of n.             *)
(***************************************************************************)
Sides == {"left", "right"}
Places(h) == DOMAIN h \cup {Nil}

Cells(h) == [key : Nat, red : BOOLEAN, left : Places(h), right : Places(h)]
IsHeap(h) == h \in [DOMAIN h -> Cells(h)] /\ Nil \notin DOMAIN h

Forest(h, D) ==
  /\ D \in [Places(h) -> SUBSET DOMAIN h] /\ D[Nil] = {}
  /\ \A n \in DOMAIN h :
       /\ D[n] = {n} \cup D[h[n].left] \cup D[h[n].right]
       /\ n \notin D[h[n].left] /\ n \notin D[h[n].right]
       /\ D[h[n].left] \cap D[h[n].right] = {}
  /\ \A n \in DOMAIN h : \A m \in D[n] : D[m] \subseteq D[n]
  /\ \A n, m, k \in DOMAIN h : k \in D[n] /\ k \in D[m] => n \in D[m] \/ m \in D[n]

LEMMA OppSide ==
  ASSUME NEW s \in Sides
  PROVE  Opp(s) \in Sides /\ Opp(s) # s /\ Opp(Opp(s)) = s /\ \A t \in Sides : t = s \/ t = Opp(s)
BY DEF Sides, Opp

LEMMA ChildIs ==
  ASSUME NEW h, IsHeap(h), NEW n \in DOMAIN h, NEW s \in Sides
  PROVE  h[n][s] \in Places(h) /\ (h[n][s] # Nil => h[n][s] \in DOMAIN h)
BY DEF IsHeap, Cells, Sides, Places

(* The same for a side that is given. *)
LEMMA ForestSides ==
  ASSUME NEW h, NEW D, IsHeap(h), Forest(h, D), NEW n \in DOMAIN h, NEW s \in Sides
  PROVE  /\ n \in D[n] /\ D[n] \subseteq DOMAIN h
         /\ D[n] = {n} \cup D[h[n][s]] \cup D[h[n][Opp(s)]]
         /\ n \notin D[h[n][s]] /\ D[h[n][s]] \cap D[h[n][Opp(s)]] = {}
         /\ D[h[n][s]] \subseteq D[n]
<1>1. h[n]["left"] = h[n].left /\ h[n]["right"] = h[n].right
  BY DEF IsHeap, Cells
<1>2. D[n] \subseteq DOMAIN h
  BY DEF Forest, Places
<1>3. CASE s = "left"
  BY <1>1, <1>2, <1>3 DEF Forest, Opp
<1>4. CASE s = "right"
  BY <1>1, <1>2, <1>4 DEF Forest, Opp
<1> QED BY <1>3, <1>4 DEF Sides

LEMMA Within ==
  ASSUME NEW h, NEW D, IsHeap(h), Forest(h, D), NEW n \in DOMAIN h
  PROVE  n \in D[n] /\ D[n] \subseteq DOMAIN h /\ n # Nil /\ n \in Places(h)
BY DEF Forest, Places, IsHeap

LEMMA Under ==
  ASSUME NEW h, NEW D, IsHeap(h), Forest(h, D), NEW n \in Places(h), NEW m \in D[n]
  PROVE  n \in DOMAIN h /\ m \in DOMAIN h /\ D[m] \subseteq D[n] /\ m \in D[m]
<1>1. n \in DOMAIN h
  BY DEF Forest, Places
<1>2. m \in DOMAIN h /\ D[m] \subseteq D[n]
  BY <1>1 DEF Forest, Places
<1> QED BY <1>1, <1>2, Within

LEMMA BelowChild ==
  ASSUME NEW h, NEW D, IsHeap(h), Forest(h, D), NEW n \in DOMAIN h, NEW m \in D[n], m # n
  PROVE  \E s \in Sides : m \in D[h[n][s]] /\ h[n][s] \in DOMAIN h
<1>1. "left" \in Sides /\ Opp("left") = "right" /\ "right" \in Sides
  BY DEF Sides, Opp
<1>2. m \in D[h[n]["left"]] \/ m \in D[h[n]["right"]]
  BY <1>1, ForestSides
<1>3. \A s \in Sides : h[n][s] = Nil => m \notin D[h[n][s]]
  BY DEF Forest
<1> QED BY <1>1, <1>2, <1>3, ChildIs

LEMMA Antisymmetric ==
  ASSUME NEW h, NEW D, IsHeap(h), Forest(h, D), NEW n \in DOMAIN h, NEW m \in D[n], n \in D[m]
  PROVE  m = n
<1> SUFFICES ASSUME m # n PROVE FALSE
  OBVIOUS
<1>1. PICK s \in Sides : m \in D[h[n][s]] /\ h[n][s] \in DOMAIN h
  BY BelowChild
<1>2. D[m] \subseteq D[h[n][s]]
  BY <1>1 DEF Forest
<1>3. n \notin D[h[n][s]]
  BY ForestSides
<1> QED BY <1>2, <1>3

LEMMA ParentAbove ==
  ASSUME NEW h, NEW D, IsHeap(h), Forest(h, D), NEW p \in DOMAIN h, NEW s \in Sides,
         h[p][s] # Nil, NEW m \in DOMAIN h, h[p][s] \in D[m], m # h[p][s]
  PROVE  p \in D[m]
<1> DEFINE c == h[p][s]
<1>1. c \in DOMAIN h /\ c \in D[c] /\ c \in D[p] /\ p \in D[p]
  BY ChildIs, ForestSides
<1>2. p \in D[m] \/ m \in D[p]
  BY <1>1 DEF Forest
<1> SUFFICES ASSUME m \in D[p], m # p PROVE FALSE
  BY <1>1, <1>2
<1>3. PICK t \in Sides : m \in D[h[p][t]] /\ h[p][t] \in DOMAIN h
  BY BelowChild
<1>4. CASE t = s
  BY <1>1, <1>3, <1>4, Antisymmetric
<1>5. CASE t = Opp(s)
  <2>1. c \in D[h[p][t]]
    BY <1>3 DEF Forest
  <2> QED BY <2>1, <1>1, <1>5, ForestSides
<1> QED BY <1>4, <1>5, OppSide

LEMMA OneParent ==
  ASSUME NEW h, NEW D, IsHeap(h), Forest(h, D), NEW p \in DOMAIN h, NEW q \in DOMAIN h,
         NEW s \in Sides, NEW t \in Sides, h[p][s] # Nil, h[p][s] = h[q][t]
  PROVE  p = q /\ s = t
<1> DEFINE c == h[p][s]
<1>1. c \in DOMAIN h /\ c \in D[c] /\ c \in D[p] /\ c \in D[q] /\ c # p /\ c # q
  BY ChildIs, ForestSides
<1>2. p \in D[q] /\ q \in D[p]
  BY <1>1, ParentAbove
<1>3. p = q
  BY <1>2, Antisymmetric
<1>4. s # t => t = Opp(s)
  BY OppSide
<1> QED BY <1>1, <1>3, <1>4, ForestSides
-----------------------------------------------------------------------------
(***************************************************************************)
(* A rotation: r, a child of n, takes the place of n, which goes down to   *)
(* the side s.                                                             *)
(***************************************************************************)
SameNodes(h, g) ==
  DOMAIN g = DOMAIN h /\ \A m \in DOMAIN h : g[m].key = h[m].key

Turned(h, g, n, r, s) ==
  /\ g[r][s] = n /\ g[r][Opp(s)] = h[r][Opp(s)]
  /\ g[n][s] = h[n][s] /\ g[n][Opp(s)] = h[r][s]
  /\ \A m \in DOMAIN h \ {n, r} : \A t \in Sides : g[m][t] = IF h[m][t] = n THEN r ELSE h[m][t]

TurnedBelow(h, D, n, r, s) ==
  [D EXCEPT ![r] = D[n], ![n] = {n} \cup D[h[n][s]] \cup D[h[r][s]]]

(* A heap may be looked at from either side. *)
LEMMA ForestFrom ==
  ASSUME NEW h, IsHeap(h), NEW D \in [Places(h) -> SUBSET DOMAIN h], D[Nil] = {},
         \A n \in DOMAIN h : \E s \in Sides :
           /\ D[n] = {n} \cup D[h[n][s]] \cup D[h[n][Opp(s)]]
           /\ n \notin D[h[n][s]] /\ n \notin D[h[n][Opp(s)]]
           /\ D[h[n][s]] \cap D[h[n][Opp(s)]] = {},
         \A n \in DOMAIN h : \A m \in D[n] : D[m] \subseteq D[n],
         \A n, m, k \in DOMAIN h : k \in D[n] /\ k \in D[m] => n \in D[m] \/ m \in D[n]
  PROVE  Forest(h, D)
<1> SUFFICES ASSUME NEW n \in DOMAIN h
             PROVE  /\ D[n] = {n} \cup D[h[n].left] \cup D[h[n].right]
                    /\ n \notin D[h[n].left] /\ n \notin D[h[n].right]
                    /\ D[h[n].left] \cap D[h[n].right] = {}
  BY DEF Forest
<1>1. h[n]["left"] = h[n].left /\ h[n]["right"] = h[n].right
  BY DEF IsHeap, Cells
<1>2. PICK s \in Sides :
           /\ D[n] = {n} \cup D[h[n][s]] \cup D[h[n][Opp(s)]]
           /\ n \notin D[h[n][s]] /\ n \notin D[h[n][Opp(s)]]
           /\ D[h[n][s]] \cap D[h[n][Opp(s)]] = {}
  OBVIOUS
<1>3. CASE s = "left"
  BY <1>1, <1>2, <1>3 DEF Opp
<1>4. CASE s = "right"
  BY <1>1, <1>2, <1>4 DEF Opp
<1> QED BY <1>3, <1>4 DEF Sides

LEMMA ForestTurned ==
  ASSUME NEW h, NEW g, NEW D, IsHeap(h), IsHeap(g), Forest(h, D), SameNodes(h, g),
         NEW n \in DOMAIN h, NEW r \in DOMAIN h, NEW s \in Sides, r = h[n][Opp(s)],
         Turned(h, g, n, r, s)
  PROVE  Forest(g, TurnedBelow(h, D, n, r, s))
<1> DEFINE a == h[n][s]
           b == h[r][s]
           c == h[r][Opp(s)]
           E == TurnedBelow(h, D, n, r, s)
<1>1. a \in Places(h) /\ b \in Places(h) /\ c \in Places(h) /\ Opp(s) \in Sides /\ DOMAIN g = DOMAIN h
      /\ Opp(Opp(s)) = s /\ n \in Places(h) /\ r \in Places(h)
  BY ChildIs, OppSide DEF SameNodes, Places
<1>2. /\ D \in [Places(h) -> SUBSET DOMAIN h] /\ D[Nil] = {}
      /\ \A p \in DOMAIN h : p \in D[p] /\ \A m \in D[p] : D[m] \subseteq D[p]
      /\ \A p, m, k \in DOMAIN h : k \in D[p] /\ k \in D[m] => p \in D[m] \/ m \in D[p]
  BY ForestSides DEF Forest
<1>3. /\ D[n] = {n} \cup D[a] \cup D[r] /\ n \notin D[a] /\ n \notin D[r] /\ D[a] \cap D[r] = {}
      /\ D[r] = {r} \cup D[b] \cup D[c] /\ r \notin D[b] /\ r \notin D[c] /\ D[b] \cap D[c] = {}
      /\ n # r
  BY <1>1, <1>2, ForestSides
<1>4. a # r /\ a # n /\ b # n /\ b # r /\ c # n /\ c # r
  BY <1>2, <1>3
<1>5. E \in [Places(h) -> SUBSET DOMAIN h]
  <2>1. {n} \cup D[a] \cup D[b] \in SUBSET DOMAIN h /\ D[n] \in SUBSET DOMAIN h
    BY <1>1, <1>2
  <2> QED BY <2>1, <1>1, <1>2 DEF TurnedBelow
<1>6. /\ E[r] = D[n] /\ E[n] = {n} \cup D[a] \cup D[b]
      /\ \A m \in Places(h) : m # n /\ m # r => E[m] = D[m]
  BY <1>1, <1>2, <1>3 DEF TurnedBelow
<1>7. E[Nil] = {} /\ E[a] = D[a] /\ E[b] = D[b] /\ E[c] = D[c]
  BY <1>1, <1>2, <1>4, <1>6 DEF IsHeap, Places
<1> HIDE DEF E
<1>8. ASSUME NEW m \in DOMAIN h
      PROVE  \E t \in Sides :
               /\ E[m] = {m} \cup E[g[m][t]] \cup E[g[m][Opp(t)]]
               /\ m \notin E[g[m][t]] /\ m \notin E[g[m][Opp(t)]]
               /\ E[g[m][t]] \cap E[g[m][Opp(t)]] = {}
  <2>1. CASE m = n
    BY <2>1, <1>3, <1>6, <1>7 DEF Turned
  <2>2. CASE m = r
    BY <2>2, <1>3, <1>6, <1>7 DEF Turned
  <2>3. CASE m # n /\ m # r
    <3>1. ASSUME NEW t \in Sides PROVE E[g[m][t]] = D[h[m][t]]
      <4>1. h[m][t] \in Places(h)
        BY ChildIs
      <4>2. h[m][t] # r
        BY <1>1, <2>3, OneParent DEF IsHeap
      <4>3. g[m][t] = IF h[m][t] = n THEN r ELSE h[m][t]
        BY <2>3 DEF Turned
      <4> QED BY <4>1, <4>2, <4>3, <1>6
    <3>2. E[m] = D[m]
      BY <2>3, <1>6 DEF Places
    <3> QED BY <3>1, <3>2, ForestSides, OppSide
  <2> QED BY <2>1, <2>2, <2>3
<1>10. ASSUME NEW m \in DOMAIN h, m # r, r \in D[m] PROVE n \in D[m]
  BY <1>10, <1>1, ParentAbove DEF IsHeap
<1>11. ASSUME NEW m \in DOMAIN h, NEW k \in E[m] PROVE E[k] \subseteq E[m]
  <2>0. k \in DOMAIN h
    BY <1>5 DEF Places
  <2>1. CASE m = n
    <3>1. k = n \/ (k # n /\ k # r /\ (k \in D[a] \/ k \in D[b]))
      BY <2>1, <1>3, <1>6
    <3>2. k # n => D[k] \subseteq E[n]
      <4>1. k \in D[a] => D[k] \subseteq D[a]
        BY <1>1, <1>2 DEF Places
      <4>2. k \in D[b] => D[k] \subseteq D[b]
        BY <1>1, <1>2 DEF Places
      <4> QED BY <4>1, <4>2, <3>1, <1>6
    <3> QED BY <2>0, <2>1, <3>1, <3>2, <1>6 DEF Places
  <2>2. CASE m # n
    <3>1. E[m] = IF m = r THEN D[n] ELSE D[m]
      BY <2>2, <1>6 DEF Places
    <3>2. CASE k = n
      <4>1. E[n] \subseteq D[n]
        BY <1>3, <1>6
      <4> QED BY <3>1, <3>2, <4>1, <1>2
    <3>3. CASE k = r
      <4>1. E[r] = D[n]
        BY <1>6
      <4>2. m # r => n \in D[m]
        BY <3>1, <3>3, <1>10
      <4> QED BY <3>1, <3>3, <4>1, <4>2, <1>2
    <3>4. CASE k # n /\ k # r
      <4>1. E[k] = D[k]
        BY <2>0, <3>4, <1>6 DEF Places
      <4> QED BY <3>1, <4>1, <1>2
    <3> QED BY <3>2, <3>3, <3>4
  <2> QED BY <2>1, <2>2
<1>12. ASSUME NEW p \in DOMAIN h, NEW m \in DOMAIN h, NEW k \in DOMAIN h, k \in E[p], k \in E[m]
       PROVE  p \in E[m] \/ m \in E[p]
  <2>1. ASSUME NEW q \in DOMAIN h PROVE E[q] \subseteq D[IF q = r THEN n ELSE q]
    BY <1>3, <1>6 DEF Places
  <2>2. ASSUME NEW q \in DOMAIN h, q # n, q # r PROVE E[q] = D[q]
    BY <2>2, <1>6 DEF Places
  <2>3. ASSUME NEW q \in DOMAIN h, q # n, q # r, NEW l \in DOMAIN h, l \in D[q], l \in D[n]
        PROVE  n \in D[q] \/ q \in D[a] \/ q \in D[b] \/ q \in D[c]
    BY <2>3, <1>2, <1>3
  <2>4. ASSUME NEW q \in DOMAIN h, n \in D[q], q # n PROVE r \in D[q]
    BY <2>4, <1>2, <1>3
  <2>5. ASSUME NEW q \in DOMAIN h, q # n, q # r, NEW l \in DOMAIN h, l \in D[q], l \in D[n]
        PROVE  (r \in E[q] \/ q \in E[r]) /\ (l \in E[n] => n \in E[q] \/ q \in E[n])
    <3>1. n \in D[q] \/ q \in D[a] \/ q \in D[b] \/ q \in D[c]
      BY <2>3, <2>5
    <3>2. n \in D[q] => r \in E[q] /\ n \in E[q]
      BY <2>2, <2>4, <2>5
    <3>3. q \in D[a] \/ q \in D[b] => q \in E[n] /\ q \in E[r]
      BY <1>3, <1>6
    <3>4. q \in D[c] => q \in E[r]
      BY <1>3, <1>6
    <3>5. q \in D[c] => l \notin E[n]
      <4>1. q \in D[c] => D[q] \subseteq D[c]
        BY <1>1, <1>2 DEF Places
      <4> QED BY <4>1, <2>5, <1>3, <1>6
    <3> QED BY <3>1, <3>2, <3>3, <3>4, <3>5
  <2>6. n \in E[r] /\ r \in E[r] /\ n \in E[n]
    BY <1>3, <1>6
  <2>7. CASE p = n \/ p = r
    <3>1. CASE m = n \/ m = r
      BY <2>6, <2>7, <3>1
    <3>2. CASE m # n /\ m # r
      BY <1>12, <2>1, <2>2, <2>5, <2>7, <3>2
    <3> QED BY <3>1, <3>2
  <2>8. CASE p # n /\ p # r
    <3>1. CASE m = n \/ m = r
      BY <1>12, <2>1, <2>2, <2>5, <2>8, <3>1
    <3>2. CASE m # n /\ m # r
      BY <1>12, <2>2, <2>8, <3>2, <1>2
    <3> QED BY <3>1, <3>2
  <2> QED BY <2>7, <2>8
<1> QED
  <2>1. E \in [Places(g) -> SUBSET DOMAIN g] /\ E[Nil] = {}
    BY <1>1, <1>5, <1>7 DEF Places
  <2> HIDE DEF a, b, c
  <2>2. Forest(g, E)
    BY <2>1, <1>1, <1>8, <1>11, <1>12, ForestFrom
  <2> QED BY <2>2 DEF E

(* The children of the other nodes have the nodes below them they had. *)
LEMMA TurnedChildren ==
  ASSUME NEW h, NEW g, NEW D, IsHeap(h), Forest(h, D), SameNodes(h, g),
         NEW n \in DOMAIN h, NEW r \in DOMAIN h, NEW s \in Sides, r = h[n][Opp(s)],
         Turned(h, g, n, r, s), NEW E, E = TurnedBelow(h, D, n, r, s)
  PROVE  /\ E[r] = D[n] /\ E[n] = {n} \cup D[h[n][s]] \cup D[h[r][s]]
         /\ \A m \in Places(h) : m # n /\ m # r => E[m] = D[m]
         /\ \A m \in DOMAIN h \ {n, r} : \A t \in Sides : E[g[m][t]] = D[h[m][t]]
         /\ \A t \in Sides : E[h[r][t]] = D[h[r][t]] /\ E[h[n][s]] = D[h[n][s]]
<1>1. D \in [Places(h) -> SUBSET DOMAIN h] /\ D[Nil] = {} /\ Nil \notin DOMAIN h
  BY DEF Forest, IsHeap
<1>2. Opp(s) \in Sides /\ n # r
  BY OppSide, ForestSides
<1>3. /\ E[r] = D[n] /\ E[n] = {n} \cup D[h[n][s]] \cup D[h[r][s]]
      /\ \A m \in Places(h) : m # n /\ m # r => E[m] = D[m]
  BY <1>1, <1>2 DEF TurnedBelow, Places
<1>4. ASSUME NEW m \in DOMAIN h \ {n, r}, NEW t \in Sides PROVE E[g[m][t]] = D[h[m][t]]
  <2>1. h[m][t] \in Places(h)
    BY ChildIs
  <2>2. h[m][t] # r
    BY <1>1, <1>2, OneParent
  <2>3. g[m][t] = IF h[m][t] = n THEN r ELSE h[m][t]
    BY DEF Turned
  <2> QED BY <2>1, <2>2, <2>3, <1>3
<1>5. ASSUME NEW t \in Sides PROVE E[h[r][t]] = D[h[r][t]] /\ E[h[n][s]] = D[h[n][s]]
  <2>1. h[r][t] # n /\ h[r][t] # r
    <3>1. r \in D[n] /\ n \in D[n] /\ r \in D[r] /\ r \notin D[h[r][t]] /\ D[h[r][t]] \subseteq D[r] /\ n \notin D[r]
      BY <1>2, ForestSides
    <3> QED BY <3>1
  <2>2. h[n][s] # n /\ h[n][s] # r
    BY <1>1, <1>2, OneParent, OppSide, ForestSides
  <2>3. h[r][t] \in Places(h) /\ h[n][s] \in Places(h)
    BY ChildIs
  <2> QED BY <2>1, <2>2, <2>3, <1>3
<1> QED BY <1>3, <1>4, <1>5

(* The keys to a side of a node are not on the other side of its key. *)
Fits(s, k, l) == IF s = "left" THEN k <= l ELSE l <= k

Ordered(h, D) ==
  \A n \in DOMAIN h : \A s \in Sides : \A m \in D[h[n][s]] : Fits(s, h[m].key, h[n].key)

LEMMA FitsFacts ==
  ASSUME NEW s \in Sides, NEW k \in Nat, NEW l \in Nat, NEW m \in Nat
  PROVE  /\ Fits(s, k, k) /\ (Fits(Opp(s), k, l) <=> Fits(s, l, k))
         /\ Fits(s, k, l) /\ Fits(s, l, m) => Fits(s, k, m)
         /\ Fits(s, k, l) /\ Fits(s, l, k) => k = l
BY DEF Fits, Opp, Sides

LEMMA OrderedTurned ==
  ASSUME NEW h, NEW g, NEW D, IsHeap(h), Forest(h, D), Ordered(h, D), SameNodes(h, g),
         NEW n \in DOMAIN h, NEW r \in DOMAIN h, NEW s \in Sides, r = h[n][Opp(s)],
         Turned(h, g, n, r, s)
  PROVE  Ordered(g, TurnedBelow(h, D, n, r, s))
<1> DEFINE E == TurnedBelow(h, D, n, r, s)
<1> HIDE DEF E
<1>1. /\ E[r] = D[n] /\ E[n] = {n} \cup D[h[n][s]] \cup D[h[r][s]]
      /\ \A m \in DOMAIN h \ {n, r} : \A t \in Sides : E[g[m][t]] = D[h[m][t]]
      /\ \A t \in Sides : E[h[r][t]] = D[h[r][t]] /\ E[h[n][s]] = D[h[n][s]]
  BY TurnedChildren DEF E
<1>2. Opp(s) \in Sides /\ n # r /\ DOMAIN g = DOMAIN h
  BY OppSide, ForestSides DEF SameNodes
<1>3. \A m \in DOMAIN h : h[m].key \in Nat /\ g[m].key = h[m].key
  BY DEF IsHeap, Cells, SameNodes
<1>4. \A m \in DOMAIN h : \A t \in Sides : D[h[m][t]] \subseteq DOMAIN h
  BY ChildIs DEF Forest
<1>5. /\ \A m \in D[h[n][s]] : Fits(s, h[m].key, h[n].key)
      /\ \A m \in D[h[r][s]] : Fits(s, h[m].key, h[r].key)
      /\ \A m \in D[h[r][Opp(s)]] : Fits(Opp(s), h[m].key, h[r].key)
      /\ \A m \in D[r] : Fits(Opp(s), h[m].key, h[n].key)
  BY <1>2 DEF Ordered
<1>6. r \in D[r] /\ D[h[r][s]] \subseteq D[r]
  BY ForestSides
<1> SUFFICES ASSUME NEW k \in DOMAIN h, NEW t \in Sides, NEW m \in E[g[k][t]]
             PROVE  Fits(t, g[m].key, g[k].key)
  BY <1>2 DEF Ordered, E
<1>7. CASE k = n /\ t = s
  BY <1>1, <1>3, <1>4, <1>5, <1>7 DEF Turned
<1>8. CASE k = n /\ t = Opp(s)
  BY <1>1, <1>3, <1>4, <1>5, <1>6, <1>8 DEF Turned
<1>9. CASE k = r /\ t = s
  <2>1. Fits(s, h[n].key, h[r].key)
    BY <1>3, <1>5, <1>6, FitsFacts
  <2>2. m = n \/ m \in D[h[n][s]] \/ m \in D[h[r][s]]
    BY <1>1, <1>9 DEF Turned
  <2>3. m \in DOMAIN h
    BY <2>2, <1>4
  <2>4. m \in D[h[n][s]] => Fits(s, h[m].key, h[r].key)
    BY <2>1, <2>3, <1>3, <1>5, FitsFacts
  <2> QED BY <2>1, <2>2, <2>3, <2>4, <1>3, <1>5, <1>9
<1>10. CASE k = r /\ t = Opp(s)
  BY <1>1, <1>2, <1>3, <1>4, <1>5, <1>10 DEF Turned
<1>11. CASE k # n /\ k # r
  <2>1. m \in D[h[k][t]]
    BY <1>1, <1>11
  <2> QED BY <2>1, <1>3, <1>4 DEF Ordered
<1> QED BY <1>7, <1>8, <1>9, <1>10, <1>11, OppSide
-----------------------------------------------------------------------------
(***************************************************************************)
(* What the operations on the heap do to it.                               *)
(***************************************************************************)
WithChild(h, n, s, c) == [h EXCEPT ![n][s] = c]

(* The nodes, the keys and the colours are the same. *)
Kindred(h, g) ==
  /\ IsHeap(g) /\ SameNodes(h, g) /\ Places(g) = Places(h)
  /\ \A m \in DOMAIN h : g[m].red = h[m].red

LEMMA SetChild ==
  ASSUME NEW h, IsHeap(h), NEW n \in DOMAIN h, NEW s \in Sides, NEW c \in Places(h)
  PROVE  LET g == WithChild(h, n, s, c) IN
         /\ Kindred(h, g)
         /\ \A m \in DOMAIN h : \A t \in Sides : g[m][t] = IF m = n /\ t = s THEN c ELSE h[m][t]
<1> DEFINE g == WithChild(h, n, s, c)
<1> USE DEF WithChild, Kindred
<1>1. DOMAIN g = DOMAIN h /\ Places(g) = Places(h) /\ Cells(g) = Cells(h)
  BY DEF Places, Cells
<1>2. g \in [DOMAIN h -> Cells(h)]
  BY DEF IsHeap, Cells, Sides
<1>3. CASE s = "left"
  BY <1>1, <1>2, <1>3 DEF IsHeap, Cells, Sides, SameNodes
<1>4. CASE s = "right"
  BY <1>1, <1>2, <1>4 DEF IsHeap, Cells, Sides, SameNodes
<1> QED BY <1>3, <1>4 DEF Sides

LEMMA PaintIs ==
  ASSUME NEW h, IsHeap(h), NEW n \in DOMAIN h, NEW c \in BOOLEAN
  PROVE  /\ IsHeap(Paint(h, n, c)) /\ SameNodes(h, Paint(h, n, c)) /\ Places(Paint(h, n, c)) = Places(h)
         /\ \A m \in DOMAIN h : Paint(h, n, c)[m].red = IF m = n THEN c ELSE h[m].red
         /\ \A m \in DOMAIN h : \A t \in Sides : Paint(h, n, c)[m][t] = h[m][t]
<1> DEFINE g == Paint(h, n, c)
<1>1. DOMAIN g = DOMAIN h /\ Places(g) = Places(h) /\ Cells(g) = Cells(h)
  BY DEF Places, Cells, Paint
<1>2. g \in [DOMAIN h -> Cells(h)]
  BY DEF IsHeap, Cells, Paint
<1> QED BY <1>1, <1>2 DEF IsHeap, Cells, Sides, SameNodes, Paint

(* p is the parent of n, or n has none. *)
Parent(h, n, p) ==
  \/ p \in DOMAIN h /\ \E t \in Sides : h[p][t] = n
  \/ p = Nil /\ \A m \in DOMAIN h : \A t \in Sides : h[m][t] # n

LEMMA RelinkIs ==
  ASSUME NEW h, IsHeap(h), NEW n \in DOMAIN h, NEW p, NEW r \in Places(h),
         p = Nil \/ (p \in DOMAIN h /\ \E t \in Sides : h[p][t] = n),
         \A q \in DOMAIN h : \A t, u \in Sides : h[q][t] = n /\ h[q][u] = n => t = u
  PROVE  LET g == Relink(h, n, p, r) IN
         /\ Kindred(h, g)
         /\ \A m \in DOMAIN h : \A t \in Sides : g[m][t] = IF m = p /\ h[m][t] = n THEN r ELSE h[m][t]
<1>1. CASE p = Nil
  BY <1>1 DEF Relink, IsHeap, SameNodes, Kindred
<1>2. CASE p \in DOMAIN h /\ \E t \in Sides : h[p][t] = n
  <2>1. p # Nil /\ "left" \in Sides /\ "right" \in Sides
    BY <1>2 DEF IsHeap, Sides
  <2>2. h[p]["left"] = h[p].left /\ h[p]["right"] = h[p].right
    BY <1>2 DEF IsHeap, Cells
  <2>3. PICK s \in Sides : Relink(h, n, p, r) = WithChild(h, p, s, r) /\ \A t \in Sides : h[p][t] = n <=> t = s
    <3>1. CASE h[p].left = n
      BY <1>2, <2>1, <2>2, <3>1 DEF Relink, WithChild
    <3>2. CASE h[p].left # n
      BY <1>2, <2>1, <2>2, <3>2 DEF Relink, WithChild, Sides
    <3> QED BY <3>1, <3>2
  <2>4. /\ Kindred(h, WithChild(h, p, s, r))
        /\ \A m \in DOMAIN h : \A t \in Sides :
             WithChild(h, p, s, r)[m][t] = IF m = p /\ t = s THEN r ELSE h[m][t]
    BY <1>2, SetChild
  <2> QED BY <2>3, <2>4
<1> QED BY <1>1, <1>2

LEMMA RotateIs ==
  ASSUME NEW h, NEW D, IsHeap(h), Forest(h, D), NEW n \in DOMAIN h, NEW s \in Sides,
         NEW r, r = h[n][Opp(s)], r # Nil, NEW p, Parent(h, n, p)
  PROVE  LET g == Rotate(h, n, p, s) IN
         /\ Kindred(h, g)
         /\ r \in DOMAIN h /\ r # n /\ p # n /\ p # r
         /\ Turned(h, g, n, r, s)
<1> DEFINE g == Rotate(h, n, p, s)
           h0 == WithChild(h, r, s, n)
           h1 == WithChild(h0, n, Opp(s), h[r][s])
<1>1. Opp(s) \in Sides /\ r \in DOMAIN h /\ h[r][s] \in Places(h) /\ n \in Places(h)
  BY ChildIs, OppSide DEF Places
<1>2. g = Relink(h1, n, p, r)
  BY DEF Rotate, WithChild
<1> HIDE DEF g
<1>3. n # r /\ n \notin D[r] /\ n \in D[n] /\ r \in D[n] /\ h[r][s] # r /\ h[r][s] # n /\ h[n][s] # n
  <2>1. n # r /\ n \notin D[r] /\ n \in D[n] /\ r \in D[n]
    BY <1>1, ForestSides
  <2>2. h[r][s] # Nil => D[h[r][s]] \subseteq D[r] /\ h[r][s] \in D[h[r][s]] /\ r \notin D[h[r][s]]
    BY <1>1, ChildIs, ForestSides
  <2>3. h[n][s] # Nil => h[n][s] \in D[h[n][s]] /\ n \notin D[h[n][s]]
    BY <1>1, ChildIs, ForestSides
  <2> QED BY <2>1, <2>2, <2>3, <1>1 DEF IsHeap
<1>4. p # n /\ p # r
  <2>1. ASSUME p = n \/ p = r PROVE FALSE
    <3>1. PICK t \in Sides : h[p][t] = n
      BY <2>1, <1>1 DEF Parent, IsHeap
    <3>2. n \in D[h[p][t]] /\ h[p][t] \in DOMAIN h
      BY <1>3, <3>1
    <3>3. D[h[p][t]] \subseteq D[p] /\ p \notin D[h[p][t]]
      BY <2>1, <1>1, ForestSides
    <3> QED BY <2>1, <3>2, <3>3, <1>3
  <2> QED BY <2>1
<1>5. /\ Kindred(h, h0)
      /\ \A m \in DOMAIN h : \A t \in Sides : h0[m][t] = IF m = r /\ t = s THEN n ELSE h[m][t]
  BY <1>1, SetChild
<1> HIDE DEF h0
<1>6. /\ Kindred(h, h1)
      /\ \A m \in DOMAIN h : \A t \in Sides :
           h1[m][t] = IF m = n /\ t = Opp(s) THEN h[r][s] ELSE IF m = r /\ t = s THEN n ELSE h[m][t]
  <2>1. DOMAIN h0 = DOMAIN h /\ IsHeap(h0) /\ Places(h0) = Places(h)
    BY <1>5 DEF SameNodes, Kindred
  <2>2. /\ Kindred(h0, h1)
        /\ \A m \in DOMAIN h0 : \A t \in Sides : h1[m][t] = IF m = n /\ t = Opp(s) THEN h[r][s] ELSE h0[m][t]
    BY <1>1, <2>1, SetChild
  <2> HIDE DEF h1
  <2> QED BY <1>5, <2>1, <2>2 DEF SameNodes, Kindred
<1> HIDE DEF h1
<1>7. DOMAIN h1 = DOMAIN h /\ IsHeap(h1) /\ Places(h1) = Places(h)
  BY <1>6 DEF SameNodes, Kindred
<1>8. p = Nil \/ (p \in DOMAIN h1 /\ \E t \in Sides : h1[p][t] = n)
  BY <1>4, <1>6, <1>7 DEF Parent
<1>9. \A q \in DOMAIN h1 : \A t, u \in Sides : h1[q][t] = n /\ h1[q][u] = n => t = u
  <2> SUFFICES ASSUME NEW q \in DOMAIN h, NEW t \in Sides, NEW u \in Sides, h1[q][t] = n, h1[q][u] = n
               PROVE  t = u
    BY <1>7
  <2>1. n # Nil
    BY DEF IsHeap
  <2>2. CASE q = n \/ q = r
    <3>1. \A v \in Sides : v = s \/ v = Opp(s)
      BY OppSide
    <3>2. h1[n][s] = h[n][s] /\ h1[n][Opp(s)] = h[r][s]
      BY <1>1, <1>3, <1>6, OppSide
    <3>3. h1[r][Opp(s)] = h[r][Opp(s)]
      BY <1>1, <1>3, <1>6, OppSide
    <3>4. h[r][Opp(s)] # n
      <4>1. h[r][Opp(s)] # Nil => D[h[r][Opp(s)]] \subseteq D[r] /\ h[r][Opp(s)] \in D[h[r][Opp(s)]]
        BY <1>1, ChildIs, ForestSides
      <4> QED BY <4>1, <1>3, <2>1
    <3> QED BY <2>2, <3>1, <3>2, <3>3, <3>4, <1>3
  <2>3. CASE q # n /\ q # r
    BY <2>1, <2>3, <1>6, OneParent
  <2> QED BY <2>2, <2>3
<1>10. /\ Kindred(h1, g)
       /\ \A m \in DOMAIN h : \A t \in Sides : g[m][t] = IF m = p /\ h1[m][t] = n THEN r ELSE h1[m][t]
  <2>1. r \in Places(h1)
    BY <1>1, <1>7 DEF Places
  <2> QED BY <2>1, <1>2, <1>6, <1>7, <1>8, <1>9, RelinkIs
<1>11. ASSUME NEW m \in DOMAIN h \ {n, r}, NEW t \in Sides
       PROVE  g[m][t] = IF h[m][t] = n THEN r ELSE h[m][t]
  <2>1. h1[m][t] = h[m][t]
    BY <1>6
  <2>2. h[m][t] = n => m = p
    <3>1. n # Nil
      BY DEF IsHeap
    <3> QED BY <3>1, OneParent DEF Parent
  <2> QED BY <2>1, <2>2, <1>10
<1>12. Turned(h, g, n, r, s)
  BY <1>1, <1>3, <1>4, <1>6, <1>10, <1>11, OppSide DEF Turned
<1>13. Kindred(h, g)
  BY <1>6, <1>7, <1>10 DEF SameNodes, Kindred
<1> QED BY <1>1, <1>3, <1>4, <1>12, <1>13 DEF g
-----------------------------------------------------------------------------
(***************************************************************************)
(* Colours and black-heights.                                              *)
(***************************************************************************)
(* b is the number of black nodes on every way down, but that one is       *)
(* missing below the side t of p. *)
Balanced(h, b, p, t) ==
  /\ b \in [Places(h) -> Nat \ {0}] /\ b[Nil] = 1
  /\ \A n \in DOMAIN h : \A s \in Sides :
       b[n] = b[h[n][s]] + (IF h[n].red THEN 0 ELSE 1) + (IF n = p /\ s = t THEN 1 ELSE 0)

(* No red node has a red child, but for the child e and the parent f. *)
RedsApart(h, e, f) ==
  \A n \in DOMAIN h : \A s \in Sides : h[n].red /\ Red(h, h[n][s]) => h[n][s] = e \/ n = f

(* The stack leads from the root to the node at hand, and is never much    *)
(* longer than twice the black nodes passed. *)
OnPath(h, path, root, at) ==
  /\ path \in Seq(DOMAIN h)
  /\ IF path = <<>> THEN at = root ELSE path[1] = root
  /\ \A i \in 1..Len(path) : \E s \in Sides :
       h[path[i]][s] = IF i = Len(path) THEN at ELSE path[i + 1]

Short(h, b, path, top) ==
  \A i \in 1..Len(path) : i <= 2 * (top + 1 - b[path[i]]) + (IF h[path[i]].red THEN 0 ELSE 1)

-----------------------------------------------------------------------------
(***************************************************************************)
(* The way down.                                                           *)
(***************************************************************************)
(* The roots of two trees that share nothing have no parents. *)
Parts(h, D, r1, r2) ==
  /\ r1 \in Places(h) /\ r2 \in Places(h)
  /\ D[r1] \cup D[r2] = DOMAIN h /\ D[r1] \cap D[r2] = {}

LEMMA RootHasNoParent ==
  ASSUME NEW h, NEW D, IsHeap(h), Forest(h, D), NEW r1, NEW r2, Parts(h, D, r1, r2), r1 # Nil,
         NEW m \in DOMAIN h, NEW s \in Sides
  PROVE  h[m][s] # r1 /\ r1 \notin D[h[m][s]]
<1> SUFFICES ASSUME r1 \in D[h[m][s]] PROVE FALSE
  BY ForestSides DEF Parts, Places
<1>1. r1 \in DOMAIN h /\ r1 \in D[r1]
  BY ForestSides DEF Parts, Places
<1>2. r1 \in D[m] /\ r1 # m
  BY ForestSides
<1>3. m \notin D[r1]
  BY <1>1, <1>2, Antisymmetric
<1>4. m \in D[r2] /\ r2 \in DOMAIN h
  BY <1>3 DEF Parts, Places, Forest
<1>5. r1 \in D[r2]
  BY <1>2, <1>4 DEF Forest
<1> QED BY <1>1, <1>5 DEF Parts

(* What the stack lists lies below the root, each below those before it. *)
Ancestral(h, D, path, root, at) ==
  /\ at \in Places(h) /\ D[at] \subseteq D[root]
  /\ \A i \in 1..Len(path) :
       /\ path[i] \in D[root] /\ path[i] \in DOMAIN h
       /\ D[at] \subseteq D[path[i]] /\ at # path[i] /\ path[i] \notin D[at]
       /\ \A j \in 1..Len(path) : i < j => path[i] # path[j]
       /\ IF i = 1 THEN path[i] = root ELSE \E s \in Sides : h[path[i - 1]][s] = path[i]
  /\ Len(path) \in Nat

LEMMA PathFacts ==
  ASSUME NEW h, NEW D, IsHeap(h), Forest(h, D), NEW path, NEW root \in Places(h), NEW at,
         OnPath(h, path, root, at)
  PROVE  Ancestral(h, D, path, root, at)
<1>0. /\ path \in Seq(DOMAIN h) /\ Len(path) \in Nat
      /\ \A i \in 1..Len(path) : path[i] \in DOMAIN h
      /\ path # <<>> => Len(path) >= 1 /\ 1 \in 1..Len(path) /\ Len(path) \in 1..Len(path)
      /\ path = <<>> => Len(path) = 0
  BY DEF OnPath
<1> DEFINE Q(i) == IF i = Len(path) + 1 THEN at ELSE path[i]
           next == Len(path) + 1
<1>1. ASSUME NEW i \in 1..Len(path)
      PROVE  /\ Q(i + 1) \in Places(h) /\ Q(i) = path[i] /\ Q(i) \in DOMAIN h
             /\ \E s \in Sides : h[Q(i)][s] = Q(i + 1)
  <2>1. PICK s \in Sides : h[path[i]][s] = Q(i + 1)
    BY <1>0 DEF OnPath
  <2>2. Q(i) = path[i]
    BY <1>0
  <2> QED BY <2>1, <2>2, <1>0, ChildIs
<1>2. Q(1) = root /\ Q(next) = at
  BY <1>0 DEF OnPath
<1>3. at \in Places(h)
  BY <1>0, <1>1, <1>2, <1>1
<1> HIDE DEF Q
<1>4. ASSUME NEW i \in 1..Len(path)
      PROVE  D[Q(i + 1)] \subseteq D[Q(i)] /\ Q(i) \notin D[Q(i + 1)]
  BY <1>1, ForestSides
<1>5. ASSUME NEW j \in 1..next
      PROVE  \A i \in 1..j : D[Q(j)] \subseteq D[Q(i)] /\ (i < j => Q(i) \notin D[Q(j)])
  <2> DEFINE T == {i \in 1..j : D[Q(j)] \subseteq D[Q(i)] /\ (i < j => Q(i) \notin D[Q(j)])}
  <2>1. j \in T
    OBVIOUS
  <2>2. ASSUME NEW i \in 1..(j - 1), i + 1 \in T PROVE i \in T
    <3>1. i \in 1..Len(path)
      BY <1>0
    <3> QED BY <2>2, <3>1, <1>4
  <2>3. j \in Nat \ {0}
    BY <1>0
  <2> HIDE DEF T
  <2>4. 1..j \subseteq T
    BY <2>1, <2>2, <2>3, DownTo1
  <2> QED BY <2>4 DEF T
<1>6. ASSUME NEW i \in 1..Len(path)
      PROVE  /\ D[at] \subseteq D[path[i]] /\ at # path[i] /\ path[i] \notin D[at]
             /\ path[i] \in D[root] /\ path[i] \in DOMAIN h
             /\ \A j \in 1..Len(path) : i < j => path[i] # path[j]
             /\ IF i = 1 THEN path[i] = root ELSE \E s \in Sides : h[path[i - 1]][s] = path[i]
  <2>1. i < next /\ i \in 1..next /\ next \in 1..next /\ 1 \in 1..i
    BY <1>0
  <2>2. D[at] \subseteq D[path[i]] /\ path[i] \notin D[at] /\ D[path[i]] \subseteq D[root]
    BY <2>1, <1>1, <1>2, <1>5
  <2>3. path[i] \in D[path[i]]
    BY <1>0, Within
  <2>4. ASSUME NEW j \in 1..Len(path), i < j PROVE path[i] # path[j]
    <3>1. Q(i) \notin D[Q(j)] /\ Q(i) = path[i] /\ Q(j) = path[j]
      BY <2>4, <1>0, <1>1, <1>5
    <3>2. path[j] \in D[path[j]]
      BY <1>0, Within
    <3> QED BY <3>1, <3>2
  <2>5. i # 1 => i - 1 \in 1..Len(path) /\ (i - 1) + 1 = i
    BY <1>0
  <2>6. i # 1 => \E s \in Sides : h[Q(i - 1)][s] = Q(i)
    BY <2>5, <1>1
  <2> QED BY <2>2, <2>3, <2>4, <2>5, <2>6, <1>0, <1>1, <1>2
<1>7. D[at] \subseteq D[root]
  BY <1>0, <1>2, <1>5
<1> QED BY <1>0, <1>3, <1>6, <1>7 DEF Ancestral

(* The same of one node, and of two. *)
LEMMA PathNode ==
  ASSUME NEW h, NEW D, IsHeap(h), Forest(h, D), NEW path, NEW root \in Places(h), NEW at,
         OnPath(h, path, root, at), NEW i \in 1..Len(path)
  PROVE  /\ path[i] \in D[root] /\ path[i] \in DOMAIN h
         /\ D[at] \subseteq D[path[i]] /\ at # path[i] /\ path[i] \notin D[at]
         /\ \A j \in 1..Len(path) : i < j => path[i] # path[j]
<1>1. Ancestral(h, D, path, root, at)
  BY PathFacts
<1> QED BY <1>1 DEF Ancestral

(* Each node on the stack is the parent of the next. *)
LEMMA PathParent ==
  ASSUME NEW h, NEW D, IsHeap(h), Forest(h, D), NEW r1, NEW r2, Parts(h, D, r1, r2),
         NEW path, NEW at, OnPath(h, path, r1, at), at # Nil
  PROVE  /\ at \in DOMAIN h /\ at \in D[r1]
         /\ Parent(h, at, IF Len(path) = 0 THEN Nil ELSE path[Len(path)])
         /\ \A i \in 1..Len(path) : Parent(h, path[i], IF i = 1 THEN Nil ELSE path[i - 1])
<1>1. r1 \in Places(h) /\ Len(path) \in Nat /\ path \in Seq(DOMAIN h)
  BY DEF Parts, OnPath
<1>0. /\ at \in Places(h) /\ D[at] \subseteq D[r1]
      /\ \A i \in 1..Len(path) :
           /\ path[i] \in DOMAIN h
           /\ IF i = 1 THEN path[i] = r1 ELSE \E s \in Sides : h[path[i - 1]][s] = path[i]
  <2>1. Ancestral(h, D, path, r1, at)
    BY <1>1, PathFacts
  <2> QED BY <2>1 DEF Ancestral
<1>2. at \in DOMAIN h /\ at \in D[r1]
  BY <1>0, Within DEF Places
<1>3. ASSUME NEW n \in DOMAIN h, n = r1 PROVE Parent(h, n, Nil)
  BY <1>3, RootHasNoParent DEF Parent, IsHeap
<1>4. Parent(h, at, IF Len(path) = 0 THEN Nil ELSE path[Len(path)])
  <2>1. CASE Len(path) = 0
    <3>1. at = r1
      BY <2>1, <1>1 DEF OnPath
    <3> QED BY <2>1, <3>1, <1>2, <1>3
  <2>2. CASE Len(path) # 0
    <3>1. Len(path) \in 1..Len(path)
      BY <2>2, <1>1
    <3> QED BY <2>2, <3>1, <1>2 DEF OnPath, Parent
  <2> QED BY <2>1, <2>2
<1>5. ASSUME NEW i \in 1..Len(path) PROVE Parent(h, path[i], IF i = 1 THEN Nil ELSE path[i - 1])
  <2>1. i # 1 => i - 1 \in 1..Len(path)
    BY <1>1
  <2> QED BY <2>1, <1>0, <1>3 DEF Parent
<1> QED BY <1>2, <1>4, <1>5
-----------------------------------------------------------------------------
(***************************************************************************)
(* The recursive functions of the model compute D and b.                   *)
(***************************************************************************)
LEMMA CardinalityBelow ==
  ASSUME NEW h, NEW D, IsHeap(h), Forest(h, D), IsFiniteSet(DOMAIN h)
  PROVE  /\ Cardinality(DOMAIN h) \in Nat
         /\ \A m \in Places(h) : Cardinality(D[m]) \in Nat /\ Cardinality(D[m]) <= Cardinality(DOMAIN h)
         /\ \A m \in DOMAIN h : /\ Cardinality(D[m]) # 0
                                /\ \A s \in Sides : Cardinality(D[h[m][s]]) < Cardinality(D[m])
<1>1. Cardinality(DOMAIN h) \in Nat
  BY FS_CardinalityType
<1>2. ASSUME NEW m \in Places(h)
      PROVE  /\ IsFiniteSet(D[m]) /\ Cardinality(D[m]) \in Nat
             /\ Cardinality(D[m]) <= Cardinality(DOMAIN h)
  <2>1. D[m] \in SUBSET DOMAIN h
    BY DEF Forest
  <2>2. IsFiniteSet(D[m]) /\ Cardinality(D[m]) <= Cardinality(DOMAIN h)
    BY <2>1, FS_Subset
  <2> QED BY <2>2, FS_CardinalityType
<1>3. ASSUME NEW m \in DOMAIN h
      PROVE  /\ Cardinality(D[m]) # 0
             /\ \A s \in Sides : Cardinality(D[h[m][s]]) < Cardinality(D[m])
  <2>1. m \in Places(h) /\ m \in D[m]
    BY Within
  <2>2. IsFiniteSet(D[m]) /\ Cardinality(D[m]) \in Nat
    BY <1>2, <2>1
  <2>3. Cardinality(D[m]) # 0
    BY <2>1, <2>2, FS_EmptySet
  <2>4. ASSUME NEW s \in Sides PROVE Cardinality(D[h[m][s]]) < Cardinality(D[m])
    <3>1. h[m][s] \in Places(h) /\ m \notin D[h[m][s]] /\ D[h[m][s]] \subseteq D[m]
      BY ChildIs, ForestSides
    <3>2. D[h[m][s]] \in SUBSET (D[m] \ {m})
      BY <3>1
    <3>3. IsFiniteSet(D[m] \ {m}) /\ Cardinality(D[m] \ {m}) = Cardinality(D[m]) - 1
      BY <2>1, <2>2, FS_RemoveElement
    <3>4. Cardinality(D[h[m][s]]) <= Cardinality(D[m] \ {m}) /\ Cardinality(D[h[m][s]]) \in Nat
      BY <3>1, <3>2, <3>3, <1>2, FS_Subset
    <3> QED BY <3>3, <3>4, <2>2
  <2> QED BY <2>3, <2>4
<1> QED BY <1>1, <1>2, <1>3

LEMMA BelowIs ==
  ASSUME NEW h, NEW D, IsHeap(h), Forest(h, D), IsFiniteSet(DOMAIN h), NEW n \in Places(h)
  PROVE  Below(h, n) = D[n]
<1> PICK N : N = Cardinality(DOMAIN h)
  OBVIOUS
<1> DEFINE S == [Places(h) -> SUBSET DOMAIN h]
           Step(w) == [m \in Places(h) |-> IF m = Nil THEN {} ELSE {m} \cup w[h[m].left] \cup w[h[m].right]]
           Is(f) == f = [d \in 0..N |->
                      [m \in Places(h) |->
                         IF m = Nil \/ d = 0 THEN {}
                         ELSE {m} \cup f[d - 1][h[m].left] \cup f[d - 1][h[m].right]]]
           none == [m \in Places(h) |-> {}]
           F == [p \in ((0 + 1)..N) \X S |-> Step(p[2])]
<1>0. N \in Nat /\ 0 \in Int /\ N \in Int /\ 0 <= N
  BY CardinalityBelow
<1>1. Below(h, n) = (CHOOSE f : Is(f))[N][n]
  BY DEF Below, Places
<1>2. ASSUME NEW w \in S PROVE Step(w) \in S
  <2>1. \A m \in DOMAIN h : h[m].left \in Places(h) /\ h[m].right \in Places(h)
    BY DEF IsHeap, Cells
  <2> QED BY <2>1 DEF Places
<1>3. F \in [((0 + 1)..N) \X S -> S]
  <2> HIDE DEF S, Step
  <2> QED BY <1>2
<1>4. none \in S
  OBVIOUS
<1>5. PICK f \in [0..N -> S] : StepsUp(f, 0, N, none, F)
  <2> HIDE DEF F, S, none
  <2> QED BY <1>0, <1>3, <1>4, RecursionUp
<1>6. f[0] = none
  BY <1>5 DEF StepsUp
<1>7. ASSUME NEW d \in 0..N, d # 0 PROVE f[d] = Step(f[d - 1])
  <2>1. d \in (0 + 1)..N /\ d - 1 \in 0..N
    BY <1>0, <1>7
  <2>2. f[d - 1] \in S /\ <<d, f[d - 1]>> \in ((0 + 1)..N) \X S
    <3> HIDE DEF S
    <3> QED BY <2>1
  <2>3. f[d] = F[<<d, f[d - 1]>>]
    <3> HIDE DEF F
    <3> QED BY <1>5, <2>1 DEF StepsUp
  <2> HIDE DEF S, Step
  <2> QED BY <2>2, <2>3
<1>8. \E g : Is(g)
  <2>1. \A d \in 0..N : f[d] = [m \in Places(h) |->
                                  IF m = Nil \/ d = 0 THEN {}
                                  ELSE {m} \cup f[d - 1][h[m].left] \cup f[d - 1][h[m].right]]
    BY <1>6, <1>7
  <2>2. Is(f)
    <3> HIDE DEF S
    <3> QED BY <2>1
  <2> HIDE DEF Is
  <2> QED BY <2>2
<1>9. PICK g : Is(g) /\ Below(h, n) = g[N][n]
  <2> HIDE DEF Is
  <2> QED BY <1>1, <1>8
<1>10. \A d \in 0..N : \A m \in Places(h) :
         g[d][m] = IF m = Nil \/ d = 0 THEN {}
                   ELSE {m} \cup g[d - 1][h[m].left] \cup g[d - 1][h[m].right]
  <2>1. \A d \in 0..N : g[d] = [m \in Places(h) |->
                                  IF m = Nil \/ d = 0 THEN {}
                                  ELSE {m} \cup g[d - 1][h[m].left] \cup g[d - 1][h[m].right]]
    BY <1>9
  <2> SUFFICES ASSUME NEW d \in 0..N, NEW m \in Places(h)
               PROVE  g[d][m] = IF m = Nil \/ d = 0 THEN {}
                                ELSE {m} \cup g[d - 1][h[m].left] \cup g[d - 1][h[m].right]
    OBVIOUS
  <2>2. g[d] = [k \in Places(h) |->
                  IF k = Nil \/ d = 0 THEN {}
                  ELSE {k} \cup g[d - 1][h[k].left] \cup g[d - 1][h[k].right]]
    BY <2>1
  <2> QED BY ONLY <2>2
<1> HIDE DEF Is
<1> DEFINE T == {d \in 0..N : \A m \in Places(h) : Cardinality(D[m]) <= d => g[d][m] = D[m]}
<1>11. 0 \in T
  <2> SUFFICES ASSUME NEW m \in Places(h), Cardinality(D[m]) <= 0 PROVE g[0][m] = D[m]
    BY <1>0
  <2>1. m = Nil
    BY CardinalityBelow DEF Places
  <2>2. 0 \in 0..N /\ D[Nil] = {}
    BY <1>0 DEF Forest
  <2>3. g[0][m] = {}
    BY <2>1, <2>2, <1>10
  <2> QED BY <2>1, <2>2, <2>3
<1>12. ASSUME NEW d \in 0..(N - 1), d \in T PROVE d + 1 \in T
  <2>1. d + 1 \in 0..N /\ (d + 1) - 1 = d /\ d + 1 # 0
    BY <1>0
  <2> SUFFICES ASSUME NEW m \in Places(h), Cardinality(D[m]) <= d + 1 PROVE g[d + 1][m] = D[m]
    BY <2>1
  <2>2. CASE m = Nil
    BY <2>1, <2>2, <1>10 DEF Forest
  <2>3. CASE m # Nil
    <3>1. m \in DOMAIN h
      BY <2>3 DEF Places
    <3>2. ASSUME NEW s \in Sides PROVE g[d][h[m][s]] = D[h[m][s]]
      <4>1. h[m][s] \in Places(h)
        BY <3>1, ChildIs
      <4>2. /\ Cardinality(D[h[m][s]]) < Cardinality(D[m]) /\ Cardinality(D[h[m][s]]) \in Nat
            /\ Cardinality(D[m]) \in Nat
        BY <3>1, <4>1, CardinalityBelow
      <4> QED BY <4>1, <4>2, <1>12
    <3>3. h[m]["left"] = h[m].left /\ h[m]["right"] = h[m].right /\ "left" \in Sides /\ "right" \in Sides
      BY <3>1 DEF IsHeap, Cells, Sides
    <3>4. D[m] = {m} \cup D[h[m].left] \cup D[h[m].right]
      BY <3>1 DEF Forest
    <3>5. g[d + 1][m] = {m} \cup g[d][h[m].left] \cup g[d][h[m].right]
      <4>1. g[d + 1][m] = {m} \cup g[(d + 1) - 1][h[m].left] \cup g[(d + 1) - 1][h[m].right]
        BY <2>1, <2>3, <1>10
      <4> QED BY <4>1, <2>1
    <3> QED BY <3>2, <3>3, <3>4, <3>5
  <2> QED BY <2>2, <2>3
<1>13. N \in T
  <2>1. 0..N \subseteq T
    <3> HIDE DEF T
    <3> QED BY <1>0, <1>11, <1>12, UpTo
  <2> QED BY <2>1, <1>0
<1> QED BY <1>9, <1>13, CardinalityBelow

LEMMA HeightIs ==
  ASSUME NEW h, NEW D, NEW b, IsHeap(h), Forest(h, D), IsFiniteSet(DOMAIN h), NEW n \in Places(h),
         NEW t, Balanced(h, b, Nil, t), RedsApart(h, Nil, Nil)
  PROVE  BlackHeight(h, n) = b[n]
<1> PICK N : N = Cardinality(DOMAIN h)
  OBVIOUS
<1> DEFINE S == [Places(h) -> Nat]
           Sum(m, l, r) ==
             IF l = 0 \/ l # r \/ (h[m].red /\ (Red(h, h[m].left) \/ Red(h, h[m].right))) THEN 0
             ELSE IF h[m].red THEN l ELSE l + 1
           Step(w) == [m \in Places(h) |-> IF m = Nil THEN 1 ELSE Sum(m, w[h[m].left], w[h[m].right])]
           Is(f) == f = [d \in 0..N |->
                      [m \in Places(h) |->
                         IF m = Nil THEN 1 ELSE IF d = 0 THEN 0
                         ELSE Sum(m, f[d - 1][h[m].left], f[d - 1][h[m].right])]]
           none == [m \in Places(h) |-> IF m = Nil THEN 1 ELSE 0]
           F == [p \in ((0 + 1)..N) \X S |-> Step(p[2])]
<1>0. N \in Nat /\ 0 \in Int /\ N \in Int /\ 0 <= N
  BY CardinalityBelow
<1>1. BlackHeight(h, n) = (CHOOSE f : Is(f))[N][n]
  BY DEF BlackHeight, Places
<1>2. ASSUME NEW w \in S PROVE Step(w) \in S
  <2>1. \A m \in DOMAIN h : h[m].left \in Places(h) /\ h[m].right \in Places(h)
    BY DEF IsHeap, Cells
  <2>2. \A m \in DOMAIN h : w[h[m].left] \in Nat /\ w[h[m].right] \in Nat
    BY <2>1
  <2>3. \A m \in DOMAIN h : Sum(m, w[h[m].left], w[h[m].right]) \in Nat
    BY <2>2
  <2> HIDE DEF Sum
  <2> QED BY <2>3 DEF Places
<1> HIDE DEF Sum
<1>3. F \in [((0 + 1)..N) \X S -> S]
  <2> HIDE DEF S, Step
  <2> QED BY <1>2
<1>4. none \in S
  OBVIOUS
<1>5. PICK f \in [0..N -> S] : StepsUp(f, 0, N, none, F)
  <2> HIDE DEF F, S, none
  <2> QED BY <1>0, <1>3, <1>4, RecursionUp
<1>6. f[0] = none
  BY <1>5 DEF StepsUp
<1>7. ASSUME NEW d \in 0..N, d # 0 PROVE f[d] = Step(f[d - 1])
  <2>1. d \in (0 + 1)..N /\ d - 1 \in 0..N
    BY <1>0, <1>7
  <2>2. f[d - 1] \in S /\ <<d, f[d - 1]>> \in ((0 + 1)..N) \X S
    <3> HIDE DEF S
    <3> QED BY <2>1
  <2>3. f[d] = F[<<d, f[d - 1]>>]
    <3> HIDE DEF F
    <3> QED BY <1>5, <2>1 DEF StepsUp
  <2> HIDE DEF S, Step
  <2> QED BY <2>2, <2>3
<1>8. \E g : Is(g)
  <2>1. \A d \in 0..N : f[d] = [m \in Places(h) |->
                                  IF m = Nil THEN 1 ELSE IF d = 0 THEN 0
                                  ELSE Sum(m, f[d - 1][h[m].left], f[d - 1][h[m].right])]
    BY <1>6, <1>7
  <2>2. Is(f)
    <3> HIDE DEF S
    <3> QED BY <2>1
  <2> HIDE DEF Is
  <2> QED BY <2>2
<1>9. PICK g : Is(g) /\ BlackHeight(h, n) = g[N][n]
  <2> HIDE DEF Is
  <2> QED BY <1>1, <1>8
<1>10. \A d \in 0..N : \A m \in Places(h) :
         g[d][m] = IF m = Nil THEN 1 ELSE IF d = 0 THEN 0
                   ELSE Sum(m, g[d - 1][h[m].left], g[d - 1][h[m].right])
  <2> SUFFICES ASSUME NEW d \in 0..N, NEW m \in Places(h)
               PROVE  g[d][m] = IF m = Nil THEN 1 ELSE IF d = 0 THEN 0
                                ELSE Sum(m, g[d - 1][h[m].left], g[d - 1][h[m].right])
    OBVIOUS
  <2>2. g[d] = [k \in Places(h) |->
                  IF k = Nil THEN 1 ELSE IF d = 0 THEN 0
                  ELSE Sum(k, g[d - 1][h[k].left], g[d - 1][h[k].right])]
    BY <1>9
  <2> QED BY ONLY <2>2
<1> HIDE DEF Is
<1> DEFINE T == {d \in 0..N : \A m \in Places(h) : Cardinality(D[m]) <= d => g[d][m] = b[m]}
<1>11. 0 \in T
  <2> SUFFICES ASSUME NEW m \in Places(h), Cardinality(D[m]) <= 0 PROVE g[0][m] = b[m]
    BY <1>0
  <2>1. m = Nil
    BY CardinalityBelow DEF Places
  <2>2. 0 \in 0..N /\ b[Nil] = 1
    BY <1>0 DEF Balanced
  <2>3. g[0][m] = 1
    BY <2>1, <2>2, <1>10
  <2> QED BY <2>1, <2>2, <2>3
<1>12. ASSUME NEW d \in 0..(N - 1), d \in T PROVE d + 1 \in T
  <2>1. d + 1 \in 0..N /\ (d + 1) - 1 = d /\ d + 1 # 0
    BY <1>0
  <2> SUFFICES ASSUME NEW m \in Places(h), Cardinality(D[m]) <= d + 1 PROVE g[d + 1][m] = b[m]
    BY <2>1
  <2>2. CASE m = Nil
    BY <2>1, <2>2, <1>10 DEF Balanced
  <2>3. CASE m # Nil
    <3>1. m \in DOMAIN h
      BY <2>3 DEF Places
    <3>2. ASSUME NEW s \in Sides PROVE g[d][h[m][s]] = b[h[m][s]]
      <4>1. h[m][s] \in Places(h)
        BY <3>1, ChildIs
      <4>2. /\ Cardinality(D[h[m][s]]) < Cardinality(D[m]) /\ Cardinality(D[h[m][s]]) \in Nat
            /\ Cardinality(D[m]) \in Nat
        BY <3>1, <4>1, CardinalityBelow
      <4> QED BY <4>1, <4>2, <1>12
    <3>3. h[m]["left"] = h[m].left /\ h[m]["right"] = h[m].right /\ "left" \in Sides /\ "right" \in Sides
      BY <3>1 DEF IsHeap, Cells, Sides
    <3>4. h[m].left \in Places(h) /\ h[m].right \in Places(h) /\ Nil \notin DOMAIN h
      BY <3>1 DEF IsHeap, Cells
    <3>5. /\ b[m] = b[h[m].left] + (IF h[m].red THEN 0 ELSE 1)
          /\ b[m] = b[h[m].right] + (IF h[m].red THEN 0 ELSE 1)
          /\ b[h[m].left] \in Nat \ {0} /\ b[h[m].right] \in Nat \ {0}
      <4>1. /\ b[m] = b[h[m]["left"]] + (IF h[m].red THEN 0 ELSE 1) + 0
            /\ b[m] = b[h[m]["right"]] + (IF h[m].red THEN 0 ELSE 1) + 0
        BY <3>1, <3>3, <3>4 DEF Balanced
      <4>2. b[h[m].left] \in Nat \ {0} /\ b[h[m].right] \in Nat \ {0}
        BY <3>4 DEF Balanced
      <4> QED BY <4>1, <4>2, <3>3
    <3>6. h[m].red => ~Red(h, h[m].left) /\ ~Red(h, h[m].right)
      BY <3>1, <3>3, <3>4 DEF RedsApart, Red
    <3>7. g[d + 1][m] = Sum(m, g[d][h[m].left], g[d][h[m].right])
      <4>1. g[d + 1][m] = Sum(m, g[(d + 1) - 1][h[m].left], g[(d + 1) - 1][h[m].right])
        BY <2>1, <2>3, <1>10
      <4> QED BY <4>1, <2>1
    <3>8. g[d + 1][m] = Sum(m, b[h[m].left], b[h[m].right])
      BY <3>2, <3>3, <3>7
    <3>9. b[h[m].left] = b[h[m].right] /\ b[h[m].left] # 0
      BY <3>5
    <3>10. Sum(m, b[h[m].left], b[h[m].right]) = IF h[m].red THEN b[h[m].left] ELSE b[h[m].left] + 1
      BY <3>6, <3>9 DEF Sum
    <3> QED BY <3>5, <3>8, <3>10
  <2> QED BY <2>2, <2>3
<1>13. N \in T
  <2>1. 0..N \subseteq T
    <3> HIDE DEF T
    <3> QED BY <1>0, <1>11, <1>12, UpTo
  <2> QED BY <2>1, <1>0
<1> QED BY <1>9, <1>13, CardinalityBelow
-----------------------------------------------------------------------------
(***************************************************************************)
(* What the steps do to the stack.                                         *)
(***************************************************************************)
Top(path) == IF Len(path) = 0 THEN Nil ELSE path[Len(path)]
Popped(path) == SubSeq(path, 1, Len(path) - 1)

LEMMA PushPath ==
  ASSUME NEW h, IsHeap(h), NEW path, NEW root, NEW at \in DOMAIN h, OnPath(h, path, root, at),
         NEW s \in Sides
  PROVE  OnPath(h, Append(path, at), root, h[at][s]) /\ Top(Append(path, at)) = at
<1> DEFINE p == Append(path, at)
<1>1. path \in Seq(DOMAIN h) /\ Len(path) \in Nat /\ (path = <<>> <=> Len(path) = 0)
  BY DEF OnPath
<1>2. /\ p \in Seq(DOMAIN h) /\ Len(p) = Len(path) + 1 /\ p[Len(path) + 1] = at /\ p # <<>>
      /\ \A i \in 1..Len(path) : p[i] = path[i]
  BY <1>1
<1> HIDE DEF p
<1>3. p[1] = root
  BY <1>1, <1>2 DEF OnPath
<1>4. ASSUME NEW i \in 1..Len(p)
      PROVE  \E t \in Sides : h[p[i]][t] = IF i = Len(p) THEN h[at][s] ELSE p[i + 1]
  <2>1. CASE i = Len(p)
    BY <2>1, <1>2
  <2>2. CASE i # Len(p)
    <3>1. i \in 1..Len(path) /\ i + 1 \in 1..Len(p)
      BY <2>2, <1>1, <1>2
    <3>2. p[i + 1] = IF i = Len(path) THEN at ELSE path[i + 1]
      BY <3>1, <1>1, <1>2
    <3> QED BY <2>2, <3>1, <3>2, <1>2 DEF OnPath
  <2> QED BY <2>1, <2>2
<1>5. OnPath(h, p, root, h[at][s])
  BY <1>2, <1>3, <1>4 DEF OnPath
<1>6. Top(p) = at
  BY <1>1, <1>2 DEF Top
<1> QED BY <1>5, <1>6 DEF p

LEMMA PopPath ==
  ASSUME NEW h, NEW path, NEW root, NEW at, OnPath(h, path, root, at), path # <<>>
  PROVE  /\ OnPath(h, Popped(path), root, Top(path))
         /\ Len(path) \in Nat \ {0} /\ Len(Popped(path)) = Len(path) - 1
         /\ \A i \in 1..(Len(path) - 1) : Popped(path)[i] = path[i]
         /\ Top(path) = path[Len(path)] /\ Top(path) \in DOMAIN h
         /\ \E s \in Sides : h[Top(path)][s] = at
<1> DEFINE p == Popped(path)
<1>1. path \in Seq(DOMAIN h) /\ Len(path) \in Nat \ {0}
  BY DEF OnPath
<1>2. /\ p \in Seq(DOMAIN h) /\ Len(p) = Len(path) - 1 /\ (p = <<>> <=> Len(p) = 0)
      /\ \A i \in 1..(Len(path) - 1) : p[i] = path[i]
  <2> DEFINE n == Len(path) - 1
  <2>1. n \in Nat /\ 1 \in Int /\ n \in Int /\ \A i \in 1..n : path[i] \in DOMAIN h
    BY <1>1
  <2>2. p = SubSeq(path, 1, n)
    BY DEF Popped
  <2> HIDE DEF p, n
  <2>3. p \in Seq(DOMAIN h) /\ Len(p) = n
    BY <2>1, <2>2, SubSeqProperties
  <2>4. \A i \in 1..n : p[i] = path[i]
    <3>1. \A i \in 1..(n - 1 + 1) : p[i] = path[1 + i - 1]
      BY <2>1, <2>2, SubSeqProperties
    <3> QED BY <3>1, <2>1
  <2>5. p = <<>> <=> Len(p) = 0
    BY <2>3
  <2> QED BY <2>3, <2>4, <2>5 DEF n
<1> HIDE DEF p
<1>3. Top(path) = path[Len(path)] /\ Len(path) \in 1..Len(path) /\ Top(path) \in DOMAIN h
  BY <1>1 DEF Top
<1>4. IF p = <<>> THEN Top(path) = root ELSE p[1] = root
  BY <1>1, <1>2, <1>3 DEF OnPath
<1>5. ASSUME NEW i \in 1..Len(p)
      PROVE  \E t \in Sides : h[p[i]][t] = IF i = Len(p) THEN Top(path) ELSE p[i + 1]
  <2>1. i \in 1..Len(path) /\ i # Len(path) /\ p[i] = path[i]
    BY <1>1, <1>2
  <2>2. path[i + 1] = IF i = Len(p) THEN Top(path) ELSE p[i + 1]
    BY <1>1, <1>2, <1>3
  <2> QED BY <2>1, <2>2 DEF OnPath
<1>6. OnPath(h, p, root, Top(path))
  BY <1>2, <1>4, <1>5 DEF OnPath
<1>7. \E s \in Sides : h[Top(path)][s] = at
  BY <1>3 DEF OnPath
<1> QED BY <1>1, <1>2, <1>3, <1>6, <1>7 DEF p

(* The heap changes, but not on the way down to the last node. *)
LEMMA KeepPath ==
  ASSUME NEW h, NEW g, NEW path, NEW root, NEW at, OnPath(h, path, root, at), NEW r2, NEW at2,
         path \in Seq(DOMAIN g),
         IF path = <<>> THEN at2 = r2 ELSE r2 = root,
         \A i \in 1..Len(path) : i # Len(path) =>
           \A s \in Sides : h[path[i]][s] = path[i + 1] => g[path[i]][s] = path[i + 1],
         path # <<>> => \E s \in Sides : g[Top(path)][s] = at2
  PROVE  OnPath(g, path, r2, at2)
<1>1. Len(path) \in Nat /\ (path # <<>> => Top(path) = path[Len(path)])
  BY DEF Top, OnPath
<1>2. IF path = <<>> THEN at2 = r2 ELSE path[1] = r2
  BY DEF OnPath
<1>3. ASSUME NEW i \in 1..Len(path)
      PROVE  \E s \in Sides : g[path[i]][s] = IF i = Len(path) THEN at2 ELSE path[i + 1]
  <2>1. CASE i = Len(path)
    BY <2>1, <1>1
  <2>2. CASE i # Len(path)
    <3>1. PICK s \in Sides : h[path[i]][s] = path[i + 1]
      BY <2>2 DEF OnPath
    <3> QED BY <2>2, <3>1
  <2> QED BY <2>1, <2>2
<1> QED BY <1>2, <1>3 DEF OnPath

LEMMA BalancedChild ==
  ASSUME NEW h, NEW b, NEW p, NEW t, IsHeap(h), Balanced(h, b, p, t), NEW n \in DOMAIN h, NEW s \in Sides
  PROVE  /\ b[n] \in Nat \ {0} /\ b[h[n][s]] \in Nat \ {0} /\ h[n].red \in BOOLEAN
         /\ b[n] = b[h[n][s]] + (IF h[n].red THEN 0 ELSE 1) + (IF n = p /\ s = t THEN 1 ELSE 0)
         /\ ~(n = p /\ s = t) => b[n] = b[h[n][s]] + (IF h[n].red THEN 0 ELSE 1)
         /\ ~h[n].red => b[n] >= 2
<1>1. h[n][s] \in Places(h) /\ n \in Places(h) /\ h[n].red \in BOOLEAN
  BY ChildIs DEF Places, IsHeap, Cells
<1>2. b[n] \in Nat \ {0} /\ b[h[n][s]] \in Nat \ {0}
  BY <1>1 DEF Balanced
<1>3. b[n] = b[h[n][s]] + (IF h[n].red THEN 0 ELSE 1) + (IF n = p /\ s = t THEN 1 ELSE 0)
  BY DEF Balanced
<1>4. ~(n = p /\ s = t) => b[n] = b[h[n][s]] + (IF h[n].red THEN 0 ELSE 1)
  BY <1>2, <1>3
<1>5. ~h[n].red => b[n] >= 2
  BY <1>2, <1>3
<1> QED BY <1>1, <1>2, <1>3, <1>4, <1>5

(* It is never longer than twice the black nodes passed. *)
LEMMA PushShort ==
  ASSUME NEW h, NEW D, NEW b, NEW p, NEW t, IsHeap(h), Balanced(h, b, p, t), RedsApart(h, Nil, Nil),
         NEW path, NEW root \in Places(h), NEW at \in DOMAIN h, OnPath(h, path, root, at), p \notin DOMAIN h,
         NEW top \in Nat, Short(h, b, path, top), b[root] = top + 1, ~Red(h, root)
  PROVE  Short(h, b, Append(path, at), top) /\ Len(path) + 1 <= 2 * top
<1> DEFINE q == Append(path, at)
           n == Len(path) + 1
<1>1. path \in Seq(DOMAIN h) /\ Len(path) \in Nat /\ (path = <<>> <=> Len(path) = 0)
  BY DEF OnPath
<1>2. /\ q \in Seq(DOMAIN h) /\ Len(q) = n /\ q[n] = at
      /\ \A i \in 1..Len(path) : q[i] = path[i]
  BY <1>1
<1> HIDE DEF q
<1>3. at # Nil /\ b[at] \in Nat \ {0} /\ h[at].red \in BOOLEAN
  BY DEF IsHeap, Balanced, Places, Cells
<1>4. n <= 2 * (top + 1 - b[at]) + (IF h[at].red THEN 0 ELSE 1)
  <2>1. CASE path = <<>>
    <3>1. at = root /\ ~h[at].red /\ n = 1
      BY <2>1, <1>1, <1>3 DEF OnPath, Red
    <3> QED BY <3>1
  <2>2. CASE path # <<>>
    <3>1. Len(path) \in 1..Len(path)
      BY <2>2, <1>1
    <3> DEFINE m == path[Len(path)]
    <3>2. PICK s \in Sides : h[m][s] = at
      BY <3>1 DEF OnPath
    <3>3. m \in DOMAIN h
      BY <3>1, <1>1
    <3>4. /\ b[m] \in Nat \ {0} /\ h[m].red \in BOOLEAN
          /\ b[m] = b[at] + (IF h[m].red THEN 0 ELSE 1)
      BY <3>2, <3>3, <1>3, BalancedChild
    <3>5. h[m].red => ~h[at].red
      BY <3>2, <3>3, <1>3 DEF RedsApart, Red, IsHeap
    <3>6. Len(path) <= 2 * (top + 1 - b[m]) + (IF h[m].red THEN 0 ELSE 1)
      BY <3>1 DEF Short
    <3> HIDE DEF m
    <3>7. CASE h[m].red
      BY <3>4, <3>5, <3>6, <3>7, <1>1, <1>3
    <3>8. CASE ~h[m].red
      <4>1. b[m] = b[at] + 1 /\ Len(path) <= 2 * (top + 1 - b[m]) + 1
        BY <3>4, <3>6, <3>8, <1>3
      <4>2. n <= 2 * (top + 1 - b[at])
        BY <4>1, <1>1, <1>3
      <4> QED BY <4>2, <1>1, <1>3
    <3> QED BY <3>7, <3>8
  <2> QED BY <2>1, <2>2
<1>5. Short(h, b, q, top)
  BY <1>1, <1>2, <1>4 DEF Short
<1>6. ~h[at].red => b[at] >= 2
  <2>1. \E s : s \in Sides
    BY DEF Sides
  <2> QED BY <2>1, <1>3, BalancedChild
<1>7. n <= 2 * top
  <2>1. CASE h[at].red
    BY <2>1, <1>1, <1>3, <1>4
  <2>2. CASE ~h[at].red
    BY <2>2, <1>1, <1>3, <1>4, <1>6
  <2> QED BY <2>1, <2>2
<1> QED BY <1>5, <1>7 DEF q
-----------------------------------------------------------------------------
(***************************************************************************)
(* The invariant.                                                          *)
(***************************************************************************)
(* The heap is ordered and balanced, but for the black that is missing at  *)
(* the side d of p and the red ones that touch. *)
Sound(h, D, b, p, d, e, f) ==
  /\ IsHeap(h) /\ Forest(h, D) /\ Ordered(h, D)
  /\ Balanced(h, b, p, d) /\ RedsApart(h, e, f)

(* It consists of two trees whose black-heights are known; the root of the *)
(* first may be red if it is e. *)
Trees(h) == [root : Places(h), bh : Nat, ssize : Nat]
Rooted(h, D, b, t, u, e, k) ==
  /\ t \in Trees(h) /\ u \in Trees(h) /\ Parts(h, D, t.root, u.root)
  /\ b[t.root] + k = t.bh + 1 /\ b[u.root] = u.bh + 1
  /\ (Red(h, t.root) => t.root = e) /\ ~Red(h, u.root)

Calm(h, D, b, t, u) ==
  Sound(h, D, b, Nil, "left", Nil, Nil) /\ Rooted(h, D, b, t, u, Nil, 0)

At == IF y # Nil THEN y ELSE node
Fixing == pc \in {"insert_fixup", "delete_fixup"}
MissingAtRoot == IF pc = "delete_fixup" /\ Depth = 0 THEN 1 ELSE 0
Tracked ==
  \/ pc = "descend" /\ op # "search"
  \/ pc \in {"insert_fixup", "successor", "unlink", "delete_fixup", "join_right", "join_left"}
Except == IF Fixing THEN node ELSE Nil
Removed == IF pc = "delete_fixup" THEN node ELSE Nil
Hole == IF pc = "delete_fixup" /\ Depth > 0 THEN Up(0) ELSE Nil

Typed ==
  /\ user \in Users /\ DOMAIN heap \subseteq user.nodes
  /\ \A n \in DOMAIN heap : heap[n].key \in Keys
  /\ node \in Places(heap) /\ y \in Places(heap) /\ bh \in Nat
  /\ x \in Keys \cup {0} /\ result \in Keys \cup {0}

Control ==
  /\ pc \in {"idle", "descend", "insert_fixup", "successor", "unlink", "delete_fixup",
             "minimum", "clear", "swap", "join", "join_right", "join_left"}
  /\ pc = "idle" => op = "none" /\ x = 0 /\ bh = 0 /\ node = Nil
  /\ pc = "descend" => op \in Walks /\ x \in Keys
  /\ pc \in {"successor", "unlink", "delete_fixup"} => op = "delete" /\ x \in Keys
  /\ pc = "insert_fixup" => op \in Inserts \cup {"join"} /\ x \in Keys
  /\ pc \in {"minimum", "clear", "swap"} => op = pc
  /\ pc \in {"join", "join_right", "join_left"} => op = "join" /\ x \in Keys
  /\ y # Nil <=> pc \in {"successor", "unlink"}
  /\ ~Tracked => stack = <<>>
  /\ pc = "descend" /\ op \in Inserts => DOMAIN heap # user.nodes
  /\ pc \in {"join", "join_right", "join_left"} => DOMAIN heap # user.nodes

Ancestors(b) ==
  Tracked => /\ OnPath(heap, stack, Higher.root, At)
             /\ Short(heap, b, stack, Higher.bh)
             /\ 2 * Higher.bh < Higher.ssize

(* While a walk down looks for a key, the nodes that have it are below the *)
(* node at hand; where the walk has turned is where the key belongs. *)
Searching(D) ==
  pc = "descend" =>
    /\ node # Nil => node \in D[tree.root]
    /\ op # "insert" => \A m \in D[tree.root] : heap[m].key = x => m \in D[node]
    /\ op # "search" /\ Depth > 0 =>
         /\ node = heap[Up(0)][ChildSide(x, Up(0))]
         /\ \A m \in DOMAIN heap : \A s \in Sides :
              Up(0) \in D[heap[m][s]] => Fits(s, x, heap[m].key)

Inserting == pc = "insert_fixup" => node # Nil /\ heap[node].red

(* y is the first of the nodes to the right of node, or on the way to it. *)
Removing(D) ==
  pc \in {"successor", "unlink"} =>
    /\ node \in D[tree.root] /\ heap[node].key = x
    /\ pc = "unlink" => Nil \in {heap[y].left, heap[y].right}
    /\ y = node => pc = "unlink"
    /\ y # node =>
         /\ pc = "unlink" => heap[y].left = Nil
         /\ y \in D[heap[node].right]
         /\ \A m \in D[heap[node].right] \ D[y] : \A k \in D[y] : heap[k].key <= heap[m].key

Leftmost(D) ==
  pc = "minimum" =>
    /\ node = Nil => tree.root = Nil
    /\ node # Nil => node \in D[tree.root]
    /\ \A m \in D[tree.root] \ D[node] : \A k \in D[node] : heap[k].key <= heap[m].key

Meeting(D, b) ==
  /\ pc \in {"join", "join_right", "join_left"} =>
       /\ \A m \in D[tree.root] : heap[m].key <= x
       /\ \A m \in D[spare.root] : x <= heap[m].key
  /\ Joining =>
       /\ tree.root # Nil /\ spare.root # Nil
       /\ b[node] = bh + (IF Red(heap, node) THEN 0 ELSE 1)
       /\ bh > Lower.bh \/ (bh = Lower.bh /\ ~Red(heap, node))
       /\ Depth > 0 =>
            /\ node = heap[Up(0)][JoinSide]
            /\ \A m \in DOMAIN heap : \A s \in Sides : Up(0) \in D[heap[m][s]] => s = JoinSide

Inv(D, b) ==
  /\ Typed /\ Control
  /\ Sound(heap, D, b, Hole, Side, Except, Removed)
  /\ Rooted(heap, D, b, tree, spare, Except, MissingAtRoot)
  /\ Ancestors(b) /\ Searching(D) /\ Inserting /\ Removing(D) /\ Leftmost(D) /\ Meeting(D, b)

LEMMA NoHole ==
  ASSUME NEW h, NEW D, NEW b, NEW d, NEW e, NEW c, NEW f, Sound(h, D, b, Nil, d, e, f)
  PROVE  Sound(h, D, b, Nil, c, e, f)
BY DEF Sound, Balanced, IsHeap

LEMMA WhenCalm ==
  ASSUME NEW D, NEW b, Inv(D, b), ~Fixing
  PROVE  Calm(heap, D, b, tree, spare) /\ IsFiniteSet(DOMAIN heap) /\ Typed
<1>1. Hole = Nil /\ Except = Nil /\ Removed = Nil /\ MissingAtRoot = 0
  BY DEF Fixing, Hole, Except, Removed, MissingAtRoot
<1>2. IsFiniteSet(DOMAIN heap)
  BY RbTreeAssumption, FS_Subset DEF Inv, Typed
<1> QED BY <1>1, <1>2, NoHole DEF Inv, Calm

LEMMA CalmAgain ==
  ASSUME NEW D, NEW b, ~Fixing', Calm(heap', D, b, tree', spare'), Typed', Control',
         Ancestors(b)', Searching(D)', Inserting', Removing(D)', Leftmost(D)', Meeting(D, b)'
  PROVE  Inv(D, b)'
<1>1. Hole' = Nil /\ Except' = Nil /\ Removed' = Nil /\ MissingAtRoot' = 0
  BY DEF Fixing, Hole, Except, Removed, MissingAtRoot
<1>2. Sound(heap', D, b, Nil, Side', Nil, Nil)
  BY NoHole DEF Calm
<1> QED BY <1>1, <1>2 DEF Inv, Calm

LEMMA CalmTrees ==
  ASSUME NEW h, NEW D, NEW b, NEW t, NEW u, Calm(h, D, b, t, u)
  PROVE  /\ t \in Trees(h) /\ u \in Trees(h) /\ b[t.root] = t.bh + 1 /\ b[u.root] = u.bh + 1
         /\ ~Red(h, t.root) /\ ~Red(h, u.root)
         /\ Parts(h, D, t.root, u.root) /\ Parts(h, D, u.root, t.root)
         /\ Sound(h, D, b, Nil, "left", Nil, Nil)
<1>1. t \in Trees(h) /\ u \in Trees(h) /\ b[u.root] = u.bh + 1 /\ ~Red(h, u.root)
      /\ Parts(h, D, t.root, u.root) /\ Sound(h, D, b, Nil, "left", Nil, Nil)
  BY DEF Calm, Rooted
<1>2. ~Red(h, t.root)
  BY DEF Calm, Rooted, Red
<1>3. b[t.root] = t.bh + 1
  <2>1. t.bh \in Nat /\ b[t.root] \in Nat
    BY <1>1 DEF Trees, Sound, Balanced
  <2>2. b[t.root] + 0 = t.bh + 1
    BY DEF Calm, Rooted
  <2> QED BY <2>1, <2>2
<1>4. Parts(h, D, u.root, t.root)
  BY <1>1 DEF Parts
<1> QED BY <1>1, <1>2, <1>3, <1>4

(* A call returns. *)
LEMMA Returned ==
  ASSUME NEW D, NEW b, NEW res \in Keys \cup {0}, Done(res), user' \in Users, DOMAIN heap' \subseteq user'.nodes,
         \A n \in DOMAIN heap' : heap'[n].key \in Keys,
         Calm(heap', D, b, tree', spare')
  PROVE  Inv(D, b)'
<1>1. /\ pc' = "idle" /\ op' = "none" /\ x' = 0 /\ node' = Nil /\ y' = Nil
      /\ stack' = <<>> /\ bh' = 0 /\ result' = res
  BY DEF Done
<1>2. ~Fixing' /\ ~Tracked' /\ ~Joining'
  BY <1>1 DEF Fixing, Tracked, Joining
<1>3. Typed'
  BY <1>1 DEF Typed, Places, Nil
<1>4. Control'
  BY <1>1 DEF Control
<1>5. /\ Ancestors(b)' /\ Searching(D)' /\ Inserting' /\ Removing(D)' /\ Leftmost(D)' /\ Meeting(D, b)'
  BY <1>1, <1>2 DEF Ancestors, Searching, Inserting, Removing, Leftmost, Meeting
<1> QED BY <1>2, <1>3, <1>4, <1>5, CalmAgain

LEMMA GoLeftKeeps ==
  ASSUME NEW D, NEW b, Inv(D, b), GoLeft
  PROVE  Inv(D, b)'
<1>1. /\ pc = "minimum" /\ node # Nil /\ heap[node].left # Nil /\ node' = heap[node].left
      /\ UNCHANGED <<user, heap, tree, spare, stack, pc, op, x, y, bh, result>>
  BY DEF GoLeft
<1>2. Calm(heap, D, b, tree, spare) /\ Typed /\ Control /\ Leftmost(D)
  BY <1>1, WhenCalm DEF Fixing, Inv
<1>3. node \in DOMAIN heap /\ node' \in Places(heap) /\ IsHeap(heap) /\ Forest(heap, D) /\ Ordered(heap, D)
  BY <1>1, <1>2 DEF Typed, Calm, Sound, IsHeap, Cells, Places
<1>4. heap[node]["left"] = heap[node].left /\ heap[node]["right"] = heap[node].right
      /\ "left" \in Sides /\ "right" \in Sides /\ Opp("left") = "right"
  BY <1>3 DEF IsHeap, Cells, Sides, Opp
<1>5. Typed' /\ Control'
  BY <1>1, <1>2, <1>3 DEF Typed, Control, Tracked
<1>6. ~Fixing' /\ ~Tracked' /\ ~Joining'
  BY <1>1 DEF Fixing, Tracked, Joining
<1>7. Ancestors(b)' /\ Searching(D)' /\ Inserting' /\ Removing(D)' /\ Meeting(D, b)'
  BY <1>1, <1>6 DEF Ancestors, Searching, Inserting, Removing, Meeting
<1>8. Leftmost(D)'
  <2>1. node' \in D[tree.root]
    <3>1. node' \in D[node]
      BY <1>1, <1>3, <1>4, ForestSides, Within DEF Places
    <3> QED BY <1>1, <1>2, <1>3, <3>1, <1>4 DEF Leftmost, Forest, Calm, Rooted, Parts, Places
  <2>2. ASSUME NEW m \in D[tree.root] \ D[node'], NEW k \in D[node']
        PROVE  heap[k].key <= heap[m].key
    <3>1. m \in D[node] => m = node \/ m \in D[heap[node].right]
      BY <1>1, <1>3, <1>4, ForestSides
    <3>2. k \in D[node]
      BY <1>1, <1>3, <1>4, ForestSides
    <3>3. m \notin D[node] => heap[k].key <= heap[m].key
      BY <1>1, <1>2, <3>2 DEF Leftmost
    <3>4. heap[k].key <= heap[node].key
      BY <1>1, <1>3, <1>4 DEF Ordered, Fits
    <3>5. m \in D[heap[node].right] => heap[node].key <= heap[m].key
      BY <1>3, <1>4 DEF Ordered, Fits
    <3>6. heap[k].key \in Nat /\ heap[node].key \in Nat /\ (m \in D[node] => heap[m].key \in Nat)
      BY <1>3, <3>2, Within DEF IsHeap, Cells
    <3> QED BY <3>1, <3>3, <3>4, <3>5, <3>6
  <2> QED BY <1>1, <2>1, <2>2 DEF Leftmost
<1>9. Calm(heap', D, b, tree', spare')
  BY <1>1, <1>2
<1> QED BY <1>5, <1>6, <1>7, <1>8, <1>9, CalmAgain

(* What is known of the node at hand on a way down. *)
LEMMA OnTheWay ==
  ASSUME NEW D, NEW b, Inv(D, b), Tracked, ~Fixing
  PROVE  /\ OnPath(heap, stack, Higher.root, At) /\ Short(heap, b, stack, Higher.bh)
         /\ 2 * Higher.bh < Higher.ssize
         /\ Higher \in Trees(heap) /\ Lower \in Trees(heap) /\ b[Higher.root] = Higher.bh + 1
         /\ b[Lower.root] = Lower.bh + 1 /\ ~Red(heap, Higher.root) /\ ~Red(heap, Lower.root)
         /\ Parts(heap, D, Higher.root, Lower.root)
         /\ Depth = Len(stack) /\ Depth \in Nat /\ Up(0) = Top(stack)
         /\ Sound(heap, D, b, Nil, "left", Nil, Nil)
         /\ stack = <<>> <=> Depth = 0
<1>1. Calm(heap, D, b, tree, spare)
  BY WhenCalm
<1>2. OnPath(heap, stack, Higher.root, At) /\ Short(heap, b, stack, Higher.bh) /\ 2 * Higher.bh < Higher.ssize
  BY DEF Inv, Ancestors
<1>3. Depth = Len(stack) /\ Depth \in Nat /\ Up(0) = Top(stack) /\ (stack = <<>> <=> Depth = 0)
  <2>1. Len(stack) \in Nat /\ (stack = <<>> <=> Len(stack) = 0)
    BY <1>2 DEF OnPath
  <2> QED BY <2>1 DEF Depth, Up, Top
<1>4. /\ Higher \in Trees(heap) /\ Lower \in Trees(heap) /\ b[Higher.root] = Higher.bh + 1
      /\ b[Lower.root] = Lower.bh + 1 /\ ~Red(heap, Higher.root) /\ ~Red(heap, Lower.root)
      /\ Parts(heap, D, Higher.root, Lower.root)
  <2>1. /\ tree \in Trees(heap) /\ spare \in Trees(heap) /\ b[tree.root] = tree.bh + 1
        /\ b[spare.root] = spare.bh + 1 /\ ~Red(heap, tree.root) /\ ~Red(heap, spare.root)
        /\ Parts(heap, D, tree.root, spare.root) /\ Parts(heap, D, spare.root, tree.root)
    BY <1>1, CalmTrees
  <2>2. CASE pc = "join_left"
    BY <2>1, <2>2 DEF Higher, Lower
  <2>3. CASE pc # "join_left"
    BY <2>1, <2>3 DEF Higher, Lower
  <2> QED BY <2>2, <2>3
<1> QED BY <1>1, <1>2, <1>3, <1>4 DEF Calm

LEMMA PushKeeps ==
  ASSUME NEW D, NEW b, Inv(D, b), Tracked, ~Fixing, At # Nil, NEW s \in Sides
  PROVE  /\ At \in DOMAIN heap /\ OnPath(heap, Append(stack, At), Higher.root, heap[At][s])
         /\ Short(heap, b, Append(stack, At), Higher.bh)
         /\ Depth + 1 <= 2 * Higher.bh
         /\ Top(Append(stack, At)) = At /\ Len(Append(stack, At)) = Depth + 1
<1>1. /\ OnPath(heap, stack, Higher.root, At) /\ Short(heap, b, stack, Higher.bh)
      /\ Higher \in Trees(heap) /\ b[Higher.root] = Higher.bh + 1
      /\ ~Red(heap, Higher.root) /\ Parts(heap, D, Higher.root, Lower.root)
      /\ Depth = Len(stack) /\ Sound(heap, D, b, Nil, "left", Nil, Nil)
  BY OnTheWay
<1>2. At \in DOMAIN heap
  BY <1>1, PathParent DEF Sound
<1>3. Higher.root \in Places(heap) /\ Higher.bh \in Nat /\ Nil \notin DOMAIN heap /\ IsHeap(heap)
      /\ Balanced(heap, b, Nil, "left") /\ RedsApart(heap, Nil, Nil) /\ Forest(heap, D)
  BY <1>1 DEF Trees, Sound, IsHeap
<1>4. OnPath(heap, Append(stack, At), Higher.root, heap[At][s]) /\ Top(Append(stack, At)) = At
  BY <1>1, <1>2, <1>3, PushPath
<1>5. Short(heap, b, Append(stack, At), Higher.bh) /\ Len(stack) + 1 <= 2 * Higher.bh
  BY <1>1, <1>2, <1>3, PushShort
<1>6. Len(Append(stack, At)) = Len(stack) + 1
  BY <1>1, <1>2 DEF OnPath
<1> QED BY <1>1, <1>2, <1>4, <1>5, <1>6

LEMMA ChildSideFits ==
  ASSUME NEW n, NEW k \in Nat, heap[n].key \in Nat
  PROVE  ChildSide(k, n) \in Sides /\ Fits(ChildSide(k, n), k, heap[n].key)
BY DEF ChildSide, Sides, Fits

LEMMA KeysAreNumbers == Keys \subseteq Nat \ {0}
BY RbTreeAssumption DEF Keys

LEMMA DescendKeeps ==
  ASSUME NEW D, NEW b, Inv(D, b), Descend
  PROVE  Inv(D, b)'
<1> DEFINE s == ChildSide(x, node)
<1>1. /\ pc = "descend" /\ ~AtEnd /\ node' = heap[node][s]
      /\ stack' = IF op = "search" THEN stack ELSE Append(stack, node)
      /\ UNCHANGED <<user, heap, tree, spare, pc, op, x, y, bh, result>>
  BY DEF Descend
<1>2. Calm(heap, D, b, tree, spare) /\ Typed /\ Control /\ Searching(D)
  BY <1>1, WhenCalm DEF Fixing, Inv
<1>3. node \in DOMAIN heap /\ node # Nil /\ (op # "insert" => heap[node].key # x) /\ y = Nil
  BY <1>1, <1>2 DEF AtEnd, Typed, Places, Control
<1>4. IsHeap(heap) /\ Forest(heap, D) /\ Ordered(heap, D) /\ Parts(heap, D, tree.root, spare.root)
  BY <1>2 DEF Calm, Sound, Rooted
<1>5. x \in Nat /\ heap[node].key \in Nat /\ s \in Sides /\ Fits(s, x, heap[node].key)
  <2>1. x \in Nat /\ heap[node].key \in Nat
    BY <1>1, <1>2, <1>3, KeysAreNumbers DEF Control, Typed
  <2> QED BY <2>1, ChildSideFits
<1>6. node' \in Places(heap) /\ D[node'] \subseteq D[node]
  BY <1>1, <1>3, <1>4, <1>5, ChildIs, ForestSides
<1>7. Typed' /\ Control'
  BY <1>1, <1>2, <1>6 DEF Typed, Control, Tracked
<1>8. ~Fixing' /\ ~Joining' /\ ~Joining /\ Higher' = Higher /\ Higher = tree
  BY <1>1 DEF Fixing, Joining, Higher
<1>9. Inserting' /\ Removing(D)' /\ Leftmost(D)' /\ Meeting(D, b)'
  BY <1>1, <1>8 DEF Inserting, Removing, Leftmost, Meeting
<1>10. At = node /\ At' = node' /\ (Tracked <=> op # "search") /\ (Tracked' <=> op # "search")
  BY <1>1, <1>3 DEF At, Tracked
<1>11. Ancestors(b)'
  <2> SUFFICES ASSUME op # "search" PROVE Ancestors(b)'
    BY <1>10 DEF Ancestors
  <2>1. Tracked /\ ~Fixing /\ stack' = Append(stack, node)
    BY <1>1, <1>10 DEF Fixing
  <2>2. OnPath(heap, Append(stack, node), Higher.root, node') /\ Short(heap, b, Append(stack, node), Higher.bh)
    BY <1>1, <1>3, <1>5, <1>10, <2>1, PushKeeps
  <2>3. 2 * Higher.bh < Higher.ssize
    BY <2>1, OnTheWay
  <2> QED BY <2>1, <2>2, <2>3, <1>1, <1>8, <1>10 DEF Ancestors
<1>12. Searching(D)'
  <2>1. node' # Nil => node' \in D[tree.root]
    <3>1. node' # Nil => node' \in D[node']
      BY <1>4, <1>6, Within DEF Places
    <3>2. node \in D[tree.root] /\ tree.root \in Places(heap)
      BY <1>1, <1>2, <1>3, <1>4 DEF Searching, Parts
    <3>3. D[node] \subseteq D[tree.root]
      BY <3>2, <1>4, Under
    <3> QED BY <3>1, <3>3, <1>6
  <2>2. ASSUME op # "insert", NEW m \in D[tree.root], heap[m].key = x PROVE m \in D[node']
    <3>1. m \in D[node] /\ m # node
      BY <1>1, <1>2, <1>3, <2>2 DEF Searching
    <3>2. m \in D[heap[node][s]] \/ m \in D[heap[node][Opp(s)]]
      BY <3>1, <1>3, <1>4, <1>5, ForestSides
    <3>3. m \in D[heap[node][Opp(s)]] => Fits(Opp(s), x, heap[node].key)
      BY <1>3, <1>4, <1>5, <2>2, OppSide DEF Ordered
    <3>4. ~Fits(Opp(s), x, heap[node].key)
      BY <1>3, <1>5, <2>2, FitsFacts
    <3> QED BY <3>2, <3>3, <3>4, <1>1
  <2>3. ASSUME op # "search", NEW m \in DOMAIN heap, NEW t \in Sides, node \in D[heap[m][t]]
        PROVE  Fits(t, x, heap[m].key)
    <3>1. Tracked /\ ~Fixing
      BY <1>1, <1>10, <2>3 DEF Fixing
    <3>2. /\ OnPath(heap, stack, tree.root, node) /\ Up(0) = Top(stack) /\ Depth = Len(stack)
          /\ (stack = <<>> <=> Depth = 0) /\ Depth \in Nat
      BY <3>1, <1>8, <1>10, OnTheWay
    <3>3. stack # <<>>
      <4>1. stack = <<>> => node = tree.root
        BY <3>2 DEF OnPath
      <4> QED BY <4>1, <2>3, <1>3, <1>4, RootHasNoParent
    <3>4. Up(0) \in DOMAIN heap /\ Depth > 0
      BY <3>2, <3>3, PopPath
    <3>5. /\ node = heap[Up(0)][ChildSide(x, Up(0))]
          /\ \A k \in DOMAIN heap : \A u \in Sides : Up(0) \in D[heap[k][u]] => Fits(u, x, heap[k].key)
      BY <3>4, <1>1, <1>2, <2>3 DEF Searching
    <3>6. heap[Up(0)].key \in Nat
      BY <3>4, <1>4 DEF IsHeap, Cells
    <3>7. ChildSide(x, Up(0)) \in Sides /\ Fits(ChildSide(x, Up(0)), x, heap[Up(0)].key)
      BY <3>6, <1>5, ChildSideFits
    <3>8. CASE heap[m][t] = node
      <4>1. m = Up(0) /\ t = ChildSide(x, Up(0))
        BY <3>4, <3>5, <3>7, <3>8, <1>3, <1>4, OneParent
      <4> QED BY <4>1, <3>7
    <3>9. CASE heap[m][t] # node
      <4>1. heap[m][t] \in DOMAIN heap
        BY <2>3, <1>4, ChildIs DEF Forest
      <4>2. Up(0) \in D[heap[m][t]]
        BY <4>1, <3>4, <3>5, <3>7, <3>9, <2>3, <1>3, <1>4, ParentAbove
      <4> QED BY <4>2, <3>5
    <3> QED BY <3>8, <3>9
  <2>4. ASSUME op # "search" PROVE Up(0)' = node
    <3>1. Tracked /\ ~Fixing /\ stack' = Append(stack, node)
      BY <1>1, <1>10, <2>4 DEF Fixing
    <3>2. Top(Append(stack, node)) = node /\ Len(Append(stack, node)) = Depth + 1 /\ Depth \in Nat
      BY <1>1, <1>3, <1>5, <1>10, <3>1, PushKeeps, OnTheWay
    <3> QED BY <3>1, <3>2 DEF Top, Up, Depth
  <2>5. op # "search" => ChildSide(x, Up(0))' = s
    BY <1>1, <2>4 DEF ChildSide
  <2> QED BY <1>1, <2>1, <2>2, <2>3, <2>4, <2>5 DEF Searching
<1>13. Calm(heap', D, b, tree', spare')
  BY <1>1, <1>2
<1> QED BY <1>7, <1>8, <1>9, <1>11, <1>12, <1>13, CalmAgain

LEMMA GrownIs ==
  ASSUME NEW h, NEW t \in Trees(h)
  PROVE  /\ Grown(t) \in Trees(h) /\ Grown(t).root = t.root /\ Grown(t).bh = t.bh
         /\ 2 * Grown(t).bh < Grown(t).ssize
<1> USE DEF Trees
<1>1. t.bh \in Nat /\ t.ssize \in Nat /\ t.root \in Places(h)
  OBVIOUS
<1>2. CASE 2 * t.bh >= t.ssize
  <2>1. PICK k \in Nat : /\ k = IF 2 * t.ssize > 2 * t.bh + 1 THEN 2 * t.ssize ELSE 2 * t.bh + 1
                         /\ 2 * t.bh < k
    BY <1>1
  <2>2. Grown(t) = [t EXCEPT !.ssize = k]
    BY <1>2, <2>1 DEF Grown
  <2> QED BY <1>1, <2>1, <2>2
<1>3. CASE ~(2 * t.bh >= t.ssize)
  BY <1>1, <1>3 DEF Grown
<1> QED BY <1>2, <1>3

LEMMA CalmGrown ==
  ASSUME NEW h, NEW D, NEW b, NEW t, NEW u, Calm(h, D, b, t, u)
  PROVE  /\ Calm(h, D, b, Grown(t), u) /\ Calm(h, D, b, t, Grown(u))
         /\ Grown(t).root = t.root /\ Grown(t).bh = t.bh /\ 2 * Grown(t).bh < Grown(t).ssize
         /\ Grown(u).root = u.root /\ Grown(u).bh = u.bh /\ 2 * Grown(u).bh < Grown(u).ssize
<1>1. t \in Trees(h) /\ u \in Trees(h)
  BY CalmTrees
<1> QED BY <1>1, GrownIs DEF Calm, Rooted

(* A walk starts at a root. *)
LEMMA EmptyPath ==
  ASSUME NEW h, NEW b, NEW root, NEW top
  PROVE  OnPath(h, <<>>, root, root) /\ Short(h, b, <<>>, top)
<1>1. <<>> \in Seq(DOMAIN h) /\ Len(<<>>) = 0 /\ 1..0 = {}
  OBVIOUS
<1> QED BY <1>1 DEF OnPath, Short

LEMMA CallKeeps ==
  ASSUME NEW D, NEW b, Inv(D, b), NEW o \in user.calls, Call(o)
  PROVE  /\ Inv(D, b)' /\ heap' = heap /\ tree'.root = tree.root /\ spare' = spare
         /\ op' = o /\ o \in AllCalls /\ x' \in Keys \cup {0} /\ result' = 0
<1>1. /\ pc = "idle" /\ (o \in Inserts \cup {"join"} => DOMAIN heap # user.nodes)
      /\ op' = o /\ x' \in Takes(o) /\ (o = "join" => Between(x'))
      /\ pc' = IF o \in Walks THEN "descend" ELSE o
      /\ node' = IF o \in Walks \cup {"minimum"} THEN tree.root ELSE Nil
      /\ tree' = IF o \in Inserts \cup {"delete"} THEN Grown(tree) ELSE tree
      /\ result' = 0 /\ UNCHANGED <<user, heap, spare, stack, y, bh>>
  BY DEF Call
<1>2. Calm(heap, D, b, tree, spare) /\ IsFiniteSet(DOMAIN heap) /\ Typed /\ Control
  BY <1>1, WhenCalm DEF Fixing, Inv
<1>3. tree.root \in Places(heap) /\ spare.root \in Places(heap) /\ y = Nil /\ stack = <<>>
      /\ IsHeap(heap) /\ Forest(heap, D)
  <2>1. ~Tracked
    BY <1>1 DEF Tracked
  <2> QED BY <1>1, <1>2, <2>1, CalmTrees DEF Control, Trees, Sound
<1>4. Calm(heap', D, b, tree', spare') /\ tree'.root = tree.root
  BY <1>1, <1>2, CalmGrown
<1>5. o \in AllCalls /\ user \in Users /\ user.keys \subseteq Keys
  BY <1>2, RbTreeAssumption DEF Typed, Keys
<1>6. (o \in Walks \cup {"join"} => x' \in user.keys) /\ x' \in Keys \cup {0}
  BY <1>1, <1>5 DEF Takes, Walks, Inserts
<1>7. Typed'
  BY <1>1, <1>2, <1>3, <1>6 DEF Typed, Nil, Places
<1>8. o \in Walks \/ o \in {"minimum", "clear", "swap", "join"}
  BY <1>5 DEF AllCalls, Walks, Inserts
<1>9. ~Fixing' /\ ~Joining' /\ Higher' = tree'
      /\ (Tracked' => o \in Inserts \cup {"delete"} /\ pc' = "descend")
  BY <1>1, <1>5, <1>8 DEF Fixing, Joining, Tracked, Higher, Walks, Inserts, AllCalls
<1>10. Control'
  BY <1>1, <1>2, <1>3, <1>5, <1>6, <1>8, <1>9 DEF Control, Walks, Inserts, AllCalls
<1>11. Inserting' /\ Removing(D)'
  BY <1>1, <1>8 DEF Inserting, Removing
<1>12. Ancestors(b)'
  <2> SUFFICES ASSUME Tracked' PROVE Ancestors(b)'
    BY DEF Ancestors
  <2>1. tree' = Grown(tree) /\ node' = tree.root /\ At' = node'
    BY <1>1, <1>3, <1>9 DEF Walks, Inserts, At
  <2>2. 2 * tree'.bh < tree'.ssize
    BY <1>2, <2>1, CalmGrown
  <2>3. OnPath(heap, <<>>, tree.root, tree.root) /\ Short(heap, b, <<>>, tree'.bh)
    BY EmptyPath
  <2> QED BY <1>1, <1>3, <1>4, <1>9, <2>1, <2>2, <2>3 DEF Ancestors
<1>13. Searching(D)'
  <2>1. pc' = "descend" => node' = tree.root
    BY <1>1, <1>8 DEF Walks, Inserts
  <2>2. Depth' = 0
    BY <1>1, <1>3 DEF Depth
  <2>3. tree.root # Nil => tree.root \in D[tree.root]
    BY <1>3, Within DEF Places
  <2> QED BY <2>1, <2>2, <2>3, <1>1, <1>4 DEF Searching
<1>14. Leftmost(D)'
  <2>1. pc' = "minimum" => node' = tree.root
    BY <1>1
  <2>2. tree.root # Nil => tree.root \in D[tree.root]
    BY <1>3, Within DEF Places
  <2> QED BY <2>1, <2>2, <1>1, <1>4 DEF Leftmost
<1>15. Meeting(D, b)'
  <2>1. NodesOf(tree) = D[tree.root] /\ NodesOf(spare) = D[spare.root]
    BY <1>2, <1>3, BelowIs DEF NodesOf
  <2>2. pc' \in {"join", "join_right", "join_left"} => Between(x')
    BY <1>1, <1>8
  <2> QED BY <1>1, <1>4, <1>9, <2>1, <2>2 DEF Meeting, Between
<1>16. Inv(D, b)'
  BY <1>4, <1>7, <1>9, <1>10, <1>11, <1>12, <1>13, <1>14, <1>15, CalmAgain
<1> QED BY <1>1, <1>4, <1>5, <1>6, <1>16

LEMMA ReturnFoundKeeps ==
  ASSUME NEW D, NEW b, Inv(D, b), ReturnFound
  PROVE  Inv(D, b)'
<1>1. pc = "descend" /\ Done(IF node = Nil THEN 0 ELSE heap[node].key) /\ UNCHANGED <<user, heap, tree, spare>>
  BY DEF ReturnFound
<1>2. Calm(heap, D, b, tree, spare) /\ Typed
  BY <1>1, WhenCalm DEF Fixing
<1>3. (IF node = Nil THEN 0 ELSE heap[node].key) \in Keys \cup {0}
  BY <1>2 DEF Typed, Places
<1> QED BY <1>1, <1>2, <1>3, Returned DEF Typed

LEMMA MinimumKeeps ==
  ASSUME NEW D, NEW b, Inv(D, b), Minimum
  PROVE  Inv(D, b)'
<1>1. pc = "minimum" /\ Done(IF node = Nil THEN 0 ELSE heap[node].key) /\ UNCHANGED <<user, heap, tree, spare>>
  BY DEF Minimum
<1>2. Calm(heap, D, b, tree, spare) /\ Typed
  BY <1>1, WhenCalm DEF Fixing
<1>3. (IF node = Nil THEN 0 ELSE heap[node].key) \in Keys \cup {0}
  BY <1>2 DEF Typed, Places
<1> QED BY <1>1, <1>2, <1>3, Returned DEF Typed

LEMMA SwapKeeps ==
  ASSUME NEW D, NEW b, Inv(D, b), Swap
  PROVE  Inv(D, b)'
<1>1. pc = "swap" /\ Done(0) /\ tree' = spare /\ spare' = tree /\ UNCHANGED <<user, heap>>
  BY DEF Swap
<1>2. Calm(heap, D, b, tree, spare) /\ Typed
  BY <1>1, WhenCalm DEF Fixing
<1>3. Calm(heap, D, b, spare, tree)
  <2>1. b[spare.root] + 0 = spare.bh + 1
    <3>1. spare.bh \in Nat /\ b[spare.root] = spare.bh + 1
      BY <1>2, CalmTrees DEF Trees
    <3> QED BY <3>1
  <2> QED BY <1>2, <2>1, CalmTrees DEF Calm, Rooted
<1> QED BY <1>1, <1>2, <1>3, Returned DEF Typed

LEMMA JoinTrivialKeeps ==
  ASSUME NEW D, NEW b, Inv(D, b), JoinTrivial
  PROVE  Inv(D, b)'
<1>1. /\ pc = "join" /\ Nil \in {tree.root, spare.root} /\ Done(0)
      /\ tree' = (IF tree.root = Nil THEN spare ELSE tree)
      /\ spare' = NewTree /\ UNCHANGED <<user, heap>>
  BY DEF JoinTrivial
<1>2. Calm(heap, D, b, tree, spare) /\ Typed
  BY <1>1, WhenCalm DEF Fixing
<1>3. /\ tree \in Trees(heap) /\ spare \in Trees(heap) /\ b[tree.root] = tree.bh + 1 /\ b[spare.root] = spare.bh + 1
      /\ ~Red(heap, tree.root) /\ ~Red(heap, spare.root)
      /\ Parts(heap, D, tree.root, spare.root) /\ Parts(heap, D, spare.root, tree.root)
      /\ Sound(heap, D, b, Nil, "left", Nil, Nil)
  BY <1>2, CalmTrees
<1>4. D[Nil] = {} /\ b[Nil] = 1
  BY <1>3 DEF Sound, Forest, Balanced
<1>5. tree' \in Trees(heap) /\ b[tree'.root] + 0 = tree'.bh + 1 /\ ~Red(heap, tree'.root)
      /\ Parts(heap, D, tree'.root, Nil)
  <2>1. CASE tree.root = Nil
    <3>1. tree' = spare
      BY <1>1, <2>1
    <3>2. b[spare.root] + 0 = spare.bh + 1
      <4>1. spare.bh \in Nat
        BY <1>3 DEF Trees
      <4> QED BY <4>1, <1>3
    <3>3. Parts(heap, D, spare.root, Nil)
      BY <1>3, <2>1
    <3> QED BY <1>3, <3>1, <3>2, <3>3
  <2>2. CASE tree.root # Nil
    <3>1. tree' = tree /\ spare.root = Nil
      BY <1>1, <2>2
    <3> QED BY <1>3, <1>4, <2>2, <3>1 DEF Parts, Trees
  <2> QED BY <2>1, <2>2
<1>6. spare' \in Trees(heap) /\ spare'.root = Nil /\ b[spare'.root] = spare'.bh + 1 /\ ~Red(heap, Nil)
  BY <1>1, <1>4 DEF NewTree, Trees, Places, Red
<1>7. Calm(heap', D, b, tree', spare')
  BY <1>1, <1>3, <1>5, <1>6 DEF Calm, Rooted
<1> QED BY <1>1, <1>2, <1>7, Returned DEF Typed

LEMMA FieldsAreSides ==
  ASSUME NEW h, IsHeap(h), NEW n \in DOMAIN h
  PROVE  /\ h[n]["left"] = h[n].left /\ h[n]["right"] = h[n].right
         /\ "left" \in Sides /\ "right" \in Sides /\ Opp("left") = "right" /\ Opp("right") = "left"
         /\ h[n].left \in Places(h) /\ h[n].right \in Places(h)
         /\ h[n].key \in Nat /\ h[n].red \in BOOLEAN
BY DEF IsHeap, Cells, Sides, Opp

LEMMA FindVictimKeeps ==
  ASSUME NEW D, NEW b, Inv(D, b), FindVictim
  PROVE  Inv(D, b)'
<1>1. /\ pc = "descend" /\ op = "delete" /\ node # Nil /\ heap[node].key = x
      /\ IF heap[node].left = Nil \/ heap[node].right = Nil
         THEN pc' = "unlink" /\ y' = node /\ stack' = stack
         ELSE pc' = "successor" /\ y' = heap[node].right /\ stack' = Append(stack, node)
      /\ UNCHANGED <<user, heap, tree, spare, op, x, node, bh, result>>
  BY DEF FindVictim, AtEnd
<1>2. Calm(heap, D, b, tree, spare) /\ Typed /\ Control /\ Searching(D)
  BY <1>1, WhenCalm DEF Fixing, Inv
<1>3. node \in DOMAIN heap /\ y = Nil /\ node \in D[tree.root] /\ IsHeap(heap) /\ Forest(heap, D)
  BY <1>1, <1>2 DEF Typed, Control, Searching, Places, Calm, Sound
<1>4. /\ heap[node]["right"] = heap[node].right /\ "right" \in Sides
      /\ heap[node].left \in Places(heap) /\ heap[node].right \in Places(heap)
  BY <1>3, FieldsAreSides
<1>5. y' \in Places(heap) /\ y' # Nil /\ pc' \in {"unlink", "successor"}
  BY <1>1, <1>3, <1>4 DEF Places
<1>6. Typed' /\ Control'
  BY <1>1, <1>2, <1>5 DEF Typed, Control, Tracked
<1>7. ~Fixing' /\ ~Joining' /\ ~Joining /\ Higher = tree /\ Higher' = tree /\ Tracked /\ ~Fixing
      /\ At = node /\ At' = y'
  BY <1>1, <1>3, <1>5 DEF Fixing, Joining, Higher, Tracked, At
<1>8. Searching(D)' /\ Inserting' /\ Leftmost(D)' /\ Meeting(D, b)'
  BY <1>5, <1>7 DEF Searching, Inserting, Leftmost, Meeting
<1>9. Ancestors(b)'
  <2>1. OnPath(heap, stack, tree.root, node) /\ Short(heap, b, stack, tree.bh) /\ 2 * tree.bh < tree.ssize
    BY <1>7, OnTheWay
  <2>2. CASE heap[node].left = Nil \/ heap[node].right = Nil
    BY <1>1, <1>7, <2>1, <2>2 DEF Ancestors
  <2>3. CASE ~(heap[node].left = Nil \/ heap[node].right = Nil)
    <3>1. /\ OnPath(heap, Append(stack, node), tree.root, heap[node]["right"])
          /\ Short(heap, b, Append(stack, node), tree.bh)
      BY <1>1, <1>4, <1>7, PushKeeps
    <3> QED BY <1>1, <1>4, <1>7, <2>1, <2>3, <3>1 DEF Ancestors
  <2> QED BY <2>2, <2>3
<1>10. Removing(D)'
  <2>1. CASE heap[node].left = Nil \/ heap[node].right = Nil
    BY <1>1, <1>3, <2>1 DEF Removing
  <2>2. CASE ~(heap[node].left = Nil \/ heap[node].right = Nil)
    <3>1. y' = heap[node].right /\ pc' = "successor"
      BY <1>1, <2>2
    <3>2. y' \in D[y'] /\ y' # node
      <4>1. y' \in DOMAIN heap /\ y' \in D[y']
        BY <1>3, <1>5, Within DEF Places
      <4> QED BY <3>1, <4>1, <1>3, <1>4, ForestSides
    <3> QED BY <1>1, <1>3, <3>1, <3>2 DEF Removing
  <2> QED BY <2>1, <2>2
<1>11. Calm(heap', D, b, tree', spare')
  BY <1>1, <1>2
<1> QED BY <1>6, <1>7, <1>8, <1>9, <1>10, <1>11, CalmAgain

LEMMA SuccessorKeeps ==
  ASSUME NEW D, NEW b, Inv(D, b), Successor
  PROVE  Inv(D, b)'
<1>1. /\ pc = "successor"
      /\ IF heap[y].left = Nil THEN pc' = "unlink" /\ UNCHANGED <<y, stack>>
         ELSE y' = heap[y].left /\ stack' = Append(stack, y) /\ UNCHANGED pc
      /\ UNCHANGED <<user, heap, tree, spare, op, x, node, bh, result>>
  BY DEF Successor
<1>2. Calm(heap, D, b, tree, spare) /\ Typed /\ Control /\ Removing(D)
  BY <1>1, WhenCalm DEF Fixing, Inv
<1>3. y \in DOMAIN heap /\ y # Nil /\ IsHeap(heap) /\ Forest(heap, D) /\ Ordered(heap, D)
  BY <1>1, <1>2 DEF Typed, Control, Places, Calm, Sound
<1>4. /\ node \in D[tree.root] /\ heap[node].key = x /\ y # node
      /\ y \in D[heap[node].right]
      /\ \A m \in D[heap[node].right] \ D[y] : \A k \in D[y] : heap[k].key <= heap[m].key
  BY <1>1, <1>2 DEF Removing
<1>5. /\ heap[y]["left"] = heap[y].left /\ heap[y]["right"] = heap[y].right
      /\ "left" \in Sides /\ "right" \in Sides /\ Opp("left") = "right"
      /\ heap[y].left \in Places(heap)
  BY <1>3, FieldsAreSides
<1>6. y' \in Places(heap) /\ y' # Nil /\ pc' \in {"unlink", "successor"}
  BY <1>1, <1>3, <1>5 DEF Places
<1>7. Typed' /\ Control'
  BY <1>1, <1>2, <1>6 DEF Typed, Control, Tracked
<1>8. ~Fixing' /\ ~Joining' /\ ~Joining /\ Higher = tree /\ Higher' = tree /\ Tracked /\ ~Fixing
      /\ At = y /\ At' = y'
  BY <1>1, <1>3, <1>6 DEF Fixing, Joining, Higher, Tracked, At
<1>9. Searching(D)' /\ Inserting' /\ Leftmost(D)' /\ Meeting(D, b)'
  BY <1>6, <1>8 DEF Searching, Inserting, Leftmost, Meeting
<1>10. Ancestors(b)'
  <2>1. OnPath(heap, stack, tree.root, y) /\ Short(heap, b, stack, tree.bh) /\ 2 * tree.bh < tree.ssize
    BY <1>8, OnTheWay
  <2>2. CASE heap[y].left = Nil
    BY <1>1, <1>8, <2>1, <2>2 DEF Ancestors
  <2>3. CASE heap[y].left # Nil
    <3>1. /\ OnPath(heap, Append(stack, y), tree.root, heap[y]["left"])
          /\ Short(heap, b, Append(stack, y), tree.bh)
      BY <1>3, <1>5, <1>8, PushKeeps
    <3> QED BY <1>1, <1>5, <1>8, <2>1, <2>3, <3>1 DEF Ancestors
  <2> QED BY <2>2, <2>3
<1>11. Removing(D)'
  <2>1. CASE heap[y].left = Nil
    BY <1>1, <1>4, <2>1 DEF Removing
  <2>2. CASE heap[y].left # Nil
    <3>1. y' = heap[y].left /\ pc' = "successor" /\ y' \in DOMAIN heap
      BY <1>1, <1>6, <2>2 DEF Places
    <3> DEFINE R == heap[node].right
    <3>2. node \in DOMAIN heap /\ R \in Places(heap) /\ heap[node]["right"] = R
      <4>1. tree.root \in Places(heap)
        BY <1>2, CalmTrees DEF Trees
      <4>2. node \in DOMAIN heap
        BY <4>1, <1>3, <1>4, Under
      <4> QED BY <4>2, <1>3, FieldsAreSides
    <3>3. /\ D[y] = {y} \cup D[y'] \cup D[heap[y].right] /\ D[y'] \subseteq D[y] /\ y' \in D[y']
          /\ D[y] \subseteq D[R] /\ D[y] \subseteq DOMAIN heap
      BY <3>1, <3>2, <1>3, <1>4, <1>5, ForestSides, Within, Under
    <3>4. y' # node
      BY <3>2, <3>3, <1>3, <1>5, ForestSides
    <3>5. ASSUME NEW m \in D[R] \ D[y'], NEW k \in D[y'] PROVE heap[k].key <= heap[m].key
      <4>1. m \notin D[y] => heap[k].key <= heap[m].key
        BY <1>4, <3>3
      <4>2. heap[k].key <= heap[y].key
        BY <3>1, <1>3, <1>5 DEF Ordered, Fits
      <4>3. m \in D[heap[y].right] => heap[y].key <= heap[m].key
        BY <1>3, <1>5 DEF Ordered, Fits
      <4>4. heap[k].key \in Nat /\ heap[y].key \in Nat /\ (m \in D[y] => heap[m].key \in Nat)
        BY <1>3, <3>3 DEF IsHeap, Cells
      <4> QED BY <3>3, <4>1, <4>2, <4>3, <4>4
    <3> QED BY <1>1, <1>4, <3>1, <3>3, <3>4, <3>5 DEF Removing
  <2> QED BY <2>1, <2>2
<1>12. Calm(heap', D, b, tree', spare')
  BY <1>1, <1>2
<1> QED BY <1>7, <1>8, <1>9, <1>10, <1>11, <1>12, CalmAgain

LEMMA JoinStartKeeps ==
  ASSUME NEW D, NEW b, Inv(D, b), JoinStart
  PROVE  Inv(D, b)'
<1> DEFINE first == tree.bh >= spare.bh
<1>1. /\ pc = "join" /\ tree.root # Nil /\ spare.root # Nil
      /\ pc' = (IF first THEN "join_right" ELSE "join_left")
      /\ tree' = (IF first THEN Grown(tree) ELSE tree)
      /\ spare' = (IF first THEN spare ELSE Grown(spare))
      /\ node' = (IF first THEN tree.root ELSE spare.root)
      /\ bh' = (IF first THEN tree.bh ELSE spare.bh)
      /\ UNCHANGED <<user, heap, stack, op, x, y, result>>
  BY DEF JoinStart
<1>2. Calm(heap, D, b, tree, spare) /\ Typed /\ Control /\ Meeting(D, b)
  BY <1>1, WhenCalm DEF Fixing, Inv
<1>3. tree \in Trees(heap) /\ spare \in Trees(heap) /\ y = Nil /\ stack = <<>>
      /\ ~Red(heap, tree.root) /\ ~Red(heap, spare.root)
      /\ b[tree.root] = tree.bh + 1 /\ b[spare.root] = spare.bh + 1
  BY <1>1, <1>2, CalmTrees DEF Control, Tracked
<1>4. /\ Calm(heap', D, b, tree', spare') /\ tree'.root = tree.root /\ spare'.root = spare.root
      /\ tree'.bh = tree.bh /\ spare'.bh = spare.bh
  BY <1>1, <1>2, CalmGrown
<1>5. Higher'.root = node' /\ Higher'.bh = bh' /\ 2 * Higher'.bh < Higher'.ssize
      /\ Lower'.bh <= bh' /\ bh' \in Nat /\ node' \in Places(heap) /\ node' # Nil
      /\ Lower'.bh \in Nat /\ ~Red(heap, node') /\ b[node'] = bh' + 1
  <2>0. /\ Grown(tree).root = tree.root /\ Grown(tree).bh = tree.bh
        /\ 2 * Grown(tree).bh < Grown(tree).ssize
        /\ Grown(spare).root = spare.root /\ Grown(spare).bh = spare.bh
        /\ 2 * Grown(spare).bh < Grown(spare).ssize
    BY <1>2, CalmGrown
  <2>1. tree.bh \in Nat /\ spare.bh \in Nat /\ tree.root \in Places(heap) /\ spare.root \in Places(heap)
    BY <1>3 DEF Trees
  <2>2. CASE first
    <3>1. Higher' = Grown(tree) /\ Lower' = spare
      BY <1>1, <2>2 DEF Higher, Lower
    <3>2. node' = tree.root /\ bh' = tree.bh /\ spare.bh <= tree.bh
      BY <1>1, <2>1, <2>2
    <3> QED BY <1>1, <1>3, <2>0, <2>1, <3>1, <3>2
  <2>3. CASE ~first
    <3>1. Higher' = Grown(spare) /\ Lower' = tree
      BY <1>1, <2>3 DEF Higher, Lower
    <3>2. node' = spare.root /\ bh' = spare.bh /\ tree.bh <= spare.bh
      BY <1>1, <2>1, <2>3
    <3> QED BY <1>1, <1>3, <2>0, <2>1, <3>1, <3>2
  <2> QED BY <2>2, <2>3
<1> HIDE DEF first
<1>6. pc' \in {"join_right", "join_left"}
  BY <1>1
<1>7. Typed' /\ Control'
  BY <1>1, <1>2, <1>3, <1>5, <1>6 DEF Typed, Control, Tracked
<1>8. ~Fixing' /\ At' = node' /\ Depth' = 0
  BY <1>1, <1>3, <1>6 DEF Fixing, At, Depth
<1>9. Searching(D)' /\ Inserting' /\ Removing(D)' /\ Leftmost(D)'
  BY <1>6 DEF Searching, Inserting, Removing, Leftmost
<1>10. Ancestors(b)'
  <2>1. OnPath(heap, <<>>, node', node') /\ Short(heap, b, <<>>, Higher'.bh)
    BY EmptyPath
  <2> QED BY <1>1, <1>3, <1>5, <1>8, <2>1 DEF Ancestors
<1>11. Meeting(D, b)'
  <2>1. (IF Red(heap, node) THEN 0 ELSE 1)' = 1
    BY <1>1, <1>5
  <2>2. bh' > Lower'.bh \/ bh' = Lower'.bh
    BY <1>5
  <2> QED BY <1>1, <1>2, <1>4, <1>5, <1>8, <2>1, <2>2 DEF Meeting
<1> QED BY <1>4, <1>7, <1>8, <1>9, <1>10, <1>11, CalmAgain

LEMMA JoinDescendKeeps ==
  ASSUME NEW D, NEW b, Inv(D, b), JoinDescend
  PROVE  Inv(D, b)'
<1> DEFINE s == JoinSide
           next == heap[node][JoinSide]
<1>1. /\ Joining /\ ~AtHeight /\ stack' = Append(stack, node) /\ node' = next
      /\ bh' = (IF Red(heap, next) THEN bh ELSE bh - 1)
      /\ UNCHANGED <<user, heap, tree, spare, pc, op, x, y, result>>
  BY DEF JoinDescend
<1>2. ~Fixing /\ Tracked
  BY <1>1 DEF Fixing, Joining, Tracked
<1>3. Calm(heap, D, b, tree, spare) /\ Typed /\ Control /\ Meeting(D, b)
  BY <1>2, WhenCalm DEF Inv
<1>4. node \in DOMAIN heap /\ y = Nil /\ s \in Sides /\ node # Nil /\ bh # Lower.bh
  BY <1>1, <1>3 DEF AtHeight, Typed, Control, Joining, JoinSide, Sides, Places
<1>5. IsHeap(heap) /\ Forest(heap, D) /\ Balanced(heap, b, Nil, "left") /\ RedsApart(heap, Nil, Nil)
      /\ Parts(heap, D, Higher.root, Lower.root) /\ Lower.bh \in Nat /\ bh \in Nat
  BY <1>2, <1>3, OnTheWay DEF Calm, Sound, Trees, Typed
<1>6. /\ b[node] = bh + (IF Red(heap, node) THEN 0 ELSE 1)
      /\ bh > Lower.bh
  BY <1>1, <1>3, <1>4 DEF Meeting
<1>7. next \in Places(heap) /\ (heap[node].red <=> Red(heap, node))
      /\ b[next] \in Nat \ {0} /\ b[node] = b[next] + (IF Red(heap, node) THEN 0 ELSE 1)
      /\ (Red(heap, node) => ~Red(heap, next))
  <2>1. heap[node].red <=> Red(heap, node)
    BY <1>4 DEF Red
  <2>2. node # Nil /\ next \in Places(heap)
    BY <1>4, <1>5, ChildIs
  <2>3. b[next] \in Nat \ {0} /\ b[node] = b[next] + (IF heap[node].red THEN 0 ELSE 1)
    BY <1>4, <1>5, <2>2, BalancedChild
  <2>4. heap[node].red => ~Red(heap, next)
    <3>1. Red(heap, next) => next # Nil
      BY DEF Red
    <3> QED BY <3>1, <1>4, <1>5 DEF RedsApart
  <2> QED BY <2>1, <2>2, <2>3, <2>4
<1> HIDE DEF next
<1>8. b[next] = bh
  BY <1>5, <1>6, <1>7
<1>9. /\ bh' \in Nat /\ b[next] = bh' + (IF Red(heap, next) THEN 0 ELSE 1)
      /\ bh' > Lower.bh \/ (bh' = Lower.bh /\ ~Red(heap, next))
  <2>1. CASE Red(heap, next)
    BY <2>1, <1>1, <1>5, <1>6, <1>8
  <2>2. CASE ~Red(heap, next)
    <3>1. bh' = bh - 1
      BY <1>1, <2>2
    <3> QED BY <3>1, <2>2, <1>5, <1>6, <1>8
  <2> QED BY <2>1, <2>2
<1>10. Typed' /\ Control'
  BY <1>1, <1>3, <1>7, <1>9 DEF Typed, Control, Joining, Tracked
<1>11. ~Fixing' /\ Joining' /\ Tracked' /\ At = node /\ At' = next /\ Higher' = Higher /\ Lower' = Lower
       /\ JoinSide' = s
  BY <1>1, <1>2, <1>4 DEF Fixing, Joining, Tracked, At, Higher, Lower, JoinSide
<1>12. Searching(D)' /\ Inserting' /\ Removing(D)' /\ Leftmost(D)'
  BY <1>1 DEF Searching, Inserting, Removing, Leftmost, Joining
<1>13. /\ OnPath(heap, Append(stack, node), Higher.root, next)
       /\ Short(heap, b, Append(stack, node), Higher.bh)
       /\ Top(Append(stack, node)) = node /\ Len(Append(stack, node)) = Depth + 1
  BY <1>2, <1>4, <1>11, PushKeeps DEF next
<1>14. Ancestors(b)'
  <2>1. 2 * Higher.bh < Higher.ssize
    BY <1>2, OnTheWay
  <2> QED BY <1>1, <1>11, <1>13, <2>1 DEF Ancestors
<1>15. Up(0)' = node
  <2>1. Depth \in Nat
    BY <1>2, OnTheWay
  <2> QED BY <1>1, <1>13, <2>1 DEF Up, Top, Depth
<1>16. ASSUME NEW m \in DOMAIN heap, NEW t \in Sides, node \in D[heap[m][t]] PROVE t = s
  <2>1. /\ OnPath(heap, stack, Higher.root, node) /\ Up(0) = Top(stack)
        /\ (stack = <<>> <=> Depth = 0) /\ Depth = Len(stack) /\ Depth \in Nat
    BY <1>2, <1>11, OnTheWay
  <2>2. stack # <<>>
    <3>1. stack = <<>> => node = Higher.root
      BY <2>1 DEF OnPath
    <3> QED BY <3>1, <1>4, <1>5, <1>16, RootHasNoParent
  <2>3. Up(0) \in DOMAIN heap /\ Depth > 0
    BY <2>1, <2>2, PopPath
  <2>4. /\ node = heap[Up(0)][s]
        /\ \A k \in DOMAIN heap : \A u \in Sides : Up(0) \in D[heap[k][u]] => u = s
    BY <1>1, <1>3, <2>3 DEF Meeting
  <2>5. CASE heap[m][t] = node
    BY <2>3, <2>4, <2>5, <1>4, <1>5, OneParent
  <2>6. CASE heap[m][t] # node
    <3>1. heap[m][t] \in DOMAIN heap
      BY <1>5, <1>16, ChildIs DEF Forest
    <3>2. Up(0) \in D[heap[m][t]]
      BY <3>1, <2>3, <2>4, <2>6, <1>4, <1>5, <1>16, ParentAbove
    <3> QED BY <3>2, <2>4
  <2> QED BY <2>5, <2>6
<1>17. Meeting(D, b)'
  <2>1. /\ \A m \in D[tree.root] : heap[m].key <= x
        /\ \A m \in D[spare.root] : x <= heap[m].key
        /\ tree.root # Nil /\ spare.root # Nil
    BY <1>1, <1>3 DEF Meeting, Joining
  <2>2. node' = heap[Up(0)'][JoinSide'] /\ node' = next
    BY <1>1, <1>11, <1>15 DEF next
  <2> QED BY <1>1, <1>9, <1>11, <1>15, <1>16, <2>1, <2>2 DEF Meeting
<1>18. Calm(heap', D, b, tree', spare')
  BY <1>1, <1>3
<1> QED BY <1>10, <1>11, <1>12, <1>14, <1>17, <1>18, CalmAgain
-----------------------------------------------------------------------------
(***************************************************************************)
(* The fixups that only paint.                                             *)
(***************************************************************************)
SameShape(h, g) ==
  /\ IsHeap(g) /\ SameNodes(h, g) /\ Places(g) = Places(h)
  /\ \A m \in DOMAIN h : \A t \in Sides : g[m][t] = h[m][t]

LEMMA ShapeKeeps ==
  ASSUME NEW h, NEW g, NEW D, IsHeap(h), SameShape(h, g), Forest(h, D)
  PROVE  /\ Forest(g, D) /\ DOMAIN g = DOMAIN h
         /\ (Ordered(h, D) => Ordered(g, D)) /\ Trees(g) = Trees(h)
         /\ \A path, root, at : OnPath(h, path, root, at) => OnPath(g, path, root, at)
         /\ \A r1, r2 : Parts(h, D, r1, r2) => Parts(g, D, r1, r2)
<1>1. DOMAIN g = DOMAIN h /\ Places(g) = Places(h) /\ \A m \in DOMAIN h : g[m].key = h[m].key
  BY DEF SameShape, SameNodes
<1>2. \A m \in DOMAIN h : g[m].left = h[m].left /\ g[m].right = h[m].right
  BY <1>1, FieldsAreSides DEF SameShape
<1>3. Forest(g, D)
  BY <1>1, <1>2 DEF Forest
<1>4. Ordered(h, D) => Ordered(g, D)
  <2>1. \A n \in DOMAIN h : \A s \in Sides : D[h[n][s]] \subseteq DOMAIN h
    BY ChildIs DEF Forest
  <2> QED BY <2>1, <1>1 DEF Ordered, SameShape
<1>5. ASSUME NEW path, NEW root, NEW at, OnPath(h, path, root, at) PROVE OnPath(g, path, root, at)
  <2>1. path \in Seq(DOMAIN h) /\ \A i \in 1..Len(path) : path[i] \in DOMAIN h
    BY <1>5 DEF OnPath
  <2> QED BY <2>1, <1>1, <1>5 DEF OnPath, SameShape
<1>6. (\A r1, r2 : Parts(h, D, r1, r2) => Parts(g, D, r1, r2)) /\ Trees(g) = Trees(h)
  BY <1>1 DEF Parts, Trees
<1> QED BY <1>1, <1>3, <1>4, <1>5, <1>6

LEMMA PaintedBlack ==
  ASSUME NEW h, NEW g, IsHeap(h), SameShape(h, g), NEW n \in DOMAIN h, NEW k, k = Paint(g, n, FALSE)
  PROVE  SameShape(h, k) /\ IsHeap(k) /\ \A m \in DOMAIN h : k[m].red <=> (m # n /\ g[m].red)
<1>1. IsHeap(g) /\ DOMAIN g = DOMAIN h
  BY DEF SameShape, SameNodes
<1>2. /\ IsHeap(k) /\ SameNodes(g, k) /\ Places(k) = Places(g)
      /\ \A m \in DOMAIN g : \A t \in Sides : k[m][t] = g[m][t]
  <2>1. DOMAIN k = DOMAIN g /\ Places(k) = Places(g) /\ Cells(k) = Cells(g)
    BY DEF Places, Cells, Paint
  <2>2. k \in [DOMAIN g -> Cells(g)]
    BY <1>1 DEF IsHeap, Cells, Paint
  <2> QED BY <2>1, <2>2, <1>1 DEF IsHeap, Cells, Sides, SameNodes, Paint
<1>3. \A m \in DOMAIN h : k[m].red <=> (m # n /\ g[m].red)
  BY <1>1 DEF Paint, IsHeap, Cells
<1> QED BY <1>1, <1>2, <1>3 DEF SameShape, SameNodes

LEMMA PaintedRed ==
  ASSUME NEW h, NEW g, IsHeap(h), SameShape(h, g), NEW n \in DOMAIN h, NEW k, k = Paint(g, n, TRUE)
  PROVE  SameShape(h, k) /\ IsHeap(k) /\ \A m \in DOMAIN h : k[m].red <=> (m = n \/ g[m].red)
<1>1. IsHeap(g) /\ DOMAIN g = DOMAIN h
  BY DEF SameShape, SameNodes
<1>2. /\ IsHeap(k) /\ SameNodes(g, k) /\ Places(k) = Places(g)
      /\ \A m \in DOMAIN g : \A t \in Sides : k[m][t] = g[m][t]
  <2>1. DOMAIN k = DOMAIN g /\ Places(k) = Places(g) /\ Cells(k) = Cells(g)
    BY DEF Places, Cells, Paint
  <2>2. k \in [DOMAIN g -> Cells(g)]
    BY <1>1 DEF IsHeap, Cells, Paint
  <2> QED BY <2>1, <2>2, <1>1 DEF IsHeap, Cells, Sides, SameNodes, Paint
<1>3. \A m \in DOMAIN h : k[m].red <=> (m = n \/ g[m].red)
  BY <1>1 DEF Paint, IsHeap, Cells
<1> QED BY <1>1, <1>2, <1>3 DEF SameShape, SameNodes

LEMMA ShapeItself ==
  ASSUME NEW h, IsHeap(h)
  PROVE  SameShape(h, h)
BY DEF SameShape, SameNodes

(* The node before the last on the stack. *)
LEMMA Ancestry ==
  ASSUME NEW h, NEW D, IsHeap(h), Forest(h, D), NEW r1, NEW r2, Parts(h, D, r1, r2),
         NEW path, NEW at, OnPath(h, path, r1, at), path # <<>>
  PROVE  /\ Top(path) \in DOMAIN h /\ Top(path) # Nil /\ Top(path) \in D[r1] /\ Top(path) # r2
         /\ OnPath(h, Popped(path), r1, Top(path)) /\ Parent(h, Top(path), Top(Popped(path)))
         /\ (\E s \in Sides : h[Top(path)][s] = at) /\ at # Top(path) /\ at # r1
         /\ (Top(path) = r1 <=> Len(path) = 1)
         /\ Len(path) \in Nat \ {0} /\ Len(Popped(path)) = Len(path) - 1
         /\ (Popped(path) = <<>> <=> Len(path) = 1) /\ path[Len(path)] = Top(path)
         /\ r1 # Nil
<1> DEFINE p == Top(path)
           l == Popped(path)
<1>1. /\ OnPath(h, l, r1, p) /\ p \in DOMAIN h /\ Len(path) \in Nat \ {0}
      /\ Len(l) = Len(path) - 1 /\ \E s \in Sides : h[p][s] = at
      /\ p = path[Len(path)]
  BY PopPath
<1> HIDE DEF l, p
<1>2. p # Nil
  BY <1>1 DEF IsHeap
<1>3. /\ p \in D[r1] /\ Parent(h, p, IF Len(l) = 0 THEN Nil ELSE l[Len(l)])
      /\ \A i \in 1..Len(l) : Parent(h, l[i], IF i = 1 THEN Nil ELSE l[i - 1])
  BY <1>1, <1>2, PathParent
<1>4. Top(l) = IF Len(l) = 0 THEN Nil ELSE l[Len(l)]
  BY DEF Top
<1>5. p # r2
  <2>1. p = r2 => p \in D[r2]
    BY <1>1, Within
  <2> QED BY <2>1, <1>3 DEF Parts
<1>6. l = <<>> <=> Len(path) = 1
  <2>1. l \in Seq(DOMAIN h)
    BY <1>1 DEF OnPath
  <2>2. l = <<>> <=> Len(l) = 0
    BY <2>1
  <2> QED BY <2>2, <1>1
<1>7. r1 # Nil
  <2>1. D[Nil] = {}
    BY DEF Forest
  <2> QED BY <2>1, <1>3
<1>8. at # p
  BY <1>1, <1>2, ForestSides, Within
<1>9. at # r1
  BY <1>1, <1>7, RootHasNoParent
<1>10. p = r1 <=> Len(path) = 1
  <2>1. l = <<>> => p = r1
    BY <1>1 DEF OnPath
  <2>2. l # <<>> => \E q \in DOMAIN h : \E s \in Sides : h[q][s] = p
    BY <1>1, PopPath
  <2>3. l # <<>> => p # r1
    BY <2>2, <1>7, RootHasNoParent
  <2> QED BY <2>1, <2>3, <1>6
<1> QED BY <1>1, <1>2, <1>3, <1>4, <1>5, <1>6, <1>7, <1>8, <1>9, <1>10 DEF l, p

LEMMA PopTwice ==
  ASSUME NEW S, NEW path \in Seq(S), Len(path) >= 2
  PROVE  SubSeq(path, 1, Len(path) - 2) = Popped(Popped(path))
<1> PICK n : n = Len(path) - 2
  OBVIOUS
<1>1. n \in Nat /\ Len(path) = n + 2
  OBVIOUS
<1>2. ASSUME NEW k \in Nat, NEW q \in Seq(S), k <= Len(q)
      PROVE  /\ SubSeq(q, 1, k) \in Seq(S) /\ Len(SubSeq(q, 1, k)) = k
             /\ \A i \in 1..k : SubSeq(q, 1, k)[i] = q[i]
  <2> PICK w : w = SubSeq(q, 1, k)
    OBVIOUS
  <2>1. \A i \in 1..k : q[i] \in S
    BY <1>2
  <2>2. /\ w \in Seq(S) /\ Len(w) = (IF 1 <= k THEN k - 1 + 1 ELSE 0)
        /\ \A i \in 1..(k - 1 + 1) : w[i] = q[1 + i - 1]
    BY <2>1, SubSeqProperties
  <2> QED BY <2>2
<1> PICK u : u = SubSeq(path, 1, n + 1)
  OBVIOUS
<1>3. u \in Seq(S) /\ Len(u) = n + 1 /\ \A i \in 1..(n + 1) : u[i] = path[i]
  BY <1>1, <1>2
<1> PICK v : v = SubSeq(u, 1, n)
  OBVIOUS
<1>4. v \in Seq(S) /\ Len(v) = n /\ \A i \in 1..n : v[i] = u[i]
  BY <1>1, <1>2, <1>3
<1> PICK w : w = SubSeq(path, 1, n)
  OBVIOUS
<1>5. w \in Seq(S) /\ Len(w) = n /\ \A i \in 1..n : w[i] = path[i]
  BY <1>1, <1>2
<1>6. v = w
  <2>1. \A i \in 1..n : v[i] = w[i]
    BY <1>1, <1>3, <1>4, <1>5
  <2> QED BY ONLY <2>1, <1>4, <1>5
<1>7. Popped(path) = u /\ Popped(u) = v
  BY <1>1, <1>3 DEF Popped
<1> QED BY <1>6, <1>7

(* What is known in the loops of rb_insert_fixup and rb_delete_fixup. *)
LEMMA WhenFixing ==
  ASSUME NEW D, NEW b, Inv(D, b), Fixing
  PROVE  /\ OnPath(heap, stack, tree.root, node) /\ Short(heap, b, stack, tree.bh)
         /\ 2 * tree.bh < tree.ssize
         /\ Sound(heap, D, b, Hole, Side, node, Removed)
         /\ Rooted(heap, D, b, tree, spare, node, MissingAtRoot)
         /\ Parts(heap, D, tree.root, spare.root)
         /\ IsHeap(heap) /\ Forest(heap, D)
         /\ node \in Places(heap) /\ y = Nil /\ Typed /\ Control
         /\ Depth = Len(stack) /\ Depth \in Nat /\ (stack = <<>> <=> Depth = 0)
         /\ Up(0) = Top(stack)
<1>1. y = Nil /\ Typed /\ Control /\ node \in Places(heap)
  BY DEF Inv, Control, Fixing, Typed
<1>2. Tracked /\ At = node /\ Higher = tree /\ Except = node
  BY <1>1 DEF Tracked, Fixing, At, Higher, Except
<1>3. OnPath(heap, stack, tree.root, node) /\ Short(heap, b, stack, tree.bh) /\ 2 * tree.bh < tree.ssize
  BY <1>2 DEF Inv, Ancestors
<1>4. Sound(heap, D, b, Hole, Side, node, Removed) /\ Rooted(heap, D, b, tree, spare, node, MissingAtRoot)
  BY <1>2 DEF Inv
<1>5. Depth = Len(stack) /\ Depth \in Nat /\ (stack = <<>> <=> Depth = 0) /\ Up(0) = Top(stack)
  <2>1. Len(stack) \in Nat /\ (stack = <<>> <=> Len(stack) = 0)
    BY <1>3 DEF OnPath
  <2> QED BY <2>1 DEF Depth, Up, Top
<1> QED BY <1>1, <1>3, <1>4, <1>5 DEF Sound, Rooted

(* The parent and the grandparent of the node at hand. *)
LEMMA Parents ==
  ASSUME NEW D, NEW b, Inv(D, b), Fixing, Depth > 0
  PROVE  /\ Up(0) \in DOMAIN heap /\ Up(0) # Nil /\ Up(0) \in D[tree.root] /\ Up(0) # spare.root
         /\ (\E s \in Sides : heap[Up(0)][s] = node) /\ node # Up(0) /\ node # tree.root
         /\ (Up(0) = tree.root <=> Depth = 1) /\ Parent(heap, Up(0), Up(1))
         /\ Up(0) = Top(stack) /\ Up(1) = Top(Popped(stack)) /\ stack[Depth] = Up(0)
         /\ OnPath(heap, Popped(stack), tree.root, Up(0)) /\ Len(Popped(stack)) = Depth - 1
         /\ Depth \in Nat \ {0} /\ tree.root # Nil
         /\ \A i \in 1..(Depth - 1) : Popped(stack)[i] = stack[i]
<1>1. /\ OnPath(heap, stack, tree.root, node) /\ stack # <<>> /\ Depth = Len(stack)
      /\ Up(0) = Top(stack) /\ Parts(heap, D, tree.root, spare.root)
      /\ IsHeap(heap) /\ Forest(heap, D)
  BY WhenFixing
<1>2. /\ Top(stack) \in DOMAIN heap /\ Top(stack) # Nil /\ Top(stack) \in D[tree.root]
      /\ Top(stack) # spare.root
      /\ OnPath(heap, Popped(stack), tree.root, Top(stack))
      /\ Parent(heap, Top(stack), Top(Popped(stack)))
      /\ (\E s \in Sides : heap[Top(stack)][s] = node) /\ node # Top(stack) /\ node # tree.root
      /\ (Top(stack) = tree.root <=> Len(stack) = 1)
      /\ Len(stack) \in Nat \ {0} /\ Len(Popped(stack)) = Len(stack) - 1
      /\ stack[Len(stack)] = Top(stack) /\ tree.root # Nil
  BY <1>1, Ancestry
<1>3. \A i \in 1..(Len(stack) - 1) : Popped(stack)[i] = stack[i]
  BY <1>1, PopPath
<1>4. Up(1) = Top(Popped(stack))
  <2>1. CASE Len(stack) = 1
    BY <2>1, <1>1, <1>2 DEF Up, Top
  <2>2. CASE Len(stack) > 1
    <3>1. Len(stack) - 1 \in 1..(Len(stack) - 1)
      BY <2>2, <1>2
    <3> QED BY <2>2, <3>1, <1>1, <1>2, <1>3 DEF Up, Top
  <2> QED BY <2>1, <2>2, <1>2
<1> QED BY <1>1, <1>2, <1>3, <1>4

(* A fixup goes on. *)
LEMMA FixupGoesOn ==
  ASSUME NEW D, NEW b, NEW E, NEW c, Inv(D, b), Fixing,
         UNCHANGED <<user, spare, pc, op, x, y, bh, result>>, SameNodes(heap, heap'),
         node' \in Places(heap'),
         pc = "insert_fixup" => node' # Nil /\ heap'[node'].red,
         Sound(heap', E, c, Hole', Side', node', Removed'),
         Rooted(heap', E, c, tree', spare, node', MissingAtRoot'),
         OnPath(heap', stack', tree'.root, node'), Short(heap', c, stack', tree'.bh),
         2 * tree'.bh < tree'.ssize
  PROVE  Inv(E, c)'
<1>1. y = Nil /\ Typed /\ Control
  BY WhenFixing
<1>2. DOMAIN heap' = DOMAIN heap /\ \A n \in DOMAIN heap : heap'[n].key = heap[n].key
  BY DEF SameNodes
<1>3. Fixing' /\ Except' = node' /\ Higher' = tree' /\ At' = node' /\ Tracked /\ Tracked' /\ ~Joining'
  BY <1>1 DEF Fixing, Except, Higher, At, Tracked, Joining
<1>4. Typed'
  BY <1>1, <1>2 DEF Typed, Places
<1>5. Control'
  BY <1>1, <1>2, <1>3, Zenon DEF Control, Fixing
<1>6. Ancestors(c)'
  BY <1>3 DEF Ancestors
<1>7. Searching(E)' /\ Inserting' /\ Removing(E)' /\ Leftmost(E)' /\ Meeting(E, c)'
  BY <1>3 DEF Searching, Inserting, Removing, Leftmost, Meeting, Fixing, Joining
<1> QED BY <1>3, <1>4, <1>5, <1>6, <1>7 DEF Inv

(* What a fixup conserves: the nodes of each tree, and their keys. *)
Conserves(D, E) ==
  /\ SameNodes(heap, heap') /\ spare' = spare
  /\ E[tree'.root] = D[tree.root] /\ E[spare.root] = D[spare.root]

IsChild(h, n, p) == \E s \in Sides : h[p][s] = n
ColoursBut(h, g, S) == \A m \in DOMAIN h \ S : g[m].red <=> h[m].red
HeightsBut(h, b, c, S) == \A m \in Places(h) \ S : c[m] = b[m]

LEMMA RecoloredInsert ==
  ASSUME NEW h, NEW D, NEW b, IsHeap(h), Forest(h, D), NEW e, NEW d, Balanced(h, b, Nil, d),
         RedsApart(h, e, Nil), NEW n \in DOMAIN h, NEW s \in Sides, NEW p, p = h[n][s], NEW u, u = h[n][Opp(s)],
         Red(h, p), Red(h, u), ~h[n].red, IsChild(h, e, p),
         NEW g, SameShape(h, g), ~g[p].red, ~g[u].red, g[n].red, ColoursBut(h, g, {p, u, n})
  PROVE  \E c : Balanced(g, c, Nil, "left") /\ RedsApart(g, n, Nil) /\ HeightsBut(h, b, c, {p, u})
<1> USE DEF IsChild, ColoursBut, HeightsBut
<1>1. /\ p \in DOMAIN h /\ u \in DOMAIN h /\ p # Nil /\ u # Nil /\ Opp(s) \in Sides /\ DOMAIN g = DOMAIN h
      /\ Nil \notin DOMAIN h /\ h[p].red /\ h[u].red /\ Places(g) = Places(h)
  BY ChildIs, OppSide DEF Red, SameShape, SameNodes, IsHeap
<1>2. p # u /\ p # n /\ u # n
  BY <1>1, OneParent, OppSide, ForestSides, Within
<1>3. PICK c : c = [m \in Places(h) |-> IF m \in {p, u} THEN b[m] + 1 ELSE b[m]]
  OBVIOUS
<1>4. ASSUME NEW m \in DOMAIN h, NEW t \in Sides
      PROVE  /\ g[m][t] = h[m][t] /\ h[m][t] \in Places(h)
             /\ (h[m][t] \in {p, u} <=> m = n)
             /\ b[m] = b[h[m][t]] + (IF h[m].red THEN 0 ELSE 1)
             /\ b[h[m][t]] \in Nat \ {0} /\ b[m] \in Nat \ {0}
  <2>1. g[m][t] = h[m][t] /\ h[m][t] \in Places(h)
    BY ChildIs DEF SameShape
  <2>2. h[m][t] \in {p, u} => m = n
    BY <1>1, OneParent
  <2>3. m = n => h[m][t] \in {p, u}
    BY OppSide
  <2>4. m # Nil
    BY <1>1
  <2> QED BY <2>1, <2>2, <2>3, <2>4, BalancedChild
<1>5. \A m \in Places(h) : /\ c[m] = IF m \in {p, u} THEN b[m] + 1 ELSE b[m]
                           /\ b[m] \in Nat \ {0} /\ c[m] \in Nat \ {0}
  BY <1>3 DEF Balanced
<1>6. ASSUME NEW m \in DOMAIN h, NEW t \in Sides
      PROVE  c[m] = c[g[m][t]] + (IF g[m].red THEN 0 ELSE 1)
  <2>1. m \in Places(h) /\ b[h[m][t]] \in Nat /\ b[m] \in Nat
    BY <1>5, <1>4 DEF Places
  <2>2. CASE m = n
    BY <2>1, <2>2, <1>2, <1>4, <1>5
  <2>3. CASE m \in {p, u}
    BY <2>1, <2>3, <1>1, <1>2, <1>4, <1>5
  <2>4. CASE m \notin {n, p, u}
    BY <2>1, <2>4, <1>4, <1>5
  <2> QED BY <2>2, <2>3, <2>4
<1>7. Balanced(g, c, Nil, "left")
  <2>1. c \in [Places(g) -> Nat \ {0}]
    <3>1. c \in [Places(h) -> Nat \ {0}]
      BY <1>3, <1>5
    <3> QED BY <3>1, <1>1
  <2>2. c[Nil] = 1
    BY <1>1, <1>5 DEF Places, Balanced
  <2>3. ASSUME NEW m \in DOMAIN g, NEW t \in Sides
        PROVE  c[m] = c[g[m][t]] + (IF g[m].red THEN 0 ELSE 1) + (IF m = Nil /\ t = "left" THEN 1 ELSE 0)
    <3>1. c[m] = c[g[m][t]] + (IF g[m].red THEN 0 ELSE 1) /\ m # Nil
      BY <1>1, <1>6
    <3>2. c[g[m][t]] \in Nat
      BY <1>1, <1>4, <1>5
    <3> QED BY <3>1, <3>2
  <2> QED BY <2>1, <2>2, <2>3 DEF Balanced
<1>8. RedsApart(g, n, Nil)
  <2> SUFFICES ASSUME NEW m \in DOMAIN h, NEW t \in Sides, g[m].red, Red(g, g[m][t]), g[m][t] # n PROVE FALSE
    BY <1>1 DEF RedsApart
  <2>1. m \notin {p, u} /\ h[m][t] \notin {p, u} /\ h[m][t] \in DOMAIN h /\ g[h[m][t]].red
    BY <1>4 DEF Red, Places
  <2>2. m # n /\ h[m].red /\ h[h[m][t]].red /\ h[m][t] # Nil
    BY <2>1, <1>1, <1>4
  <2>3. h[m][t] = e
    BY <2>2, <1>1 DEF RedsApart, Red
  <2>4. m = p
    BY <2>2, <2>3, <1>1, OneParent
  <2> QED BY <2>1, <2>4
<1> QED BY <1>5, <1>7, <1>8

LEMMA InsertRecolorKeeps ==
  ASSUME NEW D, NEW b, Inv(D, b), InsertRecolor
  PROVE  \E c : Inv(D, c)' /\ Conserves(D, D)
<1> DEFINE p == Up(0)
           g == Up(1)
           u == Uncle
           s == ParentSide
<1>1. /\ pc = "insert_fixup" /\ InsertFixupOK /\ Red(heap, p) /\ Red(heap, u)
      /\ heap' = Paint(Paint(Paint(heap, u, FALSE), p, FALSE), g, TRUE)
      /\ node' = g /\ stack' = SubSeq(stack, 1, Depth - 2)
      /\ UNCHANGED <<user, tree, spare, pc, op, x, y, bh, result>>
  BY DEF InsertRecolor
<1>2. Depth >= 2 /\ ~heap[g].red /\ Fixing /\ p # tree.root
  BY <1>1 DEF InsertFixupOK, Fixing
<1>3. /\ OnPath(heap, stack, tree.root, node) /\ Short(heap, b, stack, tree.bh)
      /\ 2 * tree.bh < tree.ssize
      /\ Sound(heap, D, b, Hole, Side, node, Removed)
      /\ Rooted(heap, D, b, tree, spare, node, MissingAtRoot)
      /\ Parts(heap, D, tree.root, spare.root) /\ IsHeap(heap) /\ Forest(heap, D)
      /\ Depth = Len(stack) /\ Depth \in Nat
  BY <1>2, WhenFixing
<1>4. /\ p \in DOMAIN heap /\ p # spare.root /\ (\E t \in Sides : heap[p][t] = node)
      /\ Parent(heap, p, g) /\ g = Top(Popped(stack)) /\ OnPath(heap, Popped(stack), tree.root, p)
      /\ Len(Popped(stack)) = Depth - 1 /\ \A i \in 1..(Depth - 1) : Popped(stack)[i] = stack[i]
  BY <1>2, <1>3, Parents
<1> PICK l : l = Popped(stack)
  OBVIOUS
<1>5. l # <<>>
  <2>1. Len(l) # 0 /\ l \in Seq(DOMAIN heap)
    BY <1>2, <1>3, <1>4 DEF OnPath
  <2> QED BY <2>1
<1>6. /\ g \in DOMAIN heap /\ g # Nil /\ g # spare.root /\ OnPath(heap, Popped(l), tree.root, g)
      /\ (\E t \in Sides : heap[g][t] = p) /\ Len(Popped(l)) = Len(l) - 1
      /\ Len(l) \in Nat \ {0}
  BY <1>3, <1>4, <1>5, Ancestry
<1>7. \A i \in 1..(Len(l) - 1) : Popped(l)[i] = l[i]
  <2>1. OnPath(heap, l, tree.root, p) /\ l # <<>>
    BY <1>4, <1>5
  <2> HIDE DEF p
  <2> QED BY ONLY <2>1, PopPath
<1>8. s \in Sides /\ p = heap[g][s] /\ u = heap[g][Opp(s)]
  <2>1. heap[g]["left"] = heap[g].left /\ "left" \in Sides /\ "right" \in Sides
    BY <1>3, <1>6, FieldsAreSides
  <2> QED BY <2>1, <1>6 DEF ParentSide, Uncle, Sides
<1>9. Hole = Nil /\ Removed = Nil /\ MissingAtRoot = 0 /\ Hole' = Nil /\ Removed' = Nil /\ MissingAtRoot' = 0
  BY <1>1 DEF Hole, Removed, MissingAtRoot
<1>10. stack' = Popped(l)
  BY <1>1, <1>2, <1>3, PopTwice DEF OnPath
<1> HIDE DEF p, g, u, s
<1>11. u \in DOMAIN heap /\ u # p /\ u # g /\ p # g /\ u # Nil
  <2>1. u # Nil /\ Opp(s) \in Sides /\ p # Nil
    BY <1>1, <1>8, OppSide DEF Red
  <2>2. u \in DOMAIN heap
    BY <2>1, <1>3, <1>6, <1>8, ChildIs
  <2>3. u # p
    BY <2>1, <1>3, <1>6, <1>8, OneParent, OppSide
  <2> QED BY <2>1, <2>2, <2>3, <1>3, <1>4, <1>6, <1>8, ForestSides, Within
<1>12. /\ SameShape(heap, heap') /\ IsHeap(heap')
       /\ ~heap'[p].red /\ ~heap'[u].red /\ heap'[g].red
       /\ ColoursBut(heap, heap', {p, u, g})
  <2> PICK h1 : h1 = Paint(heap, u, FALSE)
    OBVIOUS
  <2> PICK h2 : h2 = Paint(h1, p, FALSE)
    OBVIOUS
  <2>0. IsHeap(heap) /\ p \in DOMAIN heap /\ g \in DOMAIN heap
    BY <1>3, <1>4, <1>6
  <2>1. heap' = Paint(h2, g, TRUE)
    BY <1>1
  <2>2. SameShape(heap, h1)
    BY <2>0, <1>11, ShapeItself, PaintedBlack
  <2>3. SameShape(heap, h2)
    BY <2>0, <2>2, PaintedBlack
  <2>4. SameShape(heap, heap') /\ IsHeap(heap')
    BY <2>0, <2>1, <2>3, PaintedRed
  <2>5. \A m \in DOMAIN heap : h1[m].red <=> (m # u /\ heap[m].red)
    BY <2>0, <1>11, ShapeItself, PaintedBlack
  <2>6. \A m \in DOMAIN heap : h2[m].red <=> (m # p /\ h1[m].red)
    BY <2>2 DEF Paint, SameShape, SameNodes, IsHeap, Cells
  <2>7. \A m \in DOMAIN heap : heap'[m].red <=> (m = g \/ h2[m].red)
    BY <2>1, <2>3 DEF Paint, SameShape, SameNodes, IsHeap, Cells
  <2> QED BY <2>0, <2>4, <2>5, <2>6, <2>7, <1>11 DEF ColoursBut
<1>13. PICK c : /\ Balanced(heap', c, Nil, "left") /\ RedsApart(heap', g, Nil)
                /\ HeightsBut(heap, b, c, {p, u})
  <2>1. Balanced(heap, b, Nil, Side) /\ RedsApart(heap, node, Nil)
    BY <1>3, <1>9 DEF Sound
  <2>2. Red(heap, p) /\ Red(heap, u) /\ ~heap[g].red
    BY <1>1, <1>2 DEF g
  <2>3. IsHeap(heap) /\ Forest(heap, D) /\ g \in DOMAIN heap /\ IsChild(heap, node, p)
    BY <1>3, <1>4, <1>6 DEF IsChild
  <2> QED BY <2>1, <2>2, <2>3, <1>8, <1>12, RecoloredInsert
<1>14. /\ Forest(heap', D) /\ DOMAIN heap' = DOMAIN heap /\ Ordered(heap', D) /\ Trees(heap') = Trees(heap)
       /\ OnPath(heap', Popped(l), tree.root, g) /\ Parts(heap', D, tree.root, spare.root)
  BY <1>3, <1>6, <1>12, ShapeKeeps DEF Sound
<1>15. Sound(heap', D, c, Hole', Side', g, Removed')
  <2>1. Sound(heap', D, c, Nil, "left", g, Nil)
    BY <1>12, <1>13, <1>14 DEF Sound
  <2> QED BY <2>1, <1>9, NoHole
<1>16. tree.root \notin {p, u} /\ spare.root \notin {p, u}
  <2>1. Opp(s) \in Sides
    BY <1>8, OppSide
  <2>2. tree.root # Nil /\ p # tree.root
    BY <1>2, <1>3, Parents DEF p
  <2>3. u # tree.root /\ u # spare.root
    <3>1. Parts(heap, D, spare.root, tree.root)
      BY <1>3 DEF Parts
    <3> QED BY <2>1, <2>2, <3>1, <1>3, <1>6, <1>8, <1>11, RootHasNoParent
  <2> QED BY <2>2, <2>3, <1>4
<1>17. Rooted(heap', D, c, tree', spare, node', MissingAtRoot')
  <2>1. tree \in Trees(heap) /\ spare \in Trees(heap)
        /\ b[tree.root] + 0 = tree.bh + 1 /\ b[spare.root] = spare.bh + 1
        /\ (Red(heap, tree.root) => tree.root = node) /\ ~Red(heap, spare.root)
    BY <1>3, <1>9 DEF Rooted
  <2>2. c[tree.root] = b[tree.root] /\ c[spare.root] = b[spare.root]
    BY <2>1, <1>13, <1>16 DEF Trees, HeightsBut
  <2>3. Red(heap', tree.root) => tree.root = g
    <3>1. tree.root # node
      BY <1>2, <1>3, Parents
    <3> QED BY <2>1, <3>1, <1>12, <1>16 DEF Red, Trees, Places, ColoursBut
  <2>4. ~Red(heap', spare.root)
    BY <2>1, <1>6, <1>12, <1>16 DEF Red, Trees, Places, ColoursBut
  <2> QED BY <2>1, <2>2, <2>3, <2>4, <1>1, <1>9, <1>14 DEF Rooted, g
<1>18. Short(heap', c, Popped(l), tree.bh)
  <2> SUFFICES ASSUME NEW i \in 1..Len(Popped(l))
               PROVE  i <= 2 * (tree.bh + 1 - c[Popped(l)[i]]) + (IF heap'[Popped(l)[i]].red THEN 0 ELSE 1)
    BY DEF Short
  <2> DEFINE m == stack[i]
  <2>1. i \in 1..Depth /\ Popped(l)[i] = m /\ i # Depth /\ i # Depth - 1
    <3>1. Depth \in Nat /\ Len(l) = Depth - 1
      BY <1>3, <1>4
    <3>2. Len(Popped(l)) = Depth - 2
      <4>1. Len(Popped(l)) = Len(l) - 1
        BY <1>6
      <4> QED BY <3>1, <4>1
    <3>3. i \in 1..Depth /\ i # Depth /\ i # Depth - 1 /\ i \in 1..(Depth - 1) /\ i \in 1..(Len(l) - 1)
      BY <1>2, <3>1, <3>2
    <3>4. \A k \in 1..(Depth - 1) : l[k] = stack[k]
      BY <1>4
    <3> QED BY <3>3, <3>4, <1>7
  <2>2. m \in D[tree.root] /\ m \in DOMAIN heap /\ m # p /\ m # g
    <3>1. Depth \in 1..Depth /\ Depth - 1 \in 1..Depth /\ i < Depth /\ i < Depth - 1
      BY <1>2, <1>3, <2>1
    <3>2. stack[Depth] = p /\ stack[Depth - 1] = g
      BY <1>2, <1>3 DEF p, g, Up
    <3>3. /\ stack[i] \in D[tree.root] /\ stack[i] \in DOMAIN heap
          /\ stack[i] # stack[Depth] /\ stack[i] # stack[Depth - 1]
      <4>1. tree.root \in Places(heap) /\ i \in 1..Len(stack)
        BY <2>1, <1>3 DEF Parts
      <4>2. /\ stack[i] \in D[tree.root] /\ stack[i] \in DOMAIN heap
            /\ \A j \in 1..Len(stack) : i < j => stack[i] # stack[j]
        <5>1. IsHeap(heap) /\ Forest(heap, D) /\ OnPath(heap, stack, tree.root, node)
          BY <1>3
        <5>2. Ancestral(heap, D, stack, tree.root, node)
          BY <4>1, <5>1, PathFacts
        <5> QED BY <4>1, <5>2 DEF Ancestral
      <4> QED BY <4>2, <3>1, <1>3
    <3> QED BY <3>2, <3>3
  <2>3. m # u
    <3>1. p \in D[tree.root]
      BY <1>2, <1>3, Parents DEF p
    <3>2. node \in Places(heap)
      BY <1>2, WhenFixing
    <3>3. OnPath(heap, Popped(l), tree.root, g)
      BY <1>6
    <3>4. Popped(l)[i] \notin D[g]
      BY <3>3, <1>3, PathNode DEF Parts
    <3>5. u \in D[g]
      <4>1. Opp(s) \in Sides /\ u \in D[u]
        BY <1>3, <1>8, <1>11, OppSide, Within
      <4> QED BY <4>1, <1>3, <1>6, <1>8, ForestSides
    <3> QED BY <2>1, <3>4, <3>5
  <2>4. c[m] = b[m] /\ (heap'[m].red <=> heap[m].red)
    BY <2>2, <2>3, <1>12, <1>13 DEF Places, ColoursBut, HeightsBut
  <2>5. i <= 2 * (tree.bh + 1 - b[m]) + (IF heap[m].red THEN 0 ELSE 1)
    BY <2>1, <1>3 DEF Short
  <2> QED BY <2>1, <2>4, <2>5
<1>19. Inv(D, c)'
  <2>1. SameNodes(heap, heap') /\ g \in Places(heap') /\ node' = g
    BY <1>1, <1>6, <1>12 DEF SameShape, Places, g
  <2> QED BY <2>1, <1>1, <1>2, <1>3, <1>6, <1>10, <1>12, <1>14, <1>15, <1>17, <1>18, FixupGoesOn
<1>20. Conserves(D, D)
  BY <1>1, <1>12 DEF Conserves, SameShape
<1> QED BY <1>19, <1>20

(* The same with the parts of the sum named. *)
Weight(h, n) == IF h[n].red THEN 0 ELSE 1
Gap(n, s, p, t) == IF n = p /\ s = t THEN 1 ELSE 0

LEMMA BalancedStep ==
  ASSUME NEW h, NEW b, NEW p, NEW t, IsHeap(h), Balanced(h, b, p, t), NEW n \in DOMAIN h, NEW s \in Sides
  PROVE  /\ b[n] = b[h[n][s]] + Weight(h, n) + Gap(n, s, p, t)
         /\ b[n] \in Nat \ {0} /\ b[h[n][s]] \in Nat \ {0} /\ Weight(h, n) \in {0, 1} /\ Gap(n, s, p, t) \in {0, 1}
<1>1. b[n] \in Nat \ {0} /\ b[h[n][s]] \in Nat \ {0}
  BY BalancedChild
<1> QED BY <1>1 DEF Balanced, Weight, Gap

LEMMA BalancedWhen ==
  ASSUME NEW g, NEW c, NEW p, NEW t, NEW H, DOMAIN c = H, \A m \in H : c[m] \in Nat \ {0},
         c = [m \in H |-> c[m]], H = Places(g), c[Nil] = 1,
         \A m \in DOMAIN g : \A s \in Sides : c[m] = c[g[m][s]] + Weight(g, m) + Gap(m, s, p, t)
  PROVE  Balanced(g, c, p, t)
<1>1. c \in [Places(g) -> Nat \ {0}]
  OBVIOUS
<1> QED BY <1>1 DEF Balanced, Weight, Gap

(* The top of a place where a black is missing turns black. *)
Missing(h, n, p, t) ==
  \/ p = Nil /\ \A m \in DOMAIN h : \A s \in Sides : h[m][s] # n
  \/ p \in DOMAIN h /\ t \in Sides /\ h[p][t] = n

TurnsBlack(h, k, b, n) ==
  /\ SameShape(h, k) /\ RedsApart(k, Nil, Nil)
  /\ ColoursBut(h, k, {n}) /\ ~k[n].red
  /\ \E c : Balanced(k, c, Nil, "left") /\ HeightsBut(h, b, c, {n}) /\ c[n] = b[n] + 1

LEMMA Blackened ==
  ASSUME NEW h, NEW D, NEW b, NEW p, NEW t, IsHeap(h), Forest(h, D), Balanced(h, b, p, t),
         NEW n \in DOMAIN h, h[n].red, RedsApart(h, n, n), Missing(h, n, p, t),
         NEW k, k = Paint(h, n, FALSE)
  PROVE  TurnsBlack(h, k, b, n)
<1>1. SameShape(h, k) /\ DOMAIN k = DOMAIN h /\ Places(k) = Places(h) /\ Nil \notin DOMAIN h /\ n # Nil
  <2>1. SameShape(h, h)
    BY ShapeItself
  <2>2. SameShape(h, k)
    BY <2>1, PaintedBlack
  <2> QED BY <2>2 DEF SameShape, SameNodes, IsHeap
<1>2. \A m \in DOMAIN h : k[m].red <=> m # n /\ h[m].red
  BY DEF Paint, IsHeap, Cells
<1>3. \A m \in DOMAIN h : \A s \in Sides : k[m][s] = h[m][s] /\ h[m][s] \in Places(h) /\ h[n][s] # n
  <2> SUFFICES ASSUME NEW m \in DOMAIN h, NEW s \in Sides
               PROVE  k[m][s] = h[m][s] /\ h[m][s] \in Places(h) /\ h[n][s] # n
    OBVIOUS
  <2>1. k[m][s] = h[m][s]
    BY <1>1 DEF SameShape
  <2>2. h[m][s] \in Places(h)
    BY ChildIs
  <2>3. n \in D[n] /\ n \notin D[h[n][s]]
    BY ForestSides
  <2> QED BY <2>1, <2>2, <2>3
<1>4. RedsApart(k, Nil, Nil)
  <2> SUFFICES ASSUME NEW m \in DOMAIN h, NEW s \in Sides, k[m].red, Red(k, h[m][s]) PROVE FALSE
    BY <1>1, <1>3 DEF RedsApart
  <2>1. h[m][s] # Nil /\ h[m][s] \in DOMAIN h /\ k[h[m][s]].red
    BY <1>3 DEF Red, Places
  <2>2. m # n /\ h[m].red /\ h[m][s] # n /\ Red(h, h[m][s])
    BY <2>1, <1>2 DEF Red
  <2> QED BY <2>2 DEF RedsApart
<1>5. PICK c : c = [m \in Places(h) |-> IF m = n THEN b[m] + 1 ELSE b[m]]
  OBVIOUS
<1>6. \A m \in Places(h) : /\ c[m] = IF m = n THEN b[m] + 1 ELSE b[m]
                           /\ b[m] \in Nat \ {0} /\ c[m] \in Nat \ {0}
  BY <1>5 DEF Balanced
<1>7. Balanced(k, c, Nil, "left")
  <2>1. ASSUME NEW m \in DOMAIN h, NEW s \in Sides
        PROVE  c[m] = c[k[m][s]] + Weight(k, m) + Gap(m, s, Nil, "left")
    <3>1. /\ b[m] = b[h[m][s]] + Weight(h, m) + Gap(m, s, p, t)
          /\ b[m] \in Nat \ {0} /\ b[h[m][s]] \in Nat \ {0} /\ Weight(h, m) \in {0, 1}
      BY BalancedStep
    <3>2. h[m][s] = n <=> (m = p /\ s = t)
      BY <1>1, OneParent DEF Missing
    <3>3. Gap(m, s, Nil, "left") = 0 /\ Gap(m, s, p, t) = IF h[m][s] = n THEN 1 ELSE 0
      BY <3>2, <1>1 DEF Gap
    <3>4. k[m][s] = h[m][s] /\ h[m][s] \in Places(h) /\ m \in Places(h) /\ (m = n => h[m][s] # n)
      BY <1>3 DEF Places
    <3>5. Weight(k, m) = IF m = n THEN 1 ELSE Weight(h, m)
      BY <1>2 DEF Weight
    <3>6. m = n => Weight(h, m) = 0
      BY DEF Weight
    <3>7. c[m] = (IF m = n THEN b[m] + 1 ELSE b[m]) /\ c[h[m][s]] = (IF h[m][s] = n THEN b[h[m][s]] + 1 ELSE b[h[m][s]])
      BY <3>4, <1>6
    <3>8. CASE m = n
      <4>1. Weight(h, m) = 0 /\ Weight(k, m) = 1 /\ Gap(m, s, p, t) = 0 /\ c[m] = b[m] + 1 /\ c[h[m][s]] = b[h[m][s]]
        BY <3>3, <3>4, <3>5, <3>6, <3>7, <3>8
      <4> QED BY ONLY <4>1, <3>1, <3>3, <3>4
    <3>9. CASE m # n /\ h[m][s] = n
      <4>1. Weight(k, m) = Weight(h, m) /\ Gap(m, s, p, t) = 1 /\ c[m] = b[m] /\ c[h[m][s]] = b[h[m][s]] + 1
        BY <3>3, <3>5, <3>7, <3>9
      <4> QED BY ONLY <4>1, <3>1, <3>3, <3>4
    <3>10. CASE m # n /\ h[m][s] # n
      BY <3>1, <3>3, <3>4, <3>5, <3>7, <3>10
    <3> QED BY <3>8, <3>9, <3>10
  <2>2. DOMAIN c = Places(h) /\ c = [m \in Places(h) |-> c[m]] /\ c[Nil] = 1
    BY <1>1, <1>5, <1>6 DEF Places, Balanced
  <2> QED BY <2>1, <2>2, <1>1, <1>6, BalancedWhen
<1>8. HeightsBut(h, b, c, {n}) /\ c[n] = b[n] + 1
  BY <1>6 DEF HeightsBut, Places
<1>9. ColoursBut(h, k, {n}) /\ ~k[n].red
  BY <1>2 DEF ColoursBut
<1> QED BY <1>1, <1>4, <1>7, <1>8, <1>9 DEF TurnsBlack

(* The stack is still not too long, if the nodes on it are as they were. *)
LEMMA ShortKept ==
  ASSUME NEW h, NEW g, NEW b, NEW c, NEW path, NEW q, NEW top, Short(h, b, path, top),
         Len(q) \in Nat, Len(path) \in Nat, Len(q) <= Len(path),
         \A i \in 1..Len(q) : q[i] = path[i] /\ c[q[i]] = b[q[i]] /\ (g[q[i]].red <=> h[q[i]].red)
  PROVE  Short(g, c, q, top)
BY DEF Short

(* A root is not the other root and not below any node. *)
LEMMA RootsApart ==
  ASSUME NEW h, NEW D, IsHeap(h), Forest(h, D), NEW r1, NEW r2, Parts(h, D, r1, r2), r1 # Nil
  PROVE  /\ r1 # r2 /\ r1 \in DOMAIN h /\ r1 \notin D[r2]
         /\ \A m \in DOMAIN h : \A s \in Sides : h[m][s] # r1
<1>1. r1 \in DOMAIN h /\ r1 \in D[r1]
  BY Within DEF Parts, Places
<1> QED BY <1>1, RootHasNoParent DEF Parts

LEMMA FixupReturns ==
  ASSUME NEW D, NEW b, NEW E, NEW c, Inv(D, b), Fixing, Done(0), UNCHANGED <<user, spare>>,
         SameNodes(heap, heap'),
         Sound(heap', E, c, Nil, "left", Nil, Nil), Parts(heap', E, tree'.root, spare.root),
         tree' \in Trees(heap'), spare \in Trees(heap'),
         c[tree'.root] = tree'.bh + 1, c[spare.root] = spare.bh + 1,
         ~Red(heap', tree'.root), ~Red(heap', spare.root)
  PROVE  Inv(E, c)'
<1>1. Typed
  BY WhenFixing
<1>2. c[tree'.root] + 0 = tree'.bh + 1
  <2>1. tree'.bh \in Nat
    BY DEF Trees
  <2> QED BY <2>1
<1>3. Calm(heap', E, c, tree', spare')
  BY <1>2 DEF Calm, Rooted
<1>4. DOMAIN heap' \subseteq user'.nodes /\ \A n \in DOMAIN heap' : heap'[n].key \in Keys
  BY <1>1 DEF Typed, SameNodes
<1> QED BY <1>1, <1>3, <1>4, Returned DEF Typed

LEMMA InsertDoneKeeps ==
  ASSUME NEW D, NEW b, Inv(D, b), InsertDone
  PROVE  \E c : Inv(D, c)' /\ Conserves(D, D)
<1>1. /\ pc = "insert_fixup" /\ ~Red(heap, Up(0)) /\ Fixing /\ Done(0) /\ UNCHANGED <<user, spare>>
      /\ heap' = (IF node = tree.root THEN Paint(heap, node, FALSE) ELSE heap)
      /\ tree' = (IF node = tree.root THEN [tree EXCEPT !.bh = @ + 1] ELSE tree)
  BY DEF InsertDone, Fixing
<1>2. Hole = Nil /\ Removed = Nil /\ MissingAtRoot = 0
  BY <1>1 DEF Hole, Removed, MissingAtRoot
<1>3. /\ OnPath(heap, stack, tree.root, node) /\ (stack = <<>> <=> Depth = 0) /\ Depth \in Nat
      /\ Parts(heap, D, tree.root, spare.root) /\ IsHeap(heap) /\ Forest(heap, D)
      /\ Rooted(heap, D, b, tree, spare, node, 0) /\ node \in DOMAIN heap /\ node # Nil
      /\ heap[node].red
  <2>1. Inserting /\ node \in Places(heap)
    BY <1>1, WhenFixing DEF Inv
  <2> QED BY <1>1, <1>2, <2>1, WhenFixing DEF Inserting, Places
<1>4. Ordered(heap, D) /\ Balanced(heap, b, Nil, Side) /\ RedsApart(heap, node, Nil)
  BY <1>1, <1>2, WhenFixing DEF Sound
<1>5. /\ tree \in Trees(heap) /\ spare \in Trees(heap) /\ b[tree.root] + 0 = tree.bh + 1
      /\ b[spare.root] = spare.bh + 1 /\ (Red(heap, tree.root) => tree.root = node) /\ ~Red(heap, spare.root)
  BY <1>3 DEF Rooted
<1>6. /\ tree.bh \in Nat /\ tree.root \in Places(heap) /\ spare.root \in Places(heap)
      /\ b[tree.root] = tree.bh + 1
  <2>1. tree.bh \in Nat /\ tree.root \in Places(heap) /\ spare.root \in Places(heap)
    BY <1>5 DEF Trees
  <2>2. b[tree.root] \in Nat
    BY <2>1, <1>4 DEF Balanced
  <2> QED BY <2>1, <2>2, <1>5
<1>7. CASE node = tree.root
  <2>1. tree.root # spare.root /\ \A m \in DOMAIN heap : \A s \in Sides : heap[m][s] # tree.root
    BY <1>3, <1>7, RootsApart
  <2>2. Missing(heap, node, Nil, Side) /\ RedsApart(heap, node, node)
    <3>1. Missing(heap, node, Nil, Side)
      BY <2>1, <1>7 DEF Missing
    <3>2. RedsApart(heap, node, node)
      BY <1>3, <1>4 DEF RedsApart, IsHeap
    <3> QED BY <3>1, <3>2
  <2>3. heap' = Paint(heap, node, FALSE)
    BY <1>1, <1>7
  <2>4. /\ SameShape(heap, heap') /\ RedsApart(heap', Nil, Nil)
        /\ ColoursBut(heap, heap', {node}) /\ ~heap'[node].red
        /\ \E c : Balanced(heap', c, Nil, "left") /\ HeightsBut(heap, b, c, {node}) /\ c[node] = b[node] + 1
    <3>1. IsHeap(heap) /\ Forest(heap, D) /\ node \in DOMAIN heap /\ heap[node].red
      BY <1>3
    <3>2. TurnsBlack(heap, heap', b, node)
      BY <2>2, <2>3, <3>1, <1>4, Blackened
    <3> QED BY <3>2 DEF TurnsBlack
  <2>5. PICK c : Balanced(heap', c, Nil, "left") /\ HeightsBut(heap, b, c, {node}) /\ c[node] = b[node] + 1
    BY <2>4
  <2>6. /\ Forest(heap', D) /\ DOMAIN heap' = DOMAIN heap /\ Ordered(heap', D) /\ Trees(heap') = Trees(heap)
        /\ Parts(heap', D, tree.root, spare.root) /\ IsHeap(heap') /\ SameNodes(heap, heap')
    BY <2>4, <1>3, <1>4, ShapeKeeps DEF SameShape
  <2>7. Sound(heap', D, c, Nil, "left", Nil, Nil)
    BY <2>4, <2>5, <2>6 DEF Sound
  <2>8. tree' = [tree EXCEPT !.bh = @ + 1]
    BY <1>1, <1>7
  <2>9. tree'.root = tree.root /\ tree'.bh = tree.bh + 1 /\ tree' \in Trees(heap')
    <3>1. Trees(heap') = Trees(heap) /\ tree \in Trees(heap)
      BY <2>6, <1>5
    <3>2. tree'.root = tree.root /\ tree'.bh = tree.bh + 1 /\ tree' \in Trees(heap)
      BY ONLY <3>1, <2>8 DEF Trees
    <3> QED BY <3>1, <3>2
  <2>10. c[tree.root] = tree'.bh + 1 /\ c[spare.root] = spare.bh + 1
    BY <2>1, <2>5, <2>9, <1>5, <1>6, <1>7 DEF HeightsBut
  <2>11. ~Red(heap', tree.root) /\ ~Red(heap', spare.root)
    <3>1. spare.root # Nil => (heap'[spare.root].red <=> heap[spare.root].red)
      BY <2>1, <2>4, <1>6, <1>7 DEF Places, ColoursBut
    <3> QED BY <3>1, <2>4, <1>3, <1>5, <1>7 DEF Red
  <2>12. Inv(D, c)'
    BY <2>6, <2>7, <2>9, <2>10, <2>11, <1>1, <1>5, FixupReturns
  <2>13. Conserves(D, D)
    BY <2>6, <2>9, <1>1 DEF Conserves
  <2> QED BY <2>12, <2>13
<1>8. CASE node # tree.root
  <2>1. heap' = heap /\ tree' = tree
    BY <1>1, <1>8
  <2>2. Depth > 0
    <3>1. stack # <<>>
      BY <1>3, <1>8 DEF OnPath
    <3> QED BY <3>1, <1>3
  <2>3. Up(0) \in DOMAIN heap /\ Up(0) # Nil /\ \E s \in Sides : heap[Up(0)][s] = node
    BY <2>2, <1>1, Parents
  <2>4. ~heap[Up(0)].red
    BY <2>3, <1>1 DEF Red
  <2>5. RedsApart(heap, Nil, Nil)
    <3> SUFFICES ASSUME NEW m \in DOMAIN heap, NEW s \in Sides, heap[m].red, Red(heap, heap[m][s]) PROVE FALSE
      BY DEF RedsApart
    <3>1. heap[m][s] = node
      BY <1>3, <1>4 DEF RedsApart, IsHeap
    <3>2. m = Up(0)
      BY <3>1, <2>3, <1>3, OneParent
    <3> QED BY <3>2, <2>4
  <2>6. Sound(heap', D, b, Nil, "left", Nil, Nil)
    <3>1. Sound(heap, D, b, Nil, Side, Nil, Nil)
      BY <2>5, <1>3, <1>4 DEF Sound
    <3> QED BY <3>1, <2>1, NoHole
  <2>7. SameNodes(heap, heap')
    BY <2>1 DEF SameNodes
  <2>8. Inv(D, b)'
    BY <2>1, <2>6, <2>7, <1>1, <1>3, <1>5, <1>6, <1>8, FixupReturns
  <2>9. Conserves(D, D)
    BY <2>1, <2>7, <1>1 DEF Conserves
  <2> QED BY <2>8, <2>9
<1> QED BY <1>7, <1>8

(* What is known in the loop of rb_delete_fixup. *)
LEMMA WhenDeleting ==
  ASSUME NEW D, NEW b, Inv(D, b), pc = "delete_fixup"
  PROVE  /\ IsHeap(heap) /\ Forest(heap, D) /\ Ordered(heap, D) /\ RedsApart(heap, node, node)
         /\ Balanced(heap, b, Hole, Side)
         /\ tree \in Trees(heap) /\ spare \in Trees(heap) /\ Parts(heap, D, tree.root, spare.root)
         /\ tree.bh \in Nat /\ tree.root \in Places(heap) /\ spare.root \in Places(heap)
         /\ b[spare.root] = spare.bh + 1 /\ (Red(heap, tree.root) => tree.root = node)
         /\ ~Red(heap, spare.root)
         /\ b[tree.root] + (IF Depth = 0 THEN 1 ELSE 0) = tree.bh + 1
         /\ b[tree.root] \in Nat \ {0} /\ Hole = IF Depth = 0 THEN Nil ELSE Up(0)
<1>1. Fixing /\ Removed = node /\ MissingAtRoot = IF Depth = 0 THEN 1 ELSE 0
  BY DEF Fixing, Removed, MissingAtRoot
<1>2. /\ Sound(heap, D, b, Hole, Side, node, node) /\ Rooted(heap, D, b, tree, spare, node, MissingAtRoot)
      /\ Depth \in Nat
  BY <1>1, WhenFixing
<1>3. /\ tree \in Trees(heap) /\ spare \in Trees(heap) /\ Parts(heap, D, tree.root, spare.root)
      /\ b[spare.root] = spare.bh + 1 /\ (Red(heap, tree.root) => tree.root = node)
      /\ ~Red(heap, spare.root)
      /\ b[tree.root] + (IF Depth = 0 THEN 1 ELSE 0) = tree.bh + 1
  BY <1>1, <1>2 DEF Rooted
<1>4. tree.bh \in Nat /\ tree.root \in Places(heap) /\ spare.root \in Places(heap)
  BY <1>3 DEF Trees
<1>5. b[tree.root] \in Nat \ {0}
  BY <1>2, <1>4 DEF Sound, Balanced
<1>6. Hole = IF Depth = 0 THEN Nil ELSE Up(0)
  BY <1>2 DEF Hole
<1> QED BY <1>2, <1>3, <1>4, <1>5, <1>6 DEF Sound

LEMMA MissingChild ==
  ASSUME NEW D, NEW b, Inv(D, b), pc = "delete_fixup", Depth > 0
  PROVE  Side \in Sides /\ heap[Up(0)][Side] = node /\ Hole = Up(0)
<1>1. Fixing /\ IsHeap(heap)
  BY WhenDeleting DEF Fixing
<1>2. Up(0) \in DOMAIN heap /\ \E s \in Sides : heap[Up(0)][s] = node
  BY <1>1, Parents
<1>3. Side \in Sides /\ heap[Up(0)][Side] = node
  <2>1. heap[Up(0)]["left"] = heap[Up(0)].left /\ "left" \in Sides /\ "right" \in Sides
    BY <1>1, <1>2, FieldsAreSides
  <2> QED BY <2>1, <1>2 DEF Side, Sides
<1> QED BY <1>3, WhenDeleting

LEMMA DeleteDoneKeeps ==
  ASSUME NEW D, NEW b, Inv(D, b), DeleteDone
  PROVE  \E c : Inv(D, c)' /\ Conserves(D, D)
<1>1. /\ pc = "delete_fixup" /\ ~Looping /\ Fixing /\ Done(0) /\ UNCHANGED <<user, spare>>
      /\ heap' = (IF Red(heap, node) THEN Paint(heap, node, FALSE) ELSE heap)
      /\ tree' = (IF Red(heap, node) THEN tree ELSE [tree EXCEPT !.bh = @ - 1])
  BY DEF DeleteDone, Fixing
<1>2. /\ IsHeap(heap) /\ Forest(heap, D) /\ Ordered(heap, D) /\ RedsApart(heap, node, node)
      /\ Balanced(heap, b, Hole, Side)
  BY <1>1, WhenDeleting
<1>3. /\ tree \in Trees(heap) /\ spare \in Trees(heap) /\ Parts(heap, D, tree.root, spare.root)
      /\ tree.bh \in Nat /\ tree.root \in Places(heap) /\ spare.root \in Places(heap)
      /\ b[spare.root] = spare.bh + 1 /\ (Red(heap, tree.root) => tree.root = node)
      /\ ~Red(heap, spare.root)
      /\ b[tree.root] + (IF Depth = 0 THEN 1 ELSE 0) = tree.bh + 1
      /\ b[tree.root] \in Nat \ {0} /\ Hole = IF Depth = 0 THEN Nil ELSE Up(0)
  BY <1>1, WhenDeleting
<1>4. OnPath(heap, stack, tree.root, node) /\ (stack = <<>> <=> Depth = 0) /\ Depth \in Nat /\ node \in Places(heap)
  BY <1>1, WhenFixing
<1>5. Depth = 0 => node = tree.root
  BY <1>4 DEF OnPath
<1>6. Depth # 0 => node # tree.root /\ Up(0) \in DOMAIN heap /\ Side \in Sides /\ heap[Up(0)][Side] = node
  <2>1. Depth # 0 => Depth > 0
    BY <1>4
  <2>2. Depth > 0 => node # tree.root /\ Up(0) \in DOMAIN heap
    BY <1>1, Parents
  <2>3. Depth > 0 => Side \in Sides /\ heap[Up(0)][Side] = node
    BY <1>1, MissingChild
  <2> QED BY <2>1, <2>2, <2>3
<1>7. CASE Red(heap, node)
  <2>1. node \in DOMAIN heap /\ node # Nil /\ heap[node].red
    BY <1>4, <1>7 DEF Red, Places
  <2>2. heap' = Paint(heap, node, FALSE) /\ tree' = tree
    BY <1>1, <1>7
  <2>3. Missing(heap, node, Hole, Side)
    <3>1. CASE Depth = 0
      <4>1. \A m \in DOMAIN heap : \A s \in Sides : heap[m][s] # tree.root
        BY <2>1, <3>1, <1>2, <1>3, <1>5, RootsApart
      <4> QED BY <4>1, <3>1, <1>3, <1>5 DEF Missing
    <3>2. CASE Depth # 0
      BY <3>2, <1>3, <1>6 DEF Missing
    <3> QED BY <3>1, <3>2
  <2>4. TurnsBlack(heap, heap', b, node)
    BY <2>1, <2>2, <2>3, <1>2, Blackened
  <2>5. PICK c : Balanced(heap', c, Nil, "left") /\ HeightsBut(heap, b, c, {node}) /\ c[node] = b[node] + 1
    BY <2>4 DEF TurnsBlack
  <2>6. SameShape(heap, heap') /\ RedsApart(heap', Nil, Nil) /\ ColoursBut(heap, heap', {node}) /\ ~heap'[node].red
    BY <2>4 DEF TurnsBlack
  <2>7. /\ Forest(heap', D) /\ DOMAIN heap' = DOMAIN heap /\ Ordered(heap', D) /\ Trees(heap') = Trees(heap)
        /\ Parts(heap', D, tree.root, spare.root) /\ IsHeap(heap') /\ SameNodes(heap, heap')
    BY <2>6, <1>2, <1>3, ShapeKeeps DEF SameShape
  <2>8. Sound(heap', D, c, Nil, "left", Nil, Nil)
    BY <2>5, <2>6, <2>7 DEF Sound
  <2>9. spare.root # node
    BY <1>3, <1>7
  <2>10. c[spare.root] = spare.bh + 1
    BY <2>5, <2>9, <1>3 DEF HeightsBut
  <2>11. c[tree.root] = tree.bh + 1
    <3>1. CASE Depth = 0
      BY <2>5, <3>1, <1>3, <1>5
    <3>2. CASE Depth # 0
      <4>1. c[tree.root] = b[tree.root]
        BY <2>5, <3>2, <1>3, <1>6 DEF HeightsBut
      <4> QED BY <3>2, <4>1, <1>3
    <3> QED BY <3>1, <3>2
  <2>12. ~Red(heap', tree.root) /\ ~Red(heap', spare.root)
    <3>1. ASSUME NEW r \in Places(heap), Red(heap', r) PROVE Red(heap, r) /\ r # node
      BY <2>6, <3>1 DEF Red, Places, ColoursBut
    <3> QED BY <3>1, <1>3
  <2>13. Inv(D, c)'
    <3>1. tree' \in Trees(heap') /\ spare \in Trees(heap')
      BY <2>2, <2>7, <1>3
    <3> QED BY <2>2, <2>7, <2>8, <2>10, <2>11, <2>12, <3>1, <1>1, FixupReturns
  <2>14. Conserves(D, D)
    BY <2>2, <2>7, <1>1 DEF Conserves
  <2> QED BY <2>13, <2>14
<1>8. CASE ~Red(heap, node)
  <2>1. heap' = heap /\ tree' = [tree EXCEPT !.bh = @ - 1] /\ Depth = 0
    BY <1>1, <1>6, <1>8 DEF Looping
  <2>2. RedsApart(heap, Nil, Nil)
    <3> SUFFICES ASSUME NEW m \in DOMAIN heap, NEW s \in Sides, heap[m].red, Red(heap, heap[m][s]) PROVE FALSE
      BY DEF RedsApart
    <3>1. Red(heap, m)
      BY <1>2 DEF Red, IsHeap
    <3> QED BY <3>1, <1>2, <1>8 DEF RedsApart
  <2>3. Hole = Nil /\ tree.bh = b[tree.root]
    BY <2>1, <1>3
  <2>4. tree' \in Trees(heap') /\ tree'.root = tree.root /\ tree'.bh = tree.bh - 1 /\ spare \in Trees(heap')
    <3>1. tree.bh - 1 \in Nat
      BY <2>3, <1>3
    <3>2. tree \in Trees(heap) /\ spare \in Trees(heap)
      BY <1>3
    <3>3. tree'.root = tree.root /\ tree'.bh = tree.bh - 1 /\ tree' \in Trees(heap)
      BY ONLY <2>1, <3>1, <3>2 DEF Trees
    <3> QED BY <2>1, <3>2, <3>3
  <2>5. b[tree'.root] = tree'.bh + 1
    BY <2>3, <2>4, <1>3
  <2>6. Sound(heap', D, b, Nil, "left", Nil, Nil)
    <3>1. Sound(heap, D, b, Nil, Side, Nil, Nil)
      BY <2>2, <2>3, <1>2 DEF Sound
    <3> QED BY <2>1, <3>1, NoHole
  <2>7. ~Red(heap', tree'.root) /\ ~Red(heap', spare.root) /\ SameNodes(heap, heap')
        /\ Parts(heap', D, tree'.root, spare.root)
    BY <2>1, <2>4, <1>3, <1>8 DEF SameNodes
  <2>8. Inv(D, b)'
    BY <2>4, <2>5, <2>6, <2>7, <1>1, <1>3, FixupReturns
  <2>9. Conserves(D, D)
    BY <2>4, <2>7, <1>1 DEF Conserves
  <2> QED BY <2>8, <2>9
<1> QED BY <1>7, <1>8

(* The missing black moves up. *)
GapMoves(h, k, b, p, w, q, t) ==
  /\ SameShape(h, k) /\ RedsApart(k, p, p) /\ ColoursBut(h, k, {w})
  /\ \E c : Balanced(k, c, q, t) /\ HeightsBut(h, b, c, {p, w}) /\ c[p] + 1 = b[p]

LEMMA RecoloredDelete ==
  ASSUME NEW h, NEW D, NEW b, IsHeap(h), Forest(h, D), NEW p \in DOMAIN h, NEW s \in Sides,
         Balanced(h, b, p, s), NEW n, n = h[p][s], NEW w, w = h[p][Opp(s)], w # Nil, ~Red(h, w),
         \A u \in Sides : ~Red(h, h[w][u]), ~Red(h, n), RedsApart(h, n, n),
         NEW q, NEW t, Missing(h, p, q, t), NEW k, k = Paint(h, w, TRUE)
  PROVE  GapMoves(h, k, b, p, w, q, t)
<1>1. w \in DOMAIN h /\ Opp(s) \in Sides /\ Opp(s) # s /\ Nil \notin DOMAIN h /\ p # Nil /\ ~h[w].red
  BY ChildIs, OppSide DEF IsHeap, Red
<1>2. w # p /\ n # p /\ n # w /\ n \in Places(h)
  <2>1. w # p
    BY <1>1, ForestSides, Within
  <2>2. n # p
    BY <1>1, ForestSides, Within
  <2>3. n # w
    BY <1>1, OneParent
  <2> QED BY <2>1, <2>2, <2>3, ChildIs
<1>3. SameShape(h, k) /\ DOMAIN k = DOMAIN h /\ Places(k) = Places(h)
  <2>1. SameShape(h, h)
    BY ShapeItself
  <2>2. SameShape(h, k)
    BY <2>1, <1>1, PaintedRed
  <2> QED BY <2>2 DEF SameShape, SameNodes
<1>4. \A m \in DOMAIN h : k[m].red <=> m = w \/ h[m].red
  BY <1>1 DEF Paint, IsHeap, Cells
<1>5. ASSUME NEW m \in DOMAIN h, NEW u \in Sides
      PROVE  /\ k[m][u] = h[m][u] /\ h[m][u] \in Places(h)
             /\ (h[m][u] = w <=> m = p /\ u = Opp(s))
             /\ (h[m][u] = p <=> m = q /\ u = t)
             /\ h[m][u] # m
  <2>1. k[m][u] = h[m][u]
    BY <1>3 DEF SameShape
  <2>2. h[m][u] = w <=> m = p /\ u = Opp(s)
    BY <1>1, OneParent
  <2>3. h[m][u] = p <=> m = q /\ u = t
    BY <1>1, OneParent DEF Missing
  <2>4. m \in D[m] /\ m \notin D[h[m][u]]
    BY ForestSides
  <2> QED BY <2>1, <2>2, <2>3, <2>4, ChildIs
<1>6. RedsApart(k, p, p)
  <2> SUFFICES ASSUME NEW m \in DOMAIN k, NEW u \in Sides, k[m].red, Red(k, k[m][u]), m # p PROVE FALSE
    BY DEF RedsApart
  <2>0. m \in DOMAIN h /\ k[m][u] = h[m][u]
    BY <1>3, <1>5
  <2>1. h[m][u] # w /\ h[m][u] # Nil /\ h[m][u] \in DOMAIN h /\ k[h[m][u]].red
    BY <2>0, <1>5 DEF Red, Places
  <2>2. Red(h, h[m][u])
    BY <2>1, <1>4 DEF Red
  <2>3. m # w /\ h[m].red
    BY <2>0, <2>2, <1>4
  <2>4. m # n
    BY <2>0, <2>3, <1>1 DEF Red
  <2>5. h[m][u] = n
    BY <2>0, <2>2, <2>3, <2>4 DEF RedsApart
  <2> QED BY <2>2, <2>5
<1>7. PICK c : c = [m \in Places(h) |-> IF m \in {p, w} THEN b[m] - 1 ELSE b[m]]
  OBVIOUS
<1>8. \A m \in Places(h) : b[m] \in Nat \ {0} /\ (m \in {p, w} => b[m] - 1 \in Nat \ {0})
  <2>1. b[p] = b[n] + Weight(h, p) + 1 /\ b[p] \in Nat \ {0} /\ b[n] \in Nat \ {0} /\ Weight(h, p) \in {0, 1}
    <3>1. Gap(p, s, p, s) = 1
      BY DEF Gap
    <3> QED BY <3>1, BalancedStep
  <2>2. b[w] \in Nat \ {0} /\ b[w] >= 2
    BY <1>1, BalancedChild
  <2>3. \A m \in Places(h) : b[m] \in Nat \ {0}
    BY DEF Balanced
  <2>4. b[p] - 1 \in Nat \ {0}
    BY ONLY <2>1
  <2>5. b[w] - 1 \in Nat \ {0}
    BY ONLY <2>2
  <2> QED BY <2>3, <2>4, <2>5
<1>9. /\ \A m \in Places(h) : c[m] \in Nat \ {0}
      /\ \A m \in Places(h) \ {p, w} : c[m] = b[m]
      /\ c[p] = b[p] - 1 /\ c[w] = b[w] - 1
  BY <1>1, <1>7, <1>8 DEF Places
<1>10. ASSUME NEW m \in DOMAIN h, NEW u \in Sides
       PROVE  c[m] = c[k[m][u]] + Weight(k, m) + Gap(m, u, q, t)
  <2>1. /\ b[m] = b[h[m][u]] + Weight(h, m) + Gap(m, u, p, s)
        /\ b[m] \in Nat \ {0} /\ b[h[m][u]] \in Nat \ {0} /\ Weight(h, m) \in {0, 1}
    BY BalancedStep
  <2>2. Weight(k, m) = (IF m = w THEN 0 ELSE Weight(h, m)) /\ (m = w => Weight(h, m) = 1)
    BY <1>1, <1>4 DEF Weight
  <2>3. k[m][u] = h[m][u] /\ h[m][u] \in Places(h) /\ m \in Places(h)
    BY <1>5 DEF Places
  <2>4. CASE m = w
    <3>1. h[m][u] # w /\ h[m][u] # p
      BY <2>4, <1>1, <1>2, <1>5, ForestSides, Within
    <3>2. Gap(m, u, p, s) = 0 /\ Gap(m, u, q, t) = 0
      BY <3>1, <2>4, <1>2, <1>5 DEF Gap
    <3>3. c[m] = b[m] - 1 /\ c[h[m][u]] = b[h[m][u]] /\ Weight(k, m) = 0 /\ Weight(h, m) = 1
      BY <3>1, <2>2, <2>3, <2>4, <1>9
    <3> QED BY ONLY <2>1, <2>3, <3>2, <3>3
  <2>5. CASE m = p /\ u = s
    <3>1. h[m][u] = n /\ Gap(m, u, p, s) = 1 /\ Gap(m, u, q, t) = 0
      BY <2>5, <1>2, <1>5 DEF Gap
    <3>2. c[m] = b[m] - 1 /\ c[h[m][u]] = b[h[m][u]] /\ Weight(k, m) = Weight(h, m)
      BY <3>1, <2>2, <2>5, <1>2, <1>9
    <3> QED BY ONLY <2>1, <2>3, <3>1, <3>2
  <2>6. CASE m = p /\ u # s
    <3>1. u = Opp(s)
      BY <2>6, OppSide
    <3>2. h[m][u] = w /\ Gap(m, u, p, s) = 0 /\ Gap(m, u, q, t) = 0
      BY <2>6, <3>1, <1>2, <1>5 DEF Gap
    <3>3. c[m] = b[m] - 1 /\ c[h[m][u]] = b[h[m][u]] - 1 /\ Weight(k, m) = Weight(h, m)
      BY <3>2, <2>2, <2>6, <1>2, <1>9
    <3> QED BY ONLY <2>1, <2>3, <3>2, <3>3
  <2>7. CASE m # w /\ m # p /\ h[m][u] = p
    <3>1. Gap(m, u, p, s) = 0 /\ Gap(m, u, q, t) = 1
      BY <2>7, <1>5 DEF Gap
    <3>2. c[m] = b[m] /\ c[h[m][u]] = b[h[m][u]] - 1 /\ Weight(k, m) = Weight(h, m)
      BY <2>2, <2>3, <2>7, <1>9
    <3> QED BY ONLY <2>1, <2>3, <3>1, <3>2
  <2>8. CASE m # w /\ m # p /\ h[m][u] # p
    <3>1. Gap(m, u, p, s) = 0 /\ Gap(m, u, q, t) = 0 /\ h[m][u] # w
      BY <2>8, <1>5 DEF Gap
    <3>2. c[m] = b[m] /\ c[h[m][u]] = b[h[m][u]] /\ Weight(k, m) = Weight(h, m)
      BY <3>1, <2>2, <2>3, <2>8, <1>9
    <3> QED BY ONLY <2>1, <2>3, <3>1, <3>2
  <2> QED BY <2>4, <2>5, <2>6, <2>7, <2>8
<1>11. Balanced(k, c, q, t)
  <2>1. DOMAIN c = Places(h) /\ c = [m \in Places(h) |-> c[m]]
    BY <1>7
  <2>2. c[Nil] = 1
    BY <1>1, <1>9 DEF Places, Balanced
  <2> QED BY <2>1, <2>2, <1>3, <1>9, <1>10, BalancedWhen
<1>12. HeightsBut(h, b, c, {p, w}) /\ c[p] + 1 = b[p]
  <2>1. b[p] \in Nat
    BY <1>8 DEF Places
  <2> QED BY <2>1, <1>9 DEF HeightsBut
<1>13. ColoursBut(h, k, {w})
  BY <1>4 DEF ColoursBut
<1> QED BY <1>3, <1>6, <1>11, <1>12, <1>13 DEF GapMoves

(* What the steps of the loop of rb_delete_fixup find. *)
LEMMA FindsSibling ==
  ASSUME NEW D, NEW b, Inv(D, b), Looping, DeleteFixupOK
  PROVE  /\ pc = "delete_fixup" /\ Fixing /\ Depth > 0 /\ ~Red(heap, node) /\ node # tree.root
         /\ Up(0) \in DOMAIN heap /\ Side \in Sides /\ heap[Up(0)][Side] = node
         /\ Sibling = heap[Up(0)][Opp(Side)] /\ Sibling \in DOMAIN heap /\ Hole = Up(0)
         /\ Sibling # tree.root /\ Sibling # spare.root /\ Up(0) # spare.root
         /\ Sibling # node /\ Sibling # Up(0) /\ node # Up(0)
<1>1. /\ pc = "delete_fixup" /\ Fixing /\ Depth > 0 /\ ~Red(heap, node) /\ node # tree.root /\ Sibling # Nil
      /\ Sibling = heap[Up(0)][Opp(Side)]
  BY WhenFixing DEF Looping, Fixing, DeleteFixupOK, Sibling
<1>2. /\ Up(0) \in DOMAIN heap /\ Up(0) # spare.root /\ node # Up(0)
      /\ Side \in Sides /\ heap[Up(0)][Side] = node /\ Hole = Up(0)
  BY <1>1, Parents, MissingChild
<1>3. Opp(Side) \in Sides /\ Opp(Side) # Side
  BY <1>2, OppSide
<1>4. IsHeap(heap) /\ Forest(heap, D) /\ Parts(heap, D, tree.root, spare.root)
  BY <1>1, WhenDeleting
<1>5. Sibling \in DOMAIN heap
  BY <1>1, <1>2, <1>3, <1>4, ChildIs
<1>6. Sibling # tree.root /\ Sibling # spare.root
  <2>1. Parts(heap, D, spare.root, tree.root)
    BY <1>4 DEF Parts
  <2>2. tree.root # Nil => Sibling # tree.root
    BY <1>1, <1>2, <1>3, <1>4, RootsApart
  <2>3. spare.root # Nil => Sibling # spare.root
    BY <2>1, <1>1, <1>2, <1>3, <1>4, RootsApart
  <2> QED BY <2>2, <2>3, <1>1
<1>7. Sibling # node
  BY <1>1, <1>2, <1>3, <1>4, OneParent
<1>8. Sibling # Up(0)
  BY <1>1, <1>2, <1>3, <1>4, <1>5, ForestSides, Within
<1> QED BY <1>1, <1>2, <1>5, <1>6, <1>7, <1>8

LEMMA DeleteRecolorKeeps ==
  ASSUME NEW D, NEW b, Inv(D, b), DeleteRecolor
  PROVE  \E c : Inv(D, c)' /\ Conserves(D, D)
<1> DEFINE p == Up(0)
           w == Sibling
           l == Popped(stack)
<1>1. /\ Looping /\ DeleteFixupOK /\ NephewsBlack /\ ~heap[w].red
      /\ heap' = Paint(heap, w, TRUE) /\ node' = p /\ stack' = l
      /\ UNCHANGED <<user, tree, spare, pc, op, x, y, bh, result>>
  BY DEF DeleteRecolor, Popped, Depth
<1>2. /\ pc = "delete_fixup" /\ Fixing /\ Depth > 0 /\ ~Red(heap, node) /\ node # tree.root
      /\ p \in DOMAIN heap /\ Side \in Sides /\ heap[p][Side] = node
      /\ w = heap[p][Opp(Side)] /\ w \in DOMAIN heap /\ Hole = p
      /\ w # tree.root /\ w # spare.root /\ p # spare.root
  BY <1>1, FindsSibling
<1>3. /\ IsHeap(heap) /\ Forest(heap, D) /\ Ordered(heap, D) /\ RedsApart(heap, node, node)
      /\ Balanced(heap, b, p, Side)
      /\ tree \in Trees(heap) /\ spare \in Trees(heap) /\ Parts(heap, D, tree.root, spare.root)
      /\ b[spare.root] = spare.bh + 1 /\ (Red(heap, tree.root) => tree.root = node)
      /\ ~Red(heap, spare.root) /\ b[tree.root] \in Nat \ {0}
  BY <1>2, WhenDeleting
<1>4. b[tree.root] = tree.bh + 1
  BY <1>2, <1>3, WhenDeleting
<1>5. /\ OnPath(heap, stack, tree.root, node) /\ Short(heap, b, stack, tree.bh) /\ 2 * tree.bh < tree.ssize
      /\ Depth = Len(stack) /\ Depth \in Nat
  BY <1>2, WhenFixing
<1>6. /\ OnPath(heap, l, tree.root, p) /\ Len(l) = Depth - 1 /\ tree.root # Nil
      /\ (p = tree.root <=> Depth = 1) /\ Parent(heap, p, Up(1)) /\ Up(1) = Top(l)
  BY <1>2, Parents
<1>7. \A i \in 1..(Depth - 1) : l[i] = stack[i]
  BY <1>2, Parents
<1>8. Depth' = Depth - 1 /\ Up(0)' = Up(1)
  <2>1. Depth' = Depth - 1 /\ Depth' = Len(l)
    BY <1>1, <1>6 DEF Depth
  <2> QED BY <2>1, <1>1, <1>6, <1>5 DEF Up, Top, Depth
<1> HIDE DEF p, w, l
<1>9. SameShape(heap, heap') /\ DOMAIN heap' = DOMAIN heap
  <2>1. SameShape(heap, heap)
    BY <1>3, ShapeItself
  <2>2. SameShape(heap, heap')
    BY <2>1, <1>1, <1>2, <1>3, PaintedRed
  <2> QED BY <2>2 DEF SameShape, SameNodes
<1> PICK q : q = Hole'
  OBVIOUS
<1> PICK t : t = Side'
  OBVIOUS
<1>10. q = IF Depth = 1 THEN Nil ELSE Up(1)
  <2>1. pc' = "delete_fixup"
    BY <1>1, <1>2
  <2>2. Depth' > 0 <=> Depth # 1
    <3>1. Depth > 0 /\ Depth \in Nat /\ Depth' = Depth - 1
      BY <1>2, <1>5, <1>8
    <3> QED BY ONLY <3>1
  <2> QED BY <2>1, <2>2, <1>8 DEF Hole
<1>11. Missing(heap, p, q, t)
  <2>1. CASE Depth = 1
    <3>1. \A m \in DOMAIN heap : \A s \in Sides : heap[m][s] # tree.root
      BY <1>3, <1>6, RootsApart
    <3> QED BY <3>1, <2>1, <1>6, <1>10 DEF Missing
  <2>2. CASE Depth # 1
    <3>1. l # <<>>
      <4>1. l \in Seq(DOMAIN heap) /\ Len(l) # 0
        BY <2>2, <1>2, <1>5, <1>6 DEF OnPath
      <4> QED BY <4>1
    <3>2. Up(1) \in DOMAIN heap /\ \E s \in Sides : heap[Up(1)][s] = p
      <4>1. Top(l) \in DOMAIN heap /\ \E s \in Sides : heap[Top(l)][s] = p
        BY <3>1, <1>6, PopPath
      <4> QED BY <4>1, <1>6
    <3>3. heap'[Up(1)]["left"] = heap'[Up(1)].left /\ "left" \in Sides /\ "right" \in Sides
      BY <3>2, <1>9, FieldsAreSides DEF SameShape
    <3>4. t = IF heap[Up(1)]["left"] = p THEN "left" ELSE "right"
      BY <3>2, <3>3, <1>1, <1>8, <1>9 DEF Side, SameShape, p
    <3>5. t \in Sides /\ heap[Up(1)][t] = p
      BY <3>2, <3>3, <3>4 DEF Sides
    <3> QED BY <2>2, <3>2, <3>5, <1>10 DEF Missing
  <2> QED BY <2>1, <2>2
<1>12. GapMoves(heap, heap', b, p, w, q, t)
  <2>1. \A u \in Sides : ~Red(heap, heap[w][u])
    <3>1. heap[w]["left"] = heap[w].left /\ heap[w]["right"] = heap[w].right
      BY <1>2, <1>3, FieldsAreSides
    <3> QED BY <3>1, <1>1 DEF NephewsBlack, Nephew, Sides, w
  <2>2. w # Nil /\ ~Red(heap, w)
    BY <1>1, <1>2, <1>3 DEF IsHeap, Red
  <2>3. IsHeap(heap) /\ Forest(heap, D) /\ Balanced(heap, b, p, Side) /\ RedsApart(heap, node, node)
    BY <1>3
  <2> QED BY <2>1, <2>2, <2>3, <1>1, <1>2, <1>11, RecoloredDelete
<1>13. PICK c : Balanced(heap', c, q, t) /\ HeightsBut(heap, b, c, {p, w}) /\ c[p] + 1 = b[p]
  BY <1>12 DEF GapMoves
<1>14. RedsApart(heap', p, p) /\ ColoursBut(heap, heap', {w})
  BY <1>12 DEF GapMoves
<1>15. /\ Forest(heap', D) /\ Ordered(heap', D) /\ Trees(heap') = Trees(heap)
       /\ OnPath(heap', l, tree.root, p) /\ Parts(heap', D, tree.root, spare.root)
       /\ IsHeap(heap') /\ SameNodes(heap, heap')
  BY <1>3, <1>6, <1>9, ShapeKeeps DEF SameShape
<1>16. Removed' = node' /\ node' = p /\ p # Nil
  BY <1>1, <1>2, <1>3 DEF Removed, p, IsHeap
<1>17. Sound(heap', D, c, Hole', Side', node', Removed')
  BY <1>13, <1>14, <1>15, <1>16 DEF Sound
<1>18. Rooted(heap', D, c, tree', spare, node', MissingAtRoot')
  <2>1. c[spare.root] = spare.bh + 1
    BY <1>2, <1>3, <1>13 DEF HeightsBut, Trees
  <2>2. MissingAtRoot' = IF Depth = 1 THEN 1 ELSE 0
    BY <1>1, <1>2, <1>5, <1>8 DEF MissingAtRoot
  <2>3. c[tree.root] + MissingAtRoot' = tree.bh + 1
    <3>1. CASE Depth = 1
      BY <2>2, <3>1, <1>4, <1>6, <1>13
    <3>2. CASE Depth # 1
      <4>1. c[tree.root] = b[tree.root]
        BY <3>2, <1>2, <1>3, <1>6, <1>13 DEF HeightsBut, Trees
      <4>2. b[tree.root] \in Nat
        BY <1>3
      <4> QED BY <2>2, <3>2, <4>1, <4>2, <1>4
    <3> QED BY <3>1, <3>2
  <2>4. ASSUME NEW r \in Places(heap), r # w, Red(heap', r) PROVE Red(heap, r)
    BY <2>4, <1>14 DEF Red, Places, ColoursBut
  <2>5. ~Red(heap', tree.root) /\ ~Red(heap', spare.root)
    <3>1. tree.root \in Places(heap) /\ spare.root \in Places(heap)
      BY <1>3 DEF Trees
    <3> QED BY <2>4, <3>1, <1>2, <1>3
  <2> QED BY <2>1, <2>3, <2>5, <1>1, <1>3, <1>15 DEF Rooted
<1>19. Short(heap', c, l, tree.bh)
  <2> SUFFICES ASSUME NEW i \in 1..Len(l)
               PROVE  l[i] = stack[i] /\ c[l[i]] = b[l[i]] /\ (heap'[l[i]].red <=> heap[l[i]].red)
    <3>1. Len(l) \in Nat /\ Len(stack) \in Nat /\ Len(l) <= Len(stack)
      BY <1>2, <1>5, <1>6
    <3>2. Short(heap, b, stack, tree.bh)
      BY <1>5
    <3> QED BY <3>1, <3>2, ShortKept
  <2>1. l[i] = stack[i]
    BY <1>6, <1>7
  <2>2. l[i] \in DOMAIN heap /\ l[i] \notin D[p]
    <3>1. Ancestral(heap, D, l, tree.root, p)
      <4>1. tree.root \in Places(heap) /\ IsHeap(heap) /\ Forest(heap, D) /\ OnPath(heap, l, tree.root, p)
        BY <1>3, <1>6 DEF Trees
      <4> QED BY ONLY <4>1, PathFacts
    <3> QED BY <3>1 DEF Ancestral
  <2>3. p \in D[p] /\ w \in D[p]
    <3>1. Opp(Side) \in Sides
      BY <1>2, OppSide
    <3>2. w \in D[w] /\ D[w] \subseteq D[p]
      BY <3>1, <1>2, <1>3, ForestSides, Within
    <3> QED BY <3>2, <1>2, <1>3, Within
  <2>4. l[i] \notin {p, w} /\ l[i] \in Places(heap)
    BY <2>2, <2>3 DEF Places
  <2>5. c[l[i]] = b[l[i]]
    BY <2>4, <1>13 DEF HeightsBut
  <2>6. heap'[l[i]].red <=> heap[l[i]].red
    BY <2>2, <2>4, <1>14 DEF ColoursBut
  <2> QED BY <2>1, <2>5, <2>6
<1>20. Inv(D, c)'
  <2>1. node' \in Places(heap') /\ pc # "insert_fixup"
    BY <1>2, <1>9, <1>16 DEF Places
  <2>2. OnPath(heap', stack', tree'.root, node') /\ Short(heap', c, stack', tree'.bh) /\ 2 * tree'.bh < tree'.ssize
    BY <1>1, <1>5, <1>15, <1>16, <1>19
  <2>3. SameNodes(heap, heap') /\ UNCHANGED <<user, spare, pc, op, x, y, bh, result>>
    BY <1>1, <1>15
  <2> QED BY <2>1, <2>2, <2>3, <1>2, <1>17, <1>18, FixupGoesOn
<1>21. Conserves(D, D)
  BY <1>1, <1>15 DEF Conserves
<1> QED BY <1>20, <1>21
-----------------------------------------------------------------------------
(***************************************************************************)
(* The fixups that rotate.  With every rotation, n and the child r that    *)
(* takes its place exchange their colours; so they do their heights.       *)
(***************************************************************************)
Spun(h, k, n, r, s) ==
  /\ IsHeap(k) /\ SameNodes(h, k) /\ Places(k) = Places(h)
  /\ Turned(h, k, n, r, s)
  /\ ColoursBut(h, k, {n, r}) /\ (k[n].red <=> h[r].red) /\ (k[r].red <=> h[n].red)

LEMMA SpunIs ==
  ASSUME NEW h, NEW D, IsHeap(h), Forest(h, D), NEW n \in DOMAIN h, NEW s \in Sides,
         NEW r, r = h[n][Opp(s)], r # Nil, NEW p, Parent(h, n, p),
         NEW k, SameShape(Rotate(h, n, p, s), k), ColoursBut(h, k, {n, r}),
         k[n].red <=> h[r].red, k[r].red <=> h[n].red
  PROVE  Spun(h, k, n, r, s)
<1> PICK g : g = Rotate(h, n, p, s)
  OBVIOUS
<1>1. Kindred(h, g) /\ Turned(h, g, n, r, s) /\ r \in DOMAIN h
  BY RotateIs
<1>2. SameShape(g, k)
  OBVIOUS
<1>3. IsHeap(k) /\ SameNodes(h, k) /\ Places(k) = Places(h)
  BY <1>1, <1>2 DEF SameShape, Kindred, SameNodes
<1>4. \A m \in DOMAIN h : \A t \in Sides : k[m][t] = g[m][t]
  BY <1>1, <1>2 DEF SameShape, Kindred, SameNodes
<1>5. Turned(h, k, n, r, s)
  BY <1>1, <1>4, OppSide DEF Turned
<1> QED BY <1>3, <1>5 DEF Spun

(* What is below the nodes. *)
SpunTrees(h, D, k, E, n, r, r1, R, r2) ==
  /\ Forest(k, E) /\ Ordered(k, E) /\ Parts(k, E, R, r2)
  /\ E[R] = D[r1] /\ E[r2] = D[r2]
  /\ r1 # r /\ r2 # n /\ r2 # r

LEMMA SpunBelow ==
  ASSUME NEW h, NEW D, IsHeap(h), Forest(h, D), Ordered(h, D), NEW n \in DOMAIN h, NEW s \in Sides,
         NEW r, r = h[n][Opp(s)], r # Nil, NEW k, Spun(h, k, n, r, s),
         NEW r1, NEW r2, Parts(h, D, r1, r2), n # r2, NEW R, R = IF n = r1 THEN r ELSE r1
  PROVE  \E E : SpunTrees(h, D, k, E, n, r, r1, R, r2)
<1> PICK E : E = TurnedBelow(h, D, n, r, s)
  OBVIOUS
<1>1. r \in DOMAIN h /\ Opp(s) \in Sides
  BY ChildIs, OppSide
<1>2. IsHeap(k) /\ SameNodes(h, k) /\ Turned(h, k, n, r, s) /\ DOMAIN k = DOMAIN h /\ Places(k) = Places(h)
  BY DEF Spun, SameNodes
<1>3. Forest(k, E) /\ Ordered(k, E)
  BY <1>1, <1>2, ForestTurned, OrderedTurned
<1>4. E[r] = D[n] /\ \A m \in Places(h) : m # n /\ m # r => E[m] = D[m]
  BY <1>1, <1>2, TurnedChildren
<1>5. r1 # r /\ r2 # r
  <2>1. Parts(h, D, r2, r1)
    BY DEF Parts
  <2>2. r1 # Nil => r1 # r
    BY <1>1, RootsApart
  <2>3. r2 # Nil => r2 # r
    BY <2>1, <1>1, RootsApart
  <2> QED BY <2>2, <2>3
<1>6. r1 \in Places(h) /\ r2 \in Places(h) /\ r \in Places(h)
  BY <1>1 DEF Parts, Places
<1>7. E[R] = D[r1] /\ E[r2] = D[r2] /\ R \in Places(h)
  BY <1>4, <1>5, <1>6
<1>8. Parts(k, E, R, r2)
  BY <1>2, <1>6, <1>7 DEF Parts
<1> QED BY <1>3, <1>5, <1>7, <1>8 DEF SpunTrees

(* Where black is missing: if r is red, where it was; if not, it moves     *)
(* from below n to below r. *)
GapTurns(h, n, r, s, p, t, q, v) ==
  \/ h[r].red /\ p # r /\ ~(p = n /\ t = Opp(s)) /\ q = p /\ v = t
  \/ ~h[r].red /\ p = n /\ t = s /\ q = r /\ v = Opp(s)

SpunHeights(h, k, b, c, n, r, q, v) ==
  Balanced(k, c, q, v) /\ HeightsBut(h, b, c, {n, r}) /\ c[n] = b[r] /\ c[r] = b[n]

LEMMA SpunBalance ==
  ASSUME NEW h, NEW D, NEW b, IsHeap(h), Forest(h, D), NEW n \in DOMAIN h, NEW s \in Sides,
         NEW r, r = h[n][Opp(s)], r # Nil, NEW k, Spun(h, k, n, r, s),
         NEW p, NEW t, Balanced(h, b, p, t), NEW q, NEW v, GapTurns(h, n, r, s, p, t, q, v)
  PROVE  \E c : SpunHeights(h, k, b, c, n, r, q, v)
<1>1. r \in DOMAIN h /\ Opp(s) \in Sides /\ Opp(s) # s /\ n # r /\ Nil \notin DOMAIN h /\ \A u \in Sides : u = s \/ u = Opp(s)
  BY ChildIs, OppSide, ForestSides, Within DEF IsHeap
<1>2. DOMAIN k = DOMAIN h /\ Places(k) = Places(h) /\ Turned(h, k, n, r, s)
  BY DEF Spun, SameNodes
<1>3. /\ Weight(k, n) = Weight(h, r) /\ Weight(k, r) = Weight(h, n)
      /\ \A m \in DOMAIN h \ {n, r} : Weight(k, m) = Weight(h, m)
  BY DEF Spun, ColoursBut, Weight
<1>4. PICK c : c = [m \in Places(h) |-> IF m = n THEN b[r] ELSE IF m = r THEN b[n] ELSE b[m]]
  OBVIOUS
<1>5. /\ \A m \in Places(h) : c[m] \in Nat \ {0} /\ b[m] \in Nat \ {0}
      /\ \A m \in Places(h) \ {n, r} : c[m] = b[m]
      /\ c[n] = b[r] /\ c[r] = b[n] /\ n \in Places(h) /\ r \in Places(h)
  <2>1. n \in Places(h) /\ r \in Places(h) /\ \A m \in Places(h) : b[m] \in Nat \ {0}
    BY <1>1 DEF Places, Balanced
  <2> QED BY <2>1, <1>1, <1>4
<1>6. /\ Weight(h, n) \in {0, 1} /\ Weight(h, r) \in {0, 1}
      /\ Weight(h, r) = (IF h[r].red THEN 0 ELSE 1)
      /\ Gap(n, Opp(s), p, t) = 0 /\ Gap(r, s, p, t) = 0 /\ Gap(r, Opp(s), p, t) = 0
      /\ Gap(n, s, p, t) = Gap(n, s, q, v) + Weight(h, r)
      /\ Gap(n, Opp(s), q, v) = 0 /\ Gap(r, s, q, v) = 0 /\ Gap(r, Opp(s), q, v) = Weight(h, r)
      /\ \A m \in DOMAIN h \ {n, r} : \A u \in Sides : Gap(m, u, q, v) = Gap(m, u, p, t)
  BY <1>1 DEF GapTurns, Gap, Weight
<1>7. b[n] = b[r] + Weight(h, n) /\ b[n] \in Nat /\ b[r] \in Nat
  <2>1. b[n] = b[r] + Weight(h, n) + Gap(n, Opp(s), p, t) /\ b[n] \in Nat \ {0} /\ b[r] \in Nat \ {0}
    BY <1>1, BalancedStep
  <2> QED BY ONLY <2>1, <1>6
<1>8. \A u \in Sides : /\ h[n][s] # n /\ h[n][s] # r /\ h[r][u] # n /\ h[r][u] # r
                       /\ h[n][s] \in Places(h) /\ h[r][u] \in Places(h)
  <2> SUFFICES ASSUME NEW u \in Sides
               PROVE  /\ h[n][s] # n /\ h[n][s] # r /\ h[r][u] # n /\ h[r][u] # r
                      /\ h[n][s] \in Places(h) /\ h[r][u] \in Places(h)
    OBVIOUS
  <2>1. n \in D[n] /\ n \notin D[h[n][s]] /\ r \in D[r] /\ n \notin D[r] /\ D[h[r][u]] \subseteq D[r] /\ r \notin D[h[r][u]]
    BY <1>1, ForestSides
  <2>2. h[n][s] # r
    BY <1>1, OneParent
  <2> QED BY <2>1, <2>2, <1>1, ChildIs
<1>9. ASSUME NEW m \in DOMAIN h, NEW u \in Sides
      PROVE  c[m] = c[k[m][u]] + Weight(k, m) + Gap(m, u, q, v)
  <2>1. CASE m = n /\ u = s
    <3>1. /\ b[n] = b[h[n][s]] + Weight(h, n) + Gap(n, s, p, t)
          /\ b[h[n][s]] \in Nat \ {0}
      BY BalancedStep
    <3>2. c[n] = b[r] /\ c[k[n][s]] = b[h[n][s]] /\ Weight(k, n) = Weight(h, r)
      BY <1>2, <1>3, <1>5, <1>8 DEF Turned
    <3>3. Gap(n, s, q, v) \in {0, 1}
      BY DEF Gap
    <3>4. b[r] = b[h[n][s]] + Weight(h, r) + Gap(n, s, q, v)
      BY ONLY <3>1, <3>3, <1>6, <1>7
    <3>5. c[n] = c[k[n][s]] + Weight(k, n) + Gap(n, s, q, v)
      BY ONLY <3>2, <3>4
    <3> QED BY <2>1, <3>5
  <2>2. CASE m = n /\ u = Opp(s)
    <3>1. /\ b[r] = b[h[r][s]] + Weight(h, r) + Gap(r, s, p, t)
          /\ b[h[r][s]] \in Nat \ {0}
      BY <1>1, BalancedStep
    <3>2. c[n] = b[r] /\ c[k[n][Opp(s)]] = b[h[r][s]] /\ Weight(k, n) = Weight(h, r)
      BY <1>2, <1>3, <1>5, <1>8 DEF Turned
    <3>3. c[n] = c[k[n][Opp(s)]] + Weight(k, n) + Gap(n, Opp(s), q, v)
      BY ONLY <3>1, <3>2, <1>6
    <3> QED BY <2>2, <3>3
  <2>3. CASE m = r /\ u = s
    <3>1. c[r] = b[n] /\ c[k[r][s]] = b[r] /\ Weight(k, r) = Weight(h, n)
      BY <1>2, <1>3, <1>5 DEF Turned
    <3>2. c[r] = c[k[r][s]] + Weight(k, r) + Gap(r, s, q, v)
      BY ONLY <3>1, <1>6, <1>7
    <3> QED BY <2>3, <3>2
  <2>4. CASE m = r /\ u = Opp(s)
    <3>1. /\ b[r] = b[h[r][Opp(s)]] + Weight(h, r) + Gap(r, Opp(s), p, t)
          /\ b[h[r][Opp(s)]] \in Nat \ {0}
      BY <1>1, BalancedStep
    <3>2. c[r] = b[n] /\ c[k[r][Opp(s)]] = b[h[r][Opp(s)]] /\ Weight(k, r) = Weight(h, n)
      BY <1>1, <1>2, <1>3, <1>5, <1>8 DEF Turned
    <3>3. b[n] = b[h[r][Opp(s)]] + Weight(h, n) + Weight(h, r)
      BY ONLY <3>1, <1>6, <1>7
    <3>4. c[r] = c[k[r][Opp(s)]] + Weight(k, r) + Gap(r, Opp(s), q, v)
      BY ONLY <3>2, <3>3, <1>6
    <3> QED BY <2>4, <3>4
  <2>5. CASE m \notin {n, r}
    <3>1. /\ b[m] = b[h[m][u]] + Weight(h, m) + Gap(m, u, p, t)
      BY BalancedStep
    <3>2. c[m] = b[m] /\ Weight(k, m) = Weight(h, m) /\ Gap(m, u, q, v) = Gap(m, u, p, t)
      BY <2>5, <1>3, <1>5, <1>6 DEF Places
    <3>3. c[k[m][u]] = b[h[m][u]]
      <4>1. k[m][u] = IF h[m][u] = n THEN r ELSE h[m][u]
        BY <2>5, <1>2 DEF Turned
      <4>2. h[m][u] \in Places(h) /\ h[m][u] # r
        BY <2>5, <1>1, ChildIs, OneParent
      <4> QED BY <4>1, <4>2, <1>5
    <3> QED BY ONLY <3>1, <3>2, <3>3
  <2> QED BY <2>1, <2>2, <2>3, <2>4, <2>5, <1>1
<1>10. Balanced(k, c, q, v)
  <2>1. DOMAIN c = Places(h) /\ c = [m \in Places(h) |-> c[m]]
    BY <1>4
  <2>2. c[Nil] = 1
    BY <1>1, <1>5 DEF Places, Balanced
  <2> QED BY <2>1, <2>2, <1>2, <1>5, <1>9, BalancedWhen
<1> QED BY <1>5, <1>10 DEF SpunHeights, HeightsBut

(* Two red nodes touch after the rotation only if they, or those in their  *)
(* places, did before, or at the new children. *)
LEMMA SpunReds ==
  ASSUME NEW h, NEW D, IsHeap(h), Forest(h, D), NEW n \in DOMAIN h, NEW s \in Sides,
         NEW r, r = h[n][Opp(s)], r # Nil, NEW k, Spun(h, k, n, r, s),
         NEW m \in DOMAIN h, NEW u \in Sides, k[m].red, Red(k, k[m][u])
  PROVE  \/ m \notin {n, r} /\ h[m].red /\ Red(h, h[m][u])
         \/ m = n /\ u = s /\ h[r].red /\ Red(h, h[n][s])
         \/ m = n /\ u = Opp(s) /\ h[r].red /\ Red(h, h[r][s])
         \/ m = r /\ u = s /\ h[n].red /\ h[r].red
         \/ m = r /\ u = Opp(s) /\ h[n].red /\ Red(h, h[r][Opp(s)])
<1>1. r \in DOMAIN h /\ Opp(s) \in Sides /\ Opp(s) # s /\ n # r /\ Nil \notin DOMAIN h /\ (u = s \/ u = Opp(s))
  BY ChildIs, OppSide, ForestSides, Within DEF IsHeap
<1>2. DOMAIN k = DOMAIN h /\ Places(k) = Places(h) /\ Turned(h, k, n, r, s)
  BY DEF Spun, SameNodes
<1>3. /\ (k[n].red <=> h[r].red) /\ (k[r].red <=> h[n].red)
      /\ \A j \in DOMAIN h \ {n, r} : k[j].red <=> h[j].red
  BY DEF Spun, ColoursBut
<1>4. \A j \in Places(h) \ {n, r} : Red(k, j) <=> Red(h, j)
  BY <1>3 DEF Red, Places
<1>8. \A w \in Sides : /\ h[n][s] # n /\ h[n][s] # r /\ h[r][w] # n /\ h[r][w] # r
                       /\ h[n][s] \in Places(h) /\ h[r][w] \in Places(h)
  <2> SUFFICES ASSUME NEW w \in Sides
               PROVE  /\ h[n][s] # n /\ h[n][s] # r /\ h[r][w] # n /\ h[r][w] # r
                      /\ h[n][s] \in Places(h) /\ h[r][w] \in Places(h)
    OBVIOUS
  <2>1. n \in D[n] /\ n \notin D[h[n][s]] /\ r \in D[r] /\ n \notin D[r] /\ D[h[r][w]] \subseteq D[r] /\ r \notin D[h[r][w]]
    BY <1>1, ForestSides
  <2>2. h[n][s] # r
    BY <1>1, OneParent
  <2> QED BY <2>1, <2>2, <1>1, ChildIs
<1>5. CASE m = n
  <2>1. h[r].red
    BY <1>3, <1>5
  <2>2. u = s => Red(h, h[n][s])
    BY <1>2, <1>4, <1>5, <1>8 DEF Turned
  <2>3. u = Opp(s) => Red(h, h[r][s])
    BY <1>2, <1>4, <1>5, <1>8 DEF Turned
  <2> QED BY <2>1, <2>2, <2>3, <1>1, <1>5
<1>6. CASE m = r
  <2>1. h[n].red
    BY <1>3, <1>6
  <2>2. u = s => h[r].red
    BY <1>1, <1>2, <1>3, <1>6 DEF Turned, Red
  <2>3. u = Opp(s) => Red(h, h[r][Opp(s)])
    BY <1>1, <1>2, <1>4, <1>6, <1>8 DEF Turned
  <2> QED BY <2>1, <2>2, <2>3, <1>1, <1>6
<1>7. CASE m \notin {n, r}
  <2>1. h[m].red
    BY <1>3, <1>7
  <2>2. k[m][u] = IF h[m][u] = n THEN r ELSE h[m][u]
    BY <1>2, <1>7 DEF Turned
  <2>3. h[m][u] \in Places(h) /\ h[m][u] # r
    BY <1>1, <1>7, ChildIs, OneParent
  <2>4. h[m][u] = n => Red(h, h[m][u])
    BY <2>2, <1>1, <1>3 DEF Red
  <2>5. h[m][u] # n => Red(h, h[m][u])
    BY <2>2, <2>3, <1>4
  <2> QED BY <2>1, <2>4, <2>5, <1>7
<1> QED BY <1>5, <1>6, <1>7

(* A rotation, and the colours exchanged by painting. *)
LEMMA SpunPainted ==
  ASSUME NEW h, NEW D, IsHeap(h), Forest(h, D), NEW n \in DOMAIN h, NEW s \in Sides,
         NEW r, r = h[n][Opp(s)], r # Nil, NEW p, Parent(h, n, p),
         NEW c \in BOOLEAN, NEW d \in BOOLEAN, c <=> h[n].red, d <=> h[r].red,
         NEW g, g = Rotate(h, n, p, s)
  PROVE  Spun(h, Paint(Paint(g, r, c), n, d), n, r, s) /\ Spun(h, Paint(Paint(g, n, d), r, c), n, r, s)
<1>1. Kindred(h, g) /\ r \in DOMAIN h /\ r # n
  BY RotateIs
<1>2. IsHeap(g) /\ SameNodes(h, g) /\ DOMAIN g = DOMAIN h /\ \A m \in DOMAIN h : g[m].red = h[m].red
  BY <1>1 DEF Kindred, SameNodes
<1> SUFFICES ASSUME NEW a \in {n, r}, NEW e \in {n, r}, a # e, NEW i \in BOOLEAN, NEW j \in BOOLEAN,
                    i <=> (IF a = r THEN c ELSE d), j <=> (IF e = r THEN c ELSE d)
             PROVE  Spun(h, Paint(Paint(g, a, i), e, j), n, r, s)
  BY <1>1
<1> PICK l : l = Paint(g, a, i)
  OBVIOUS
<1> PICK k : k = Paint(l, e, j)
  OBVIOUS
<1>3. /\ IsHeap(l) /\ SameNodes(g, l) /\ Places(l) = Places(g)
      /\ \A m \in DOMAIN g : l[m].red = IF m = a THEN i ELSE g[m].red
      /\ \A m \in DOMAIN g : \A t \in Sides : l[m][t] = g[m][t]
  <2>1. a \in DOMAIN g
    BY <1>1, <1>2
  <2> QED BY <2>1, <1>2, PaintIs
<1>4. /\ IsHeap(k) /\ SameNodes(l, k) /\ Places(k) = Places(l)
      /\ \A m \in DOMAIN l : k[m].red = IF m = e THEN j ELSE l[m].red
      /\ \A m \in DOMAIN l : \A t \in Sides : k[m][t] = l[m][t]
  <2>1. e \in DOMAIN l
    BY <1>1, <1>2, <1>3 DEF SameNodes
  <2> QED BY <2>1, <1>3, PaintIs
<1>5. DOMAIN l = DOMAIN h /\ DOMAIN k = DOMAIN h
  BY <1>2, <1>3, <1>4 DEF SameNodes
<1>6. SameShape(g, k)
  BY <1>2, <1>3, <1>4, <1>5 DEF SameShape, SameNodes
<1>7. \A m \in DOMAIN h : k[m].red = IF m = e THEN j ELSE IF m = a THEN i ELSE h[m].red
  BY <1>2, <1>3, <1>4, <1>5
<1>8. ColoursBut(h, k, {n, r}) /\ (k[n].red <=> h[r].red) /\ (k[r].red <=> h[n].red)
  <2>1. {n, r} = {a, e}
    BY <1>1
  <2>2. ColoursBut(h, k, {n, r})
    BY <1>7, <2>1 DEF ColoursBut
  <2>3. k[e].red = j /\ k[a].red = i
    BY <1>1, <1>7
  <2>4. CASE a = r /\ e = n
    BY <2>2, <2>3, <2>4, <1>1
  <2>5. CASE a = n /\ e = r
    BY <2>2, <2>3, <2>5, <1>1
  <2> QED BY <2>4, <2>5
<1> QED BY <1>6, <1>8, SpunIs

(* The way to n leads to r after the rotation, and avoids both. *)
TurnedPath(h, k, path, R, n, r) ==
  /\ OnPath(k, path, R, r)
  /\ \A i \in 1..Len(path) : path[i] \in DOMAIN h /\ path[i] \notin {n, r}

LEMMA SpunPath ==
  ASSUME NEW h, NEW D, IsHeap(h), Forest(h, D), NEW n \in DOMAIN h, NEW s \in Sides,
         NEW r, r = h[n][Opp(s)], r # Nil, NEW k, Spun(h, k, n, r, s),
         NEW r1 \in Places(h), NEW path, OnPath(h, path, r1, n), path # <<>> => n # r1,
         NEW R, R = IF n = r1 THEN r ELSE r1
  PROVE  TurnedPath(h, k, path, R, n, r)
<1>1. Ancestral(h, D, path, r1, n)
  BY PathFacts
<1>2. r \in D[n]
  <2>1. Opp(s) \in Sides
    BY OppSide
  <2> QED BY <2>1, ForestSides, Within, ChildIs
<1>3. ASSUME NEW i \in 1..Len(path) PROVE path[i] \in DOMAIN h /\ path[i] \notin {n, r}
  BY <1>1, <1>2 DEF Ancestral
<1>4. Turned(h, k, n, r, s) /\ DOMAIN k = DOMAIN h
  BY DEF Spun, SameNodes
<1>5. ASSUME NEW i \in 1..Len(path), NEW t \in Sides
      PROVE  k[path[i]][t] = IF h[path[i]][t] = n THEN r ELSE h[path[i]][t]
  BY <1>3, <1>4 DEF Turned
<1>6. ASSUME NEW i \in 1..Len(path)
      PROVE  \E t \in Sides : k[path[i]][t] = IF i = Len(path) THEN r ELSE path[i + 1]
  <2>1. PICK t \in Sides : h[path[i]][t] = IF i = Len(path) THEN n ELSE path[i + 1]
    BY DEF OnPath
  <2>2. CASE i = Len(path)
    BY <2>1, <2>2, <1>5
  <2>3. CASE i # Len(path)
    <3>1. i + 1 \in 1..Len(path)
      BY <2>3, <1>1 DEF Ancestral
    <3>2. path[i + 1] # n
      BY <3>1, <1>3
    <3> QED BY <3>2, <2>1, <2>3, <1>5
  <2> QED BY <2>2, <2>3
<1>7. path \in Seq(DOMAIN k) /\ IF path = <<>> THEN r = R ELSE path[1] = R
  BY <1>4 DEF OnPath
<1>8. \A i \in 1..Len(path) : \E t \in Sides : k[path[i]][t] = IF i = Len(path) THEN r ELSE path[i + 1]
  BY <1>6
<1>10. OnPath(k, path, R, r)
  BY <1>7, <1>8 DEF OnPath
<1> QED BY <1>3, <1>10 DEF TurnedPath

LEMMA PoppedIs ==
  ASSUME NEW S, NEW path \in Seq(S), path # <<>>
  PROVE  /\ Len(path) \in Nat \ {0} /\ Popped(path) \in Seq(S) /\ Len(Popped(path)) = Len(path) - 1
         /\ \A i \in 1..(Len(path) - 1) : Popped(path)[i] = path[i]
<1>1. Len(path) \in Nat \ {0}
  OBVIOUS
<1>2. /\ Popped(path) \in Seq(S) /\ Len(Popped(path)) = Len(path) - 1
      /\ \A i \in 1..(Len(path) - 1) : Popped(path)[i] = path[i]
  <2> DEFINE n == Len(path) - 1
  <2>1. n \in Nat /\ 1 \in Int /\ n \in Int /\ \A i \in 1..n : path[i] \in S
    BY <1>1
  <2>2. Popped(path) = SubSeq(path, 1, n)
    BY DEF Popped
  <2> HIDE DEF n
  <2>3. /\ SubSeq(path, 1, n) \in Seq(S) /\ Len(SubSeq(path, 1, n)) = IF 1 <= n THEN n - 1 + 1 ELSE 0
        /\ \A i \in 1..(n - 1 + 1) : SubSeq(path, 1, n)[i] = path[1 + i - 1]
    BY <2>1, SubSeqProperties
  <2>4. n - 1 + 1 = n /\ (\A i \in 1..n : 1 + i - 1 = i) /\ (~(1 <= n) => n = 0)
    BY <2>1
  <2> QED BY <2>2, <2>3, <2>4 DEF n
<1> QED BY <1>1, <1>2

LEMMA Replaced ==
  ASSUME NEW S, NEW path \in Seq(S), path # <<>>, NEW w \in S, NEW p \in S
  PROVE  [path EXCEPT ![Len(path)] = w] \o <<p>> = Append(Append(Popped(path), w), p)
<1>1. Len(path) \in Nat \ {0}
  OBVIOUS
<1>2. /\ Popped(path) \in Seq(S) /\ Len(Popped(path)) = Len(path) - 1
      /\ \A i \in 1..(Len(path) - 1) : Popped(path)[i] = path[i]
  BY PoppedIs
<1>3. [path EXCEPT ![Len(path)] = w] = Append(Popped(path), w)
  <2>1. [path EXCEPT ![Len(path)] = w] \in Seq(S) /\ Len([path EXCEPT ![Len(path)] = w]) = Len(path)
    BY <1>1
  <2>2. Append(Popped(path), w) \in Seq(S) /\ Len(Append(Popped(path), w)) = Len(path)
    <3>1. /\ Append(Popped(path), w) \in Seq(S)
          /\ Len(Append(Popped(path), w)) = Len(Popped(path)) + 1
      BY <1>2
    <3> QED BY <3>1, <1>1, <1>2
  <2>3. ASSUME NEW i \in 1..Len(path)
        PROVE  [path EXCEPT ![Len(path)] = w][i] = Append(Popped(path), w)[i]
    <3>1. CASE i = Len(path)
      <4>1. Len(path) = Len(Popped(path)) + 1
        BY <1>1, <1>2
      <4>2. Append(Popped(path), w)[Len(Popped(path)) + 1] = w
        BY <1>2
      <4>3. [path EXCEPT ![Len(path)] = w][Len(path)] = w
        BY <1>1
      <4> QED BY <3>1, <4>1, <4>2, <4>3
    <3>2. CASE i # Len(path)
      <4>1. i \in 1..(Len(path) - 1) /\ i \in 1..Len(Popped(path))
        BY <1>1, <1>2, <3>2
      <4>2. Append(Popped(path), w)[i] = Popped(path)[i]
        BY <4>1, <1>2
      <4> QED BY <4>1, <4>2, <1>2, <3>2
    <3> QED BY <3>1, <3>2
  <2>4. \A i \in 1..Len(path) : [path EXCEPT ![Len(path)] = w][i] = Append(Popped(path), w)[i]
    BY <2>3
  <2> QED BY ONLY <2>1, <2>2, <2>4, SeqEqual
<1>4. Append(Popped(path), w) \in Seq(S)
  BY <1>2
<1>5. Append(Append(Popped(path), w), p) = Append(Popped(path), w) \o <<p>>
  BY <1>4, AppendIsConcat
<1> QED BY <1>3, <1>5

(* The stack after the rotation: r comes between the ancestors and n. *)
Lifted(path, r, n) == [path EXCEPT ![Len(path)] = r] \o <<n>>

PathLifted(k, path, q, R, at, r, n) ==
  /\ OnPath(k, q, R, at) /\ Len(q) = Len(path) + 1 /\ q[Len(path)] = r /\ q[Len(path) + 1] = n
  /\ \A i \in 1..(Len(path) - 1) : q[i] = Popped(path)[i]

LEMMA LiftedPath ==
  ASSUME NEW h, NEW D, NEW k, NEW n \in DOMAIN h, NEW r \in DOMAIN h, NEW s \in Sides,
         Spun(h, k, n, r, s), NEW path \in Seq(DOMAIN h), path # <<>>, NEW R,
         TurnedPath(h, k, Popped(path), R, n, r), NEW at, at = h[n][s],
         NEW q, q = Lifted(path, r, n)
  PROVE  PathLifted(k, path, q, R, at, r, n)
<1>1. IsHeap(k) /\ DOMAIN k = DOMAIN h /\ k[r][s] = n /\ k[n][s] = h[n][s]
  BY DEF Spun, SameNodes, Turned
<1>2. q = Append(Append(Popped(path), r), n)
  BY Replaced DEF Lifted
<1> PICK l : l = Popped(path)
  OBVIOUS
<1>3. OnPath(k, l, R, r)
  BY DEF TurnedPath
<1>4. OnPath(k, Append(l, r), R, n)
  BY <1>1, <1>3, PushPath
<1>5. OnPath(k, Append(Append(l, r), n), R, at)
  BY <1>1, <1>4, PushPath
<1>6. /\ l \in Seq(DOMAIN h) /\ Len(path) \in Nat \ {0} /\ Len(l) = Len(path) - 1
  <2>1. path \in Seq(DOMAIN h) /\ path # <<>>
    OBVIOUS
  <2> QED BY ONLY <2>1, l = Popped(path), PoppedIs
<1>7. /\ Append(l, r) \in Seq(DOMAIN h) /\ Len(Append(l, r)) = Len(path) /\ Append(l, r)[Len(path)] = r
      /\ \A i \in 1..Len(l) : Append(l, r)[i] = l[i]
  <2>1. Len(l) + 1 = Len(path)
    BY <1>6
  <2> QED BY <1>6, <2>1, AppendProperties
<1>8. /\ Len(q) = Len(path) + 1 /\ q[Len(path) + 1] = n
      /\ \A i \in 1..Len(path) : q[i] = Append(l, r)[i]
  <2> PICK m : m = Append(l, r)
    OBVIOUS
  <2>1. m \in Seq(DOMAIN h) /\ Len(m) = Len(path) /\ n \in DOMAIN h /\ q = Append(m, n)
    BY <1>2, <1>7
  <2> QED BY ONLY m = Append(l, r), <2>1, AppendProperties
<1>9. q[Len(path)] = r
  BY <1>6, <1>7, <1>8
<1>10. \A i \in 1..(Len(path) - 1) : q[i] = l[i]
  BY <1>6, <1>7, <1>8
<1> QED BY <1>2, <1>5, <1>8, <1>9, <1>10 DEF PathLifted

(* The root that is left by a rotation is black, and so is the other one. *)
NewRoot(n, r, root) == IF n = root THEN r ELSE root
WithRoot(t, r) == [t EXCEPT !.root = r]

Rerooted(h, k, b, c, t, u, v) ==
  /\ v \in Trees(k) /\ v.bh = t.bh /\ v.ssize = t.ssize /\ u \in Trees(k)
  /\ c[v.root] = b[t.root] /\ c[u.root] = b[u.root]
  /\ (Red(k, v.root) => Red(h, t.root)) /\ (Red(k, u.root) => Red(h, u.root))

Exchanged(h, k, b, c, n, r) ==
  /\ Places(k) = Places(h) /\ ColoursBut(h, k, {n, r}) /\ (k[r].red <=> h[n].red)
  /\ HeightsBut(h, b, c, {n, r}) /\ c[r] = b[n]

LEMMA SpunRoots ==
  ASSUME NEW h, NEW k, NEW b, NEW c, IsHeap(h), NEW n \in DOMAIN h, NEW r \in DOMAIN h,
         Exchanged(h, k, b, c, n, r), NEW t \in Trees(h), NEW u \in Trees(h),
         t.root # r, u.root # n, u.root # r, NEW v, v = WithRoot(t, NewRoot(n, r, t.root))
  PROVE  Rerooted(h, k, b, c, t, u, v)
<1> USE DEF NewRoot
<1> DEFINE r1 == t.root
           r2 == u.root
           R == NewRoot(n, r, r1)
<1>1. Places(k) = Places(h) /\ ColoursBut(h, k, {n, r}) /\ (k[r].red <=> h[n].red)
  BY DEF Exchanged
<1>2. r1 # r /\ r2 # n /\ r2 # r /\ r1 \in Places(h) /\ r2 \in Places(h)
  BY DEF Trees
<1>3. R \in Places(k) /\ Trees(k) = Trees(h)
  BY <1>1, <1>2 DEF Places, Trees
<1>4. v \in Trees(k) /\ v.root = R /\ v.bh = t.bh /\ v.ssize = t.ssize
  BY t \in Trees(h), v = WithRoot(t, R), <1>3 DEF Trees, WithRoot
<1>5. c[R] = b[r1] /\ c[r2] = b[r2]
  BY <1>2 DEF HeightsBut, Exchanged
<1>6. n # Nil
  BY DEF IsHeap
<1>7. Red(k, r2) => Red(h, r2)
  BY <1>1, <1>2 DEF Red, ColoursBut, Places
<1>8. Red(k, R) => Red(h, r1)
  <2>1. CASE n = r1
    BY <2>1, <1>1, <1>6 DEF Red
  <2>2. CASE n # r1
    BY <2>2, <1>1, <1>2 DEF Red, ColoursBut, Places
  <2> QED BY <2>1, <2>2
<1> QED BY <1>3, <1>4, <1>5, <1>7, <1>8 DEF Rerooted

LEMMA DeleteLiftKeeps ==
  ASSUME NEW D, NEW b, Inv(D, b), DeleteLift
  PROVE  \E E, c : Inv(E, c)' /\ Conserves(D, E)
<1> DEFINE p == Up(0)
           w == Sibling
           s == Side
           r1 == tree.root
           r2 == spare.root
           R == IF p = r1 THEN w ELSE r1
<1>1. /\ Looping /\ DeleteFixupOK /\ NephewsBlack /\ heap[w].red
      /\ heap' = Paint(Paint(Rotate(heap, p, Up(1), s), w, FALSE), p, TRUE)
      /\ tree' = [tree EXCEPT !.root = RootAfter(heap, @, p, s)]
      /\ stack' = [stack EXCEPT ![Depth] = w] \o <<p>>
      /\ UNCHANGED <<user, spare, pc, op, x, node, y, bh, result>>
  BY DEF DeleteLift
<1>2. /\ pc = "delete_fixup" /\ Fixing /\ Depth > 0 /\ ~Red(heap, node) /\ node # r1
      /\ p \in DOMAIN heap /\ s \in Sides /\ heap[p][s] = node
      /\ w = heap[p][Opp(s)] /\ w \in DOMAIN heap /\ Hole = p
      /\ w # r1 /\ w # r2 /\ p # r2 /\ w # node /\ w # p /\ node # p
  BY <1>1, FindsSibling
<1>3. /\ IsHeap(heap) /\ Forest(heap, D) /\ Ordered(heap, D) /\ RedsApart(heap, node, node)
      /\ Balanced(heap, b, p, s)
      /\ tree \in Trees(heap) /\ spare \in Trees(heap) /\ Parts(heap, D, r1, r2)
      /\ b[r2] = spare.bh + 1 /\ (Red(heap, r1) => r1 = node)
      /\ ~Red(heap, r2) /\ b[r1] \in Nat \ {0}
  BY <1>2, WhenDeleting
<1>4. b[r1] = tree.bh + 1
  BY <1>2, <1>3, WhenDeleting
<1>5. /\ OnPath(heap, stack, r1, node) /\ Short(heap, b, stack, tree.bh) /\ 2 * tree.bh < tree.ssize
      /\ Depth = Len(stack) /\ Depth \in Nat
  BY <1>2, WhenFixing
<1>6. /\ OnPath(heap, Popped(stack), r1, p) /\ Len(Popped(stack)) = Depth - 1 /\ r1 # Nil
      /\ (p = r1 <=> Depth = 1) /\ Parent(heap, p, Up(1)) /\ Up(1) = Top(Popped(stack)) /\ stack[Depth] = p
      /\ \A i \in 1..(Depth - 1) : Popped(stack)[i] = stack[i]
  BY <1>2, Parents
<1>7. node \in Places(heap) /\ r1 \in Places(heap) /\ r2 \in Places(heap)
  BY <1>2, <1>3, WhenFixing DEF Trees
<1>8. ~heap[p].red
  BY <1>1, <1>2, <1>3 DEF DeleteFixupOK, IsHeap, Red
<1>9. tree' = WithRoot(tree, R)
  BY <1>1, <1>2 DEF RootAfter, WithRoot
<1> PICK k : k = heap'
  OBVIOUS
<1> HIDE DEF p, w, s, r1, r2, R
<1>10. Spun(heap, k, p, w, s)
  <2> PICK q : q = Up(1)
    OBVIOUS
  <2> PICK g : g = Rotate(heap, p, q, s)
    OBVIOUS
  <2>1. k = Paint(Paint(g, w, FALSE), p, TRUE)
    BY <1>1
  <2>2. Parent(heap, p, q) /\ w # Nil /\ (FALSE <=> heap[p].red) /\ (TRUE <=> heap[w].red)
    BY <1>1, <1>2, <1>3, <1>6, <1>8 DEF IsHeap
  <2>3. FALSE \in BOOLEAN /\ TRUE \in BOOLEAN
    OBVIOUS
  <2> QED BY ONLY <2>1, <2>2, <2>3, g = Rotate(heap, p, q, s), <1>2, <1>3, SpunPainted
<1>11. PICK E : SpunTrees(heap, D, k, E, p, w, r1, R, r2)
  <2>1. w # Nil /\ R = IF p = r1 THEN w ELSE r1
    BY <1>2, <1>3 DEF IsHeap, R
  <2> QED BY ONLY <2>1, <1>2, <1>3, <1>10, SpunBelow
<1>12. PICK c : SpunHeights(heap, k, b, c, p, w, p, s)
  <2>1. w # Nil /\ GapTurns(heap, p, w, s, p, s, p, s)
    BY <1>1, <1>2, <1>3, OppSide DEF IsHeap, GapTurns
  <2> QED BY ONLY <2>1, <1>2, <1>3, <1>10, SpunBalance
<1>13. Balanced(k, c, p, s) /\ HeightsBut(heap, b, c, {p, w}) /\ c[p] = b[w] /\ c[w] = b[p]
  BY <1>12 DEF SpunHeights
<1>14. /\ IsHeap(k) /\ SameNodes(heap, k) /\ DOMAIN k = DOMAIN heap /\ Places(k) = Places(heap)
       /\ Turned(heap, k, p, w, s) /\ ColoursBut(heap, k, {p, w}) /\ k[p].red /\ ~k[w].red
  BY <1>1, <1>8, <1>10 DEF Spun, SameNodes
<1>15. /\ tree' \in Trees(k) /\ tree'.root = R /\ tree'.bh = tree.bh /\ tree'.ssize = tree.ssize
       /\ spare \in Trees(k) /\ c[R] = b[r1] /\ c[r2] = b[r2] /\ ~Red(k, R) /\ ~Red(k, r2)
  <2>1. R = (IF p = r1 THEN w ELSE r1) /\ tree.root = r1 /\ spare.root = r2
    BY DEF R, r1, r2
  <2>2. ~Red(heap, r1) /\ ~Red(heap, r2)
    BY <1>2, <1>3
  <2> PICK v : v = tree'
    OBVIOUS
  <2>3. Rerooted(heap, k, b, c, tree, spare, v)
    <3>1. v = WithRoot(tree, NewRoot(p, w, tree.root))
      BY <2>1, <1>9 DEF NewRoot
    <3>2. IsHeap(heap) /\ p \in DOMAIN heap /\ w \in DOMAIN heap /\ Exchanged(heap, k, b, c, p, w)
          /\ tree \in Trees(heap) /\ spare \in Trees(heap)
      BY <1>2, <1>3, <1>10, <1>13 DEF Spun, Exchanged
    <3>3. tree.root # w /\ spare.root # p /\ spare.root # w
      BY <1>2 DEF r1, r2
    <3> QED BY ONLY <3>1, <3>2, <3>3, SpunRoots
  <2>4. v.root = R
    BY <1>3, <1>9 DEF Trees, WithRoot
  <2> QED BY <2>1, <2>2, <2>3, <2>4 DEF Rerooted
<1>16. RedsApart(k, node, node)
  <2> SUFFICES ASSUME NEW m \in DOMAIN heap, NEW u \in Sides, k[m].red, Red(k, k[m][u]) PROVE FALSE
    BY <1>14 DEF RedsApart
  <2>1. \/ m \notin {p, w} /\ heap[m].red /\ Red(heap, heap[m][u])
        \/ m = p /\ u = s /\ heap[w].red /\ Red(heap, heap[p][s])
        \/ m = p /\ u = Opp(s) /\ heap[w].red /\ Red(heap, heap[w][s])
        \/ heap[p].red
    <3>1. w # Nil
      BY <1>2, <1>3 DEF IsHeap
    <3>2. \/ m \notin {p, w} /\ heap[m].red /\ Red(heap, heap[m][u])
          \/ m = p /\ u = s /\ heap[w].red /\ Red(heap, heap[p][s])
          \/ m = p /\ u = Opp(s) /\ heap[w].red /\ Red(heap, heap[w][s])
          \/ m = w /\ u = s /\ heap[p].red /\ heap[w].red
          \/ m = w /\ u = Opp(s) /\ heap[p].red /\ Red(heap, heap[w][Opp(s)])
      BY ONLY <3>1, <1>2, <1>3, <1>10, m \in DOMAIN heap, u \in Sides, k[m].red, Red(k, k[m][u]), SpunReds
    <3> QED BY <3>2
  <2>2. ~Red(heap, heap[w][s])
    <3>1. heap[w]["left"] = heap[w].left /\ heap[w]["right"] = heap[w].right
      BY <1>2, <1>3, FieldsAreSides
    <3> QED BY <3>1, <1>1, <1>2 DEF NephewsBlack, Nephew, Sides, w
  <2>3. CASE m \notin {p, w} /\ heap[m].red /\ Red(heap, heap[m][u])
    <3>1. heap[m][u] = node \/ m = node
      BY <2>3, <1>3 DEF RedsApart
    <3>2. ~Red(heap, node) /\ Nil \notin DOMAIN heap
      BY <1>2, <1>3 DEF IsHeap
    <3> QED BY <2>3, <3>1, <3>2 DEF Red
  <2> QED BY <2>1, <2>2, <2>3, <1>2, <1>8
<1>17. /\ OnPath(k, stack', R, node) /\ Len(stack') = Depth + 1 /\ stack'[Depth] = w /\ stack'[Depth + 1] = p
       /\ \A i \in 1..(Depth - 1) : stack'[i] = stack[i] /\ stack[i] \in DOMAIN heap /\ stack[i] \notin {p, w}
  <2>1. stack \in Seq(DOMAIN heap) /\ stack # <<>>
    BY <1>2, <1>5 DEF OnPath
  <2>2. TurnedPath(heap, k, Popped(stack), R, p, w)
    <3>1. Popped(stack) # <<>> => p # r1
      <4>1. Len(<<>>) = 0
        OBVIOUS
      <4> QED BY <4>1, <1>5, <1>6
    <3>2. w # Nil /\ R = IF p = r1 THEN w ELSE r1
      BY <1>2, <1>3 DEF IsHeap, R
    <3> QED BY ONLY <3>1, <3>2, <1>2, <1>3, <1>6, <1>7, <1>10, SpunPath
  <2>3. node = heap[p][s] /\ stack' = [stack EXCEPT ![Len(stack)] = w] \o <<p>>
    BY <1>1, <1>2, <1>5
  <2> PICK l : l = stack'
    OBVIOUS
  <2>4. PathLifted(k, stack, l, R, node, w, p)
    <3>1. l = Lifted(stack, w, p)
      BY <2>3 DEF Lifted
    <3>2. w \in DOMAIN heap /\ p \in DOMAIN heap /\ s \in Sides
      BY <1>2
    <3>3. node = heap[p][s]
      BY <1>2
    <3> QED BY ONLY <3>1, <3>2, <3>3, <2>1, <2>2, <1>10, LiftedPath
  <2>5. \A i \in 1..(Depth - 1) : l[i] = stack[i] /\ stack[i] \in DOMAIN heap /\ stack[i] \notin {p, w}
    BY <2>2, <2>4, <1>5, <1>6 DEF TurnedPath, PathLifted
  <2> QED BY <2>4, <2>5, <1>5 DEF PathLifted
<1>18. Depth' = Depth + 1 /\ Up(0)' = p /\ Depth' > 0
  <2>1. Depth' = Depth + 1
    BY <1>17 DEF Depth
  <2>2. Depth' > 0
    BY <2>1, <1>5
  <2>3. Up(0)' = stack'[Depth']
    BY <2>1, <2>2, <1>5 DEF Up
  <2> QED BY <2>1, <2>2, <2>3, <1>17
<1>19. heap[w][s] # node
  <2>1. /\ b[p] = b[heap[p][s]] + Weight(heap, p) + Gap(p, s, p, s)
        /\ b[p] = b[heap[p][Opp(s)]] + Weight(heap, p) + Gap(p, Opp(s), p, s)
        /\ b[w] = b[heap[w][s]] + Weight(heap, w) + Gap(w, s, p, s)
        /\ {b[p], b[heap[p][s]], b[w], b[heap[w][s]]} \subseteq Nat
    <3>1. Opp(s) \in Sides
      BY <1>2, OppSide
    <3> QED BY <3>1, <1>2, <1>3, BalancedStep
  <2>2. Weight(heap, p) = 1 /\ Weight(heap, w) = 0 /\ Gap(p, s, p, s) = 1 /\ Gap(p, Opp(s), p, s) = 0
        /\ Gap(w, s, p, s) = 0
    BY <1>1, <1>2, <1>8, OppSide DEF Weight, Gap
  <2>3. b[p] = b[node] + 1 + 1 /\ b[p] = b[w] + 1 + 0 /\ b[w] = b[heap[w][s]] + 0 + 0
    BY <2>1, <2>2, <1>2
  <2>4. b[heap[w][s]] # b[node]
    BY ONLY <2>1, <2>3, <1>2
  <2> QED BY <2>4
<1>20. Side' = s
  <2>1. k[p][s] = node /\ k[p][Opp(s)] # node
    BY <1>2, <1>14, <1>19 DEF Turned
  <2>2. k[p]["left"] = k[p].left /\ k[p]["right"] = k[p].right
    BY <1>2, <1>14, FieldsAreSides
  <2>3. Side' = IF k[p].left = node THEN "left" ELSE "right"
    BY <1>1, <1>18 DEF Side
  <2> QED BY <2>1, <2>2, <2>3, <1>2 DEF Sides, Opp
<1>21. Hole' = p /\ Removed' = node /\ MissingAtRoot' = 0 /\ node' = node
  <2>1. pc' = "delete_fixup" /\ Depth' # 0 /\ node' = node
    BY <1>1, <1>2, <1>18
  <2> QED BY <2>1, <1>18 DEF Hole, Removed, MissingAtRoot
<1>22. Forest(k, E) /\ Ordered(k, E) /\ Parts(k, E, R, r2) /\ E[R] = D[r1] /\ E[r2] = D[r2]
  BY <1>11 DEF SpunTrees
<1>23. Sound(heap', E, c, Hole', Side', node', Removed')
  BY <1>13, <1>14, <1>16, <1>20, <1>21, <1>22 DEF Sound
<1>24. Rooted(heap', E, c, tree', spare, node', MissingAtRoot')
  <2>1. c[R] + 0 = tree'.bh + 1 /\ c[r2] = spare.bh + 1
    BY <1>3, <1>4, <1>15
  <2> QED BY <2>1, <1>15, <1>21, <1>22 DEF Rooted, r2
<1>25. Short(heap', c, stack', tree'.bh)
  <2> SUFFICES ASSUME NEW i \in 1..(Depth + 1)
               PROVE  i <= 2 * (tree.bh + 1 - c[stack'[i]]) + (IF k[stack'[i]].red THEN 0 ELSE 1)
    BY <1>15, <1>17 DEF Short
  <2>1. \A j \in 1..Depth : j <= 2 * (tree.bh + 1 - b[stack[j]]) + (IF heap[stack[j]].red THEN 0 ELSE 1)
    BY <1>5 DEF Short
  <2>2. Depth \in Nat \ {0} /\ tree.bh \in Nat
    BY <1>2, <1>3, <1>5 DEF Trees
  <2>3. CASE i \in 1..(Depth - 1)
    <3>1. /\ stack'[i] = stack[i] /\ c[stack[i]] = b[stack[i]] /\ (k[stack[i]].red <=> heap[stack[i]].red)
          /\ i \in 1..Depth
      BY <2>2, <2>3, <1>13, <1>14, <1>17 DEF HeightsBut, ColoursBut, Places
    <3> QED BY <2>1, <3>1
  <2>4. Depth <= 2 * (tree.bh + 1 - b[p]) + 1
    <3>1. Depth \in 1..Depth
      BY ONLY <2>2
    <3> QED BY <3>1, <2>1, <1>6, <1>8
  <2>5. CASE i = Depth
    <3>1. stack'[i] = w /\ c[w] = b[p] /\ ~k[w].red
      BY <2>5, <1>13, <1>14, <1>17
    <3> QED BY <2>4, <2>5, <3>1
  <2>6. CASE i = Depth + 1
    <3>1. stack'[i] = p /\ c[p] = b[w] /\ k[p].red
      BY <2>6, <1>13, <1>14, <1>17
    <3>2. b[p] = b[w] + 1 /\ b[w] \in Nat
      <4>1. /\ b[p] = b[heap[p][Opp(s)]] + Weight(heap, p) + Gap(p, Opp(s), p, s)
            /\ b[heap[p][Opp(s)]] \in Nat
        BY <1>2, <1>3, OppSide, BalancedStep
      <4>2. Weight(heap, p) = 1 /\ Gap(p, Opp(s), p, s) = 0
        BY <1>2, <1>8, OppSide DEF Weight, Gap
      <4> QED BY <4>1, <4>2, <1>2
    <3>3. Depth + 1 <= 2 * (tree.bh + 1 - b[w])
      BY ONLY <2>2, <2>4, <3>2
    <3>4. 2 * (tree.bh + 1 - b[w]) \in Int
      BY ONLY <2>2, <3>2
    <3> QED BY <3>1, <3>3, <3>4, <2>6
  <2>7. i \in 1..(Depth - 1) \/ i = Depth \/ i = Depth + 1
    BY ONLY <2>2, i \in 1..(Depth + 1)
  <2> QED BY <2>3, <2>5, <2>6, <2>7
<1>26. Inv(E, c)'
  <2>1. node' \in Places(heap') /\ pc # "insert_fixup"
    BY <1>2, <1>7, <1>14, <1>21
  <2>2. OnPath(heap', stack', tree'.root, node') /\ Short(heap', c, stack', tree'.bh) /\ 2 * tree'.bh < tree'.ssize
    BY <1>5, <1>15, <1>17, <1>21, <1>25
  <2>3. SameNodes(heap, heap') /\ UNCHANGED <<user, spare, pc, op, x, y, bh, result>>
    BY <1>1, <1>14
  <2> QED BY <2>1, <2>2, <2>3, <1>2, <1>23, <1>24, FixupGoesOn
<1>27. Conserves(D, E)
  BY <1>1, <1>14, <1>15, <1>22 DEF Conserves, r1, r2
<1> QED BY <1>26, <1>27

(* The node above the rotation. *)
SpunAbove(h, k, a, t, r, q) ==
  /\ a \in DOMAIN k /\ a # r /\ Parent(k, a, q) /\ k[a][t] = r /\ k[a][Opp(t)] = h[a][Opp(t)]
  /\ (k[a].red <=> h[a].red)

LEMMA SpunParent ==
  ASSUME NEW h, NEW D, IsHeap(h), Forest(h, D), NEW n \in DOMAIN h, NEW s \in Sides,
         NEW r, r = h[n][Opp(s)], r # Nil, NEW k, Spun(h, k, n, r, s),
         NEW a \in DOMAIN h, NEW t \in Sides, h[a][t] = n, NEW q, Parent(h, a, q)
  PROVE  SpunAbove(h, k, a, t, r, q)
<1>1. Turned(h, k, n, r, s) /\ DOMAIN k = DOMAIN h /\ ColoursBut(h, k, {n, r})
  BY DEF Spun, SameNodes
<1>2. r \in DOMAIN h /\ Opp(s) \in Sides /\ Opp(t) \in Sides /\ Opp(t) # t
  BY OppSide, ChildIs
<1>3. n \in D[a] /\ r \in D[n] /\ D[n] \subseteq D[a] /\ a \notin D[n]
  BY <1>2, ForestSides, Within
<1>4. a # n /\ a # r
  <2>1. n \in D[n]
    BY Within
  <2> QED BY <2>1, <1>3
<1>5. h[a][Opp(t)] # n
  <2>1. n # Nil
    BY Within
  <2> QED BY <2>1, <1>2, OneParent
<1>6. k[a][t] = r /\ k[a][Opp(t)] = h[a][Opp(t)] /\ (k[a].red <=> h[a].red)
  BY <1>1, <1>2, <1>4, <1>5 DEF Turned, ColoursBut
<1>7. Parent(k, a, q)
  <2>1. CASE q \in DOMAIN h /\ \E v \in Sides : h[q][v] = a
    <3>1. PICK v \in Sides : h[q][v] = a
      BY <2>1
    <3>2. a \in D[a] /\ a # Nil
      BY Within
    <3>3. q \notin D[a]
      BY <2>1, <3>1, <3>2, ForestSides
    <3>4. q # n /\ q # r
      BY <3>3, <1>3
    <3>5. k[q][v] = a
      BY <2>1, <3>1, <3>4, <1>1, <1>4 DEF Turned
    <3> QED BY <2>1, <3>1, <3>5, <1>1 DEF Parent
  <2>2. CASE q = Nil /\ \A m \in DOMAIN h : \A v \in Sides : h[m][v] # a
    <3> SUFFICES ASSUME NEW m \in DOMAIN h, NEW v \in Sides, k[m][v] = a PROVE FALSE
      BY <2>2, <1>1 DEF Parent
    <3>1. CASE m \notin {n, r}
      BY <3>1, <2>2, <1>1, <1>4 DEF Turned
    <3>2. v = s \/ v = Opp(s)
      BY OppSide
    <3>3. k[r][s] = n /\ k[r][Opp(s)] = h[r][Opp(s)] /\ k[n][s] = h[n][s] /\ k[n][Opp(s)] = h[r][s]
      BY <1>1 DEF Turned
    <3> QED BY <3>1, <3>2, <3>3, <2>2, <1>2, <1>4
  <2> QED BY <2>1, <2>2 DEF Parent
<1> QED BY <1>1, <1>4, <1>6, <1>7 DEF SpunAbove

(* rb_insert_fixup: what it finds at the last rotation, and what it makes  *)
(* of it. *)
OuterCase(h, D, b, g, s, p, d, t, u) ==
  /\ IsHeap(h) /\ Forest(h, D) /\ Ordered(h, D) /\ Balanced(h, b, Nil, d) /\ RedsApart(h, h[p][s], Nil)
  /\ g \in DOMAIN h /\ s \in Sides /\ p = h[g][s] /\ Red(h, p) /\ ~h[g].red /\ ~Red(h, h[g][Opp(s)])
  /\ t \in Trees(h) /\ u \in Trees(h) /\ Parts(h, D, t.root, u.root)
  /\ ~Red(h, t.root) /\ ~Red(h, u.root) /\ g # u.root

SameParts(h, D, b, k, E, c, t, u, v) ==
  /\ SameNodes(h, k) /\ v \in Trees(k) /\ u \in Trees(k) /\ v.bh = t.bh
  /\ E[v.root] = D[t.root] /\ E[u.root] = D[u.root]
  /\ c[v.root] = b[t.root] /\ c[u.root] = b[u.root]

Rebuilt(h, D, b, k, t, u, v) ==
  \E E, c : /\ SameParts(h, D, b, k, E, c, t, u, v)
            /\ Sound(k, E, c, Nil, "left", Nil, Nil) /\ Parts(k, E, v.root, u.root)
            /\ ~Red(k, v.root) /\ ~Red(k, u.root)

LEMMA InsertOuter ==
  ASSUME NEW h, NEW D, NEW b, NEW g, NEW s, NEW p, NEW d, NEW t, NEW u,
         OuterCase(h, D, b, g, s, p, d, t, u), NEW q, Parent(h, g, q),
         NEW k, k = Paint(Paint(Rotate(h, g, q, Opp(s)), p, FALSE), g, TRUE),
         NEW v, v = WithRoot(t, NewRoot(g, p, t.root))
  PROVE  Rebuilt(h, D, b, k, t, u, v)
<1>1. /\ IsHeap(h) /\ Forest(h, D) /\ Ordered(h, D) /\ Balanced(h, b, Nil, d) /\ RedsApart(h, h[p][s], Nil)
      /\ g \in DOMAIN h /\ s \in Sides /\ p = h[g][s] /\ Red(h, p) /\ ~h[g].red /\ ~Red(h, h[g][Opp(s)])
      /\ t \in Trees(h) /\ u \in Trees(h) /\ Parts(h, D, t.root, u.root)
      /\ ~Red(h, t.root) /\ ~Red(h, u.root) /\ g # u.root
  BY DEF OuterCase
<1> PICK o : o = Opp(s)
  OBVIOUS
<1>2. o \in Sides /\ Opp(o) = s /\ p = h[g][Opp(o)] /\ o # s
  BY <1>1, OppSide
<1>3. p # Nil /\ p \in DOMAIN h /\ h[p].red
  BY <1>1, ChildIs DEF Red
<1>4. Spun(h, k, g, p, o)
  <2> PICK r : r = Rotate(h, g, q, o)
    OBVIOUS
  <2>1. (FALSE <=> h[g].red) /\ (TRUE <=> h[p].red) /\ FALSE \in BOOLEAN /\ TRUE \in BOOLEAN
    BY <1>1, <1>3
  <2>2. k = Paint(Paint(r, p, FALSE), g, TRUE) /\ Parent(h, g, q)
    OBVIOUS
  <2> QED BY ONLY <2>1, <2>2, <1>1, <1>2, <1>3, r = Rotate(h, g, q, o), SpunPainted
<1> PICK R : R = IF g = t.root THEN p ELSE t.root
  OBVIOUS
<1> PICK r2 : r2 = u.root
  OBVIOUS
<1> PICK r1 : r1 = t.root
  OBVIOUS
<1>5. PICK E : SpunTrees(h, D, k, E, g, p, r1, R, r2)
  <2>1. R = (IF g = r1 THEN p ELSE r1) /\ Parts(h, D, r1, r2) /\ g # r2
    BY <1>1
  <2> QED BY ONLY <2>1, <1>1, <1>2, <1>3, <1>4, SpunBelow
<1>6. PICK c : SpunHeights(h, k, b, c, g, p, Nil, d)
  <2>1. GapTurns(h, g, p, o, Nil, d, Nil, d)
    BY <1>1, <1>3 DEF GapTurns, IsHeap
  <2> QED BY ONLY <2>1, <1>1, <1>2, <1>3, <1>4, SpunBalance
<1>7. Balanced(k, c, Nil, d) /\ HeightsBut(h, b, c, {g, p}) /\ c[p] = b[g]
  BY <1>6 DEF SpunHeights
<1>8. /\ Forest(k, E) /\ Ordered(k, E) /\ Parts(k, E, R, r2) /\ E[R] = D[r1] /\ E[r2] = D[r2]
      /\ r1 # p /\ r2 # g /\ r2 # p
  BY <1>5 DEF SpunTrees
<1>9. IsHeap(k) /\ SameNodes(h, k) /\ DOMAIN k = DOMAIN h
  BY <1>4 DEF Spun, SameNodes
<1>10. RedsApart(k, Nil, Nil)
  <2> SUFFICES ASSUME NEW m \in DOMAIN h, NEW w \in Sides, k[m].red, Red(k, k[m][w]) PROVE FALSE
    BY <1>9 DEF RedsApart
  <2>1. \/ m \notin {g, p} /\ h[m].red /\ Red(h, h[m][w])
        \/ m = g /\ w = o /\ h[p].red /\ Red(h, h[g][o])
        \/ m = g /\ w = Opp(o) /\ h[p].red /\ Red(h, h[p][o])
        \/ h[g].red
    <3>1. \/ m \notin {g, p} /\ h[m].red /\ Red(h, h[m][w])
          \/ m = g /\ w = o /\ h[p].red /\ Red(h, h[g][o])
          \/ m = g /\ w = Opp(o) /\ h[p].red /\ Red(h, h[p][o])
          \/ m = p /\ w = o /\ h[g].red /\ h[p].red
          \/ m = p /\ w = Opp(o) /\ h[g].red /\ Red(h, h[p][Opp(o)])
      BY ONLY <1>1, <1>2, <1>3, <1>4, m \in DOMAIN h, w \in Sides, k[m].red, Red(k, k[m][w]), SpunReds
    <3> QED BY <3>1
  <2>2. ASSUME NEW a \in DOMAIN h, NEW i \in Sides, h[a].red, Red(h, h[a][i]) PROVE a = p /\ i = s
    <3>1. h[a][i] = h[p][s] \/ a = Nil
      BY <2>2, <1>1 DEF RedsApart
    <3>2. a # Nil /\ h[a][i] # Nil
      BY <2>2, <1>1 DEF IsHeap, Red
    <3> QED BY <3>1, <3>2, <1>1, <1>3, OneParent
  <2>3. CASE m \notin {g, p} /\ h[m].red /\ Red(h, h[m][w])
    BY <2>3, <2>2
  <2>4. CASE h[p].red /\ Red(h, h[p][o])
    BY <2>4, <2>2, <1>2, <1>3
  <2> QED BY <2>1, <2>3, <2>4, <1>1
<1>11. Rerooted(h, k, b, c, t, u, v)
  <2>1. Exchanged(h, k, b, c, g, p)
    BY <1>4, <1>7 DEF Spun, Exchanged
  <2>2. t.root # p /\ u.root # g /\ u.root # p
    BY <1>8
  <2> QED BY ONLY <2>1, <2>2, <1>1, <1>3, v = WithRoot(t, NewRoot(g, p, t.root)), SpunRoots
<1>12. v.root = R
  BY <1>1 DEF Trees, WithRoot, NewRoot
<1>13. Sound(k, E, c, Nil, "left", Nil, Nil)
  <2>1. Sound(k, E, c, Nil, d, Nil, Nil)
    BY <1>7, <1>8, <1>9, <1>10 DEF Sound
  <2> QED BY <2>1, NoHole
<1>14. SameParts(h, D, b, k, E, c, t, u, v) /\ ~Red(k, v.root) /\ ~Red(k, u.root)
  BY <1>1, <1>8, <1>9, <1>11, <1>12 DEF Rerooted, SameParts
<1> QED BY <1>8, <1>12, <1>13, <1>14 DEF Rebuilt

(* A red node on the inner side is first rotated to the outer one. *)
InnerCase(h, D, b, g, s, p, r, d, t, u) ==
  /\ IsHeap(h) /\ Forest(h, D) /\ Ordered(h, D) /\ Balanced(h, b, Nil, d) /\ RedsApart(h, r, Nil)
  /\ g \in DOMAIN h /\ s \in Sides /\ p = h[g][s] /\ Red(h, p) /\ ~h[g].red /\ ~Red(h, h[g][Opp(s)])
  /\ t \in Trees(h) /\ u \in Trees(h) /\ Parts(h, D, t.root, u.root)
  /\ ~Red(h, t.root) /\ ~Red(h, u.root) /\ g # u.root /\ r = h[p][Opp(s)] /\ Red(h, r)

MadeOuter(h, D, b, k, g, s, r, t, u, q) ==
  \E E, c : /\ OuterCase(k, E, c, g, s, r, "left", t, u) /\ SameParts(h, D, b, k, E, c, t, u, t)
            /\ Parent(k, g, q)

LEMMA InsertInner ==
  ASSUME NEW h, NEW D, NEW b, NEW g, NEW s, NEW p, NEW r, NEW d, NEW t, NEW u,
         InnerCase(h, D, b, g, s, p, r, d, t, u), NEW q, Parent(h, g, q),
         NEW k, k = Rotate(h, p, g, s)
  PROVE  MadeOuter(h, D, b, k, g, s, r, t, u, q)
<1>1. /\ IsHeap(h) /\ Forest(h, D) /\ Ordered(h, D) /\ Balanced(h, b, Nil, d) /\ RedsApart(h, r, Nil)
      /\ g \in DOMAIN h /\ s \in Sides /\ p = h[g][s] /\ Red(h, p) /\ ~h[g].red /\ ~Red(h, h[g][Opp(s)])
      /\ t \in Trees(h) /\ u \in Trees(h) /\ Parts(h, D, t.root, u.root)
      /\ ~Red(h, t.root) /\ ~Red(h, u.root) /\ g # u.root /\ r = h[p][Opp(s)] /\ Red(h, r)
  BY DEF InnerCase
<1>2. /\ p # Nil /\ p \in DOMAIN h /\ h[p].red /\ r # Nil /\ r \in DOMAIN h /\ h[r].red
      /\ Opp(s) \in Sides /\ Opp(s) # s /\ Opp(Opp(s)) = s
  <2>1. p # Nil /\ h[p].red /\ r # Nil /\ h[r].red
    BY <1>1 DEF Red
  <2>2. Opp(s) \in Sides /\ Opp(s) # s /\ Opp(Opp(s)) = s
    BY <1>1, OppSide
  <2>3. p \in DOMAIN h
    BY <2>1, <1>1, ChildIs
  <2>4. r \in DOMAIN h
    BY <2>1, <2>2, <2>3, <1>1, ChildIs
  <2> QED BY <2>1, <2>2, <2>3, <2>4
<1>3. Parent(h, p, g)
  BY <1>1 DEF Parent
<1>4. Spun(h, k, p, r, s)
  <2>1. Kindred(h, k)
    BY ONLY <1>1, <1>2, <1>3, k = Rotate(h, p, g, s), RotateIs
  <2>2. SameShape(k, k) /\ \A m \in DOMAIN h : k[m].red = h[m].red
    BY <2>1, ShapeItself DEF Kindred
  <2>3. ColoursBut(h, k, {p, r}) /\ (k[p].red <=> h[r].red) /\ (k[r].red <=> h[p].red)
    BY <2>2, <1>2 DEF ColoursBut
  <2>4. SameShape(Rotate(h, p, g, s), k)
    BY <2>2
  <2> QED BY ONLY <2>3, <2>4, <1>1, <1>2, <1>3, SpunIs
<1> PICK r2 : r2 = u.root
  OBVIOUS
<1> PICK r1 : r1 = t.root
  OBVIOUS
<1>5. r1 # p /\ r2 # p /\ r1 # r /\ r2 # r
  BY <1>1, <1>2 DEF Red
<1>6. PICK E : SpunTrees(h, D, k, E, p, r, r1, r1, r2)
  <2> PICK R : R = IF p = r1 THEN r ELSE r1
    OBVIOUS
  <2>1. Parts(h, D, r1, r2) /\ p # r2
    BY <1>1, <1>5
  <2>2. \E E : SpunTrees(h, D, k, E, p, r, r1, R, r2)
    BY ONLY <2>1, R = (IF p = r1 THEN r ELSE r1), <1>1, <1>2, <1>4, SpunBelow
  <2> QED BY <2>2, <1>5
<1>7. PICK c : SpunHeights(h, k, b, c, p, r, Nil, d)
  <2>1. GapTurns(h, p, r, s, Nil, d, Nil, d)
    BY <1>1, <1>2 DEF GapTurns
  <2> QED BY ONLY <2>1, <1>1, <1>2, <1>4, SpunBalance
<1>8. Balanced(k, c, Nil, d) /\ HeightsBut(h, b, c, {p, r})
  BY <1>7 DEF SpunHeights
<1>9. Balanced(k, c, Nil, "left")
  BY <1>4, <1>8 DEF Balanced, IsHeap, Spun, SameNodes
<1>10. /\ Forest(k, E) /\ Ordered(k, E) /\ Parts(k, E, r1, r2) /\ E[r1] = D[r1] /\ E[r2] = D[r2]
  BY <1>6 DEF SpunTrees
<1>11. /\ IsHeap(k) /\ SameNodes(h, k) /\ DOMAIN k = DOMAIN h /\ Places(k) = Places(h)
       /\ Turned(h, k, p, r, s)
  BY <1>4 DEF Spun, SameNodes
<1>12. \A m \in DOMAIN h : k[m].red <=> h[m].red
  BY <1>2, <1>4 DEF Spun, ColoursBut
<1>13. SpunAbove(h, k, g, s, r, q)
  <2>1. h[g][s] = p /\ g \in DOMAIN h /\ Parent(h, g, q)
    BY <1>1
  <2> QED BY ONLY <2>1, <1>1, <1>2, <1>4, SpunParent
<1>14. RedsApart(k, k[r][s], Nil)
  <2> SUFFICES ASSUME NEW m \in DOMAIN h, NEW w \in Sides, k[m].red, Red(k, k[m][w]) PROVE m = r /\ w = s
    BY <1>11 DEF RedsApart
  <2>1. \/ m \notin {p, r} /\ h[m].red /\ Red(h, h[m][w])
        \/ m = p /\ w = s /\ h[r].red /\ Red(h, h[p][s])
        \/ m = p /\ w = Opp(s) /\ h[r].red /\ Red(h, h[r][s])
        \/ m = r /\ w = s /\ h[p].red /\ h[r].red
        \/ m = r /\ w = Opp(s) /\ h[p].red /\ Red(h, h[r][Opp(s)])
    BY ONLY <1>1, <1>2, <1>4, m \in DOMAIN h, w \in Sides, k[m].red, Red(k, k[m][w]), SpunReds
  <2>2. ASSUME NEW a \in DOMAIN h, NEW i \in Sides, h[a].red, Red(h, h[a][i]) PROVE a = p /\ i = Opp(s)
    <3>1. h[a][i] = h[p][Opp(s)] \/ a = Nil
      BY <2>2, <1>1 DEF RedsApart
    <3>2. a # Nil /\ h[a][i] # Nil
      BY <2>2, <1>1 DEF IsHeap, Red
    <3> QED BY <3>1, <3>2, <1>1, <1>2, OneParent
  <2>3. p # r
    <3>1. r \in D[h[p][Opp(s)]] /\ p \notin D[h[p][Opp(s)]]
      BY <1>1, <1>2, Within, ForestSides
    <3> QED BY <3>1
  <2>4. CASE m \notin {p, r} /\ h[m].red /\ Red(h, h[m][w])
    BY <2>4, <2>2
  <2>5. CASE m = p /\ w = s /\ h[r].red /\ Red(h, h[p][s])
    BY <2>5, <2>2, <1>2, <1>1
  <2>6. CASE m = p /\ w = Opp(s) /\ h[r].red /\ Red(h, h[r][s])
    BY <2>6, <2>2, <2>3, <1>1, <1>2
  <2>7. CASE m = r /\ w = Opp(s) /\ h[p].red /\ Red(h, h[r][Opp(s)])
    BY <2>7, <2>2, <2>3, <1>2
  <2> QED BY <2>1, <2>4, <2>5, <2>6, <2>7
<1>15. Trees(k) = Trees(h)
  BY <1>11 DEF Trees
<1>16. \A m \in Places(h) : Red(k, m) <=> Red(h, m)
  BY <1>12 DEF Red, Places
<1>17. /\ r = k[g][s] /\ Red(k, r) /\ ~k[g].red /\ ~Red(k, k[g][Opp(s)]) /\ Parent(k, g, q)
  <2>1. h[g][Opp(s)] \in Places(h) /\ r \in Places(h)
    BY <1>1, <1>2, ChildIs DEF Places
  <2> QED BY <2>1, <1>1, <1>13, <1>16 DEF SpunAbove
<1>18. ~Red(k, t.root) /\ ~Red(k, u.root) /\ c[t.root] = b[t.root] /\ c[u.root] = b[u.root]
  <2>1. t.root \in Places(h) /\ u.root \in Places(h)
    BY <1>1 DEF Trees
  <2> QED BY <2>1, <1>1, <1>5, <1>8, <1>16 DEF HeightsBut
<1>19. OuterCase(k, E, c, g, s, r, "left", t, u)
  BY <1>1, <1>9, <1>10, <1>11, <1>14, <1>15, <1>17, <1>18 DEF OuterCase
<1>20. SameParts(h, D, b, k, E, c, t, u, t)
  BY <1>1, <1>10, <1>11, <1>15, <1>18 DEF SameParts
<1> QED BY <1>17, <1>19, <1>20 DEF MadeOuter

LEMMA InsertRotateKeeps ==
  ASSUME NEW D, NEW b, Inv(D, b), InsertRotate
  PROVE  \E E, c : Inv(E, c)' /\ Conserves(D, E)
<1> DEFINE p == Up(0)
           g == Up(1)
           q == Up(2)
           s == ParentSide
           inner == node = heap[p][Opp(s)]
           h1 == IF inner THEN Rotate(heap, p, g, s) ELSE heap
           o == IF inner THEN node ELSE p
<1>1. /\ pc = "insert_fixup" /\ InsertFixupOK /\ Red(heap, p) /\ ~Red(heap, Uncle)
      /\ heap' = Paint(Paint(Rotate(h1, g, q, Opp(s)), o, FALSE), g, TRUE)
      /\ tree' = [tree EXCEPT !.root = RootAfter(h1, @, g, Opp(s))]
      /\ Done(0) /\ UNCHANGED <<user, spare>>
  BY DEF InsertRotate
<1>2. Depth >= 2 /\ ~heap[g].red /\ Fixing /\ p # tree.root /\ heap[node].red
  BY <1>1 DEF InsertFixupOK, Fixing
<1>3. /\ OnPath(heap, stack, tree.root, node)
      /\ Sound(heap, D, b, Hole, Side, node, Removed)
      /\ Rooted(heap, D, b, tree, spare, node, MissingAtRoot)
      /\ Parts(heap, D, tree.root, spare.root) /\ IsHeap(heap) /\ Forest(heap, D)
      /\ Depth = Len(stack) /\ Depth \in Nat /\ node \in Places(heap)
  BY <1>2, WhenFixing
<1>4. /\ p \in DOMAIN heap /\ p # spare.root /\ (\E t \in Sides : heap[p][t] = node) /\ node # tree.root
      /\ Parent(heap, p, g) /\ g = Top(Popped(stack)) /\ OnPath(heap, Popped(stack), tree.root, p)
      /\ Len(Popped(stack)) = Depth - 1 /\ \A i \in 1..(Depth - 1) : Popped(stack)[i] = stack[i]
  BY <1>2, <1>3, Parents
<1> PICK l : l = Popped(stack)
  OBVIOUS
<1>5. l # <<>>
  <2>1. Len(l) # 0 /\ l \in Seq(DOMAIN heap)
    BY <1>2, <1>3, <1>4 DEF OnPath
  <2> QED BY <2>1
<1>6. /\ g \in DOMAIN heap /\ g # Nil /\ g # spare.root
      /\ (\E t \in Sides : heap[g][t] = p) /\ Parent(heap, g, Top(Popped(l)))
      /\ Len(Popped(l)) = Len(l) - 1 /\ (Popped(l) = <<>> <=> Len(l) = 1) /\ Len(l) \in Nat \ {0}
  <2>1. OnPath(heap, l, tree.root, p)
    BY <1>4
  <2>2. g = Top(l)
    BY <1>4
  <2> HIDE DEF p, g
  <2> QED BY ONLY <2>1, <2>2, <1>3, <1>5, Ancestry
<1>7. \A i \in 1..(Len(l) - 1) : Popped(l)[i] = l[i]
  <2>1. OnPath(heap, l, tree.root, p) /\ l # <<>>
    BY <1>4, <1>5
  <2> HIDE DEF p
  <2> QED BY ONLY <2>1, PopPath
<1>8. s \in Sides /\ p = heap[g][s] /\ Uncle = heap[g][Opp(s)]
  <2>1. heap[g]["left"] = heap[g].left /\ "left" \in Sides /\ "right" \in Sides
    BY <1>3, <1>6, FieldsAreSides
  <2> QED BY <2>1, <1>6 DEF ParentSide, Uncle, Sides
<1>9. Hole = Nil /\ Removed = Nil /\ MissingAtRoot = 0
  BY <1>1 DEF Hole, Removed, MissingAtRoot
<1>10. q = Top(Popped(l))
  <2>1. CASE Depth = 2
    BY <2>1, <1>3, <1>4, <1>6 DEF Up, Top
  <2>2. CASE Depth # 2
    <3>1. Depth > 2 /\ Len(l) = Depth - 1 /\ Len(Popped(l)) = Depth - 2
      BY <2>2, <1>2, <1>3, <1>4, <1>6
    <3>2. q = stack[Depth - 2]
      BY <3>1 DEF Up
    <3>3. Top(Popped(l)) = Popped(l)[Depth - 2]
      <4>1. Len(Popped(l)) # 0
        BY ONLY <3>1, <1>3
      <4> QED BY <4>1, <3>1 DEF Top
    <3>4. Depth - 2 \in 1..(Depth - 1) /\ Depth - 2 \in 1..(Len(l) - 1)
      BY ONLY <3>1, <1>3
    <3>5. Popped(l)[Depth - 2] = l[Depth - 2] /\ l[Depth - 2] = stack[Depth - 2]
      BY <3>4, <1>4, <1>7
    <3> QED BY <3>2, <3>3, <3>5
  <2> QED BY <2>1, <2>2
<1>11. /\ Ordered(heap, D) /\ Balanced(heap, b, Nil, Side) /\ RedsApart(heap, node, Nil)
       /\ tree \in Trees(heap) /\ spare \in Trees(heap) /\ b[tree.root] = tree.bh + 1
       /\ b[spare.root] = spare.bh + 1 /\ ~Red(heap, tree.root) /\ ~Red(heap, spare.root)
  <2>1. /\ Ordered(heap, D) /\ Balanced(heap, b, Nil, Side) /\ RedsApart(heap, node, Nil)
    BY <1>3, <1>9 DEF Sound
  <2>2. /\ tree \in Trees(heap) /\ spare \in Trees(heap) /\ b[tree.root] + 0 = tree.bh + 1
        /\ b[spare.root] = spare.bh + 1 /\ (Red(heap, tree.root) => tree.root = node) /\ ~Red(heap, spare.root)
    BY <1>3, <1>9 DEF Rooted
  <2>3. b[tree.root] \in Nat
    BY <2>1, <2>2 DEF Balanced, Trees
  <2> QED BY <2>1, <2>2, <2>3, <1>4
<1>12. Red(heap, node) /\ heap[g][s] = p /\ ~Red(heap, heap[g][Opp(s)])
  <2>1. node # Nil
    BY <1>1, WhenFixing DEF Inv, Inserting
  <2> QED BY <2>1, <1>1, <1>2, <1>8 DEF Red
<1> PICK d : d = Side
  OBVIOUS
<1> HIDE DEF p, g, q, s
<1>13. \E E, c : /\ OuterCase(h1, E, c, g, s, o, d, tree, spare) \/ OuterCase(h1, E, c, g, s, o, "left", tree, spare)
                 /\ Parent(h1, g, q) /\ SameParts(heap, D, b, h1, E, c, tree, spare, tree)
  <2>1. CASE inner
    <3>1. InnerCase(heap, D, b, g, s, p, node, d, tree, spare)
      BY <2>1, <1>1, <1>2, <1>3, <1>6, <1>8, <1>11, <1>12 DEF InnerCase, p, g
    <3>2. Parent(heap, g, q)
      BY <1>6, <1>10
    <3>3. MadeOuter(heap, D, b, h1, g, s, node, tree, spare, q)
      <4>1. h1 = Rotate(heap, p, g, s)
        BY <2>1
      <4> HIDE DEF inner, h1, o
      <4> QED BY ONLY <4>1, <3>1, <3>2, InsertInner
    <3>4. o = node
      BY <2>1
    <3> QED BY <3>3, <3>4 DEF MadeOuter
  <2>2. CASE ~inner
    <3>1. h1 = heap /\ o = p
      BY <2>2
    <3>2. node = heap[p][s]
      BY <2>2, <1>4, <1>8, OppSide
    <3>3. OuterCase(heap, D, b, g, s, p, d, tree, spare)
      BY <3>2, <1>1, <1>2, <1>3, <1>6, <1>8, <1>11, <1>12 DEF OuterCase, p, g
    <3>4. SameParts(heap, D, b, heap, D, b, tree, spare, tree)
      BY <1>11 DEF SameParts, SameNodes
    <3> QED BY <3>1, <3>3, <3>4, <1>6, <1>10
  <2> QED BY <2>1, <2>2
<1> HIDE DEF inner, h1, o
<1>14. PICK E, c : /\ OuterCase(h1, E, c, g, s, o, d, tree, spare) \/ OuterCase(h1, E, c, g, s, o, "left", tree, spare)
                   /\ Parent(h1, g, q) /\ SameParts(heap, D, b, h1, E, c, tree, spare, tree)
  BY <1>13
<1> PICK e : OuterCase(h1, E, c, g, s, o, e, tree, spare)
  BY <1>14
<1> PICK k : k = heap'
  OBVIOUS
<1> PICK v : v = tree'
  OBVIOUS
<1>15. v = WithRoot(tree, NewRoot(g, o, tree.root))
  <2>1. o = h1[g][s] /\ Opp(Opp(s)) = s
    BY <1>8, OppSide DEF OuterCase
  <2> QED BY <2>1, <1>1 DEF WithRoot, NewRoot, RootAfter
<1>16. Rebuilt(h1, E, c, k, tree, spare, v)
  <2>1. k = Paint(Paint(Rotate(h1, g, q, Opp(s)), o, FALSE), g, TRUE) /\ Parent(h1, g, q)
    BY <1>1, <1>14
  <2> QED BY ONLY <2>1, <1>15, OuterCase(h1, E, c, g, s, o, e, tree, spare), InsertOuter
<1>17. PICK F, f : /\ SameParts(h1, E, c, k, F, f, tree, spare, v)
                   /\ Sound(k, F, f, Nil, "left", Nil, Nil) /\ Parts(k, F, v.root, spare.root)
                   /\ ~Red(k, v.root) /\ ~Red(k, spare.root)
  BY <1>16 DEF Rebuilt
<1>18. SameParts(heap, D, b, k, F, f, tree, spare, v)
  BY <1>14, <1>17 DEF SameParts, SameNodes
<1>19. /\ SameNodes(heap, heap') /\ tree' \in Trees(heap') /\ spare \in Trees(heap') /\ tree'.bh = tree.bh
       /\ F[tree'.root] = D[tree.root] /\ F[spare.root] = D[spare.root]
       /\ f[tree'.root] = tree'.bh + 1 /\ f[spare.root] = spare.bh + 1
  BY <1>11, <1>18 DEF SameParts
<1>20. Inv(F, f)'
  <2>1. /\ Sound(heap', F, f, Nil, "left", Nil, Nil) /\ Parts(heap', F, tree'.root, spare.root)
        /\ ~Red(heap', tree'.root) /\ ~Red(heap', spare.root)
    BY <1>17
  <2> QED BY <2>1, <1>1, <1>2, <1>19, FixupReturns
<1>21. Conserves(D, F)
  BY <1>1, <1>19 DEF Conserves
<1> QED BY <1>20, <1>21

(* rb_delete_fixup: the black that is missing below p comes from the far   *)
(* nephew, which turns black. *)
FarCase(h, D, b, p, s, w, f, t, u) ==
  /\ IsHeap(h) /\ Forest(h, D) /\ Ordered(h, D) /\ Balanced(h, b, p, s) /\ RedsApart(h, Nil, Nil)
  /\ p \in DOMAIN h /\ s \in Sides /\ w = h[p][Opp(s)] /\ w # Nil /\ ~h[w].red
  /\ f = h[w][Opp(s)] /\ Red(h, f)
  /\ t \in Trees(h) /\ u \in Trees(h) /\ Parts(h, D, t.root, u.root)
  /\ ~Red(h, t.root) /\ ~Red(h, u.root) /\ p # u.root

LEMMA DeleteFar ==
  ASSUME NEW h, NEW D, NEW b, NEW p, NEW s, NEW w, NEW f, NEW t, NEW u,
         FarCase(h, D, b, p, s, w, f, t, u), NEW q, Parent(h, p, q),
         NEW k, k = Paint(Paint(Paint(Rotate(h, p, q, s), w, h[p].red), p, FALSE), f, FALSE),
         NEW v, v = WithRoot(t, NewRoot(p, w, t.root))
  PROVE  Rebuilt(h, D, b, k, t, u, v)
<1>1. /\ IsHeap(h) /\ Forest(h, D) /\ Ordered(h, D) /\ Balanced(h, b, p, s) /\ RedsApart(h, Nil, Nil)
      /\ p \in DOMAIN h /\ s \in Sides /\ w = h[p][Opp(s)] /\ w # Nil /\ ~h[w].red
      /\ f = h[w][Opp(s)] /\ Red(h, f)
      /\ t \in Trees(h) /\ u \in Trees(h) /\ Parts(h, D, t.root, u.root)
      /\ ~Red(h, t.root) /\ ~Red(h, u.root) /\ p # u.root
  BY DEF FarCase
<1>2. /\ Opp(s) \in Sides /\ Opp(s) # s /\ w \in DOMAIN h /\ f \in DOMAIN h /\ h[f].red
      /\ f # w /\ f # p /\ w # p
  <2>1. Opp(s) \in Sides /\ Opp(s) # s
    BY <1>1, OppSide
  <2>2. w \in DOMAIN h
    BY <2>1, <1>1, ChildIs
  <2>3. f \in DOMAIN h /\ h[f].red
    BY <2>1, <2>2, <1>1, ChildIs DEF Red
  <2>4. f \in D[w] /\ w \in D[w] /\ p \notin D[w] /\ w \notin D[f] /\ f \in D[f]
    BY <2>1, <2>2, <2>3, <1>1, ForestSides, Within
  <2> QED BY <2>1, <2>2, <2>3, <2>4
<1> PICK g : g = Rotate(h, p, q, s)
  OBVIOUS
<1> PICK k1 : k1 = Paint(Paint(g, w, h[p].red), p, FALSE)
  OBVIOUS
<1>3. Spun(h, k1, p, w, s)
  <2>1. h[p].red \in BOOLEAN /\ FALSE \in BOOLEAN /\ (h[p].red <=> h[p].red) /\ (FALSE <=> h[w].red)
    BY <1>1, FieldsAreSides
  <2>2. Parent(h, p, q)
    OBVIOUS
  <2> QED BY ONLY <2>1, <2>2, <1>1, <1>2, g = Rotate(h, p, q, s),
                  k1 = Paint(Paint(g, w, h[p].red), p, FALSE), SpunPainted
<1>4. k = Paint(k1, f, FALSE)
  OBVIOUS
<1> PICK r1 : r1 = t.root
  OBVIOUS
<1> PICK r2 : r2 = u.root
  OBVIOUS
<1> PICK R : R = IF p = r1 THEN w ELSE r1
  OBVIOUS
<1>5. PICK E : SpunTrees(h, D, k1, E, p, w, r1, R, r2)
  <2>1. R = (IF p = r1 THEN w ELSE r1) /\ Parts(h, D, r1, r2) /\ p # r2
    BY <1>1
  <2> QED BY ONLY <2>1, <1>1, <1>2, <1>3, SpunBelow
<1>6. PICK c : SpunHeights(h, k1, b, c, p, w, w, Opp(s))
  <2>1. GapTurns(h, p, w, s, p, s, w, Opp(s))
    BY <1>1 DEF GapTurns
  <2> QED BY ONLY <2>1, <1>1, <1>2, <1>3, SpunBalance
<1>7. Balanced(k1, c, w, Opp(s)) /\ HeightsBut(h, b, c, {p, w}) /\ c[w] = b[p]
  BY <1>6 DEF SpunHeights
<1>8. /\ Forest(k1, E) /\ Ordered(k1, E) /\ Parts(k1, E, R, r2) /\ E[R] = D[r1] /\ E[r2] = D[r2]
      /\ r1 # w /\ r2 # p /\ r2 # w
  BY <1>5 DEF SpunTrees
<1>9. IsHeap(k1) /\ SameNodes(h, k1) /\ DOMAIN k1 = DOMAIN h /\ Turned(h, k1, p, w, s)
  BY <1>3 DEF Spun, SameNodes
<1>10. k1[w][Opp(s)] = f /\ k1[f].red
  BY <1>1, <1>2, <1>3, <1>9 DEF Turned, Spun, ColoursBut
<1>11. RedsApart(k1, f, f)
  <2> SUFFICES ASSUME NEW m \in DOMAIN h, NEW i \in Sides, k1[m].red, Red(k1, k1[m][i]) PROVE k1[m][i] = f
    BY <1>9 DEF RedsApart
  <2>1. \/ m \notin {p, w} /\ h[m].red /\ Red(h, h[m][i])
        \/ m = p /\ i = s /\ h[w].red /\ Red(h, h[p][s])
        \/ m = p /\ i = Opp(s) /\ h[w].red /\ Red(h, h[w][s])
        \/ m = w /\ i = s /\ h[p].red /\ h[w].red
        \/ m = w /\ i = Opp(s) /\ h[p].red /\ Red(h, h[w][Opp(s)])
    BY ONLY <1>1, <1>2, <1>3, m \in DOMAIN h, i \in Sides, k1[m].red, Red(k1, k1[m][i]), SpunReds
  <2>2. CASE m \notin {p, w} /\ h[m].red /\ Red(h, h[m][i])
    <3>1. h[m][i] = Nil \/ m = Nil
      BY <2>2, <1>1 DEF RedsApart
    <3> QED BY <3>1, <2>2, <1>1 DEF Red, IsHeap
  <2> QED BY <2>1, <2>2, <1>1, <1>10
<1>12. TurnsBlack(k1, k, c, f)
  <2>1. Missing(k1, f, w, Opp(s))
    BY <1>2, <1>9, <1>10 DEF Missing
  <2>2. f \in DOMAIN k1
    BY <1>2, <1>9
  <2> QED BY ONLY <2>1, <2>2, <1>4, <1>7, <1>8, <1>9, <1>10, <1>11, Blackened
<1>13. SameShape(k1, k) /\ RedsApart(k, Nil, Nil) /\ ColoursBut(k1, k, {f}) /\ ~k[f].red
  BY <1>12 DEF TurnsBlack
<1>14. PICK e : Balanced(k, e, Nil, "left") /\ HeightsBut(k1, c, e, {f})
  BY <1>12 DEF TurnsBlack
<1>15. Forest(k, E) /\ Ordered(k, E) /\ Trees(k) = Trees(k1) /\ Parts(k, E, R, r2) /\ IsHeap(k) /\ SameNodes(h, k)
  <2>1. Forest(k, E) /\ Ordered(k, E) /\ Trees(k) = Trees(k1) /\ Parts(k, E, R, r2)
    BY <1>8, <1>9, <1>13, ShapeKeeps
  <2> QED BY <2>1, <1>9, <1>13 DEF SameShape, SameNodes
<1>16. Rerooted(h, k1, b, c, t, u, v)
  <2>1. Exchanged(h, k1, b, c, p, w)
    BY <1>3, <1>7 DEF Spun, Exchanged
  <2>2. t.root # w /\ u.root # p /\ u.root # w
    BY <1>8
  <2> QED BY ONLY <2>1, <2>2, <1>1, <1>2, v = WithRoot(t, NewRoot(p, w, t.root)), SpunRoots
<1>17. v.root = R
  BY <1>1 DEF Trees, WithRoot, NewRoot
<1>18. R # f /\ r2 # f
  <2>1. w \in DOMAIN k1 /\ Opp(s) \in Sides /\ f # Nil
    BY <1>1, <1>2, <1>9 DEF IsHeap
  <2>0. ASSUME NEW a, NEW z, Parts(k1, E, a, z), a = f PROVE FALSE
    <3>1. k1[w][Opp(s)] # a
      BY ONLY <2>0, <2>1, <1>8, <1>9, RootHasNoParent
    <3> QED BY <3>1, <2>0, <1>10
  <2>2. R # f
    BY <2>0, <1>8
  <2>3. Parts(k1, E, r2, R)
    BY <1>8 DEF Parts
  <2>4. r2 # f
    BY <2>0, <2>3
  <2> QED BY <2>2, <2>4
<1>19. R \in Places(k1) /\ r2 \in Places(k1)
  BY <1>8 DEF Parts
<1>20. e[R] = b[r1] /\ e[r2] = b[r2] /\ ~Red(k, R) /\ ~Red(k, r2)
  <2>1. e[R] = c[R] /\ e[r2] = c[r2]
    BY <1>14, <1>18, <1>19 DEF HeightsBut
  <2>2. c[R] = b[r1] /\ c[r2] = b[r2] /\ ~Red(k1, R) /\ ~Red(k1, r2)
    BY <1>1, <1>16, <1>17 DEF Rerooted
  <2>3. ~Red(k, R) /\ ~Red(k, r2)
    BY <2>2, <1>13, <1>18, <1>19 DEF Red, ColoursBut, Places
  <2> QED BY <2>1, <2>2, <2>3
<1>21. Sound(k, E, e, Nil, "left", Nil, Nil)
  BY <1>13, <1>14, <1>15 DEF Sound
<1>22. SameParts(h, D, b, k, E, e, t, u, v)
  BY <1>8, <1>15, <1>16, <1>17, <1>20 DEF SameParts, Rerooted
<1> QED BY <1>15, <1>17, <1>20, <1>21, <1>22 DEF Rebuilt

(* A near nephew that is red is first rotated to the far side. *)
NearCase(h, D, b, p, s, w, r, t, u) ==
  /\ IsHeap(h) /\ Forest(h, D) /\ Ordered(h, D) /\ Balanced(h, b, p, s) /\ RedsApart(h, Nil, Nil)
  /\ p \in DOMAIN h /\ s \in Sides /\ w = h[p][Opp(s)] /\ w # Nil /\ ~h[w].red
  /\ ~Red(h, h[w][Opp(s)]) /\ r = h[w][s] /\ Red(h, r)
  /\ t \in Trees(h) /\ u \in Trees(h) /\ Parts(h, D, t.root, u.root)
  /\ ~Red(h, t.root) /\ ~Red(h, u.root) /\ p # u.root

MadeFar(h, D, b, k, p, s, w, r, t, u, q) ==
  \E E, c : /\ FarCase(k, E, c, p, s, r, w, t, u) /\ SameParts(h, D, b, k, E, c, t, u, t)
            /\ Parent(k, p, q) /\ (k[p].red <=> h[p].red)

LEMMA DeleteNear ==
  ASSUME NEW h, NEW D, NEW b, NEW p, NEW s, NEW w, NEW r, NEW t, NEW u,
         NearCase(h, D, b, p, s, w, r, t, u), NEW q, Parent(h, p, q),
         NEW k, k = Paint(Paint(Rotate(h, w, p, Opp(s)), w, TRUE), r, FALSE)
  PROVE  MadeFar(h, D, b, k, p, s, w, r, t, u, q)
<1>1. /\ IsHeap(h) /\ Forest(h, D) /\ Ordered(h, D) /\ Balanced(h, b, p, s) /\ RedsApart(h, Nil, Nil)
      /\ p \in DOMAIN h /\ s \in Sides /\ w = h[p][Opp(s)] /\ w # Nil /\ ~h[w].red
      /\ ~Red(h, h[w][Opp(s)]) /\ r = h[w][s] /\ Red(h, r)
      /\ t \in Trees(h) /\ u \in Trees(h) /\ Parts(h, D, t.root, u.root)
      /\ ~Red(h, t.root) /\ ~Red(h, u.root) /\ p # u.root
  BY DEF NearCase
<1> PICK o : o = Opp(s)
  OBVIOUS
<1>2. /\ o \in Sides /\ o # s /\ Opp(o) = s /\ w \in DOMAIN h /\ r \in DOMAIN h /\ h[r].red /\ r # Nil
      /\ r = h[w][Opp(o)] /\ r # w /\ r # p /\ w # p
  <2>1. o \in Sides /\ o # s /\ Opp(o) = s
    BY <1>1, OppSide
  <2>2. w \in DOMAIN h
    BY <2>1, <1>1, ChildIs
  <2>3. r \in DOMAIN h /\ h[r].red /\ r # Nil
    BY <2>2, <1>1, ChildIs DEF Red
  <2>4. r \in D[w] /\ w \in D[w] /\ p \notin D[w] /\ w \notin D[r] /\ r \in D[r]
    BY <2>1, <2>2, <2>3, <1>1, ForestSides, Within
  <2> QED BY <2>1, <2>2, <2>3, <2>4, <1>1
<1>3. Spun(h, k, w, r, o)
  <2> PICK g : g = Rotate(h, w, p, o)
    OBVIOUS
  <2>1. TRUE \in BOOLEAN /\ FALSE \in BOOLEAN /\ (FALSE <=> h[w].red) /\ (TRUE <=> h[r].red)
    BY <1>1, <1>2
  <2>2. Parent(h, w, p) /\ k = Paint(Paint(g, w, TRUE), r, FALSE)
    BY <1>1, <1>2 DEF Parent
  <2> QED BY ONLY <2>1, <2>2, <1>1, <1>2, g = Rotate(h, w, p, o), SpunPainted
<1> PICK r1 : r1 = t.root
  OBVIOUS
<1> PICK r2 : r2 = u.root
  OBVIOUS
<1>4. r1 # w /\ r2 # w /\ r1 # r /\ r2 # r
  <2>1. Parts(h, D, r1, r2) /\ Parts(h, D, r2, r1) /\ r1 \in Places(h) /\ r2 \in Places(h)
    BY <1>1 DEF Parts
  <2>2. w # Nil /\ Opp(s) \in Sides
    BY <1>1, <1>2
  <2>3. r1 # Nil => r1 # w
    BY <2>1, <2>2, <1>1, RootHasNoParent
  <2>4. r2 # Nil => r2 # w
    BY <2>1, <2>2, <1>1, RootHasNoParent
  <2>5. r1 # r /\ r2 # r
    BY <1>1
  <2> QED BY <2>2, <2>3, <2>4, <2>5
<1>5. PICK E : SpunTrees(h, D, k, E, w, r, r1, r1, r2)
  <2> PICK R : R = IF w = r1 THEN r ELSE r1
    OBVIOUS
  <2>1. Parts(h, D, r1, r2) /\ w # r2
    BY <1>1, <1>4
  <2>2. \E E : SpunTrees(h, D, k, E, w, r, r1, R, r2)
    BY ONLY <2>1, R = (IF w = r1 THEN r ELSE r1), <1>1, <1>2, <1>3, SpunBelow
  <2> QED BY <2>2, <1>4
<1>6. PICK c : SpunHeights(h, k, b, c, w, r, p, s)
  <2>1. GapTurns(h, w, r, o, p, s, p, s)
    BY <1>2 DEF GapTurns
  <2> QED BY ONLY <2>1, <1>1, <1>2, <1>3, SpunBalance
<1>7. Balanced(k, c, p, s) /\ HeightsBut(h, b, c, {w, r})
  BY <1>6 DEF SpunHeights
<1>8. /\ Forest(k, E) /\ Ordered(k, E) /\ Parts(k, E, r1, r2) /\ E[r1] = D[r1] /\ E[r2] = D[r2]
  BY <1>5 DEF SpunTrees
<1>9. /\ IsHeap(k) /\ SameNodes(h, k) /\ DOMAIN k = DOMAIN h /\ Places(k) = Places(h)
      /\ Turned(h, k, w, r, o) /\ ColoursBut(h, k, {w, r}) /\ (k[w].red <=> h[r].red) /\ (k[r].red <=> h[w].red)
  BY <1>3 DEF Spun, SameNodes
<1>10. SpunAbove(h, k, p, o, r, q)
  <2>1. h[p][o] = w /\ p \in DOMAIN h /\ Parent(h, p, q)
    BY <1>1
  <2> QED BY ONLY <2>1, <1>1, <1>2, <1>3, SpunParent
<1>11. RedsApart(k, Nil, Nil)
  <2> SUFFICES ASSUME NEW m \in DOMAIN h, NEW i \in Sides, k[m].red, Red(k, k[m][i]) PROVE FALSE
    BY <1>9 DEF RedsApart
  <2>1. \/ m \notin {w, r} /\ h[m].red /\ Red(h, h[m][i])
        \/ m = w /\ i = o /\ h[r].red /\ Red(h, h[w][o])
        \/ m = w /\ i = Opp(o) /\ h[r].red /\ Red(h, h[r][o])
        \/ m = r /\ i = o /\ h[w].red /\ h[r].red
        \/ m = r /\ i = Opp(o) /\ h[w].red /\ Red(h, h[r][Opp(o)])
    BY ONLY <1>1, <1>2, <1>3, m \in DOMAIN h, i \in Sides, k[m].red, Red(k, k[m][i]), SpunReds
  <2>2. ASSUME NEW a \in DOMAIN h, NEW j \in Sides, h[a].red, Red(h, h[a][j]) PROVE FALSE
    BY <2>2, <1>1 DEF RedsApart, Red, IsHeap
  <2> QED BY <2>1, <2>2, <1>1, <1>2
<1>12. Trees(k) = Trees(h)
  BY <1>9 DEF Trees
<1>13. r = k[p][Opp(s)] /\ ~k[r].red /\ w = k[r][Opp(s)] /\ Red(k, w) /\ Parent(k, p, q) /\ p \in DOMAIN k
  BY <1>1, <1>2, <1>9, <1>10 DEF SpunAbove, Turned, Red
<1>14. ~Red(k, t.root) /\ ~Red(k, u.root) /\ c[t.root] = b[t.root] /\ c[u.root] = b[u.root]
  <2>1. t.root \in Places(h) /\ u.root \in Places(h)
    BY <1>1 DEF Trees
  <2> QED BY <2>1, <1>1, <1>4, <1>7, <1>9 DEF HeightsBut, ColoursBut, Red, Places
<1>15. FarCase(k, E, c, p, s, r, w, t, u)
  BY <1>1, <1>2, <1>7, <1>8, <1>9, <1>11, <1>12, <1>13, <1>14 DEF FarCase
<1>16. SameParts(h, D, b, k, E, c, t, u, t)
  BY <1>1, <1>8, <1>9, <1>12, <1>14 DEF SameParts
<1> QED BY <1>10, <1>13, <1>15, <1>16 DEF MadeFar, SpunAbove

LEMMA DeleteRotateKeeps ==
  ASSUME NEW D, NEW b, Inv(D, b), DeleteRotate
  PROVE  \E E, c : Inv(E, c)' /\ Conserves(D, E)
<1> DEFINE p == Up(0)
           q == Up(1)
           s == Side
           far == Opp(s)
           n == Sibling
           inner == ~Red(heap, Nephew(far))
           h1 == IF inner THEN Paint(Rotate(heap, n, p, far), n, TRUE) ELSE heap
           w == h1[p][far]
           h2 == IF inner THEN Paint(h1, w, FALSE) ELSE h1
           h3 == Rotate(h2, p, q, s)
<1>1. /\ Looping /\ DeleteFixupOK /\ ~NephewsBlack
      /\ heap' = Paint(Paint(Paint(h3, w, heap[p].red), p, FALSE), h3[w][far], FALSE)
      /\ tree' = [tree EXCEPT !.root = RootAfter(h2, @, p, s)]
      /\ Done(0) /\ UNCHANGED <<user, spare>>
  BY DEF DeleteRotate
<1>2. /\ pc = "delete_fixup" /\ Fixing /\ Depth > 0 /\ ~Red(heap, node) /\ node # tree.root
      /\ p \in DOMAIN heap /\ s \in Sides /\ heap[p][s] = node
      /\ n = heap[p][far] /\ n \in DOMAIN heap /\ Hole = p
      /\ n # tree.root /\ n # spare.root /\ p # spare.root /\ n # node /\ n # p /\ node # p
  BY <1>1, FindsSibling
<1>3. /\ IsHeap(heap) /\ Forest(heap, D) /\ Ordered(heap, D) /\ RedsApart(heap, node, node)
      /\ Balanced(heap, b, p, s)
      /\ tree \in Trees(heap) /\ spare \in Trees(heap) /\ Parts(heap, D, tree.root, spare.root)
      /\ b[spare.root] = spare.bh + 1 /\ (Red(heap, tree.root) => tree.root = node)
      /\ ~Red(heap, spare.root) /\ b[tree.root] \in Nat \ {0}
  BY <1>2, WhenDeleting
<1>4. b[tree.root] = tree.bh + 1
  BY <1>2, <1>3, WhenDeleting
<1>5. Parent(heap, p, q)
  BY <1>2, Parents
<1>6. n # Nil /\ ~heap[n].red /\ ~Red(heap, tree.root)
  <2>1. n # Nil
    BY <1>2, <1>3 DEF IsHeap
  <2> QED BY <2>1, <1>1, <1>2, <1>3 DEF DeleteFixupOK, Red
<1>7. Nephew(far) = heap[n][far] /\ Nephew(s) = heap[n][s] /\ (Red(heap, Nephew(far)) \/ Red(heap, Nephew(s)))
  <2>1. s = "left" \/ s = "right"
    BY <1>2 DEF Sides
  <2>2. /\ Nephew("left") = heap[n]["left"] /\ Nephew("right") = heap[n]["right"]
    BY DEF Nephew
  <2> QED BY <2>1, <2>2, <1>1 DEF NephewsBlack, Opp
<1>8. RedsApart(heap, Nil, Nil)
  <2> SUFFICES ASSUME NEW m \in DOMAIN heap, NEW i \in Sides, heap[m].red, Red(heap, heap[m][i]) PROVE FALSE
    BY DEF RedsApart
  <2>1. heap[m][i] = node \/ m = node
    BY <1>3 DEF RedsApart
  <2> QED BY <2>1, <1>2, <1>3 DEF Red, IsHeap
<1> PICK f : f = IF inner THEN n ELSE heap[n][far]
  OBVIOUS
<1> HIDE DEF p, q, s, n
<1>9. /\ Parent(h2, p, q)
      /\ \E E, c : FarCase(h2, E, c, p, s, w, f, tree, spare) /\ SameParts(heap, D, b, h2, E, c, tree, spare, tree)
      /\ h2[p].red <=> heap[p].red
  <2>1. CASE inner
    <3> PICK r : r = heap[n][s]
      OBVIOUS
    <3>1. NearCase(heap, D, b, p, s, n, r, tree, spare)
      BY <2>1, <1>2, <1>3, <1>6, <1>7, <1>8 DEF NearCase
    <3>2. far \in Sides /\ Opp(far) = s /\ n \in DOMAIN heap /\ r # Nil /\ Parent(heap, n, p) /\ r = heap[n][Opp(far)]
      BY <2>1, <1>2, <1>7, OppSide DEF Red, Parent
    <3> PICK g : g = Rotate(heap, n, p, far)
      OBVIOUS
    <3>3. Kindred(heap, g) /\ Turned(heap, g, n, r, far) /\ r # n /\ p # n /\ p # r
      BY ONLY <3>2, <1>3, g = Rotate(heap, n, p, far), RotateIs
    <3>4. h1 = Paint(g, n, TRUE)
      BY <2>1
    <3>5. w = r
      <4>1. g[p][far] = r
        BY <3>2, <3>3, <1>2 DEF Turned
      <4>2. SameShape(g, h1) /\ p \in DOMAIN g /\ n \in DOMAIN g
        <5>1. IsHeap(g) /\ p \in DOMAIN g /\ n \in DOMAIN g
          BY <3>3, <1>2 DEF Kindred, SameNodes
        <5> HIDE DEF h1
        <5> QED BY <5>1, <3>4, ShapeItself, PaintedRed
      <4>3. h1[p][far] = g[p][far]
        BY <4>2, <3>2 DEF SameShape
      <4> QED BY <4>1, <4>3
    <3>6. h2 = Paint(Paint(g, n, TRUE), r, FALSE) /\ f = n
      BY <2>1, <3>4, <3>5
    <3> HIDE DEF inner, h1, h2, w
    <3>7. MadeFar(heap, D, b, h2, p, s, n, r, tree, spare, q)
      <4>1. h2 = Paint(Paint(Rotate(heap, n, p, Opp(s)), n, TRUE), r, FALSE)
        BY <3>6
      <4> QED BY ONLY <4>1, <3>1, <1>5, DeleteNear
    <3>8. h2[p].red <=> heap[p].red
      BY <3>7 DEF MadeFar
    <3> QED BY <3>5, <3>6, <3>7, <3>8 DEF MadeFar
  <2>2. CASE ~inner
    <3>1. h2 = heap /\ w = n /\ f = heap[n][far]
      BY <2>2, <1>2
    <3>2. FarCase(heap, D, b, p, s, n, f, tree, spare)
      BY <3>1, <2>2, <1>2, <1>3, <1>6, <1>7, <1>8 DEF FarCase
    <3>3. SameParts(heap, D, b, heap, D, b, tree, spare, tree)
      BY <1>3 DEF SameParts, SameNodes
    <3> QED BY <3>1, <3>2, <3>3, <1>5
  <2> QED BY <2>1, <2>2
<1> HIDE DEF inner, h1, h2, w
<1>10. PICK E, c : FarCase(h2, E, c, p, s, w, f, tree, spare) /\ SameParts(heap, D, b, h2, E, c, tree, spare, tree)
  BY <1>9
<1>11. /\ IsHeap(h2) /\ Forest(h2, E) /\ p \in DOMAIN h2 /\ s \in Sides /\ w = h2[p][Opp(s)] /\ w # Nil
       /\ f = h2[w][Opp(s)]
  BY <1>10 DEF FarCase
<1>12. h3[w][far] = f
  <2>1. Turned(h2, h3, p, w, s)
    <3>1. Parent(h2, p, q)
      BY <1>9
    <3> QED BY <3>1, <1>11, RotateIs
  <2> QED BY <2>1, <1>11 DEF Turned
<1> PICK k : k = heap'
  OBVIOUS
<1> PICK v : v = tree'
  OBVIOUS
<1>13. v = WithRoot(tree, NewRoot(p, w, tree.root))
  BY <1>1, <1>11 DEF WithRoot, NewRoot, RootAfter
<1>14. Rebuilt(h2, E, c, k, tree, spare, v)
  <2>1. h2[p].red = heap[p].red
    <3>1. h2[p].red \in BOOLEAN /\ heap[p].red \in BOOLEAN
      BY <1>2, <1>3, <1>11, FieldsAreSides
    <3> QED BY <3>1, <1>9
  <2>2. k = Paint(Paint(Paint(Rotate(h2, p, q, s), w, h2[p].red), p, FALSE), f, FALSE) /\ Parent(h2, p, q)
    BY <2>1, <1>1, <1>9, <1>12
  <2> QED BY ONLY <2>2, <1>13, <1>10, DeleteFar
<1>15. PICK F, e : /\ SameParts(h2, E, c, k, F, e, tree, spare, v)
                   /\ Sound(k, F, e, Nil, "left", Nil, Nil) /\ Parts(k, F, v.root, spare.root)
                   /\ ~Red(k, v.root) /\ ~Red(k, spare.root)
  BY <1>14 DEF Rebuilt
<1>16. SameParts(heap, D, b, k, F, e, tree, spare, v)
  BY <1>10, <1>15 DEF SameParts, SameNodes
<1>17. /\ SameNodes(heap, heap') /\ tree' \in Trees(heap') /\ spare \in Trees(heap') /\ tree'.bh = tree.bh
       /\ F[tree'.root] = D[tree.root] /\ F[spare.root] = D[spare.root]
       /\ e[tree'.root] = tree'.bh + 1 /\ e[spare.root] = spare.bh + 1
  BY <1>3, <1>4, <1>16 DEF SameParts
<1>18. Inv(F, e)'
  <2>1. /\ Sound(heap', F, e, Nil, "left", Nil, Nil) /\ Parts(heap', F, tree'.root, spare.root)
        /\ ~Red(heap', tree'.root) /\ ~Red(heap', spare.root)
    BY <1>15
  <2> QED BY <2>1, <1>1, <1>2, <1>17, FixupReturns
<1>19. Conserves(D, F)
  BY <1>1, <1>17 DEF Conserves
<1> QED BY <1>18, <1>19
-----------------------------------------------------------------------------
(***************************************************************************)
(* A new node n takes the place of c, the child of p at the side s if      *)
(* there is a p; c goes below n at the side t, and a whole tree q at the   *)
(* other side.                                                             *)
(***************************************************************************)
Grafted(h, g, n, k, red, c, q, t, p, s) ==
  /\ IsHeap(g) /\ DOMAIN g = DOMAIN h \cup {n} /\ n \notin DOMAIN h /\ n # Nil
  /\ g[n].key = k /\ (g[n].red <=> red) /\ g[n][t] = c /\ g[n][Opp(t)] = q
  /\ \A m \in DOMAIN h : g[m].key = h[m].key /\ (g[m].red <=> h[m].red)
  /\ \A m \in DOMAIN h : \A u \in Sides : g[m][u] = IF m = p /\ u = s THEN n ELSE h[m][u]

(* The same where the new node comes on top. *)
GraftPlace(h, D, c, q, t, p, s) ==
  /\ IsHeap(h) /\ Forest(h, D) /\ c \in Places(h) /\ q \in Places(h) /\ t \in Sides
  /\ p \in Places(h) /\ s \in Sides /\ (p # Nil => h[p][s] = c)
  /\ D[c] \cap D[q] = {}
  /\ \A m \in DOMAIN h : p \in D[m] => D[m] \cap D[q] = {}
  /\ \A m \in DOMAIN h : D[m] \cap D[q] # {} => m \in D[q]
  /\ \A m \in DOMAIN h : D[m] \cap D[c] # {} => m \in D[c] \/ p \in D[m]

GraftedBelow(h, D, n, c, q, p) ==
  [m \in Places(h) \cup {n} |->
     IF m = n THEN {n} \cup D[c] \cup D[q] ELSE IF p \in D[m] THEN D[m] \cup {n} \cup D[q] ELSE D[m]]

LEMMA ForestGrafted ==
  ASSUME NEW h, NEW D, NEW g, NEW n, NEW k, NEW red, NEW c, NEW q, NEW t, NEW p, NEW s,
         GraftPlace(h, D, c, q, t, p, s), Grafted(h, g, n, k, red, c, q, t, p, s)
  PROVE  Forest(g, GraftedBelow(h, D, n, c, q, p))
<1> PICK E : E = GraftedBelow(h, D, n, c, q, p)
  OBVIOUS
<1>1. /\ IsHeap(h) /\ Forest(h, D) /\ c \in Places(h) /\ q \in Places(h) /\ t \in Sides
      /\ p \in Places(h) /\ s \in Sides /\ (p # Nil => h[p][s] = c) /\ D[c] \cap D[q] = {}
      /\ \A m \in DOMAIN h : p \in D[m] => D[m] \cap D[q] = {}
      /\ \A m \in DOMAIN h : D[m] \cap D[q] # {} => m \in D[q]
      /\ \A m \in DOMAIN h : D[m] \cap D[c] # {} => m \in D[c] \/ p \in D[m]
  BY DEF GraftPlace
<1>2. /\ IsHeap(g) /\ DOMAIN g = DOMAIN h \cup {n} /\ n \notin DOMAIN h /\ n # Nil
      /\ g[n][t] = c /\ g[n][Opp(t)] = q
      /\ \A m \in DOMAIN h : \A u \in Sides : g[m][u] = IF m = p /\ u = s THEN n ELSE h[m][u]
  BY DEF Grafted
<1>3. /\ D \in [Places(h) -> SUBSET DOMAIN h] /\ D[Nil] = {} /\ Nil \notin DOMAIN h
      /\ \A a \in DOMAIN h : \A m \in D[a] : D[m] \subseteq D[a]
      /\ \A a, m, j \in DOMAIN h : j \in D[a] /\ j \in D[m] => a \in D[m] \/ m \in D[a]
  BY <1>1 DEF Forest, IsHeap
<1>4. \A m \in Places(h) : D[m] \subseteq DOMAIN h /\ n \notin D[m] /\ m # n
  BY <1>2, <1>3 DEF Places
<1>5. Places(g) = Places(h) \cup {n}
  BY <1>2 DEF Places
<1>6. E[n] = {n} \cup D[c] \cup D[q]
  BY DEF GraftedBelow
<1>7. \A m \in Places(h) : E[m] = IF p \in D[m] THEN D[m] \cup {n} \cup D[q] ELSE D[m]
  BY <1>4 DEF GraftedBelow
<1>8. E \in [Places(g) -> SUBSET DOMAIN g] /\ E[Nil] = {}
  <2>1. E = [m \in Places(g) |-> E[m]]
    BY <1>5 DEF GraftedBelow
  <2>2. ASSUME NEW m \in Places(h) PROVE E[m] \subseteq DOMAIN g
    <3>1. D[m] \subseteq DOMAIN g /\ D[q] \subseteq DOMAIN g /\ n \in DOMAIN g
      BY <1>1, <1>2, <1>4
    <3>2. E[m] = D[m] \cup {n} \cup D[q] \/ E[m] = D[m]
      BY <1>7
    <3> QED BY ONLY <3>1, <3>2
  <2>3. E[n] \subseteq DOMAIN g
    BY <1>1, <1>2, <1>4, <1>6
  <2>4. E[Nil] = {}
    BY <1>3, <1>7 DEF Places
  <2> QED BY <2>1, <2>2, <2>3, <2>4, <1>5
<1>9. ASSUME NEW a \in DOMAIN g
      PROVE  \E u \in Sides : /\ E[a] = {a} \cup E[g[a][u]] \cup E[g[a][Opp(u)]]
                              /\ a \notin E[g[a][u]] /\ a \notin E[g[a][Opp(u)]]
                              /\ E[g[a][u]] \cap E[g[a][Opp(u)]] = {}
  <2>1. CASE a = n
    <3>1. p \notin D[c]
      <4>1. p # Nil => p \in DOMAIN h /\ p \notin D[h[p][s]]
        BY <1>1, ForestSides DEF Places
      <4> QED BY <4>1, <1>1, <1>3
    <3>2. p \notin D[q]
      <4>1. CASE p # Nil
        <5>1. p \in DOMAIN h /\ p \in D[p]
          BY <4>1, <1>1, Within DEF Places
        <5> QED BY <5>1, <1>1
      <4>2. CASE p = Nil
        BY <4>2, <1>1, <1>3
      <4> QED BY <4>1, <4>2
    <3>3. E[c] = D[c] /\ E[q] = D[q] /\ n \notin D[c] /\ n \notin D[q]
      BY <3>1, <3>2, <1>1, <1>4, <1>7
    <3> QED BY <2>1, <3>3, <1>1, <1>2, <1>6
  <2>2. CASE a # n /\ a = p
    <3>1. a \in DOMAIN h /\ p # Nil /\ h[p][s] = c
      BY <2>2, <1>1, <1>2, <1>3
    <3> PICK o : o = h[p][Opp(s)]
      OBVIOUS
    <3>2. /\ D[p] = {p} \cup D[c] \cup D[o] /\ p \notin D[c] /\ D[c] \cap D[o] = {} /\ p \in D[p]
          /\ p \notin D[o] /\ o \in Places(h)
      BY <3>1, <2>2, <1>1, ForestSides, ChildIs, OppSide
    <3>3. g[p][s] = n /\ g[p][Opp(s)] = o
      BY <3>1, <2>2, <1>1, <1>2, OppSide
    <3>4. E[p] = D[p] \cup {n} \cup D[q] /\ E[o] = D[o]
      BY <3>1, <3>2, <2>2, <1>1, <1>7
    <3>5. D[p] \cap D[q] = {}
      BY <3>1, <3>2, <2>2, <1>1
    <3>6. n \notin D[o]
      BY <3>2, <1>4
    <3>7. E[p] = {p} \cup E[n] \cup E[o] /\ p \notin E[n] /\ p \notin E[o] /\ E[n] \cap E[o] = {}
      BY ONLY <3>2, <3>4, <3>5, <3>6, <1>6, <2>2
    <3> QED BY <3>3, <3>7, <2>2, <1>1
  <2>3. CASE a # n /\ a # p
    <3>1. a \in DOMAIN h /\ \A u \in Sides : g[a][u] = h[a][u] /\ h[a][u] \in Places(h)
      BY <2>3, <1>1, <1>2, ChildIs
    <3>2. CASE p \notin D[a]
      <4>1. "left" \in Sides /\ Opp("left") = "right" /\ "right" \in Sides
        BY DEF Sides, Opp
      <4> PICK l : l = h[a]["left"]
        OBVIOUS
      <4> PICK r : r = h[a]["right"]
        OBVIOUS
      <4>2. D[a] = {a} \cup D[l] \cup D[r] /\ a \notin D[l] /\ a \notin D[r] /\ D[l] \cap D[r] = {}
        <5>1. D[a] = {a} \cup D[h[a]["left"]] \cup D[h[a][Opp("left")]] /\ a \notin D[h[a]["left"]]
              /\ D[h[a]["left"]] \cap D[h[a][Opp("left")]] = {}
          BY <3>1, <4>1, <1>1, ForestSides
        <5>2. a \notin D[h[a]["right"]]
          BY <3>1, <4>1, <1>1, ForestSides
        <5> QED BY <5>1, <5>2, <4>1
      <4>3. E[a] = D[a] /\ E[l] = D[l] /\ E[r] = D[r]
        BY <3>1, <3>2, <4>1, <4>2, <1>7 DEF Places
      <4> QED BY <4>1, <4>2, <4>3, <3>1
    <3>3. CASE p \in D[a]
      <4>1. PICK u \in Sides : p \in D[h[a][u]]
        BY <3>1, <3>3, <2>3, <1>1, BelowChild
      <4> PICK l : l = h[a][u]
        OBVIOUS
      <4> PICK r : r = h[a][Opp(u)]
        OBVIOUS
      <4>2. D[a] = {a} \cup D[l] \cup D[r] /\ a \notin D[l] /\ D[l] \cap D[r] = {} /\ Opp(u) \in Sides
        BY <3>1, <1>1, ForestSides, OppSide
      <4>3. a \notin D[r]
        BY <4>2, <3>1, <1>1, ForestSides
      <4>4. E[a] = D[a] \cup {n} \cup D[q] /\ E[l] = D[l] \cup {n} \cup D[q] /\ E[r] = D[r]
        BY <3>1, <3>3, <4>1, <4>2, <1>7 DEF Places
      <4>5. D[a] \cap D[q] = {}
        BY <3>1, <3>3, <1>1
      <4>6. n \notin D[r] /\ n # a
        BY <3>1, <4>2, <1>2, <1>4
      <4>7. a \in D[a]
        BY <4>2
      <4>8. E[a] = {a} \cup E[l] \cup E[r] /\ a \notin E[l] /\ a \notin E[r] /\ E[l] \cap E[r] = {}
        BY ONLY <4>2, <4>3, <4>4, <4>5, <4>6, <4>7
      <4> QED BY <4>8, <4>2, <3>1
    <3> QED BY <3>2, <3>3
  <2> QED BY <2>1, <2>2, <2>3
<1>10. ASSUME NEW a \in DOMAIN g, NEW m \in E[a] PROVE E[m] \subseteq E[a]
  <2>1. ASSUME NEW z \in Places(h), NEW j \in D[z] PROVE j \in DOMAIN h /\ D[j] \subseteq D[z]
    BY <2>1, <1>1, Under
  <2>2. p \in D[q] => p \in DOMAIN h /\ p \in D[p] /\ p # Nil
    BY <1>1, <2>1, Within
  <2>3. p \notin D[q]
    BY <2>2, <1>1
  <2>4. p \notin D[c]
    <3>1. p # Nil => p \in DOMAIN h /\ p \notin D[h[p][s]]
      BY <1>1, ForestSides DEF Places
    <3> QED BY <3>1, <1>1, <1>3
  <2>5. ASSUME NEW j \in D[q] PROVE E[j] \subseteq D[q]
    BY <2>1, <2>3, <1>1, <1>7 DEF Places
  <2>6. ASSUME NEW j \in D[c] PROVE E[j] \subseteq D[c]
    BY <2>1, <2>4, <1>1, <1>7 DEF Places
  <2>7. CASE a = n
    BY <2>5, <2>6, <2>7, <1>6
  <2>8. CASE a # n
    <3>1. a \in DOMAIN h /\ a \in Places(h)
      BY <2>8, <1>2 DEF Places
    <3>2. CASE m \in D[a]
      <4>1. m \in Places(h) /\ D[m] \subseteq D[a]
        BY <3>1, <3>2, <2>1 DEF Places
      <4> QED BY <3>1, <4>1, <1>7
    <3>3. CASE m \notin D[a]
      <4>1. p \in D[a] /\ (m = n \/ m \in D[q])
        BY <3>1, <3>3, <1>7
      <4>2. CASE m \in D[q]
        BY <4>1, <4>2, <3>1, <2>5, <1>7
      <4>3. CASE m = n
        <5>1. D[c] \subseteq D[a]
          <6>1. p \in DOMAIN h /\ D[p] \subseteq D[a] /\ p # Nil
            BY <4>1, <3>1, <2>1, <1>3
          <6>2. D[c] \subseteq D[p]
            BY <6>1, <1>1, ForestSides
          <6> QED BY <6>1, <6>2
        <5> QED BY <5>1, <4>1, <4>3, <3>1, <1>6, <1>7
      <4> QED BY <4>1, <4>2, <4>3
    <3> QED BY <3>2, <3>3
  <2> QED BY <2>7, <2>8
<1>11. ASSUME NEW a \in DOMAIN g, NEW m \in DOMAIN g, NEW j \in DOMAIN g, j \in E[a], j \in E[m]
       PROVE  a \in E[m] \/ m \in E[a]
  <2>1. ASSUME NEW z \in DOMAIN h PROVE z \in D[z] /\ z \in Places(h) /\ z \in E[z] /\ D[z] \subseteq E[z]
    <3>1. z \in D[z] /\ z \in Places(h)
      BY <2>1, <1>1, Within
    <3> QED BY <3>1, <1>7
  <2>2. ASSUME NEW z \in DOMAIN h, j \in E[z], j \in E[n] PROVE z \in E[n] \/ n \in E[z]
    <3>1. CASE p \in D[z]
      BY <3>1, <2>1, <1>7
    <3>2. CASE p \notin D[z]
      <4>1. j \in D[z] /\ j # n
        BY <3>2, <2>1, <2>2, <1>4, <1>7
      <4>2. j \in D[c] \/ j \in D[q]
        BY <4>1, <2>2, <1>6
      <4>3. z \in D[c] \/ z \in D[q]
        BY <3>2, <4>1, <4>2, <1>1
      <4> QED BY <4>3, <1>6
    <3> QED BY <3>1, <3>2
  <2>3. ASSUME NEW z \in DOMAIN h, NEW w \in DOMAIN h, j \in E[z], j \in E[w], p \in D[z]
        PROVE  z \in E[w] \/ w \in E[z]
    <3>1. CASE p \in D[w]
      <4>1. p \in DOMAIN h
        BY <3>1, <2>1, <1>4
      <4>2. z \in D[w] \/ w \in D[z]
        BY <3>1, <4>1, <2>3, <1>3
      <4> QED BY <4>2, <2>1
    <3>2. CASE p \notin D[w]
      <4>1. j \in D[w] /\ j \in DOMAIN h
        BY <3>2, <2>1, <2>3, <1>4, <1>7
      <4>2. CASE j \in D[z]
        BY <4>1, <4>2, <2>1, <1>3
      <4>3. CASE j \notin D[z]
        <5>1. j \in D[q]
          BY <4>1, <4>3, <2>1, <2>3, <1>2, <1>7
        <5>2. w \in D[q]
          BY <4>1, <5>1, <1>1
        <5> QED BY <5>2, <2>1, <2>3, <1>7
      <4> QED BY <4>2, <4>3
    <3> QED BY <3>1, <3>2
  <2>4. ASSUME NEW z \in DOMAIN h, NEW w \in DOMAIN h, j \in E[z], j \in E[w], p \notin D[z], p \notin D[w]
        PROVE  z \in E[w] \/ w \in E[z]
    <3>1. j \in D[z] /\ j \in D[w] /\ j \in DOMAIN h
      BY <2>1, <2>4, <1>4, <1>7
    <3>2. z \in D[w] \/ w \in D[z]
      BY <3>1, <1>3
    <3> QED BY <3>2, <2>1
  <2>5. CASE a = n \/ m = n
    <3>1. n \in E[n]
      BY <1>6
    <3> QED BY <3>1, <2>2, <2>5, <1>2, <1>11
  <2>6. CASE a # n /\ m # n
    <3>1. a \in DOMAIN h /\ m \in DOMAIN h
      BY <2>6, <1>2
    <3> QED BY <3>1, <2>3, <2>4, <1>11
  <2> QED BY <2>5, <2>6
<1>12. Forest(g, E)
  <2>1. \A a \in DOMAIN g : \E u \in Sides :
           /\ E[a] = {a} \cup E[g[a][u]] \cup E[g[a][Opp(u)]]
           /\ a \notin E[g[a][u]] /\ a \notin E[g[a][Opp(u)]]
           /\ E[g[a][u]] \cap E[g[a][Opp(u)]] = {}
    BY <1>9
  <2>2. \A a \in DOMAIN g : \A m \in E[a] : E[m] \subseteq E[a]
    BY <1>10
  <2>3. \A a, m, j \in DOMAIN g : j \in E[a] /\ j \in E[m] => a \in E[m] \/ m \in E[a]
    BY <1>11
  <2> QED BY ONLY <2>1, <2>2, <2>3, <1>2, <1>8, ForestFrom
<1> QED BY <1>12

(* The key is in its place. *)
KeyPlace(h, D, g, n, c, q, t, p, s) ==
  /\ \A m \in D[c] : Fits(t, h[m].key, g[n].key)
  /\ \A m \in D[q] : Fits(Opp(t), h[m].key, g[n].key)
  /\ \A a \in DOMAIN h : \A u \in Sides : (p \in D[h[a][u]] \/ (a = p /\ u = s)) =>
       \A m \in D[q] \cup {n} : Fits(u, g[m].key, h[a].key)

LEMMA OrderedGrafted ==
  ASSUME NEW h, NEW D, NEW g, NEW n, NEW k, NEW red, NEW c, NEW q, NEW t, NEW p, NEW s,
         GraftPlace(h, D, c, q, t, p, s), Grafted(h, g, n, k, red, c, q, t, p, s),
         Ordered(h, D), KeyPlace(h, D, g, n, c, q, t, p, s)
  PROVE  Ordered(g, GraftedBelow(h, D, n, c, q, p))
<1> PICK E : E = GraftedBelow(h, D, n, c, q, p)
  OBVIOUS
<1>1. /\ IsHeap(h) /\ Forest(h, D) /\ c \in Places(h) /\ q \in Places(h) /\ t \in Sides
      /\ p \in Places(h) /\ s \in Sides /\ (p # Nil => h[p][s] = c)
      /\ \A m \in DOMAIN h : p \in D[m] => D[m] \cap D[q] = {}
  BY DEF GraftPlace
<1>2. /\ IsHeap(g) /\ DOMAIN g = DOMAIN h \cup {n} /\ n \notin DOMAIN h /\ n # Nil
      /\ g[n][t] = c /\ g[n][Opp(t)] = q
      /\ \A m \in DOMAIN h : g[m].key = h[m].key
      /\ \A m \in DOMAIN h : \A u \in Sides : g[m][u] = IF m = p /\ u = s THEN n ELSE h[m][u]
  BY DEF Grafted
<1>3. \A m \in Places(h) : D[m] \subseteq DOMAIN h /\ n \notin D[m] /\ m # n
  BY <1>1, <1>2 DEF Forest, Places
<1>4. E[n] = {n} \cup D[c] \cup D[q]
  BY DEF GraftedBelow
<1>5. \A m \in Places(h) : E[m] = IF p \in D[m] THEN D[m] \cup {n} \cup D[q] ELSE D[m]
  BY <1>3 DEF GraftedBelow
<1>6. p \notin D[c] /\ p \notin D[q]
  <2>1. p # Nil => p \in DOMAIN h /\ p \notin D[h[p][s]] /\ p \in D[p]
    BY <1>1, ForestSides DEF Places
  <2>2. p = Nil => p \notin D[c] /\ p \notin D[q]
    BY <1>1, <1>3 DEF IsHeap
  <2> QED BY <2>1, <2>2, <1>1
<1>7. ASSUME NEW a \in DOMAIN g, NEW u \in Sides, NEW m \in E[g[a][u]] PROVE Fits(u, g[m].key, g[a].key)
  <2>1. CASE a = n
    <3>1. u = t \/ u = Opp(t)
      BY <1>1, OppSide
    <3>2. E[c] = D[c] /\ E[q] = D[q]
      BY <1>1, <1>5, <1>6
    <3>3. CASE u = t
      <4>1. m \in D[c] /\ m \in DOMAIN h
        BY <3>2, <3>3, <2>1, <1>1, <1>2, <1>3, <1>7
      <4> QED BY <4>1, <3>3, <2>1, <1>2 DEF KeyPlace
    <3>4. CASE u = Opp(t)
      <4>1. m \in D[q] /\ m \in DOMAIN h
        BY <3>2, <3>4, <2>1, <1>1, <1>2, <1>3, <1>7
      <4> QED BY <4>1, <3>4, <2>1, <1>2 DEF KeyPlace
    <3> QED BY <3>1, <3>3, <3>4
  <2>2. CASE a # n
    <3>1. a \in DOMAIN h /\ g[a].key = h[a].key /\ h[a][u] \in Places(h)
      BY <2>2, <1>1, <1>2, ChildIs
    <3>2. ASSUME m \in D[h[a][u]] PROVE Fits(u, g[m].key, g[a].key)
      BY <3>1, <3>2, <1>2, <1>3 DEF Ordered
    <3>3. CASE a = p /\ u = s
      <4>1. m \in D[c] \/ m \in D[q] \cup {n}
        BY <3>1, <3>3, <1>2, <1>4, <1>7
      <4>2. h[a][u] = c
        BY <3>1, <3>3, <1>1 DEF IsHeap
      <4> QED BY <4>1, <4>2, <3>1, <3>2, <3>3 DEF KeyPlace
    <3>4. CASE ~(a = p /\ u = s)
      <4>1. m \in E[h[a][u]]
        BY <3>1, <3>4, <1>2, <1>7
      <4>2. m \in D[h[a][u]] \/ (p \in D[h[a][u]] /\ m \in D[q] \cup {n})
        BY <4>1, <3>1, <1>5
      <4> QED BY <4>2, <3>1, <3>2 DEF KeyPlace
    <3> QED BY <3>3, <3>4
  <2> QED BY <2>1, <2>2
<1> QED BY <1>7 DEF Ordered

(* A red node leaves the heights as they are, a black one has no parent. *)
GraftedHeights(h, b, n, c, red) ==
  [m \in Places(h) \cup {n} |-> IF m = n THEN b[c] + (IF red THEN 0 ELSE 1) ELSE b[m]]

LEMMA BalancedGrafted ==
  ASSUME NEW h, NEW g, NEW n, NEW k, NEW red \in BOOLEAN, NEW c, NEW q, NEW t, NEW p, NEW s, NEW b, NEW d,
         NEW D, GraftPlace(h, D, c, q, t, p, s), Grafted(h, g, n, k, red, c, q, t, p, s),
         Balanced(h, b, Nil, d), RedsApart(h, Nil, Nil), b[c] = b[q], ~Red(h, c), ~Red(h, q),
         red <=> p # Nil
  PROVE  /\ Balanced(g, GraftedHeights(h, b, n, c, red), Nil, "left")
         /\ RedsApart(g, n, Nil) /\ (~red => RedsApart(g, Nil, Nil))
<1> PICK e : e = GraftedHeights(h, b, n, c, red)
  OBVIOUS
<1>1. /\ IsHeap(h) /\ c \in Places(h) /\ q \in Places(h) /\ t \in Sides
      /\ p \in Places(h) /\ s \in Sides /\ (p # Nil => h[p][s] = c)
  BY DEF GraftPlace
<1>2. /\ IsHeap(g) /\ DOMAIN g = DOMAIN h \cup {n} /\ n \notin DOMAIN h /\ n # Nil
      /\ g[n][t] = c /\ g[n][Opp(t)] = q /\ (g[n].red <=> red)
      /\ \A m \in DOMAIN h : (g[m].red <=> h[m].red)
      /\ \A m \in DOMAIN h : \A u \in Sides : g[m][u] = IF m = p /\ u = s THEN n ELSE h[m][u]
  BY DEF Grafted
<1>3. Places(g) = Places(h) \cup {n} /\ Nil \notin DOMAIN g /\ Nil \notin DOMAIN h /\ n \notin Places(h)
  BY <1>1, <1>2 DEF Places, IsHeap
<1>4. e[n] = b[c] + Weight(g, n) /\ \A m \in Places(h) : e[m] = b[m]
  BY <1>2, <1>3 DEF GraftedHeights, Weight
<1>5. \A m \in Places(h) : b[m] \in Nat \ {0} /\ b[Nil] = 1
  BY DEF Balanced
<1>6. \A m \in DOMAIN h : Weight(g, m) = Weight(h, m)
  BY <1>2 DEF Weight
<1>7. ASSUME NEW m \in DOMAIN g, NEW u \in Sides
      PROVE  e[m] = e[g[m][u]] + Weight(g, m) + Gap(m, u, Nil, "left")
  <2>1. Gap(m, u, Nil, "left") = 0
    BY <1>3 DEF Gap
  <2>2. CASE m = n
    <3>1. g[m][u] \in {c, q}
      BY <2>2, <1>1, <1>2, OppSide
    <3>2. e[g[m][u]] = b[c]
      BY <3>1, <1>1, <1>4
    <3>3. b[c] \in Nat /\ Weight(g, n) \in Nat
      BY <1>1, <1>5 DEF Weight
    <3> QED BY <3>2, <3>3, <2>1, <2>2, <1>4
  <2>3. CASE m # n
    <3>1. m \in DOMAIN h /\ m \in Places(h) /\ h[m][u] \in Places(h)
      BY <2>3, <1>1, <1>2, ChildIs DEF Places
    <3>2. b[m] = b[h[m][u]] + Weight(h, m) + Gap(m, u, Nil, d)
      BY <3>1, <1>1, BalancedStep
    <3>3. Gap(m, u, Nil, d) = 0
      BY <3>1, <1>3 DEF Gap
    <3>4. e[g[m][u]] = b[h[m][u]]
      <4>1. CASE m = p /\ u = s
        <5>1. red /\ h[m][u] = c /\ g[m][u] = n
          BY <4>1, <3>1, <1>1, <1>2, <1>3
        <5>2. Weight(g, n) = 0
          BY <5>1, <1>2 DEF Weight
        <5>3. b[c] \in Nat
          BY <1>1, <1>5
        <5>4. e[n] = b[c] + 0
          BY <5>2, <1>4
        <5>5. b[c] + 0 = b[c]
          BY ONLY <5>3
        <5> QED BY <5>1, <5>4, <5>5
      <4>2. CASE ~(m = p /\ u = s)
        BY <4>2, <3>1, <1>2, <1>4
      <4> QED BY <4>1, <4>2
    <3> QED BY <3>1, <3>2, <3>3, <3>4, <2>1, <1>4, <1>6
  <2> QED BY <2>2, <2>3
<1>8. Balanced(g, e, Nil, "left")
  <2>1. ASSUME NEW m \in Places(g) PROVE e[m] \in Nat \ {0}
    <3>1. CASE m = n
      <4>1. b[c] \in Nat \ {0} /\ Weight(g, n) \in Nat
        BY <1>1, <1>5 DEF Weight
      <4> QED BY <3>1, <4>1, <1>4
    <3>2. CASE m # n
      BY <3>2, <1>3, <1>4, <1>5
    <3> QED BY <3>1, <3>2
  <2>2. DOMAIN e = Places(g) /\ e = [m \in Places(g) |-> e[m]]
    BY <1>3 DEF GraftedHeights
  <2>3. e[Nil] = 1
    BY <1>4, <1>5 DEF Places
  <2>4. \A m \in DOMAIN g : \A u \in Sides : e[m] = e[g[m][u]] + Weight(g, m) + Gap(m, u, Nil, "left")
    BY <1>7
  <2>5. \A m \in Places(g) : e[m] \in Nat \ {0}
    BY <2>1
  <2> QED BY ONLY <2>2, <2>3, <2>4, <2>5, BalancedWhen
<1>9. ASSUME NEW m \in DOMAIN g, NEW u \in Sides, g[m].red, Red(g, g[m][u]) PROVE g[m][u] = n /\ red
  <2>1. CASE m = n
    <3>1. g[m][u] \in {c, q}
      BY <2>1, <1>1, <1>2, OppSide
    <3> QED BY <3>1, <1>1, <1>2, <1>9 DEF Red, Places
  <2>2. CASE m # n
    <3>1. m \in DOMAIN h /\ h[m].red /\ h[m][u] \in Places(h)
      BY <2>2, <1>1, <1>2, <1>9, ChildIs
    <3>2. CASE m = p /\ u = s
      BY <3>1, <3>2, <1>2, <1>3
    <3>3. CASE ~(m = p /\ u = s)
      <4>1. Red(h, h[m][u])
        BY <3>1, <3>3, <1>2, <1>9 DEF Red, Places
      <4>2. h[m][u] = Nil \/ m = Nil
        BY <3>1, <4>1 DEF RedsApart
      <4> QED BY <4>1, <4>2, <3>1, <1>3 DEF Red
    <3> QED BY <3>2, <3>3
  <2> QED BY <2>1, <2>2
<1>10. RedsApart(g, n, Nil) /\ (~red => RedsApart(g, Nil, Nil))
  BY <1>9 DEF RedsApart
<1> QED BY <1>8, <1>10

(* The node that malloc returns. *)
LEMMA MallocIs ==
  ASSUME Typed, DOMAIN heap # user.nodes
  PROVE  Malloc \in user.nodes /\ Malloc \notin DOMAIN heap /\ Malloc # Nil
<1>1. user \in Users /\ DOMAIN heap \subseteq user.nodes
  BY DEF Typed
<1>2. \E n : n \in user.nodes \ DOMAIN heap
  BY <1>1
<1>3. Malloc \in user.nodes \ DOMAIN heap
  BY <1>2 DEF Malloc
<1>4. user.nodes \subseteq Nat \ {0}
  BY <1>1, RbTreeAssumption
<1> QED BY <1>3, <1>4 DEF Nil

LEMMA NewNodeIs ==
  ASSUME IsHeap(heap), NEW n, n = Malloc, n \notin DOMAIN heap, n # Nil, NEW k \in Nat, NEW red \in BOOLEAN,
         NEW l \in Places(heap), NEW r \in Places(heap), NEW s, NEW g, g = NewNode(k, red, l, r)
  PROVE  Grafted(heap, g, n, k, red, l, r, "left", Nil, s) /\ Grafted(heap, g, n, k, red, r, l, "right", Nil, s)
<1>1. g = [m \in DOMAIN heap \cup {n} |->
             IF m = n THEN [key |-> k, red |-> red, left |-> l, right |-> r] ELSE heap[m]]
  BY DEF NewNode
<1>2. DOMAIN g = DOMAIN heap \cup {n} /\ Places(heap) \subseteq Places(g)
  BY <1>1 DEF Places
<1>3. g[n] = [key |-> k, red |-> red, left |-> l, right |-> r]
  BY <1>1
<1>4. \A m \in DOMAIN heap : g[m] = heap[m]
  BY <1>1
<1>5. Cells(heap) \subseteq Cells(g)
  BY <1>2 DEF Cells
<1>6. g[n] \in Cells(g)
  BY <1>2, <1>3 DEF Cells
<1>7. IsHeap(g)
  <2>1. \A m \in DOMAIN g : g[m] \in Cells(g)
    BY <1>2, <1>4, <1>5, <1>6 DEF IsHeap
  <2>2. g = [m \in DOMAIN g |-> g[m]]
    BY <1>1
  <2> QED BY <2>1, <2>2, <1>2 DEF IsHeap
<1>8. /\ g[n].key = k /\ (g[n].red <=> red) /\ g[n]["left"] = l /\ g[n]["right"] = r
      /\ Opp("left") = "right" /\ Opp("right") = "left"
  BY <1>3 DEF Opp
<1>9. \A m \in DOMAIN heap : \A u \in Sides : g[m][u] = IF m = Nil /\ u = s THEN n ELSE heap[m][u]
  BY <1>4 DEF IsHeap
<1> QED BY <1>2, <1>4, <1>7, <1>8, <1>9 DEF Grafted

LEMMA LinkedIs ==
  ASSUME NEW h, NEW g, NEW n, NEW k, NEW red, NEW c, NEW q, NEW t \in Sides, NEW s \in Sides,
         Grafted(h, g, n, k, red, c, q, t, Nil, s), NEW p \in DOMAIN h, IsHeap(h)
  PROVE  Grafted(h, [g EXCEPT ![p][s] = n], n, k, red, c, q, t, p, s)
<1>1. /\ IsHeap(g) /\ DOMAIN g = DOMAIN h \cup {n} /\ n \notin DOMAIN h /\ n # Nil
      /\ g[n].key = k /\ (g[n].red <=> red) /\ g[n][t] = c /\ g[n][Opp(t)] = q
      /\ \A m \in DOMAIN h : g[m].key = h[m].key /\ (g[m].red <=> h[m].red)
      /\ \A m \in DOMAIN h : \A u \in Sides : g[m][u] = IF m = Nil /\ u = s THEN n ELSE h[m][u]
  BY DEF Grafted
<1> PICK f : f = WithChild(g, p, s, n)
  OBVIOUS
<1>2. Kindred(g, f) /\ \A m \in DOMAIN g : \A u \in Sides : f[m][u] = IF m = p /\ u = s THEN n ELSE g[m][u]
  <2>1. p \in DOMAIN g /\ n \in Places(g)
    BY <1>1 DEF Places
  <2> QED BY <2>1, <1>1, SetChild
<1>3. f = [g EXCEPT ![p][s] = n]
  BY DEF WithChild
<1>4. /\ IsHeap(f) /\ DOMAIN f = DOMAIN g /\ \A m \in DOMAIN g : f[m].key = g[m].key /\ f[m].red = g[m].red
  BY <1>2 DEF Kindred, SameNodes
<1>5. f[n][t] = c /\ f[n][Opp(t)] = q
  <2>1. n # p /\ n \in DOMAIN g /\ Opp(t) \in Sides
    BY <1>1, OppSide
  <2> QED BY <2>1, <1>1, <1>2
<1>6. \A m \in DOMAIN h : \A u \in Sides : f[m][u] = IF m = p /\ u = s THEN n ELSE h[m][u]
  BY <1>1, <1>2 DEF IsHeap
<1> QED BY <1>1, <1>3, <1>4, <1>5, <1>6 DEF Grafted

(* A place at the end of the stack. *)
LEMMA RootOnTop ==
  ASSUME NEW h, NEW D, IsHeap(h), Forest(h, D), NEW r1, NEW r2, Parts(h, D, r1, r2), r1 # Nil,
         NEW m \in DOMAIN h, r1 \in D[m]
  PROVE  m = r1
<1> SUFFICES ASSUME m # r1 PROVE FALSE
  OBVIOUS
<1>1. PICK s \in Sides : r1 \in D[h[m][s]]
  BY BelowChild
<1> QED BY <1>1, RootHasNoParent

LEMMA PlaceIs ==
  ASSUME NEW h, NEW D, IsHeap(h), Forest(h, D), NEW r1, NEW r2, Parts(h, D, r1, r2),
         NEW path, NEW c, OnPath(h, path, r1, c), NEW s \in Sides, Top(path) # Nil => h[Top(path)][s] = c,
         NEW q \in {Nil, r2}, NEW t \in Sides
  PROVE  GraftPlace(h, D, c, q, t, Top(path), s) /\ (Top(path) = Nil => c = r1)
         /\ (Top(path) # Nil => Top(path) \in D[r1])
<1> DEFINE p == Top(path)
<1>1. r1 \in Places(h) /\ r2 \in Places(h) /\ q \in Places(h)
  BY DEF Parts, Places
<1>2. Ancestral(h, D, path, r1, c)
  BY <1>1, PathFacts
<1>3. c \in Places(h) /\ D[c] \subseteq D[r1] /\ Len(path) \in Nat
  BY <1>2 DEF Ancestral
<1>4. path \in Seq(DOMAIN h)
  BY DEF OnPath
<1>5. Len(path) # 0 => p = path[Len(path)] /\ p \in DOMAIN h /\ p \in D[r1] /\ p # Nil
  <2>1. Len(path) # 0 => Len(path) \in 1..Len(path)
    BY <1>3
  <2>2. Len(path) # 0 => path[Len(path)] \in D[r1] /\ path[Len(path)] \in DOMAIN h
    BY <2>1, <1>2 DEF Ancestral
  <2> QED BY <2>2 DEF Top, IsHeap
<1>6. p = Nil => c = r1
  <2>1. p = Nil => path = <<>>
    BY <1>4, <1>5
  <2> QED BY <2>1 DEF OnPath
<1>7. p # Nil => p \in DOMAIN h /\ p \in D[r1]
  BY <1>5 DEF Top
<1>8. p \in Places(h)
  BY <1>7 DEF Places
<1>9. D[q] = {} \/ (q = r2 /\ D[q] = D[r2])
  BY DEF Forest
<1>10. D[r1] \cap D[q] = {}
  BY <1>9 DEF Parts
<1>11. \A m \in DOMAIN h : D[m] \subseteq DOMAIN h
  BY Within
<1>12. ASSUME NEW m \in DOMAIN h, p \in D[m] PROVE D[m] \subseteq D[r1]
  <2>1. p \in DOMAIN h /\ p # Nil /\ p \in D[r1]
    BY <1>12, <1>11, <1>7 DEF IsHeap
  <2>2. r1 \in DOMAIN h /\ r1 # Nil
    BY <2>1, <1>1, Under DEF IsHeap
  <2>3. r1 \in D[m] \/ m \in D[r1]
    BY <2>1, <2>2, <1>12 DEF Forest
  <2>4. r1 \in D[m] => m = r1
    BY <2>2, RootOnTop
  <2>5. m \in D[r1] => D[m] \subseteq D[r1]
    BY <1>1, Under
  <2> QED BY <2>3, <2>4, <2>5
<1>13. ASSUME NEW m \in DOMAIN h, D[m] \cap D[q] # {} PROVE m \in D[q]
  <2>1. q = r2
    BY <1>13, <1>9
  <2>2. m \in D[r1] => D[m] \subseteq D[r1]
    BY <1>1, Under
  <2>3. m \in D[r1] \/ m \in D[r2]
    BY DEF Parts
  <2> QED BY <2>1, <2>2, <2>3, <1>10, <1>13
<1>14. ASSUME NEW m \in DOMAIN h, D[m] \cap D[c] # {} PROVE m \in D[c] \/ p \in D[m]
  <2>1. c \in DOMAIN h /\ c # Nil
    BY <1>14, <1>3 DEF Forest, Places, IsHeap
  <2>2. m \in D[c] \/ c \in D[m]
    <3>1. PICK k : k \in D[m] /\ k \in D[c]
      BY <1>14
    <3>2. k \in DOMAIN h
      BY <3>1, <1>11
    <3> QED BY <3>1, <3>2, <2>1 DEF Forest
  <2> SUFFICES ASSUME c \in D[m], m # c PROVE p \in D[m]
    <3>1. c \in D[c]
      BY <2>1, Within
    <3> QED BY <2>2, <3>1
  <2>3. p # Nil
    <3> SUFFICES ASSUME p = Nil PROVE FALSE
      OBVIOUS
    <3>1. c = r1 /\ r1 # Nil
      BY <1>6, <2>1
    <3> QED BY <3>1, RootOnTop
  <2>4. p \in DOMAIN h /\ h[p][s] = c
    BY <2>3, <1>7
  <2> QED BY <2>1, <2>4, ParentAbove
<1> QED
  <2>1. D[c] \cap D[q] = {}
    BY <1>3, <1>10
  <2>2. \A m \in DOMAIN h : p \in D[m] => D[m] \cap D[q] = {}
    BY <1>12, <1>10
  <2>3. GraftPlace(h, D, c, q, t, p, s)
    BY <1>1, <1>3, <1>8, <1>13, <1>14, <2>1, <2>2 DEF GraftPlace
  <2> QED BY <2>3, <1>6, <1>7

(* The trees after the graft. *)
GraftRoot(p, n, r1) == IF p = Nil THEN n ELSE r1
GraftRest(q, r2) == IF q = Nil THEN r2 ELSE Nil

GraftTrees(D, E, q, n, r1, R, z) == E[R] = D[r1] \cup {n} \cup D[q] /\ E[z] = IF q = Nil THEN D[z] ELSE {}

LEMMA PartsGrafted ==
  ASSUME NEW h, NEW D, NEW r1, NEW r2, Parts(h, D, r1, r2), NEW p, NEW c,
         p = Nil => c = r1, p # Nil => p \in D[r1],
         NEW q \in {Nil, r2}, NEW t, NEW s, GraftPlace(h, D, c, q, t, p, s),
         NEW g, NEW n, NEW k, NEW red, Grafted(h, g, n, k, red, c, q, t, p, s),
         NEW E, E = GraftedBelow(h, D, n, c, q, p)
  PROVE  /\ Parts(g, E, GraftRoot(p, n, r1), GraftRest(q, r2))
         /\ GraftTrees(D, E, q, n, r1, GraftRoot(p, n, r1), GraftRest(q, r2))
<1> DEFINE R == GraftRoot(p, n, r1)
           z == GraftRest(q, r2)
<1>1. r1 \in Places(h) /\ r2 \in Places(h) /\ D[r1] \cup D[r2] = DOMAIN h /\ D[r1] \cap D[r2] = {}
  BY DEF Parts
<1>2. Forest(h, D) /\ IsHeap(h)
  BY DEF GraftPlace
<1>3. D[Nil] = {} /\ D \in [Places(h) -> SUBSET DOMAIN h] /\ Nil \notin DOMAIN h
  BY <1>2 DEF Forest, IsHeap
<1>4. n \notin DOMAIN h /\ n # Nil /\ DOMAIN g = DOMAIN h \cup {n} /\ Places(g) = Places(h) \cup {n}
      /\ n \notin Places(h)
  BY DEF Grafted, Places
<1>5. \A m \in Places(h) : E[m] = IF p \in D[m] THEN D[m] \cup {n} \cup D[q] ELSE D[m]
  BY <1>4 DEF GraftedBelow
<1>6. E[n] = {n} \cup D[c] \cup D[q]
  BY DEF GraftedBelow
<1>7. E[R] = D[r1] \cup {n} \cup D[q]
  <2>1. CASE p = Nil
    BY <2>1, <1>6 DEF GraftRoot
  <2>2. CASE p # Nil
    BY <2>2, <1>1, <1>5 DEF GraftRoot
  <2> QED BY <2>1, <2>2
<1>8. E[z] = IF q = Nil THEN D[z] ELSE {}
  <2>1. p \notin D[Nil] /\ p \notin D[r2]
    <3>1. p = Nil => p \notin D[r2]
      BY <1>1, <1>3
    <3> QED BY <3>1, <1>1, <1>3
  <2> QED BY <2>1, <1>1, <1>3, <1>5 DEF GraftRest, Places
<1>9. R \in Places(g) /\ z \in Places(g)
  BY <1>1, <1>4 DEF GraftRoot, GraftRest, Places
<1>10. D[r1] \cup D[q] \cup E[z] = DOMAIN h /\ (D[r1] \cup D[q]) \cap E[z] = {} /\ n \notin E[z]
  <2>1. CASE q = Nil
    BY <2>1, <1>1, <1>3, <1>4, <1>8 DEF GraftRest
  <2>2. CASE q # Nil
    BY <2>2, <1>1, <1>3, <1>4, <1>8
  <2> QED BY <2>1, <2>2
<1>11. Parts(g, E, R, z)
  <2>1. E[R] \cup E[z] = DOMAIN g /\ E[R] \cap E[z] = {}
    BY <1>4, <1>7, <1>10
  <2> QED BY <2>1, <1>9 DEF Parts
<1> QED BY <1>7, <1>8, <1>11 DEF GraftTrees

(* A fixup starts. *)
LEMMA FixupStarts ==
  ASSUME NEW E, NEW c, Fixing', Typed', Control',
         pc' = "insert_fixup" => node' # Nil /\ heap'[node'].red,
         Sound(heap', E, c, Hole', Side', node', Removed'),
         Rooted(heap', E, c, tree', spare', node', MissingAtRoot'),
         OnPath(heap', stack', tree'.root, node'), Short(heap', c, stack', tree'.bh),
         2 * tree'.bh < tree'.ssize
  PROVE  Inv(E, c)'
<1>1. y' = Nil
  BY DEF Control, Fixing
<1>2. Except' = node' /\ Higher' = tree' /\ At' = node' /\ Tracked' /\ ~Joining'
  BY <1>1 DEF Fixing, Except, Higher, At, Tracked, Joining
<1>3. Ancestors(c)'
  BY <1>2 DEF Ancestors
<1>4. Searching(E)' /\ Inserting' /\ Removing(E)' /\ Leftmost(E)' /\ Meeting(E, c)'
  BY <1>2 DEF Searching, Inserting, Removing, Leftmost, Meeting, Fixing, Joining
<1> QED BY <1>2, <1>3, <1>4 DEF Inv

(* Before the graft, and after it. *)
GraftReady(D, b, n, c, q, t, s) ==
  /\ Tracked /\ ~Fixing /\ At = c /\ n \in user.nodes /\ x \in Keys
  /\ op \in Inserts \cup {"join"}
  /\ s \in Sides /\ t \in Sides /\ (Up(0) # Nil => heap[Up(0)][s] = c)
  /\ q \in {Nil, Lower.root} /\ b[c] = b[q] /\ ~Red(heap, c) /\ ~Red(heap, q)

Raised(t, n) == [t EXCEPT !.root = n, !.bh = @ + 1]

GraftMade(q, n) ==
  /\ user' = user /\ spare' = IF q = Nil THEN Lower ELSE NewTree
  /\ IF Up(0) = Nil THEN tree' = Raised(Higher, n) /\ Done(0)
     ELSE /\ tree' = Higher /\ pc' = "insert_fixup" /\ node' = n /\ y' = Nil /\ bh' \in Nat
          /\ UNCHANGED <<stack, op, x, result>>

GraftEffect(D, E, q, n) ==
  /\ E[tree'.root] = D[Higher.root] \cup {n} \cup D[q]
  /\ E[spare'.root] = IF q = Nil THEN D[Lower.root] ELSE {}

LEMMA GraftSound ==
  ASSUME NEW D, NEW b, Inv(D, b), NEW n, NEW c, NEW q, NEW t, NEW s, GraftReady(D, b, n, c, q, t, s),
         NEW g, NEW p, p = Up(0), Grafted(heap, g, n, x, p # Nil, c, q, t, p, s),
         KeyPlace(heap, D, g, n, c, q, t, p, s),
         NEW E, E = GraftedBelow(heap, D, n, c, q, p), NEW e, e = GraftedHeights(heap, b, n, c, p # Nil)
  PROVE  /\ Sound(g, E, e, Nil, "left", n, Nil) /\ (p = Nil => Sound(g, E, e, Nil, "left", Nil, Nil))
         /\ Parts(g, E, GraftRoot(p, n, Higher.root), GraftRest(q, Lower.root))
         /\ GraftTrees(D, E, q, n, Higher.root, GraftRoot(p, n, Higher.root), GraftRest(q, Lower.root))
         /\ GraftPlace(heap, D, c, q, t, p, s) /\ (p = Nil => c = Higher.root)
<1>1. /\ Tracked /\ ~Fixing /\ At = c /\ s \in Sides /\ t \in Sides /\ (p # Nil => heap[p][s] = c)
      /\ q \in {Nil, Lower.root} /\ b[c] = b[q] /\ ~Red(heap, c) /\ ~Red(heap, q)
  BY DEF GraftReady
<1>2. /\ OnPath(heap, stack, Higher.root, c) /\ Parts(heap, D, Higher.root, Lower.root) /\ p = Top(stack)
      /\ Sound(heap, D, b, Nil, "left", Nil, Nil)
  BY <1>1, OnTheWay
<1>3. /\ IsHeap(heap) /\ Forest(heap, D) /\ Ordered(heap, D) /\ Balanced(heap, b, Nil, "left")
      /\ RedsApart(heap, Nil, Nil)
  BY <1>2 DEF Sound
<1>4. /\ GraftPlace(heap, D, c, q, t, p, s) /\ (p = Nil => c = Higher.root)
      /\ (p # Nil => p \in D[Higher.root])
  BY ONLY <1>1, <1>2, <1>3, PlaceIs
<1>5. Forest(g, E)
  BY <1>4, ForestGrafted
<1>6. Ordered(g, E)
  BY <1>3, <1>4, OrderedGrafted
<1>7. Balanced(g, e, Nil, "left") /\ RedsApart(g, n, Nil) /\ (p = Nil => RedsApart(g, Nil, Nil))
  <2>1. PICK red \in BOOLEAN : red <=> p # Nil
    OBVIOUS
  <2>2. Grafted(heap, g, n, x, red, c, q, t, p, s)
    BY <2>1 DEF Grafted
  <2>3. e = GraftedHeights(heap, b, n, c, red)
    BY <2>1 DEF GraftedHeights
  <2> QED BY ONLY <2>1, <2>2, <2>3, <1>1, <1>3, <1>4, BalancedGrafted
<1>8. /\ Parts(g, E, GraftRoot(p, n, Higher.root), GraftRest(q, Lower.root))
      /\ GraftTrees(D, E, q, n, Higher.root, GraftRoot(p, n, Higher.root), GraftRest(q, Lower.root))
  <2> DEFINE r1 == Higher.root
             r2 == Lower.root
  <2>1. Parts(heap, D, r1, r2) /\ q \in {Nil, r2} /\ (p = Nil => c = r1) /\ (p # Nil => p \in D[r1])
    BY <1>1, <1>2, <1>4
  <2>2. PICK red : red <=> (p # Nil)
    OBVIOUS
  <2>3. Grafted(heap, g, n, x, red, c, q, t, p, s)
    BY <2>2 DEF Grafted
  <2>4. E = GraftedBelow(heap, D, n, c, q, p)
    OBVIOUS
  <2> HIDE DEF r1, r2
  <2>5. Parts(g, E, GraftRoot(p, n, r1), GraftRest(q, r2)) /\ GraftTrees(D, E, q, n, r1, GraftRoot(p, n, r1), GraftRest(q, r2))
    BY ONLY <2>1, <2>3, <2>4, <1>4, PartsGrafted
  <2> QED BY <2>5 DEF r1, r2
<1>9. IsHeap(g)
  BY DEF Grafted
<1> QED BY <1>4, <1>5, <1>6, <1>7, <1>8, <1>9 DEF Sound

LEMMA GraftRooted ==
  ASSUME NEW D, NEW b, Inv(D, b), NEW n, NEW c, NEW q, NEW t, NEW s, GraftReady(D, b, n, c, q, t, s),
         NEW g, NEW p, p = Up(0), Grafted(heap, g, n, x, p # Nil, c, q, t, p, s),
         KeyPlace(heap, D, g, n, c, q, t, p, s),
         NEW E, E = GraftedBelow(heap, D, n, c, q, p), NEW e, e = GraftedHeights(heap, b, n, c, p # Nil),
         NEW v, v = IF p = Nil THEN Raised(Higher, n) ELSE Higher,
         NEW u, u = IF q = Nil THEN Lower ELSE NewTree
  PROVE  /\ Rooted(g, E, e, v, u, Nil, 0)
         /\ v.root = GraftRoot(p, n, Higher.root) /\ u.root = GraftRest(q, Lower.root)
<1> DEFINE r1 == Higher.root
           r2 == Lower.root
<1>1. /\ Higher \in Trees(heap) /\ Lower \in Trees(heap) /\ b[r1] = Higher.bh + 1
      /\ b[r2] = Lower.bh + 1 /\ ~Red(heap, r1) /\ ~Red(heap, r2) /\ Parts(heap, D, r1, r2)
  BY OnTheWay DEF GraftReady
<1>2. q \in {Nil, r2} /\ ~Red(heap, c)
  BY DEF GraftReady
<1>3. Parts(g, E, GraftRoot(p, n, r1), GraftRest(q, r2)) /\ (p = Nil => c = r1)
  BY GraftSound
<1>4. /\ n \notin DOMAIN heap /\ n # Nil /\ Places(g) = Places(heap) \cup {n} /\ n \notin Places(heap)
      /\ (g[n].red <=> p # Nil) /\ \A m \in DOMAIN heap : g[m].red <=> heap[m].red
  BY DEF Grafted, Places
<1>5. r1 \in Places(heap) /\ r2 \in Places(heap) /\ Nil \in Places(heap) /\ Higher.bh \in Nat /\ Lower.bh \in Nat
      /\ Nil \notin DOMAIN heap /\ b[Nil] = 1
  <2>1. Balanced(heap, b, Nil, "left") /\ IsHeap(heap)
    BY OnTheWay DEF GraftReady, Sound
  <2> QED BY <1>1, <2>1 DEF Trees, Places, IsHeap, Balanced
<1>6. e[n] = b[c] + (IF p # Nil THEN 0 ELSE 1) /\ \A m \in Places(heap) : e[m] = b[m]
  BY <1>4 DEF GraftedHeights
<1>7. v \in Trees(g) /\ v.root = GraftRoot(p, n, r1) /\ e[v.root] + 0 = v.bh + 1 /\ ~Red(g, v.root)
  <2>1. CASE p = Nil
    <3>1. v = Raised(Higher, n)
      BY <2>1
    <3>2. Raised(Higher, n) \in Trees(g) /\ Raised(Higher, n).root = n /\ Raised(Higher, n).bh = Higher.bh + 1
      <4>1. n \in Places(g) /\ Places(heap) \subseteq Places(g)
        BY ONLY <1>4
      <4>2. ASSUME NEW T \in Trees(heap)
            PROVE  Raised(T, n) \in Trees(g) /\ Raised(T, n).root = n /\ Raised(T, n).bh = T.bh + 1
        <5>1. PICK k \in Nat : k = T.bh + 1
          BY DEF Trees
        <5>2. Raised(T, n) = [T EXCEPT !.root = n, !.bh = k]
          BY <5>1 DEF Raised
        <5>3. T \in [root : Places(g), bh : Nat, ssize : Nat]
          BY ONLY <4>1, T \in Trees(heap) DEF Trees
        <5>4. /\ [T EXCEPT !.root = n, !.bh = k] \in [root : Places(g), bh : Nat, ssize : Nat]
              /\ [T EXCEPT !.root = n, !.bh = k].root = n /\ [T EXCEPT !.root = n, !.bh = k].bh = k
          BY ONLY <5>3, <4>1, k \in Nat
        <5> QED BY ONLY <5>1, <5>2, <5>4 DEF Trees
      <4> QED BY ONLY <1>1, <4>2
    <3>3. e[n] = Higher.bh + 2
      BY <2>1, <1>1, <1>3, <1>5, <1>6
    <3>4. ~Red(g, n)
      BY <2>1, <1>4 DEF Red
    <3>5. e[v.root] + 0 = v.bh + 1
      BY ONLY <3>1, <3>2, <3>3, <1>5
    <3> QED BY <2>1, <3>1, <3>2, <3>4, <3>5 DEF GraftRoot
  <2>2. CASE p # Nil
    <3>1. v = Higher
      BY <2>2
    <3>2. Higher \in Trees(g)
      BY ONLY <1>1, <1>4 DEF Trees
    <3>3. e[r1] + 0 = Higher.bh + 1
      BY ONLY <1>1, <1>5, <1>6
    <3>4. ~Red(g, r1)
      BY ONLY <1>1, <1>4, <1>5 DEF Red, Places
    <3> QED BY <2>2, <3>1, <3>2, <3>3, <3>4 DEF GraftRoot
  <2> QED BY <2>1, <2>2
<1>8. u \in Trees(g) /\ u.root = GraftRest(q, r2) /\ e[u.root] = u.bh + 1 /\ ~Red(g, u.root)
  <2>1. CASE q = Nil
    <3>1. u = Lower
      BY <2>1
    <3>2. Lower \in Trees(g)
      BY ONLY <1>1, <1>4 DEF Trees
    <3>3. e[r2] = Lower.bh + 1
      BY ONLY <1>1, <1>5, <1>6
    <3>4. ~Red(g, r2)
      BY ONLY <1>1, <1>4, <1>5 DEF Red, Places
    <3> QED BY <2>1, <3>1, <3>2, <3>3, <3>4 DEF GraftRest
  <2>2. CASE q # Nil
    <3>1. u = NewTree
      BY <2>2
    <3>2. NewTree \in Trees(g) /\ NewTree.root = Nil /\ NewTree.bh = 0
      BY ONLY <1>4, <1>5 DEF Trees, NewTree
    <3>3. e[Nil] = 0 + 1 /\ ~Red(g, Nil)
      BY ONLY <1>5, <1>6 DEF Red
    <3> QED BY <2>2, <3>1, <3>2, <3>3 DEF GraftRest
  <2> QED BY <2>1, <2>2
<1>9. Parts(g, E, v.root, u.root)
  BY <1>3, <1>7, <1>8
<1> QED BY <1>7, <1>8, <1>9 DEF Rooted

(* The way to the place of c leads to n. *)
LEMMA GraftedPath ==
  ASSUME NEW h, NEW D, NEW b, NEW path, NEW r1, NEW c, OnPath(h, path, r1, c), Top(path) # Nil,
         NEW g, NEW n, NEW k, NEW red, NEW q, NEW t, NEW s \in Sides, NEW p, p = Top(path),
         Grafted(h, g, n, k, red, c, q, t, p, s), h[p][s] = c, IsHeap(h), Forest(h, D), r1 \in Places(h),
         NEW top, Short(h, b, path, top), NEW e, e = GraftedHeights(h, b, n, c, red)
  PROVE  OnPath(g, path, r1, n) /\ Short(g, e, path, top)
<1>1. path \in Seq(DOMAIN h) /\ Len(path) \in Nat
  BY DEF OnPath
<1>2. n \notin DOMAIN h /\ DOMAIN g = DOMAIN h \cup {n}
      /\ \A m \in DOMAIN h : /\ g[m].red <=> h[m].red
                             /\ \A u \in Sides : g[m][u] = IF m = p /\ u = s THEN n ELSE h[m][u]
  BY DEF Grafted
<1>3. path # <<>> /\ p = path[Len(path)] /\ Len(path) \in 1..Len(path)
  BY <1>1 DEF Top
<1>4. \A i \in 1..Len(path) : path[i] \in DOMAIN h /\ (i < Len(path) => path[i] # p)
  <2>1. \A i \in 1..Len(path) : /\ path[i] \in DOMAIN h
                                 /\ \A j \in 1..Len(path) : i < j => path[i] # path[j]
    BY PathNode
  <2> QED BY ONLY <2>1, <1>3
<1>5. path \in Seq(DOMAIN g)
  <2>1. DOMAIN h \subseteq DOMAIN g
    BY <1>2
  <2> QED BY ONLY <2>1, <1>1, SeqMonotonic
<1>6. ASSUME NEW i \in 1..Len(path), i # Len(path), NEW u \in Sides, h[path[i]][u] = path[i + 1]
      PROVE  g[path[i]][u] = path[i + 1]
  <2>1. i < Len(path)
    BY <1>1, <1>6
  <2> QED BY <2>1, <1>2, <1>4, <1>6
<1>7. g[p][s] = n
  BY <1>2, <1>3, <1>4
<1>8. OnPath(g, path, r1, n)
  BY <1>3, <1>5, <1>6, <1>7, KeepPath
<1>9. \A i \in 1..Len(path) : e[path[i]] = b[path[i]] /\ (g[path[i]].red <=> h[path[i]].red)
  BY <1>2, <1>4 DEF GraftedHeights, Places
<1> QED BY <1>1, <1>8, <1>9, ShortKept

LEMMA GraftKeeps ==
  ASSUME NEW D, NEW b, Inv(D, b), NEW n, NEW c, NEW q, NEW t, NEW s, GraftReady(D, b, n, c, q, t, s),
         GraftMade(q, n), NEW p, p = Up(0), Grafted(heap, heap', n, x, p # Nil, c, q, t, p, s),
         KeyPlace(heap, D, heap', n, c, q, t, p, s)
  PROVE  \E E, e : Inv(E, e)' /\ GraftEffect(D, E, q, n)
<1>1. PICK E : E = GraftedBelow(heap, D, n, c, q, p)
  OBVIOUS
<1>2. PICK e : e = GraftedHeights(heap, b, n, c, p # Nil)
  OBVIOUS
<1>3. /\ Sound(heap', E, e, Nil, "left", n, Nil) /\ (p = Nil => Sound(heap', E, e, Nil, "left", Nil, Nil))
      /\ GraftTrees(D, E, q, n, Higher.root, GraftRoot(p, n, Higher.root), GraftRest(q, Lower.root))
  BY <1>1, <1>2, GraftSound
<1>4. PICK v : v = IF p = Nil THEN Raised(Higher, n) ELSE Higher
  OBVIOUS
<1>5. PICK u : u = IF q = Nil THEN Lower ELSE NewTree
  OBVIOUS
<1>6. /\ Rooted(heap', E, e, v, u, Nil, 0)
      /\ v.root = GraftRoot(p, n, Higher.root) /\ u.root = GraftRest(q, Lower.root)
  BY <1>1, <1>2, <1>4, <1>5, GraftRooted
<1>7. tree' = v /\ spare' = u /\ user' = user
  BY <1>4, <1>5 DEF GraftMade
<1>8. GraftEffect(D, E, q, n)
  <2>1. D[GraftRest(q, Lower.root)] = D[Lower.root] \/ q # Nil
    BY DEF GraftRest
  <2> QED BY <2>1, <1>3, <1>6, <1>7 DEF GraftTrees, GraftEffect
<1>9. /\ Tracked /\ ~Fixing /\ At = c /\ n \in user.nodes /\ x \in Keys /\ op \in Inserts \cup {"join"}
      /\ s \in Sides /\ (p # Nil => heap[p][s] = c)
  BY DEF GraftReady
<1>10. Typed
  BY <1>9, WhenCalm
<1>11. /\ n \notin DOMAIN heap /\ DOMAIN heap' = DOMAIN heap \cup {n} /\ heap'[n].key = x /\ n # Nil
       /\ (heap'[n].red <=> p # Nil) /\ \A m \in DOMAIN heap : heap'[m].key = heap[m].key
  BY DEF Grafted
<1>12. /\ user' \in Users /\ DOMAIN heap' \subseteq user'.nodes
       /\ \A m \in DOMAIN heap' : heap'[m].key \in Keys
  BY <1>7, <1>9, <1>10, <1>11 DEF Typed
<1>13. CASE p = Nil
  <2>1. Done(0)
    BY <1>13 DEF GraftMade
  <2>2. Calm(heap', E, e, tree', spare')
    BY <1>3, <1>6, <1>7, <1>13 DEF Calm
  <2>3. Inv(E, e)'
    BY <2>1, <2>2, <1>12, Returned
  <2> QED BY <2>3, <1>8
<1>14. CASE p # Nil
  <2>1. /\ tree' = Higher /\ pc' = "insert_fixup" /\ node' = n /\ y' = Nil /\ bh' \in Nat
        /\ UNCHANGED <<stack, op, x, result>>
    BY <1>14 DEF GraftMade
  <2>2. /\ Fixing' /\ Tracked' /\ Hole' = Nil /\ Removed' = Nil /\ MissingAtRoot' = 0
    BY <2>1 DEF Fixing, Tracked, Hole, Removed, MissingAtRoot
  <2>3. Typed'
    BY <2>1, <1>10, <1>11, <1>12 DEF Typed, Places
  <2>4. Control'
    BY <2>1, <2>2, <1>9, Zenon DEF Control
  <2>5. Sound(heap', E, e, Hole', Side', node', Removed')
    BY <2>1, <2>2, <1>3, NoHole
  <2>6. Rooted(heap', E, e, tree', spare', node', MissingAtRoot')
    <3>1. Rooted(heap', E, e, tree', spare', Nil, 0)
      BY <1>6, <1>7
    <3>2. ~Red(heap', tree'.root)
      BY <3>1 DEF Rooted, Red
    <3> QED BY <3>1, <3>2, <2>2 DEF Rooted
  <2>7. /\ OnPath(heap, stack, Higher.root, c) /\ Short(heap, b, stack, Higher.bh) /\ p = Top(stack)
        /\ 2 * Higher.bh < Higher.ssize /\ Higher.root \in Places(heap) /\ IsHeap(heap) /\ Forest(heap, D)
    BY <1>9, OnTheWay DEF Sound, Parts
  <2>8. PICK red : red <=> p # Nil
    OBVIOUS
  <2>9. Grafted(heap, heap', n, x, red, c, q, t, p, s)
    BY <2>8 DEF Grafted
  <2>10. e = GraftedHeights(heap, b, n, c, red)
    BY <2>8, <1>2 DEF GraftedHeights
  <2>11. Top(stack) # Nil /\ heap[p][s] = c
    BY <2>7, <1>9, <1>14
  <2>12. OnPath(heap', stack, Higher.root, n) /\ Short(heap', e, stack, Higher.bh)
    BY ONLY <2>7, <2>9, <2>10, <2>11, <1>9, GraftedPath
  <2>13. /\ OnPath(heap', stack', tree'.root, node') /\ Short(heap', e, stack', tree'.bh)
         /\ 2 * tree'.bh < tree'.ssize
    BY <2>1, <2>7, <2>12
  <2>14. node' # Nil /\ heap'[node'].red
    BY <2>1, <1>11, <1>14
  <2>15. Inv(E, e)'
    BY <2>2, <2>3, <2>4, <2>5, <2>6, <2>13, <2>14, FixupStarts
  <2> QED BY <2>15, <1>8
<1> QED BY <1>13, <1>14

(* What a call to rb_insert does: one more node below the root, with the   *)
(* key. *)
Gains(D, E, n) ==
  /\ n \notin DOMAIN heap /\ DOMAIN heap' = DOMAIN heap \cup {n} /\ heap'[n].key = x
  /\ \A m \in DOMAIN heap : heap'[m].key = heap[m].key
  /\ GraftEffect(D, E, Nil, n)

LEMMA DoInsertKeeps ==
  ASSUME NEW D, NEW b, Inv(D, b), DoInsert
  PROVE  \E E, e, n : Inv(E, e)' /\ Gains(D, E, n)
<1> DEFINE s == ChildSide(x, Up(0))
<1>1. PICK n : n = Malloc
  OBVIOUS
<1>2. PICK p : p = Up(0)
  OBVIOUS
<1>3. pc = "descend" /\ node = Nil /\ op \in Inserts
  BY DEF DoInsert
<1>4. Tracked /\ ~Fixing /\ ~Joining /\ Control /\ Typed /\ Searching(D)
  BY <1>3 DEF Tracked, Fixing, Joining, Inserts, Inv
<1>5. DOMAIN heap # user.nodes /\ x \in Keys /\ y = Nil /\ At = Nil
  BY <1>3, <1>4 DEF Control, At
<1>6. n \in user.nodes /\ n \notin DOMAIN heap /\ n # Nil
  BY <1>1, <1>4, <1>5, MallocIs
<1>7. Higher = tree /\ Lower = spare
  BY <1>4 DEF Joining, Higher, Lower
<1>8. /\ p = Top(stack) /\ OnPath(heap, stack, tree.root, Nil) /\ Sound(heap, D, b, Nil, "left", Nil, Nil)
      /\ Depth \in Nat /\ Depth = Len(stack) /\ (stack = <<>> <=> Depth = 0)
  BY <1>2, <1>4, <1>5, <1>7, OnTheWay
<1>9. IsHeap(heap) /\ Forest(heap, D) /\ D[Nil] = {} /\ Nil \in Places(heap)
  BY <1>8 DEF Sound, Forest, Places
<1>10. x \in Nat
  BY <1>5, KeysAreNumbers
<1>11. s \in Sides
  BY DEF ChildSide, Sides
<1>12. p # Nil => /\ p \in DOMAIN heap /\ Depth > 0 /\ heap[p][s] = Nil
                  /\ \A m \in DOMAIN heap : \A u \in Sides : p \in D[heap[m][u]] => Fits(u, x, heap[m].key)
  <2> SUFFICES ASSUME p # Nil
               PROVE  /\ p \in DOMAIN heap /\ Depth > 0 /\ heap[p][s] = Nil
                      /\ \A m \in DOMAIN heap : \A u \in Sides : p \in D[heap[m][u]] => Fits(u, x, heap[m].key)
    OBVIOUS
  <2>1. Depth > 0
    BY <1>8 DEF Top
  <2>2. stack # <<>>
    BY <2>1, <1>8
  <2>3. p \in DOMAIN heap
    BY <2>2, <1>8, PopPath
  <2>4. op # "search"
    BY <1>3 DEF Inserts
  <2> QED BY <2>1, <2>3, <2>4, <1>2, <1>3, <1>4 DEF Searching
<1>13. p # Nil => Fits(s, x, heap[p].key)
  <2>1. p # Nil => heap[p].key \in Nat
    BY <1>9, <1>12 DEF IsHeap, Cells
  <2> QED BY <2>1, <1>2, <1>10, ChildSideFits
<1>14. Grafted(heap, heap', n, x, p # Nil, Nil, Nil, "left", p, s)
  <2>1. CASE p = Nil
    <3>1. heap' = NewNode(x, FALSE, Nil, Nil)
      BY <2>1, <1>2 DEF DoInsert
    <3>2. Grafted(heap, heap', n, x, FALSE, Nil, Nil, "left", Nil, s)
      BY <3>1, <1>1, <1>6, <1>9, <1>10, NewNodeIs
    <3> QED BY <3>2, <2>1 DEF Grafted
  <2>2. CASE p # Nil
    <3>1. PICK g : g = NewNode(x, TRUE, Nil, Nil)
      OBVIOUS
    <3>2. Grafted(heap, g, n, x, TRUE, Nil, Nil, "left", Nil, s)
      BY <3>1, <1>1, <1>6, <1>9, <1>10, NewNodeIs
    <3>3. heap' = [g EXCEPT ![p][s] = n]
      BY <3>1, <2>2, <1>1, <1>2 DEF DoInsert
    <3>4. "left" \in Sides
      BY DEF Sides
    <3>5. Grafted(heap, [g EXCEPT ![p][s] = n], n, x, TRUE, Nil, Nil, "left", p, s)
      BY ONLY <3>2, <3>4, <1>9, <1>11, <1>12, <2>2, LinkedIs
    <3> QED BY <3>3, <3>5, <2>2 DEF Grafted
  <2> QED BY <2>1, <2>2
<1>15. KeyPlace(heap, D, heap', n, Nil, Nil, "left", p, s)
  <2>1. heap'[n].key = x
    BY <1>14 DEF Grafted
  <2>2. ASSUME NEW a \in DOMAIN heap, NEW u \in Sides, p \in D[heap[a][u]] \/ (a = p /\ u = s)
        PROVE  Fits(u, x, heap[a].key)
    <3>1. p # Nil
      <4>1. heap[a][u] \in Places(heap)
        BY <1>9, ChildIs
      <4>2. D[heap[a][u]] \subseteq DOMAIN heap /\ Nil \notin DOMAIN heap
        BY <4>1, <1>9 DEF Forest, IsHeap
      <4> QED BY <4>2, <2>2
    <3> QED BY <3>1, <2>2, <1>12, <1>13
  <2> QED BY <2>1, <2>2, <1>9 DEF KeyPlace
<1>16. GraftReady(D, b, n, Nil, Nil, "left", s)
  <2>1. ~Red(heap, Nil) /\ "left" \in Sides
    BY DEF Red, Sides
  <2> QED BY <2>1, <1>2, <1>3, <1>4, <1>5, <1>6, <1>11, <1>12 DEF GraftReady
<1>17. GraftMade(Nil, n)
  <2>1. y' = Nil \/ Up(0) = Nil
    BY <1>5 DEF DoInsert
  <2>2. bh \in Nat
    BY <1>4 DEF Typed
  <2> QED BY <2>1, <2>2, <1>1, <1>5, <1>7 DEF DoInsert, GraftMade, Raised
<1>18. \E E, e : Inv(E, e)' /\ GraftEffect(D, E, Nil, n)
  BY ONLY <1>2, <1>14, <1>15, <1>16, <1>17, Inv(D, b), GraftKeeps
<1>19. /\ n \notin DOMAIN heap /\ DOMAIN heap' = DOMAIN heap \cup {n} /\ heap'[n].key = x
       /\ \A m \in DOMAIN heap : heap'[m].key = heap[m].key
  BY <1>14 DEF Grafted
<1> QED BY <1>18, <1>19 DEF Gains

(* The keys of the higher tree belong before the new node, seen from the   *)
(* side of the join, and those of the lower one after it. *)
LEMMA JoinKeys ==
  ASSUME NEW D, NEW b, Inv(D, b), Joining
  PROVE  /\ x \in Keys /\ JoinSide \in Sides
         /\ \A m \in D[Higher.root] : Fits(Opp(JoinSide), heap[m].key, x)
         /\ \A m \in D[Lower.root] : Fits(JoinSide, heap[m].key, x)
<1>1. pc \in {"join", "join_right", "join_left"}
  BY DEF Joining
<1>2. /\ x \in Keys /\ \A m \in D[tree.root] : heap[m].key <= x
      /\ \A m \in D[spare.root] : x <= heap[m].key
  BY <1>1 DEF Inv, Control, Meeting
<1>3. CASE pc = "join_right"
  <2>1. Higher = tree /\ Lower = spare /\ JoinSide = "right" /\ Opp(JoinSide) = "left"
    BY <1>3 DEF Higher, Lower, JoinSide, Opp
  <2>2. "right" \in Sides
    BY DEF Sides
  <2> QED BY <2>1, <2>2, <1>2 DEF Fits
<1>4. CASE pc = "join_left"
  <2>1. Higher = spare /\ Lower = tree /\ JoinSide = "left" /\ Opp(JoinSide) = "right"
    BY <1>4 DEF Higher, Lower, JoinSide, Opp
  <2>2. "left" \in Sides
    BY DEF Sides
  <2> QED BY <2>1, <2>2, <1>2 DEF Fits
<1> QED BY <1>3, <1>4 DEF Joining

(* What it does in rb_join. *)
Joins(D, E, n) ==
  /\ n \notin DOMAIN heap /\ DOMAIN heap' = DOMAIN heap \cup {n} /\ heap'[n].key = x
  /\ \A m \in DOMAIN heap : heap'[m].key = heap[m].key
  /\ E[tree'.root] = D[tree.root] \cup {n} \cup D[spare.root] /\ E[spare'.root] = {}

LEMMA JoinLinkKeeps ==
  ASSUME NEW D, NEW b, Inv(D, b), JoinLink
  PROVE  \E E, e, n : Inv(E, e)' /\ Joins(D, E, n)
<1> DEFINE s == JoinSide
           t == Opp(JoinSide)
           q == Lower.root
           c == node
<1>1. PICK n : n = Malloc
  OBVIOUS
<1>2. PICK p : p = Up(0)
  OBVIOUS
<1>3. Joining /\ AtHeight /\ bh = Lower.bh
  BY DEF JoinLink, JoinLinkOK
<1>4. Tracked /\ ~Fixing /\ Control /\ Typed /\ Meeting(D, b)
  BY <1>3 DEF Tracked, Fixing, Joining, Inv
<1>5. DOMAIN heap # user.nodes /\ x \in Keys /\ y = Nil /\ At = c /\ op = "join"
  BY <1>3, <1>4 DEF Control, At, Joining
<1>6. n \in user.nodes /\ n \notin DOMAIN heap /\ n # Nil
  BY <1>1, <1>4, <1>5, MallocIs
<1>7. /\ p = Top(stack) /\ OnPath(heap, stack, Higher.root, c) /\ Sound(heap, D, b, Nil, "left", Nil, Nil)
      /\ Depth \in Nat /\ Depth = Len(stack) /\ (stack = <<>> <=> Depth = 0)
      /\ Parts(heap, D, Higher.root, Lower.root) /\ b[q] = Lower.bh + 1 /\ ~Red(heap, q)
      /\ Lower.bh \in Nat
  BY <1>2, <1>4, <1>5, OnTheWay DEF Trees
<1>8. IsHeap(heap) /\ Forest(heap, D) /\ D[Nil] = {} /\ Nil \in Places(heap) /\ c \in Places(heap) /\ q \in Places(heap)
  BY <1>4, <1>7 DEF Sound, Forest, Places, Typed, Parts
<1>9. x \in Nat /\ s \in Sides /\ t \in Sides
  BY <1>3, <1>5, KeysAreNumbers, JoinKeys, OppSide
<1>10. /\ tree.root # Nil /\ spare.root # Nil
       /\ b[c] = bh + (IF Red(heap, c) THEN 0 ELSE 1) /\ (bh > Lower.bh \/ (bh = Lower.bh /\ ~Red(heap, c)))
       /\ Depth > 0 =>
            /\ c = heap[Up(0)][s]
            /\ \A m \in DOMAIN heap : \A u \in Sides : Up(0) \in D[heap[m][u]] => u = s
  BY <1>3, <1>4 DEF Meeting
<1>11. ~Red(heap, c) /\ b[c] = b[q]
  <2>1. ~Red(heap, c)
    BY <1>3, <1>7, <1>10
  <2> QED BY <2>1, <1>3, <1>7, <1>10
<1>12. p # Nil => /\ p \in DOMAIN heap /\ Depth > 0 /\ heap[p][s] = c
                  /\ \A m \in DOMAIN heap : \A u \in Sides : p \in D[heap[m][u]] => u = s
  <2> SUFFICES ASSUME p # Nil
               PROVE  /\ p \in DOMAIN heap /\ Depth > 0 /\ heap[p][s] = c
                      /\ \A m \in DOMAIN heap : \A u \in Sides : p \in D[heap[m][u]] => u = s
    OBVIOUS
  <2>1. Depth > 0
    BY <1>7 DEF Top
  <2>2. p \in DOMAIN heap
    BY <2>1, <1>7, PopPath
  <2> QED BY <2>1, <2>2, <1>2, <1>10
<1>13. PICK red \in BOOLEAN : red <=> p # Nil
  OBVIOUS
<1>14. PICK g : g = NewNode(x, red, IF s = "right" THEN c ELSE q, IF s = "right" THEN q ELSE c)
  OBVIOUS
<1>15. Grafted(heap, g, n, x, red, c, q, t, Nil, s)
  <2>1. CASE s = "right"
    <3>1. t = "left" /\ g = NewNode(x, red, c, q)
      BY <2>1, <1>14 DEF Opp
    <3> QED BY ONLY <3>1, <1>1, <1>6, <1>8, <1>9, red \in BOOLEAN, NewNodeIs
  <2>2. CASE s = "left"
    <3>1. t = "right" /\ g = NewNode(x, red, q, c)
      BY <2>2, <1>14 DEF Opp
    <3> QED BY ONLY <3>1, <1>1, <1>6, <1>8, <1>9, red \in BOOLEAN, NewNodeIs
  <2> QED BY <2>1, <2>2, <1>9 DEF Sides
<1>16. (s = "right") <=> (pc = "join_right")
  BY <1>3 DEF JoinSide, Joining
<1>17. Grafted(heap, heap', n, x, p # Nil, c, q, t, p, s)
  <2>1. CASE p = Nil
    <3>1. heap' = NewNode(x, FALSE, IF pc = "join_right" THEN c ELSE q, IF pc = "join_right" THEN q ELSE c)
      BY <2>1, <1>2 DEF JoinLink
    <3>2. red = FALSE
      BY <2>1, <1>13
    <3>3. heap' = g
      BY <3>1, <3>2, <1>14, <1>16
    <3> QED BY <3>3, <2>1, <1>13, <1>15 DEF Grafted
  <2>2. CASE p # Nil
    <3>1. heap' = [NewNode(x, TRUE, IF pc = "join_right" THEN c ELSE q, IF pc = "join_right" THEN q ELSE c)
                     EXCEPT ![p][s] = n]
      BY <2>2, <1>1, <1>2 DEF JoinLink
    <3>2. red = TRUE
      BY <2>2, <1>13
    <3>3. heap' = [g EXCEPT ![p][s] = n]
      BY <3>1, <3>2, <1>14, <1>16
    <3>4. Grafted(heap, [g EXCEPT ![p][s] = n], n, x, red, c, q, t, p, s)
      BY ONLY <1>8, <1>9, <1>12, <1>15, <2>2, LinkedIs
    <3> QED BY <3>3, <3>4, <2>2, <1>13 DEF Grafted
  <2> QED BY <2>1, <2>2
<1>18. /\ \A m \in D[Higher.root] : Fits(t, heap[m].key, x)
       /\ \A m \in D[q] : Fits(s, heap[m].key, x)
  BY <1>3, JoinKeys
<1>19. /\ GraftPlace(heap, D, c, q, t, p, s) /\ (p # Nil => p \in D[Higher.root])
       /\ (p = Nil => c = Higher.root)
  <2>1. p # Nil => heap[p][s] = c
    BY <1>12
  <2> QED BY ONLY <2>1, <1>7, <1>8, <1>9, PlaceIs
<1>20. /\ Higher.root \in Places(heap) /\ D[c] \subseteq D[Higher.root]
       /\ D[Higher.root] \cup D[q] = DOMAIN heap /\ D[Higher.root] \cap D[q] = {}
  <2>1. Higher.root \in Places(heap) /\ D[Higher.root] \cup D[q] = DOMAIN heap /\ D[Higher.root] \cap D[q] = {}
    BY <1>7 DEF Parts
  <2>2. Ancestral(heap, D, stack, Higher.root, c)
    BY <2>1, <1>7, <1>8, PathFacts
  <2> QED BY <2>1, <2>2 DEF Ancestral
<1>21. \A m \in DOMAIN heap : heap[m].key \in Nat
  BY <1>8 DEF IsHeap, Cells
<1>22. /\ n \notin DOMAIN heap /\ DOMAIN heap' = DOMAIN heap \cup {n} /\ heap'[n].key = x
       /\ \A m \in DOMAIN heap : heap'[m].key = heap[m].key
  BY <1>17 DEF Grafted
<1>23. ASSUME NEW a \in DOMAIN heap, NEW u \in Sides, p \in D[heap[a][u]] \/ (a = p /\ u = s),
              NEW m \in D[q] \cup {n}
       PROVE  Fits(u, heap'[m].key, heap[a].key)
  <2>1. heap[a][u] \in Places(heap) /\ D[heap[a][u]] \subseteq D[a] /\ D[a] \subseteq DOMAIN heap /\ a \in D[a]
    BY <1>8, <1>23, ChildIs, ForestSides
  <2>2. p # Nil
    BY <2>1, <1>8, <1>23 DEF IsHeap
  <2>3. u = s
    BY <2>2, <1>12, <1>23
  <2>4. p \in D[a]
    BY <2>1, <1>23
  <2>5. a \in D[Higher.root]
    <3>1. a \in D[q] => D[a] \subseteq D[q]
      BY <1>8, Under
    <3> QED BY <3>1, <2>2, <2>4, <1>19, <1>20
  <2>6. Fits(t, heap[a].key, x) /\ heap[a].key \in Nat
    BY <2>5, <1>18, <1>21
  <2>7. Fits(s, x, heap[a].key)
    BY <2>6, <1>9, FitsFacts
  <2>8. CASE m = n
    BY <2>3, <2>7, <2>8, <1>22
  <2>9. CASE m \in D[q]
    <3>1. m \in DOMAIN heap
      BY <2>9, <1>20
    <3>2. heap'[m].key = heap[m].key /\ heap[m].key \in Nat /\ Fits(s, heap[m].key, x)
      BY <3>1, <2>9, <1>18, <1>21, <1>22
    <3>3. Fits(s, heap[m].key, heap[a].key)
      BY <3>2, <2>6, <2>7, <1>9, FitsFacts
    <3> QED BY <3>2, <3>3, <2>3
  <2> QED BY <1>23, <2>8, <2>9
<1>24. KeyPlace(heap, D, heap', n, c, q, t, p, s)
  <2>1. \A m \in D[c] : Fits(t, heap[m].key, x)
    BY <1>18, <1>20
  <2>2. Opp(t) = s
    BY <1>9, <1>3, JoinKeys, OppSide
  <2> QED BY <2>1, <2>2, <1>18, <1>22, <1>23 DEF KeyPlace
<1>25. GraftReady(D, b, n, c, q, t, s)
  BY <1>2, <1>4, <1>5, <1>6, <1>7, <1>9, <1>11, <1>12 DEF GraftReady
<1>26. q # Nil
  BY <1>10 DEF Lower
<1>27. GraftMade(q, n)
  <2>1. y' = Nil
    BY <1>5 DEF JoinLink, Done
  <2>2. bh' \in Nat
    <3>1. bh' = 0
      BY DEF JoinLink, Done
    <3> QED BY <3>1
  <2> QED BY <2>1, <2>2, <1>1, <1>26 DEF JoinLink, GraftMade, Raised
<1>28. \E E, e : Inv(E, e)' /\ GraftEffect(D, E, q, n)
  BY ONLY <1>2, <1>17, <1>24, <1>25, <1>27, Inv(D, b), GraftKeeps
<1>29. D[Higher.root] \cup D[q] = D[tree.root] \cup D[spare.root]
  BY DEF Higher, Lower
<1>30. ASSUME NEW E, GraftEffect(D, E, q, n) PROVE Joins(D, E, n)
  BY <1>22, <1>26, <1>29, <1>30 DEF GraftEffect, Joins
<1> QED BY <1>28, <1>30

(* When the other tree has been entered far enough, its black-height is    *)
(* that of the tree to be joined, and the key belongs there. *)
LEMMA JoinFindsPlace ==
  ASSUME NEW D, NEW b, Inv(D, b), Joining, AtHeight
  PROVE  JoinLinkOK
<1>1. Tracked /\ ~Fixing /\ Meeting(D, b) /\ Typed /\ Control
  BY DEF Tracked, Fixing, Joining, Inv
<1>2. /\ b[node] = bh + (IF Red(heap, node) THEN 0 ELSE 1)
      /\ bh > Lower.bh \/ (bh = Lower.bh /\ ~Red(heap, node))
  BY <1>1 DEF Meeting
<1>3. /\ Lower.bh \in Nat /\ bh \in Nat /\ Sound(heap, D, b, Nil, "left", Nil, Nil)
      /\ OnPath(heap, stack, Higher.root, At) /\ Parts(heap, D, Higher.root, Lower.root)
      /\ Depth = Len(stack) /\ Depth \in Nat /\ Up(0) = Top(stack) /\ (stack = <<>> <=> Depth = 0)
  BY <1>1, OnTheWay DEF Trees, Typed
<1>4. bh = Lower.bh
  <2>1. CASE node = Nil
    <3>1. b[Nil] = 1
      BY <1>3 DEF Sound, Balanced
    <3>2. ~Red(heap, node)
      BY <2>1 DEF Red
    <3>3. bh + 1 = 1
      BY <3>1, <3>2, <2>1, <1>2
    <3> QED BY <3>3, <1>2, <1>3
  <2>2. CASE bh = Lower.bh
    BY <2>2
  <2> QED BY <2>1, <2>2 DEF AtHeight
<1>5. ASSUME Up(0) # Nil
      PROVE  IF pc = "join_right" THEN ~(x < heap[Up(0)].key) ELSE ~(heap[Up(0)].key < x)
  <2>1. IsHeap(heap) /\ Forest(heap, D)
    BY <1>3 DEF Sound
  <2>2. stack # <<>>
    BY <1>3, <1>5 DEF Top
  <2>3. Up(0) \in DOMAIN heap /\ Up(0) \in D[Higher.root]
    BY <2>1, <2>2, <1>3, Ancestry
  <2>4. heap[Up(0)].key \in Nat /\ x \in Nat
    BY <2>1, <2>3, JoinKeys, KeysAreNumbers DEF IsHeap, Cells
  <2>5. Fits(Opp(JoinSide), heap[Up(0)].key, x)
    BY <2>3, JoinKeys
  <2>6. CASE pc = "join_right"
    <3>1. Opp(JoinSide) = "left"
      BY <2>6 DEF JoinSide, Opp
    <3> QED BY <3>1, <2>4, <2>5, <2>6 DEF Fits
  <2>7. CASE pc = "join_left"
    <3>1. Opp(JoinSide) = "right"
      BY <2>7 DEF JoinSide, Opp
    <3> QED BY <3>1, <2>4, <2>5, <2>7 DEF Fits
  <2> QED BY <2>6, <2>7 DEF Joining
<1> QED BY <1>4, <1>5 DEF JoinLinkOK
-----------------------------------------------------------------------------
(***************************************************************************)
(* A node y with at most one child, w, is unlinked: w takes its place.     *)
(***************************************************************************)
Pruned(h, g, n, w) ==
  /\ IsHeap(g) /\ DOMAIN g = DOMAIN h \ {n}
  /\ \A m \in DOMAIN g : g[m].key = h[m].key /\ (g[m].red <=> h[m].red)
  /\ \A m \in DOMAIN g : \A u \in Sides : g[m][u] = IF h[m][u] = n THEN w ELSE h[m][u]

OnlyChild(h, n, w) == \E t \in Sides : h[n][t] = w /\ h[n][Opp(t)] = Nil

PrunedBelow(D, g, n) == [m \in Places(g) |-> D[m] \ {n}]

LEMMA OnlyChildIs ==
  ASSUME NEW h, NEW D, IsHeap(h), Forest(h, D), NEW n \in DOMAIN h, NEW w, OnlyChild(h, n, w)
  PROVE  /\ w \in Places(h) /\ w # n /\ D[n] = {n} \cup D[w] /\ n \notin D[w] /\ n # Nil
         /\ (w # Nil => \E t \in Sides : h[n][t] = w)
<1>1. PICK t \in Sides : h[n][t] = w /\ h[n][Opp(t)] = Nil
  BY DEF OnlyChild
<1>2. w \in Places(h) /\ D[n] = {n} \cup D[w] \cup D[Nil] /\ n \notin D[w]
  BY <1>1, ChildIs, ForestSides
<1>3. D[Nil] = {} /\ n # Nil
  BY DEF Forest, IsHeap
<1>4. n \in D[n]
  BY Within
<1> QED BY <1>1, <1>2, <1>3, <1>4

LEMMA PrunedChildren ==
  ASSUME NEW h, NEW D, IsHeap(h), Forest(h, D), NEW n \in DOMAIN h, NEW w, OnlyChild(h, n, w),
         NEW g, Pruned(h, g, n, w)
  PROVE  /\ Places(g) = Places(h) \ {n}
         /\ \A m \in Places(g) : PrunedBelow(D, g, n)[m] = D[m] \ {n}
         /\ \A m \in DOMAIN g : \A u \in Sides : /\ g[m][u] \in Places(g) /\ h[m][u] \in Places(h)
                                                 /\ PrunedBelow(D, g, n)[g[m][u]] = D[h[m][u]] \ {n}
<1>1. w \in Places(h) /\ w # n /\ D[n] = {n} \cup D[w] /\ n \notin D[w] /\ n # Nil
  BY OnlyChildIs
<1>2. Places(g) = Places(h) \ {n}
  BY <1>1 DEF Pruned, Places
<1>3. \A m \in Places(g) : PrunedBelow(D, g, n)[m] = D[m] \ {n}
  BY DEF PrunedBelow
<1>4. ASSUME NEW m \in DOMAIN g, NEW u \in Sides
      PROVE  /\ g[m][u] \in Places(g) /\ h[m][u] \in Places(h)
             /\ PrunedBelow(D, g, n)[g[m][u]] = D[h[m][u]] \ {n}
  <2>1. g[m][u] = IF h[m][u] = n THEN w ELSE h[m][u]
    BY DEF Pruned
  <2>2. h[m][u] \in Places(h)
    BY ChildIs DEF Pruned
  <2>3. g[m][u] \in Places(g)
    BY <2>1, <2>2, <1>1, <1>2
  <2>4. D[g[m][u]] \ {n} = D[h[m][u]] \ {n}
    BY <2>1, <1>1
  <2> QED BY <2>2, <2>3, <2>4, <1>3
<1> QED BY <1>2, <1>3, <1>4

LEMMA ForestPruned ==
  ASSUME NEW h, NEW D, IsHeap(h), Forest(h, D), NEW n \in DOMAIN h, NEW w, OnlyChild(h, n, w),
         NEW g, Pruned(h, g, n, w), NEW E, E = PrunedBelow(D, g, n)
  PROVE  Forest(g, E) /\ (Ordered(h, D) => Ordered(g, E))
<1>1. /\ Places(g) = Places(h) \ {n}
      /\ \A m \in Places(g) : E[m] = D[m] \ {n}
      /\ \A m \in DOMAIN g : \A u \in Sides : /\ g[m][u] \in Places(g) /\ h[m][u] \in Places(h)
                                              /\ E[g[m][u]] = D[h[m][u]] \ {n}
  BY PrunedChildren
<1>2. IsHeap(g) /\ DOMAIN g = DOMAIN h \ {n} /\ \A m \in DOMAIN g : g[m].key = h[m].key
  BY DEF Pruned
<1>3. /\ D \in [Places(h) -> SUBSET DOMAIN h] /\ D[Nil] = {}
      /\ \A p \in DOMAIN h : \A m \in D[p] : D[m] \subseteq D[p]
      /\ \A p, m, k \in DOMAIN h : k \in D[p] /\ k \in D[m] => p \in D[m] \/ m \in D[p]
  BY DEF Forest
<1>4. E[Nil] = {} /\ E \in [Places(g) -> SUBSET DOMAIN g]
  <2>1. \A m \in Places(g) : D[m] \ {n} \in SUBSET DOMAIN g
    BY <1>1, <1>2, <1>3
  <2>2. E \in [Places(g) -> SUBSET DOMAIN g]
    BY <2>1 DEF PrunedBelow
  <2>3. Nil \in Places(g)
    BY DEF Places
  <2> QED BY <2>2, <2>3, <1>1, <1>3
<1>5. ASSUME NEW m \in DOMAIN g
      PROVE  \E t \in Sides :
               /\ E[m] = {m} \cup E[g[m][t]] \cup E[g[m][Opp(t)]]
               /\ m \notin E[g[m][t]] /\ m \notin E[g[m][Opp(t)]]
               /\ E[g[m][t]] \cap E[g[m][Opp(t)]] = {}
  <2>1. PICK t \in Sides : t = "left"
    BY DEF Sides
  <2>2. Opp(t) \in Sides /\ Opp(Opp(t)) = t /\ m \in DOMAIN h /\ m # n /\ m \in Places(g)
    BY <1>2, OppSide DEF Places
  <2>3. /\ D[m] = {m} \cup D[h[m][t]] \cup D[h[m][Opp(t)]]
        /\ m \notin D[h[m][t]] /\ D[h[m][t]] \cap D[h[m][Opp(t)]] = {} /\ m \notin D[h[m][Opp(t)]]
    BY <2>2, ForestSides
  <2>4. E[m] = D[m] \ {n} /\ E[g[m][t]] = D[h[m][t]] \ {n} /\ E[g[m][Opp(t)]] = D[h[m][Opp(t)]] \ {n}
    BY <2>2, <1>1
  <2> QED BY <2>2, <2>3, <2>4
<1>6. ASSUME NEW m \in DOMAIN g, NEW k \in E[m] PROVE E[k] \subseteq E[m]
  <2>1. m \in Places(g) /\ m \in DOMAIN h /\ k \in D[m] /\ k \in DOMAIN g
    BY <1>1, <1>2, <1>4 DEF Places
  <2>2. D[k] \subseteq D[m] /\ k \in Places(g)
    BY <2>1, <1>3 DEF Places
  <2> QED BY <2>1, <2>2, <1>1
<1>7. ASSUME NEW p \in DOMAIN g, NEW m \in DOMAIN g, NEW k \in DOMAIN g, k \in E[p], k \in E[m]
      PROVE  p \in E[m] \/ m \in E[p]
  <2>1. p \in Places(g) /\ m \in Places(g) /\ p # n /\ m # n /\ p \in DOMAIN h /\ m \in DOMAIN h /\ k \in DOMAIN h
    BY <1>2 DEF Places
  <2>2. E[p] = D[p] \ {n} /\ E[m] = D[m] \ {n}
    BY <2>1, <1>1
  <2> QED BY <2>1, <2>2, <1>3, <1>7
<1>8. Forest(g, E)
  BY ONLY <1>2, <1>4, <1>5, <1>6, <1>7, ForestFrom
<1>9. ASSUME Ordered(h, D) PROVE Ordered(g, E)
  <2> SUFFICES ASSUME NEW a \in DOMAIN g, NEW u \in Sides, NEW m \in E[g[a][u]]
               PROVE  Fits(u, g[m].key, g[a].key)
    BY DEF Ordered
  <2>1. m \in D[h[a][u]] /\ a \in DOMAIN h
    BY <1>1, <1>2
  <2>2. Fits(u, h[m].key, h[a].key)
    BY <2>1, <1>9 DEF Ordered
  <2>3. m \in DOMAIN g
    BY <1>1, <1>4
  <2> QED BY <2>2, <2>3, <1>2
<1> QED BY <1>8, <1>9

(* The colours and the heights: if n was black, a black is missing where   *)
(* it was. *)
LEMMA BalancedPruned ==
  ASSUME NEW h, NEW D, IsHeap(h), Forest(h, D), NEW n \in DOMAIN h, NEW w, OnlyChild(h, n, w),
         NEW g, Pruned(h, g, n, w), NEW b, NEW d, Balanced(h, b, Nil, d),
         NEW p, NEW s, Missing(h, n, p, s), NEW c, c = [m \in Places(g) |-> b[m]]
  PROVE  (h[n].red => Balanced(g, c, Nil, "left")) /\ (~h[n].red => Balanced(g, c, p, s))
<1>1. /\ Places(g) = Places(h) \ {n}
      /\ \A m \in DOMAIN g : \A u \in Sides : g[m][u] \in Places(g) /\ h[m][u] \in Places(h)
  BY PrunedChildren
<1>2. /\ DOMAIN g = DOMAIN h \ {n} /\ IsHeap(g) /\ Nil \in Places(g) /\ Nil \notin DOMAIN h
      /\ \A m \in DOMAIN g : g[m].red <=> h[m].red
      /\ \A m \in DOMAIN g : \A u \in Sides : g[m][u] = IF h[m][u] = n THEN w ELSE h[m][u]
  BY DEF Pruned, Places, IsHeap
<1>3. b[w] \in Nat \ {0} /\ b[n] \in Nat /\ b[n] = b[w] + (IF h[n].red THEN 0 ELSE 1)
  <2>1. PICK t \in Sides : h[n][t] = w
    BY DEF OnlyChild
  <2> QED BY <2>1, <1>2, BalancedChild
<1>4. \A m \in Places(g) : c[m] = b[m] /\ c[m] \in Nat \ {0}
  BY <1>1 DEF Balanced
<1>5. DOMAIN c = Places(g) /\ c = [m \in Places(g) |-> c[m]] /\ c[Nil] = 1
  BY <1>2, <1>4 DEF Balanced
<1>6. ASSUME NEW m \in DOMAIN g, NEW u \in Sides
      PROVE  /\ h[n].red => c[m] = c[g[m][u]] + Weight(g, m) + Gap(m, u, Nil, "left")
             /\ ~h[n].red => c[m] = c[g[m][u]] + Weight(g, m) + Gap(m, u, p, s)
  <2>1. m \in DOMAIN h /\ m \in Places(g) /\ m # Nil /\ m # n
    BY <1>2 DEF Places
  <2>2. b[m] = b[h[m][u]] + (IF h[m].red THEN 0 ELSE 1) /\ b[h[m][u]] \in Nat
    BY <2>1, BalancedChild
  <2>3. c[m] = b[m] /\ c[g[m][u]] = b[g[m][u]]
    BY <2>1, <1>1, <1>4
  <2>4. Weight(g, m) = (IF h[m].red THEN 0 ELSE 1) /\ Gap(m, u, Nil, "left") = 0
    BY <2>1, <1>2 DEF Weight, Gap
  <2>5. h[m][u] = n <=> m = p /\ u = s
    <3>1. CASE p = Nil
      BY <3>1, <2>1, <1>2 DEF Missing
    <3>2. CASE p # Nil
      <4>1. p \in DOMAIN h /\ s \in Sides /\ h[p][s] = n /\ n # Nil
        BY <3>2, <1>2 DEF Missing
      <4> QED BY <4>1, <2>1, OneParent
    <3> QED BY <3>1, <3>2
  <2>6. CASE h[m][u] = n
    <3>1. g[m][u] = w /\ Gap(m, u, p, s) = 1
      BY <2>5, <2>6, <1>2 DEF Gap
    <3>2. b[m] = b[n] + Weight(g, m) /\ Weight(g, m) \in {0, 1}
      BY <2>2, <2>4, <2>6
    <3>3. b[m] = b[w] + (IF h[n].red THEN 0 ELSE 1) + Weight(g, m)
      BY ONLY <3>2, <1>3
    <3> QED BY ONLY <3>1, <3>2, <3>3, <2>3, <2>4, <1>3
  <2>7. CASE h[m][u] # n
    <3>1. g[m][u] = h[m][u] /\ Gap(m, u, p, s) = 0
      BY <2>5, <2>7, <1>2 DEF Gap
    <3> QED BY ONLY <3>1, <2>2, <2>3, <2>4
  <2> QED BY <2>6, <2>7
<1>7. \A m \in Places(g) : c[m] \in Nat \ {0}
  BY <1>4
<1>8. CASE h[n].red
  <2>1. \A m \in DOMAIN g : \A u \in Sides : c[m] = c[g[m][u]] + Weight(g, m) + Gap(m, u, Nil, "left")
    BY <1>6, <1>8
  <2>2. Balanced(g, c, Nil, "left")
    BY ONLY <2>1, <1>5, <1>7, BalancedWhen
  <2> QED BY <2>2, <1>8
<1>9. CASE ~h[n].red
  <2>1. \A m \in DOMAIN g : \A u \in Sides : c[m] = c[g[m][u]] + Weight(g, m) + Gap(m, u, p, s)
    BY <1>6, <1>9
  <2>2. Balanced(g, c, p, s)
    BY ONLY <2>1, <1>5, <1>7, BalancedWhen
  <2> QED BY <2>2, <1>9
<1> QED BY <1>8, <1>9

LEMMA RedsPruned ==
  ASSUME NEW h, NEW D, IsHeap(h), Forest(h, D), NEW n \in DOMAIN h, NEW w, OnlyChild(h, n, w),
         NEW g, Pruned(h, g, n, w), RedsApart(h, Nil, Nil)
  PROVE  RedsApart(g, w, w) /\ (h[n].red => RedsApart(g, Nil, Nil))
<1>1. /\ DOMAIN g = DOMAIN h \ {n} /\ w # n /\ Nil \notin DOMAIN h
      /\ \A m \in DOMAIN g : g[m].red <=> h[m].red
      /\ \A m \in DOMAIN g : \A u \in Sides : g[m][u] = IF h[m][u] = n THEN w ELSE h[m][u]
  BY OnlyChildIs DEF Pruned, IsHeap
<1>2. \A m \in DOMAIN h : \A u \in Sides : h[m].red => ~Red(h, h[m][u])
  BY <1>1 DEF RedsApart, Red
<1>3. ASSUME NEW m \in DOMAIN g, NEW u \in Sides, g[m].red, Red(g, g[m][u])
      PROVE  g[m][u] = w /\ ~h[n].red
  <2>1. h[m].red /\ ~Red(h, h[m][u]) /\ m \in DOMAIN h
    BY <1>1, <1>2, <1>3
  <2>2. g[m][u] # Nil /\ g[g[m][u]].red
    BY <1>3 DEF Red
  <2>3. CASE h[m][u] = n
    <3>1. n # Nil
      BY <1>1
    <3> QED BY <3>1, <2>1, <2>3, <1>1 DEF Red
  <2>4. CASE h[m][u] # n
    <3>1. g[m][u] = h[m][u]
      BY <2>4, <1>1
    <3>2. h[m][u] \in DOMAIN h
      BY <2>1, <2>2, <3>1, ChildIs
    <3>3. h[h[m][u]].red
      BY <3>1, <3>2, <2>2, <2>4, <1>1
    <3> QED BY <3>1, <3>3, <2>1, <2>2 DEF Red
  <2> QED BY <2>3, <2>4
<1> QED BY <1>3 DEF RedsApart

(* The trees. *)
LEMMA PartsPruned ==
  ASSUME NEW h, NEW D, IsHeap(h), Forest(h, D), NEW n \in DOMAIN h, NEW w, OnlyChild(h, n, w),
         NEW g, Pruned(h, g, n, w), NEW r1, NEW r2, Parts(h, D, r1, r2), n \in D[r1],
         NEW E, E = PrunedBelow(D, g, n), NEW R, R = NewRoot(n, w, r1)
  PROVE  Parts(g, E, R, r2) /\ E[R] = D[r1] \ {n} /\ E[r2] = D[r2] /\ r2 # n
<1>1. w \in Places(h) /\ w # n /\ D[n] = {n} \cup D[w] /\ n \notin D[w] /\ n # Nil /\ n \in D[n]
  BY OnlyChildIs, Within
<1>2. /\ Places(g) = Places(h) \ {n} /\ DOMAIN g = DOMAIN h \ {n}
      /\ \A m \in Places(g) : E[m] = D[m] \ {n}
  <2>1. DOMAIN g = DOMAIN h \ {n}
    BY DEF Pruned
  <2>2. /\ Places(g) = Places(h) \ {n}
        /\ \A m \in Places(g) : PrunedBelow(D, g, n)[m] = D[m] \ {n}
    BY PrunedChildren
  <2> QED BY <2>1, <2>2
<1>3. /\ r1 \in Places(h) /\ r2 \in Places(h) /\ D[r1] \cup D[r2] = DOMAIN h /\ D[r1] \cap D[r2] = {}
  BY DEF Parts
<1>4. r2 # n /\ n \notin D[r2]
  BY <1>1, <1>3
<1>5. R \in Places(g) /\ r2 \in Places(g)
  BY <1>1, <1>2, <1>3, <1>4 DEF NewRoot
<1>6. E[R] = D[r1] \ {n}
  <2>1. CASE n = r1
    BY <2>1, <1>1, <1>2, <1>5 DEF NewRoot
  <2>2. CASE n # r1
    BY <2>2, <1>2, <1>5 DEF NewRoot
  <2> QED BY <2>1, <2>2
<1>7. E[r2] = D[r2]
  BY <1>2, <1>4, <1>5
<1>8. E[R] \cup E[r2] = DOMAIN g /\ E[R] \cap E[r2] = {}
  BY <1>2, <1>3, <1>4, <1>6, <1>7
<1> QED BY <1>4, <1>5, <1>6, <1>7, <1>8 DEF Parts

(* What the code does to the heap. *)
LEMMA PruneIs ==
  ASSUME NEW h, NEW D, IsHeap(h), Forest(h, D), NEW n \in DOMAIN h, NEW w, OnlyChild(h, n, w),
         NEW p, Parent(h, n, p),
         NEW g, g = [m \in DOMAIN h \ {n} |-> Relink(h, n, p, w)[m]]
  PROVE  Pruned(h, g, n, w)
<1>1. w \in Places(h) /\ w # n /\ n # Nil /\ Nil \notin DOMAIN h
  BY OnlyChildIs DEF IsHeap
<1>2. PICK k : k = Relink(h, n, p, w)
  OBVIOUS
<1>3. \A q \in DOMAIN h : \A t, u \in Sides : h[q][t] = n /\ h[q][u] = n => t = u
  BY <1>1, OneParent
<1>4. p = Nil \/ (p \in DOMAIN h /\ \E t \in Sides : h[p][t] = n)
  BY DEF Parent
<1>5. /\ Kindred(h, k)
      /\ \A m \in DOMAIN h : \A t \in Sides : k[m][t] = IF m = p /\ h[m][t] = n THEN w ELSE h[m][t]
  BY ONLY <1>1, <1>2, <1>3, <1>4, IsHeap(h), n \in DOMAIN h, RelinkIs
<1>6. ASSUME NEW m \in DOMAIN h, NEW t \in Sides PROVE k[m][t] = IF h[m][t] = n THEN w ELSE h[m][t]
  <2>1. h[m][t] = n => m = p
    <3>1. CASE p = Nil
      BY <3>1, <1>1 DEF Parent
    <3>2. CASE p # Nil
      BY <3>2, <1>1, <1>4, OneParent
    <3> QED BY <3>1, <3>2
  <2> QED BY <2>1, <1>5
<1>7. /\ IsHeap(k) /\ DOMAIN k = DOMAIN h /\ Places(k) = Places(h)
      /\ \A m \in DOMAIN h : k[m].key = h[m].key /\ (k[m].red <=> h[m].red)
  BY <1>5 DEF Kindred, SameNodes
<1>8. DOMAIN g = DOMAIN h \ {n} /\ \A m \in DOMAIN g : g[m] = k[m]
  BY <1>2
<1>9. Places(g) = Places(h) \ {n}
  BY <1>1, <1>8 DEF Places
<1>10. ASSUME NEW m \in DOMAIN g PROVE g[m] \in Cells(g)
  <2>1. m \in DOMAIN h /\ g[m] = k[m]
    BY <1>8
  <2>2. k[m] \in Cells(k)
    BY <2>1, <1>7 DEF IsHeap
  <2>3. /\ k[m]["left"] = k[m].left /\ k[m]["right"] = k[m].right /\ "left" \in Sides /\ "right" \in Sides
    BY <2>1, <1>7, FieldsAreSides
  <2>4. \A t \in Sides : k[m][t] \in Places(g)
    <3>1. \A t \in Sides : h[m][t] \in Places(h)
      BY <2>1, ChildIs
    <3> QED BY <3>1, <2>1, <1>1, <1>6, <1>9
  <2>5. k[m].left \in Places(g) /\ k[m].right \in Places(g)
    BY <2>3, <2>4
  <2> QED BY ONLY <2>1, <2>2, <2>5 DEF Cells
<1>11. IsHeap(g)
  <2>1. g = [m \in DOMAIN g |-> g[m]]
    BY <1>8
  <2>2. g \in [DOMAIN g -> Cells(g)]
    BY ONLY <2>1, <1>10
  <2> QED BY <2>2, <1>1, <1>8 DEF IsHeap
<1> QED BY <1>6, <1>7, <1>8, <1>11 DEF Pruned

(* A node takes the key of its successor. *)
Rekeyed(h, g, n, k) ==
  /\ IsHeap(g) /\ DOMAIN g = DOMAIN h /\ Places(g) = Places(h)
  /\ \A m \in DOMAIN h : g[m].key = (IF m = n THEN k ELSE h[m].key) /\ (g[m].red <=> h[m].red)
  /\ \A m \in DOMAIN h : \A u \in Sides : g[m][u] = h[m][u]

LEMMA RekeyIs ==
  ASSUME NEW h, IsHeap(h), NEW n \in DOMAIN h, NEW k \in Nat
  PROVE  Rekeyed(h, [h EXCEPT ![n].key = k], n, k)
<1> DEFINE g == [h EXCEPT ![n].key = k]
<1>1. DOMAIN g = DOMAIN h /\ Places(g) = Places(h)
  BY DEF Places
<1>2. h \in [DOMAIN h -> [key : Nat, red : BOOLEAN, left : Places(h), right : Places(h)]] /\ Nil \notin DOMAIN h
  BY DEF IsHeap, Cells
<1>3. g \in [DOMAIN h -> [key : Nat, red : BOOLEAN, left : Places(h), right : Places(h)]]
  BY <1>2
<1>4. IsHeap(g)
  BY <1>1, <1>2, <1>3 DEF IsHeap, Cells
<1>5. \A m \in DOMAIN h : g[m].key = (IF m = n THEN k ELSE h[m].key) /\ (g[m].red <=> h[m].red)
  BY <1>2
<1>6. \A m \in DOMAIN h : \A u \in Sides : g[m][u] = h[m][u]
  BY <1>2 DEF Sides
<1> QED BY <1>1, <1>4, <1>5, <1>6 DEF Rekeyed

LEMMA RekeyedKeeps ==
  ASSUME NEW h, NEW g, NEW n, NEW k, NEW D, IsHeap(h), Rekeyed(h, g, n, k), Forest(h, D)
  PROVE  /\ Forest(g, D) /\ Trees(g) = Trees(h)
         /\ \A b, p, t : Balanced(h, b, p, t) => Balanced(g, b, p, t)
         /\ \A e, f : RedsApart(h, e, f) => RedsApart(g, e, f)
         /\ \A r1, r2 : Parts(h, D, r1, r2) => Parts(g, D, r1, r2)
<1>1. /\ IsHeap(g) /\ DOMAIN g = DOMAIN h /\ Places(g) = Places(h)
      /\ \A m \in DOMAIN h : g[m].red <=> h[m].red
      /\ \A m \in DOMAIN h : \A u \in Sides : g[m][u] = h[m][u]
  BY DEF Rekeyed
<1>2. \A m \in DOMAIN h : g[m].left = h[m].left /\ g[m].right = h[m].right
  <2> SUFFICES ASSUME NEW m \in DOMAIN h PROVE g[m].left = h[m].left /\ g[m].right = h[m].right
    OBVIOUS
  <2>1. /\ h[m]["left"] = h[m].left /\ h[m]["right"] = h[m].right /\ "left" \in Sides /\ "right" \in Sides
    BY FieldsAreSides
  <2>2. g[m]["left"] = g[m].left /\ g[m]["right"] = g[m].right
    BY <1>1, FieldsAreSides
  <2> QED BY <2>1, <2>2, <1>1
<1>3. Forest(g, D)
  BY <1>1, <1>2 DEF Forest
<1>4. \A b, p, t : Balanced(h, b, p, t) => Balanced(g, b, p, t)
  BY <1>1 DEF Balanced
<1>5. ASSUME NEW e, NEW f, RedsApart(h, e, f) PROVE RedsApart(g, e, f)
  <2>1. \A m \in DOMAIN h : \A u \in Sides : Red(g, h[m][u]) => Red(h, h[m][u])
    BY <1>1, ChildIs DEF Red
  <2> QED BY <2>1, <1>1, <1>5 DEF RedsApart
<1>6. \A r1, r2 : Parts(h, D, r1, r2) => Parts(g, D, r1, r2)
  BY <1>1 DEF Parts
<1> QED BY <1>1, <1>3, <1>4, <1>5, <1>6 DEF Trees

(* v follows n: nothing between them has a key between theirs. *)
IsNext(h, D, n, v) ==
  v = n \/ /\ h[v].left = Nil /\ v \in D[h[n].right]
           /\ \A m \in D[h[n].right] \ D[v] : \A k \in D[v] : h[k].key <= h[m].key

LEMMA OrderedRekeyed ==
  ASSUME NEW h, NEW g, NEW n \in DOMAIN h, NEW v \in DOMAIN h, NEW D, IsHeap(h), Forest(h, D), Ordered(h, D),
         IsNext(h, D, n, v), Rekeyed(h, g, n, h[v].key)
  PROVE  Ordered(g, D)
<1>1. \A m \in DOMAIN h : g[m].key = IF m = n THEN h[v].key ELSE h[m].key
  BY DEF Rekeyed
<1>2. DOMAIN g = DOMAIN h /\ \A m \in DOMAIN h : \A u \in Sides : g[m][u] = h[m][u]
  BY DEF Rekeyed
<1>3. \A m \in DOMAIN h : h[m].key \in Nat
  BY FieldsAreSides
<1>4. \A m \in DOMAIN h : \A u \in Sides : D[h[m][u]] \subseteq DOMAIN h /\ m \notin D[h[m][u]]
  <2> SUFFICES ASSUME NEW m \in DOMAIN h, NEW u \in Sides PROVE D[h[m][u]] \subseteq DOMAIN h /\ m \notin D[h[m][u]]
    OBVIOUS
  <2> QED BY ForestSides
<1> SUFFICES ASSUME NEW a \in DOMAIN h, NEW u \in Sides, NEW m \in D[h[a][u]]
             PROVE  Fits(u, g[m].key, g[a].key)
  BY <1>2 DEF Ordered
<1>5. m \in DOMAIN h /\ m # a /\ Fits(u, h[m].key, h[a].key)
  BY <1>4 DEF Ordered
<1>6. CASE v = n \/ (a # n /\ m # n)
  <2>1. g[m].key = h[m].key /\ g[a].key = h[a].key
    BY <1>1, <1>5, <1>6
  <2> QED BY <2>1, <1>5
<1>7. CASE v # n /\ m = n
  <2>1. h[n]["right"] = h[n].right /\ "right" \in Sides /\ v \in D[h[n].right]
    BY <1>7, FieldsAreSides DEF IsNext
  <2>2. v \in D[n]
    BY <2>1, ForestSides
  <2>3. D[n] \subseteq D[h[a][u]]
    <3>1. h[a][u] \in Places(h) /\ n \in D[h[a][u]]
      BY <1>7, ChildIs
    <3> QED BY <3>1, Under
  <2>4. Fits(u, h[v].key, h[a].key)
    BY <2>2, <2>3 DEF Ordered
  <2>5. g[m].key = h[v].key /\ g[a].key = h[a].key
    BY <1>1, <1>5, <1>7
  <2> QED BY <2>4, <2>5
<1>8. CASE v # n /\ a = n
  <2>1. g[m].key = h[m].key /\ g[a].key = h[v].key
    BY <1>1, <1>5, <1>8
  <2>2. /\ h[n]["right"] = h[n].right /\ h[n]["left"] = h[n].left /\ "right" \in Sides /\ "left" \in Sides
        /\ Opp("right") = "left" /\ h[v]["left"] = h[v].left /\ h[v]["right"] = h[v].right
    BY FieldsAreSides
  <2>3. /\ h[v].left = Nil /\ v \in D[h[n].right]
        /\ \A l \in D[h[n].right] \ D[v] : \A k \in D[v] : h[k].key <= h[l].key
    BY <1>8 DEF IsNext
  <2>4. Fits("right", h[v].key, h[n].key)
    BY <2>2, <2>3 DEF Ordered
  <2>5. h[n].key <= h[v].key
    BY <2>4 DEF Fits
  <2>6. CASE u = "left"
    <3>1. h[m].key <= h[n].key
      BY <2>6, <1>5, <1>8 DEF Fits
    <3>2. h[m].key <= h[v].key
      BY <3>1, <2>5, <1>3, <1>5
    <3> QED BY <3>2, <2>1, <2>6 DEF Fits
  <2>7. CASE u = "right"
    <3>1. m \in D[h[n].right]
      BY <2>2, <2>7, <1>8
    <3>2. v \in D[v] /\ D[v] = {v} \cup D[h[v].right] \cup D[h[v].left]
      BY <2>2, ForestSides
    <3>3. D[h[v].left] = {}
      BY <2>3 DEF Forest
    <3>4. m \in D[h[v].right] => h[v].key <= h[m].key
      <4>1. m \in D[h[v].right] => Fits("right", h[m].key, h[v].key)
        BY <2>2 DEF Ordered
      <4> QED BY <4>1 DEF Fits
    <3>5. h[v].key <= h[m].key
      <4>1. m = v => h[v].key <= h[m].key
        BY <1>3
      <4>2. m \notin D[v] => h[v].key <= h[m].key
        BY <3>1, <3>2, <2>3
      <4> QED BY <4>1, <4>2, <3>2, <3>3, <3>4
    <3> QED BY <3>5, <2>1, <2>7 DEF Fits
  <2> QED BY <2>6, <2>7 DEF Sides
<1> QED BY <1>5, <1>6, <1>7, <1>8

(* The way to n leads to w. *)
LEMMA PrunedPath ==
  ASSUME NEW h, NEW D, IsHeap(h), Forest(h, D), NEW n \in DOMAIN h, NEW w, OnlyChild(h, n, w),
         NEW g, Pruned(h, g, n, w), NEW path, NEW r1 \in Places(h), OnPath(h, path, r1, n),
         NEW b, NEW top, Short(h, b, path, top), NEW c, c = [m \in Places(g) |-> b[m]],
         NEW R, R = NewRoot(n, w, r1)
  PROVE  OnPath(g, path, R, w) /\ Short(g, c, path, top)
<1>1. path \in Seq(DOMAIN h) /\ Len(path) \in Nat
  BY DEF OnPath
<1>2. /\ DOMAIN g = DOMAIN h \ {n} /\ \A m \in DOMAIN g : g[m].red <=> h[m].red
      /\ \A m \in DOMAIN g : \A u \in Sides : g[m][u] = IF h[m][u] = n THEN w ELSE h[m][u]
  BY DEF Pruned
<1>3. \A i \in 1..Len(path) : path[i] \in DOMAIN h /\ path[i] # n
  BY PathNode
<1>4. \A i \in 1..Len(path) : path[i] \in DOMAIN g
  BY <1>2, <1>3
<1>5. path \in Seq(DOMAIN g)
  <2>1. path \in [1..Len(path) -> DOMAIN h]
    BY <1>1, LenProperties
  <2>2. path \in [1..Len(path) -> DOMAIN g]
    BY ONLY <2>1, <1>4
  <2> QED BY ONLY <2>2, <1>1, SeqDef
<1>6. OnPath(g, path, R, w)
  <2>1. CASE path = <<>>
    <3>1. R = w
      BY <2>1 DEF OnPath, NewRoot
    <3> QED BY <2>1, <3>1, EmptyPath
  <2>2. CASE path # <<>>
    <3>1. Len(path) # 0
      BY <2>2, <1>1, EmptySeq
    <3>2. path[1] = r1 /\ 1 \in 1..Len(path) /\ Len(path) \in 1..Len(path)
      BY <2>2, <3>1, <1>1 DEF OnPath
    <3>3. R = r1
      BY <3>2, <1>3 DEF NewRoot
    <3>4. ASSUME NEW i \in 1..Len(path), i # Len(path), NEW u \in Sides, h[path[i]][u] = path[i + 1]
          PROVE  g[path[i]][u] = path[i + 1]
      <4>1. i + 1 \in 1..Len(path)
        BY <1>1, <3>4
      <4> QED BY <4>1, <1>2, <1>3, <1>4, <3>4
    <3>5. \E s \in Sides : g[Top(path)][s] = w
      <4>1. Top(path) = path[Len(path)]
        BY <3>1 DEF Top
      <4>2. PICK s \in Sides : h[path[Len(path)]][s] = n
        BY <3>2 DEF OnPath
      <4> QED BY <4>1, <4>2, <3>2, <1>2, <1>4
    <3> QED BY <2>2, <3>3, <3>4, <3>5, <1>5, KeepPath
  <2> QED BY <2>1, <2>2
<1>7. \A i \in 1..Len(path) : c[path[i]] = b[path[i]] /\ (g[path[i]].red <=> h[path[i]].red)
  BY <1>2, <1>4 DEF Places
<1> QED BY <1>1, <1>6, <1>7, ShortKept

(* What rb_delete_node knows of the node to be unlinked. *)
LEMMA WhenUnlinking ==
  ASSUME NEW D, NEW b, Inv(D, b), pc = "unlink"
  PROVE  /\ Tracked /\ ~Fixing /\ At = y /\ y # Nil /\ y \in DOMAIN heap /\ node \in DOMAIN heap
         /\ y \in D[tree.root] /\ node \in D[tree.root] /\ heap[node].key = x /\ op = "delete" /\ x \in Keys
         /\ Higher = tree /\ Lower = spare /\ Typed /\ Control
         /\ Nil \in {heap[y].left, heap[y].right} /\ IsNext(heap, D, node, y)
         /\ OnPath(heap, stack, tree.root, y) /\ Short(heap, b, stack, tree.bh) /\ 2 * tree.bh < tree.ssize
         /\ tree \in Trees(heap) /\ spare \in Trees(heap) /\ b[tree.root] = tree.bh + 1
         /\ b[spare.root] = spare.bh + 1 /\ ~Red(heap, tree.root) /\ ~Red(heap, spare.root)
         /\ Parts(heap, D, tree.root, spare.root) /\ Sound(heap, D, b, Nil, "left", Nil, Nil)
         /\ Depth = Len(stack) /\ Depth \in Nat /\ Up(0) = Top(stack) /\ (stack = <<>> <=> Depth = 0)
         /\ Parent(heap, y, Up(0))
<1>1. Tracked /\ ~Fixing /\ Typed /\ Control /\ Removing(D) /\ ~Joining
  BY DEF Tracked, Fixing, Inv, Joining
<1>2. y # Nil /\ op = "delete" /\ x \in Keys /\ At = y /\ y \in DOMAIN heap
  BY <1>1 DEF Control, At, Typed, Places
<1>3. Higher = tree /\ Lower = spare
  BY <1>1 DEF Joining, Higher, Lower
<1>4. /\ OnPath(heap, stack, tree.root, y) /\ Short(heap, b, stack, tree.bh) /\ 2 * tree.bh < tree.ssize
      /\ tree \in Trees(heap) /\ spare \in Trees(heap) /\ b[tree.root] = tree.bh + 1
      /\ b[spare.root] = spare.bh + 1 /\ ~Red(heap, tree.root) /\ ~Red(heap, spare.root)
      /\ Parts(heap, D, tree.root, spare.root) /\ Sound(heap, D, b, Nil, "left", Nil, Nil)
      /\ Depth = Len(stack) /\ Depth \in Nat /\ Up(0) = Top(stack) /\ (stack = <<>> <=> Depth = 0)
  BY <1>1, <1>2, <1>3, OnTheWay
<1>5. IsHeap(heap) /\ Forest(heap, D) /\ tree.root \in Places(heap)
  BY <1>4 DEF Sound, Parts
<1>6. /\ node \in D[tree.root] /\ heap[node].key = x /\ Nil \in {heap[y].left, heap[y].right}
      /\ y # node => /\ heap[y].left = Nil /\ y \in D[heap[node].right]
                     /\ \A m \in D[heap[node].right] \ D[y] : \A k \in D[y] : heap[k].key <= heap[m].key
  BY <1>1 DEF Removing
<1>7. node \in DOMAIN heap
  BY <1>5, <1>6, Under
<1>8. y \in D[tree.root] /\ Parent(heap, y, IF Len(stack) = 0 THEN Nil ELSE stack[Len(stack)])
  BY <1>2, <1>4, <1>5, PathParent
<1>9. Parent(heap, y, Up(0))
  BY <1>4, <1>8 DEF Top
<1> QED BY <1>1, <1>2, <1>3, <1>4, <1>6, <1>7, <1>8, <1>9 DEF IsNext

(* The node is gone; the one whose key was looked for may have its key. *)
Loses(D, E) ==
  /\ DOMAIN heap' = DOMAIN heap \ {y} /\ spare' = spare
  /\ \A m \in DOMAIN heap' : heap'[m].key = IF m = node THEN heap[y].key ELSE heap[m].key
  /\ E[tree'.root] = D[tree.root] \ {y} /\ E[spare.root] = D[spare.root]

LEMMA UnlinkKeeps ==
  ASSUME NEW D, NEW b, Inv(D, b), Unlink
  PROVE  \E E, c : Inv(E, c)' /\ Loses(D, E)
<1>1. pc = "unlink"
  BY DEF Unlink
<1>2. /\ y # Nil /\ y \in DOMAIN heap /\ node \in DOMAIN heap
      /\ y \in D[tree.root] /\ op = "delete" /\ x \in Keys
      /\ Typed /\ Control
      /\ Nil \in {heap[y].left, heap[y].right} /\ IsNext(heap, D, node, y)
      /\ OnPath(heap, stack, tree.root, y) /\ Short(heap, b, stack, tree.bh) /\ 2 * tree.bh < tree.ssize
      /\ tree \in Trees(heap) /\ spare \in Trees(heap) /\ b[tree.root] = tree.bh + 1
      /\ b[spare.root] = spare.bh + 1 /\ ~Red(heap, tree.root) /\ ~Red(heap, spare.root)
      /\ Parts(heap, D, tree.root, spare.root) /\ Sound(heap, D, b, Nil, "left", Nil, Nil)
      /\ Depth = Len(stack) /\ Depth \in Nat /\ Up(0) = Top(stack) /\ (stack = <<>> <=> Depth = 0)
      /\ Parent(heap, y, Up(0))
  BY <1>1, WhenUnlinking
<1>3. PICK w : w = IF heap[y].right # Nil THEN heap[y].right ELSE heap[y].left
  OBVIOUS
<1>4. PICK p : p = Up(0)
  OBVIOUS
<1>5. PICK h : h = [heap EXCEPT ![node].key = heap[y].key]
  OBVIOUS
<1>6. /\ heap' = [n \in DOMAIN heap \ {y} |-> Relink(h, y, p, w)[n]]
      /\ tree' = (IF Depth = 0 THEN [tree EXCEPT !.root = w] ELSE tree)
      /\ user' = user /\ spare' = spare
      /\ IF heap[y].red THEN Done(0)
         ELSE /\ pc' = "delete_fixup" /\ node' = w /\ y' = Nil
              /\ stack' = stack /\ op' = op /\ x' = x /\ bh' = bh /\ result' = result
  BY <1>3, <1>4, <1>5 DEF Unlink
<1>7. /\ IsHeap(heap) /\ Forest(heap, D) /\ Ordered(heap, D) /\ Balanced(heap, b, Nil, "left")
      /\ RedsApart(heap, Nil, Nil)
  BY <1>2 DEF Sound
<1>8. /\ heap[y].key \in Nat /\ heap[y]["left"] = heap[y].left /\ heap[y]["right"] = heap[y].right
      /\ "left" \in Sides /\ "right" \in Sides /\ Opp("left") = "right" /\ Opp("right") = "left"
  BY <1>2, <1>7, FieldsAreSides
<1>9. Rekeyed(heap, h, node, heap[y].key)
  BY <1>2, <1>5, <1>7, <1>8, RekeyIs
<1>10. /\ IsHeap(h) /\ DOMAIN h = DOMAIN heap /\ Places(h) = Places(heap)
       /\ \A m \in DOMAIN heap : h[m].key = (IF m = node THEN heap[y].key ELSE heap[m].key) /\ (h[m].red <=> heap[m].red)
       /\ \A m \in DOMAIN heap : \A u \in Sides : h[m][u] = heap[m][u]
  BY <1>9 DEF Rekeyed
<1>11. /\ Forest(h, D) /\ Trees(h) = Trees(heap) /\ Balanced(h, b, Nil, "left") /\ RedsApart(h, Nil, Nil)
       /\ Parts(h, D, tree.root, spare.root)
  BY <1>2, <1>7, <1>9, RekeyedKeeps
<1>12. Ordered(h, D)
  BY <1>2, <1>7, <1>9, OrderedRekeyed
<1>13. OnlyChild(h, y, w)
  <2>1. h[y]["left"] = heap[y].left /\ h[y]["right"] = heap[y].right
    BY <1>2, <1>8, <1>10
  <2>2. CASE heap[y].right # Nil
    <3>1. w = h[y]["right"] /\ h[y]["left"] = Nil
      BY <2>1, <2>2, <1>2, <1>3
    <3> QED BY <3>1, <1>8 DEF OnlyChild
  <2>3. CASE heap[y].right = Nil
    <3>1. w = h[y]["left"] /\ h[y]["right"] = Nil
      BY <2>1, <2>3, <1>3
    <3> QED BY <3>1, <1>8 DEF OnlyChild
  <2> QED BY <2>2, <2>3
<1>14. Parent(h, y, p)
  BY <1>2, <1>4, <1>10 DEF Parent
<1>15. Pruned(h, heap', y, w)
  BY ONLY <1>2, <1>6, <1>10, <1>11, <1>13, <1>14, PruneIs
<1>16. y \in DOMAIN h /\ w \in Places(h) /\ w # y /\ D[y] = {y} \cup D[w]
  BY <1>2, <1>10, <1>11, <1>13, OnlyChildIs
<1>17. PICK E : E = PrunedBelow(D, heap', y)
  OBVIOUS
<1>18. PICK c : c = [m \in Places(heap') |-> b[m]]
  OBVIOUS
<1>19. PICK R : R = NewRoot(y, w, tree.root)
  OBVIOUS
<1>20. Forest(heap', E) /\ Ordered(heap', E) /\ IsHeap(heap')
  <2>1. Forest(heap', E) /\ (Ordered(h, D) => Ordered(heap', E))
    BY ONLY <1>10, <1>11, <1>13, <1>15, <1>16, <1>17, ForestPruned
  <2>2. IsHeap(heap')
    BY <1>15 DEF Pruned
  <2> QED BY <2>1, <2>2, <1>12
<1>21. Parts(heap', E, R, spare.root) /\ E[R] = D[tree.root] \ {y} /\ E[spare.root] = D[spare.root]
       /\ spare.root # y
  BY ONLY <1>2, <1>10, <1>11, <1>13, <1>15, <1>16, <1>17, <1>19, PartsPruned
<1>22. RedsApart(heap', w, w) /\ (h[y].red => RedsApart(heap', Nil, Nil))
  BY <1>10, <1>11, <1>13, <1>15, <1>16, RedsPruned
<1>23. tree.root \in Places(heap) /\ spare.root \in Places(heap) /\ tree.bh \in Nat /\ Nil \notin DOMAIN heap
  BY <1>2, <1>7 DEF Parts, IsHeap, Trees
<1>24. OnPath(heap', stack, R, w) /\ Short(heap', c, stack, tree.bh)
  <2>1. OnPath(h, stack, tree.root, y)
    BY <1>2, <1>10 DEF OnPath
  <2>2. Short(h, b, stack, tree.bh)
    <3>1. stack \in Seq(DOMAIN heap)
      BY <1>2 DEF OnPath
    <3>2. \A i \in 1..Len(stack) : stack[i] \in DOMAIN heap
      BY <3>1
    <3> QED BY <3>2, <1>2, <1>10 DEF Short
  <2>3. tree.root \in Places(h)
    BY <1>10, <1>23
  <2> QED BY ONLY <2>1, <2>2, <2>3, <1>10, <1>11, <1>13, <1>15, <1>16, <1>18, <1>19, PrunedPath
<1>25. /\ DOMAIN heap' = DOMAIN heap \ {y} /\ Places(heap') = Places(heap) \ {y}
       /\ \A m \in DOMAIN heap' : /\ heap'[m].key = IF m = node THEN heap[y].key ELSE heap[m].key
                                  /\ heap'[m].red <=> heap[m].red
       /\ \A m \in DOMAIN heap' : \A u \in Sides : heap'[m][u] = IF heap[m][u] = y THEN w ELSE heap[m][u]
  <2>1. /\ DOMAIN heap' = DOMAIN h \ {y}
        /\ \A m \in DOMAIN heap' : heap'[m].key = h[m].key /\ (heap'[m].red <=> h[m].red)
        /\ \A m \in DOMAIN heap' : \A u \in Sides : heap'[m][u] = IF h[m][u] = y THEN w ELSE h[m][u]
    BY <1>15 DEF Pruned
  <2>2. Places(heap') = Places(heap) \ {y}
    BY <2>1, <1>2, <1>10 DEF Places
  <2> QED BY <2>1, <2>2, <1>10
<1>26. R \in Places(heap') /\ spare.root \in Places(heap') /\ w \in Places(heap')
  BY <1>10, <1>16, <1>21, <1>25 DEF Parts
<1>27. (Depth = 0 <=> p = Nil) /\ (Depth = 0 <=> y = tree.root)
  <2>1. Depth = 0 => p = Nil /\ y = tree.root
    BY <1>2, <1>4 DEF Top, OnPath
  <2>2. Depth # 0 => p # Nil /\ y # tree.root
    <3>1. Depth # 0 => Top(stack) \in DOMAIN heap /\ y # tree.root
      BY <1>2, <1>7, Ancestry
    <3> QED BY <3>1, <1>2, <1>4, <1>23
  <2> QED BY <2>1, <2>2
<1>28. tree' \in Trees(heap') /\ tree'.root = R /\ tree'.bh = tree.bh /\ tree'.ssize = tree.ssize
       /\ spare' \in Trees(heap')
  <2>1. spare' \in Trees(heap')
    BY ONLY <1>2, <1>6, <1>26 DEF Trees
  <2>2. CASE Depth = 0
    <3>1. tree' = [tree EXCEPT !.root = w] /\ R = w
      BY <2>2, <1>6, <1>19, <1>27 DEF NewRoot
    <3> QED BY ONLY <3>1, <2>1, <1>2, <1>26 DEF Trees
  <2>3. CASE Depth # 0
    <3>1. tree' = tree /\ R = tree.root
      BY <2>3, <1>6, <1>19, <1>27 DEF NewRoot
    <3> QED BY ONLY <3>1, <2>1, <1>2, <1>26 DEF Trees
  <2> QED BY <2>2, <2>3
<1>29. Loses(D, E)
  BY <1>6, <1>21, <1>25, <1>28 DEF Loses
<1>30. \A m \in Places(heap') : c[m] = b[m]
  BY <1>18
<1>31. b[y] = b[w] + (IF heap[y].red THEN 0 ELSE 1) /\ b[w] \in Nat \ {0}
  <2>1. PICK t \in Sides : h[y][t] = w
    BY <1>13 DEF OnlyChild
  <2>2. y # Nil
    BY <1>2
  <2> QED BY <2>1, <2>2, <1>10, <1>11, <1>16, BalancedChild
<1>32. PICK s \in Sides : p # Nil => heap[p][s] = y /\ p \in DOMAIN heap
  <2>1. "left" \in Sides
    BY <1>8
  <2> QED BY <2>1, <1>10, <1>14 DEF Parent
<1>33. Missing(h, y, p, s)
  <2>1. CASE p = Nil
    BY <2>1, <1>10, <1>14, <1>23 DEF Missing, Parent
  <2>2. CASE p # Nil
    BY <2>2, <1>10, <1>32 DEF Missing
  <2> QED BY <2>1, <2>2
<1>34. (heap[y].red => Balanced(heap', c, Nil, "left")) /\ (~heap[y].red => Balanced(heap', c, p, s))
  <2>1. (h[y].red => Balanced(heap', c, Nil, "left")) /\ (~h[y].red => Balanced(heap', c, p, s))
    BY ONLY <1>10, <1>11, <1>13, <1>15, <1>16, <1>18, <1>33, BalancedPruned
  <2> QED BY <2>1, <1>2, <1>10
<1>35. ~Red(heap', spare.root)
  BY <1>2, <1>25, <1>26 DEF Red, Places
<1>36. /\ user' \in Users /\ DOMAIN heap' \subseteq user'.nodes
       /\ \A m \in DOMAIN heap' : heap'[m].key \in Keys
  BY <1>2, <1>6, <1>25 DEF Typed
<1>37. CASE heap[y].red
  <2>1. y # tree.root
    BY <1>2, <1>37 DEF Red
  <2>2. R = tree.root /\ ~Red(heap', R)
    <3>1. R = tree.root
      BY <2>1, <1>19 DEF NewRoot
    <3> QED BY <3>1, <1>2, <1>25, <1>26 DEF Red, Places
  <2>3. Sound(heap', E, c, Nil, "left", Nil, Nil)
    BY <1>2, <1>10, <1>20, <1>22, <1>34, <1>37 DEF Sound
  <2>4. c[R] + 0 = tree.bh + 1 /\ c[spare.root] = spare.bh + 1
    BY <2>2, <1>2, <1>23, <1>26, <1>30
  <2>5. Rooted(heap', E, c, tree', spare', Nil, 0)
    BY <2>2, <2>4, <1>6, <1>21, <1>28, <1>35 DEF Rooted
  <2>6. Done(0)
    BY <1>6, <1>37
  <2>7. Inv(E, c)'
    BY <2>3, <2>5, <2>6, <1>36, Returned DEF Calm
  <2> QED BY <2>7, <1>29
<1>38. CASE ~heap[y].red
  <2>1. /\ pc' = "delete_fixup" /\ node' = w /\ y' = Nil
        /\ stack' = stack /\ op' = op /\ x' = x /\ bh' = bh /\ result' = result
    BY <1>6, <1>38
  <2>2. Fixing' /\ Tracked' /\ Removed' = w /\ Depth' = Depth /\ Up(0)' = p
    BY <2>1, <1>4 DEF Fixing, Tracked, Removed, Depth, Up
  <2>3. Hole' = p
    BY <2>1, <2>2, <1>2, <1>27 DEF Hole
  <2>4. MissingAtRoot' = IF Depth = 0 THEN 1 ELSE 0
    BY <2>1, <2>2 DEF MissingAtRoot
  <2>5. Typed'
    BY <2>1, <1>2, <1>6, <1>26, <1>36 DEF Typed, Places
  <2>6. Control'
    BY <2>1, <2>2, <1>2, Zenon DEF Control
  <2>7. Balanced(heap', c, p, s)
    BY <1>34, <1>38
  <2>8. Sound(heap', E, c, p, s, w, w)
    BY <2>7, <1>20, <1>22 DEF Sound
  <2>9. Sound(heap', E, c, Hole', Side', node', Removed')
    <3>1. CASE p = Nil
      BY <3>1, <2>1, <2>2, <2>3, <2>8, NoHole
    <3>2. CASE p # Nil
      <4>1. p \in DOMAIN heap' /\ heap'[p][s] = w /\ Opp(s) \in Sides /\ Opp(s) # s
        <5>1. p # y
          <6>1. OnPath(heap, stack, tree.root, y) /\ stack # <<>>
            BY <3>2, <1>2, <1>27
          <6> QED BY <6>1, <1>2, <1>4, <1>7, Ancestry
        <5> QED BY <5>1, <3>2, <1>25, <1>32, OppSide
      <4>2. heap'[p][Opp(s)] # w
        <5>1. heap'[p][Opp(s)] = heap[p][Opp(s)]
          <6>1. heap[p][Opp(s)] # y
            BY <4>1, <3>2, <1>2, <1>7, <1>32, OneParent
          <6> QED BY <6>1, <4>1, <1>25
        <5>2. b[heap[p][s]] = b[heap[p][Opp(s)]]
          <6>1. p \in DOMAIN heap /\ Opp(s) \in Sides /\ p # Nil
            BY <3>2, <4>1, <1>32
          <6>2. /\ b[p] = b[heap[p][s]] + (IF heap[p].red THEN 0 ELSE 1)
                /\ b[p] = b[heap[p][Opp(s)]] + (IF heap[p].red THEN 0 ELSE 1)
                /\ b[heap[p][s]] \in Nat /\ b[heap[p][Opp(s)]] \in Nat
            BY <6>1, <1>7, BalancedChild
          <6> QED BY ONLY <6>2
        <5>3. b[y] = b[w] + 1
          BY <1>31, <1>38
        <5> QED BY <5>1, <5>2, <5>3, <3>2, <1>31, <1>32
      <4>3. Side' = s
        <5>1. Side' = IF heap'[p].left = w THEN "left" ELSE "right"
          BY <2>1, <2>2 DEF Side
        <5>2. heap'[p]["left"] = heap'[p].left /\ Opp("right") = "left"
          BY <4>1, <1>20, FieldsAreSides
        <5> QED BY <5>1, <5>2, <4>1, <4>2 DEF Sides
      <4> QED BY <4>3, <2>1, <2>2, <2>3, <2>8
    <3> QED BY <3>1, <3>2
  <2>10. Rooted(heap', E, c, tree', spare', node', MissingAtRoot')
    <3>1. c[R] + MissingAtRoot' = tree.bh + 1
      <4>1. CASE Depth = 0
        <5>1. R = w /\ b[y] = tree.bh + 1 /\ b[y] = b[w] + 1
          BY <4>1, <1>2, <1>19, <1>27, <1>31, <1>38 DEF NewRoot
        <5> QED BY <5>1, <4>1, <2>4, <1>26, <1>30, <1>31
      <4>2. CASE Depth # 0
        <5>1. R = tree.root
          BY <4>2, <1>19, <1>27 DEF NewRoot
        <5> QED BY <5>1, <4>2, <2>4, <1>2, <1>23, <1>26, <1>30
      <4> QED BY <4>1, <4>2
    <3>2. Red(heap', R) => R = w
      <4>1. R # w => R = tree.root
        BY <1>19 DEF NewRoot
      <4> QED BY <4>1, <1>2, <1>25, <1>26 DEF Red, Places
    <3>3. c[spare.root] = spare.bh + 1
      BY <1>2, <1>26, <1>30
    <3> QED BY <3>1, <3>2, <3>3, <2>1, <1>6, <1>21, <1>28, <1>35 DEF Rooted
  <2>11. /\ OnPath(heap', stack', tree'.root, node') /\ Short(heap', c, stack', tree'.bh)
         /\ 2 * tree'.bh < tree'.ssize
    BY <2>1, <1>2, <1>24, <1>28
  <2>12. pc' # "insert_fixup"
    BY <2>1
  <2>13. Inv(E, c)'
    BY ONLY <2>2, <2>5, <2>6, <2>9, <2>10, <2>11, <2>12, FixupStarts
  <2> QED BY <2>13, <1>29
<1> QED BY <1>37, <1>38
-----------------------------------------------------------------------------
(***************************************************************************)
(* The heap with only the nodes of one tree.                               *)
(***************************************************************************)
Kept(h, D, g, r) == DOMAIN g = D[r] /\ \A m \in D[r] : g[m] = h[m]

LEMMA KeptForest ==
  ASSUME NEW h, NEW D, IsHeap(h), Forest(h, D), NEW r \in Places(h), NEW g, g = [m \in D[r] |-> h[m]],
         NEW E, E = [m \in Places(g) |-> D[m]]
  PROVE  /\ IsHeap(g) /\ Forest(g, E) /\ Kept(h, D, g, r) /\ (Ordered(h, D) => Ordered(g, E))
         /\ \A m \in DOMAIN g : \A u \in Sides : g[m][u] = h[m][u] /\ g[m][u] \in Places(g)
         /\ \A m \in Places(g) : E[m] = D[m]
<1>1. DOMAIN g = D[r] /\ \A m \in D[r] : g[m] = h[m]
  OBVIOUS
<1>2. D[r] \subseteq DOMAIN h /\ Nil \notin DOMAIN h /\ D[Nil] = {}
  BY DEF Forest, IsHeap
<1>3. \A m \in Places(g) : E[m] = D[m]
  OBVIOUS
<1>4. ASSUME NEW m \in DOMAIN g, NEW u \in Sides PROVE g[m][u] = h[m][u] /\ g[m][u] \in Places(g)
  <2>1. m \in D[r] /\ m \in DOMAIN h /\ g[m] = h[m]
    BY <1>1, <1>2
  <2>2. D[h[m][u]] \subseteq D[m] /\ D[m] \subseteq D[r]
    BY <2>1, ForestSides, Under
  <2>3. h[m][u] # Nil => h[m][u] \in D[h[m][u]]
    BY <2>1, ChildIs, Within
  <2> QED BY <2>1, <2>2, <2>3, <1>1 DEF Places
<1>5. IsHeap(g)
  <2>1. ASSUME NEW m \in DOMAIN g PROVE g[m] \in Cells(g)
    <3>1. m \in DOMAIN h /\ g[m] = h[m] /\ h[m] \in Cells(h)
      BY <1>1, <1>2 DEF IsHeap
    <3>2. /\ h[m]["left"] = h[m].left /\ h[m]["right"] = h[m].right /\ "left" \in Sides /\ "right" \in Sides
      BY <3>1, FieldsAreSides
    <3>3. h[m].left \in Places(g) /\ h[m].right \in Places(g)
      BY <3>1, <3>2, <1>4
    <3> QED BY ONLY <3>1, <3>3 DEF Cells
  <2>2. g = [m \in DOMAIN g |-> g[m]]
    OBVIOUS
  <2>3. g \in [DOMAIN g -> Cells(g)]
    BY ONLY <2>1, <2>2
  <2> QED BY <2>3, <1>1, <1>2 DEF IsHeap
<1>6. \A m \in DOMAIN g : D[m] \subseteq DOMAIN g /\ m \in DOMAIN h
  BY <1>1, <1>2, Under
<1>7. E \in [Places(g) -> SUBSET DOMAIN g] /\ E[Nil] = {} /\ Nil \in Places(g)
  BY <1>2, <1>6 DEF Places
<1>8. \A m \in DOMAIN g : E[m] = D[m] /\ \A u \in Sides : E[g[m][u]] = D[h[m][u]]
  BY <1>3, <1>4 DEF Places
<1>9. ASSUME NEW m \in DOMAIN g
      PROVE  \E t \in Sides :
               /\ E[m] = {m} \cup E[g[m][t]] \cup E[g[m][Opp(t)]]
               /\ m \notin E[g[m][t]] /\ m \notin E[g[m][Opp(t)]]
               /\ E[g[m][t]] \cap E[g[m][Opp(t)]] = {}
  <2>1. PICK t \in Sides : t = "left"
    BY DEF Sides
  <2>2. Opp(t) \in Sides /\ Opp(Opp(t)) = t /\ m \in DOMAIN h
    BY <1>6, OppSide
  <2>3. /\ D[m] = {m} \cup D[h[m][t]] \cup D[h[m][Opp(t)]]
        /\ m \notin D[h[m][t]] /\ D[h[m][t]] \cap D[h[m][Opp(t)]] = {} /\ m \notin D[h[m][Opp(t)]]
    BY <2>2, ForestSides
  <2> QED BY <2>2, <2>3, <1>8
<1>10. ASSUME NEW m \in DOMAIN g, NEW k \in E[m] PROVE E[k] \subseteq E[m]
  <2>1. k \in D[m] /\ k \in DOMAIN g /\ m \in DOMAIN h
    BY <1>6, <1>8
  <2> QED BY <2>1, <1>8 DEF Forest
<1>11. ASSUME NEW p \in DOMAIN g, NEW m \in DOMAIN g, NEW k \in DOMAIN g, k \in E[p], k \in E[m]
       PROVE  p \in E[m] \/ m \in E[p]
  BY <1>6, <1>8, <1>11 DEF Forest
<1>12. Forest(g, E)
  BY ONLY <1>5, <1>7, <1>9, <1>10, <1>11, ForestFrom
<1>13. ASSUME Ordered(h, D) PROVE Ordered(g, E)
  <2> SUFFICES ASSUME NEW a \in DOMAIN g, NEW u \in Sides, NEW m \in E[g[a][u]]
               PROVE  Fits(u, g[m].key, g[a].key)
    BY DEF Ordered
  <2>1. m \in D[h[a][u]] /\ a \in DOMAIN h
    BY <1>6, <1>8
  <2>2. Fits(u, h[m].key, h[a].key)
    BY <2>1, <1>13 DEF Ordered
  <2>3. m \in DOMAIN g
    BY <1>4, <1>7
  <2> QED BY <2>2, <2>3, <1>1
<1> QED BY <1>1, <1>3, <1>4, <1>5, <1>12, <1>13 DEF Kept

LEMMA ClearKeeps ==
  ASSUME NEW D, NEW b, Inv(D, b), Clear
  PROVE  \E E, c : /\ Inv(E, c)' /\ DOMAIN heap' = D[spare.root] /\ spare' = spare /\ tree'.root = Nil
                   /\ \A m \in DOMAIN heap' : heap'[m].key = heap[m].key
                   /\ E[tree'.root] = {} /\ E[spare.root] = D[spare.root]
<1>1. /\ pc = "clear" /\ heap' = [n \in DOMAIN heap \ NodesOf(tree) |-> heap[n]]
      /\ tree' = [tree EXCEPT !.root = Nil, !.bh = 0] /\ Done(0) /\ user' = user /\ spare' = spare
  BY DEF Clear
<1>2. Calm(heap, D, b, tree, spare) /\ IsFiniteSet(DOMAIN heap) /\ Typed
  BY <1>1, WhenCalm DEF Fixing
<1>3. /\ tree \in Trees(heap) /\ spare \in Trees(heap) /\ b[spare.root] = spare.bh + 1
      /\ ~Red(heap, spare.root)
      /\ Parts(heap, D, tree.root, spare.root) /\ Sound(heap, D, b, Nil, "left", Nil, Nil)
  BY <1>2, CalmTrees
<1>4. /\ IsHeap(heap) /\ Forest(heap, D) /\ Ordered(heap, D) /\ Balanced(heap, b, Nil, "left")
      /\ RedsApart(heap, Nil, Nil)
  BY <1>3 DEF Sound
<1>5. /\ tree.root \in Places(heap) /\ spare.root \in Places(heap)
      /\ D[tree.root] \cup D[spare.root] = DOMAIN heap /\ D[tree.root] \cap D[spare.root] = {}
  BY <1>3 DEF Parts
<1>6. NodesOf(tree) = D[tree.root]
  BY <1>2, <1>4, <1>5, BelowIs DEF NodesOf
<1>7. DOMAIN heap \ NodesOf(tree) = D[spare.root]
  BY <1>5, <1>6
<1>8. heap' = [n \in D[spare.root] |-> heap[n]]
  BY <1>1, <1>7
<1>9. PICK E : E = [m \in Places(heap') |-> D[m]]
  OBVIOUS
<1>10. PICK c : c = [m \in Places(heap') |-> b[m]]
  OBVIOUS
<1>11. /\ IsHeap(heap') /\ Forest(heap', E) /\ Kept(heap, D, heap', spare.root) /\ Ordered(heap', E)
       /\ \A m \in DOMAIN heap' : \A u \in Sides : heap'[m][u] = heap[m][u] /\ heap'[m][u] \in Places(heap')
       /\ \A m \in Places(heap') : E[m] = D[m]
  BY ONLY <1>4, <1>5, <1>8, <1>9, KeptForest
<1>12. DOMAIN heap' = D[spare.root] /\ DOMAIN heap' \subseteq DOMAIN heap /\ \A m \in DOMAIN heap' : heap'[m] = heap[m]
  BY <1>5, <1>11 DEF Kept
<1>13. \A m \in Places(heap') : c[m] = b[m] /\ m \in Places(heap)
  BY <1>10, <1>12 DEF Places
<1>14. Nil \in Places(heap') /\ spare.root \in Places(heap') /\ Nil \notin DOMAIN heap /\ b[Nil] = 1 /\ D[Nil] = {}
  <2>1. spare.root # Nil => spare.root \in D[spare.root]
    BY <1>4, <1>5, Within DEF Places
  <2> QED BY <2>1, <1>4, <1>12 DEF Places, IsHeap, Balanced, Forest
<1>15. Balanced(heap', c, Nil, "left")
  <2>1. c \in [Places(heap') -> Nat \ {0}]
    BY <1>4, <1>10, <1>13 DEF Balanced
  <2>2. ASSUME NEW m \in DOMAIN heap', NEW u \in Sides
        PROVE  c[m] = c[heap'[m][u]] + (IF heap'[m].red THEN 0 ELSE 1)
                        + (IF m = Nil /\ u = "left" THEN 1 ELSE 0)
    <3>1. m \in DOMAIN heap /\ m # Nil /\ m \in Places(heap')
      BY <1>12, <1>14 DEF Places
    <3>2. b[m] = b[heap[m][u]] + (IF heap[m].red THEN 0 ELSE 1) /\ b[heap[m][u]] \in Nat
      BY <3>1, <1>4, BalancedChild
    <3>3. heap'[m][u] = heap[m][u] /\ c[m] = b[m] /\ c[heap'[m][u]] = b[heap[m][u]] /\ heap'[m].red = heap[m].red
      BY <3>1, <1>11, <1>12, <1>13
    <3> QED BY ONLY <3>1, <3>2, <3>3
  <2> QED BY <2>1, <2>2, <1>13, <1>14 DEF Balanced
<1>16. RedsApart(heap', Nil, Nil)
  <2> SUFFICES ASSUME NEW m \in DOMAIN heap', NEW u \in Sides, heap'[m].red, Red(heap', heap'[m][u])
               PROVE  FALSE
    BY DEF RedsApart
  <2>1. m \in DOMAIN heap /\ m # Nil /\ heap[m].red /\ heap[m][u] # Nil /\ heap[m][u] \in DOMAIN heap'
    BY <1>11, <1>12, <1>14 DEF Red, Places
  <2>2. Red(heap, heap[m][u])
    BY <2>1, <1>11, <1>12 DEF Red
  <2> QED BY <2>1, <2>2, <1>4 DEF RedsApart
<1>17. tree' \in Trees(heap') /\ tree'.root = Nil /\ tree'.bh = 0 /\ spare' \in Trees(heap')
  BY ONLY <1>1, <1>3, <1>14 DEF Trees
<1>18. Calm(heap', E, c, tree', spare')
  <2>1. Sound(heap', E, c, Nil, "left", Nil, Nil)
    BY <1>11, <1>15, <1>16 DEF Sound
  <2>2. Parts(heap', E, tree'.root, spare'.root)
    BY <1>1, <1>11, <1>12, <1>14, <1>17 DEF Parts
  <2>3. c[tree'.root] + 0 = tree'.bh + 1 /\ c[spare'.root] = spare'.bh + 1
    BY <1>1, <1>3, <1>13, <1>14, <1>17
  <2>4. ~Red(heap', tree'.root) /\ ~Red(heap', spare'.root)
    BY <1>1, <1>3, <1>12, <1>14, <1>17 DEF Red, Places
  <2>5. Rooted(heap', E, c, tree', spare', Nil, 0)
    BY <2>2, <2>3, <2>4, <1>17 DEF Rooted
  <2> QED BY <2>1, <2>5 DEF Calm
<1>19. Inv(E, c)'
  <2>1. /\ user' \in Users /\ DOMAIN heap' \subseteq user'.nodes /\ \A n \in DOMAIN heap' : heap'[n].key \in Keys
    BY <1>1, <1>2, <1>12 DEF Typed
  <2> QED BY <2>1, <1>1, <1>18, Returned
<1>20. E[tree'.root] = {} /\ E[spare.root] = D[spare.root]
  BY <1>11, <1>14, <1>17
<1> QED BY <1>1, <1>12, <1>17, <1>19, <1>20
-----------------------------------------------------------------------------
(***************************************************************************)
(* No assertion of the code fails.                                         *)
(***************************************************************************)
LEMMA InsertFixupFinds ==
  ASSUME NEW D, NEW b, Inv(D, b), pc = "insert_fixup"
  PROVE  InsertFixupOK /\ heap[node].red /\ (node = tree.root => Depth = 0)
<1>1. Fixing /\ Inserting /\ Removed = Nil
  BY DEF Fixing, Inv, Removed
<1>2. node # Nil /\ heap[node].red
  BY <1>1 DEF Inserting
<1>3. Sound(heap, D, b, Hole, Side, node, Nil) /\ Rooted(heap, D, b, tree, spare, node, MissingAtRoot) /\ Depth \in Nat
  BY <1>1, WhenFixing
<1>4. node = tree.root => Depth = 0
  BY <1>1, <1>3, Parents
<1>5. ASSUME Red(heap, Up(0)) PROVE Depth >= 2 /\ Up(0) # tree.root /\ ~heap[Up(1)].red
  <2>1. Depth > 0
    BY <1>3, <1>5 DEF Red, Up
  <2>2. /\ Up(0) \in DOMAIN heap /\ node # Up(0) /\ (Up(0) = tree.root <=> Depth = 1)
        /\ Parent(heap, Up(0), Up(1)) /\ Depth \in Nat \ {0}
        /\ OnPath(heap, Popped(stack), tree.root, Up(0)) /\ Len(Popped(stack)) = Depth - 1
        /\ Up(1) = Top(Popped(stack))
    BY <1>1, <2>1, Parents
  <2>3. Up(0) # tree.root
    BY <1>3, <1>5, <2>2 DEF Rooted
  <2>4. Depth >= 2
    BY <2>2, <2>3
  <2>5. Up(1) \in DOMAIN heap
    <3>1. Popped(stack) # <<>>
      BY <2>2, <2>4
    <3> QED BY <3>1, <2>2, PopPath
  <2>6. IsHeap(heap) /\ RedsApart(heap, node, Nil)
    BY <1>3 DEF Sound
  <2>7. PICK s \in Sides : heap[Up(1)][s] = Up(0)
    BY <2>5, <2>2, <2>6 DEF Parent, IsHeap
  <2>8. ~heap[Up(1)].red
    BY <2>2, <2>5, <2>6, <2>7, <1>5 DEF RedsApart, IsHeap
  <2> QED BY <2>3, <2>4, <2>8
<1> QED BY <1>2, <1>4, <1>5 DEF InsertFixupOK

LEMMA DeleteFixupFinds ==
  ASSUME NEW D, NEW b, Inv(D, b), Looping
  PROVE  DeleteFixupOK
<1>1. pc = "delete_fixup" /\ Fixing /\ ~Red(heap, node) /\ node # tree.root
  BY DEF Looping, Fixing
<1>2. /\ OnPath(heap, stack, tree.root, node) /\ Depth \in Nat /\ (stack = <<>> <=> Depth = 0)
      /\ node \in Places(heap)
  BY <1>1, WhenFixing
<1>3. Depth > 0
  BY <1>1, <1>2 DEF OnPath
<1>4. /\ IsHeap(heap) /\ Forest(heap, D) /\ RedsApart(heap, node, node) /\ Balanced(heap, b, Up(0), Side)
      /\ Side \in Sides /\ heap[Up(0)][Side] = node
  BY <1>1, <1>3, WhenDeleting, MissingChild
<1>5. /\ Up(0) \in DOMAIN heap /\ node # Up(0) /\ (Up(0) = tree.root <=> Depth = 1)
      /\ Parent(heap, Up(0), Up(1)) /\ Depth \in Nat \ {0} /\ Up(0) # Nil
      /\ OnPath(heap, Popped(stack), tree.root, Up(0)) /\ Len(Popped(stack)) = Depth - 1
      /\ Up(1) = Top(Popped(stack))
  BY <1>1, <1>3, Parents
<1>6. Opp(Side) \in Sides /\ Opp(Side) # Side
  BY <1>4, OppSide
<1>7. Sibling = heap[Up(0)][Opp(Side)]
  BY DEF Sibling
<1>8. Sibling # Nil
  <2>1. /\ b[Up(0)] = b[node] + (IF heap[Up(0)].red THEN 0 ELSE 1) + 1
        /\ b[Up(0)] = b[Sibling] + (IF heap[Up(0)].red THEN 0 ELSE 1) + 0
        /\ b[node] \in Nat \ {0} /\ b[Sibling] \in Nat \ {0}
    <3>1. /\ b[Up(0)] = b[node] + (IF heap[Up(0)].red THEN 0 ELSE 1) + (IF Up(0) = Up(0) /\ Side = Side THEN 1 ELSE 0)
          /\ b[node] \in Nat \ {0}
      BY <1>4, <1>5, BalancedChild
    <3>2. /\ b[Up(0)] = b[Sibling] + (IF heap[Up(0)].red THEN 0 ELSE 1)
                          + (IF Up(0) = Up(0) /\ Opp(Side) = Side THEN 1 ELSE 0)
          /\ b[Sibling] \in Nat \ {0}
      BY <1>4, <1>5, <1>6, <1>7, BalancedChild
    <3> QED BY <3>1, <3>2, <1>6
  <2>2. b[Sibling] = b[node] + 1
    BY ONLY <2>1
  <2>3. b[Nil] = 1
    BY <1>4 DEF Balanced
  <2> QED BY <2>1, <2>2, <2>3
<1>9. Sibling \in DOMAIN heap /\ Sibling # node /\ Sibling # Up(0)
  <2>1. Sibling \in DOMAIN heap
    BY <1>4, <1>5, <1>6, <1>7, <1>8, ChildIs
  <2>2. Sibling # node
    BY <1>4, <1>5, <1>6, <1>7, <1>8, OneParent
  <2>3. Sibling # Up(0)
    BY <1>4, <1>5, <1>6, <1>7, <2>1, ForestSides, Within
  <2> QED BY <2>1, <2>2, <2>3
<1>10. Red(heap, Sibling) => NephewsBlack /\ ~heap[Up(0)].red
  <2> SUFFICES ASSUME Red(heap, Sibling) PROVE NephewsBlack /\ ~heap[Up(0)].red
    OBVIOUS
  <2>1. ~heap[Up(0)].red
    BY <1>4, <1>5, <1>6, <1>7, <1>9 DEF RedsApart
  <2>2. ASSUME NEW s \in Sides PROVE ~Red(heap, heap[Sibling][s])
    <3>1. Red(heap, heap[Sibling][s]) => heap[Sibling][s] = node
      BY <1>4, <1>9 DEF RedsApart, Red
    <3> QED BY <3>1, <1>1
  <2>3. "left" \in Sides /\ "right" \in Sides
    BY DEF Sides
  <2> QED BY <2>1, <2>2, <2>3 DEF NephewsBlack, Nephew
<1>11. ASSUME Up(0) # tree.root PROVE Up(0) \in {heap[Up(1)].left, heap[Up(1)].right}
  <2>1. Popped(stack) # <<>>
    BY <1>5, <1>11
  <2>2. Up(1) \in DOMAIN heap
    BY <2>1, <1>5, PopPath
  <2>3. PICK s \in Sides : heap[Up(1)][s] = Up(0)
    BY <2>2, <1>4, <1>5 DEF Parent, IsHeap
  <2>4. heap[Up(1)]["left"] = heap[Up(1)].left /\ heap[Up(1)]["right"] = heap[Up(1)].right
    BY <2>2, <1>4, FieldsAreSides
  <2> QED BY <2>3, <2>4 DEF Sides
<1> QED BY <1>3, <1>5, <1>8, <1>10, <1>11 DEF DeleteFixupOK

LEMMA UnlinkFinds ==
  ASSUME NEW D, NEW b, Inv(D, b), pc = "unlink"
  PROVE  UnlinkOK
<1>1. /\ OnPath(heap, stack, tree.root, y) /\ Depth = Len(stack) /\ Depth \in Nat /\ Up(0) = Top(stack)
      /\ (stack = <<>> <=> Depth = 0) /\ Parent(heap, y, Up(0)) /\ IsHeap(heap)
  BY WhenUnlinking DEF Sound
<1>2. CASE Depth = 0
  BY <1>1, <1>2 DEF UnlinkOK, OnPath
<1>3. CASE Depth # 0
  <2>1. Up(0) \in DOMAIN heap
    BY <1>1, <1>3, PopPath
  <2>2. PICK s \in Sides : heap[Up(0)][s] = y
    BY <2>1, <1>1 DEF Parent, IsHeap
  <2>3. heap[Up(0)]["left"] = heap[Up(0)].left /\ heap[Up(0)]["right"] = heap[Up(0)].right
    BY <2>1, <1>1, FieldsAreSides
  <2>4. y \in {heap[Up(0)].left, heap[Up(0)].right}
    BY <2>2, <2>3 DEF Sides
  <2> QED BY <2>4, <1>3 DEF UnlinkOK
<1> QED BY <1>2, <1>3

LEMMA InvAssertions ==
  ASSUME NEW D, NEW b, Inv(D, b)
  PROVE  AssertionsHold
<1>1. ASSUME \/ pc = "descend" /\ ~AtEnd /\ op # "search"
             \/ pc = "successor" /\ heap[y].left # Nil
      PROVE  Depth + 1 <= 2 * tree.bh
  <2>1. Tracked /\ ~Fixing /\ ~Joining /\ Higher = tree
    BY <1>1 DEF Tracked, Fixing, Joining, Higher
  <2>2. y # Nil <=> pc \in {"successor", "unlink"}
    BY DEF Inv, Control
  <2>3. At # Nil
    BY <1>1, <2>2 DEF At, AtEnd
  <2>4. "left" \in Sides
    BY DEF Sides
  <2> QED BY <2>1, <2>3, <2>4, PushKeeps
<1>2. ASSUME pc = "descend", node = Nil, op \in Inserts, Depth = 0 PROVE tree.bh = 0
  <2>1. Tracked /\ ~Fixing /\ ~Joining /\ Higher = tree
    BY <1>2 DEF Tracked, Fixing, Joining, Higher, Inserts
  <2>2. y # Nil <=> pc \in {"successor", "unlink"}
    BY DEF Inv, Control
  <2>3. At = Nil
    BY <1>2, <2>2 DEF At
  <2>4. /\ OnPath(heap, stack, tree.root, Nil) /\ b[tree.root] = tree.bh + 1 /\ tree \in Trees(heap)
        /\ Sound(heap, D, b, Nil, "left", Nil, Nil) /\ (stack = <<>> <=> Depth = 0)
    BY <2>1, <2>3, OnTheWay
  <2>5. tree.root = Nil /\ b[Nil] = 1 /\ tree.bh \in Nat
    BY <2>4, <1>2 DEF OnPath, Sound, Balanced, Trees
  <2> QED BY <2>4, <2>5
<1>3. Joining /\ ~AtHeight => Depth + 1 <= 2 * Higher.bh
  <2> SUFFICES ASSUME Joining, ~AtHeight PROVE Depth + 1 <= 2 * Higher.bh
    OBVIOUS
  <2>1. Tracked /\ ~Fixing /\ node # Nil
    BY DEF Tracked, Fixing, Joining, AtHeight
  <2>2. y = Nil
    BY DEF Inv, Control, Joining
  <2>3. At # Nil /\ "left" \in Sides
    BY <2>1, <2>2 DEF At, Sides
  <2> QED BY <2>1, <2>3, PushKeeps
<1>4. pc = "insert_fixup" => InsertFixupOK /\ heap[node].red /\ (node = tree.root => Depth = 0)
  BY InsertFixupFinds
<1>5. pc = "unlink" => UnlinkOK
  BY UnlinkFinds
<1>6. Looping => DeleteFixupOK
  BY DeleteFixupFinds
<1>7. Joining /\ AtHeight => JoinLinkOK
  BY JoinFindsPlace
<1> QED BY <1>1, <1>2, <1>3, <1>4, <1>5, <1>6, <1>7 DEF AssertionsHold
-----------------------------------------------------------------------------
(***************************************************************************)
(* What the invariant says of the properties.                              *)
(***************************************************************************)
LEMMA WhatHolds ==
  ASSUME NEW D, NEW b, Inv(D, b)
  PROVE  /\ IsHeap(heap) /\ Forest(heap, D) /\ IsFiniteSet(DOMAIN heap) /\ Typed
         /\ tree \in Trees(heap) /\ spare \in Trees(heap) /\ Parts(heap, D, tree.root, spare.root)
         /\ Balanced(heap, b, Hole, Side)
<1>1. Typed /\ Sound(heap, D, b, Hole, Side, Except, Removed)
      /\ Rooted(heap, D, b, tree, spare, Except, MissingAtRoot)
  BY DEF Inv
<1>2. IsFiniteSet(DOMAIN heap)
  BY <1>1, RbTreeAssumption, FS_Subset DEF Typed
<1> QED BY <1>1, <1>2 DEF Sound, Rooted

LEMMA InvTypeOK ==
  ASSUME NEW D, NEW b, Inv(D, b)
  PROVE  TypeOK
<1>1. IsHeap(heap) /\ Typed /\ tree \in Trees(heap) /\ spare \in Trees(heap)
  BY WhatHolds
<1>2. ASSUME NEW n \in DOMAIN heap
      PROVE  heap[n] \in [key : Keys, red : BOOLEAN, left : DOMAIN heap \cup {Nil},
                          right : DOMAIN heap \cup {Nil}]
  <2>1. heap[n] \in [key : Nat, red : BOOLEAN, left : DOMAIN heap \cup {Nil}, right : DOMAIN heap \cup {Nil}]
    BY <1>1 DEF IsHeap, Cells, Places
  <2>2. heap[n].key \in Keys
    BY <1>1 DEF Typed
  <2> QED BY ONLY <2>1, <2>2
<1>3. {tree.root, spare.root, node, y} \subseteq DOMAIN heap \cup {Nil} /\ tree.bh \in Nat /\ spare.bh \in Nat
  BY <1>1 DEF Trees, Typed, Places
<1> QED BY <1>1, <1>2, <1>3 DEF TypeOK, Typed

LEMMA InvRedBlack ==
  ASSUME NEW D, NEW b, Inv(D, b)
  PROVE  RedBlack
<1> SUFFICES ASSUME pc = "idle"
             PROVE  \A t \in {tree, spare} : ~Red(heap, t.root) /\ BlackHeight(heap, t.root) = t.bh + 1
  BY DEF RedBlack
<1>1. Calm(heap, D, b, tree, spare) /\ IsFiniteSet(DOMAIN heap)
  BY WhenCalm DEF Fixing
<1>2. /\ b[tree.root] = tree.bh + 1 /\ b[spare.root] = spare.bh + 1
      /\ ~Red(heap, tree.root) /\ ~Red(heap, spare.root)
      /\ Parts(heap, D, tree.root, spare.root) /\ Sound(heap, D, b, Nil, "left", Nil, Nil)
  BY <1>1, CalmTrees
<1>3. /\ IsHeap(heap) /\ Forest(heap, D) /\ Balanced(heap, b, Nil, "left") /\ RedsApart(heap, Nil, Nil)
      /\ tree.root \in Places(heap) /\ spare.root \in Places(heap)
  BY <1>2 DEF Sound, Parts
<1>4. BlackHeight(heap, tree.root) = b[tree.root] /\ BlackHeight(heap, spare.root) = b[spare.root]
  BY <1>1, <1>3, HeightIs
<1> QED BY <1>2, <1>4

LEMMA InvNothingLost ==
  ASSUME NEW D, NEW b, Inv(D, b)
  PROVE  NothingLost
<1>1. /\ IsHeap(heap) /\ Forest(heap, D) /\ IsFiniteSet(DOMAIN heap) /\ Parts(heap, D, tree.root, spare.root)
  BY WhatHolds
<1>2. /\ tree.root \in Places(heap) /\ spare.root \in Places(heap)
      /\ D[tree.root] \cup D[spare.root] = DOMAIN heap /\ D[tree.root] \cap D[spare.root] = {}
  BY <1>1 DEF Parts
<1>3. NodesOf(tree) = D[tree.root] /\ NodesOf(spare) = D[spare.root]
  BY <1>1, <1>2, BelowIs DEF NodesOf
<1>4. ASSUME NEW n \in DOMAIN heap
      PROVE  LET l == Below(heap, heap[n].left)
                 r == Below(heap, heap[n].right)
             IN l \cap r = {} /\ n \notin l \cup r
  <2>1. heap[n].left \in Places(heap) /\ heap[n].right \in Places(heap)
    BY <1>1, FieldsAreSides
  <2>2. Below(heap, heap[n].left) = D[heap[n].left] /\ Below(heap, heap[n].right) = D[heap[n].right]
    BY <2>1, <1>1, BelowIs
  <2>3. /\ n \notin D[heap[n].left] /\ n \notin D[heap[n].right]
        /\ D[heap[n].left] \cap D[heap[n].right] = {}
    BY <1>1 DEF Forest
  <2> QED BY <2>2, <2>3
<1> QED BY <1>2, <1>3, <1>4 DEF NothingLost

LEMMA InvStackIsPath ==
  ASSUME NEW D, NEW b, Inv(D, b)
  PROVE  StackIsPath
<1> DEFINE path == stack \o <<At>>
<1>1. SUFFICES ASSUME Depth > 0
               PROVE  /\ path[1] = Higher.root
                      /\ \A i \in 1..Depth : path[i + 1] \in {heap[path[i]].left, heap[path[i]].right}
                      /\ Depth < Higher.ssize
  BY DEF StackIsPath, At
<1>2. stack # <<>>
  BY <1>1 DEF Depth
<1>3. Tracked
  BY <1>2 DEF Inv, Control
<1>4. /\ OnPath(heap, stack, Higher.root, At) /\ Short(heap, b, stack, Higher.bh)
      /\ 2 * Higher.bh < Higher.ssize
  BY <1>3 DEF Inv, Ancestors
<1>5. /\ IsHeap(heap) /\ Higher \in Trees(heap) /\ Balanced(heap, b, Hole, Side)
  BY WhatHolds DEF Higher
<1>6. stack \in Seq(DOMAIN heap) /\ Depth = Len(stack) /\ Depth \in Nat /\ stack[1] = Higher.root
      /\ 1 \in 1..Depth /\ Depth \in 1..Depth
  BY <1>1, <1>2, <1>4 DEF OnPath, Depth
<1>7. \A i \in 1..Depth : path[i] = stack[i] /\ stack[i] \in DOMAIN heap
  <2>1. \A i \in 1..Len(stack) : stack[i] \in DOMAIN heap
    BY <1>6, ElementOfSeq
  <2>2. ASSUME NEW i \in 1..Len(stack) PROVE path[i] = stack[i]
    <3>1. DOMAIN stack = 1..Len(stack)
      BY <1>6, LenProperties
    <3> QED BY <1>6, <3>1
  <2> QED BY <2>1, <2>2, <1>6
<1>8. path[Depth + 1] = At
  BY <1>6
<1>9. ASSUME NEW i \in 1..Depth PROVE path[i + 1] \in {heap[path[i]].left, heap[path[i]].right}
  <2>1. PICK s \in Sides : heap[stack[i]][s] = IF i = Depth THEN At ELSE stack[i + 1]
    BY <1>4, <1>6 DEF OnPath
  <2>2. path[i + 1] = heap[stack[i]][s]
    <3>1. CASE i = Depth
      BY <3>1, <2>1, <1>8
    <3>2. CASE i # Depth
      <4>1. i + 1 \in 1..Depth
        BY <3>2, <1>6
      <4> QED BY <4>1, <3>2, <2>1, <1>7
    <3> QED BY <3>1, <3>2
  <2>3. heap[stack[i]]["left"] = heap[stack[i]].left /\ heap[stack[i]]["right"] = heap[stack[i]].right
    BY <1>5, <1>7, FieldsAreSides
  <2> QED BY <2>2, <2>3, <1>7 DEF Sides
<1>10. Depth < Higher.ssize
  <2> DEFINE n == stack[Depth]
  <2>1. n \in DOMAIN heap /\ "left" \in Sides
    BY <1>6, <1>7 DEF Sides
  <2>2. b[n] \in Nat \ {0} /\ heap[n].red \in BOOLEAN /\ (~heap[n].red => b[n] >= 2)
    BY <2>1, <1>5, BalancedChild
  <2>3. Depth <= 2 * (Higher.bh + 1 - b[n]) + (IF heap[n].red THEN 0 ELSE 1)
    BY <1>4, <1>6 DEF Short
  <2>4. Higher.bh \in Nat /\ Higher.ssize \in Nat
    BY <1>5 DEF Trees
  <2> HIDE DEF n
  <2>5. Depth <= 2 * Higher.bh
    <3>1. CASE heap[n].red
      <4>1. Depth <= 2 * (Higher.bh + 1 - b[n]) + 0
        BY <2>3, <3>1
      <4> QED BY ONLY <4>1, <2>2, <2>4, <1>6
    <3>2. CASE ~heap[n].red
      <4>1. Depth <= 2 * (Higher.bh + 1 - b[n]) + 1 /\ b[n] >= 2
        BY <2>2, <2>3, <3>2
      <4> QED BY ONLY <4>1, <2>2, <2>4, <1>6
    <3> QED BY <3>1, <3>2
  <2> QED BY ONLY <2>4, <2>5, <1>4, <1>6
<1> QED BY <1>6, <1>7, <1>9, <1>10

(***************************************************************************)
(* The theorems.                                                           *)
(***************************************************************************)
IInv == \E D, b : Inv(D, b)

LEMMA InvInit == Init => IInv
<1> SUFFICES ASSUME Init PROVE IInv
  OBVIOUS
<1>1. /\ user \in Users /\ heap = [n \in {} |-> 0] /\ tree = NewTree /\ spare = NewTree
      /\ stack = <<>> /\ pc = "idle" /\ op = "none"
      /\ x = 0 /\ node = Nil /\ y = Nil /\ bh = 0 /\ result = 0
  BY DEF Init
<1>2. DOMAIN heap = {} /\ Places(heap) = {Nil}
  BY <1>1 DEF Places
<1>3. PICK D : D = [m \in {Nil} |-> {}]
  OBVIOUS
<1>4. PICK b : b = [m \in {Nil} |-> 1]
  OBVIOUS
<1>5. IsHeap(heap)
  BY <1>1, <1>2 DEF IsHeap
<1>6. Forest(heap, D) /\ D[Nil] = {}
  BY <1>2, <1>3 DEF Forest
<1>7. Ordered(heap, D) /\ RedsApart(heap, Nil, Nil)
  BY <1>2 DEF Ordered, RedsApart
<1>8. Balanced(heap, b, Nil, Side) /\ b[Nil] = 1
  BY <1>2, <1>4 DEF Balanced
<1>9. ~Fixing /\ ~Tracked /\ ~Joining /\ Hole = Nil /\ Except = Nil /\ Removed = Nil /\ MissingAtRoot = 0
  BY <1>1 DEF Fixing, Tracked, Joining, Hole, Except, Removed, MissingAtRoot
<1>10. Sound(heap, D, b, Hole, Side, Except, Removed)
  BY <1>5, <1>6, <1>7, <1>8, <1>9 DEF Sound
<1>11. NewTree \in Trees(heap) /\ NewTree.root = Nil /\ NewTree.bh = 0
  BY <1>2 DEF NewTree, Trees
<1>12. Rooted(heap, D, b, tree, spare, Except, MissingAtRoot)
  BY <1>1, <1>2, <1>6, <1>8, <1>9, <1>11 DEF Rooted, Parts, Red
<1>13. Typed
  BY <1>1, <1>2 DEF Typed
<1>14. Control
  BY <1>1, <1>9 DEF Control
<1>15. Ancestors(b) /\ Searching(D) /\ Inserting /\ Removing(D) /\ Leftmost(D) /\ Meeting(D, b)
  BY <1>1, <1>9 DEF Ancestors, Searching, Inserting, Removing, Leftmost, Meeting
<1> QED BY <1>10, <1>12, <1>13, <1>14, <1>15 DEF IInv, Inv

LEMMA InvStutters ==
  ASSUME NEW D, NEW b, Inv(D, b), UNCHANGED vars
  PROVE  Inv(D, b)'
<1>1. /\ user' = user /\ heap' = heap /\ tree' = tree /\ spare' = spare /\ stack' = stack /\ pc' = pc
      /\ op' = op /\ x' = x /\ node' = node /\ y' = y /\ bh' = bh /\ result' = result
  BY DEF vars
<1>2. /\ Hole' = Hole /\ Side' = Side /\ Except' = Except /\ Removed' = Removed /\ MissingAtRoot' = MissingAtRoot
      /\ Depth' = Depth /\ Up(0)' = Up(0) /\ Joining' = Joining /\ Higher' = Higher /\ Lower' = Lower
      /\ Tracked' = Tracked /\ At' = At /\ JoinSide' = JoinSide
      /\ ChildSide(x, Up(0))' = ChildSide(x, Up(0))
  BY <1>1 DEF Hole, Side, Except, Removed, MissingAtRoot, Depth, Up, Joining, Higher, Lower, Tracked, At,
              JoinSide, ChildSide, Fixing
<1>3. Typed'
  BY <1>1 DEF Inv, Typed
<1>4. Control'
  BY <1>1, <1>2 DEF Inv, Control
<1>5. Sound(heap', D, b, Hole', Side', Except', Removed')
  BY <1>1, <1>2 DEF Inv
<1>6. Rooted(heap', D, b, tree', spare', Except', MissingAtRoot')
  BY <1>1, <1>2 DEF Inv
<1>7. Ancestors(b)'
  BY <1>1, <1>2 DEF Inv, Ancestors
<1>8. Searching(D)'
  BY <1>1, <1>2 DEF Inv, Searching
<1>9. Inserting' /\ Removing(D)' /\ Leftmost(D)'
  BY <1>1, <1>2 DEF Inv, Inserting, Removing, Leftmost
<1>10. Meeting(D, b)'
  BY <1>1, <1>2 DEF Inv, Meeting
<1> QED BY <1>3, <1>4, <1>5, <1>6, <1>7, <1>8, <1>9, <1>10 DEF Inv

LEMMA InvStep == IInv /\ [Next]_vars => IInv'
<1> SUFFICES ASSUME NEW D, NEW b, Inv(D, b), [Next]_vars
             PROVE  \E E, c : Inv(E, c)'
  BY DEF IInv
<1>1. ASSUME NEW o \in user.calls, Call(o) PROVE \E E, c : Inv(E, c)'
  BY <1>1, CallKeeps
<1>2. CASE Descend
  BY <1>2, DescendKeeps
<1>3. CASE ReturnFound
  BY <1>3, ReturnFoundKeeps
<1>4. CASE DoInsert
  BY <1>4, DoInsertKeeps
<1>5. CASE InsertRecolor
  BY <1>5, InsertRecolorKeeps
<1>6. CASE InsertRotate
  BY <1>6, InsertRotateKeeps
<1>7. CASE InsertDone
  BY <1>7, InsertDoneKeeps
<1>8. CASE FindVictim
  BY <1>8, FindVictimKeeps
<1>9. CASE Successor
  BY <1>9, SuccessorKeeps
<1>10. CASE Unlink
  BY <1>10, UnlinkKeeps
<1>11. CASE DeleteRecolor
  BY <1>11, DeleteRecolorKeeps
<1>12. CASE DeleteLift
  BY <1>12, DeleteLiftKeeps
<1>13. CASE DeleteRotate
  BY <1>13, DeleteRotateKeeps
<1>14. CASE DeleteDone
  BY <1>14, DeleteDoneKeeps
<1>15. CASE GoLeft
  BY <1>15, GoLeftKeeps
<1>16. CASE Minimum
  BY <1>16, MinimumKeeps
<1>17. CASE Clear
  BY <1>17, ClearKeeps
<1>18. CASE Swap
  BY <1>18, SwapKeeps
<1>19. CASE JoinTrivial
  BY <1>19, JoinTrivialKeeps
<1>20. CASE JoinStart
  BY <1>20, JoinStartKeeps
<1>21. CASE JoinDescend
  BY <1>21, JoinDescendKeeps
<1>22. CASE JoinLink
  BY <1>22, JoinLinkKeeps
<1>23. CASE UNCHANGED vars
  BY <1>23, InvStutters
<1> QED
  BY <1>1, <1>2, <1>3, <1>4, <1>5, <1>6, <1>7, <1>8, <1>9, <1>10, <1>11, <1>12, <1>13, <1>14, <1>15,
     <1>16, <1>17, <1>18, <1>19, <1>20, <1>21, <1>22, <1>23 DEF Next

LEMMA Invariance == Spec => []IInv
  BY InvInit, InvStep, PTL DEF Spec

(* The memory of rbtree.c stays a heap: every field of every node in use   *)
(* and every pointer of a tree is nil or a node in use. *)
THEOREM TypesHold == Spec => []TypeOK
<1>1. IInv => TypeOK
  BY InvTypeOK DEF IInv
<1> QED BY <1>1, Invariance, PTL

(* Between two calls both trees are red-black trees whose stored height is *)
(* right, whatever has been inserted, deleted and joined before. *)
THEOREM TreesAreRedBlack == Spec => []RedBlack
<1>1. IInv => RedBlack
  BY InvRedBlack DEF IInv
<1> QED BY <1>1, Invariance, PTL

(* No rotation, deletion or join loses a subtree, shares it or closes a    *)
(* cycle, in any step. *)
THEOREM NoNodeIsLost == Spec => []NothingLost
<1>1. IInv => NothingLost
  BY InvNothingLost DEF IInv
<1> QED BY <1>1, Invariance, PTL

(* tree->stack holds the ancestors of the node at hand and never outgrows  *)
(* its memory, though rb_delete_fixup pushes without a check. *)
THEOREM StackIsSound == Spec => []StackIsPath
<1>1. IInv => StackIsPath
  BY InvStackIsPath DEF IInv
<1> QED BY <1>1, Invariance, PTL

(* No assertion of rbtree.c fails. *)
THEOREM NoAssertionFails == Spec => []AssertionsHold
<1>1. IInv => AssertionsHold
  BY InvAssertions DEF IInv
<1> QED BY <1>1, Invariance, PTL
-----------------------------------------------------------------------------
(***************************************************************************)
(* The refinement of OrderedBag: a bag counts the nodes of each key.       *)
(***************************************************************************)
WithKey(h, S, k) == {n \in S : h[n].key = k}
Bagged(h, S) == [k \in Keys |-> Cardinality(WithKey(h, S, k))]
SameKeys(h, g, S) == \A n \in S : g[n].key = h[n].key

LEMMA Counted ==
  ASSUME NEW h, NEW S, IsFiniteSet(S), NEW k
  PROVE  /\ IsFiniteSet(WithKey(h, S, k)) /\ Cardinality(WithKey(h, S, k)) \in Nat
         /\ Cardinality(WithKey(h, S, k)) = 0 <=> WithKey(h, S, k) = {}
<1>1. WithKey(h, S, k) \in SUBSET S
  BY DEF WithKey
<1>2. IsFiniteSet(WithKey(h, S, k))
  BY <1>1, FS_Subset
<1> QED BY <1>2, FS_CardinalityType, FS_EmptySet

LEMMA BaggedSame ==
  ASSUME NEW h, NEW g, NEW S, SameKeys(h, g, S)
  PROVE  Bagged(g, S) = Bagged(h, S)
<1>1. ASSUME NEW k PROVE WithKey(g, S, k) = WithKey(h, S, k)
  BY DEF WithKey, SameKeys
<1> QED BY <1>1 DEF Bagged

LEMMA BaggedNone ==
  ASSUME NEW h
  PROVE  Bagged(h, {}) = Bag!Empty
<1>1. ASSUME NEW k PROVE WithKey(h, {}, k) = {}
  BY DEF WithKey
<1>2. Cardinality({}) = 0
  BY FS_EmptySet
<1> QED BY <1>1, <1>2 DEF Bagged, Bag!Empty

(* A key is in the bag when a node has it. *)
LEMMA BaggedHas ==
  ASSUME NEW h, NEW S, IsFiniteSet(S), NEW k \in Keys
  PROVE  /\ Bagged(h, S)[k] \in Nat
         /\ Bag!Has(Bagged(h, S), k) <=> \E n \in S : h[n].key = k
         /\ ~Bag!Has(Bagged(h, S), k) <=> Bagged(h, S)[k] = 0
<1>1. Bagged(h, S)[k] = Cardinality(WithKey(h, S, k))
  BY DEF Bagged
<1>2. Cardinality(WithKey(h, S, k)) \in Nat /\ (Cardinality(WithKey(h, S, k)) = 0 <=> WithKey(h, S, k) = {})
  BY Counted
<1>3. WithKey(h, S, k) = {} <=> ~ \E n \in S : h[n].key = k
  BY DEF WithKey
<1>4. Bag!Has(Bagged(h, S), k) <=> Bagged(h, S)[k] > 0
  BY DEF Bag!Has
<1> QED BY <1>1, <1>2, <1>3, <1>4

(* One more node. *)
LEMMA BaggedMore ==
  ASSUME NEW h, NEW g, NEW S, IsFiniteSet(S), NEW n, n \notin S, SameKeys(h, g, S), NEW k \in Keys, g[n].key = k
  PROVE  Bagged(g, S \cup {n}) = [Bagged(h, S) EXCEPT ![k] = @ + 1]
<1>1. Bagged(h, S) \in [Keys -> Nat]
  BY Counted DEF Bagged
<1>2. WithKey(g, S \cup {n}, k) = WithKey(h, S, k) \cup {n} /\ n \notin WithKey(h, S, k)
  BY DEF WithKey, SameKeys
<1>3. ASSUME NEW j \in Keys, j # k PROVE WithKey(g, S \cup {n}, j) = WithKey(h, S, j)
  BY <1>3 DEF WithKey, SameKeys
<1>4. Cardinality(WithKey(g, S \cup {n}, k)) = Cardinality(WithKey(h, S, k)) + 1
  <2> PICK A : A = WithKey(h, S, k)
    OBVIOUS
  <2>1. IsFiniteSet(A) /\ n \notin A /\ WithKey(g, S \cup {n}, k) = A \cup {n}
    BY <1>2, Counted
  <2>2. Cardinality(A \cup {n}) = Cardinality(A) + 1
    BY ONLY <2>1, FS_AddElement
  <2> QED BY <2>1, <2>2
<1> QED BY <1>1, <1>3, <1>4 DEF Bagged

LEMMA CardinalityApart ==
  ASSUME NEW A, NEW B, IsFiniteSet(A), IsFiniteSet(B), A \cap B = {}
  PROVE  Cardinality(A \cup B) = Cardinality(A) + Cardinality(B)
<1>1. Cardinality(A \cup B) = Cardinality(A) + Cardinality(B) - Cardinality(A \cap B)
  BY FS_Union
<1>2. Cardinality(A \cap B) = 0
  BY FS_EmptySet
<1> QED BY <1>1, <1>2, FS_CardinalityType

(* Two sets of nodes that are apart. *)
LEMMA BaggedUnion ==
  ASSUME NEW h, NEW S, NEW T, IsFiniteSet(S), IsFiniteSet(T), S \cap T = {}, NEW k \in Keys
  PROVE  Bagged(h, S \cup T)[k] = Bagged(h, S)[k] + Bagged(h, T)[k]
<1>1. WithKey(h, S \cup T, k) = WithKey(h, S, k) \cup WithKey(h, T, k)
      /\ WithKey(h, S, k) \cap WithKey(h, T, k) = {}
  BY DEF WithKey
<1>2. IsFiniteSet(WithKey(h, S, k)) /\ IsFiniteSet(WithKey(h, T, k))
  BY Counted
<1>3. Cardinality(WithKey(h, S, k) \cup WithKey(h, T, k))
        = Cardinality(WithKey(h, S, k)) + Cardinality(WithKey(h, T, k))
  BY <1>1, <1>2, CardinalityApart
<1> QED BY <1>1, <1>3 DEF Bagged

(* One node less, whose key another one takes that had the key k. *)
LEMMA BaggedLess ==
  ASSUME NEW h, NEW g, NEW S, IsFiniteSet(S), NEW n \in S, NEW v \in S, NEW k \in Keys, h[n].key = k,
         \A m \in S \ {v} : g[m].key = IF m = n THEN h[v].key ELSE h[m].key
  PROVE  /\ Bagged(h, S)[k] # 0
         /\ Bagged(g, S \ {v}) = [Bagged(h, S) EXCEPT ![k] = @ - 1]
<1> DEFINE A(j) == WithKey(h, S, j)
           B(j) == WithKey(g, S \ {v}, j)
<1>1. \A j : IsFiniteSet(A(j)) /\ Cardinality(A(j)) \in Nat /\ (Cardinality(A(j)) = 0 <=> A(j) = {})
  BY Counted
<1>2. n \in A(k) /\ n \in S
  BY DEF WithKey
<1>3. Cardinality(A(k)) # 0
  BY <1>1, <1>2
<1>4. Cardinality(B(k)) = Cardinality(A(k)) - 1
  <2>1. CASE h[v].key = k
    <3>1. B(k) = A(k) \ {v} /\ v \in A(k)
      BY <2>1 DEF WithKey
    <3>2. IsFiniteSet(A(k))
      BY <1>1
    <3>3. Cardinality(A(k) \ {v}) = Cardinality(A(k)) - 1
      BY ONLY <3>1, <3>2, FS_RemoveElement
    <3> QED BY <3>1, <3>3
  <2>2. CASE h[v].key # k
    <3>1. B(k) = A(k) \ {n}
      BY <2>2 DEF WithKey
    <3>2. IsFiniteSet(A(k)) /\ n \in A(k)
      BY <1>1, <1>2
    <3>3. Cardinality(A(k) \ {n}) = Cardinality(A(k)) - 1
      BY ONLY <3>2, FS_RemoveElement
    <3> QED BY <3>1, <3>3
  <2> QED BY <2>1, <2>2
<1>5. ASSUME NEW j \in Keys, j # k PROVE Cardinality(B(j)) = Cardinality(A(j))
  <2>1. CASE h[v].key # j
    <3>1. B(j) = A(j)
      BY <2>1, <1>5 DEF WithKey
    <3> QED BY <3>1
  <2>2. CASE h[v].key = j
    <3>1. B(j) = (A(j) \ {v}) \cup {n} /\ v \in A(j) /\ n \notin A(j) \ {v} /\ v # n
      BY <2>2, <1>5 DEF WithKey
    <3>2. IsFiniteSet(A(j) \ {v}) /\ Cardinality(A(j) \ {v}) = Cardinality(A(j)) - 1
      <4>1. IsFiniteSet(A(j))
        BY <1>1
      <4> QED BY ONLY <4>1, <3>1, FS_RemoveElement
    <3>3. Cardinality(B(j)) = Cardinality(A(j)) - 1 + 1
      <4> PICK C : C = A(j) \ {v}
        OBVIOUS
      <4>1. IsFiniteSet(C) /\ n \notin C /\ B(j) = C \cup {n} /\ Cardinality(C) = Cardinality(A(j)) - 1
        BY <3>1, <3>2
      <4>2. Cardinality(C \cup {n}) = Cardinality(C) + 1
        BY ONLY <4>1, FS_AddElement
      <4> QED BY <4>1, <4>2
    <3> QED BY <3>3, <1>1
  <2> QED BY <2>1, <2>2
<1>6. Bagged(h, S) = [j \in Keys |-> Cardinality(A(j))] /\ Bagged(g, S \ {v}) = [j \in Keys |-> Cardinality(B(j))]
  BY DEF Bagged
<1> HIDE DEF A, B
<1> QED BY <1>3, <1>4, <1>5, <1>6

-----------------------------------------------------------------------------
LEMMA BelowBagged ==
  ASSUME NEW h, NEW D, NEW r, IsHeap(h), Forest(h, D), IsFiniteSet(DOMAIN h), r \in Places(h)
  PROVE  Bagged(h, Below(h, r)) = Bagged(h, D[r]) /\ IsFiniteSet(D[r]) /\ D[r] \subseteq DOMAIN h
<1>1. D[r] \in SUBSET DOMAIN h
  BY DEF Forest
<1>2. IsFiniteSet(D[r])
  BY <1>1, FS_Subset
<1>3. Below(h, r) = D[r]
  BY BelowIs
<1> QED BY <1>1, <1>2, <1>3

(* What the properties count is what is below the roots, *)
LEMMA Bags ==
  ASSUME NEW D, NEW b, Inv(D, b)
  PROVE  /\ Contents(tree) = Bagged(heap, D[tree.root]) /\ Contents(spare) = Bagged(heap, D[spare.root])
         /\ IsFiniteSet(D[tree.root]) /\ IsFiniteSet(D[spare.root])
         /\ D[tree.root] \cap D[spare.root] = {} /\ D[tree.root] \cup D[spare.root] = DOMAIN heap
<1>1. /\ IsHeap(heap) /\ Forest(heap, D) /\ IsFiniteSet(DOMAIN heap) /\ Parts(heap, D, tree.root, spare.root)
  BY WhatHolds
<1>2. /\ tree.root \in Places(heap) /\ spare.root \in Places(heap)
      /\ D[tree.root] \cap D[spare.root] = {} /\ D[tree.root] \cup D[spare.root] = DOMAIN heap
  BY <1>1 DEF Parts
<1>3. /\ Bagged(heap, Below(heap, tree.root)) = Bagged(heap, D[tree.root]) /\ IsFiniteSet(D[tree.root])
      /\ Bagged(heap, Below(heap, spare.root)) = Bagged(heap, D[spare.root]) /\ IsFiniteSet(D[spare.root])
  BY <1>1, <1>2, BelowBagged
<1>4. /\ Contents(tree) = Bagged(heap, Below(heap, tree.root))
      /\ Contents(spare) = Bagged(heap, Below(heap, spare.root))
  BY DEF Contents, NodesOf, Bagged, WithKey
<1> QED BY <1>2, <1>3, <1>4

(* and after a step. *)
LEMMA BagsAfter ==
  ASSUME NEW D, NEW b, Inv(D, b)'
  PROVE  Contents(tree)' = Bagged(heap', D[tree'.root]) /\ Contents(spare)' = Bagged(heap', D[spare'.root])
<1>1. /\ IsHeap(heap') /\ Forest(heap', D) /\ Typed' /\ tree'.root \in Places(heap') /\ spare'.root \in Places(heap')
  BY DEF Inv, Sound, Rooted, Parts
<1>2. IsFiniteSet(DOMAIN heap')
  <2>1. user' \in Users /\ DOMAIN heap' \in SUBSET user'.nodes
    BY <1>1 DEF Typed
  <2> QED BY <2>1, RbTreeAssumption, FS_Subset
<1>3. /\ Bagged(heap', Below(heap', tree'.root)) = Bagged(heap', D[tree'.root])
      /\ Bagged(heap', Below(heap', spare'.root)) = Bagged(heap', D[spare'.root])
  BY <1>1, <1>2, BelowBagged
<1>4. /\ Contents(tree)' = Bagged(heap', Below(heap', tree'.root))
      /\ Contents(spare)' = Bagged(heap', Below(heap', spare'.root))
  BY DEF Contents, NodesOf, Bagged, WithKey
<1> QED BY <1>3, <1>4

(* The trees keep their nodes and keys. *)
LEMMA BagsKept ==
  ASSUME NEW D, NEW b, Inv(D, b), NEW E, NEW c, Inv(E, c)', SameNodes(heap, heap'),
         E[tree'.root] = D[tree.root], E[spare'.root] = D[spare.root]
  PROVE  Contents(tree)' = Contents(tree) /\ Contents(spare)' = Contents(spare)
<1>1. /\ Contents(tree) = Bagged(heap, D[tree.root]) /\ Contents(spare) = Bagged(heap, D[spare.root])
      /\ D[tree.root] \cup D[spare.root] = DOMAIN heap
  BY Bags
<1>2. Contents(tree)' = Bagged(heap', D[tree.root]) /\ Contents(spare)' = Bagged(heap', D[spare.root])
  BY BagsAfter
<1>3. SameKeys(heap, heap', D[tree.root]) /\ SameKeys(heap, heap', D[spare.root])
  BY <1>1 DEF SameNodes, SameKeys
<1> QED BY <1>1, <1>2, <1>3, BaggedSame

Phase == IF pc = "idle" THEN "idle"
         ELSE IF pc \in {"insert_fixup", "delete_fixup"} THEN "effective" ELSE "called"
BagStep == [Bag!BagNext]_(Bag!bagVars)

LEMMA BagStutters ==
  ASSUME Contents(tree)' = Contents(tree), Contents(spare)' = Contents(spare), op' = op, x' = x,
         Phase' = Phase, result' = result
  PROVE  BagStep
BY DEF BagStep, Bag!bagVars, Phase

(* A call takes effect, and may return. *)
Effected ==
  /\ Phase = "called"
  /\ \/ Phase' = "effective" /\ op' = op /\ x' = x
     \/ Phase' = "idle" /\ op' = "none" /\ x' = 0

LEMMA TakesEffect ==
  ASSUME Effected, Bag!Effect
  PROVE  BagStep
<1>1. Bag!TakeEffect(Bag!Effect)
  BY DEF Bag!TakeEffect, Effected, Phase, Bag!NoCall
<1> QED BY <1>1 DEF BagStep, Bag!BagNext

LEMMA CallIsBegin ==
  ASSUME NEW D, NEW b, Inv(D, b), NEW o \in user.calls, Call(o)
  PROVE  BagStep
<1>1. /\ Inv(D, b)' /\ heap' = heap /\ tree'.root = tree.root /\ spare' = spare
      /\ op' = o /\ o \in AllCalls /\ x' \in Keys \cup {0} /\ result' = 0
  BY CallKeeps
<1>2. SameNodes(heap, heap')
  BY <1>1 DEF SameNodes
<1>3. Contents(tree)' = Contents(tree) /\ Contents(spare)' = Contents(spare)
  BY <1>1, <1>2, BagsKept
<1>4. pc = "idle" /\ pc' = IF o \in Walks THEN "descend" ELSE o
  BY DEF Call
<1>5. Phase = "idle" /\ Phase' = "called"
  <2>1. pc' \in {"descend", "minimum", "clear", "swap", "join"}
    BY <1>1, <1>4 DEF AllCalls, Walks, Inserts
  <2> QED BY <2>1, <1>4 DEF Phase
<1>6. Bag!Begin
  BY <1>1, <1>3, <1>5 DEF Bag!Begin, Phase, AllCalls
<1> QED BY <1>6 DEF BagStep, Bag!BagNext

(* Steps that only look at the trees. *)
LEMMA LookingStutters ==
  ASSUME NEW D, NEW b, Inv(D, b), Descend \/ FindVictim \/ Successor \/ GoLeft \/ JoinStart \/ JoinDescend
  PROVE  BagStep
<1>1. /\ heap' = heap /\ op' = op /\ x' = x /\ result' = result
      /\ pc \notin {"idle", "insert_fixup", "delete_fixup"} /\ pc' \notin {"idle", "insert_fixup", "delete_fixup"}
  <2>1. CASE Descend
    BY <2>1 DEF Descend
  <2>2. CASE FindVictim
    BY <2>2 DEF FindVictim
  <2>3. CASE Successor
    BY <2>3 DEF Successor
  <2>4. CASE GoLeft
    BY <2>4 DEF GoLeft
  <2>5. CASE JoinStart
    BY <2>5 DEF JoinStart
  <2>6. CASE JoinDescend
    BY <2>6 DEF JoinDescend, Joining
  <2> QED BY <2>1, <2>2, <2>3, <2>4, <2>5, <2>6
<1>2. tree'.root = tree.root /\ spare'.root = spare.root
  <2>1. CASE JoinStart
    <3>1. tree' = tree \/ tree' = Grown(tree)
      BY <2>1 DEF JoinStart
    <3>2. spare' = spare \/ spare' = Grown(spare)
      BY <2>1 DEF JoinStart
    <3>3. ASSUME NEW t \in Trees(heap) PROVE Grown(t).root = t.root
      BY <3>3 DEF Trees, Grown
    <3>4. tree \in Trees(heap) /\ spare \in Trees(heap)
      BY WhatHolds
    <3> QED BY <3>1, <3>2, <3>3, <3>4
  <2>2. CASE ~JoinStart
    <3>1. tree' = tree /\ spare' = spare
      BY <2>2 DEF Descend, FindVictim, Successor, GoLeft, JoinDescend
    <3> QED BY <3>1
  <2> QED BY <2>1, <2>2
<1>3. Contents(tree)' = Contents(tree) /\ Contents(spare)' = Contents(spare)
  BY <1>1, <1>2 DEF Contents, NodesOf
<1>4. Phase' = Phase
  BY <1>1 DEF Phase
<1> QED BY <1>1, <1>3, <1>4, BagStutters

(* A call that returns as it takes effect. *)
LEMMA EffectedNow ==
  ASSUME NEW res, Done(res), pc \notin {"idle", "insert_fixup", "delete_fixup"}
  PROVE  Effected
BY DEF Done, Effected, Phase

LEMMA ReturnFoundTakesEffect ==
  ASSUME NEW D, NEW b, Inv(D, b), ReturnFound
  PROVE  BagStep
<1>1. /\ pc = "descend" /\ AtEnd /\ Done(IF node = Nil THEN 0 ELSE heap[node].key)
      /\ \/ op = "search" \/ (op = "insert_if_absent" /\ node # Nil) \/ (op = "delete" /\ node = Nil)
      /\ heap' = heap /\ tree' = tree /\ spare' = spare
  BY DEF ReturnFound
<1>2. Contents(tree)' = Contents(tree) /\ Contents(spare)' = Contents(spare)
  BY <1>1 DEF Contents, NodesOf
<1>3. /\ Contents(tree) = Bagged(heap, D[tree.root]) /\ IsFiniteSet(D[tree.root])
      /\ D[Nil] = {}
  BY Bags, WhatHolds DEF Forest
<1>4. /\ x \in Keys /\ op # "insert" /\ (node # Nil => node \in D[tree.root] /\ heap[node].key = x)
      /\ \A m \in D[tree.root] : heap[m].key = x => m \in D[node]
  BY <1>1 DEF Inv, Control, Searching, AtEnd
<1>5. Bag!Has(Contents(tree), x) <=> node # Nil
  <2>1. Bag!Has(Contents(tree), x) <=> \E n \in D[tree.root] : heap[n].key = x
    BY <1>3, <1>4, BaggedHas
  <2> QED BY <2>1, <1>3, <1>4
<1>6. result' = Bag!Found(Contents(tree), x)
  BY <1>1, <1>4, <1>5 DEF Done, Bag!Found
<1>7. /\ Contents(tree)[x] \in Nat /\ (node = Nil <=> Contents(tree)[x] = 0)
      /\ Contents(tree) = [Contents(tree) EXCEPT ![x] = Contents(tree)[x]]
  <2>1. Contents(tree)[x] \in Nat /\ (~Bag!Has(Contents(tree), x) <=> Contents(tree)[x] = 0)
    BY <1>3, <1>4, BaggedHas
  <2>2. DOMAIN Contents(tree) = Keys /\ Contents(tree) = [k \in Keys |-> Contents(tree)[k]]
    BY DEF Contents
  <2> QED BY <2>1, <2>2, <1>5
<1> SUFFICES Bag!Effect
  BY <1>1, EffectedNow, TakesEffect
<1>8. CASE op = "search"
  BY <1>8, <1>2, <1>6 DEF Bag!Effect, Bag!Search
<1>9. CASE op = "insert_if_absent" /\ node # Nil
  <2>1. Contents(tree)' = [Contents(tree) EXCEPT ![x] = IF @ = 0 THEN 1 ELSE @]
    BY <1>2, <1>7, <1>9
  <2> QED BY <2>1, <1>9, <1>2, <1>6 DEF Bag!Effect, Bag!InsertIfAbsent
<1>10. CASE op = "delete" /\ node = Nil
  <2>1. Contents(tree)' = [Contents(tree) EXCEPT ![x] = IF @ = 0 THEN 0 ELSE @ - 1]
    BY <1>2, <1>7, <1>10
  <2>2. result' = 0
    BY <1>1, <1>10 DEF Done
  <2> QED BY <2>1, <2>2, <1>10, <1>2 DEF Bag!Effect, Bag!Delete
<1> QED BY <1>1, <1>8, <1>9, <1>10

LEMMA MinimumTakesEffect ==
  ASSUME NEW D, NEW b, Inv(D, b), Minimum
  PROVE  BagStep
<1>1. /\ pc = "minimum" /\ (node # Nil => heap[node].left = Nil)
      /\ Done(IF node = Nil THEN 0 ELSE heap[node].key)
      /\ heap' = heap /\ tree' = tree /\ spare' = spare
  BY DEF Minimum
<1>2. Contents(tree)' = Contents(tree) /\ Contents(spare)' = Contents(spare)
  BY <1>1 DEF Contents, NodesOf
<1>3. /\ Contents(tree) = Bagged(heap, D[tree.root]) /\ IsFiniteSet(D[tree.root])
      /\ IsHeap(heap) /\ Forest(heap, D) /\ Ordered(heap, D) /\ D[Nil] = {} /\ Typed
  BY Bags, WhatHolds DEF Forest, Inv, Sound
<1>4. /\ op = "minimum" /\ (node = Nil => tree.root = Nil) /\ (node # Nil => node \in D[tree.root])
      /\ \A m \in D[tree.root] \ D[node] : \A k \in D[node] : heap[k].key <= heap[m].key
  BY <1>1 DEF Inv, Control, Leftmost
<1>5. ASSUME NEW k \in Keys PROVE Bag!Has(Contents(tree), k) <=> \E n \in D[tree.root] : heap[n].key = k
  BY <1>3, BaggedHas
<1> SUFFICES Bag!Effect
  BY <1>1, EffectedNow, TakesEffect
<1>6. CASE node = Nil
  <2>1. Contents(tree) = Bag!Empty
    BY <1>3, <1>4, <1>6, BaggedNone
  <2>2. result' = Bag!Least(Contents(tree))
    BY <2>1, <1>1, <1>6 DEF Bag!Least, Done
  <2> QED BY <2>2, <1>2, <1>4 DEF Bag!Effect, Bag!Minimum
<1>7. CASE node # Nil
  <2> PICK k : k = heap[node].key
    OBVIOUS
  <2>1. node \in DOMAIN heap /\ k \in Keys /\ D[tree.root] \subseteq DOMAIN heap
    <3>1. node \in DOMAIN heap /\ D[tree.root] \subseteq DOMAIN heap
      BY <1>4, <1>7, Bags
    <3> QED BY <3>1, <1>3 DEF Typed
  <2>2. \A m \in D[tree.root] : heap[m].key \in Keys
    BY <2>1, <1>3 DEF Typed
  <2>3. ASSUME NEW m \in D[tree.root] PROVE k <= heap[m].key
    <3>1. "left" \in Sides /\ "right" \in Sides /\ Opp("left") = "right"
          /\ heap[node]["left"] = heap[node].left
      BY <2>1, <1>3, FieldsAreSides DEF Sides, Opp
    <3>2. node \in D[node] /\ D[node] = {node} \cup D[heap[node]["right"]]
      BY <3>1, <2>1, <1>1, <1>3, <1>7, ForestSides
    <3>3. CASE m \notin D[node]
      BY <3>2, <3>3, <1>4
    <3>4. CASE m = node
      BY <3>4, <2>1, KeysAreNumbers
    <3>5. CASE m \in D[heap[node]["right"]]
      BY <3>1, <3>5, <2>1, <1>3 DEF Ordered, Fits
    <3> QED BY <3>2, <3>3, <3>4, <3>5
  <2>4. Bag!Has(Contents(tree), k)
    BY <2>1, <1>4, <1>5, <1>7
  <2>5. ASSUME NEW j \in Keys, Bag!Has(Contents(tree), j) PROVE k <= j
    BY <2>3, <2>5, <1>5
  <2>6. Contents(tree) # Bag!Empty
    BY <2>1, <2>4 DEF Bag!Empty, Bag!Has
  <2>7. ASSUME NEW l \in Keys, Bag!Has(Contents(tree), l), \A j \in Keys : Bag!Has(Contents(tree), j) => l <= j
        PROVE  l = k
    <3>1. l <= k /\ k <= l /\ l \in Nat /\ k \in Nat
      BY <2>1, <2>4, <2>5, <2>7, KeysAreNumbers
    <3> QED BY <3>1
  <2>8. Bag!Least(Contents(tree)) = k
    BY <2>1, <2>4, <2>5, <2>6, <2>7 DEF Bag!Least
  <2>9. result' = Bag!Least(Contents(tree))
    BY <2>8, <1>1, <1>7 DEF Done
  <2> QED BY <2>9, <1>2, <1>4 DEF Bag!Effect, Bag!Minimum
<1> QED BY <1>6, <1>7

LEMMA SwapTakesEffect ==
  ASSUME NEW D, NEW b, Inv(D, b), Swap
  PROVE  BagStep
<1>1. pc = "swap" /\ tree' = spare /\ spare' = tree /\ Done(0) /\ heap' = heap
  BY DEF Swap
<1>2. Contents(tree)' = Contents(spare) /\ Contents(spare)' = Contents(tree)
  BY <1>1 DEF Contents, NodesOf
<1>3. op = "swap" /\ result' = 0
  BY <1>1 DEF Inv, Control, Done
<1>4. Bag!Effect
  BY <1>2, <1>3 DEF Bag!Effect, Bag!Swap
<1> QED BY <1>1, <1>4, EffectedNow, TakesEffect

LEMMA ClearTakesEffect ==
  ASSUME NEW D, NEW b, Inv(D, b), Clear
  PROVE  BagStep
<1>1. pc = "clear" /\ Done(0)
  BY DEF Clear
<1>2. PICK E, c : /\ Inv(E, c)' /\ DOMAIN heap' = D[spare.root] /\ spare' = spare
                  /\ \A m \in DOMAIN heap' : heap'[m].key = heap[m].key
                  /\ E[tree'.root] = {} /\ E[spare.root] = D[spare.root]
  BY ClearKeeps
<1>3. /\ Contents(tree)' = Bagged(heap', E[tree'.root]) /\ Contents(spare)' = Bagged(heap', E[spare'.root])
      /\ Contents(spare) = Bagged(heap, D[spare.root])
  BY <1>2, Bags, BagsAfter
<1>4. SameKeys(heap, heap', D[spare.root])
  BY <1>2 DEF SameKeys
<1>5. Contents(tree)' = Bag!Empty /\ Contents(spare)' = Contents(spare)
  BY <1>2, <1>3, <1>4, BaggedNone, BaggedSame
<1>6. op = "clear" /\ result' = 0
  BY <1>1 DEF Inv, Control, Done
<1>7. Bag!Effect
  BY <1>5, <1>6 DEF Bag!Effect, Bag!Clear
<1> QED BY <1>1, <1>7, EffectedNow, TakesEffect

(* A tree with a root is not empty. *)
LEMMA EmptyTree ==
  ASSUME NEW D, NEW b, Inv(D, b), NEW t \in {tree, spare}
  PROVE  Contents(t) = Bag!Empty <=> t.root = Nil
<1>1. /\ Contents(t) = Bagged(heap, D[t.root]) /\ IsFiniteSet(D[t.root]) /\ D[t.root] \subseteq DOMAIN heap
  BY Bags
<1>2. IsHeap(heap) /\ Forest(heap, D) /\ Typed /\ t.root \in Places(heap)
  BY WhatHolds DEF Trees
<1>3. CASE t.root = Nil
  <2>1. D[t.root] = {}
    BY <1>2, <1>3 DEF Forest
  <2> QED BY <2>1, <1>1, <1>3, BaggedNone
<1>4. CASE t.root # Nil
  <2>1. t.root \in D[t.root] /\ heap[t.root].key \in Keys
    BY <1>2, <1>4, Within DEF Places, Typed
  <2> PICK k \in Keys : k = heap[t.root].key
    BY <2>1
  <2>2. Bag!Has(Contents(t), k)
    BY <2>1, <1>1, BaggedHas
  <2>3. Contents(t) # Bag!Empty
    BY <2>2 DEF Bag!Has, Bag!Empty
  <2> QED BY <2>3, <1>4
<1> QED BY <1>3, <1>4

LEMMA JoinTrivialTakesEffect ==
  ASSUME NEW D, NEW b, Inv(D, b), JoinTrivial
  PROVE  BagStep
<1>1. /\ pc = "join" /\ Nil \in {tree.root, spare.root} /\ tree' = IF tree.root = Nil THEN spare ELSE tree
      /\ spare' = NewTree /\ Done(0) /\ heap' = heap
  BY DEF JoinTrivial
<1>2. (Contents(tree) = Bag!Empty <=> tree.root = Nil) /\ (Contents(spare) = Bag!Empty <=> spare.root = Nil)
  BY EmptyTree
<1>3. Contents(tree)' = IF tree.root = Nil THEN Contents(spare) ELSE Contents(tree)
  BY <1>1 DEF Contents, NodesOf
<1>4. Contents(spare)' = Bag!Empty
  <2>1. Inv(D, b)'
    BY JoinTrivialKeeps
  <2>2. Contents(spare)' = Bagged(heap', D[Nil]) /\ D[Nil] = {}
    BY <2>1, <1>1, BagsAfter, WhatHolds DEF NewTree, Forest
  <2> QED BY <2>2, BaggedNone
<1>5. op = "join" /\ result' = 0
  BY <1>1 DEF Inv, Control, Done
<1>6. Bag!JoinOfEmpty
  BY <1>1, <1>2, <1>3, <1>4, <1>5 DEF Bag!JoinOfEmpty
<1>7. Effected
  BY <1>1, EffectedNow
<1>8. Bag!TakeEffect(Bag!JoinOfEmpty)
  BY <1>6, <1>7 DEF Bag!TakeEffect, Effected, Phase, Bag!NoCall
<1> QED BY <1>5, <1>8 DEF BagStep, Bag!BagNext

(* What rb_insert_fixup goes on from. *)
LEMMA EffectedBeforeFixup ==
  ASSUME pc \notin {"idle", "insert_fixup", "delete_fixup"}, pc' \in {"insert_fixup", "delete_fixup"},
         op' = op, x' = x
  PROVE  Effected
BY DEF Effected, Phase

(* No call returns a result before it returns. *)
ResultLast == pc # "idle" => result = 0

LEMMA DoInsertTakesEffect ==
  ASSUME NEW D, NEW b, Inv(D, b), DoInsert, ResultLast
  PROVE  BagStep
<1>1. pc = "descend" /\ node = Nil /\ op \in Inserts /\ spare' = spare
  BY DEF DoInsert
<1>2. Effected /\ result' = 0
  <2>1. CASE Up(0) = Nil
    <3>1. Done(0)
      BY <2>1 DEF DoInsert
    <3> QED BY <3>1, <1>1, EffectedNow DEF Done
  <2>2. CASE Up(0) # Nil
    <3>1. pc' = "insert_fixup" /\ op' = op /\ x' = x /\ result' = result
      BY <2>2 DEF DoInsert
    <3> QED BY <3>1, <1>1, EffectedBeforeFixup DEF ResultLast
  <2> QED BY <2>1, <2>2
<1>3. PICK E, c, n : Inv(E, c)' /\ Gains(D, E, n)
  BY DoInsertKeeps
<1>4. /\ n \notin DOMAIN heap /\ heap'[n].key = x /\ \A m \in DOMAIN heap : heap'[m].key = heap[m].key
      /\ E[tree'.root] = D[tree.root] \cup {n} /\ E[spare'.root] = D[spare.root]
  <2>1. Higher = tree /\ Lower = spare /\ D[Nil] = {}
    BY <1>1, WhatHolds DEF Higher, Lower, Forest
  <2> QED BY <1>3, <2>1 DEF Gains, GraftEffect
<1>5. /\ Contents(tree)' = Bagged(heap', E[tree'.root]) /\ Contents(spare)' = Bagged(heap', E[spare'.root])
      /\ Contents(tree) = Bagged(heap, D[tree.root]) /\ Contents(spare) = Bagged(heap, D[spare.root])
      /\ IsFiniteSet(D[tree.root]) /\ D[tree.root] \subseteq DOMAIN heap /\ D[spare.root] \subseteq DOMAIN heap
  BY <1>3, Bags, BagsAfter
<1>6. /\ SameKeys(heap, heap', D[tree.root]) /\ SameKeys(heap, heap', D[spare.root]) /\ n \notin D[tree.root]
      /\ x \in Keys /\ (op # "insert" => \A m \in D[tree.root] : heap[m].key = x => m \in D[node]) /\ D[node] = {}
  <2>1. D[Nil] = {}
    BY WhatHolds DEF Forest
  <2>2. x \in Keys /\ (op # "insert" => \A m \in D[tree.root] : heap[m].key = x => m \in D[node])
    BY <1>1 DEF Inv, Control, Searching
  <2> QED BY <2>1, <2>2, <1>1, <1>4, <1>5 DEF SameKeys
<1>7. Contents(tree)' = [Contents(tree) EXCEPT ![x] = @ + 1] /\ Contents(spare)' = Contents(spare)
  BY <1>4, <1>5, <1>6, BaggedMore, BaggedSame
<1> SUFFICES Bag!Effect
  BY <1>2, TakesEffect
<1>8. CASE op = "insert"
  BY <1>2, <1>7, <1>8 DEF Bag!Effect, Bag!Insert
<1>9. CASE op = "insert_if_absent"
  <2>1. ~Bag!Has(Contents(tree), x) /\ Contents(tree)[x] = 0
    <3>1. ~ \E m \in D[tree.root] : heap[m].key = x
      BY <1>6, <1>9
    <3> QED BY <3>1, <1>5, <1>6, BaggedHas
  <2>2. result' = Bag!Found(Contents(tree), x)
    BY <2>1, <1>2 DEF Bag!Found
  <2>3. Contents(tree)' = [Contents(tree) EXCEPT ![x] = IF @ = 0 THEN 1 ELSE @]
    BY <2>1, <1>7
  <2> QED BY <2>2, <2>3, <1>7, <1>9 DEF Bag!Effect, Bag!InsertIfAbsent
<1> QED BY <1>1, <1>8, <1>9 DEF Inserts

LEMMA UnlinkTakesEffect ==
  ASSUME NEW D, NEW b, Inv(D, b), Unlink, ResultLast
  PROVE  BagStep
<1>1. pc = "unlink"
  BY DEF Unlink
<1>2. /\ y \in D[tree.root] /\ node \in D[tree.root] /\ heap[node].key = x /\ op = "delete" /\ x \in Keys
  BY <1>1, WhenUnlinking
<1>3. Effected /\ result' = 0
  <2>1. CASE heap[y].red
    <3>1. Done(0)
      BY <2>1 DEF Unlink
    <3> QED BY <3>1, <1>1, EffectedNow DEF Done
  <2>2. CASE ~heap[y].red
    <3>1. pc' = "delete_fixup" /\ op' = op /\ x' = x /\ result' = result
      BY <2>2 DEF Unlink
    <3> QED BY <3>1, <1>1, EffectedBeforeFixup DEF ResultLast
  <2> QED BY <2>1, <2>2
<1>4. PICK E, c : Inv(E, c)' /\ Loses(D, E)
  BY UnlinkKeeps
<1>5. /\ Contents(tree)' = Bagged(heap', E[tree'.root]) /\ Contents(spare)' = Bagged(heap', E[spare'.root])
      /\ Contents(tree) = Bagged(heap, D[tree.root]) /\ Contents(spare) = Bagged(heap, D[spare.root])
      /\ IsFiniteSet(D[tree.root]) /\ D[tree.root] \subseteq DOMAIN heap /\ D[spare.root] \subseteq DOMAIN heap
      /\ D[tree.root] \cap D[spare.root] = {}
  BY <1>4, Bags, BagsAfter
<1>6. /\ \A m \in D[tree.root] \ {y} : heap'[m].key = IF m = node THEN heap[y].key ELSE heap[m].key
      /\ E[tree'.root] = D[tree.root] \ {y} /\ E[spare'.root] = D[spare.root]
  BY <1>4, <1>5 DEF Loses
<1>7. SameKeys(heap, heap', D[spare.root])
  BY <1>2, <1>4, <1>5 DEF SameKeys, Loses
<1>8. Contents(tree)[x] # 0 /\ Contents(tree)' = [Contents(tree) EXCEPT ![x] = @ - 1]
  BY <1>2, <1>5, <1>6, BaggedLess
<1>9. Contents(tree)' = [Contents(tree) EXCEPT ![x] = IF @ = 0 THEN 0 ELSE @ - 1]
  BY <1>8
<1>10. Contents(spare)' = Contents(spare)
  BY <1>5, <1>6, <1>7, BaggedSame
<1>11. Bag!Effect
  BY <1>2, <1>3, <1>9, <1>10 DEF Bag!Effect, Bag!Delete
<1> QED BY <1>3, <1>11, TakesEffect

LEMMA JoinLinkTakesEffect ==
  ASSUME NEW D, NEW b, Inv(D, b), JoinLink, ResultLast
  PROVE  BagStep
<1>1. pc \in {"join_right", "join_left"}
  BY DEF JoinLink, Joining
<1>2. op = "join" /\ x \in Keys
  BY <1>1 DEF Inv, Control
<1>3. Effected /\ result' = 0
  <2>1. CASE Up(0) = Nil
    <3>1. Done(0)
      BY <2>1 DEF JoinLink
    <3> QED BY <3>1, <1>1, EffectedNow DEF Done
  <2>2. CASE Up(0) # Nil
    <3>1. pc' = "insert_fixup" /\ op' = op /\ x' = x /\ result' = result
      BY <2>2 DEF JoinLink
    <3> QED BY <3>1, <1>1, EffectedBeforeFixup DEF ResultLast
  <2> QED BY <2>1, <2>2
<1>4. PICK E, c, n : Inv(E, c)' /\ Joins(D, E, n)
  BY JoinLinkKeeps
<1> DEFINE S == D[tree.root]
           T == D[spare.root]
<1>5. /\ Contents(tree)' = Bagged(heap', E[tree'.root]) /\ Contents(spare)' = Bagged(heap', E[spare'.root])
      /\ Contents(tree) = Bagged(heap, S) /\ Contents(spare) = Bagged(heap, T)
      /\ IsFiniteSet(S) /\ IsFiniteSet(T) /\ S \cup T = DOMAIN heap /\ S \cap T = {}
  BY <1>4, Bags, BagsAfter
<1>6. /\ n \notin S \cup T /\ heap'[n].key = x /\ SameKeys(heap, heap', S \cup T)
      /\ E[tree'.root] = (S \cup T) \cup {n} /\ E[spare'.root] = {}
  BY <1>4, <1>5 DEF Joins, SameKeys
<1> HIDE DEF S, T
<1>7. IsFiniteSet(S \cup T)
  BY <1>5, FS_Union
<1>8. Contents(tree)' = [Bagged(heap, S \cup T) EXCEPT ![x] = @ + 1]
  <2> PICK U : U = S \cup T
    OBVIOUS
  <2>1. n \notin U /\ heap'[n].key = x /\ SameKeys(heap, heap', U) /\ IsFiniteSet(U) /\ x \in Keys
    BY <1>2, <1>6, <1>7
  <2>2. Bagged(heap', U \cup {n}) = [Bagged(heap, U) EXCEPT ![x] = @ + 1]
    BY ONLY <2>1, BaggedMore
  <2> QED BY <2>2, <1>5, <1>6
<1>9. ASSUME NEW k \in Keys
      PROVE  /\ Bagged(heap, S \cup T)[k] = Bagged(heap, S)[k] + Bagged(heap, T)[k]
             /\ Bagged(heap, S)[k] \in Nat /\ Bagged(heap, T)[k] \in Nat
  BY <1>5, BaggedUnion, BaggedHas
<1>10. Contents(tree)' = [k \in Keys |-> Bagged(heap, S)[k] + Bagged(heap, T)[k] + (IF k = x THEN 1 ELSE 0)]
  <2>1. Bagged(heap, S \cup T) = [k \in Keys |-> Bagged(heap, S \cup T)[k]]
    BY DEF Bagged
  <2>2. [Bagged(heap, S \cup T) EXCEPT ![x] = @ + 1]
          = [k \in Keys |-> IF k = x THEN Bagged(heap, S \cup T)[k] + 1 ELSE Bagged(heap, S \cup T)[k]]
    BY <2>1, <1>2
  <2>3. ASSUME NEW k \in Keys
        PROVE  (IF k = x THEN Bagged(heap, S \cup T)[k] + 1 ELSE Bagged(heap, S \cup T)[k])
                 = Bagged(heap, S)[k] + Bagged(heap, T)[k] + (IF k = x THEN 1 ELSE 0)
    <3> PICK i, j : i = Bagged(heap, S)[k] /\ j = Bagged(heap, T)[k]
      OBVIOUS
    <3>1. i \in Nat /\ j \in Nat /\ Bagged(heap, S \cup T)[k] = i + j
      BY <1>9
    <3>2. i + j + 1 = i + j + 1 /\ i + j = i + j + 0
      BY ONLY <3>1
    <3> QED BY <3>1, <3>2
  <2> QED BY <1>8, <2>2, <2>3
<1>11. Contents(spare)' = Bag!Empty
  BY <1>5, <1>6, BaggedNone
<1>12. Bag!Effect
  BY <1>2, <1>3, <1>5, <1>10, <1>11 DEF Bag!Effect, Bag!Join
<1> QED BY <1>3, <1>12, TakesEffect

(* A repair changes no bag. *)
LEMMA RepairConserves ==
  ASSUME NEW D, NEW b, Inv(D, b), NEW E, NEW c, Inv(E, c)', Conserves(D, E)
  PROVE  Contents(tree)' = Contents(tree) /\ Contents(spare)' = Contents(spare)
BY BagsKept DEF Conserves

LEMMA RepairReturns ==
  ASSUME Contents(tree)' = Contents(tree), Contents(spare)' = Contents(spare), Done(0), ResultLast,
         pc \in {"insert_fixup", "delete_fixup"}
  PROVE  BagStep
<1>1. Bag!Return
  BY DEF Bag!Return, Bag!NoCall, Done, ResultLast
<1> QED BY <1>1 DEF BagStep, Bag!BagNext

LEMMA RepairStutters ==
  ASSUME NEW D, NEW b, Inv(D, b), InsertRecolor \/ DeleteRecolor \/ DeleteLift
  PROVE  BagStep
<1>1. op' = op /\ x' = x /\ result' = result /\ pc' = pc
  BY DEF InsertRecolor, DeleteRecolor, DeleteLift
<1>2. PICK E, c : Inv(E, c)' /\ Conserves(D, E)
  BY InsertRecolorKeeps, DeleteRecolorKeeps, DeleteLiftKeeps
<1>3. Contents(tree)' = Contents(tree) /\ Contents(spare)' = Contents(spare)
  BY <1>2, RepairConserves
<1> QED BY <1>1, <1>3, BagStutters DEF Phase

LEMMA RepairEnds ==
  ASSUME NEW D, NEW b, Inv(D, b), ResultLast, InsertRotate \/ InsertDone \/ DeleteRotate \/ DeleteDone
  PROVE  BagStep
<1>1. Done(0) /\ pc \in {"insert_fixup", "delete_fixup"}
  BY DEF InsertRotate, InsertDone, DeleteRotate, DeleteDone, Looping
<1>2. PICK E, c : Inv(E, c)' /\ Conserves(D, E)
  BY InsertRotateKeeps, InsertDoneKeeps, DeleteRotateKeeps, DeleteDoneKeeps
<1>3. Contents(tree)' = Contents(tree) /\ Contents(spare)' = Contents(spare)
  BY <1>2, RepairConserves
<1> QED BY <1>1, <1>3, RepairReturns

LEMMA ResultLastStep == ResultLast /\ [Next]_vars => ResultLast'
<1> SUFFICES ASSUME ResultLast, [Next]_vars PROVE ResultLast'
  OBVIOUS
<1>1. ASSUME NEW o \in user.calls, Call(o) PROVE ResultLast'
  BY <1>1 DEF Call, ResultLast
<1>2. ASSUME pc # "idle", result' = result \/ pc' = "idle" PROVE ResultLast'
  BY <1>2 DEF ResultLast
<1>3. CASE Descend \/ FindVictim \/ Successor \/ GoLeft \/ JoinStart \/ JoinDescend
  BY <1>2, <1>3 DEF Descend, FindVictim, Successor, GoLeft, JoinStart, JoinDescend, Joining
<1>4. CASE InsertRecolor \/ DeleteRecolor \/ DeleteLift
  BY <1>2, <1>4 DEF InsertRecolor, DeleteRecolor, DeleteLift, Looping
<1>5. CASE ReturnFound \/ Minimum \/ Clear \/ Swap \/ JoinTrivial
  BY <1>2, <1>5 DEF ReturnFound, Minimum, Clear, Swap, JoinTrivial, Done
<1>6. CASE InsertRotate \/ InsertDone \/ DeleteRotate \/ DeleteDone
  BY <1>2, <1>6 DEF InsertRotate, InsertDone, DeleteRotate, DeleteDone, Looping, Done
<1>7. CASE DoInsert
  BY <1>2, <1>7 DEF DoInsert, Done
<1>8. CASE Unlink
  BY <1>2, <1>8 DEF Unlink, Done
<1>9. CASE JoinLink
  BY <1>2, <1>9 DEF JoinLink, Joining, Done
<1>10. CASE UNCHANGED vars
  BY <1>10 DEF vars, ResultLast
<1> QED BY <1>1, <1>3, <1>4, <1>5, <1>6, <1>7, <1>8, <1>9, <1>10 DEF Next

LEMMA BagSteps == IInv /\ ResultLast /\ [Next]_vars => BagStep
<1> SUFFICES ASSUME NEW D, NEW b, Inv(D, b), ResultLast, [Next]_vars PROVE BagStep
  BY DEF IInv
<1>1. ASSUME NEW o \in user.calls, Call(o) PROVE BagStep
  BY <1>1, CallIsBegin
<1>2. CASE Descend \/ FindVictim \/ Successor \/ GoLeft \/ JoinStart \/ JoinDescend
  BY <1>2, LookingStutters
<1>3. CASE ReturnFound
  BY <1>3, ReturnFoundTakesEffect
<1>4. CASE Minimum
  BY <1>4, MinimumTakesEffect
<1>5. CASE Clear
  BY <1>5, ClearTakesEffect
<1>6. CASE Swap
  BY <1>6, SwapTakesEffect
<1>7. CASE JoinTrivial
  BY <1>7, JoinTrivialTakesEffect
<1>8. CASE DoInsert
  BY <1>8, DoInsertTakesEffect
<1>9. CASE Unlink
  BY <1>9, UnlinkTakesEffect
<1>10. CASE JoinLink
  BY <1>10, JoinLinkTakesEffect
<1>11. CASE InsertRecolor \/ DeleteRecolor \/ DeleteLift
  BY <1>11, RepairStutters
<1>12. CASE InsertRotate \/ InsertDone \/ DeleteRotate \/ DeleteDone
  BY <1>12, RepairEnds
<1>13. CASE UNCHANGED vars
  <2>1. /\ heap' = heap /\ tree' = tree /\ spare' = spare /\ pc' = pc /\ op' = op /\ x' = x /\ result' = result
    BY <1>13 DEF vars
  <2>2. Contents(tree)' = Contents(tree) /\ Contents(spare)' = Contents(spare) /\ Phase' = Phase
    BY <2>1 DEF Contents, NodesOf, Phase
  <2> QED BY <2>1, <2>2, BagStutters
<1> QED
  BY <1>1, <1>2, <1>3, <1>4, <1>5, <1>6, <1>7, <1>8, <1>9, <1>10, <1>11, <1>12, <1>13 DEF Next

LEMMA BagAtFirst == Init => Bag!BagInit /\ ResultLast
<1> SUFFICES ASSUME Init PROVE Bag!BagInit /\ ResultLast
  OBVIOUS
<1>1. PICK D, b : Inv(D, b)
  BY InvInit DEF IInv
<1>2. tree.root = Nil /\ spare.root = Nil /\ pc = "idle" /\ op = "none" /\ x = 0 /\ result = 0
  BY DEF Init, NewTree
<1>3. Contents(tree) = Bag!Empty /\ Contents(spare) = Bag!Empty
  BY <1>1, <1>2, EmptyTree
<1> QED BY <1>2, <1>3 DEF Bag!BagInit, Bag!NoCall, ResultLast

(* The trees are the ordered bags of rbtree.h: each call takes effect once *)
(* and returns what the bag it found says, and no repair changes a bag.    *)
THEOREM TreesAreBags == Spec => IsOrderedBag
<1>1. IInv /\ ResultLast /\ [Next]_vars => [Bag!BagNext]_(Bag!bagVars)
  BY BagSteps DEF BagStep
<1> QED BY <1>1, BagAtFirst, ResultLastStep, Invariance, PTL DEF Spec, IsOrderedBag, Bag!BagSpec
=============================================================================
