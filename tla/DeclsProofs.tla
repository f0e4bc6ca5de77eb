----------------------------- MODULE DeclsProofs -----------------------------
(***************************************************************************)
(* Proofs about names.  However often names are added to the string table  *)
(* and it is enlarged, each name has one symbol and each symbol one name;  *)
(* and a name always means its innermost declaration in force: the chains  *)
(* of declarations and the list of them say the same, and both implement a *)
(* stack of scopes.                                                        *)
(*                                                                         *)
(* add_str marks an empty bucket with a hash of 0 and links the nodes of a *)
(* chain by pointers into an array that xrealloc may move.  What is proved *)
(* here is proved of programs whose names do not hash to 0, on a table     *)
(* that is enlarged where it is.                                           *)
(***************************************************************************)
EXTENDS ScopesProofs

TableSound == ~Moves /\ \A s \in Strings : Hash[s] # 0
-----------------------------------------------------------------------------
(***************************************************************************)
(* The string table.  The nodes of a chain have higher and higher indices; *)
(* each node behind the buckets is linked from one before it.              *)
(***************************************************************************)
TableNodes ==
  [hash : Nat, str : Strings \cup {NoString}, sym : Nat, next : [base : Nat, at : Nat]]

NodesTo(n) == [0..(n - 1) -> TableNodes]
TableShape(t, n) ==
  t \in [hashtab : NodesTo(n), hash_size : Nat \ {0},
         hash_nodes_size : Nat, base : Nat \ {0}, syms : Nat]

Entry(t, i) == i \in DOMAIN t.hashtab /\ t.hashtab[i].str # NoString
Linked2(t, i, j) == Entry(t, i) /\ t.hashtab[i].next = [base |-> t.base, at |-> j]

EntriesOK(t) ==
  /\ \A i \in DOMAIN t.hashtab :
       ~Entry(t, i) => t.hashtab[i] = EmptyNode /\ i < t.hash_size
  /\ \A i \in DOMAIN t.hashtab :
       Entry(t, i) => LET node == t.hashtab[i] IN
                      /\ node.hash = Hash[node.str] /\ node.sym \in 1..t.syms
                      /\ i < t.hash_size => Bucket(t, node.str) = i
  /\ \A i, j \in DOMAIN t.hashtab :
       /\ Entry(t, i) /\ Entry(t, j)
       /\ t.hashtab[i].str = t.hashtab[j].str \/ t.hashtab[i].sym = t.hashtab[j].sym
       => i = j

LinksOK(t) ==
  /\ \A i \in DOMAIN t.hashtab :
       Entry(t, i) => \/ t.hashtab[i].next = Null
                      \/ \E j \in DOMAIN t.hashtab :
                           /\ i < j /\ Linked2(t, i, j) /\ Entry(t, j)
                           /\ Bucket(t, t.hashtab[j].str) = Bucket(t, t.hashtab[i].str)
  /\ \A j \in DOMAIN t.hashtab :
       j >= t.hash_size => \E i \in DOMAIN t.hashtab : i < j /\ Linked2(t, i, j)

TableOK(t) ==
  /\ \E n \in Nat : TableShape(t, n) /\ t.hash_size <= n
  /\ EntriesOK(t) /\ LinksOK(t)

LEMMA BucketIs ==
  ASSUME NEW t, NEW n \in Nat, TableShape(t, n), NEW s \in Strings, t.hash_size <= n
  PROVE  Bucket(t, s) \in 0..(t.hash_size - 1) /\ Bucket(t, s) \in DOMAIN t.hashtab
<1>1. Hash[s] \in Nat
  BY StrTabAssumption
<1>2. t.hash_size \in Nat \ {0} /\ DOMAIN t.hashtab = 0..(n - 1)
  BY DEF TableShape, NodesTo
<1>3. \A h \in Nat, m \in Nat \ {0} : h % m \in 0..(m - 1)
  OBVIOUS
<1>4. Bucket(t, s) \in 0..(t.hash_size - 1)
  BY <1>1, <1>2, <1>3 DEF Bucket
<1> QED BY <1>2, <1>4

(* The walk along the chain of a name: on every node of its bucket's chain *)
(* it finds the name's node if that is still ahead, or else the last node. *)
WalkEnds(t, s, i, w) ==
  \/ w.ends = "found" /\ Entry(t, w.at) /\ t.hashtab[w.at].str = s
  \/ /\ w.ends = "absent" /\ Entry(t, w.at) /\ t.hashtab[w.at].next = Null
     /\ Bucket(t, t.hashtab[w.at].str) = Bucket(t, t.hashtab[i].str)

LEMMA WalkIs ==
  ASSUME NEW t, TableOK(t), NEW s \in Strings, Entry(t, Bucket(t, s))
  PROVE  /\ WalkEnds(t, s, Bucket(t, s), Walk(t, s))
         /\ \A k \in DOMAIN t.hashtab :
              t.hashtab[k].str = s => Walk(t, s) = [at |-> k, ends |-> "found"]
<1>1. PICK n \in Nat : TableShape(t, n) /\ t.hash_size <= n
  BY DEF TableOK
<1> DEFINE A == DOMAIN t.hashtab
           b == Bucket(t, s)
           Step(i, v) == LET node == t.hashtab[i] IN
             IF Matches(node, s) THEN [at |-> i, ends |-> "found"]
             ELSE IF node.next = Null THEN [at |-> i, ends |-> "absent"]
             ELSE IF node.next.base # t.base THEN [at |-> i, ends |-> "dangling"]
             ELSE v[node.next.at]
           Is(v) == v = [i \in A |-> Step(i, v)]
           S == [at : Nat, ends : {"found", "absent", "dangling"}]
<1>2. A = 0..(n - 1) /\ b \in A /\ n # 0 /\ \A i \in A : t.hashtab[i] \in TableNodes
  BY <1>1, BucketIs DEF TableShape, NodesTo, Entry
<1>3. Walk(t, s) = (CHOOSE v : Is(v))[b]
  BY DEF Walk
<1>4. \A i \in A : \/ Matches(t.hashtab[i], s)
                   \/ t.hashtab[i].next = Null
                   \/ /\ t.hashtab[i].next.base = t.base /\ t.hashtab[i].next.at \in A
                      /\ i < t.hashtab[i].next.at /\ Entry(t, t.hashtab[i].next.at)
                      /\ Bucket(t, t.hashtab[t.hashtab[i].next.at].str) = Bucket(t, t.hashtab[i].str)
  <2> SUFFICES ASSUME NEW i \in A, ~Matches(t.hashtab[i], s), t.hashtab[i].next # Null
               PROVE  /\ t.hashtab[i].next.base = t.base /\ t.hashtab[i].next.at \in A
                      /\ i < t.hashtab[i].next.at /\ Entry(t, t.hashtab[i].next.at)
                      /\ Bucket(t, t.hashtab[t.hashtab[i].next.at].str) = Bucket(t, t.hashtab[i].str)
    OBVIOUS
  <2>1. Entry(t, i)
    BY DEF TableOK, EntriesOK, EmptyNode
  <2>2. PICK j \in A : /\ i < j /\ Linked2(t, i, j) /\ Entry(t, j)
                       /\ Bucket(t, t.hashtab[j].str) = Bucket(t, t.hashtab[i].str)
    BY <2>1 DEF TableOK, LinksOK
  <2>3. t.hashtab[i].next.base = t.base /\ t.hashtab[i].next.at = j
    BY <2>2 DEF Linked2
  <2> QED BY <2>2, <2>3
<1> PICK m \in Nat : m = n - 1
  BY <1>2
<1> DEFINE rank == [i \in A |-> m - i]
           D == [p \in A \X [A -> S] |-> Step(p[1], p[2])]
<1>5. rank \in [A -> 0..m] /\ rank \in [A -> Nat]
  BY <1>2
<1>6. \E v \in [A -> S] : Follows(v, A, D)
  <2>1. [at |-> 0, ends |-> "found"] \in S
    OBVIOUS
  <2>2. ASSUME NEW i \in A, NEW v \in [A -> S] PROVE Step(i, v) \in S
    <3>1. i \in Nat
      BY <1>2
    <3>2. \A j \in A : v[j] \in S
      OBVIOUS
    <3>3. CASE ~Matches(t.hashtab[i], s) /\ t.hashtab[i].next # Null
      <4>1. Step(i, v) = v[t.hashtab[i].next.at]
        BY <3>3, <1>4
      <4> QED BY <4>1, <3>2, <3>3, <1>4
    <3> QED BY <3>1, <3>3
  <2>3. D \in [A \X [A -> S] -> S]
    BY <2>2
  <2>4. ASSUME NEW i \in A, NEW f \in [A -> S], NEW g \in [A -> S],
               \A j \in A : rank[j] < rank[i] => f[j] = g[j]
        PROVE  D[<<i, f>>] = D[<<i, g>>]
    <3>1. CASE ~Matches(t.hashtab[i], s) /\ t.hashtab[i].next # Null
      <4>0. \A j \in A : i < j => rank[j] < rank[i]
        BY <1>2
      <4>1. rank[t.hashtab[i].next.at] < rank[i] /\ t.hashtab[i].next.at \in A
        BY <4>0, <1>4, <3>1
      <4>2. Step(i, f) = f[t.hashtab[i].next.at] /\ Step(i, g) = g[t.hashtab[i].next.at]
        BY <3>1, <1>4
      <4> QED BY <4>1, <4>2, <2>4
    <3>2. CASE ~(~Matches(t.hashtab[i], s) /\ t.hashtab[i].next # Null)
      <4>1. Step(i, f) = Step(i, g)
        BY <3>2
      <4> QED BY <4>1
    <3> QED BY <3>1, <3>2
  <2>5. LowerOnly(D, A, S, rank)
    <3> HIDE DEF D, rank
    <3> QED BY <2>4 DEF LowerOnly
  <2> HIDE DEF D, rank, S, A
  <2> QED BY <2>1, <2>3, <2>5, <1>5, RecursionByRank
<1>7. PICK f \in [A -> S] : Follows(f, A, D)
  BY <1>6
<1>8. Is(f)
  <2>1. \A i \in A : f[i] = Step(i, f)
    BY <1>7 DEF Follows
  <2> HIDE DEF Step
  <2> QED BY <2>1
<1> DEFINE from == CHOOSE v : Is(v)
<1>9. Is(from)
  <2> HIDE DEF Is
  <2> QED BY <1>8
<1>10. \A i \in A : from[i] = Step(i, from)
  <2> HIDE DEF Step, from
  <2> QED BY <1>9
<1> HIDE DEF from
<1> DEFINE T == {i \in A : Entry(t, i) => WalkEnds(t, s, i, from[i])}
<1>11. A \subseteq T
  <2> SUFFICES ASSUME NEW i \in A, \A j \in A : rank[j] < rank[i] => j \in T PROVE i \in T
    <3>1. \A i \in A : (\A j \in A : rank[j] < rank[i] => j \in T) => i \in T
      OBVIOUS
    <3> HIDE DEF T, rank
    <3> QED BY <3>1, <1>5, ByRank
  <2> SUFFICES ASSUME Entry(t, i) PROVE WalkEnds(t, s, i, from[i])
    OBVIOUS
  <2>1. CASE Matches(t.hashtab[i], s)
    <3>1. from[i] = [at |-> i, ends |-> "found"]
      BY <1>10, <2>1
    <3> QED BY <3>1, <2>1 DEF WalkEnds, Matches
  <2>2. CASE ~Matches(t.hashtab[i], s) /\ t.hashtab[i].next = Null
    <3>1. from[i] = [at |-> i, ends |-> "absent"]
      BY <1>10, <2>2
    <3> QED BY <3>1, <2>2 DEF WalkEnds
  <2>3. CASE ~Matches(t.hashtab[i], s) /\ t.hashtab[i].next # Null
    <3> DEFINE j == t.hashtab[i].next.at
    <3>1. /\ j \in A /\ i < j /\ t.hashtab[i].next.base = t.base
          /\ Entry(t, j) /\ Bucket(t, t.hashtab[j].str) = Bucket(t, t.hashtab[i].str)
      BY <2>3, <1>4
    <3>2. from[i] = from[j]
      BY <1>10, <2>3, <3>1
    <3>3. WalkEnds(t, s, j, from[j])
      <4>1. rank[j] < rank[i]
        BY <3>1, <1>2
      <4> QED BY <3>1, <4>1
    <3> HIDE DEF j
    <3> QED BY <3>1, <3>2, <3>3 DEF WalkEnds
  <2> QED BY <2>1, <2>2, <2>3
<1>12. WalkEnds(t, s, b, from[b])
  BY <1>2, <1>11
<1>13. ASSUME NEW k \in A, t.hashtab[k].str = s PROVE from[b] = [at |-> k, ends |-> "found"]
  <2> DEFINE R == {i \in A : /\ Entry(t, i) /\ Bucket(t, t.hashtab[i].str) = b
                             /\ from[i] = [at |-> k, ends |-> "found"]}
  <2>1. k \in R
    <3>1. Entry(t, k)
      BY <1>13, StrTabAssumption DEF Entry
    <3>2. t.hashtab[k].hash = Hash[s]
      BY <3>1, <1>13 DEF TableOK, EntriesOK
    <3> QED BY <3>1, <3>2, <1>10, <1>13 DEF Matches
  <2>2. PICK i \in R : \A j \in R : i <= j
    <3>1. R \in SUBSET Nat /\ R # {}
      BY <2>1, <1>2
    <3> HIDE DEF R
    <3> QED BY <3>1, NatLeast
  <2>3. i < t.hash_size
    <3> SUFFICES ASSUME ~(i < t.hash_size) PROVE FALSE
      OBVIOUS
    <3>1. i \in Nat /\ t.hash_size \in Nat /\ i >= t.hash_size
      BY <1>1, <1>2 DEF TableShape, NodesTo
    <3>2. PICK j \in A : j < i /\ Linked2(t, j, i)
      BY <3>1 DEF TableOK, LinksOK
    <3>3. t.hashtab[j].next.at = i /\ t.hashtab[j].next.base = t.base /\ Entry(t, j)
      BY <3>2 DEF Linked2
    <3>4. t.base # 0
      BY <1>1 DEF TableShape, NodesTo
    <3>5. t.hashtab[j].next # Null
      BY <3>3, <3>4 DEF Null
    <3>6. ~Matches(t.hashtab[j], s)
      BY <3>2, <3>3, <2>2, <2>1, <1>13, <1>2 DEF Matches, TableOK, EntriesOK, Entry
    <3>7. from[j] = from[i]
      BY <1>10, <3>3, <3>5, <3>6
    <3>8. Bucket(t, t.hashtab[j].str) = b
      BY <1>4, <3>3, <3>5, <3>6
    <3>9. j \in R
      BY <3>3, <3>7, <3>8
    <3> QED BY <3>1, <3>2, <3>9, <2>2, <1>2
  <2>4. i = b
    BY <2>3 DEF TableOK, EntriesOK
  <2> QED BY <2>4
<1> QED BY <1>3, <1>12, <1>13 DEF from

LEMMA LinkIs ==
  ASSUME NEW t, TableOK(t), NEW j, NEW i, Linked2(t, j, i)
  PROVE  /\ i \in DOMAIN t.hashtab /\ Entry(t, i) /\ Entry(t, j) /\ j < i
         /\ Bucket(t, t.hashtab[i].str) = Bucket(t, t.hashtab[j].str)
<1>1. t.base # 0
  BY DEF TableOK, TableShape
<1>2. Entry(t, j) /\ t.hashtab[j].next.base = t.base /\ t.hashtab[j].next.at = i
  BY DEF Linked2
<1>3. t.hashtab[j].next # Null
  BY <1>1, <1>2 DEF Null
<1>4. PICK k \in DOMAIN t.hashtab : /\ j < k /\ Linked2(t, j, k) /\ Entry(t, k)
                                    /\ Bucket(t, t.hashtab[k].str) = Bucket(t, t.hashtab[j].str)
  BY <1>2, <1>3 DEF TableOK, LinksOK, Entry
<1>5. k = i
  BY <1>2, <1>4 DEF Linked2
<1> QED BY <1>2, <1>4, <1>5

(* Where a name is, its bucket is not empty. *)
LEMMA BucketTaken ==
  ASSUME NEW t, TableOK(t), NEW k, Entry(t, k)
  PROVE  Entry(t, Bucket(t, t.hashtab[k].str))
<1> DEFINE A == DOMAIN t.hashtab
           b == Bucket(t, t.hashtab[k].str)
           R == {i \in A : Entry(t, i) /\ Bucket(t, t.hashtab[i].str) = b}
<1>1. PICK n \in Nat : TableShape(t, n) /\ t.hash_size <= n
  BY DEF TableOK
<1>2. A = 0..(n - 1) /\ t.hash_size \in Nat
  BY <1>1 DEF TableShape, NodesTo
<1>3. PICK i \in R : \A j \in R : i <= j
  <2>1. R \in SUBSET Nat /\ R # {}
    BY <1>2 DEF Entry
  <2> HIDE DEF R
  <2> QED BY <2>1, NatLeast
<1>4. i < t.hash_size
  <2> SUFFICES ASSUME ~(i < t.hash_size) PROVE FALSE
    OBVIOUS
  <2>1. i \in Nat /\ i >= t.hash_size
    BY <1>2
  <2>2. PICK j \in A : j < i /\ Linked2(t, j, i)
    BY <2>1 DEF TableOK, LinksOK
  <2>3. j \in R
    BY <2>2, LinkIs
  <2> QED BY <2>1, <2>2, <2>3, <1>2, <1>3
<1>5. i = b
  BY <1>4 DEF TableOK, EntriesOK
<1> QED BY <1>5

LEMMA SymbolIs ==
  ASSUME NEW t, TableOK(t), TableSound, NEW s \in Strings
  PROVE  /\ \/ /\ SymbolOf(t, s) = 0
               /\ \A k \in DOMAIN t.hashtab : t.hashtab[k].str # s
            \/ \E k \in DOMAIN t.hashtab : t.hashtab[k].str = s /\ SymbolOf(t, s) = t.hashtab[k].sym
         /\ Occupied(t, s) <=> Entry(t, Bucket(t, s))
         /\ ~Dangles(t, s)
<1> DEFINE b == Bucket(t, s)
<1>0. b \in DOMAIN t.hashtab
  BY BucketIs DEF TableOK
<1>1. Occupied(t, s) <=> Entry(t, b)
  <2>1. CASE Entry(t, b)
    <3>1. t.hashtab[b].hash = Hash[t.hashtab[b].str] /\ t.hashtab[b].str \in Strings
      BY <2>1 DEF TableOK, EntriesOK, TableShape, NodesTo, Entry, TableNodes
    <3> QED BY <3>1, <2>1 DEF Occupied, TableSound
  <2>2. CASE ~Entry(t, b)
    BY <2>2, <1>0 DEF TableOK, EntriesOK, Occupied, EmptyNode
  <2> QED BY <2>1, <2>2
<1>2. CASE Entry(t, b)
  <2>1. /\ WalkEnds(t, s, b, Walk(t, s))
        /\ \A k \in DOMAIN t.hashtab :
             t.hashtab[k].str = s => Walk(t, s) = [at |-> k, ends |-> "found"]
    BY <1>2, WalkIs
  <2> DEFINE w == Walk(t, s)
  <2> HIDE DEF w
  <2>2. CASE w.ends = "found" /\ Entry(t, w.at) /\ t.hashtab[w.at].str = s
    BY <2>2, <1>1, <1>2 DEF SymbolOf, w, Entry, Dangles
  <2>3. CASE w.ends = "absent"
    <3>1. SymbolOf(t, s) = 0 /\ ~Dangles(t, s)
      BY <2>3 DEF SymbolOf, w, Dangles
    <3>2. \A k \in DOMAIN t.hashtab : t.hashtab[k].str # s
      BY <2>1, <2>3 DEF w
    <3> QED BY <3>1, <3>2, <1>1
  <2> QED BY <2>1, <2>2, <2>3 DEF WalkEnds, w
<1>3. CASE ~Entry(t, b)
  <2>1. \A k \in DOMAIN t.hashtab : t.hashtab[k].str # s
    BY <1>3, BucketTaken, StrTabAssumption DEF Entry
  <2>2. SymbolOf(t, s) = 0 /\ ~Dangles(t, s)
    BY <1>1, <1>3 DEF SymbolOf, Dangles
  <2> QED BY <2>1, <2>2, <1>1
<1> QED BY <1>2, <1>3

(* The symbol of a name is a number that no other name has. *)
LEMMA SymbolsDiffer ==
  ASSUME NEW t, TableOK(t), TableSound, NEW r \in Strings, NEW s \in Strings
  PROVE  /\ SymbolOf(t, s) \in 0..t.syms
         /\ SymbolOf(t, s) # 0 /\ SymbolOf(t, s) = SymbolOf(t, r) => r = s
<1>1. t.syms \in Nat
  BY DEF TableOK, TableShape
<1>2. \A k \in DOMAIN t.hashtab : Entry(t, k) => t.hashtab[k].sym \in 1..t.syms
  BY DEF TableOK, EntriesOK
<1>3. \A k \in DOMAIN t.hashtab : t.hashtab[k].str \in Strings => Entry(t, k)
  BY StrTabAssumption DEF Entry
<1>4. SymbolOf(t, s) \in 0..t.syms
  BY <1>1, <1>2, <1>3, SymbolIs
<1>5. ASSUME SymbolOf(t, s) # 0, SymbolOf(t, s) = SymbolOf(t, r) PROVE r = s
  <2>1. PICK k \in DOMAIN t.hashtab : t.hashtab[k].str = s /\ SymbolOf(t, s) = t.hashtab[k].sym
    BY <1>5, SymbolIs
  <2>2. PICK l \in DOMAIN t.hashtab : t.hashtab[l].str = r /\ SymbolOf(t, r) = t.hashtab[l].sym
    BY <1>5, SymbolIs
  <2>3. k = l
    BY <2>1, <2>2, <1>3, <1>5 DEF TableOK, EntriesOK
  <2> QED BY <2>1, <2>2, <2>3
<1> QED BY <1>4, <1>5

(* What a name's symbol is after a name that was not there was added. *)
NewSymbol(t, u, s) ==
  /\ u.syms = t.syms + 1 /\ SymbolOf(t, s) = 0 /\ SymbolOf(u, s) = u.syms
  /\ \A r \in Strings : r # s => SymbolOf(u, r) = SymbolOf(t, r)

(* It is enough that the table has one entry more. *)
LEMMA OneMore ==
  ASSUME NEW t, NEW u, TableOK(t), TableOK(u), TableSound, NEW s \in Strings, NEW m,
         u.syms = t.syms + 1, \A k \in DOMAIN t.hashtab : t.hashtab[k].str # s,
         m \in DOMAIN u.hashtab, u.hashtab[m].str = s, u.hashtab[m].sym = u.syms,
         \A k \in DOMAIN t.hashtab : Entry(t, k) =>
            k # m /\ k \in DOMAIN u.hashtab /\ u.hashtab[k].str = t.hashtab[k].str
            /\ u.hashtab[k].sym = t.hashtab[k].sym,
         \A k \in DOMAIN u.hashtab : k # m /\ Entry(u, k) => Entry(t, k)
  PROVE  NewSymbol(t, u, s)
<1>1. SymbolOf(t, s) = 0
  BY SymbolIs
<1>e. \A v : \A k \in DOMAIN v.hashtab : v.hashtab[k].str \in Strings => Entry(v, k)
  BY StrTabAssumption DEF Entry
<1>2. SymbolOf(u, s) = u.syms
  <2>1. PICK k \in DOMAIN u.hashtab : u.hashtab[k].str = s /\ SymbolOf(u, s) = u.hashtab[k].sym
    BY SymbolIs
  <2>2. Entry(u, k)
    BY <2>1, <1>e
  <2>3. k = m
    <3> SUFFICES ASSUME k # m PROVE FALSE
      OBVIOUS
    <3>1. Entry(t, k)
      BY <2>1, <2>2
    <3>2. k \in DOMAIN t.hashtab /\ t.hashtab[k].str = s
      BY <2>1, <3>1 DEF Entry
    <3> QED BY <3>2
  <2> QED BY <2>1, <2>3
<1>3. ASSUME NEW r \in Strings, r # s PROVE SymbolOf(u, r) = SymbolOf(t, r)
  <2>1. CASE \A k \in DOMAIN t.hashtab : t.hashtab[k].str # r
    <3>1. ASSUME NEW k \in DOMAIN u.hashtab, u.hashtab[k].str = r PROVE FALSE
      <4>1. Entry(u, k) /\ k # m
        BY <3>1, <1>3, <1>e
      <4>2. Entry(t, k)
        BY <4>1
      <4>3. k \in DOMAIN t.hashtab /\ t.hashtab[k].str = r
        BY <4>2, <3>1 DEF Entry
      <4> QED BY <4>3, <2>1
    <3> QED BY <2>1, <3>1, SymbolIs
  <2>2. CASE \E k \in DOMAIN t.hashtab : t.hashtab[k].str = r
    <3>1. PICK k \in DOMAIN t.hashtab : t.hashtab[k].str = r /\ SymbolOf(t, r) = t.hashtab[k].sym
      BY <2>2, SymbolIs
    <3>2. k \in DOMAIN u.hashtab /\ u.hashtab[k].str = r /\ u.hashtab[k].sym = t.hashtab[k].sym
      BY <3>1, <1>e
    <3>3. PICK l \in DOMAIN u.hashtab : u.hashtab[l].str = r /\ SymbolOf(u, r) = u.hashtab[l].sym
      BY <3>2, SymbolIs
    <3>4. l = k
      BY <3>2, <3>3, <1>e DEF TableOK, EntriesOK
    <3> QED BY <3>1, <3>2, <3>3, <3>4
  <2> QED BY <2>1, <2>2
<1> QED BY <1>1, <1>2, <1>3 DEF NewSymbol

Updated(t, h, y, z) ==
  [t EXCEPT !.hashtab = h, !.syms = y, !.base = t.base, !.hash_nodes_size = z]

LEMMA TableUpdate ==
  ASSUME NEW t, NEW n, TableShape(t, n), NEW m, NEW h \in NodesTo(m),
         NEW y \in Nat, NEW z \in Nat
  PROVE  /\ Updated(t, h, y, z).hashtab = h /\ Updated(t, h, y, z).syms = y
         /\ Updated(t, h, y, z).hash_size = t.hash_size /\ Updated(t, h, y, z).base = t.base
         /\ TableShape(Updated(t, h, y, z), m)
<1>1. t \in [hashtab : NodesTo(n), hash_size : Nat \ {0}, hash_nodes_size : Nat,
             base : Nat \ {0}, syms : Nat]
  BY DEF TableShape
<1>2. /\ Updated(t, h, y, z).hashtab = h /\ Updated(t, h, y, z).syms = y
      /\ Updated(t, h, y, z).hash_size = t.hash_size /\ Updated(t, h, y, z).base = t.base
  BY <1>1 DEF Updated
<1>3. Updated(t, h, y, z) \in [hashtab : NodesTo(m), hash_size : Nat \ {0}, hash_nodes_size : Nat,
                               base : Nat \ {0}, syms : Nat]
  BY <1>1 DEF Updated
<1> QED BY <1>2, <1>3 DEF TableShape

LEMMA InBucketOK ==
  ASSUME NEW t, NEW s \in Strings, TableOK(t), TableSound, ~Occupied(t, s)
  PROVE  TableOK(InBucket(t, s)) /\ NewSymbol(t, InBucket(t, s), s)
<1> DEFINE b == Bucket(t, s)
           u == InBucket(t, s)
           A == DOMAIN t.hashtab
<1>1. PICK n \in Nat : TableShape(t, n) /\ t.hash_size <= n
  BY DEF TableOK
<1>2. A = 0..(n - 1) /\ b \in A /\ b \in 0..(t.hash_size - 1) /\ t.syms \in Nat /\ t.hash_size \in Nat
  BY <1>1, BucketIs DEF TableShape, NodesTo
<1>3. /\ u = [t EXCEPT !.hashtab = [t.hashtab EXCEPT ![b] = NewNode(t, s)], !.syms = t.syms + 1]
      /\ NewNode(t, s) \in TableNodes
  <2>1. Hash[s] \in Nat
    BY StrTabAssumption
  <2>2. NewNode(t, s) \in TableNodes
    BY <2>1, <1>2 DEF NewNode, TableNodes, Null
  <2>3. u = [t EXCEPT !.hashtab = [t.hashtab EXCEPT ![b] = NewNode(t, s)], !.syms = t.syms + 1]
    BY <1>1 DEF InBucket, TableShape
  <2> QED BY <2>2, <2>3
<1>4. /\ u.hashtab = [t.hashtab EXCEPT ![b] = NewNode(t, s)] /\ u.syms = t.syms + 1
      /\ u.hash_size = t.hash_size /\ u.base = t.base /\ TableShape(u, n)
  <2>1. [t.hashtab EXCEPT ![b] = NewNode(t, s)] \in [0..(n - 1) -> TableNodes]
    BY <1>1, <1>2, <1>3 DEF TableShape, NodesTo
  <2> DEFINE h == [t.hashtab EXCEPT ![b] = NewNode(t, s)]
  <2>2. u = Updated(t, h, t.syms + 1, t.hash_nodes_size)
    BY <1>1, <1>3 DEF TableShape, NodesTo, Updated
  <2>3. h \in [0..(n - 1) -> TableNodes] /\ t.syms + 1 \in Nat /\ t.hash_nodes_size \in Nat
    BY <2>1, <1>1 DEF TableShape, NodesTo
  <2> HIDE DEF h, u
  <2>4. u.hashtab = h /\ u.syms = t.syms + 1 /\ u.hash_size = t.hash_size /\ u.base = t.base
        /\ TableShape(u, n)
    <3> DEFINE y == t.syms + 1
               z == t.hash_nodes_size
    <3> HIDE DEF y, z
    <3>1. y \in Nat /\ z \in Nat /\ h \in NodesTo(n) /\ TableShape(t, n)
          /\ u = Updated(t, h, y, z)
      BY <1>1, <2>2, <2>3 DEF y, z, NodesTo
    <3>2. u.hashtab = h /\ u.syms = y /\ u.hash_size = t.hash_size /\ u.base = t.base /\ TableShape(u, n)
      BY <3>1, TableUpdate
    <3> QED BY <3>2 DEF y
  <2> QED BY <2>4 DEF h
<1>5. /\ DOMAIN u.hashtab = A /\ u.hashtab[b] = NewNode(t, s)
      /\ \A i \in A : i # b => u.hashtab[i] = t.hashtab[i]
  BY <1>2, <1>4
<1>b. \A r \in Strings : Bucket(u, r) = Bucket(t, r)
  BY <1>4 DEF Bucket
<1>6. ~Entry(t, b)
  BY SymbolIs
<1>7. Entry(u, b) /\ \A i \in A : i # b => (Entry(u, i) <=> Entry(t, i))
  BY <1>2, <1>5, StrTabAssumption DEF Entry, NewNode
<1>s. \A i \in A : t.hashtab[i].str # s
  BY <1>6, BucketTaken, StrTabAssumption DEF Entry
<1>t. \A i \in A : Entry(t, i) => t.hashtab[i].str \in Strings
  BY <1>1, <1>2 DEF TableShape, NodesTo, TableNodes, Entry
<1> HIDE DEF u, A
<1>n. /\ NewNode(t, s).str = s /\ NewNode(t, s).sym = t.syms + 1 /\ NewNode(t, s).next = Null
      /\ NewNode(t, s).hash = Hash[s]
  BY DEF NewNode
<1>8. EntriesOK(u)
  <2>1. ASSUME NEW i \in A, ~Entry(u, i) PROVE u.hashtab[i] = EmptyNode /\ i < u.hash_size
    <3>1. i # b /\ ~Entry(t, i)
      BY <1>7, <2>1
    <3> QED BY <3>1, <1>4, <1>5 DEF TableOK, EntriesOK, A
  <2>2. ASSUME NEW i \in A, Entry(u, i)
        PROVE  /\ u.hashtab[i].hash = Hash[u.hashtab[i].str] /\ u.hashtab[i].sym \in 1..u.syms
               /\ i < u.hash_size => Bucket(u, u.hashtab[i].str) = i
    <3>1. CASE i = b
      BY <3>1, <1>2, <1>4, <1>5, <1>b, <1>n
    <3>2. CASE i # b
      <4>1. /\ t.hashtab[i].hash = Hash[t.hashtab[i].str] /\ t.hashtab[i].sym \in 1..t.syms
            /\ i < t.hash_size => Bucket(t, t.hashtab[i].str) = i
        BY <3>2, <2>2, <1>7 DEF TableOK, EntriesOK, A
      <4>2. t.hashtab[i].str \in Strings
        BY <3>2, <2>2, <1>7, <1>t
      <4> QED BY <4>1, <4>2, <3>2, <1>2, <1>4, <1>5, <1>b
    <3> QED BY <3>1, <3>2
  <2>3. ASSUME NEW i \in A, NEW j \in A, Entry(u, i), Entry(u, j),
               u.hashtab[i].str = u.hashtab[j].str \/ u.hashtab[i].sym = u.hashtab[j].sym
        PROVE  i = j
    <3>1. \A k \in A : k # b /\ Entry(u, k) => u.hashtab[k].str # s /\ u.hashtab[k].sym # t.syms + 1
      BY <1>2, <1>5, <1>7, <1>s DEF TableOK, EntriesOK, A
    <3>2. i = b <=> j = b
      BY <3>1, <2>3, <1>5, <1>n
    <3>3. CASE i # b
      BY <3>2, <3>3, <2>3, <1>5, <1>7 DEF TableOK, EntriesOK, A
    <3> QED BY <3>2, <3>3
  <2> QED BY <2>1, <2>2, <2>3, <1>5 DEF EntriesOK
<1>l. ASSUME NEW i, NEW j, Linked2(t, i, j) PROVE Linked2(u, i, j) /\ Entry(u, j) /\ i < j /\ j \in A
  <2>1. /\ j \in A /\ Entry(t, j) /\ Entry(t, i) /\ i < j /\ i \in A
    BY <1>l, LinkIs DEF A, Entry
  <2>2. i # b /\ j # b
    BY <2>1, <1>6
  <2> QED BY <2>1, <2>2, <1>l, <1>4, <1>5, <1>7 DEF Linked2
<1>9. LinksOK(u)
  <2>1. ASSUME NEW i \in A, Entry(u, i), u.hashtab[i].next # Null
        PROVE  \E j \in A : /\ i < j /\ Linked2(u, i, j) /\ Entry(u, j)
                            /\ Bucket(u, u.hashtab[j].str) = Bucket(u, u.hashtab[i].str)
    <3>1. i # b /\ Entry(t, i) /\ t.hashtab[i].next # Null
      BY <2>1, <1>5, <1>7, <1>n
    <3>2. PICK j \in A : /\ i < j /\ Linked2(t, i, j) /\ Entry(t, j)
                         /\ Bucket(t, t.hashtab[j].str) = Bucket(t, t.hashtab[i].str)
      BY <3>1 DEF TableOK, LinksOK, A
    <3>3. j # b /\ Linked2(u, i, j) /\ Entry(u, j)
      BY <3>2, <1>6, <1>l
    <3> QED BY <3>1, <3>2, <3>3, <1>5, <1>b, <1>t
  <2>2. ASSUME NEW j \in A, j >= u.hash_size PROVE \E i \in A : i < j /\ Linked2(u, i, j)
    <3>1. PICK i \in A : i < j /\ Linked2(t, i, j)
      BY <2>2, <1>4 DEF TableOK, LinksOK, A
    <3> QED BY <3>1, <1>l
  <2> QED BY <2>1, <2>2, <1>5 DEF LinksOK
<1>10. TableOK(u)
  BY <1>1, <1>4, <1>8, <1>9 DEF TableOK
<1>11. NewSymbol(t, u, s)
  <2>1. b \in DOMAIN u.hashtab /\ u.hashtab[b].str = s /\ u.hashtab[b].sym = u.syms
    BY <1>2, <1>4, <1>5, <1>n
  <2>2. \A k \in A : Entry(t, k) => k # b
    BY <1>6
  <2> HIDE DEF b
  <2> QED BY <1>10, <1>4, <1>s, <2>1, <2>2, <1>5, <1>7, OneMore DEF A
<1> QED BY <1>10, <1>11 DEF u

(* new_hash_node on a table that is enlarged where it is. *)
LEMMA ChainedOK ==
  ASSUME NEW t, NEW s \in Strings, TableOK(t), TableSound,
         Occupied(t, s), Walk(t, s).ends # "found"
  PROVE  TableOK(Chained(t, s, FALSE)) /\ NewSymbol(t, Chained(t, s, FALSE), s)
<1> DEFINE u == Chained(t, s, FALSE)
           A == DOMAIN t.hashtab
<1>1. PICK n \in Nat : TableShape(t, n) /\ t.hash_size <= n
  BY DEF TableOK
<1>2. A = 0..(n - 1) /\ t.syms \in Nat /\ t.hash_size \in Nat /\ NodesFree(t) = n
  <2>1. A = 0..(n - 1) /\ t.syms \in Nat /\ t.hash_size \in Nat
    BY <1>1 DEF TableShape, NodesTo
  <2>2. Cardinality(0..(n - 1)) = n
    BY FS_Interval
  <2> QED BY <2>1, <2>2 DEF NodesFree
<1> DEFINE last == Walk(t, s).at
           link == [t.hashtab[last] EXCEPT !.next = [base |-> t.base, at |-> n]]
<1>3. /\ Entry(t, last) /\ last \in A /\ t.hashtab[last].next = Null
      /\ Bucket(t, t.hashtab[last].str) = Bucket(t, s)
      /\ \A k \in A : t.hashtab[k].str # s
  <2>1. Entry(t, Bucket(t, s))
    BY SymbolIs
  <2>2. /\ WalkEnds(t, s, Bucket(t, s), Walk(t, s))
        /\ \A k \in DOMAIN t.hashtab :
             t.hashtab[k].str = s => Walk(t, s) = [at |-> k, ends |-> "found"]
    BY <2>1, WalkIs
  <2>3. \A k \in A : t.hashtab[k].str # s
    BY <2>2
  <2>4. Entry(t, last) /\ t.hashtab[last].next = Null
        /\ Bucket(t, t.hashtab[last].str) = Bucket(t, t.hashtab[Bucket(t, s)].str)
    BY <2>2 DEF WalkEnds
  <2>5. Bucket(t, s) < t.hash_size
    <3>1. Bucket(t, s) \in 0..(t.hash_size - 1)
      BY <1>1, BucketIs
    <3> QED BY <3>1, <1>2
  <2>6. Bucket(t, t.hashtab[Bucket(t, s)].str) = Bucket(t, s)
    BY <2>1, <2>5 DEF TableOK, EntriesOK, Entry
  <2> QED BY <2>3, <2>4, <2>6 DEF Entry
<1> DEFINE h == [i \in 0..n |-> IF i = n THEN NewNode(t, s) ELSE IF i = last THEN link ELSE t.hashtab[i]]
<1>n. /\ NewNode(t, s).str = s /\ NewNode(t, s).sym = t.syms + 1 /\ NewNode(t, s).next = Null
      /\ NewNode(t, s).hash = Hash[s] /\ NewNode(t, s) \in TableNodes
  <2>1. Hash[s] \in Nat
    BY StrTabAssumption
  <2> QED BY <2>1, <1>2 DEF NewNode, TableNodes, Null
<1>k. /\ link.str = t.hashtab[last].str /\ link.sym = t.hashtab[last].sym
      /\ link.hash = t.hashtab[last].hash /\ link.next = [base |-> t.base, at |-> n]
      /\ link \in TableNodes
  <2>1. t.hashtab[last] \in TableNodes /\ t.base \in Nat
    BY <1>1, <1>2, <1>3 DEF TableShape, NodesTo
  <2> QED BY <2>1 DEF TableNodes
<1>4. /\ u.hashtab = h /\ u.syms = t.syms + 1 /\ u.hash_size = t.hash_size /\ u.base = t.base
      /\ TableShape(u, n + 1)
  <2>1. u = [t EXCEPT !.hashtab = h, !.syms = t.syms + 1, !.base = t.base,
                      !.hash_nodes_size = IF n = t.hash_nodes_size
                                          THEN 2 * t.hash_nodes_size ELSE t.hash_nodes_size]
    BY <1>1, <1>2 DEF Chained, TableShape
  <2>2. h \in [0..((n + 1) - 1) -> TableNodes]
    <3>1. \A i \in 0..n : i # n => t.hashtab[i] \in TableNodes
      BY <1>1, <1>2 DEF TableShape, NodesTo
    <3>2. (n + 1) - 1 = n
      OBVIOUS
    <3> HIDE DEF link
    <3> QED BY <3>1, <3>2, <1>n, <1>k
  <2>3. t.syms + 1 \in Nat /\ t.hash_nodes_size \in Nat /\ 2 * t.hash_nodes_size \in Nat
    BY <1>1 DEF TableShape, NodesTo
  <2>z. PICK z \in Nat : z = IF n = t.hash_nodes_size THEN 2 * t.hash_nodes_size ELSE t.hash_nodes_size
    BY <2>3
  <2> HIDE DEF h, u
  <2>4. u = Updated(t, h, t.syms + 1, z)
    BY <2>1, <2>z DEF Updated
  <2> DEFINE y == t.syms + 1
             m == n + 1
  <2>5. y \in Nat /\ h \in NodesTo(m) /\ TableShape(t, n) /\ u = Updated(t, h, y, z)
    BY <1>1, <2>2, <2>3, <2>4 DEF NodesTo
  <2> HIDE DEF y, m
  <2>6. u.hashtab = h /\ u.syms = y /\ u.hash_size = t.hash_size /\ u.base = t.base /\ TableShape(u, m)
    <3> HIDE DEF link, last, A
    <3> QED BY <2>5, TableUpdate
  <2> QED BY <2>6 DEF y, m
<1>5. /\ DOMAIN u.hashtab = 0..n /\ 0..n = A \cup {n} /\ n \notin A
      /\ u.hashtab[n] = NewNode(t, s) /\ u.hashtab[last] = link /\ last # n
      /\ \A i \in A : i # last => u.hashtab[i] = t.hashtab[i]
  <2>1. 0..n = A \cup {n} /\ n \notin A /\ last # n /\ last \in 0..n /\ n \in 0..n
    BY <1>2, <1>3
  <2> HIDE DEF u, link, last, A
  <2> QED BY <2>1, <1>4
<1>b. \A r : Bucket(u, r) = Bucket(t, r)
  BY <1>4 DEF Bucket
<1>p. \A i \in A : u.hashtab[i].str = t.hashtab[i].str /\ u.hashtab[i].sym = t.hashtab[i].sym
                   /\ u.hashtab[i].hash = t.hashtab[i].hash
  BY <1>5, <1>k
<1> HIDE DEF u, A, h, link, last
<1>7. Entry(u, n) /\ \A i \in A : (Entry(u, i) <=> Entry(t, i))
  BY <1>5, <1>p, <1>n, StrTabAssumption DEF Entry, A
<1>8. EntriesOK(u)
  <2>1. ASSUME NEW i \in A \cup {n}, ~Entry(u, i) PROVE u.hashtab[i] = EmptyNode /\ i < u.hash_size
    <3>1. i \in A /\ i # last /\ ~Entry(t, i)
      BY <1>7, <2>1, <1>3
    <3> QED BY <3>1, <1>4, <1>5 DEF TableOK, EntriesOK, A
  <2>2. ASSUME NEW i \in A \cup {n}, Entry(u, i)
        PROVE  /\ u.hashtab[i].hash = Hash[u.hashtab[i].str] /\ u.hashtab[i].sym \in 1..u.syms
               /\ i < u.hash_size => Bucket(u, u.hashtab[i].str) = i
    <3>1. CASE i = n
      BY <3>1, <1>1, <1>2, <1>4, <1>5, <1>b, <1>n
    <3>2. CASE i \in A
      <4>1. /\ t.hashtab[i].hash = Hash[t.hashtab[i].str] /\ t.hashtab[i].sym \in 1..t.syms
            /\ i < t.hash_size => Bucket(t, t.hashtab[i].str) = i
        BY <3>2, <2>2, <1>7 DEF TableOK, EntriesOK, A
      <4> QED BY <4>1, <3>2, <1>2, <1>4, <1>p, <1>b
    <3> QED BY <3>1, <3>2
  <2>3. ASSUME NEW i \in A \cup {n}, NEW j \in A \cup {n}, Entry(u, i), Entry(u, j),
               u.hashtab[i].str = u.hashtab[j].str \/ u.hashtab[i].sym = u.hashtab[j].sym
        PROVE  i = j
    <3>1. \A k \in A : Entry(u, k) => u.hashtab[k].str # s /\ u.hashtab[k].sym # t.syms + 1
      BY <1>2, <1>3, <1>p, <1>7 DEF TableOK, EntriesOK, A
    <3>2. i = n <=> j = n
      BY <3>1, <2>3, <1>5, <1>n
    <3>3. CASE i # n
      BY <3>2, <3>3, <2>3, <1>p, <1>7 DEF TableOK, EntriesOK, A
    <3> QED BY <3>2, <3>3
  <2> QED BY <2>1, <2>2, <2>3, <1>5 DEF EntriesOK
<1>l. ASSUME NEW i, NEW j, Linked2(t, i, j)
      PROVE  Linked2(u, i, j) /\ Entry(u, j) /\ i < j /\ i \in A /\ j \in A
             /\ Bucket(t, t.hashtab[j].str) = Bucket(t, t.hashtab[i].str)
  <2>1. /\ j \in A /\ Entry(t, j) /\ Entry(t, i) /\ i < j /\ i \in A
        /\ Bucket(t, t.hashtab[j].str) = Bucket(t, t.hashtab[i].str)
    BY <1>l, LinkIs DEF A, Entry
  <2>2. i # last
    <3>1. t.base # 0
      BY <1>1 DEF TableShape, NodesTo
    <3>2. t.hashtab[i].next.base = t.base
      BY <1>l DEF Linked2
    <3> QED BY <3>1, <3>2, <1>3 DEF Null
  <2> QED BY <2>1, <2>2, <1>l, <1>4, <1>5, <1>7 DEF Linked2
<1>m. last < n /\ Linked2(u, last, n)
  <2>1. last < n
    BY <1>2, <1>3
  <2>2. Entry(u, last)
    BY <1>3, <1>7
  <2> QED BY <2>1, <2>2, <1>4, <1>5, <1>k DEF Linked2
<1>9. LinksOK(u)
  <2>1. ASSUME NEW i \in A \cup {n}, Entry(u, i), u.hashtab[i].next # Null
        PROVE  \E j \in A \cup {n} : /\ i < j /\ Linked2(u, i, j) /\ Entry(u, j)
                            /\ Bucket(u, u.hashtab[j].str) = Bucket(u, u.hashtab[i].str)
    <3>1. i # n
      BY <2>1, <1>5, <1>n
    <3>2. CASE i = last
      BY <3>2, <1>m, <1>3, <1>5, <1>7, <1>b, <1>n, <1>p
    <3>3. CASE i # last
      <4>1. i \in A /\ Entry(t, i) /\ t.hashtab[i].next # Null
        BY <2>1, <3>1, <3>3, <1>5, <1>7
      <4>2. PICK j \in A : Linked2(t, i, j)
        BY <4>1 DEF TableOK, LinksOK, A
      <4> QED BY <4>1, <4>2, <1>l, <1>p, <1>b
    <3> QED BY <3>2, <3>3
  <2>2. ASSUME NEW j \in A \cup {n}, j >= u.hash_size
        PROVE  \E i \in A \cup {n} : i < j /\ Linked2(u, i, j)
    <3>1. CASE j = n
      BY <3>1, <1>m, <1>3
    <3>2. CASE j \in A
      <4>1. PICK i \in A : i < j /\ Linked2(t, i, j)
        BY <3>2, <2>2, <1>4 DEF TableOK, LinksOK, A
      <4> QED BY <4>1, <1>l
    <3> QED BY <3>1, <3>2
  <2> QED BY <2>1, <2>2, <1>5 DEF LinksOK
<1>10. TableOK(u)
  <2>1. n + 1 \in Nat /\ u.hash_size <= n + 1
    BY <1>1, <1>2, <1>4
  <2> QED BY <2>1, <1>4, <1>8, <1>9 DEF TableOK
<1>11. NewSymbol(t, u, s)
  <2>1. n \in DOMAIN u.hashtab /\ u.hashtab[n].str = s /\ u.hashtab[n].sym = u.syms
    BY <1>4, <1>5, <1>n
  <2>2. \A k \in A : Entry(t, k) => /\ k # n /\ k \in DOMAIN u.hashtab
                                    /\ u.hashtab[k].str = t.hashtab[k].str
                                    /\ u.hashtab[k].sym = t.hashtab[k].sym
    BY <1>5, <1>p
  <2>3. \A k \in DOMAIN u.hashtab : k # n /\ Entry(u, k) => Entry(t, k)
    BY <1>5, <1>7
  <2> QED BY <1>10, <1>4, <1>3, <2>1, <2>2, <2>3, OneMore DEF A
<1> QED BY <1>10, <1>11 DEF u

(* add_str keeps the table sound: a name that is there stays what it is,   *)
(* and a new one gets a symbol of its own. *)
LEMMA AddedOK ==
  ASSUME NEW t, NEW s \in Strings, NEW u \in Added(t, s), TableOK(t), TableSound
  PROVE  TableOK(u) /\ (NewSymbol(t, u, s) \/ (u = t /\ SymbolOf(t, s) # 0))
<1>1. CASE ~Occupied(t, s)
  BY <1>1, InBucketOK DEF Added
<1>2. CASE Occupied(t, s) /\ Walk(t, s).ends = "found"
  <2>1. u = t
    BY <1>2 DEF Added
  <2>2. Entry(t, Bucket(t, s))
    BY <1>2, SymbolIs
  <2>3. Entry(t, Walk(t, s).at)
    BY <1>2, <2>2, WalkIs DEF WalkEnds
  <2>4. SymbolOf(t, s) = t.hashtab[Walk(t, s).at].sym /\ t.hashtab[Walk(t, s).at].sym \in 1..t.syms
    BY <1>2, <2>3 DEF SymbolOf, TableOK, EntriesOK, Entry
  <2>5. SymbolOf(t, s) # 0
    BY <2>4
  <2> QED BY <2>1, <2>5
<1>3. CASE Occupied(t, s) /\ Walk(t, s).ends # "found"
  <2>1. u = Chained(t, s, FALSE)
    BY <1>3, StrTabAssumption DEF Added, TableSound
  <2> QED BY <1>3, <2>1, ChainedOK
<1> QED BY <1>1, <1>2, <1>3
-----------------------------------------------------------------------------
(***************************************************************************)
(* The table at first.                                                     *)
(***************************************************************************)
LEMMA TwoToIs ==
  /\ TwoTo[0] = 1
  /\ \A k \in 0..(TableElems + 1) : TwoTo[k] \in Nat \ {0} /\ k < TwoTo[k]
<1> PICK m : m = TableElems + 1
  OBVIOUS
<1>0. m \in Nat /\ 0 \in Int /\ m \in Int /\ 0 <= m
  BY StrTabAssumption
<1> DEFINE Is(v) == v = [k \in 0..m |-> IF k = 0 THEN 1 ELSE 2 * v[k - 1]]
           D == [p \in ((0 + 1)..m) \X Nat |-> 2 * p[2]]
<1>1. TwoTo = CHOOSE v : Is(v)
  BY DEF TwoTo
<1>2. \E f \in [0..m -> Nat] : StepsUp(f, 0, m, 1, D)
  <2>1. D \in [((0 + 1)..m) \X Nat -> Nat] /\ 1 \in Nat
    OBVIOUS
  <2> HIDE DEF D
  <2> QED BY <2>1, <1>0, RecursionUp
<1>3. PICK f \in [0..m -> Nat] : StepsUp(f, 0, m, 1, D)
  BY <1>2
<1>4. Is(f)
  <2>1. ASSUME NEW k \in 0..m, k # 0 PROVE f[k] = 2 * f[k - 1]
    <3>1. k \in (0 + 1)..m /\ k - 1 \in 0..m
      BY <1>0, <2>1
    <3>2. f[k] = D[<<k, f[k - 1]>>]
      BY <3>1, <1>3 DEF StepsUp
    <3>3. f[k - 1] \in Nat
      BY <3>1
    <3> QED BY <3>1, <3>2, <3>3
  <2>2. f[0] = 1
    BY <1>3 DEF StepsUp
  <2> QED BY <2>1, <2>2
<1>5. Is(TwoTo)
  <2> HIDE DEF Is
  <2> QED BY <1>1, <1>4
<1>6. TwoTo[0] = 1 /\ \A k \in 0..(m - 1) : TwoTo[k + 1] = 2 * TwoTo[k]
  <2>1. 0 \in 0..m /\ \A k \in 0..(m - 1) : k + 1 \in 0..m /\ k + 1 # 0 /\ (k + 1) - 1 = k
    BY <1>0
  <2> QED BY <2>1, <1>5
<1> DEFINE T == {k \in 0..m : TwoTo[k] \in Nat \ {0} /\ k < TwoTo[k]}
<1>7. 0 <= m => 0 \in T
  BY <1>6
<1>8. ASSUME NEW k \in 0..(m - 1), k \in T PROVE k + 1 \in T
  <2> PICK a \in Nat : a = TwoTo[k] /\ a # 0 /\ k < a
    BY <1>8
  <2>1. 2 * a \in Nat /\ 2 * a # 0 /\ k + 1 < 2 * a /\ k + 1 \in 0..m
    BY <1>0
  <2> QED BY <2>1, <1>6
<1>9. 0..m \subseteq T
  <2>1. \A k \in 0..(m - 1) : k \in T => k + 1 \in T
    BY <1>8
  <2> HIDE DEF T
  <2> QED BY <1>0, <1>7, <2>1, UpTo
<1> QED BY <1>6, <1>9

LEMMA HashSizeIs == HashSize \in Nat \ {0}
<1>1. TableElems \in Nat
  BY StrTabAssumption
<1>2. CASE TableElems = 0
  BY <1>1, <1>2, TwoToIs DEF HashSize, HashSizeLog
<1>3. CASE TableElems # 0
  <2> DEFINE Fits(b) == TwoTo[b - 1] <= TableElems /\ TableElems < TwoTo[b]
             T == {k \in 0..(TableElems + 1) : TableElems < TwoTo[k]}
  <2>1. PICK b \in T : \A k \in T : b <= k
    <3>1. T \in SUBSET Nat /\ T # {}
      BY <1>1, TwoToIs
    <3> HIDE DEF T
    <3> QED BY <3>1, NatLeast
  <2>2. TableElems \in T
    BY <1>1, TwoToIs
  <2>3. b \in 1..TableElems
    BY <1>1, <1>3, <2>1, <2>2, TwoToIs
  <2>4. b - 1 \in 0..(TableElems + 1) /\ b - 1 \notin T
    BY <1>1, <2>1, <2>3
  <2>5. Fits(b)
    BY <1>1, <2>1, <2>4, TwoToIs
  <2> DEFINE c == CHOOSE b1 \in 1..TableElems : Fits(b1)
  <2>6. c \in 1..TableElems
    <3> HIDE DEF Fits
    <3> QED BY <2>3, <2>5
  <2>7. HashSizeLog = 1 + c
    BY <1>3 DEF HashSizeLog
  <2> HIDE DEF c
  <2>8. 1 + c \in 0..(TableElems + 1)
    BY <1>1, <2>6
  <2> QED BY <2>7, <2>8, TwoToIs DEF HashSize
<1> QED BY <1>2, <1>3

LEMMA InitTable == TableOK(NewStrtab)
<1> PICK n \in Nat : n = HashSize /\ n # 0
  BY HashSizeIs
<1> DEFINE h == [i \in 0..(n - 1) |-> EmptyNode]
           t == [hashtab |-> h, hash_size |-> n, hash_nodes_size |-> n + n \div 2,
                 base |-> 1, syms |-> 0]
<1>1. NewStrtab = t
  BY DEF NewStrtab
<1>2. EmptyNode \in TableNodes /\ EmptyNode.str = NoString
  BY DEF EmptyNode, TableNodes, Null
<1>3. h \in NodesTo(n) /\ n + n \div 2 \in Nat
  BY <1>2 DEF NodesTo
<1>4. TableShape(t, n) /\ t.hash_size <= n
  <2> HIDE DEF h
  <2> QED BY <1>3 DEF TableShape
<1>5. /\ DOMAIN t.hashtab = 0..(n - 1) /\ t.hash_size = n
      /\ \A i \in DOMAIN t.hashtab : t.hashtab[i] = EmptyNode
  OBVIOUS
<1> HIDE DEF t, h
<1>6. \A i \in DOMAIN t.hashtab : ~Entry(t, i) /\ i < t.hash_size /\ ~(i >= t.hash_size)
  BY <1>5, <1>2 DEF Entry
<1> QED BY <1>1, <1>4, <1>5, <1>6 DEF TableOK, EntriesOK, LinksOK
-----------------------------------------------------------------------------
(***************************************************************************)
(* The symbols are numbered as they are added, and the identifier just     *)
(* read has its name's.                                                    *)
(***************************************************************************)
SymInv ==
  /\ TableOK(strtab)
  /\ IsSequence(decl) /\ Len(decl) = strtab.syms
  /\ ident # NoIdent => /\ ident.name \in Strings /\ ident.sym # 0
                        /\ ident.sym = SymbolOf(strtab, ident.name)

LEMMA IdentHasDecl ==
  ASSUME SymInv, TableSound, ident # NoIdent
  PROVE  ident.sym \in DOMAIN decl
<1>1. ident.sym \in 0..strtab.syms /\ ident.sym # 0
  BY SymbolsDiffer DEF SymInv
<1>2. DOMAIN decl = 1..strtab.syms /\ strtab.syms \in Nat
  BY DEF SymInv, IsSequence, TableOK, TableShape
<1> QED BY <1>1, <1>2

(* What AddSym does to the tables when it does anything. *)
LEMMA AddSymIs ==
  ASSUME SymInv, TableSound, NEW n \in Strings, AddSym(n)
  PROVE  /\ TableOK(strtab')
         /\ \/ /\ NewSymbol(strtab, strtab', n) /\ decl' = Append(decl, NoDecl)
               /\ ident' = [name |-> n, sym |-> strtab'.syms]
            \/ /\ UNCHANGED <<strtab, decl>> /\ SymbolOf(strtab, n) # 0
               /\ ident' = [name |-> n, sym |-> SymbolOf(strtab, n)]
<1>1. ~Dangles(strtab, n)
  BY SymbolIs DEF SymInv
<1>2. /\ strtab' \in Added(strtab, n)
      /\ decl' = IF strtab'.syms > strtab.syms THEN Append(decl, NoDecl) ELSE decl
      /\ ident' = [name |-> n,
                   sym |-> IF strtab'.syms > strtab.syms THEN strtab'.syms
                           ELSE SymbolOf(strtab, n)]
  BY <1>1 DEF AddSym
<1>3. TableOK(strtab')
      /\ (NewSymbol(strtab, strtab', n) \/ (strtab' = strtab /\ SymbolOf(strtab, n) # 0))
  BY <1>2, AddedOK DEF SymInv
<1>4. strtab.syms \in Nat
  BY DEF SymInv, TableOK, TableShape
<1>5. CASE NewSymbol(strtab, strtab', n)
  <2>1. strtab'.syms > strtab.syms
    BY <1>4, <1>5 DEF NewSymbol
  <2> QED BY <2>1, <1>2, <1>3, <1>5
<1>6. CASE strtab' = strtab /\ SymbolOf(strtab, n) # 0
  <2>1. ~(strtab'.syms > strtab.syms)
    BY <1>4, <1>6
  <2> QED BY <2>1, <1>2, <1>3, <1>6
<1> QED BY <1>3, <1>5, <1>6

LEMMA ExceptAny ==
  ASSUME NEW q, IsSequence(q), NEW i, NEW x
  PROVE  IsSequence([q EXCEPT ![i] = x]) /\ Len([q EXCEPT ![i] = x]) = Len(q)
<1>1. PICK S : q \in Seq(S)
  BY DEF IsSequence
<1>2. q \in [1..Len(q) -> S \cup {x}] /\ Len(q) \in Nat
  BY <1>1
<1>3. [q EXCEPT ![i] = x] \in [1..Len(q) -> S \cup {x}]
  BY <1>2
<1>4. [q EXCEPT ![i] = x] \in Seq(S \cup {x}) /\ Len([q EXCEPT ![i] = x]) = Len(q)
  <2> DEFINE p == [q EXCEPT ![i] = x]
  <2> HIDE DEF p
  <2> QED BY <1>2, <1>3 DEF p
<1> QED BY <1>4 DEF IsSequence

(* The other steps leave the table, and the number of symbols, alone. *)
LEMMA OtherSteps ==
  ASSUME [Next]_vars, ~\E n \in Strings : AddSym(n)
  PROVE  /\ UNCHANGED strtab /\ (ident' = NoIdent \/ ident' = ident)
         /\ decl' = decl \/ \E s, x : decl' = [decl EXCEPT ![s] = x]
<1>1. CASE DeclareFunc \/ DeclareArg \/ DeclareVar
  <2>1. PICK type, init : Declare(type, init)
    BY <1>1 DEF DeclareFunc, DeclareArg, DeclareVar
  <2> QED BY <2>1 DEF Declare
<1>2. CASE CheckProgram \/ Use \/ Assign \/ PushScope \/ PopScope \/ PopDone \/ UNCHANGED vars
  BY <1>2 DEF CheckProgram, Use, Assign, PushScope, PopScope, PopDone, declVars, vars
<1>3. CASE PopDecl
  BY <1>3 DEF PopDecl
<1> QED BY <1>1, <1>2, <1>3 DEF Next

LEMMA SymInvariant == TableSound => (Spec => []SymInv)
<1> SUFFICES ASSUME TableSound PROVE Spec => []SymInv
  OBVIOUS
<1>1. Init => SymInv
  <2> SUFFICES ASSUME Init PROVE SymInv
    OBVIOUS
  <2>1. decl \in Seq(Nat) /\ Len(decl) = 0 /\ ident = NoIdent /\ strtab = NewStrtab
    BY DEF Init
  <2>2. strtab.syms = 0
    BY <2>1 DEF NewStrtab
  <2> QED BY <2>1, <2>2, InitTable DEF SymInv, IsSequence
<1>2. SymInv /\ [Next]_vars => SymInv'
  <2> SUFFICES ASSUME SymInv, [Next]_vars PROVE SymInv'
    OBVIOUS
  <2>1. CASE \E n \in Strings : AddSym(n)
    <3>1. PICK n \in Strings : AddSym(n)
      BY <2>1
    <3>2. strtab.syms \in Nat
      BY DEF SymInv, TableOK, TableShape
    <3>3. CASE /\ NewSymbol(strtab, strtab', n) /\ decl' = Append(decl, NoDecl)
               /\ ident' = [name |-> n, sym |-> strtab'.syms]
      <4>1. IsSequence(decl') /\ Len(decl') = Len(decl) + 1
        BY <3>3, AppendAny DEF SymInv
      <4>2. strtab'.syms = strtab.syms + 1 /\ SymbolOf(strtab', n) = strtab'.syms
        BY <3>3 DEF NewSymbol
      <4>3. TableOK(strtab')
        BY <3>1, AddSymIs
      <4>4. ident'.name = n /\ ident'.sym = strtab'.syms /\ strtab'.syms # 0
        BY <3>2, <3>3, <4>2
      <4>5. Len(decl') = strtab'.syms
        BY <4>1, <4>2 DEF SymInv
      <4> QED BY <4>1, <4>2, <4>3, <4>4, <4>5 DEF SymInv
    <3>4. CASE /\ UNCHANGED <<strtab, decl>> /\ SymbolOf(strtab, n) # 0
               /\ ident' = [name |-> n, sym |-> SymbolOf(strtab, n)]
      <4>1. strtab' = strtab /\ decl' = decl /\ ident'.name = n /\ ident'.sym = SymbolOf(strtab, n)
        BY <3>4
      <4>2. TableOK(strtab') /\ IsSequence(decl') /\ Len(decl') = strtab'.syms
        BY <4>1 DEF SymInv
      <4> QED BY <4>1, <4>2, <3>4 DEF SymInv
    <3> QED BY <3>1, <3>3, <3>4, AddSymIs
  <2>2. CASE ~\E n \in Strings : AddSym(n)
    <3>1. /\ UNCHANGED strtab /\ (ident' = NoIdent \/ ident' = ident)
          /\ decl' = decl \/ \E s, x : decl' = [decl EXCEPT ![s] = x]
      BY <2>2, OtherSteps
    <3>2. IsSequence(decl') /\ Len(decl') = Len(decl)
      <4>1. CASE decl' = decl
        BY <4>1 DEF SymInv
      <4>2. CASE \E s, x : decl' = [decl EXCEPT ![s] = x]
        <5>1. PICK s, x : decl' = [decl EXCEPT ![s] = x]
          BY <4>2
        <5> QED BY <5>1, ExceptAny DEF SymInv
      <4> QED BY <3>1, <4>1, <4>2
    <3>3. TableOK(strtab') /\ Len(decl') = strtab'.syms
      BY <3>1, <3>2 DEF SymInv
    <3>4. ident' # NoIdent => /\ ident'.name \in Strings /\ ident'.sym # 0
                              /\ ident'.sym = SymbolOf(strtab', ident'.name)
      BY <3>1 DEF SymInv
    <3>5. NoIdent' = NoIdent
      BY DEF NoIdent
    <3> QED BY <3>2, <3>3, <3>4, <3>5 DEF SymInv
  <2> QED BY <2>1, <2>2
<1> QED BY <1>1, <1>2, PTL DEF Spec

(* symtab.h: add_sym "just returns the associated symbol" of a name that   *)
(* was added before, in a table that is given any number of names and      *)
(* enlarged any number of times.                                           *)
THEOREM OneSymbolPerName == TableSound => (Spec => []OneSymbol)
<1> SUFFICES ASSUME TableSound PROVE Spec => []OneSymbol
  OBVIOUS
<1>1. SymInv => OneSymbol
  <2> SUFFICES ASSUME SymInv, NEW i \in DOMAIN strtab.hashtab,
                      strtab.hashtab[i].str # NoString
               PROVE  SymbolOf(strtab, strtab.hashtab[i].str) = strtab.hashtab[i].sym
    BY DEF OneSymbol
  <2> DEFINE t == strtab
             s == t.hashtab[i].str
  <2>1. TableOK(t) /\ Entry(t, i)
    BY DEF SymInv, Entry
  <2>2. s \in Strings
    <3>1. PICK n \in Nat : TableShape(t, n)
      BY <2>1 DEF TableOK
    <3>2. t.hashtab \in NodesTo(n)
      BY <3>1 DEF TableShape
    <3> QED BY <3>2 DEF NodesTo, TableNodes
  <2>3. PICK k \in DOMAIN t.hashtab : t.hashtab[k].str = s /\ SymbolOf(t, s) = t.hashtab[k].sym
    BY <2>1, <2>2, SymbolIs
  <2>4. k = i
    BY <2>1, <2>3 DEF TableOK, EntriesOK, Entry
  <2> QED BY <2>3, <2>4
<1> QED BY <1>1, SymInvariant, PTL

(* Nor does any step ever change the symbol of a name: what was declared   *)
(* for the symbol stays declared for the name, whatever is added to its    *)
(* chain and wherever the table ends. *)
THEOREM SymbolsNeverChange == TableSound => (Spec => SymbolsKept)
<1> DEFINE Kept == \A s \in Strings :
                     SymbolOf(strtab, s) # 0 => SymbolOf(strtab', s) = SymbolOf(strtab, s)
<1> SUFFICES ASSUME TableSound PROVE Spec => SymbolsKept
  OBVIOUS
<1>1. SymInv /\ [Next]_vars => Kept
  <2> SUFFICES ASSUME SymInv, [Next]_vars, NEW s \in Strings, SymbolOf(strtab, s) # 0
               PROVE  SymbolOf(strtab', s) = SymbolOf(strtab, s)
    OBVIOUS
  <2>1. CASE \E n \in Strings : AddSym(n)
    <3>1. PICK n \in Strings : AddSym(n)
      BY <2>1
    <3>2. NewSymbol(strtab, strtab', n) \/ UNCHANGED strtab
      BY <3>1, AddSymIs
    <3> QED BY <3>2 DEF NewSymbol
  <2>2. CASE ~\E n \in Strings : AddSym(n)
    <3>1. UNCHANGED strtab
      BY <2>2, OtherSteps
    <3> QED BY <3>1
  <2> QED BY <2>1, <2>2
<1>2. SymInv /\ [Next]_vars => [Kept]_vars
  BY <1>1
<1> QED BY <1>2, SymInvariant, PTL DEF Spec, SymbolsKept
-----------------------------------------------------------------------------
(***************************************************************************)
(* The declarations in force.  While pop_scope runs, those of the          *)
(* innermost scope that it has undone are still in decls.  Each one in     *)
(* force has a cell of the pool (c), whose scope is the part of decls it   *)
(* is in; its prev, and a symbol's decl, lead to the cell of the last      *)
(* declaration of the symbol before it, or of all.                         *)
(***************************************************************************)
Listed ==
  {i \in DOMAIN decls : where = "popping" => i <= scopes[Len(scopes)] \/ popped < i}

ScopeAt(i, k) ==
  k \in 0..cur_scope /\ scopes[k + 1] < i /\ \A j \in (k + 1)..cur_scope : i <= scopes[j + 1]

Last(c, s, J, x) ==
  \/ x = NoDecl /\ \A j \in J : decls[j] # s
  \/ \E j \in J : decls[j] = s /\ x = c[j] /\ \A k \in J : j < k => decls[k] # s

Before(i) == {j \in Listed : j < i}

CellMap(c) ==
  /\ c \in [Listed -> used]
  /\ \A i, j \in Listed : c[i] = c[j] => i = j
  /\ \A x \in used : \E i \in Listed : c[i] = x
CellScopes(c) == \A i \in Listed : decls[i] \in DOMAIN decl /\ ScopeAt(i, heap[c[i]].scope)
OnePerScope(c) ==
  \A i, j \in Listed : decls[i] = decls[j] /\ heap[c[i]].scope = heap[c[j]].scope => i = j
Chains(c) == \A i \in Listed : Last(c, decls[i], Before(i), heap[c[i]].prev)
Heads(c) == \A s \in DOMAIN decl : Last(c, s, Listed, decl[s])

CellsAre(c) == CellMap(c) /\ CellScopes(c) /\ OnePerScope(c) /\ Chains(c) /\ Heads(c)

DeclRecords == [type : Types, scope : Nat, initialized : BOOLEAN, prev : Nat \X Nat]
HeapOK == heap \in [used -> DeclRecords]

LEMMA ListedIs ==
  ASSUME ScopesInv
  PROVE  /\ Listed \subseteq 1..Len(decls) /\ Len(decls) \in Nat /\ DOMAIN decls = 1..Len(decls)
         /\ where # "popping" => Listed = 1..Len(decls)
  BY DEF ScopesInv, IsSequence, Listed

(* A declaration is in one scope, and a later one in no earlier scope. *)
LEMMA ScopeAtOrdered ==
  ASSUME ScopesInv, NEW i \in Nat, NEW j \in Nat, i <= j, NEW k, NEW l, ScopeAt(i, k), ScopeAt(j, l)
  PROVE  k <= l /\ k \in Nat /\ l \in Nat
<1>1. cur_scope \in Nat /\ k \in 0..cur_scope /\ l \in 0..cur_scope
  BY DEF ScopesInv, ScopeAt, cur_scope
<1> SUFFICES ASSUME ~(k <= l) PROVE FALSE
  BY <1>1
<1>2. k \in (l + 1)..cur_scope
  BY <1>1
<1>3. j <= scopes[k + 1] /\ scopes[k + 1] < i
  BY <1>2 DEF ScopeAt
<1>4. scopes[k + 1] \in Nat
  <2>1. k + 1 \in 1..Len(scopes)
    BY <1>1 DEF ScopesInv, cur_scope
  <2> QED BY <2>1 DEF ScopesInv
<1> QED BY <1>3, <1>4

LEMMA ScopeAtOne ==
  ASSUME ScopesInv, NEW i \in Nat, NEW k, NEW l, ScopeAt(i, k), ScopeAt(i, l)
  PROVE  k = l
<1>1. k <= l /\ l <= k /\ k \in Nat /\ l \in Nat
  BY ScopeAtOrdered
<1> QED BY <1>1

(* A step that keeps the declarations in force and their cells. *)
DeclsKept ==
  /\ UNCHANGED used /\ Listed' = Listed
  /\ \A i \in Listed : decls'[i] = decls[i]
  /\ \A x \in used : heap'[x].scope = heap[x].scope /\ heap'[x].prev = heap[x].prev
  /\ \A i \in Listed : \A k : ScopeAt(i, k) => ScopeAt(i, k)'
  /\ \A s \in DOMAIN decl : s \in DOMAIN decl' /\ decl'[s] = decl[s]
  /\ \A s \in DOMAIN decl' : s \in DOMAIN decl \/ decl'[s] = NoDecl

LEMMA SameCells ==
  ASSUME NEW c, CellsAre(c), DeclsKept
  PROVE  CellsAre(c)'
<1> USE DEF DeclsKept
<1>1. /\ CellMap(c)' /\ \A i \in Listed : c[i] \in used
  BY DEF CellsAre, CellMap
<1>2. CellScopes(c)'
  BY <1>1 DEF CellsAre, CellScopes
<1>3. OnePerScope(c)'
  BY <1>1 DEF CellsAre, OnePerScope
<1>4. \A s, x, J : J \subseteq Listed /\ Last(c, s, J, x) => Last(c, s, J, x)'
  <2>1. NoDecl' = NoDecl
    BY DEF NoDecl
  <2> QED BY <2>1 DEF Last
<1>5. \A i \in Listed : Before(i)' = Before(i) /\ Before(i) \subseteq Listed
  BY DEF Before
<1>6. Chains(c)'
  BY <1>1, <1>4, <1>5 DEF CellsAre, Chains
<1>7. ASSUME NEW s \in DOMAIN decl' PROVE Last(c, s, Listed, decl[s])'
  <2>1. CASE s \in DOMAIN decl
    BY <2>1, <1>4 DEF CellsAre, Heads
  <2>2. CASE s \notin DOMAIN decl
    <3>1. \A j \in Listed : decls'[j] # s
      BY <2>2 DEF CellsAre, CellScopes
    <3>2. decl'[s] = NoDecl
      BY <2>2
    <3> QED BY <3>1, <3>2 DEF Last, NoDecl
  <2> QED BY <2>1, <2>2
<1>8. Heads(c)'
  BY <1>7 DEF Heads
<1> QED BY <1>1, <1>2, <1>3, <1>6, <1>8 DEF CellsAre

LEMMA NoDeclFree ==
  ASSUME PoolTypeOK
  PROVE  NoDecl \notin used
  BY DEF PoolTypeOK, NoDecl, Nodes

(* A symbol whose declaration is not of the current scope has none there.  *)
LEMMA NotDeclared ==
  ASSUME PoolTypeOK, ScopesInv, NEW c, CellsAre(c), NEW s \in DOMAIN decl, ~DeclaredHere(s)
  PROVE  \A i \in Listed : decls[i] = s => heap[c[i]].scope # cur_scope
<1> SUFFICES ASSUME NEW i \in Listed, decls[i] = s, heap[c[i]].scope = cur_scope PROVE FALSE
  OBVIOUS
<1>0. \A j \in Listed : c[j] \in used /\ j \in Nat
  BY ListedIs DEF CellsAre, CellMap
<1>1. PICK j \in Listed : decls[j] = s /\ decl[s] = c[j] /\ \A k \in Listed : j < k => decls[k] # s
  BY DEF CellsAre, Heads, Last
<1>2. i <= j
  BY <1>0, <1>1
<1>3. ScopeAt(i, cur_scope) /\ ScopeAt(j, heap[c[j]].scope)
  BY DEF CellsAre, CellScopes
<1>4. heap[c[j]].scope = cur_scope
  <2>1. cur_scope <= heap[c[j]].scope
    BY <1>0, <1>2, <1>3, ScopeAtOrdered
  <2>2. heap[c[j]].scope \in 0..cur_scope /\ cur_scope \in Nat
    BY <1>3 DEF ScopeAt, ScopesInv, cur_scope
  <2> QED BY <2>1, <2>2
<1>5. decl[s] # NoDecl
  BY <1>0, <1>1, NoDeclFree
<1> QED BY <1>1, <1>4, <1>5 DEF DeclaredHere

(* What a new declaration does: it comes last and gets a cell that was     *)
(* free. *)
NewCell(c, s, m, x, d) ==
  /\ m = Len(decls) + 1 /\ x \notin used /\ used' = used \cup {x}
  /\ Listed' = Listed \cup {m} /\ m \notin Listed /\ decls'[m] = s
  /\ \A i \in Listed : decls'[i] = decls[i] /\ i < m
  /\ d = [i \in Listed \cup {m} |-> IF i = m THEN x ELSE c[i]]
  /\ DOMAIN decl' = DOMAIN decl /\ decl'[s] = x
  /\ \A r \in DOMAIN decl : r # s => decl'[r] = decl[r]
  /\ \A y \in used : heap'[y] = heap[y]
  /\ heap'[x].prev = decl[s] /\ heap'[x].scope = cur_scope

LEMMA NewCellKeeps ==
  ASSUME PoolTypeOK, ScopesInv, UNCHANGED scopes, NEW c, CellsAre(c), where # "popping",
         NEW s \in DOMAIN decl, ~DeclaredHere(s), NEW m, NEW x, NEW d, NewCell(c, s, m, x, d)
  PROVE  CellsAre(d)'
<1>0. /\ Listed = 1..Len(decls) /\ Len(decls) \in Nat /\ \A i \in Listed : i \in Nat
  BY ListedIs
<1>1. /\ \A i \in Listed : c[i] \in used /\ c[i] # x /\ d[i] = c[i] /\ i # m /\ i < m
      /\ d[m] = x /\ Listed' = Listed \cup {m} /\ x \notin used /\ m \notin Listed
      /\ m \in Nat
  BY <1>0 DEF CellsAre, CellMap, NewCell
<1>2. CellMap(d)'
  <2>1. d \in [Listed' -> used']
    BY <1>1 DEF NewCell
  <2>2. \A i, j \in Listed' : d[i] = d[j] => i = j
    BY <1>1 DEF CellsAre, CellMap
  <2>3. \A y \in used' : \E i \in Listed' : d[i] = y
    BY <1>1 DEF CellsAre, CellMap, NewCell
  <2> QED BY <2>1, <2>2, <2>3 DEF CellMap
<1>3. cur_scope' = cur_scope /\ \A i, k : ScopeAt(i, k)' <=> ScopeAt(i, k)
  BY DEF cur_scope, ScopeAt
<1>4. ScopeAt(m, cur_scope)
  <2>1. cur_scope \in Nat /\ scopes[cur_scope + 1] <= Len(decls) /\ scopes[cur_scope + 1] \in Nat
    <3>1. cur_scope \in Nat /\ cur_scope + 1 \in DOMAIN scopes
      BY DEF ScopesInv, cur_scope
    <3> QED BY <3>1 DEF ScopesInv
  <2>2. (cur_scope + 1)..cur_scope = {}
    BY <2>1
  <2> QED BY <2>1, <2>2, <1>0 DEF ScopeAt, NewCell
<1>5. \A i \in Listed : decls'[i] = decls[i] /\ heap'[d[i]] = heap[c[i]] /\ decls[i] \in DOMAIN decl
  BY <1>1 DEF NewCell, CellsAre, CellScopes
<1>6. decls'[m] = s /\ heap'[d[m]].scope = cur_scope /\ heap'[d[m]].prev = decl[s]
  BY <1>1 DEF NewCell
<1>7. CellScopes(d)'
  <2>1. ASSUME NEW i \in Listed' PROVE decls'[i] \in DOMAIN decl' /\ ScopeAt(i, heap'[d[i]].scope)
    <3>1. CASE i = m
      BY <3>1, <1>4, <1>6 DEF NewCell
    <3>2. CASE i \in Listed
      BY <3>2, <1>5 DEF NewCell, CellsAre, CellScopes
    <3> QED BY <3>1, <3>2, <1>1
  <2> QED BY <2>1, <1>3 DEF CellScopes
<1>8. OnePerScope(d)'
  <2>1. \A i \in Listed : decls[i] = s => heap[c[i]].scope # cur_scope
    BY NotDeclared
  <2>2. ASSUME NEW i \in Listed', NEW j \in Listed',
               decls'[i] = decls'[j], heap'[d[i]].scope = heap'[d[j]].scope
        PROVE  i = j
    <3>1. i = m <=> j = m
      BY <2>1, <2>2, <1>1, <1>5, <1>6
    <3>2. CASE i # m
      BY <3>1, <3>2, <2>2, <1>1, <1>5 DEF CellsAre, OnePerScope
    <3> QED BY <3>1, <3>2
  <2> QED BY <2>2 DEF OnePerScope
<1>9. NoDecl' = NoDecl
  BY DEF NoDecl
<1>10. \A r, J, y : J \subseteq Listed /\ Last(c, r, J, y) => Last(d, r, J, y)'
  BY <1>1, <1>5, <1>9 DEF Last
<1>11. (\A i \in Listed : Before(i)' = Before(i) /\ Before(i) \subseteq Listed) /\ Before(m)' = Listed
  <2>1. \A i \in Listed : ~(m < i)
    BY <1>0, <1>1
  <2> QED BY <1>1, <2>1 DEF Before
<1>12. Chains(d)'
  <2>1. ASSUME NEW i \in Listed' PROVE Last(d, decls[i], Before(i), heap[d[i]].prev)'
    <3>1. CASE i = m
      <4>1. Last(c, s, Listed, decl[s])
        BY DEF CellsAre, Heads
      <4> QED BY <3>1, <4>1, <1>6, <1>10, <1>11
    <3>2. CASE i \in Listed
      <4>1. Last(c, decls[i], Before(i), heap[c[i]].prev)
        BY <3>2 DEF CellsAre, Chains
      <4> QED BY <3>2, <4>1, <1>5, <1>10, <1>11
    <3> QED BY <3>1, <3>2, <1>1
  <2> QED BY <2>1 DEF Chains
<1>13. Heads(d)'
  <2>1. ASSUME NEW r \in DOMAIN decl' PROVE Last(d, r, Listed, decl[r])'
    <3>1. CASE r = s
      <4>1. \A k \in Listed' : ~(m < k)
        BY <1>0, <1>1
      <4>2. decl'[r] = d[m] /\ decls'[m] = r /\ m \in Listed'
        BY <3>1, <1>1, <1>6 DEF NewCell
      <4> QED BY <4>1, <4>2 DEF Last
    <3>2. CASE r # s
      <4>1. Last(c, r, Listed, decl[r]) /\ decl'[r] = decl[r]
        BY <3>2 DEF CellsAre, Heads, NewCell
      <4>3. CASE decl[r] = NoDecl /\ \A j \in Listed : decls[j] # r
        <5>1. \A j \in Listed' : decls'[j] # r
          BY <4>3, <3>2, <1>1, <1>5, <1>6
        <5> QED BY <5>1, <4>1, <4>3, <1>9 DEF Last
      <4>4. CASE \E j \in Listed : decls[j] = r /\ decl[r] = c[j] /\ \A k \in Listed : j < k => decls[k] # r
        <5>1. PICK j \in Listed : decls[j] = r /\ decl[r] = c[j] /\ \A k \in Listed : j < k => decls[k] # r
          BY <4>4
        <5>2. \A k \in Listed' : j < k => decls'[k] # r
          BY <5>1, <3>2, <1>1, <1>5, <1>6
        <5> QED BY <5>1, <5>2, <4>1, <1>1, <1>5 DEF Last
      <4> QED BY <4>1, <4>3, <4>4 DEF Last
    <3> QED BY <3>1, <3>2
  <2> QED BY <2>1 DEF Heads
<1> QED BY <1>2, <1>7, <1>8, <1>12, <1>13 DEF CellsAre

(* What pop_scope's loop does to the declaration m: the first one of the   *)
(* innermost scope that it has not undone. *)
CellGone(c, m, d) ==
  /\ m \in Listed /\ Listed' = Listed \ {m} /\ used' = used \ {c[m]}
  /\ UNCHANGED <<decls, scopes>>
  /\ d = [i \in Listed \ {m} |-> c[i]]
  /\ decl' = [decl EXCEPT ![decls[m]] = heap[c[m]].prev]
  /\ \A y \in used' : heap'[y] = heap[y]

LEMMA FirstUndone ==
  ASSUME PoolTypeOK, ScopesInv, NEW c, CellsAre(c), where = "popping", popped < Len(decls)
  PROVE  /\ popped + 1 \in Listed /\ decl[decls[popped + 1]] = c[popped + 1]
         /\ \A k \in Listed : popped + 1 < k => decls[k] # decls[popped + 1]
<1> DEFINE m == popped + 1
           s == decls[m]
<1>0. /\ Listed \subseteq 1..Len(decls) /\ Len(decls) \in Nat /\ DOMAIN decls = 1..Len(decls)
      /\ popped \in Nat /\ Len(scopes) \in Nat /\ Len(scopes) >= 2
      /\ scopes[Len(scopes)] \in Nat /\ scopes[Len(scopes)] <= popped
  <2>1. Len(scopes) >= 2 /\ Len(scopes) \in Nat /\ popped \in Nat /\ scopes[Len(scopes)] <= popped
    BY DEF ScopesInv
  <2>2. Len(scopes) \in DOMAIN scopes
    BY <2>1 DEF ScopesInv
  <2>3. scopes[Len(scopes)] \in Nat
    BY <2>2 DEF ScopesInv
  <2> QED BY <2>1, <2>3, ListedIs
<1>1. m \in Listed
  <2>1. m \in DOMAIN decls /\ popped < m
    BY <1>0
  <2> QED BY <2>1 DEF Listed
<1>2. s \in DOMAIN decl /\ Last(c, s, Listed, decl[s])
  BY <1>1 DEF CellsAre, CellScopes, Heads
<1>3. PICK j \in Listed : decls[j] = s /\ decl[s] = c[j] /\ \A k \in Listed : j < k => decls[k] # s
  BY <1>1, <1>2 DEF Last
<1>4. m <= j
  BY <1>0, <1>1, <1>3
<1>5. ScopeAt(m, heap[c[m]].scope) /\ ScopeAt(j, heap[c[j]].scope)
  BY <1>1 DEF CellsAre, CellScopes
<1>6. \A i, k : i \in Listed /\ m <= i /\ ScopeAt(i, k) => k = cur_scope
  <2> SUFFICES ASSUME NEW i \in Listed, NEW k, m <= i, ScopeAt(i, k), k # cur_scope PROVE FALSE
    OBVIOUS
  <2>1. k \in Nat /\ cur_scope \in Nat /\ cur_scope \in (k + 1)..cur_scope /\ cur_scope + 1 = Len(scopes)
    BY <1>0 DEF ScopeAt, cur_scope
  <2>2. i <= scopes[Len(scopes)]
    BY <2>1 DEF ScopeAt
  <2> QED BY <2>2, <1>0
<1>7. heap[c[m]].scope = heap[c[j]].scope
  BY <1>0, <1>1, <1>4, <1>5, <1>6
<1>8. j = m
  BY <1>1, <1>3, <1>7 DEF CellsAre, OnePerScope
<1> QED BY <1>1, <1>3, <1>8

LEMMA CellGoneKeeps ==
  ASSUME PoolTypeOK, ScopesInv, NEW c, CellsAre(c), NEW m, NEW d, CellGone(c, m, d),
         IsSequence(decl), decl[decls[m]] = c[m],
         \A k \in Listed : m < k => decls[k] # decls[m]
  PROVE  CellsAre(d)'
<1> DEFINE s == decls[m]
<1>0. \A i \in Listed : i \in Nat
  BY ListedIs
<1>1. /\ Listed' = Listed \ {m} /\ m \in Listed /\ decls' = decls
      /\ \A i \in Listed' : /\ i \in Listed /\ i # m /\ d[i] = c[i] /\ c[i] \in used' /\ c[i] \in used
                            /\ heap'[d[i]] = heap[c[i]]
  BY DEF CellsAre, CellMap, CellGone
<1>2. CellMap(d)'
  <2>1. d \in [Listed' -> used']
    BY <1>1 DEF CellGone
  <2>2. \A i, j \in Listed' : d[i] = d[j] => i = j
    BY <1>1 DEF CellsAre, CellMap
  <2>3. \A y \in used' : \E i \in Listed' : d[i] = y
    BY <1>1 DEF CellsAre, CellMap, CellGone
  <2> QED BY <2>1, <2>2, <2>3 DEF CellMap
<1>3. \A i, k : ScopeAt(i, k)' <=> ScopeAt(i, k)
  BY DEF cur_scope, ScopeAt, CellGone
<1>4. s \in DOMAIN decl /\ DOMAIN decl' = DOMAIN decl
      /\ decl'[s] = heap[c[m]].prev /\ \A r \in DOMAIN decl : r # s => decl'[r] = decl[r]
  <2>1. s \in DOMAIN decl
    BY <1>1 DEF CellsAre, CellScopes
  <2>2. PICK S : decl \in Seq(S)
    BY DEF IsSequence
  <2>3. decl' = [decl EXCEPT ![s] = heap[c[m]].prev] /\ DOMAIN decl = 1..Len(decl)
    BY <2>2 DEF CellGone
  <2>4. decl = [i \in DOMAIN decl |-> decl[i]]
    BY <2>2
  <2> QED BY <2>1, <2>3, <2>4
<1>5. CellScopes(d)'
  <2>1. \A i \in Listed' : decls'[i] \in DOMAIN decl' /\ ScopeAt(i, heap'[d[i]].scope)
    BY <1>1, <1>4 DEF CellsAre, CellScopes
  <2> QED BY <2>1, <1>3 DEF CellScopes
<1>6. OnePerScope(d)'
  BY <1>1 DEF CellsAre, OnePerScope
<1>7. NoDecl' = NoDecl
  BY DEF NoDecl
<1>8. Chains(d)'
  <2>1. ASSUME NEW i \in Listed' PROVE Last(d, decls[i], Before(i), heap[d[i]].prev)'
    <3>1. Last(c, decls[i], Before(i), heap[c[i]].prev) /\ i \in Listed
      BY <1>1 DEF CellsAre, Chains
    <3>2. Before(i)' = Before(i) \ {m} /\ Before(i) \subseteq Listed
      BY <1>1 DEF Before
    <3>3. CASE heap[c[i]].prev = NoDecl /\ \A j \in Before(i) : decls[j] # decls[i]
      BY <3>2, <3>3, <1>1, <1>7 DEF Last
    <3>4. CASE \E j \in Before(i) : /\ decls[j] = decls[i] /\ heap[c[i]].prev = c[j]
                                    /\ \A k \in Before(i) : j < k => decls[k] # decls[i]
      <4>1. PICK j \in Before(i) : /\ decls[j] = decls[i] /\ heap[c[i]].prev = c[j]
                                   /\ \A k \in Before(i) : j < k => decls[k] # decls[i]
        BY <3>4
      <4>2. j # m
        BY <4>1, <3>1 DEF Before
      <4>3. j \in Before(i)' /\ j \in Listed'
        BY <4>2, <3>2, <1>1
      <4> QED BY <4>1, <4>3, <3>2, <1>1 DEF Last
    <3> QED BY <3>1, <3>3, <3>4 DEF Last
  <2> QED BY <2>1 DEF Chains
<1>9. Heads(d)'
  <2>1. ASSUME NEW r \in DOMAIN decl' PROVE Last(d, r, Listed, decl[r])'
    <3>1. CASE r = s
      <4>1. Last(c, s, Before(m), heap[c[m]].prev)
        BY <1>1 DEF CellsAre, Chains
      <4>2. \A k \in Listed' : decls[k] = s => k \in Before(m)
        BY <1>0, <1>1 DEF Before
      <4>3. \A k \in Before(m) : k \in Listed' /\ decls'[k] = decls[k] /\ d[k] = c[k]
        BY <1>0, <1>1 DEF Before
      <4>4. CASE heap[c[m]].prev = NoDecl /\ \A j \in Before(m) : decls[j] # s
        BY <4>2, <4>4, <3>1, <1>1, <1>4, <1>7 DEF Last
      <4>5. CASE \E j \in Before(m) : /\ decls[j] = s /\ heap[c[m]].prev = c[j]
                                      /\ \A k \in Before(m) : j < k => decls[k] # s
        <5>1. PICK j \in Before(m) : /\ decls[j] = s /\ heap[c[m]].prev = c[j]
                                     /\ \A k \in Before(m) : j < k => decls[k] # s
          BY <4>5
        <5>2. \A k \in Listed' : j < k => decls'[k] # s
          BY <5>1, <4>2, <1>1
        <5> QED BY <5>1, <5>2, <4>3, <3>1, <1>4 DEF Last
      <4> QED BY <4>1, <4>4, <4>5 DEF Last
    <3>2. CASE r # s
      <4>1. Last(c, r, Listed, decl[r]) /\ decl'[r] = decl[r]
        BY <3>2, <1>4 DEF CellsAre, Heads
      <4>3. CASE decl[r] = NoDecl /\ \A j \in Listed : decls[j] # r
        BY <4>1, <4>3, <1>1, <1>7 DEF Last
      <4>4. CASE \E j \in Listed : decls[j] = r /\ decl[r] = c[j] /\ \A k \in Listed : j < k => decls[k] # r
        <5>1. PICK j \in Listed : decls[j] = r /\ decl[r] = c[j] /\ \A k \in Listed : j < k => decls[k] # r
          BY <4>4
        <5>2. j \in Listed'
          BY <5>1, <3>2, <1>1
        <5> QED BY <5>1, <5>2, <4>1, <1>1 DEF Last
      <4> QED BY <4>1, <4>3, <4>4 DEF Last
    <3> QED BY <3>1, <3>2
  <2> QED BY <2>1 DEF Heads
<1> QED BY <1>2, <1>5, <1>6, <1>8, <1>9 DEF CellsAre
-----------------------------------------------------------------------------
(***************************************************************************)
(* What the walk along a symbol's chain finds.                             *)
(***************************************************************************)
FoundIn(c, s, k, x) ==
  \/ x = NoDecl /\ \A i \in Listed : decls[i] = s => heap[c[i]].scope # k
  \/ \E i \in Listed : decls[i] = s /\ heap[c[i]].scope = k /\ x = c[i]

LEMMA InScopeIs ==
  ASSUME PoolTypeOK, ScopesInv, HeapOK, NEW c, CellsAre(c), NEW s \in DOMAIN decl, NEW k
  PROVE  FoundIn(c, s, k, InScope(s, k))
<1> PICK n \in Nat : n = Len(decls)
  BY ListedIs
<1>0. /\ Listed \subseteq 0..n /\ Listed \subseteq Nat /\ NoDecl \notin used /\ NoDecl \in Nat \X Nat /\ used \subseteq Nat \X Nat
      /\ \A i \in Listed : c[i] \in used
      /\ \A x \in used : \E i \in Listed : c[i] = x
      /\ \A i, j \in Listed : c[i] = c[j] => i = j
  <2>1. Listed \subseteq 0..n /\ Listed \subseteq Nat
    BY ListedIs
  <2> QED BY <2>1, NoDeclFree DEF CellsAre, CellMap, PoolTypeOK, NoDecl
<1> DEFINE S == Nat \X Nat
           Step(x, v) == IF heap[x].scope = k THEN x
                         ELSE IF heap[x].prev = NoDecl THEN NoDecl ELSE v[heap[x].prev]
           Is(v) == v = [x \in used |-> Step(x, v)]
           rank == [x \in used |-> CHOOSE i \in Listed : c[i] = x]
           D == [p \in used \X [used -> S] |-> Step(p[1], p[2])]
<1>1. /\ rank \in [used -> 0..n] /\ rank \in [used -> Nat]
      /\ \A x \in used : rank[x] \in Listed /\ c[rank[x]] = x
      /\ \A i \in Listed : rank[c[i]] = i
  <2>1. \A x \in used : (CHOOSE i \in Listed : c[i] = x) \in Listed
                        /\ c[CHOOSE i \in Listed : c[i] = x] = x
    BY <1>0
  <2>2. \A x \in used : rank[x] \in Listed /\ c[rank[x]] = x
    BY <2>1
  <2>3. \A i \in Listed : rank[c[i]] = i
    <3> HIDE DEF rank
    <3> QED BY <2>2, <1>0
  <2>4. \A x \in used : rank[x] \in 0..n
    <3> HIDE DEF rank
    <3> QED BY <2>2, <1>0
  <2>5. rank = [x \in used |-> rank[x]]
    OBVIOUS
  <2> HIDE DEF rank
  <2>6. rank \in [used -> 0..n] /\ rank \in [used -> Nat]
    BY <2>4, <2>5
  <2> QED BY <2>2, <2>3, <2>6
<1> HIDE DEF rank
<1>2. ASSUME NEW i \in Listed, heap[c[i]].prev # NoDecl
      PROVE  \E j \in Listed : /\ heap[c[i]].prev = c[j] /\ j < i /\ decls[j] = decls[i]
                               /\ \A l \in Listed : j < l /\ l < i => decls[l] # decls[i]
  <2>1. Last(c, decls[i], Before(i), heap[c[i]].prev)
    BY DEF CellsAre, Chains
  <2> QED BY <2>1, <1>2 DEF Last, Before
<1>3. ASSUME NEW x \in used, heap[x].prev # NoDecl
      PROVE  heap[x].prev \in used /\ rank[heap[x].prev] < rank[x]
  BY <1>0, <1>1, <1>2, <1>3
<1>4. \E v \in [used -> S] : Follows(v, used, D)
  <2>2. ASSUME NEW x \in used, NEW v \in [used -> S] PROVE Step(x, v) \in S
    <3>1. x \in S /\ \A y \in used : v[y] \in S
      BY <1>0
    <3> QED BY <3>1, <1>0, <1>3
  <2>3. D \in [used \X [used -> S] -> S]
    BY <2>2
  <2>4. ASSUME NEW x \in used, NEW f \in [used -> S], NEW g \in [used -> S],
               \A y \in used : rank[y] < rank[x] => f[y] = g[y]
        PROVE  D[<<x, f>>] = D[<<x, g>>]
    <3>1. Step(x, f) = Step(x, g)
      BY <1>3, <2>4
    <3> QED BY <3>1
  <2>5. LowerOnly(D, used, S, rank)
    <3> HIDE DEF D
    <3> QED BY <2>4 DEF LowerOnly
  <2> HIDE DEF D, S
  <2> QED BY <2>3, <2>5, <1>0, <1>1, RecursionByRank DEF S
<1>5. PICK f \in [used -> S] : Follows(f, used, D)
  BY <1>4
<1>6. Is(f)
  <2>1. \A x \in used : f[x] = Step(x, f)
    BY <1>5 DEF Follows
  <2> HIDE DEF Step
  <2> QED BY <2>1
<1> DEFINE from == CHOOSE v : Is(v)
<1>7. Is(from)
  <2> HIDE DEF Is
  <2> QED BY <1>6
<1>8. \A x \in used : from[x] = Step(x, from)
  <2> HIDE DEF Step, from
  <2> QED BY <1>7
<1>9. InScope(s, k) = IF decl[s] = NoDecl THEN NoDecl ELSE from[decl[s]]
  BY DEF InScope
<1> HIDE DEF from
<1> DEFINE UpToFound(i, x) ==
             \/ x = NoDecl /\ \A j \in Listed : j <= i /\ decls[j] = decls[i] => heap[c[j]].scope # k
             \/ \E j \in Listed : decls[j] = decls[i] /\ heap[c[j]].scope = k /\ x = c[j]
           T == {x \in used : UpToFound(rank[x], from[x])}
<1>10. used \subseteq T
  <2> SUFFICES ASSUME NEW x \in used, \A y \in used : rank[y] < rank[x] => y \in T PROVE x \in T
    <3>1. \A x \in used : (\A y \in used : rank[y] < rank[x] => y \in T) => x \in T
      OBVIOUS
    <3> HIDE DEF T
    <3> QED BY <3>1, <1>1, ByRank
  <2> PICK i \in Listed : i = rank[x] /\ x = c[i]
    BY <1>1
  <2>1. CASE heap[x].scope = k
    <3>1. from[x] = c[i]
      BY <1>8, <2>1
    <3>2. UpToFound(i, from[x])
      BY <3>1, <2>1
    <3> QED BY <3>2
  <2>2. CASE heap[x].scope # k /\ heap[x].prev = NoDecl
    <3>1. from[x] = NoDecl
      BY <1>8, <2>2
    <3>2. Last(c, decls[i], Before(i), NoDecl)
      BY <2>2 DEF CellsAre, Chains
    <3>3. \A j \in Before(i) : decls[j] # decls[i]
      BY <3>2, <1>0 DEF Last, Before
    <3>4. \A j \in Listed : j <= i /\ decls[j] = decls[i] => j = i
      BY <3>3, <1>0 DEF Before
    <3> QED BY <3>1, <3>4, <2>2
  <2>3. CASE heap[x].scope # k /\ heap[x].prev # NoDecl
    <3> PICK j \in Listed : /\ heap[x].prev = c[j] /\ j < i /\ decls[j] = decls[i]
                            /\ \A l \in Listed : j < l /\ l < i => decls[l] # decls[i]
      BY <1>2, <2>3
    <3>1. from[x] = from[c[j]]
      BY <1>8, <2>3
    <3>2. UpToFound(j, from[c[j]])
      <4>1. c[j] \in used /\ rank[c[j]] = j /\ rank[c[j]] < rank[x]
        BY <1>0, <1>1
      <4> HIDE DEF UpToFound
      <4>2. c[j] \in T
        BY <4>1
      <4> QED BY <4>1, <4>2
    <3>3. ASSUME NEW l \in Listed, l <= i, decls[l] = decls[i] PROVE l <= j \/ l = i
      <4> HIDE DEF T, UpToFound
      <4>1. i \in Nat /\ j \in Nat /\ l \in Nat
        BY <1>0
      <4>2. ~(j < l /\ l < i)
        BY <3>3
      <4> QED BY <4>1, <4>2, <3>3
    <3>4. UpToFound(i, from[x])
      <4>1. CASE from[c[j]] = NoDecl /\ \A l \in Listed : l <= j /\ decls[l] = decls[j] => heap[c[l]].scope # k
        BY <4>1, <3>1, <3>3, <2>3
      <4>2. CASE \E l \in Listed : decls[l] = decls[j] /\ heap[c[l]].scope = k /\ from[c[j]] = c[l]
        BY <4>2, <3>1
      <4> QED BY <4>1, <4>2, <3>2
    <3> QED BY <3>4
  <2> QED BY <2>1, <2>2, <2>3
<1>11. CASE decl[s] = NoDecl
  <2>1. \A i \in Listed : decls[i] # s
    BY <1>0, <1>11 DEF CellsAre, Heads, Last
  <2> QED BY <2>1, <1>9, <1>11 DEF FoundIn
<1>12. CASE decl[s] # NoDecl
  <2>1. PICK i \in Listed : decls[i] = s /\ decl[s] = c[i] /\ \A j \in Listed : i < j => decls[j] # s
    BY <1>12 DEF CellsAre, Heads, Last
  <2>2. UpToFound(i, from[c[i]])
    BY <1>0, <1>1, <1>10
  <2>3. ASSUME NEW j \in Listed, decls[j] = s PROVE j <= i
    <3> HIDE DEF T, UpToFound, D, Is, S
    <3>1. i \in Nat /\ j \in Nat
      BY <1>0
    <3>2. ~(i < j)
      BY <2>1, <2>3
    <3> QED BY <3>1, <3>2
  <2>4. InScope(s, k) = from[c[i]]
    BY <1>9, <1>12, <2>1
  <2> QED BY <2>1, <2>2, <2>3, <2>4 DEF FoundIn
<1> QED BY <1>11, <1>12
-----------------------------------------------------------------------------
(***************************************************************************)
(* The steps that keep the declarations in force.                          *)
(***************************************************************************)
DeclsInv == HeapOK /\ \E c : CellsAre(c)

LEMMA DeclInUse ==
  ASSUME NEW c, CellsAre(c), NEW s \in DOMAIN decl, decl[s] # NoDecl
  PROVE  decl[s] \in used
  BY DEF CellsAre, CellMap, Heads, Last

(* An assignment, or a declaration that is refused, at most marks one. *)
Marked(x) == heap' = heap \/ (x \in used /\ \E v \in BOOLEAN : heap' = [heap EXCEPT ![x].initialized = v])

LEMMA MarkedIs ==
  ASSUME HeapOK, UNCHANGED used, NEW x, Marked(x)
  PROVE  /\ HeapOK'
         /\ \A y \in used : /\ heap'[y].scope = heap[y].scope /\ heap'[y].prev = heap[y].prev
                            /\ heap'[y].type = heap[y].type
                            /\ y # x => heap'[y] = heap[y]
<1>1. CASE heap' = heap
  BY <1>1 DEF HeapOK, DeclRecords, Types
<1>2. CASE x \in used /\ \E v \in BOOLEAN : heap' = [heap EXCEPT ![x].initialized = v]
  <2> PICK v \in BOOLEAN : heap' = [heap EXCEPT ![x].initialized = v]
    BY <1>2
  <2> DEFINE r == [heap[x] EXCEPT !.initialized = v]
  <2>1. heap \in [used -> DeclRecords] /\ heap[x] \in DeclRecords
    BY <1>2 DEF HeapOK
  <2>2. /\ r \in DeclRecords /\ r.scope = heap[x].scope /\ r.prev = heap[x].prev
        /\ r.type = heap[x].type
    BY <2>1 DEF DeclRecords
  <2>3. heap' = [heap EXCEPT ![x] = r]
    OBVIOUS
  <2> HIDE DEF r
  <2>4. heap' \in [used -> DeclRecords] /\ heap'[x] = r /\ \A y \in used : y # x => heap'[y] = heap[y]
    BY <1>2, <2>1, <2>2, <2>3
  <2>5. DeclRecords' = DeclRecords
    BY DEF DeclRecords, Types
  <2> QED BY <2>2, <2>4, <2>5 DEF HeapOK
<1> QED BY <1>1, <1>2 DEF Marked

LEMMA QuietKept ==
  ASSUME HeapOK, UNCHANGED <<used, decl, decls, scopes>>, where # "popping", where' # "popping",
         NEW x, Marked(x)
  PROVE  DeclsKept /\ HeapOK'
<1>1. Listed' = Listed
  BY DEF Listed
<1>2. \A i, k : ScopeAt(i, k) => ScopeAt(i, k)'
  BY DEF ScopeAt, cur_scope
<1> QED BY <1>1, <1>2, MarkedIs DEF DeclsKept

LEMMA StutterKept ==
  ASSUME HeapOK, UNCHANGED vars
  PROVE  DeclsKept /\ HeapOK'
<1>1. UNCHANGED <<used, decl, heap, decls, scopes, where, popped>>
  BY DEF vars, poolVars, declVars
<1>2. Listed' = Listed
  BY <1>1 DEF Listed
<1>3. \A i, k : ScopeAt(i, k) => ScopeAt(i, k)'
  BY <1>1 DEF ScopeAt, cur_scope
<1>4. Marked(NoDecl)
  BY <1>1 DEF Marked
<1> QED BY <1>1, <1>2, <1>3, <1>4, MarkedIs DEF DeclsKept

LEMMA AddSymKept ==
  ASSUME SymInv, HeapOK, TableSound, NEW n \in Strings, AddSym(n)
  PROVE  DeclsKept /\ HeapOK'
<1>1. /\ UNCHANGED <<used, heap, decls, scopes, popped>>
      /\ where # "popping" /\ where' # "popping"
  BY DEF AddSym, poolVars
<1>2. CASE decl' = decl
  BY <1>1, <1>2, QuietKept DEF Marked
<1>3. CASE decl' = Append(decl, NoDecl)
  <2>1. PICK S : decl \in Seq(S)
    BY DEF SymInv, IsSequence
  <2>2. decl \in Seq(S \cup {NoDecl})
    BY <2>1
  <2> DEFINE m == Len(decl)
  <2>3. /\ DOMAIN decl = 1..m /\ m \in Nat /\ DOMAIN decl' = 1..(m + 1)
        /\ \A s \in 1..m : decl'[s] = decl[s]
        /\ decl'[m + 1] = NoDecl
    BY <1>3, <2>2
  <2>4. \A s \in DOMAIN decl' : s \in DOMAIN decl \/ s = m + 1
    BY <2>3
  <2>5. Listed' = Listed /\ \A i, k : ScopeAt(i, k) => ScopeAt(i, k)'
    BY <1>1 DEF Listed, ScopeAt, cur_scope
  <2>6. Marked(NoDecl)
    BY <1>1 DEF Marked
  <2> QED BY <1>1, <2>3, <2>4, <2>5, <2>6, MarkedIs DEF DeclsKept
<1> QED BY <1>2, <1>3, AddSymIs

LEMMA PushScopeKept ==
  ASSUME ScopesInv, HeapOK, PushScope
  PROVE  DeclsKept /\ HeapOK'
<1>1. UNCHANGED <<used, decl, heap, decls>> /\ where # "popping" /\ where' # "popping"
  BY DEF PushScope, poolVars, declVars
<1>2. CASE UNCHANGED scopes
  BY <1>1, <1>2, QuietKept DEF Marked
<1>3. CASE scopes' = Append(scopes, Len(decls))
  <2> PICK n \in Nat : n = Len(decls) /\ Listed = 1..n
    BY <1>1, ListedIs
  <2>1. /\ Len(scopes') = Len(scopes) + 1 /\ scopes'[Len(scopes) + 1] = n
        /\ Len(scopes) \in Nat
        /\ \A i \in 1..Len(scopes) : scopes'[i] = scopes[i]
    BY <1>3 DEF ScopesInv
  <2>2. ASSUME NEW i \in Listed, NEW k, ScopeAt(i, k) PROVE ScopeAt(i, k)'
    <3>1. /\ k \in 0..(Len(scopes) - 1) /\ scopes[k + 1] < i
          /\ \A j \in (k + 1)..(Len(scopes) - 1) : i <= scopes[j + 1]
      BY <2>2 DEF ScopeAt, cur_scope
    <3>2. k \in 0..(Len(scopes') - 1) /\ scopes'[k + 1] < i
      BY <2>1, <3>1
    <3>3. ASSUME NEW j \in (k + 1)..(Len(scopes') - 1) PROVE i <= scopes'[j + 1]
      <4>1. CASE j = Len(scopes)
        BY <4>1, <2>1
      <4>2. CASE j # Len(scopes)
        <5>1. j \in (k + 1)..(Len(scopes) - 1) /\ j + 1 \in 1..Len(scopes)
          BY <4>2, <2>1, <3>1
        <5> QED BY <5>1, <2>1, <3>1
      <4> QED BY <4>1, <4>2
    <3> QED BY <3>2, <3>3 DEF ScopeAt, cur_scope
  <2>3. Listed' = Listed /\ Marked(NoDecl)
    BY <1>1 DEF Listed, Marked
  <2> QED BY <1>1, <2>2, <2>3, MarkedIs DEF DeclsKept
<1> QED BY <1>2, <1>3 DEF PushScope

LEMMA PopScopeKept ==
  ASSUME ScopesInv, HeapOK, PopScope
  PROVE  DeclsKept /\ HeapOK'
<1>1. /\ UNCHANGED <<used, decl, heap, decls, scopes>> /\ where # "popping"
      /\ popped' = scopes[Len(scopes)]
  BY DEF PopScope, poolVars, declVars
<1>2. Listed' = Listed
  <2>1. scopes[Len(scopes)] \in Nat
    BY DEF ScopesInv
  <2>2. \A i \in DOMAIN decls : i \in Nat
    BY ListedIs
  <2>3. \A i \in DOMAIN decls : i <= scopes[Len(scopes)] \/ scopes[Len(scopes)] < i
    BY <2>1, <2>2
  <2> QED BY <1>1, <2>3 DEF Listed
<1>3. (\A i, k : ScopeAt(i, k) => ScopeAt(i, k)') /\ Marked(NoDecl)
  BY <1>1 DEF ScopeAt, cur_scope, Marked
<1> QED BY <1>1, <1>2, <1>3, MarkedIs DEF DeclsKept

LEMMA PopDoneKept ==
  ASSUME ScopesInv, ScopesInv', HeapOK, PopDone
  PROVE  DeclsKept /\ HeapOK'
<1> PICK n : n = Len(scopes)
  OBVIOUS
<1>0. where = "popping" /\ popped = Len(decls) /\ UNCHANGED <<used, decl, heap>>
  BY DEF PopDone, poolVars
<1>1. /\ n \in Nat /\ n >= 2 /\ n \in DOMAIN scopes /\ Len(decls) \in Nat /\ DOMAIN decls = 1..Len(decls)
  BY <1>0, ListedIs DEF ScopesInv
<1>2. scopes[n] \in Nat /\ scopes[n] <= Len(decls)
  BY <1>1 DEF ScopesInv
<1>3. decls' = SubSeq(decls, 1, scopes[n]) /\ scopes' = SubSeq(scopes, 1, n - 1)
  BY DEF PopDone
<1>4. /\ DOMAIN decls' = 1..scopes[n] /\ \A i \in 1..scopes[n] : decls'[i] = decls[i]
  <2>1. PICK S : decls \in Seq(S)
    BY DEF ScopesInv, IsSequence
  <2> QED BY <2>1, <1>1, <1>2, <1>3
<1>5. Len(scopes') = n - 1 /\ \A i \in 1..(n - 1) : scopes'[i] = scopes[i]
  BY <1>1, <1>3 DEF ScopesInv
<1>6. Listed = 1..scopes[n]
  <2> PICK a \in Nat, b \in Nat : a = Len(decls) /\ b = scopes[n] /\ b <= a
    BY <1>1, <1>2
  <2>1. \A i \in 1..a : (i <= b \/ a < i) <=> i \in 1..b
    OBVIOUS
  <2>2. 1..scopes[n] \subseteq 1..Len(decls)
    BY <1>1, <1>2
  <2> QED BY <2>1, <2>2, <1>0, <1>1 DEF Listed
<1>7. Listed' = 1..scopes[n]
  <2>1. CASE where' = "popping"
    <3>1. n = 3 /\ popped' = scopes[2]
      BY <2>1, <1>1 DEF PopDone, cur_scope
    <3>2. scopes'[Len(scopes')] = popped' /\ popped' \in Nat
      BY <3>1, <1>5 DEF ScopesInv
    <3>3. \A i \in 1..scopes[n] : i <= popped' \/ popped' < i
      BY <3>2, <1>2
    <3> QED BY <2>1, <3>2, <3>3, <1>4 DEF Listed
  <2>2. CASE where' # "popping"
    BY <2>2, <1>4 DEF Listed
  <2> QED BY <2>1, <2>2
<1>8. ASSUME NEW i \in Listed, NEW k, ScopeAt(i, k) PROVE ScopeAt(i, k)'
  <2>1. /\ k \in 0..(n - 1) /\ scopes[k + 1] < i /\ i <= scopes[n]
        /\ \A j \in (k + 1)..(n - 1) : i <= scopes[j + 1]
    BY <1>6, <1>8 DEF ScopeAt, cur_scope
  <2>2. k # n - 1
    <3> SUFFICES ASSUME k = n - 1 PROVE FALSE
      OBVIOUS
    <3>1. k + 1 = n
      BY <1>1
    <3>2. i \in Nat /\ scopes[n] < i /\ i <= scopes[n]
      BY <1>6, <2>1, <3>1
    <3> QED BY <3>2, <1>2
  <2>3. k \in 0..((n - 1) - 1) /\ scopes'[k + 1] < i
    BY <1>1, <1>5, <2>1, <2>2
  <2>4. ASSUME NEW j \in (k + 1)..((n - 1) - 1) PROVE i <= scopes'[j + 1]
    <3>1. j \in (k + 1)..(n - 1) /\ j + 1 \in 1..(n - 1)
      BY <1>1, <2>3
    <3> QED BY <3>1, <1>5, <2>1
  <2> QED BY <2>3, <2>4, <1>5 DEF ScopeAt, cur_scope
<1>9. Marked(NoDecl)
  BY <1>0 DEF Marked
<1>10. \A i \in Listed : decls'[i] = decls[i]
  BY <1>4, <1>6
<1> QED BY <1>0, <1>6, <1>7, <1>8, <1>9, <1>10, MarkedIs DEF DeclsKept
-----------------------------------------------------------------------------
(***************************************************************************)
(* A declaration, a use, and pop_scope's loop.                             *)
(***************************************************************************)
LEMMA DuplicateKept ==
  ASSUME SymInv, HeapOK, TableSound, NEW c, CellsAre(c), NEW type, NEW init \in BOOLEAN,
         Declare(type, init), DeclaredHere(ident.sym), where # "popping"
  PROVE  /\ DeclsKept /\ HeapOK' /\ where' # "popping"
         /\ Marked(decl[ident.sym])
         /\ heap'[decl[ident.sym]].initialized = (heap[decl[ident.sym]].initialized \/ init)
<1> PICK s, x : s = ident.sym /\ x = decl[s]
  OBVIOUS
<1>1. /\ heap' = [heap EXCEPT ![x].initialized = @ \/ init]
      /\ UNCHANGED <<used, decl, decls, scopes, where>>
  BY DEF Declare, poolVars
<1>2. s \in DOMAIN decl /\ x # NoDecl
  BY IdentHasDecl DEF Declare, DeclaredHere
<1>3. x \in used
  BY <1>2, DeclInUse
<1>4. heap[x] \in DeclRecords
  BY <1>3 DEF HeapOK
<1>5. heap[x].initialized \in BOOLEAN
  BY <1>4 DEF DeclRecords
<1> PICK v : v = (heap[x].initialized \/ init)
  OBVIOUS
<1>6. v \in BOOLEAN
  BY ZenonT(30)
<1>7. heap' = [heap EXCEPT ![x].initialized = v]
  BY <1>1
<1>8. heap'[x].initialized = v
  <2>1. heap \in [used -> DeclRecords]
    BY DEF HeapOK
  <2> QED BY <2>1, <1>3, <1>4, <1>7 DEF DeclRecords
<1>9. Marked(x)
  BY <1>3, <1>6, <1>7 DEF Marked
<1> QED BY <1>1, <1>8, <1>9, QuietKept

LEMMA DeclareNew ==
  ASSUME PoolInv, ScopesInv, SymInv, HeapOK, TableSound, NEW c, CellsAre(c),
         NEW type \in Types, NEW init \in BOOLEAN,
         Declare(type, init), ~DeclaredHere(ident.sym), where # "popping"
  PROVE  \E m, x, d : /\ NewCell(c, ident.sym, m, x, d) /\ CellsAre(d)' /\ HeapOK'
                      /\ heap'[x].type = type /\ heap'[x].initialized = init
                      /\ UNCHANGED <<scopes, strtab>> /\ where' # "popping"
<1> PICK s, m : s = ident.sym /\ m = Len(decls) + 1
  OBVIOUS
<1>1. s \in DOMAIN decl
  BY IdentHasDecl DEF Declare
<1>2. PICK x \in {first_free} \X node_free[first_free] :
        /\ Palloc(x)
        /\ heap' = [y \in used' |-> IF y = x THEN NewDecl(s, type, init) ELSE heap[y]]
        /\ decl' = [decl EXCEPT ![s] = x]
  BY DEF Declare
<1>3. /\ UNCHANGED <<scopes, strtab>> /\ decls' = Append(decls, s)
      /\ (where' = where \/ where' = "undefined")
  BY DEF Declare, ListDecl
<1>4. x \notin used /\ used' = used \cup {x} /\ x \in Nat \X Nat
  <2>1. used' = used \cup {x}
    BY <1>2 DEF Palloc
  <2> PICK a, b : x = <<a, b>> /\ a = first_free /\ b \in node_free[a]
    OBVIOUS
  <2>2. a \in Nodes /\ a \in Nat /\ b \in Nat /\ <<a, b>> \notin used
    BY DEF PoolInv, PoolTypeOK, CellsPartitioned, Nodes
  <2> QED BY <2>1, <2>2
<1>5. /\ m \in Nat /\ Listed = 1..(m - 1) /\ DOMAIN decls' = 1..m /\ decls'[m] = s
      /\ \A i \in 1..(m - 1) : decls'[i] = decls[i]
  <2>1. PICK S : decls \in Seq(S)
    BY DEF ScopesInv, IsSequence
  <2>2. decls \in Seq(S \cup {s})
    BY <2>1
  <2> QED BY <2>2, <1>3, ListedIs
<1>6. Listed' = 1..m
  BY <1>3, <1>5 DEF Listed
<1>7. /\ Listed' = Listed \cup {m} /\ m \notin Listed /\ \A i \in Listed : i < m
  BY <1>5, <1>6
<1>8. /\ DOMAIN decl' = DOMAIN decl /\ decl'[s] = x
      /\ \A r \in DOMAIN decl : r # s => decl'[r] = decl[r]
  <2>1. PICK S : decl \in Seq(S)
    BY DEF SymInv, IsSequence
  <2>2. decl = [r \in DOMAIN decl |-> decl[r]]
    BY <2>1
  <2> QED BY <2>2, <1>1, <1>2
<1>9. /\ heap'[x] = NewDecl(s, type, init)
      /\ \A y \in used : heap'[y] = heap[y]
  BY <1>2, <1>4
<1>10. decl[s] \in Nat \X Nat
  BY <1>1, DeclInUse DEF PoolInv, PoolTypeOK, NoDecl
<1>11. NewDecl(s, type, init) \in DeclRecords
  <2>1. cur_scope \in Nat
    BY DEF ScopesInv, cur_scope
  <2> QED BY <2>1, <1>10 DEF NewDecl, DeclRecords
<1>12. HeapOK'
  <2>1. heap' \in [used' -> DeclRecords]
    BY <1>2, <1>4, <1>11 DEF HeapOK
  <2>2. DeclRecords' = DeclRecords
    BY DEF DeclRecords, Types
  <2> QED BY <2>1, <2>2 DEF HeapOK
<1> PICK d : d = [i \in Listed \cup {m} |-> IF i = m THEN x ELSE c[i]]
  OBVIOUS
<1>13. NewCell(c, s, m, x, d)
  BY <1>3, <1>4, <1>5, <1>7, <1>8, <1>9 DEF NewCell, NewDecl
<1>14. CellsAre(d)'
  BY <1>1, <1>3, <1>13, NewCellKeeps DEF PoolInv
<1>15. heap'[x].type = type /\ heap'[x].initialized = init
  BY <1>9 DEF NewDecl
<1> QED BY <1>3, <1>12, <1>13, <1>14, <1>15

LEMMA UseKept ==
  ASSUME HeapOK, Use \/ CheckProgram
  PROVE  DeclsKept /\ HeapOK'
<1>1. UNCHANGED <<used, decl, heap, decls, scopes>> /\ where # "popping" /\ where' # "popping"
  BY DEF Use, CheckProgram, poolVars, declVars
<1> QED BY <1>1, QuietKept DEF Marked

LEMMA AssignKept ==
  ASSUME SymInv, HeapOK, TableSound, NEW c, CellsAre(c), Assign
  PROVE  DeclsKept /\ HeapOK' /\ Marked(decl[ident.sym])
<1>1. UNCHANGED <<used, decl, decls, scopes>> /\ where # "popping" /\ where' # "popping"
  BY DEF Assign, poolVars
<1>2. Marked(decl[ident.sym])
  <2>1. CASE decl[ident.sym] = NoDecl
    BY <2>1 DEF Assign, Marked
  <2>2. CASE decl[ident.sym] # NoDecl
    <3>1. decl[ident.sym] \in used
      BY <2>2, IdentHasDecl, DeclInUse DEF Assign
    <3> QED BY <2>2, <3>1 DEF Assign, Marked
  <2> QED BY <2>1, <2>2
<1> QED BY <1>1, <1>2, QuietKept

LEMMA PopDeclGone ==
  ASSUME PoolTypeOK, ScopesInv, SymInv, HeapOK, NEW c, CellsAre(c), PopDecl
  PROVE  /\ UNCHANGED <<scopes, strtab>> /\ where = "popping" /\ where' = where
         /\ HeapOK' /\ popped + 1 \in Listed
         /\ \E d : CellGone(c, popped + 1, d) /\ CellsAre(d)'
<1> PICK m, s, x : m = popped + 1 /\ s = decls[m] /\ x = decl[s]
  OBVIOUS
<1>1. /\ where = "popping" /\ where' = "popping" /\ popped < Len(decls) /\ popped' = m
      /\ UNCHANGED <<scopes, strtab, decls>>
      /\ decl' = [decl EXCEPT ![s] = heap[x].prev]
      /\ Pfree(x) /\ heap' = [y \in used' |-> heap[y]]
  BY DEF PopDecl
<1>2. m \in Listed /\ x = c[m] /\ \A k \in Listed : m < k => decls[k] # s
  BY <1>1, FirstUndone
<1>3. used' = used \ {x} /\ \A y \in used' : heap'[y] = heap[y]
  BY <1>1 DEF Pfree
<1>4. Listed' = Listed \ {m}
  <2>1. /\ popped \in Nat /\ scopes[Len(scopes)] \in Nat /\ scopes[Len(scopes)] <= popped
        /\ \A i \in DOMAIN decls : i \in Nat
    BY <1>1, ListedIs DEF ScopesInv
  <2>2. ASSUME NEW i \in DOMAIN decls
        PROVE  i <= scopes[Len(scopes)] \/ m < i <=> (i <= scopes[Len(scopes)] \/ popped < i) /\ i # m
    BY <2>1
  <2> QED BY <2>2, <1>1 DEF Listed
<1>5. HeapOK'
  <2>1. heap' \in [used' -> DeclRecords]
    BY <1>1, <1>3 DEF HeapOK
  <2>2. DeclRecords' = DeclRecords
    BY DEF DeclRecords, Types
  <2> QED BY <2>1, <2>2 DEF HeapOK
<1> PICK d : d = [i \in Listed \ {m} |-> c[i]]
  OBVIOUS
<1>6. CellGone(c, m, d)
  BY <1>1, <1>2, <1>3, <1>4 DEF CellGone
<1>7. CellsAre(d)'
  BY <1>2, <1>6, CellGoneKeeps DEF SymInv
<1> QED BY <1>1, <1>2, <1>5, <1>6, <1>7

LEMMA DeclsStep ==
  ASSUME PoolInv, ScopesInv, ScopesInv', SymInv, TableSound, DeclsInv, [Next]_vars
  PROVE  DeclsInv'
<1> PICK c : CellsAre(c)
  BY DEF DeclsInv
<1>0. HeapOK
  BY DEF DeclsInv
<1>1. CASE DeclsKept /\ HeapOK'
  BY <1>1, SameCells DEF DeclsInv
<1>2. ASSUME NEW type \in Types, NEW init \in BOOLEAN, Declare(type, init), where # "popping"
      PROVE  DeclsInv'
  <2>1. CASE DeclaredHere(ident.sym)
    BY <2>1, <1>0, <1>1, <1>2, DuplicateKept
  <2>2. CASE ~DeclaredHere(ident.sym)
    BY <2>2, <1>0, <1>2, DeclareNew DEF DeclsInv
  <2> QED BY <2>1, <2>2
<1>3. CASE DeclareFunc \/ DeclareArg \/ DeclareVar
  BY <1>2, <1>3 DEF DeclareFunc, DeclareArg, DeclareVar, Types
<1>4. CASE PopDecl
  BY <1>0, <1>4, PopDeclGone DEF DeclsInv, PoolInv
<1>5. CASE \E n \in Strings : AddSym(n)
  BY <1>0, <1>1, <1>5, AddSymKept
<1>6. CASE CheckProgram \/ Use \/ Assign
  BY <1>0, <1>1, <1>6, UseKept, AssignKept
<1>7. CASE PushScope \/ PopScope \/ PopDone
  BY <1>0, <1>1, <1>7, PushScopeKept, PopScopeKept, PopDoneKept
<1>8. CASE UNCHANGED vars
  BY <1>0, <1>1, <1>8, StutterKept
<1> QED BY <1>3, <1>4, <1>5, <1>6, <1>7, <1>8 DEF Next

LEMMA InitDecls == Init => DeclsInv
<1> SUFFICES ASSUME Init PROVE DeclsInv
  OBVIOUS
<1>1. /\ DOMAIN decls = {} /\ DOMAIN decl = {} /\ used = {} /\ heap = [x \in used |-> 0]
  BY DEF Init, PoolInit
<1>2. Listed = {}
  BY <1>1 DEF Listed
<1> PICK c : c = [i \in Listed |-> 0]
  OBVIOUS
<1>3. CellMap(c)
  <2>1. c \in [Listed -> used]
    BY <1>2
  <2> QED BY <2>1, <1>1, <1>2 DEF CellMap
<1>4. CellsAre(c)
  BY <1>1, <1>2, <1>3 DEF CellsAre, CellScopes, OnePerScope, Chains, Heads
<1>5. heap \in [used -> DeclRecords]
  BY <1>1
<1> QED BY <1>4, <1>5 DEF DeclsInv, HeapOK

TablesInv == PoolInv /\ ScopesInv /\ SymInv /\ DeclsInv

LEMMA TablesInvariant == TableSound => (Spec => []TablesInv)
<1> SUFFICES ASSUME TableSound PROVE Spec => []TablesInv
  OBVIOUS
<1>1. PoolInv /\ ScopesInv /\ ScopesInv' /\ SymInv /\ DeclsInv /\ [Next]_vars => DeclsInv'
  BY DeclsStep
<1> QED BY <1>1, InitDecls, JointInvariant, SymInvariant, PTL DEF Spec, TablesInv
-----------------------------------------------------------------------------
(***************************************************************************)
(* The list and the chains agree.                                          *)
(***************************************************************************)
LEMMA InScopeOfListed ==
  ASSUME PoolTypeOK, ScopesInv, HeapOK, NEW c, CellsAre(c), NEW i \in Listed
  PROVE  /\ decls[i] \in DOMAIN decl /\ ScopeAt(i, heap[c[i]].scope)
         /\ InScope(decls[i], heap[c[i]].scope) = c[i] /\ c[i] \in used /\ c[i] # NoDecl
<1>1. decls[i] \in DOMAIN decl /\ ScopeAt(i, heap[c[i]].scope) /\ c[i] \in used
  BY DEF CellsAre, CellScopes, CellMap
<1>2. FoundIn(c, decls[i], heap[c[i]].scope, InScope(decls[i], heap[c[i]].scope))
  BY <1>1, InScopeIs
<1>3. PICK j \in Listed : decls[j] = decls[i] /\ heap[c[j]].scope = heap[c[i]].scope
                          /\ InScope(decls[i], heap[c[i]].scope) = c[j]
  BY <1>2 DEF FoundIn
<1>4. j = i
  BY <1>3 DEF CellsAre, OnePerScope
<1> QED BY <1>1, <1>3, <1>4, NoDeclFree

(* pop_scope trusts decls to list what the chains of the symbols hold:     *)
(* outside pop_scope, exactly the declarations in force, each of them in   *)
(* one scope, once, with a cell of its own.                                *)
THEOREM ListAndChainsAgree == TableSound => (Spec => []DeclsListed)
<1> SUFFICES ASSUME TableSound PROVE Spec => []DeclsListed
  OBVIOUS
<1>1. TablesInv => DeclsListed
  <2> DEFINE ScopeOf(i) == CHOOSE k \in 0..cur_scope :
                             scopes[k + 1] < i /\ \A j \in (k + 1)..cur_scope : scopes[j + 1] >= i
             InForceSet == {sk \in (DOMAIN decl) \X (0..cur_scope) : InScope(sk[1], sk[2]) # NoDecl}
  <2> SUFFICES ASSUME TablesInv, where # "popping"
               PROVE  /\ InForceSet = {<<decls[i], ScopeOf(i)>> : i \in DOMAIN decls}
                      /\ Cardinality(InForceSet) = Len(decls)
                      /\ used = {InScope(sk[1], sk[2]) : sk \in InForceSet}
    BY DEF DeclsListed
  <2>1. PoolTypeOK /\ ScopesInv /\ SymInv /\ HeapOK /\ \E c : CellsAre(c)
    BY DEF TablesInv, PoolInv, DeclsInv
  <2>2. PICK c : CellsAre(c)
    BY <2>1
  <2> PICK n \in Nat : n = Len(decls) /\ Listed = 1..n /\ DOMAIN decls = 1..n
    BY <2>1, ListedIs
  <2> DEFINE b == [i \in 1..n |-> <<decls[i], heap[c[i]].scope>>]
  <2>3. ASSUME NEW i \in 1..n
        PROVE  /\ decls[i] \in DOMAIN decl /\ heap[c[i]].scope \in 0..cur_scope
               /\ ScopeAt(i, heap[c[i]].scope)
               /\ InScope(decls[i], heap[c[i]].scope) = c[i] /\ c[i] # NoDecl
    BY <2>1, <2>2, InScopeOfListed DEF ScopeAt
  <2>4. ASSUME NEW s \in DOMAIN decl, NEW k, InScope(s, k) # NoDecl
        PROVE  \E i \in 1..n : s = decls[i] /\ k = heap[c[i]].scope
    <3>1. FoundIn(c, s, k, InScope(s, k))
      BY <2>1, <2>2, InScopeIs
    <3> QED BY <3>1, <2>4 DEF FoundIn
  <2>5. ASSUME NEW i \in 1..n PROVE ScopeOf(i) = heap[c[i]].scope
    <3> DEFINE k == heap[c[i]].scope
               Begins(k1) == scopes[k1 + 1] < i /\ \A j \in (k1 + 1)..cur_scope : scopes[j + 1] >= i
    <3>0. i \in Nat /\ \A j \in 1..Len(scopes) : scopes[j] \in Nat
      BY <2>1 DEF ScopesInv
    <3>1. \A k1 \in 0..cur_scope : Begins(k1) <=> ScopeAt(i, k1)
      <4> SUFFICES ASSUME NEW k1 \in 0..cur_scope
                   PROVE  \A j \in (k1 + 1)..cur_scope : scopes[j + 1] >= i <=> i <= scopes[j + 1]
        BY DEF ScopeAt
      <4>1. cur_scope \in Nat /\ cur_scope + 1 = Len(scopes)
        BY <2>1 DEF ScopesInv, cur_scope
      <4>2. \A j \in (k1 + 1)..cur_scope : scopes[j + 1] \in Nat
        <5> TAKE j \in (k1 + 1)..cur_scope
        <5>1. j + 1 \in 1..Len(scopes)
          BY <4>1
        <5> QED BY <5>1, <3>0
      <4> QED BY <3>0, <4>2
    <3>2. k \in 0..cur_scope /\ Begins(k)
      BY <2>3, <3>1
    <3>3. ScopeOf(i) \in 0..cur_scope /\ Begins(ScopeOf(i))
      <4> HIDE DEF k
      <4> QED BY <3>2
    <3> HIDE DEF ScopeOf, Begins
    <3> QED BY <2>1, <2>3, <3>0, <3>1, <3>3, ScopeAtOne
  <2>6. ASSUME NEW s \in DOMAIN decl, NEW k \in 0..cur_scope
        PROVE  <<s, k>> \in InForceSet <=> InScope(s, k) # NoDecl
    OBVIOUS
  <2>7. ASSUME NEW sk \in InForceSet
        PROVE  \E i \in 1..n : sk = b[i] /\ InScope(sk[1], sk[2]) = c[i]
    <3> PICK s \in DOMAIN decl, k \in 0..cur_scope : sk = <<s, k>>
      OBVIOUS
    <3>1. PICK i \in 1..n : s = decls[i] /\ k = heap[c[i]].scope
      BY <2>4
    <3> QED BY <3>1, <2>3
  <2>8. ASSUME NEW i \in 1..n PROVE b[i] \in InForceSet /\ InScope(b[i][1], b[i][2]) = c[i]
    BY <2>3
  <2> HIDE DEF ScopeOf, InForceSet
  <2>9. InForceSet = {<<decls[i], ScopeOf(i)>> : i \in DOMAIN decls}
    <3>1. \A i \in 1..n : b[i] = <<decls[i], ScopeOf(i)>>
      BY <2>5
    <3> HIDE DEF b
    <3>2. InForceSet = {b[i] : i \in 1..n}
      BY <2>7, <2>8
    <3>3. {b[i] : i \in 1..n} = {<<decls[i], ScopeOf(i)>> : i \in 1..n}
      BY <3>1
    <3> QED BY <3>2, <3>3
  <2>10. b \in [1..n -> InForceSet] /\ \A i, j \in 1..n : b[i] = b[j] => i = j
    <3>1. \A i \in 1..n : b[i] \in InForceSet
      BY <2>8
    <3>2. ASSUME NEW i \in 1..n, NEW j \in 1..n, b[i] = b[j] PROVE i = j
      BY <2>2, <3>2 DEF CellsAre, OnePerScope
    <3> QED BY <3>1, <3>2
  <2>11. Cardinality(InForceSet) = n
    <3> HIDE DEF b
    <3>1. b \in Injection(1..n, InForceSet)
      BY <2>10 DEF Injection, IsInjective
    <3>2. b \in Surjection(1..n, InForceSet)
      BY <2>7, <2>10 DEF Surjection
    <3>3. ExistsBijection(1..n, InForceSet)
      BY <3>1, <3>2 DEF ExistsBijection, Bijection
    <3> QED BY <3>3, FS_CountingElements
  <2>12. used = {InScope(sk[1], sk[2]) : sk \in InForceSet}
    <3>1. (\A i \in 1..n : c[i] \in used) /\ \A x \in used : \E i \in 1..n : c[i] = x
      BY <2>2 DEF CellsAre, CellMap
    <3> HIDE DEF b
    <3> QED BY <3>1, <2>7, <2>8
  <2> QED BY <2>9, <2>11, <2>12
<1> QED BY <1>1, TablesInvariant, PTL
-----------------------------------------------------------------------------
(***************************************************************************)
(* What a name means in a scope.                                           *)
(***************************************************************************)
BindingOf(r) == [type |-> r.type, initialized |-> r.initialized]

Means(c, n, k, b) ==
  \/ /\ b = NoBinding
     /\ \A i \in Listed : decls[i] = SymbolOf(strtab, n) => heap[c[i]].scope # k
  \/ \E i \in Listed : /\ decls[i] = SymbolOf(strtab, n) /\ heap[c[i]].scope = k
                       /\ b = BindingOf(heap[c[i]])

BindingsSound ==
  \A c, n, k, b : CellsAre(c) /\ n \in Strings => (b = Binding(n, k) <=> Means(c, n, k, b))

LEMMA MeansOne ==
  ASSUME HeapOK, NEW c, CellsAre(c), NEW n, NEW k, NEW a, NEW b, Means(c, n, k, a), Means(c, n, k, b)
  PROVE  a = b
<1>1. CASE \A i \in Listed : decls[i] = SymbolOf(strtab, n) => heap[c[i]].scope # k
  BY <1>1 DEF Means
<1>2. CASE \E i \in Listed : decls[i] = SymbolOf(strtab, n) /\ heap[c[i]].scope = k
  <2>1. PICK i \in Listed : decls[i] = SymbolOf(strtab, n) /\ heap[c[i]].scope = k
    BY <1>2
  <2>2. \A j \in Listed : decls[j] = SymbolOf(strtab, n) /\ heap[c[j]].scope = k => j = i
    BY <2>1 DEF CellsAre, OnePerScope
  <2>3. a = BindingOf(heap[c[i]]) /\ b = BindingOf(heap[c[i]])
    BY <2>1, <2>2 DEF Means
  <2> QED BY <2>3
<1> QED BY <1>1, <1>2

LEMMA BindingsAre == TableSound /\ TablesInv => BindingsSound
<1> SUFFICES ASSUME TableSound, TablesInv, NEW c, NEW n \in Strings, NEW k, NEW b, CellsAre(c)
             PROVE  b = Binding(n, k) <=> Means(c, n, k, b)
  BY DEF BindingsSound
<1>0. PoolTypeOK /\ ScopesInv /\ HeapOK /\ SymInv
  BY DEF TablesInv, PoolInv, DeclsInv
<1> PICK s : s = SymbolOf(strtab, n)
  OBVIOUS
<1>1. Means(c, n, k, Binding(n, k))
  <2>1. s \in 0..strtab.syms /\ DOMAIN decl = 1..strtab.syms /\ strtab.syms \in Nat
    BY <1>0, SymbolsDiffer DEF SymInv, IsSequence, TableOK, TableShape
  <2>2. CASE s = 0
    <3>1. \A i \in Listed : decls[i] # s
      BY <2>1, <2>2 DEF CellsAre, CellScopes
    <3> QED BY <2>2, <3>1 DEF Means, Binding
  <2>3. CASE s # 0
    <3>1. s \in DOMAIN decl
      BY <2>1, <2>3
    <3> PICK x : x = InScope(s, k)
      OBVIOUS
    <3>2. FoundIn(c, s, k, x)
      BY <1>0, <3>1, InScopeIs
    <3>3. Binding(n, k) = IF x = NoDecl THEN NoBinding ELSE BindingOf(heap[x])
      BY <2>3 DEF Binding, BindingOf
    <3>4. \A i \in Listed : c[i] # NoDecl
      BY <1>0, NoDeclFree DEF CellsAre, CellMap
    <3> QED BY <3>2, <3>3, <3>4 DEF FoundIn, Means
  <2> QED BY <2>2, <2>3
<1> QED BY <1>0, <1>1, MeansOne

(* A name has a binding in a scope exactly if it is declared there. *)
LEMMA BoundIs ==
  ASSUME HeapOK, NEW c, CellsAre(c), NEW i \in Listed
  PROVE  BindingOf(heap[c[i]]) \in [type : Types, initialized : BOOLEAN]
         /\ BindingOf(heap[c[i]]) # NoBinding
<1>1. heap[c[i]] \in DeclRecords
  BY DEF HeapOK, CellsAre, CellMap
<1>2. heap[c[i]].type \in Types /\ heap[c[i]].initialized \in BOOLEAN
  BY <1>1 DEF DeclRecords
<1>3. NoBinding.type \notin Types
  BY ScopesAssumption DEF NoBinding, Types
<1>4. BindingOf(heap[c[i]]).type = heap[c[i]].type
  BY DEF BindingOf
<1> QED BY <1>2, <1>3, <1>4 DEF BindingOf

Sound == TableSound /\ TablesInv /\ BindingsSound

LEMMA SoundHas ==
  ASSUME Sound
  PROVE  /\ TableSound /\ PoolInv /\ PoolTypeOK /\ ScopesInv /\ HeapOK /\ SymInv
         /\ \E c : CellsAre(c)
  BY DEF Sound, TablesInv, PoolInv, DeclsInv

LEMMA SoundInvariant == TableSound => (Spec => []Sound)
<1> SUFFICES ASSUME TableSound PROVE Spec => []Sound
  OBVIOUS
<1>1. TablesInv => Sound
  BY BindingsAre DEF Sound
<1> QED BY <1>1, TablesInvariant, PTL

LEMMA BindingIs ==
  ASSUME Sound, NEW c, CellsAre(c), NEW n \in Strings, NEW k, NEW b
  PROVE  b = Binding(n, k) <=> Means(c, n, k, b)
  BY DEF Sound, BindingsSound

(* The head of a symbol's chain is its declaration in the innermost scope  *)
(* that has one. *)
LEMMA HeadMeans ==
  ASSUME Sound, NEW n \in Strings, NEW s, s = SymbolOf(strtab, n), s \in DOMAIN decl
  PROVE  /\ decl[s] = NoDecl => \A k : Binding(n, k) = NoBinding
         /\ decl[s] # NoDecl =>
              /\ decl[s] \in used /\ heap[decl[s]].scope \in 0..cur_scope
              /\ Binding(n, heap[decl[s]].scope) = BindingOf(heap[decl[s]])
              /\ BindingOf(heap[decl[s]]) # NoBinding
              /\ BindingOf(heap[decl[s]]) \in [type : Types, initialized : BOOLEAN]
              /\ \A l : Binding(n, l) # NoBinding => l \in 0..cur_scope /\ l <= heap[decl[s]].scope
<1> PICK c : CellsAre(c)
  BY SoundHas
<1>1. CASE decl[s] = NoDecl
  <2>1. \A i \in Listed : decls[i] # s
    <3>1. \A i \in Listed : c[i] # NoDecl
      BY SoundHas, NoDeclFree DEF CellsAre, CellMap
    <3> QED BY <1>1, <3>1 DEF CellsAre, Heads, Last
  <2>2. \A k : Means(c, n, k, NoBinding)
    BY <2>1 DEF Means
  <2> QED BY <1>1, <2>2, BindingIs
<1>2. CASE decl[s] # NoDecl
  <2>1. PICK j \in Listed : decls[j] = s /\ decl[s] = c[j] /\ \A i \in Listed : j < i => decls[i] # s
    BY <1>2 DEF CellsAre, Heads, Last
  <2> PICK k : k = heap[c[j]].scope
    OBVIOUS
  <2>2. k \in 0..cur_scope /\ ScopeAt(j, k) /\ c[j] \in used
    BY DEF CellsAre, CellScopes, ScopeAt, CellMap
  <2>3. Binding(n, k) = BindingOf(heap[c[j]])
    <3>1. Means(c, n, k, BindingOf(heap[c[j]]))
      BY <2>1 DEF Means
    <3> QED BY <3>1, BindingIs
  <2>4. ASSUME NEW l, Binding(n, l) # NoBinding PROVE l \in 0..cur_scope /\ l <= k
    <3>1. Means(c, n, l, Binding(n, l))
      BY BindingIs
    <3>2. PICK i \in Listed : decls[i] = s /\ heap[c[i]].scope = l
      BY <2>4, <3>1 DEF Means
    <3>3. ScopeAt(i, l) /\ l \in 0..cur_scope
      BY <3>2 DEF CellsAre, CellScopes, ScopeAt
    <3>4. i \in Nat /\ j \in Nat
      BY SoundHas, ListedIs
    <3>5. i <= j
      BY <2>1, <3>2, <3>4
    <3> QED BY <2>2, <3>3, <3>4, <3>5, SoundHas, ScopeAtOrdered
  <2>5. /\ BindingOf(heap[c[j]]) # NoBinding
        /\ BindingOf(heap[c[j]]) \in [type : Types, initialized : BOOLEAN]
    BY SoundHas, BoundIs
  <2> QED BY <1>2, <2>1, <2>2, <2>3, <2>4, <2>5
<1> QED BY <1>1, <1>2

LEMMA BindingKept ==
  ASSUME Sound, Sound', NEW c, CellsAre(c), DeclsKept, NEW n \in Strings, NEW k,
         \/ SymbolOf(strtab', n) = SymbolOf(strtab, n)
         \/ \A i \in Listed : decls[i] # SymbolOf(strtab, n) /\ decls[i] # SymbolOf(strtab', n),
         \A i \in Listed : decls[i] = SymbolOf(strtab, n) /\ heap[c[i]].scope = k
                              => BindingOf(heap'[c[i]]) = BindingOf(heap[c[i]])
  PROVE  Binding(n, k)' = Binding(n, k)
<1> PICK b : b = Binding(n, k)
  OBVIOUS
<1>1. Means(c, n, k, b)
  BY BindingIs
<1>2. CellsAre(c)'
  BY SameCells
<1>3. /\ Listed' = Listed
      /\ \A i \in Listed : decls'[i] = decls[i] /\ heap'[c[i]].scope = heap[c[i]].scope
  BY DEF DeclsKept, CellsAre, CellMap
<1>4. NoBinding' = NoBinding
  BY DEF NoBinding
<1>5. Means(c, n, k, b)'
  BY <1>1, <1>3, <1>4 DEF Means, BindingOf
<1> QED BY <1>2, <1>5 DEF Sound, BindingsSound

LEMMA BindingGone ==
  ASSUME Sound, Sound', UNCHANGED strtab, NEW c, CellsAre(c), NEW m, NEW d, CellGone(c, m, d), CellsAre(d)',
         NEW n \in Strings, NEW k, k # heap[c[m]].scope
  PROVE  Binding(n, k)' = Binding(n, k)
<1> PICK b : b = Binding(n, k)
  OBVIOUS
<1>1. Means(c, n, k, b)
  BY BindingIs
<1>2. /\ \A i \in Listed' : /\ i \in Listed /\ heap'[d[i]] = heap[c[i]] /\ d[i] = c[i]
                            /\ decls'[i] = decls[i]
      /\ \A i \in Listed : i # m => i \in Listed'
  <2>1. \A i, j \in Listed : c[i] = c[j] => i = j
    BY DEF CellsAre, CellMap
  <2>2. \A i \in Listed : c[i] \in used
    BY DEF CellsAre, CellMap
  <2> QED BY <2>1, <2>2 DEF CellGone
<1>3. NoBinding' = NoBinding
  BY DEF NoBinding
<1>4. Means(d, n, k, b)'
  <2>1. CASE b = NoBinding /\ \A i \in Listed : decls[i] = SymbolOf(strtab, n) => heap[c[i]].scope # k
    BY <2>1, <1>2, <1>3 DEF Means
  <2>2. CASE \E i \in Listed : /\ decls[i] = SymbolOf(strtab, n) /\ heap[c[i]].scope = k
                               /\ b = BindingOf(heap[c[i]])
    <3>1. PICK i \in Listed : /\ decls[i] = SymbolOf(strtab, n) /\ heap[c[i]].scope = k
                              /\ b = BindingOf(heap[c[i]])
      BY <2>2
    <3>2. i \in Listed'
      BY <3>1, <1>2
    <3>3. decls'[i] = decls[i] /\ heap'[d[i]] = heap[c[i]]
      BY <3>2, <1>2
    <3> QED BY <3>1, <3>2, <3>3 DEF Means, BindingOf
  <2> QED BY <1>1, <2>1, <2>2 DEF Means
<1> QED BY <1>4 DEF Sound, BindingsSound

LEMMA BindingNew ==
  ASSUME Sound, Sound', UNCHANGED strtab, NEW c, CellsAre(c), NEW s, NEW m, NEW x, NEW d,
         NewCell(c, s, m, x, d), CellsAre(d)', NEW a \in Strings, s = SymbolOf(strtab, a),
         s \in DOMAIN decl, ~DeclaredHere(s), NEW l, l = cur_scope
  PROVE  /\ Binding(a, l) = NoBinding /\ Binding(a, l)' = BindingOf(heap'[x])
         /\ \A n \in Strings : \A k : n # a \/ k # l => Binding(n, k)' = Binding(n, k)
<1>1. /\ Listed' = Listed \cup {m} /\ m \notin Listed /\ decls'[m] = s /\ d[m] = x /\ heap'[x].scope = l
      /\ \A i \in Listed : decls'[i] = decls[i] /\ d[i] = c[i] /\ heap'[d[i]] = heap[c[i]]
  <2>1. \A i \in Listed : c[i] \in used
    BY DEF CellsAre, CellMap
  <2> QED BY <2>1 DEF NewCell
<1>2. NoBinding' = NoBinding
  BY DEF NoBinding
<1>3. Binding(a, l) = NoBinding
  <2>1. \A i \in Listed : decls[i] = s => heap[c[i]].scope # l
    BY SoundHas, NotDeclared
  <2>2. Means(c, a, l, NoBinding)
    BY <2>1 DEF Means
  <2> QED BY <2>2, BindingIs
<1>4. Binding(a, l)' = BindingOf(heap'[x])
  <2> PICK b : b = BindingOf(heap'[x])
    OBVIOUS
  <2>1. Means(d, a, l, b)'
    BY <1>1 DEF Means, BindingOf
  <2> QED BY <2>1 DEF Sound, BindingsSound
<1>5. ASSUME NEW n \in Strings, NEW k, n # a \/ k # l PROVE Binding(n, k)' = Binding(n, k)
  <2> PICK b : b = Binding(n, k)
    OBVIOUS
  <2>1. Means(c, n, k, b)
    BY BindingIs
  <2>2. s = SymbolOf(strtab, n) => n = a
    <3>1. s # 0
      BY SoundHas DEF SymInv, IsSequence
    <3>2. TableOK(strtab) /\ TableSound
      BY SoundHas DEF SymInv
    <3> QED BY <3>1, <3>2, SymbolsDiffer
  <2>3. Means(d, n, k, b)'
    <3>1. CASE b = NoBinding /\ \A i \in Listed : decls[i] = SymbolOf(strtab, n) => heap[c[i]].scope # k
      BY <3>1, <1>1, <1>2, <1>5, <2>2 DEF Means
    <3>2. CASE \E i \in Listed : /\ decls[i] = SymbolOf(strtab, n) /\ heap[c[i]].scope = k
                                 /\ b = BindingOf(heap[c[i]])
      <4>1. PICK i \in Listed : /\ decls[i] = SymbolOf(strtab, n) /\ heap[c[i]].scope = k
                                /\ b = BindingOf(heap[c[i]])
        BY <3>2
      <4>2. i \in Listed' /\ decls'[i] = decls[i] /\ heap'[d[i]] = heap[c[i]]
        BY <4>1, <1>1
      <4> QED BY <4>1, <4>2 DEF Means, BindingOf
    <3> QED BY <2>1, <3>1, <3>2 DEF Means
  <2> QED BY <2>3 DEF Sound, BindingsSound
<1> QED BY <1>3, <1>4, <1>5
-----------------------------------------------------------------------------
(***************************************************************************)
(* Stacks of scopes: m layers, each with a binding for every name.         *)
(***************************************************************************)
Layers(e, m) == e = [k \in 1..m |-> [n \in Strings |-> e[k][n]]]

LEMMA LayersSequence ==
  ASSUME NEW m \in Nat, NEW e, Layers(e, m)
  PROVE  e \in Seq({e[k] : k \in 1..m}) /\ Len(e) = m /\ DOMAIN e = 1..m
<1> DEFINE X == {e[k] : k \in 1..m}
<1>1. DOMAIN e = 1..m /\ e = [k \in 1..m |-> e[k]]
  <2> PICK g : g = [k \in 1..m |-> [n \in Strings |-> e[k][n]]]
    OBVIOUS
  <2>1. DOMAIN g = 1..m /\ g = [k \in 1..m |-> g[k]]
    OBVIOUS
  <2> QED BY <2>1 DEF Layers
<1>2. e \in [1..m -> X]
  BY <1>1
<1> HIDE DEF X
<1>3. e \in Seq(X) /\ Len(e) = m
  BY <1>2
<1> QED BY <1>1, <1>3 DEF X

LEMMA SameLayers ==
  ASSUME NEW m, NEW e, NEW f, Layers(e, m), Layers(f, m),
         \A k \in 1..m : \A n \in Strings : f[k][n] = e[k][n]
  PROVE  f = e
<1>1. [k \in 1..m |-> [n \in Strings |-> f[k][n]]] = [k \in 1..m |-> [n \in Strings |-> e[k][n]]]
  OBVIOUS
<1> QED BY <1>1 DEF Layers

Shortened(e, f) == f = SubSeq(e, 1, Len(e) - 1)
Extended(e, f, b) == f = Append(e, [n \in Strings |-> b])

LEMMA LayerGone ==
  ASSUME NEW m \in Nat, NEW l, l = m + 1, NEW e, NEW f, Layers(e, l), Layers(f, m),
         \A k \in 1..m : \A n \in Strings : f[k][n] = e[k][n]
  PROVE  Shortened(e, f)
<1>0. Layers(e, m + 1) /\ m + 1 \in Nat
  OBVIOUS
<1>1. /\ e \in Seq({e[k] : k \in 1..(m + 1)}) /\ Len(e) = m + 1
  BY <1>0, LayersSequence
<1> PICK g : g = SubSeq(e, 1, Len(e) - 1)
  OBVIOUS
<1>2. (m + 1) - 1 = m
  OBVIOUS
<1>3. g = [k \in 1..m |-> e[k]]
  <2> DEFINE X == {e[k] : k \in 1..(m + 1)}
  <2>1. e \in Seq(X)
    BY <1>1
  <2> HIDE DEF X
  <2>2. g = SubSeq(e, 1, m)
    BY <1>1, <1>2
  <2>3. g \in Seq(X) /\ Len(g) = m /\ \A k \in 1..m : g[k] = e[k]
    BY <1>1, <2>1, <2>2
  <2>4. g = [k \in 1..m |-> g[k]]
    BY <2>3
  <2> QED BY <2>3, <2>4
<1>4. ASSUME NEW k \in 1..m PROVE e[k] = [n \in Strings |-> e[k][n]]
  <2>1. k \in 1..(m + 1)
    OBVIOUS
  <2> PICK h : h = [j \in 1..(m + 1) |-> [n \in Strings |-> e[j][n]]]
    OBVIOUS
  <2>2. h[k] = [n \in Strings |-> e[k][n]]
    BY <2>1
  <2> QED BY <1>0, <2>2 DEF Layers
<1>5. Layers(g, m)
  BY <1>3, <1>4 DEF Layers
<1>6. \A k \in 1..m : \A n \in Strings : f[k][n] = g[k][n]
  BY <1>3
<1> QED BY <1>5, <1>6, SameLayers DEF Shortened

LEMMA LayerNew ==
  ASSUME NEW m \in Nat, NEW l, l = m + 1, NEW e, NEW f, Layers(e, m), Layers(f, l), NEW b,
         \A k \in 1..m : \A n \in Strings : f[k][n] = e[k][n],
         \A n \in Strings : f[l][n] = b
  PROVE  Extended(e, f, b)
<1>0. Layers(f, m + 1) /\ \A n \in Strings : f[m + 1][n] = b
  OBVIOUS
<1> PICK u, g : u = [n \in Strings |-> b] /\ g = Append(e, u)
  OBVIOUS
<1> DEFINE X == {e[k] : k \in 1..m}
<1>1. e \in Seq(X) /\ Len(e) = m /\ DOMAIN e = 1..m
  BY LayersSequence
<1> HIDE DEF X
<1>2. g = [k \in 1..(m + 1) |-> IF k = m + 1 THEN u ELSE e[k]]
  <2>1. e \in Seq(X \cup {u})
    BY <1>1
  <2>2. g \in Seq(X \cup {u}) /\ Len(g) = m + 1 /\ g[m + 1] = u /\ \A k \in 1..m : g[k] = e[k]
    BY <1>1, <2>1
  <2>3. g = [k \in 1..(m + 1) |-> g[k]]
    BY <2>2
  <2> QED BY <2>2, <2>3
<1>3. ASSUME NEW k \in 1..m PROVE e[k] = [n \in Strings |-> e[k][n]]
  <2> PICK h : h = [j \in 1..m |-> [n \in Strings |-> e[j][n]]]
    OBVIOUS
  <2>2. h[k] = [n \in Strings |-> e[k][n]]
    OBVIOUS
  <2> QED BY <2>2 DEF Layers
<1>4. ASSUME NEW k \in 1..(m + 1)
      PROVE  g[k] = [n \in Strings |-> g[k][n]] /\ \A n \in Strings : f[k][n] = g[k][n]
  <2>1. CASE k = m + 1
    <3>1. g[k] = u
      BY <2>1, <1>2
    <3>2. u = [n \in Strings |-> u[n]] /\ \A n \in Strings : u[n] = b
      OBVIOUS
    <3> QED BY <1>0, <2>1, <3>1, <3>2
  <2>2. CASE k # m + 1
    <3>1. k \in 1..m /\ g[k] = e[k]
      BY <2>2, <1>2
    <3> QED BY <3>1, <1>3
  <2> QED BY <2>1, <2>2
<1>5. Layers(g, m + 1)
  <2>1. DOMAIN g = 1..(m + 1) /\ g = [k \in 1..(m + 1) |-> g[k]]
    BY <1>2
  <2> QED BY <2>1, <1>4 DEF Layers
<1> QED BY <1>0, <1>4, <1>5, SameLayers DEF Extended

Changed(e, l, a, b) == [e EXCEPT ![l][a] = b]

LEMMA LayerChanged ==
  ASSUME NEW m, NEW e, NEW f, Layers(e, m), Layers(f, m), NEW l \in 1..m, NEW a \in Strings, NEW b,
         \A k \in 1..m : \A n \in Strings : f[k][n] = IF k = l /\ n = a THEN b ELSE e[k][n]
  PROVE  f = Changed(e, l, a, b)
<1>0. PICK h, g : h = [e[l] EXCEPT ![a] = b] /\ g = [e EXCEPT ![l] = h]
  OBVIOUS
<1>1. ASSUME NEW k \in 1..m PROVE e[k] = [n \in Strings |-> e[k][n]]
  <2> PICK h1 : h1 = [j \in 1..m |-> [n \in Strings |-> e[j][n]]]
    OBVIOUS
  <2>2. h1[k] = [n \in Strings |-> e[k][n]]
    OBVIOUS
  <2> QED BY <2>2 DEF Layers
<1>2. e = [k \in 1..m |-> e[k]]
  BY <1>1 DEF Layers
<1>3. h = [n \in Strings |-> IF n = a THEN b ELSE e[l][n]]
  BY <1>0, <1>1
<1>4. g = [k \in 1..m |-> IF k = l THEN h ELSE e[k]]
  BY <1>0, <1>2
<1>5. ASSUME NEW k \in 1..m
      PROVE  g[k] = [n \in Strings |-> g[k][n]] /\ \A n \in Strings : f[k][n] = g[k][n]
  <2>1. CASE k = l
    <3>1. g[k] = h
      BY <2>1, <1>4
    <3>2. h = [n \in Strings |-> h[n]] /\ \A n \in Strings : h[n] = IF n = a THEN b ELSE e[l][n]
      BY <1>3
    <3> QED BY <2>1, <3>1, <3>2
  <2>2. CASE k # l
    <3>1. g[k] = e[k]
      BY <2>2, <1>4
    <3> QED BY <2>2, <3>1, <1>1
  <2> QED BY <2>1, <2>2
<1>6. Layers(g, m)
  <2>1. g = [k \in 1..m |-> g[k]]
    BY <1>4
  <2> QED BY <2>1, <1>5 DEF Layers
<1>7. \A k \in 1..m : \A n \in Strings : f[k][n] = g[k][n]
  BY <1>5
<1>8. f = g
  BY <1>6, <1>7, SameLayers
<1> QED BY <1>0, <1>8 DEF Changed

Depth == IF where = "popping" THEN Len(scopes) - 1 ELSE Len(scopes)

LEMMA DepthIs ==
  ASSUME ScopesInv
  PROVE  Depth \in Nat \ {0} /\ (where # "popping" => Depth = cur_scope + 1) /\ cur_scope \in Nat
  BY DEF ScopesInv, Depth, cur_scope

LEMMA EnvNow ==
  ASSUME NEW e, e = Env, NEW m, m = Depth
  PROVE  Layers(e, m) /\ \A k \in 1..m : \A n \in Strings : e[k][n] = Binding(n, k - 1)
<1>1. e = [k \in 1..m |-> [n \in Strings |-> Binding(n, k - 1)]]
  BY DEF Env, Depth
<1>2. \A k \in 1..m : \A n \in Strings : e[k][n] = Binding(n, k - 1)
  BY <1>1
<1> QED BY <1>1, <1>2 DEF Layers

LEMMA EnvNext ==
  ASSUME NEW e, e = Env', NEW m, m = Depth'
  PROVE  Layers(e, m) /\ \A k \in 1..m : \A n \in Strings : e[k][n] = Binding(n, k - 1)'
<1>1. e = [k \in 1..m |-> [n \in Strings |-> Binding(n, k - 1)']]
  BY DEF Env, Depth
<1>2. \A k \in 1..m : \A n \in Strings : e[k][n] = Binding(n, k - 1)'
  BY <1>1
<1> QED BY <1>1, <1>2 DEF Layers
-----------------------------------------------------------------------------
(***************************************************************************)
(* Each step is a step of the abstract environment, or none.               *)
(***************************************************************************)
EnvironmentStep == [Environment!Next]_<<Env, answer>>

LEMMA EnvSame ==
  ASSUME Depth' = Depth,
         \A n \in Strings : \A k : k + 1 \in 1..Depth => Binding(n, k)' = Binding(n, k)
  PROVE  Env' = Env
<1> PICK e, f, m : e = Env /\ f = Env' /\ m = Depth
  OBVIOUS
<1>1. Layers(e, m) /\ \A k \in 1..m : \A n \in Strings : e[k][n] = Binding(n, k - 1)
  BY EnvNow
<1>2. Layers(f, m) /\ \A k \in 1..m : \A n \in Strings : f[k][n] = Binding(n, k - 1)'
  BY EnvNext
<1>3. \A k \in 1..m : (k - 1) + 1 = k
  OBVIOUS
<1>4. \A k \in 1..m : \A n \in Strings : f[k][n] = e[k][n]
  BY <1>1, <1>2, <1>3
<1> QED BY <1>1, <1>2, <1>4, SameLayers

LEMMA QuietBindings ==
  ASSUME Sound, Sound', DeclsKept, UNCHANGED <<strtab, heap>>
  PROVE  \A n \in Strings : \A k : Binding(n, k)' = Binding(n, k)
<1> PICK c : CellsAre(c)
  BY SoundHas
<1> QED BY BindingKept

LEMMA QuietStep ==
  ASSUME Sound, Sound', DeclsKept, UNCHANGED <<strtab, heap, scopes, answer>>,
         where # "popping", where' # "popping"
  PROVE  EnvironmentStep
<1>1. Env' = Env
  BY QuietBindings, EnvSame DEF Depth
<1> QED BY <1>1 DEF EnvironmentStep

LEMMA AddSymStep ==
  ASSUME Sound, Sound', NEW n \in Strings, AddSym(n)
  PROVE  EnvironmentStep
<1>1. SymInv /\ HeapOK /\ TableSound /\ DeclsKept
  BY SoundHas, AddSymKept
<1>2. UNCHANGED <<heap, scopes, answer>> /\ where # "popping" /\ where' # "popping"
  BY DEF AddSym
<1>3. CASE strtab' = strtab
  BY <1>1, <1>2, <1>3, QuietStep
<1>4. CASE NewSymbol(strtab, strtab', n)
  <2> PICK c : CellsAre(c)
    BY SoundHas
  <2>1. \A i \in Listed : decls[i] \in 1..strtab.syms
    <3>1. DOMAIN decl = 1..strtab.syms
      BY <1>1 DEF SymInv, IsSequence
    <3> QED BY <3>1 DEF CellsAre, CellScopes
  <2>2. strtab.syms \in Nat
    BY <1>1 DEF SymInv, TableOK, TableShape
  <2>3. \A i \in Listed : decls[i] # SymbolOf(strtab, n) /\ decls[i] # SymbolOf(strtab', n)
    BY <2>1, <2>2, <1>4 DEF NewSymbol
  <2>4. \A r \in Strings : r # n => SymbolOf(strtab', r) = SymbolOf(strtab, r)
    BY <1>4 DEF NewSymbol
  <2>5. ASSUME NEW r \in Strings, NEW k PROVE Binding(r, k)' = Binding(r, k)
    <3>1. CASE r = n
      BY <3>1, <1>1, <1>2, <2>3, BindingKept
    <3>2. CASE r # n
      BY <3>2, <1>1, <1>2, <2>4, BindingKept
    <3> QED BY <3>1, <3>2
  <2>6. Env' = Env
    BY <2>5, <1>2, EnvSame DEF Depth
  <2> QED BY <2>6, <1>2 DEF EnvironmentStep
<1> QED BY <1>1, <1>3, <1>4, AddSymIs

(* What the abstract environment says of the identifier just read. *)
LEMMA LevelsAre ==
  ASSUME Sound, where # "popping", NEW n \in Strings, NEW s, s = SymbolOf(strtab, n), s \in DOMAIN decl
  PROVE  /\ decl[s] = NoDecl => Environment!Levels(n) = {}
         /\ decl[s] # NoDecl =>
              /\ Environment!Levels(n) # {}
              /\ Environment!Innermost(n) = heap[decl[s]].scope + 1
              /\ heap[decl[s]].scope + 1 \in 1..Depth
              /\ Env[heap[decl[s]].scope + 1][n] = BindingOf(heap[decl[s]])
<1> PICK e, m : e = Env /\ m = Depth
  OBVIOUS
<1>1. m \in Nat \ {0} /\ m = cur_scope + 1 /\ cur_scope \in Nat
  BY SoundHas, DepthIs
<1>2. Layers(e, m) /\ \A k \in 1..m : \A a \in Strings : e[k][a] = Binding(a, k - 1)
  BY EnvNow
<1>3. DOMAIN e = 1..m
  BY <1>1, <1>2, LayersSequence
<1> PICK L : L = Environment!Levels(n)
  OBVIOUS
<1>4. L = {k \in 1..m : Binding(n, k - 1) # NoBinding}
  BY <1>2, <1>3 DEF Environment!Levels, Environment!Unbound, NoBinding
<1>5. CASE decl[s] = NoDecl
  BY <1>4, <1>5, HeadMeans
<1>6. CASE decl[s] # NoDecl
  <2> PICK h, b : h = heap[decl[s]].scope /\ b = BindingOf(heap[decl[s]])
    OBVIOUS
  <2>1. /\ h \in 0..cur_scope /\ Binding(n, h) = b /\ b # NoBinding
        /\ \A l : Binding(n, l) # NoBinding => l \in 0..cur_scope /\ l <= h
    BY <1>6, HeadMeans
  <2>2. h + 1 \in 1..m /\ (h + 1) - 1 = h
    BY <1>1, <2>1
  <2>3. h + 1 \in L /\ e[h + 1][n] = b
    BY <1>2, <1>4, <2>1, <2>2
  <2>4. ASSUME NEW k \in L PROVE k <= h + 1 /\ k \in Nat
    <3>1. k \in 1..m /\ k - 1 <= h
      BY <1>4, <2>1
    <3> QED BY <3>1, <2>2, <2>1
  <2>5. Environment!Innermost(n) = CHOOSE k \in L : \A j \in L : j <= k
    BY DEF Environment!Innermost
  <2> PICK r : r = CHOOSE k \in L : \A j \in L : j <= k
    OBVIOUS
  <2>6. r \in L /\ \A j \in L : j <= r
    BY <2>3, <2>4
  <2>7. r <= h + 1 /\ h + 1 <= r /\ r \in Nat /\ h + 1 \in Nat
    BY <2>1, <2>3, <2>4, <2>6
  <2>8. r = h + 1
    BY <2>7
  <2> QED BY <1>6, <2>2, <2>3, <2>5, <2>8
<1> QED BY <1>5, <1>6

LEMMA UseStep ==
  ASSUME Sound, Sound', Use
  PROVE  EnvironmentStep
<1> PICK n, s : n = ident.name /\ s = ident.sym
  OBVIOUS
<1>1. n \in Strings /\ s = SymbolOf(strtab, n) /\ s \in DOMAIN decl
  BY SoundHas, IdentHasDecl DEF Use, SymInv
<1>2. /\ UNCHANGED <<strtab, heap, scopes>> /\ where # "popping" /\ where' # "popping"
      /\ answer' = IF decl[s] = NoDecl THEN Told("undefined", NoBinding)
                   ELSE Told("found", BindingOf(heap[decl[s]]))
  BY DEF Use, declVars, BindingOf
<1>3. Env' = Env
  <2>1. DeclsKept
    BY SoundHas, UseKept
  <2> QED BY <1>2, <2>1, QuietBindings, EnvSame DEF Depth
<1>4. Environment!Use(n)
  <2>1. CASE decl[s] = NoDecl
    <3>1. Environment!Levels(n) = {}
      BY <1>1, <1>2, <2>1, LevelsAre
    <3> QED BY <1>2, <1>3, <2>1, <3>1 DEF Environment!Use, Environment!Told, Environment!Unbound, Told, NoBinding
  <2>2. CASE decl[s] # NoDecl
    <3>1. /\ Environment!Levels(n) # {}
          /\ Env[Environment!Innermost(n)][n] = BindingOf(heap[decl[s]])
      BY <1>1, <1>2, <2>2, LevelsAre
    <3> QED BY <1>2, <1>3, <2>2, <3>1 DEF Environment!Use, Environment!Told, Told
  <2> QED BY <2>1, <2>2
<1> QED BY <1>1, <1>4 DEF EnvironmentStep, Environment!Next

(* A mark is on the innermost declaration of its name, and on no other. *)
LEMMA MarkedBindings ==
  ASSUME Sound, Sound', UNCHANGED strtab, DeclsKept, NEW n \in Strings, NEW s, s = SymbolOf(strtab, n),
         s \in DOMAIN decl, decl[s] # NoDecl, NEW x, x = decl[s], NEW h, h = heap[x].scope, Marked(x)
  PROVE  /\ Binding(n, h)' = BindingOf(heap'[x])
         /\ \A r \in Strings : \A k : r # n \/ k # h => Binding(r, k)' = Binding(r, k)
<1> PICK c : CellsAre(c)
  BY SoundHas
<1>0. /\ CellsAre(c)' /\ \A i \in Listed : c[i] \in used
      /\ \A i, j \in Listed : c[i] = c[j] => i = j
  BY SameCells DEF CellsAre, CellMap
<1>1. PICK j \in Listed : decls[j] = s /\ x = c[j]
  BY DEF CellsAre, Heads, Last
<1>2. \A y \in used : heap'[y].scope = heap[y].scope /\ (y # x => heap'[y] = heap[y])
  BY SoundHas, MarkedIs DEF DeclsKept
<1>3. Binding(n, h)' = BindingOf(heap'[x])
  <2> PICK b : b = BindingOf(heap'[x])
    OBVIOUS
  <2>1. Listed' = Listed /\ decls'[j] = decls[j] /\ heap'[c[j]].scope = h
    BY <1>0, <1>1, <1>2 DEF DeclsKept
  <2>2. Means(c, n, h, b)'
    BY <1>1, <2>1 DEF Means, BindingOf
  <2> QED BY <1>0, <2>2 DEF Sound, BindingsSound
<1>4. ASSUME NEW r \in Strings, NEW k, r # n \/ k # h PROVE Binding(r, k)' = Binding(r, k)
  <2>1. ASSUME NEW i \in Listed, decls[i] = SymbolOf(strtab, r), heap[c[i]].scope = k
        PROVE  heap'[c[i]] = heap[c[i]]
    <3>1. s = SymbolOf(strtab, r) => r = n
      <4>1. s # 0
        BY SoundHas DEF SymInv, IsSequence
      <4>2. TableOK(strtab) /\ TableSound
        BY SoundHas DEF SymInv
      <4> QED BY <4>1, <4>2, SymbolsDiffer
    <3>2. c[i] # x
      <4> SUFFICES ASSUME c[i] = x PROVE FALSE
        OBVIOUS
      <4>1. i = j
        BY <1>0, <1>1
      <4> QED BY <4>1, <3>1, <2>1, <1>1, <1>4
    <3> QED BY <3>2, <1>0, <1>2
  <2>2. \A i \in Listed : decls[i] = SymbolOf(strtab, r) /\ heap[c[i]].scope = k
                             => BindingOf(heap'[c[i]]) = BindingOf(heap[c[i]])
    BY <2>1
  <2> QED BY <2>2, BindingKept
<1> QED BY <1>3, <1>4

Remarked(n, x, h, v) ==
  /\ Env' = [Env EXCEPT ![h + 1][n].initialized = v]
  /\ Env'[h + 1][n] = BindingOf(heap'[x])
  /\ BindingOf(heap'[x]) = [type |-> heap[x].type, initialized |-> v]

LEMMA EnvMarked ==
  ASSUME Sound, Sound', UNCHANGED <<strtab, scopes>>, DeclsKept, where # "popping", where' # "popping",
         NEW n \in Strings, NEW s, s = SymbolOf(strtab, n), s \in DOMAIN decl, decl[s] # NoDecl,
         NEW x, x = decl[s], NEW h, h = heap[x].scope, Marked(x),
         NEW v, heap'[x].initialized = v
  PROVE  Remarked(n, x, h, v)
<1> PICK e, f, m : e = Env /\ f = Env' /\ m = Depth
  OBVIOUS
<1>1. Layers(e, m) /\ \A k \in 1..m : \A a \in Strings : e[k][a] = Binding(a, k - 1)
  BY EnvNow
<1>2. m = Depth'
  BY DEF Depth
<1>3. Layers(f, m) /\ \A k \in 1..m : \A a \in Strings : f[k][a] = Binding(a, k - 1)'
  BY <1>2, EnvNext
<1>4. h + 1 \in 1..m /\ (h + 1) - 1 = h /\ h \in Nat /\ m \in Nat
  <2>1. m \in Nat /\ m = cur_scope + 1 /\ cur_scope \in Nat
    BY SoundHas, DepthIs
  <2>2. h \in 0..cur_scope
    BY HeadMeans
  <2> QED BY <2>1, <2>2
<1>5. /\ Binding(n, h)' = BindingOf(heap'[x])
      /\ \A r \in Strings : \A k : r # n \/ k # h => Binding(r, k)' = Binding(r, k)
  BY MarkedBindings
<1> PICK b : b = BindingOf(heap'[x])
  OBVIOUS
<1>6. \A k \in 1..m : k - 1 = h => k = h + 1
  BY <1>4
<1>7. \A k \in 1..m : \A a \in Strings : f[k][a] = IF k = h + 1 /\ a = n THEN b ELSE e[k][a]
  BY <1>1, <1>3, <1>4, <1>5, <1>6
<1>8. f = [e EXCEPT ![h + 1][n] = b]
  <2> PICK l : l = h + 1
    OBVIOUS
  <2>1. l \in 1..m /\ \A k \in 1..m : \A a \in Strings : f[k][a] = IF k = l /\ a = n THEN b ELSE e[k][a]
    BY <1>4, <1>7
  <2>2. f = Changed(e, l, n, b)
    BY <1>1, <1>3, <2>1, LayerChanged
  <2> QED BY <2>2 DEF Changed
<1>9. b = [type |-> heap[x].type, initialized |-> v]
  <2>1. heap'[x].type = heap[x].type
    BY SoundHas, MarkedIs, HeadMeans DEF DeclsKept
  <2> QED BY <2>1 DEF BindingOf
<1>10. e[h + 1][n] = [type |-> heap[x].type, initialized |-> heap[x].initialized]
  BY <1>1, <1>4, HeadMeans DEF BindingOf
<1>11. b = [e[h + 1][n] EXCEPT !.initialized = v]
  BY <1>9, <1>10
<1>12. f = [e EXCEPT ![h + 1][n].initialized = v]
  BY <1>8, <1>11
<1>13. f[h + 1][n] = b
  BY <1>4, <1>7
<1> QED BY <1>9, <1>12, <1>13 DEF Remarked

LEMMA AssignStep ==
  ASSUME Sound, Sound', Assign
  PROVE  EnvironmentStep
<1> PICK n, s, x, h : n = ident.name /\ s = ident.sym /\ x = decl[s] /\ h = heap[x].scope
  OBVIOUS
<1>1. n \in Strings /\ s = SymbolOf(strtab, n) /\ s \in DOMAIN decl
  BY SoundHas, IdentHasDecl DEF Assign, SymInv
<1>2. UNCHANGED <<strtab, scopes>> /\ where # "popping" /\ where' # "popping"
  BY DEF Assign
<1>3. DeclsKept /\ Marked(x)
  BY SoundHas, AssignKept
<1>4. CASE x = NoDecl
  <2>1. heap' = heap /\ answer' = Told("undefined", NoBinding)
    BY <1>4 DEF Assign
  <2>2. Env' = Env
    BY <1>2, <1>3, <2>1, QuietBindings, EnvSame DEF Depth
  <2>3. Environment!Levels(n) = {}
    BY <1>1, <1>2, <1>4, LevelsAre
  <2>4. Environment!Assign(n)
    BY <2>1, <2>2, <2>3 DEF Environment!Assign, Environment!Told, Environment!Unbound, Told, NoBinding
  <2> QED BY <1>1, <2>4 DEF EnvironmentStep, Environment!Next
<1>5. CASE x # NoDecl
  <2>1. /\ heap' = [heap EXCEPT ![x].initialized = TRUE]
        /\ answer' = Told("found", [type |-> heap[x].type, initialized |-> TRUE])
    BY <1>5 DEF Assign
  <2>2. heap'[x].initialized = TRUE
    <3>1. x \in used /\ HeapOK
      BY <1>1, <1>5, HeadMeans, SoundHas
    <3> QED BY <2>1, <3>1 DEF HeapOK, DeclRecords
  <2>3. /\ Environment!Levels(n) # {} /\ Environment!Innermost(n) = h + 1
    BY <1>1, <1>2, <1>5, LevelsAre
  <2>4. /\ Env' = [Env EXCEPT ![h + 1][n].initialized = TRUE]
        /\ Env'[h + 1][n] = [type |-> heap[x].type, initialized |-> TRUE]
    <3> PICK v : v = TRUE
      OBVIOUS
    <3>1. heap'[x].initialized = v
      BY <2>2
    <3>2. Remarked(n, x, h, v)
      BY <1>1, <1>2, <1>3, <1>5, <3>1, EnvMarked
    <3> QED BY <3>2 DEF Remarked
  <2>5. Environment!Assign(n)
    BY <2>1, <2>3, <2>4 DEF Environment!Assign, Environment!Told, Told
  <2> QED BY <1>1, <2>5 DEF EnvironmentStep, Environment!Next
<1> QED BY <1>4, <1>5

LEMMA DeclareStepEnv ==
  ASSUME Sound, Sound', NEW type \in Types, NEW init \in BOOLEAN, Declare(type, init), where # "popping"
  PROVE  EnvironmentStep
<1> PICK n, s, l, b : n = ident.name /\ s = ident.sym /\ l = cur_scope
                      /\ b = [type |-> type, initialized |-> init]
  OBVIOUS
<1>1. n \in Strings /\ s = SymbolOf(strtab, n) /\ s \in DOMAIN decl
  BY SoundHas, IdentHasDecl DEF Declare, SymInv
<1>2. UNCHANGED <<strtab, scopes>> /\ b \in Environment!Bindings /\ b.initialized = init
  BY DEF Declare, Environment!Bindings
<1> PICK e, m : e = Env /\ m = Depth
  OBVIOUS
<1>3. /\ Layers(e, m) /\ \A k \in 1..m : \A a \in Strings : e[k][a] = Binding(a, k - 1)
      /\ m \in Nat /\ m = l + 1 /\ l \in Nat /\ Len(e) = m
  <2>1. Layers(e, m) /\ \A k \in 1..m : \A a \in Strings : e[k][a] = Binding(a, k - 1)
    BY EnvNow
  <2>2. m \in Nat /\ m = l + 1 /\ l \in Nat
    BY SoundHas, DepthIs
  <2> QED BY <2>1, <2>2, LayersSequence
<1>4. m \in 1..m /\ m - 1 = l
  BY <1>3
<1>5. CASE DeclaredHere(s)
  <2> PICK x : x = decl[s]
    OBVIOUS
  <2>1. x # NoDecl /\ heap[x].scope = l
    BY <1>5 DEF DeclaredHere
  <2> PICK c : CellsAre(c)
    BY SoundHas
  <2> PICK v : v = (heap[x].initialized \/ init)
    OBVIOUS
  <2>2. DeclsKept /\ where' # "popping" /\ Marked(x) /\ heap'[x].initialized = v
    BY <1>5, SoundHas, DuplicateKept
  <2>3. Env' = [Env EXCEPT ![m][n].initialized = v]
    <3>1. Remarked(n, x, l, v)
      BY <1>1, <1>2, <2>1, <2>2, EnvMarked
    <3> QED BY <1>3, <3>1 DEF Remarked
  <2>4. e[m][n] = BindingOf(heap[x]) /\ BindingOf(heap[x]) # NoBinding
    BY <1>1, <1>3, <1>4, <2>1, HeadMeans
  <2>5. v = (e[m][n].initialized \/ b.initialized)
    BY <1>2, <2>4 DEF BindingOf
  <2>6. Env' = [Env EXCEPT ![m][n].initialized = @ \/ b.initialized]
    BY <2>3, <2>5
  <2>7. answer' = Told("duplicate", NoBinding)
    BY <1>5 DEF Declare
  <2>8. Environment!Declare(n, b)
    BY <1>3, <2>4, <2>6, <2>7 DEF Environment!Declare, Environment!Told, Environment!Unbound, Told, NoBinding
  <2> QED BY <1>1, <1>2, <2>8 DEF EnvironmentStep, Environment!Next
<1>6. CASE ~DeclaredHere(s)
  <2> PICK c : CellsAre(c)
    BY SoundHas
  <2>1. PICK j, x, d : /\ NewCell(c, s, j, x, d) /\ CellsAre(d)'
                       /\ heap'[x].type = type /\ heap'[x].initialized = init
                       /\ where' # "popping"
    BY <1>6, SoundHas, DeclareNew
  <2>2. /\ Binding(n, l) = NoBinding /\ Binding(n, l)' = b
        /\ \A r \in Strings : \A k : r # n \/ k # l => Binding(r, k)' = Binding(r, k)
    <3>1. BindingOf(heap'[x]) = b
      BY <2>1 DEF BindingOf
    <3> QED BY <1>1, <1>2, <1>6, <2>1, <3>1, BindingNew
  <2> PICK f : f = Env'
    OBVIOUS
  <2>3. m = Depth'
    BY <1>2, <2>1 DEF Depth
  <2>4. Layers(f, m) /\ \A k \in 1..m : \A a \in Strings : f[k][a] = Binding(a, k - 1)'
    BY <2>3, EnvNext
  <2>5. \A k \in 1..m : k - 1 = l => k = m
    BY <1>3
  <2>6. \A k \in 1..m : \A a \in Strings : f[k][a] = IF k = m /\ a = n THEN b ELSE e[k][a]
    BY <1>3, <1>4, <2>2, <2>4, <2>5
  <2>7. f = [e EXCEPT ![m][n] = b]
    <3>1. f = Changed(e, m, n, b)
      BY <1>1, <1>3, <1>4, <2>4, <2>6, LayerChanged
    <3> QED BY <3>1 DEF Changed
  <2>8. e[m][n] = NoBinding
    BY <1>1, <1>3, <1>4, <2>2
  <2>9. answer' = Told("declared", NoBinding)
    BY <1>6 DEF Declare
  <2>10. Environment!Declare(n, b)
    BY <1>3, <2>7, <2>8, <2>9 DEF Environment!Declare, Environment!Told, Environment!Unbound, Told, NoBinding
  <2> QED BY <1>1, <1>2, <2>10 DEF EnvironmentStep, Environment!Next
<1> QED BY <1>5, <1>6

LEMMA PushScopeStep ==
  ASSUME Sound, Sound', PushScope
  PROVE  EnvironmentStep
<1>1. /\ UNCHANGED <<strtab, heap, answer>> /\ where # "popping" /\ where' # "popping"
      /\ DeclsKept
  BY SoundHas, PushScopeKept DEF PushScope, declVars
<1>2. CASE UNCHANGED scopes
  BY <1>1, <1>2, QuietStep
<1>3. CASE scopes' = Append(scopes, Len(decls))
  <2> PICK e, f, m : e = Env /\ f = Env' /\ m = Depth
    OBVIOUS
  <2>1. m \in Nat /\ Depth' = m + 1 /\ m = cur_scope + 1 /\ cur_scope \in Nat
    <3>1. scopes \in Seq(Nat) /\ Len(decls) \in Nat
      BY SoundHas, ListedIs DEF ScopesInv
    <3>2. Len(scopes') = Len(scopes) + 1
      BY <3>1, <1>3
    <3> QED BY <3>2, <1>1, SoundHas, DepthIs DEF Depth
  <2>2. Layers(e, m) /\ \A k \in 1..m : \A n \in Strings : e[k][n] = Binding(n, k - 1)
    BY EnvNow
  <2> PICK l : l = m + 1
    OBVIOUS
  <2>3. Layers(f, l) /\ \A k \in 1..l : \A n \in Strings : f[k][n] = Binding(n, k - 1)'
    BY <2>1, EnvNext
  <2>4. \A n \in Strings : \A k : Binding(n, k)' = Binding(n, k)
    BY <1>1, QuietBindings
  <2>5. \A k \in 1..m : \A n \in Strings : f[k][n] = e[k][n]
    <3>1. \A k \in 1..m : k \in 1..l
      BY <2>1
    <3> QED BY <3>1, <2>2, <2>3, <2>4
  <2>6. \A n \in Strings : Binding(n, m) = NoBinding
    <3> TAKE n \in Strings
    <3> PICK c : CellsAre(c)
      BY SoundHas
    <3>1. ASSUME NEW i \in Listed PROVE heap[c[i]].scope # m
      <4>1. heap[c[i]].scope \in 0..cur_scope
        BY DEF CellsAre, CellScopes, ScopeAt
      <4> QED BY <4>1, <2>1
    <3>2. Means(c, n, m, NoBinding)
      BY <3>1 DEF Means
    <3> QED BY <3>2, BindingIs
  <2>7. \A n \in Strings : f[l][n] = NoBinding
    <3>1. l \in 1..l /\ l - 1 = m
      BY <2>1
    <3> QED BY <3>1, <2>3, <2>4, <2>6
  <2>8. Extended(e, f, NoBinding)
    BY <2>1, <2>2, <2>3, <2>5, <2>7, LayerNew
  <2>9. Environment!Enter
    BY <1>1, <2>8 DEF Extended, Environment!Enter, Environment!Unbound, NoBinding
  <2> QED BY <2>9 DEF EnvironmentStep, Environment!Next
<1> QED BY <1>2, <1>3 DEF PushScope

LEMMA LeaveStep ==
  ASSUME Sound, Sound', UNCHANGED answer, NEW m \in Nat \ {0}, m + 1 = Depth, m = Depth',
         \A n \in Strings : \A k : k + 1 \in 1..m => Binding(n, k)' = Binding(n, k)
  PROVE  EnvironmentStep
<1> PICK e, f, l : e = Env /\ f = Env' /\ l = Depth
  OBVIOUS
<1>1. Layers(e, l) /\ \A k \in 1..l : \A n \in Strings : e[k][n] = Binding(n, k - 1)
  BY EnvNow
<1>2. Layers(f, m) /\ \A k \in 1..m : \A n \in Strings : f[k][n] = Binding(n, k - 1)'
  BY EnvNext
<1>3. \A k \in 1..m : k \in 1..l /\ (k - 1) + 1 = k
  OBVIOUS
<1>4. \A k \in 1..m : \A n \in Strings : f[k][n] = e[k][n]
  BY <1>1, <1>2, <1>3
<1>5. Shortened(e, f)
  BY <1>1, <1>2, <1>4, LayerGone
<1>6. Len(e) = m + 1 /\ Len(e) > 1
  <2>1. l \in Nat
    OBVIOUS
  <2>2. Len(e) = l
    BY <1>1, <2>1, LayersSequence
  <2> QED BY <2>2
<1>7. Environment!Leave
  BY <1>5, <1>6 DEF Shortened, Environment!Leave
<1> QED BY <1>7 DEF EnvironmentStep, Environment!Next

LEMMA PopScopeStep ==
  ASSUME Sound, Sound', PopScope
  PROVE  EnvironmentStep
<1>1. /\ UNCHANGED <<strtab, heap, scopes, answer>> /\ where = "body" /\ where' = "popping"
      /\ DeclsKept
  BY SoundHas, PopScopeKept DEF PopScope, declVars
<1> PICK m : m = Len(scopes) - 1
  OBVIOUS
<1>2. m \in Nat \ {0} /\ m + 1 = Depth /\ m = Depth'
  BY <1>1, SoundHas DEF ScopesInv, Depth
<1> QED BY <1>1, <1>2, QuietBindings, LeaveStep

LEMMA PopDeclStep ==
  ASSUME Sound, Sound', PopDecl
  PROVE  EnvironmentStep
<1> PICK c : CellsAre(c)
  BY SoundHas
<1> PICK m : m = popped + 1
  OBVIOUS
<1>1. /\ UNCHANGED <<scopes, strtab>> /\ where = "popping" /\ where' = where
      /\ m \in Listed
      /\ \E d : CellGone(c, m, d) /\ CellsAre(d)'
  BY SoundHas, PopDeclGone
<1>2. PICK d : CellGone(c, m, d) /\ CellsAre(d)'
  BY <1>1
<1>3. heap[c[m]].scope = cur_scope
  <2> PICK h : h = heap[c[m]].scope
    OBVIOUS
  <2>1. ScopeAt(m, h)
    BY <1>1 DEF CellsAre, CellScopes
  <2>2. /\ popped \in Nat /\ Len(scopes) \in Nat /\ scopes[Len(scopes)] \in Nat
        /\ scopes[Len(scopes)] <= popped
    BY <1>1, SoundHas DEF ScopesInv
  <2>3. h \in 0..cur_scope /\ \A j \in (h + 1)..cur_scope : m <= scopes[j + 1]
    BY <2>1 DEF ScopeAt
  <2> SUFFICES ASSUME h # cur_scope PROVE FALSE
    OBVIOUS
  <2>4. cur_scope \in (h + 1)..cur_scope /\ cur_scope + 1 = Len(scopes)
    BY <2>2, <2>3 DEF cur_scope
  <2>5. m <= scopes[Len(scopes)]
    BY <2>3, <2>4
  <2> QED BY <2>2, <2>5
<1>4. ASSUME NEW n \in Strings, NEW k, k + 1 \in 1..Depth PROVE Binding(n, k)' = Binding(n, k)
  <2>1. k # cur_scope
    <3>1. Depth = cur_scope /\ cur_scope \in Nat
      BY <1>1, SoundHas, DepthIs DEF Depth, cur_scope
    <3> QED BY <3>1, <1>4
  <2> QED BY <2>1, <1>1, <1>2, <1>3, BindingGone
<1>5. Env' = Env
  <2>1. Depth' = Depth
    BY <1>1 DEF Depth
  <2> QED BY <1>4, <2>1, EnvSame
<1> QED BY <1>5 DEF EnvironmentStep, PopDecl

LEMMA PopDoneStep ==
  ASSUME Sound, Sound', PopDone
  PROVE  EnvironmentStep
<1>1. UNCHANGED <<strtab, heap, answer>> /\ where = "popping" /\ DeclsKept
  BY SoundHas, PopDoneKept DEF PopDone, Sound, TablesInv
<1> PICK n : n = Len(scopes)
  OBVIOUS
<1>2. n \in Nat /\ n >= 2 /\ Len(scopes') = n - 1 /\ Depth = n - 1
  <2>1. n \in Nat /\ n >= 2 /\ scopes \in Seq(Nat)
    BY <1>1, SoundHas DEF ScopesInv
  <2>2. Len(scopes') = n - 1
    BY <2>1 DEF PopDone
  <2> QED BY <1>1, <2>1, <2>2 DEF Depth
<1>3. \A a \in Strings : \A k : Binding(a, k)' = Binding(a, k)
  BY <1>1, QuietBindings
<1>4. CASE cur_scope = 2
  <2>1. n = 3 /\ where' = "popping"
    <3>0. n \in Nat /\ n - 1 = 2
      <4>1. cur_scope = n - 1
        BY DEF cur_scope
      <4> QED BY <4>1, <1>2, <1>4
    <3>1. n = 3
      <4>1. \A i \in Nat : i - 1 = 2 => i = 3
        OBVIOUS
      <4> QED BY <3>0, <4>1
    <3>2. where' = where
      BY <1>4 DEF PopDone
    <3> QED BY <3>1, <3>2, <1>1
  <2> PICK m : m = 1
    OBVIOUS
  <2>2. m \in Nat \ {0} /\ m + 1 = Depth /\ m = Depth'
    BY <1>2, <2>1 DEF Depth
  <2> QED BY <1>1, <1>3, <2>2, LeaveStep
<1>5. CASE cur_scope # 2
  <2>1. where' # "popping"
    BY <1>5 DEF PopDone
  <2>2. Depth' = Depth
    BY <1>2, <2>1 DEF Depth
  <2>3. Env' = Env
    BY <1>3, <2>2, EnvSame
  <2> QED BY <1>1, <2>3 DEF EnvironmentStep
<1> QED BY <1>4, <1>5

LEMMA EveryStep ==
  ASSUME Sound, Sound', [Next]_vars
  PROVE  EnvironmentStep
<1>1. CASE \E n \in Strings : AddSym(n)
  BY <1>1, AddSymStep
<1>2. CASE DeclareFunc \/ DeclareArg \/ DeclareVar
  <2>1. PICK type \in Types, init \in BOOLEAN : Declare(type, init) /\ where # "popping"
    BY <1>2 DEF DeclareFunc, DeclareArg, DeclareVar, Types
  <2> QED BY <2>1, DeclareStepEnv
<1>3. CASE CheckProgram
  <2>1. DeclsKept
    BY <1>3, SoundHas, UseKept
  <2>2. UNCHANGED <<strtab, heap, scopes, answer>> /\ where # "popping" /\ where' # "popping"
    BY <1>3 DEF CheckProgram, declVars
  <2> QED BY <2>1, <2>2, QuietStep
<1>4. CASE UNCHANGED vars
  <2>1. DeclsKept
    BY <1>4, SoundHas, StutterKept
  <2>2. UNCHANGED <<strtab, heap, scopes, answer, where>>
    BY <1>4 DEF vars, declVars
  <2>3. Env' = Env
    BY <2>1, <2>2, QuietBindings, EnvSame DEF Depth
  <2> QED BY <2>2, <2>3 DEF EnvironmentStep
<1> QED BY <1>1, <1>2, <1>3, <1>4, UseStep, AssignStep, PushScopeStep, PopScopeStep, PopDeclStep,
           PopDoneStep DEF Next

(* At first there is one scope, with nothing in it. *)
LEMMA InitEnvironment == Init /\ Sound => Environment!Init
<1> SUFFICES ASSUME Init, Sound PROVE Environment!Init
  OBVIOUS
<1>1. Depth = 1 /\ DOMAIN decls = {} /\ answer = Told("nothing", NoBinding)
  BY DEF Init, Depth
<1> PICK e, m : e = Env /\ m = Depth
  OBVIOUS
<1>2. Layers(e, m) /\ \A k \in 1..m : \A n \in Strings : e[k][n] = Binding(n, k - 1)
  BY EnvNow
<1>3. \A n \in Strings : \A k : Binding(n, k) = NoBinding
  <2> TAKE n \in Strings
  <2> TAKE k
  <2> PICK c : CellsAre(c)
    BY SoundHas
  <2>1. Listed = {}
    BY <1>1 DEF Listed
  <2>2. Means(c, n, k, NoBinding)
    BY <2>1 DEF Means
  <2> QED BY <2>2, BindingIs
<1> PICK f : f = <<[n \in Strings |-> NoBinding]>>
  OBVIOUS
<1>4. Layers(f, m) /\ \A k \in 1..m : \A n \in Strings : f[k][n] = NoBinding
  <2> PICK u : u = [n \in Strings |-> NoBinding]
    OBVIOUS
  <2>1. f = <<u>> /\ u = [n \in Strings |-> u[n]]
    OBVIOUS
  <2>2. f = [k \in 1..m |-> u]
    BY <1>1, <2>1
  <2>3. f = [k \in 1..m |-> [n \in Strings |-> f[k][n]]]
    BY <2>1, <2>2
  <2> QED BY <2>2, <2>3 DEF Layers
<1>5. e = f
  BY <1>2, <1>3, <1>4, SameLayers
<1> QED BY <1>1, <1>5 DEF Environment!Init, Environment!Unbound, Environment!Told, NoBinding, Told

(* The tables implement a stack of scopes: whatever chains the buckets of  *)
(* the string table and the symbols have, a name means its innermost       *)
(* declaration in force, a declaration is refused exactly if its own scope *)
(* has the name already, and leaving a scope restores what was hidden.     *)
THEOREM NamesMeanInnermost == TableSound => (Spec => MeansInnermost)
<1> SUFFICES ASSUME TableSound PROVE Spec => MeansInnermost
  OBVIOUS
<1>1. Sound /\ Sound' /\ [Next]_vars => [Environment!Next]_<<Env, answer>>
  BY EveryStep DEF EnvironmentStep
<1> QED BY <1>1, InitEnvironment, SoundInvariant, PTL DEF Spec, MeansInnermost, Environment!Spec
=============================================================================
