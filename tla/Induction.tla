------------------------------ MODULE Induction ------------------------------
(***************************************************************************)
(* Induction along the numbers and recursion over an interval, stated      *)
(* with sets and functions instead of the operator parameters of the       *)
(* library's theorems, so that they can be used by instantiating a set: to *)
(* prove P(n) for all n, take T == {n \in Nat : P(n)}.                     *)
(***************************************************************************)
EXTENDS Integers, WellFoundedInduction, TLAPS

(* A set of numbers that is not empty has a least element. *)
LEMMA NatLeast ==
  ASSUME NEW T \in SUBSET Nat, T # {}
  PROVE  \E n \in T : \A k \in T : n <= k
<1> DEFINE R == {p \in Nat \X Nat : p[1] < p[2]}
<1>1. IsWellFoundedOn(R, Nat)
  BY NatLessThanWellFounded DEF OpToRel
<1> HIDE DEF R
<1>2. \E x \in T : \A y \in T : ~ (<<y, x>> \in R)
  BY <1>1, WFMin
<1>3. \A x, y \in Nat : <<y, x>> \in R <=> y < x
  BY DEF R
<1>4. PICK x \in T : \A y \in T : ~ (<<y, x>> \in R)
  BY <1>2
<1>5. \A y \in T : y \in Nat /\ x \in Nat
  OBVIOUS
<1>6. \A y \in T : ~(y < x)
  BY <1>3, <1>4, <1>5
<1>7. \A y \in T : x <= y
  BY <1>5, <1>6
<1> QED BY <1>7

(* Induction from m up to n, and from n down to m. *)
LEMMA UpTo ==
  ASSUME NEW m \in Int, NEW n \in Int, NEW T,
         m <= n => m \in T, \A i \in m..(n - 1) : i \in T => i + 1 \in T
  PROVE  m..n \subseteq T
<1> SUFFICES ASSUME NEW j \in m..n, j \notin T PROVE FALSE
  OBVIOUS
<1> DEFINE Bad == {k \in Nat : m + k <= n /\ m + k \notin T}
<1>1. j - m \in Bad
  OBVIOUS
<1>2. PICK k \in Bad : \A l \in Bad : k <= l
  <2>1. Bad \in SUBSET Nat /\ Bad # {}
    BY <1>1
  <2> HIDE DEF Bad
  <2> QED BY <2>1, NatLeast
<1>3. k \in Nat /\ m + k <= n /\ m + k \notin T
  BY <1>2
<1>4. k # 0
  BY <1>3
<1>5. k - 1 \in Nat /\ k - 1 \notin Bad
  BY <1>2, <1>3, <1>4
<1>6. m + (k - 1) \in T /\ m + (k - 1) \in m..(n - 1)
  BY <1>3, <1>5
<1> QED BY <1>3, <1>6

LEMMA DownTo ==
  ASSUME NEW m \in Int, NEW n \in Int, NEW T,
         m <= n => n \in T, \A i \in m..(n - 1) : i + 1 \in T => i \in T
  PROVE  m..n \subseteq T
<1> DEFINE U == {i \in m..n : m + n - i \in T}
<1>1. m <= n => m \in U
  OBVIOUS
<1>2. \A i \in m..(n - 1) : i \in U => i + 1 \in U
  <2> SUFFICES ASSUME NEW i \in m..(n - 1), i \in U PROVE i + 1 \in U
    OBVIOUS
  <2>1. m + n - i = (m + n - i - 1) + 1 /\ m + n - i - 1 \in m..(n - 1)
    OBVIOUS
  <2>2. m + n - i - 1 \in T
    BY <2>1
  <2> QED BY <2>2
<1>3. m..n \subseteq U
  <2> HIDE DEF U
  <2> QED BY <1>1, <1>2, UpTo
<1> SUFFICES ASSUME NEW j \in m..n PROVE j \in T
  OBVIOUS
<1>4. m + n - j \in m..n
  OBVIOUS
<1>5. m + n - (m + n - j) = j
  OBVIOUS
<1>6. m + n - j \in U
  BY <1>3, <1>4
<1> QED BY <1>5, <1>6

LEMMA DownTo1 ==
  ASSUME NEW n \in Nat \ {0}, NEW T, n \in T, \A i \in 1..(n - 1) : i + 1 \in T => i \in T
  PROVE  1..n \subseteq T
BY DownTo

LEMMA OnNat ==
  ASSUME NEW T, 0 \in T, \A n \in Nat : n \in T => n + 1 \in T
  PROVE  Nat \subseteq T
<1> SUFFICES ASSUME NEW n \in Nat PROVE n \in T
  OBVIOUS
<1>1. 0..n \subseteq T
  BY UpTo
<1> QED BY <1>1

(* There is a function that is given its first value and how each other    *)
(* one follows from the value before it; and one that is given its last    *)
(* value and how each other one follows from the value after it. *)
StepsUp(f, m, n, c, D) == f[m] = c /\ \A i \in (m + 1)..n : f[i] = D[<<i, f[i - 1]>>]
StepsDown(f, m, n, c, D) == f[n] = c /\ \A i \in m..(n - 1) : f[i] = D[<<i, f[i + 1]>>]

LEMMA RecursionUp ==
  ASSUME NEW m \in Int, NEW n \in Int, m <= n, NEW S, NEW c \in S,
         NEW D \in [((m + 1)..n) \X S -> S]
  PROVE  \E f \in [m..n -> S] : StepsUp(f, m, n, c, D)
<1> USE DEF StepsUp
<1> DEFINE Upto(k) == \E f \in [m..k -> S] : StepsUp(f, m, k, c, D)
           T == {k \in m..n : Upto(k)}
<1>1. m \in T
  <2>1. [i \in m..m |-> c] \in [m..m -> S] /\ [i \in m..m |-> c][m] = c /\ (m + 1)..m = {}
    OBVIOUS
  <2>2. Upto(m)
    BY <2>1
  <2> QED BY <2>2
<1>2. ASSUME NEW k \in m..(n - 1), k \in T PROVE k + 1 \in T
  <2>1. PICK f \in [m..k -> S] : StepsUp(f, m, k, c, D)
    BY <1>2
  <2> DEFINE g == [i \in m..(k + 1) |-> IF i = k + 1 THEN D[<<k + 1, f[k]>>] ELSE f[i]]
  <2>2. f[k] \in S /\ D[<<k + 1, f[k]>>] \in S
    OBVIOUS
  <2>3. g \in [m..(k + 1) -> S]
    BY <2>2
  <2>4. g[m] = c
    BY <2>1
  <2>5. ASSUME NEW i \in (m + 1)..(k + 1) PROVE g[i] = D[<<i, g[i - 1]>>]
    <3>1. CASE i = k + 1
      <4>1. g[i] = D[<<k + 1, f[k]>>] /\ g[i - 1] = f[k]
        BY <3>1
      <4> QED BY <3>1, <4>1
    <3>2. CASE i # k + 1
      <4>1. i \in (m + 1)..k /\ i - 1 \in m..k
        BY <3>2
      <4>2. g[i] = f[i] /\ g[i - 1] = f[i - 1]
        BY <4>1
      <4> QED BY <2>1, <4>1, <4>2
    <3> QED BY <3>1, <3>2
  <2> HIDE DEF g
  <2>6. Upto(k + 1)
    BY <2>3, <2>4, <2>5
  <2> QED BY <2>6
<1>3. m..n \subseteq T
  <2> HIDE DEF T
  <2> QED BY <1>1, <1>2, UpTo
<1>4. n \in T
  <2> HIDE DEF T
  <2> QED BY <1>3
<1> QED BY <1>4

LEMMA RecursionDown ==
  ASSUME NEW m \in Int, NEW n \in Int, m <= n, NEW S, NEW c \in S,
         NEW D \in [(m..(n - 1)) \X S -> S]
  PROVE  \E f \in [m..n -> S] : StepsDown(f, m, n, c, D)
<1> DEFINE E == [p \in ((m + 1)..n) \X S |-> D[<<m + n - p[1], p[2]>>]]
<1>1. E \in [((m + 1)..n) \X S -> S]
  <2>1. ASSUME NEW p \in ((m + 1)..n) \X S PROVE D[<<m + n - p[1], p[2]>>] \in S
    <3>1. m + n - p[1] \in m..(n - 1) /\ p[2] \in S
      OBVIOUS
    <3> QED BY <3>1
  <2> QED BY <2>1
<1>2. PICK g \in [m..n -> S] : StepsUp(g, m, n, c, E)
  <2> HIDE DEF E
  <2> QED BY <1>1, RecursionUp
<1> DEFINE f == [i \in m..n |-> g[m + n - i]]
<1>3. f \in [m..n -> S]
  <2>1. \A i \in m..n : m + n - i \in m..n
    OBVIOUS
  <2> QED BY <2>1
<1>4. f[n] = c
  BY <1>2 DEF StepsUp
<1>5. ASSUME NEW i \in m..(n - 1) PROVE f[i] = D[<<i, f[i + 1]>>]
  <2>1. m + n - i \in (m + 1)..n /\ m + n - i - 1 \in m..n /\ m + n - (i + 1) = m + n - i - 1
    OBVIOUS
  <2>2. f[i] = g[m + n - i] /\ f[i + 1] = g[m + n - i - 1]
    BY <2>1
  <2>3. g[m + n - i] = E[<<m + n - i, g[m + n - i - 1]>>]
    <3> HIDE DEF E
    <3> QED BY <1>2, <2>1 DEF StepsUp
  <2>4. <<m + n - i, g[m + n - i - 1]>> \in ((m + 1)..n) \X S
    BY <2>1
  <2>5. m + n - (m + n - i) = i
    OBVIOUS
  <2> QED BY <2>2, <2>3, <2>4, <2>5
<1> HIDE DEF f
<1> QED BY <1>3, <1>4, <1>5 DEF StepsDown

LEMMA RecursionDownTo1 ==
  ASSUME NEW n \in Nat \ {0}, NEW S, NEW c \in S, NEW D \in [(1..(n - 1)) \X S -> S]
  PROVE  \E f \in [1..n -> S] : StepsDown(f, 1, n, c, D)
<1>1. 1 \in Int /\ n \in Int /\ 1 <= n
  OBVIOUS
<1> QED BY <1>1, RecursionDown

(* There is a function whose value at each x follows from its values at the *)
(* elements of a lower rank, the ranks being bounded. *)
Follows(f, A, D) == \A x \in A : f[x] = D[<<x, f>>]
LowerOnly(D, A, S, rank) ==
  \A x \in A : \A f, g \in [A -> S] :
    (\A y \in A : rank[y] < rank[x] => f[y] = g[y]) => D[<<x, f>>] = D[<<x, g>>]

LEMMA RecursionByRank ==
  ASSUME NEW A, NEW S, NEW c \in S, NEW n \in Nat, NEW rank \in [A -> 0..n],
         NEW D \in [A \X [A -> S] -> S], LowerOnly(D, A, S, rank)
  PROVE  \E f \in [A -> S] : Follows(f, A, D)
<1>0. \A a, k \in Int : a # k /\ a < k + 1 => a < k
  OBVIOUS
<1> DEFINE Upto(k) == \E f \in [A -> S] : \A x \in A : rank[x] < k => f[x] = D[<<x, f>>]
           T == {k \in 0..(n + 1) : Upto(k)}
<1>1. 0 \in T
  <2>1. [x \in A |-> c] \in [A -> S] /\ \A x \in A : ~(rank[x] < 0)
    OBVIOUS
  <2>2. Upto(0)
    BY <2>1
  <2> QED BY <2>2
<1>2. ASSUME NEW k \in 0..((n + 1) - 1), k \in T PROVE k + 1 \in T
  <2>1. PICK f \in [A -> S] : \A x \in A : rank[x] < k => f[x] = D[<<x, f>>]
    BY <1>2
  <2> DEFINE g == [x \in A |-> IF rank[x] = k THEN D[<<x, f>>] ELSE f[x]]
  <2>2. g \in [A -> S]
    <3>1. \A x \in A : f[x] \in S /\ <<x, f>> \in A \X [A -> S]
      OBVIOUS
    <3>2. \A x \in A : D[<<x, f>>] \in S
      BY <3>1
    <3> QED BY <3>1, <3>2
  <2>3. \A y \in A : rank[y] < k => g[y] = f[y]
    OBVIOUS
  <2>4. ASSUME NEW x \in A, rank[x] < k + 1 PROVE g[x] = D[<<x, g>>]
    <3>1. rank[x] \in 0..n
      OBVIOUS
    <3>2. \A y \in A : rank[y] < rank[x] => g[y] = f[y]
      <4> SUFFICES ASSUME NEW y \in A, rank[y] < rank[x] PROVE g[y] = f[y]
        OBVIOUS
      <4>1. rank[y] \in 0..n /\ rank[y] < k
        BY <3>1, <2>4
      <4> QED BY <4>1, <2>3
    <3>3. D[<<x, g>>] = D[<<x, f>>]
      <4> HIDE DEF g
      <4> QED BY <3>2, <2>2 DEF LowerOnly
    <3>4. CASE rank[x] = k
      BY <3>3, <3>4
    <3>5. CASE rank[x] # k
      <4>1. rank[x] \in Int /\ k \in Int
        BY <3>1
      <4>2. rank[x] < k
        BY <4>1, <1>0, <3>5, <2>4
      <4> QED BY <4>2, <3>3, <2>1, <2>3
    <3> QED BY <3>4, <3>5
  <2> HIDE DEF g
  <2>5. Upto(k + 1)
    BY <2>2, <2>4
  <2> QED BY <2>5
<1>3. 0..(n + 1) \subseteq T
  <2>1. n + 1 \in Int /\ 0 \in Int /\ (0 <= n + 1 => 0 \in T)
    BY <1>1
  <2>2. \A k \in 0..((n + 1) - 1) : k \in T => k + 1 \in T
    BY <1>2
  <2> HIDE DEF T
  <2> QED BY <2>1, <2>2, UpTo
<1>4. n + 1 \in T
  <2> HIDE DEF T
  <2> QED BY <1>3
<1>5. PICK f \in [A -> S] : \A x \in A : rank[x] < n + 1 => f[x] = D[<<x, f>>]
  BY <1>4
<1>6. \A x \in A : rank[x] < n + 1
  <2> SUFFICES ASSUME NEW x \in A PROVE rank[x] < n + 1
    OBVIOUS
  <2>1. rank[x] \in 0..n
    OBVIOUS
  <2> QED BY <2>1
<1> QED BY <1>5, <1>6 DEF Follows

(* Induction by rank. *)
LEMMA ByRank ==
  ASSUME NEW A, NEW rank \in [A -> Nat], NEW T,
         \A x \in A : (\A y \in A : rank[y] < rank[x] => y \in T) => x \in T
  PROVE  A \subseteq T
<1> SUFFICES ASSUME NEW x \in A, x \notin T PROVE FALSE
  OBVIOUS
<1> DEFINE Bad == {k \in Nat : \E y \in A : y \notin T /\ rank[y] = k}
<1>1. rank[x] \in Bad
  OBVIOUS
<1>2. PICK k \in Bad : \A l \in Bad : k <= l
  <2>1. Bad \in SUBSET Nat /\ Bad # {}
    BY <1>1
  <2> HIDE DEF Bad
  <2> QED BY <2>1, NatLeast
<1>3. PICK y \in A : y \notin T /\ rank[y] = k
  BY <1>2
<1>4. PICK z \in A : rank[z] < rank[y] /\ z \notin T
  BY <1>3
<1>5. rank[z] \in Bad /\ rank[z] \in Nat /\ rank[y] \in Nat
  BY <1>4
<1> QED BY <1>2, <1>3, <1>4, <1>5
=============================================================================
