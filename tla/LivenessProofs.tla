--------------------------- MODULE LivenessProofs ---------------------------
(***************************************************************************)
(* Proof that the analysis of flow.c may stop when a whole traversal has   *)
(* changed nothing: it then has solved the data-flow equations, for every  *)
(* flow graph, whatever loops it has and in whatever order it is visited.  *)
(* What the equations mean for the paths of the program is proved from     *)
(* them by induction: the sets are those of the reference over program     *)
(* points, the distances are real ones, and the code generator's scan of a *)
(* block agrees.                                                           *)
(***************************************************************************)
EXTENDS Liveness, Induction, FiniteSetTheorems, FunctionTheorems, SequenceTheorems, TLAPS

Active == {stack[k] : k \in 1..Len(stack)}
Successors(b) == {child[b][i] : i \in {j \in 1..2 : child[b][j] # NoBlock}}

Shape ==
  /\ code \in [Blocks -> Seq(Quadrs)]
  /\ \A b \in Blocks : \A i \in 1..2 : child[b][i] \in Blocks \cup {NoBlock}
  /\ pc \in {"graph", "scan", "traverse", "done"} /\ changed \in BOOLEAN
  /\ pc = "scan" => scan \in Blocks
  /\ stack \in Seq(Blocks) /\ visited \subseteq Blocks
  /\ def = [b \in Blocks |-> def[b]]
  /\ in = [b \in Blocks |-> in[b]]
  /\ out = [b \in Blocks |-> out[b]]
  /\ pc \in {"graph", "scan"} => changed /\ \A b \in Blocks : out[b] = {}
  /\ stack # <<>> => pc = "traverse"
  /\ pc = "graph" => scan = 1
  /\ pc = "done" => ~changed

(* At the start of a block is live what it uses itself, and what is live   *)
(* at its end and not defined in it: at every step, not only at the end.   *)
Scanned(b) == pc \in {"traverse", "done"} \/ (pc = "scan" /\ b < scan)
Equations ==
  \A b \in Blocks : Scanned(b) => in[b] = ScanBlock(code[b]).use \cup (out[b] \ def[b])

(* Nothing is live at the end of a block that is not at a successor's start. *)
OutSound == \A b \in Blocks : out[b] \subseteq UNION {in[c] : c \in Successors(b)}

(* While a traversal has changed nothing, the blocks it has left are       *)
(* settled: it has been to their successors, and they know all that is     *)
(* live there. *)
Settled ==
  ~changed =>
    /\ 1 \in visited
    /\ \A b \in visited \ Active : \A c \in Successors(b) : c \in visited /\ in[c] \subseteq out[b]

FlowInv == Shape /\ Equations /\ OutSound /\ Settled
-----------------------------------------------------------------------------
(* What the recursive definitions compute. *)
ScanStates == [def : SUBSET Vars, use : SUBSET Vars, dist : [Vars -> Nat]]

LEMMA ScanQuadrType ==
  ASSUME NEW s \in ScanStates, NEW q \in Quadrs, NEW i \in Nat
  PROVE  ScanQuadr(s, q, i) \in ScanStates
<1>1. \A t \in ScanStates, A \in SUBSET Vars : Use(t, A, i) \in ScanStates
  BY DEF ScanStates, Use
<1>2. \A v \in Vars : Define(s, v) \in ScanStates
  BY DEF ScanStates, Define
<1>3. q.args \in SUBSET Vars
  BY DEF Quadrs
<1> HIDE DEF ScanStates
<1> QED BY <1>1, <1>2, <1>3 DEF ScanQuadr

(* What a quadruple does to what is used and defined from it on. *)
LEMMA ScanQuadrFacts ==
  ASSUME NEW s \in ScanStates, NEW q \in Quadrs, NEW i \in Nat, NEW v \in Vars, NEW t,
         t = ScanQuadr(s, q, i)
  PROVE  /\ Used(q, v) => v \in t.use /\ v \notin t.def /\ t.dist[v] = i
         /\ Assigned(q, v) /\ ~Used(q, v) => v \notin t.use /\ v \in t.def
         /\ ~Assigned(q, v) /\ ~Used(q, v) =>
              /\ v \in t.use <=> v \in s.use
              /\ v \in t.def <=> v \in s.def
              /\ t.dist[v] = s.dist[v]
<1>1. q.args \in SUBSET Vars
  BY DEF Quadrs
<1>2. PICK r : r = q.result
  OBVIOUS
<1>3. PICK u : u = IF r \in Vars /\ Assigned(q, r) THEN Define(s, r)
                   ELSE IF r \in Vars THEN Use(s, {r}, i) ELSE s
  OBVIOUS
<1>4. t = Use(u, q.args, i)
  BY <1>2, <1>3 DEF ScanQuadr
<1>5. /\ t.def = u.def \ q.args /\ t.use = u.use \cup q.args
      /\ t.dist[v] = IF v \in q.args THEN i ELSE u.dist[v]
  BY <1>4 DEF Use
<1>6. s.dist \in [Vars -> Nat]
  BY DEF ScanStates
<1>7. CASE r \in Vars /\ Assigned(q, r)
  <2>1. u.def = s.def \cup {r} /\ u.use = s.use \ {r} /\ u.dist = [s.dist EXCEPT ![r] = 0]
    BY <1>3, <1>7 DEF Define
  <2>2. v # r => u.dist[v] = s.dist[v]
    BY <1>6, <2>1
  <2> QED BY <1>2, <1>5, <1>7, <2>1, <2>2 DEF Used, Assigned
<1>8. CASE r \in Vars /\ ~Assigned(q, r)
  <2>1. u.def = s.def \ {r} /\ u.use = s.use \cup {r}
        /\ u.dist[v] = IF v = r THEN i ELSE s.dist[v]
    BY <1>3, <1>8 DEF Use
  <2>2. q.op = "write_ptr"
    BY <1>2, <1>8 DEF Assigned
  <2> QED BY <1>2, <1>5, <2>1, <2>2 DEF Used, Assigned
<1>9. CASE r \notin Vars
  BY <1>2, <1>3, <1>5, <1>9 DEF Used, Assigned
<1> QED BY <1>7, <1>8, <1>9

LEMMA ScanFromDef ==
  ASSUME NEW qs \in Seq(Quadrs)
  PROVE  /\ ScanFrom(qs) \in [1..(Len(qs) + 1) -> ScanStates]
         /\ ScanFrom(qs)[Len(qs) + 1] = Nothing
         /\ \A i \in 1..Len(qs) :
              ScanFrom(qs)[i] = ScanQuadr(ScanFrom(qs)[i + 1], qs[i], i - 1)
<1> DEFINE Is(g) == g = [i \in 1..(Len(qs) + 1) |->
                           IF i = Len(qs) + 1 THEN Nothing ELSE ScanQuadr(g[i + 1], qs[i], i - 1)]
<1>1. PICK n : n = Len(qs) + 1
  OBVIOUS
<1>2. n \in Nat \ {0}
  BY <1>1
<1>3. /\ \A i \in 1..(n - 1) : i \in 1..n /\ qs[i] \in Quadrs /\ i - 1 \in Nat /\ i + 1 \in 1..n
      /\ \A i \in 1..n : i # n <=> i \in 1..(n - 1)
      /\ n \in 1..n
  BY <1>1
<1>4. Nothing \in ScanStates
  BY DEF Nothing, ScanStates
<1> DEFINE D == [p \in (1..(n - 1)) \X ScanStates |-> ScanQuadr(p[2], qs[p[1]], p[1] - 1)]
<1>5. D \in [(1..(n - 1)) \X ScanStates -> ScanStates]
  BY <1>3, ScanQuadrType
<1>6. PICK f \in [1..n -> ScanStates] : StepsDown(f, 1, n, Nothing, D)
  <2> HIDE DEF D
  <2> QED BY <1>2, <1>4, <1>5, RecursionDownTo1
<1>7. \A i \in 1..(n - 1) : f[i] = ScanQuadr(f[i + 1], qs[i], i - 1)
  <2> SUFFICES ASSUME NEW i \in 1..(n - 1) PROVE f[i] = ScanQuadr(f[i + 1], qs[i], i - 1)
    OBVIOUS
  <2>1. f[i] = D[<<i, f[i + 1]>>]
    <3> HIDE DEF D
    <3> QED BY <1>6 DEF StepsDown
  <2>2. <<i, f[i + 1]>> \in (1..(n - 1)) \X ScanStates
    BY <1>3
  <2> QED BY <2>1, <2>2
<1>8. Is(f)
  <2> HIDE DEF D
  <2>1. f = [i \in 1..n |-> f[i]] /\ f[n] = Nothing
    BY <1>6 DEF StepsDown
  <2>2. \A i \in 1..n : f[i] = IF i = n THEN Nothing ELSE ScanQuadr(f[i + 1], qs[i], i - 1)
    BY <1>3, <1>7, <2>1
  <2> QED BY <1>1, <2>1, <2>2
<1>9. ScanFrom(qs) = CHOOSE g : Is(g)
  BY DEF ScanFrom
<1>10. Is(ScanFrom(qs))
  <2> HIDE DEF Is
  <2> QED BY <1>8, <1>9
<1>11. PICK h : h = ScanFrom(qs)
  OBVIOUS
<1>12. /\ h = [i \in 1..n |-> h[i]] /\ h[n] = Nothing
       /\ \A i \in 1..(n - 1) : h[i] = ScanQuadr(h[i + 1], qs[i], i - 1)
  <2>1. h = [i \in 1..n |-> IF i = n THEN Nothing ELSE ScanQuadr(h[i + 1], qs[i], i - 1)]
    BY <1>1, <1>10, <1>11
  <2> QED BY <1>2, <1>3, <2>1
<1>13. \A i \in 1..n : h[i] \in ScanStates
  <2> DEFINE T == {i \in 1..n : h[i] \in ScanStates}
  <2>1. n \in T
    BY <1>3, <1>4, <1>12
  <2>2. ASSUME NEW i \in 1..(n - 1), i + 1 \in T PROVE i \in T
    <3>1. h[i + 1] \in ScanStates
      BY <2>2
    <3>2. h[i] = ScanQuadr(h[i + 1], qs[i], i - 1)
      BY <1>12
    <3>3. h[i] \in ScanStates
      BY <1>3, <3>1, <3>2, ScanQuadrType
    <3> QED BY <1>3, <3>3
  <2>3. 1..n \subseteq T
    <3> HIDE DEF T
    <3> QED BY <1>2, <2>1, <2>2, DownTo1
  <2> QED BY <2>3
<1>14. n - 1 = Len(qs)
  BY <1>1
<1> QED BY <1>1, <1>11, <1>12, <1>13, <1>14
-----------------------------------------------------------------------------
(* One call of compute_in_out.  s is a stage of the sets between the two   *)
(* calls that do_liveness makes for a block. *)
Stage(s) ==
  /\ s.in = [b \in Blocks |-> s.in[b]] /\ s.out = [b \in Blocks |-> s.out[b]]
  /\ s.changed \in BOOLEAN
  /\ \A b \in Blocks : s.in[b] = ScanBlock(code[b]).use \cup (s.out[b] \ def[b])
  /\ \A b \in Blocks : s.out[b] \subseteq UNION {s.in[c] : c \in Successors(b)}

LEMMA SuccessorsBlocks ==
  ASSUME Shape, NEW b \in Blocks
  PROVE  /\ Successors(b) \subseteq Blocks
         /\ \A i \in 1..2 : child[b][i] = NoBlock \/ child[b][i] \in Successors(b)
BY DEF Shape, Successors

(* What the call writes, and that the flag is set as soon as an in set     *)
(* grows. *)
LEMMA ComputeFacts ==
  ASSUME NEW s, Stage(s), NEW b \in Blocks, NEW c \in Blocks, NEW t,
         t = ComputeInOut(s, b, c)
  PROVE  /\ t.in = [s.in EXCEPT ![b] = @ \cup (s.in[c] \ def[b])]
         /\ t.out = [s.out EXCEPT ![b] = @ \cup s.in[c]]
         /\ t.changed \in BOOLEAN
         /\ ~t.changed => ~s.changed /\ s.in[c] \ def[b] \subseteq s.in[b]
<1>1. c # NoBlock
  BY DEF Blocks, NoBlock
<1>2. /\ t.in = [s.in EXCEPT ![b] = @ \cup (s.in[c] \ def[b])]
      /\ t.out = [s.out EXCEPT ![b] = @ \cup s.in[c]]
      /\ t.changed = Grew(s, b, c)
  BY <1>1 DEF ComputeInOut
<1>3. Grew(s, b, c) \in BOOLEAN /\ (~Grew(s, b, c) => ~s.changed /\ s.in[c] \ def[b] \subseteq s.in[b])
  BY DEF Grew, NewIn, Stage
<1> QED BY <1>2, <1>3

(* The equations and the bound by the successors survive, even for a block *)
(* that is its own successor. *)
LEMMA ComputeStage ==
  ASSUME Shape, NEW s, Stage(s), NEW b \in Blocks, NEW c \in Successors(b) \cup {NoBlock}, NEW t,
         t = ComputeInOut(s, b, c)
  PROVE  /\ Stage(t)
         /\ \A a \in Blocks : s.out[a] \subseteq t.out[a]
         /\ \A a \in Blocks \ {b} : s.out[a] = t.out[a]
         /\ ~t.changed => ~s.changed /\ t.in = s.in
         /\ c # NoBlock => s.in[c] \subseteq t.out[b]
<1>1. CASE c = NoBlock
  BY <1>1 DEF ComputeInOut
<1>2. CASE c \in Successors(b)
  <2>1. c \in Blocks
    BY <1>2, SuccessorsBlocks
  <2>2. /\ t.in = [s.in EXCEPT ![b] = @ \cup (s.in[c] \ def[b])]
        /\ t.out = [s.out EXCEPT ![b] = @ \cup s.in[c]]
        /\ t.changed \in BOOLEAN
        /\ ~t.changed => ~s.changed /\ s.in[c] \ def[b] \subseteq s.in[b]
    BY <2>1, ComputeFacts
  <2>3. /\ t.in = [a \in Blocks |-> IF a = b THEN s.in[b] \cup (s.in[c] \ def[b]) ELSE s.in[a]]
        /\ t.out = [a \in Blocks |-> IF a = b THEN s.out[b] \cup s.in[c] ELSE s.out[a]]
    BY <2>2 DEF Stage
  <2>4. \A a \in Blocks : s.in[a] \subseteq t.in[a] /\ s.out[a] \subseteq t.out[a]
    BY <2>3
  <2>5. \A a \in Blocks : t.in[a] = ScanBlock(code[a]).use \cup (t.out[a] \ def[a])
    BY <2>3 DEF Stage
  <2>6. ASSUME NEW a \in Blocks PROVE t.out[a] \subseteq UNION {t.in[e] : e \in Successors(a)}
    <3>1. UNION {s.in[e] : e \in Successors(a)} \subseteq UNION {t.in[e] : e \in Successors(a)}
      BY <2>4, SuccessorsBlocks
    <3>2. s.out[a] \subseteq UNION {t.in[e] : e \in Successors(a)}
      BY <3>1 DEF Stage
    <3>3. CASE a = b
      BY <1>2, <2>1, <2>3, <2>4, <3>2, <3>3, SMTT(30)
    <3> QED BY <2>3, <3>2, <3>3
  <2>7. ASSUME ~t.changed PROVE t.in = s.in
    <3>1. s.in[b] \cup (s.in[c] \ def[b]) = s.in[b]
      BY <2>2, <2>7
    <3>2. t.in = [a \in Blocks |-> s.in[a]]
      BY <2>3, <3>1
    <3> QED BY <3>2 DEF Stage
  <2>8. Stage(t)
    BY <2>2, <2>3, <2>5, <2>6 DEF Stage
  <2> QED BY <2>2, <2>3, <2>4, <2>7, <2>8
<1> QED BY <1>1, <1>2
-----------------------------------------------------------------------------
(* The steps. *)
LEMMA FlowInit == Init => FlowInv
<1> SUFFICES ASSUME Init PROVE FlowInv
  OBVIOUS
<1>1. Shape
  BY LivenessAssumption DEF Init, Shape, Blocks, NoBlock
<1>2. Equations
  BY DEF Init, Equations, Scanned
<1>3. OutSound
  BY DEF Init, OutSound
<1> QED BY <1>1, <1>2, <1>3 DEF FlowInv, Settled, Init

(* A jump leads to a block, and so does the end of every block but the     *)
(* last. *)
LEMMA ChildrenBlocks ==
  ASSUME code \in [Blocks -> Seq(Quadrs)], NEW b \in Blocks, NEW i \in 1..2
  PROVE  Children(b)[i] \in Blocks \cup {NoBlock}
<1>1. NextBlock(b) \in Blocks \cup {NoBlock}
  BY LivenessAssumption DEF NextBlock, Blocks
<1>2. CASE code[b] = <<>>
  BY <1>1, <1>2 DEF Children
<1>3. CASE code[b] # <<>>
  <2> DEFINE last == code[b][Len(code[b])]
  <2>1. last \in Quadrs
    BY <1>3
  <2>2. last.label \in Blocks \cup {NoBlock}
    BY <2>1 DEF Quadrs
  <2> HIDE DEF last
  <2>3. \/ Children(b) = <<NoBlock, NoBlock>> \/ Children(b) = <<last.label, NoBlock>>
        \/ Children(b) = <<last.label, NextBlock(b)>> \/ Children(b) = <<NextBlock(b), NoBlock>>
    BY <1>3 DEF Children, last
  <2> QED BY <1>1, <2>2, <2>3
<1> QED BY <1>2, <1>3

LEMMA GraphStep ==
  ASSUME FlowInv, CreateGraph
  PROVE  FlowInv'
<1>1. Shape'
  <2>1. \A b \in Blocks : \A i \in 1..2 : child'[b][i] \in Blocks \cup {NoBlock}
    BY ChildrenBlocks DEF FlowInv, Shape, CreateGraph
  <2>2. scan' \in Blocks
    BY LivenessAssumption DEF FlowInv, Shape, CreateGraph, Blocks
  <2> QED BY <2>1, <2>2 DEF FlowInv, Shape, CreateGraph
<1>2. Equations'
  BY DEF FlowInv, Shape, Equations, Scanned, CreateGraph, Blocks
<1>3. OutSound'
  BY DEF FlowInv, Shape, OutSound, CreateGraph
<1>4. Settled'
  BY DEF FlowInv, Shape, Settled, CreateGraph
<1> QED BY <1>1, <1>2, <1>3, <1>4 DEF FlowInv

LEMMA ScanStep ==
  ASSUME FlowInv, Scan
  PROVE  FlowInv'
<1> DEFINE s == ScanBlock(code[scan])
<1>0. scan \in Blocks /\ Shape
  BY DEF FlowInv, Shape, Scan
<1>1. /\ def' = [def EXCEPT ![scan] = s.def]
      /\ in' = [in EXCEPT ![scan] = s.use]
      /\ \A b \in Blocks : out'[b] = {}
  BY <1>0 DEF Scan, Shape
<1> HIDE DEF s
<1>2. Shape'
  <2>1. /\ def' = [b \in Blocks |-> def'[b]] /\ in' = [b \in Blocks |-> in'[b]]
    BY <1>0, <1>1 DEF Shape
  <2>2. pc' = "scan" => scan' \in Blocks
    BY <1>0, LivenessAssumption DEF Scan, NextBlock, Blocks
  <2> QED BY <1>0, <2>1, <2>2 DEF Shape, Scan
<1>3. Equations'
  <2> SUFFICES ASSUME NEW b \in Blocks, Scanned(b)'
               PROVE  in'[b] = ScanBlock(code[b]).use
    BY <1>0, <1>1 DEF Equations, Scan
  <2>1. b = scan \/ b < scan
    BY <1>0, LivenessAssumption DEF Scanned, Scan, NextBlock, Blocks
  <2>2. CASE b = scan
    BY <1>0, <1>1, <2>2 DEF Shape, s
  <2>3. CASE b < scan
    <3>1. in'[b] = in[b]
      BY <1>0, <1>1, <2>3 DEF Shape, Blocks
    <3>2. Scanned(b) /\ out[b] = {}
      BY <1>0, <2>3 DEF Scanned, Shape, Scan
    <3> QED BY <3>1, <3>2 DEF FlowInv, Equations
  <2> QED BY <2>1, <2>2, <2>3
<1>4. OutSound'
  BY <1>1 DEF OutSound
<1>5. Settled'
  BY <1>0 DEF Shape, Settled, Scan
<1> QED BY <1>2, <1>3, <1>4, <1>5 DEF FlowInv

LEMMA BeginStep ==
  ASSUME FlowInv, BeginTraversal
  PROVE  FlowInv'
<1>1. 1 \in Blocks
  BY LivenessAssumption DEF Blocks
<1>2. Shape'
  <2>1. stack' \in Seq(Blocks) /\ visited' \subseteq Blocks
    BY <1>1 DEF BeginTraversal
  <2> QED BY <2>1 DEF FlowInv, Shape, BeginTraversal
<1>3. Settled'
  BY <1>1 DEF Settled, BeginTraversal, Active
<1> QED BY <1>2, <1>3 DEF FlowInv, Equations, Scanned, OutSound, Successors, BeginTraversal

LEMMA VisitStep ==
  ASSUME FlowInv, Visit
  PROVE  FlowInv'
<1>1. Shape /\ Top \in Blocks /\ pc = "traverse"
  BY DEF FlowInv, Shape, Visit, Top
<1>2. PICK c \in Blocks : visited' = visited \cup {c} /\ stack' = Append(stack, c)
  <2>1. PICK i \in 1..2 : /\ child[Top][i] # NoBlock
                          /\ visited' = visited \cup {child[Top][i]}
                          /\ stack' = Append(stack, child[Top][i])
    BY DEF Visit, Unvisited
  <2> QED BY <1>1, <2>1 DEF Shape
<1>3. stack' \in Seq(Blocks) /\ stack' # <<>> /\ Active' = Active \cup {c}
  <2>1. /\ stack' \in Seq(Blocks) /\ Len(stack') = Len(stack) + 1 /\ Len(stack) \in Nat
        /\ stack'[Len(stack) + 1] = c /\ \A k \in 1..Len(stack) : stack'[k] = stack[k]
    BY <1>1, <1>2 DEF Shape
  <2> QED BY <2>1 DEF Active
<1>4. Shape'
  BY <1>1, <1>2, <1>3 DEF Shape, Visit
<1>5. Settled'
  BY <1>2, <1>3 DEF FlowInv, Settled, Successors, Visit
<1> QED BY <1>4, <1>5 DEF FlowInv, Equations, Scanned, OutSound, Successors, Visit

LEMMA LeaveStep ==
  ASSUME FlowInv, Leave
  PROVE  FlowInv'
<1>1. Shape /\ Top \in Blocks /\ pc = "traverse"
  BY DEF FlowInv, Shape, Leave, Top
<1>2. PICK b \in Blocks : b = Top
  BY <1>1
<1>3. PICK c : c = child[b][1]
  OBVIOUS
<1>4. PICK e : e = child[b][2]
  OBVIOUS
<1>5. PICK r : r = State
  OBVIOUS
<1>6. PICK s : s = ComputeInOut(r, b, c)
  OBVIOUS
<1>7. PICK t : t = ComputeInOut(s, b, e)
  OBVIOUS
<1>8. /\ in' = t.in /\ out' = t.out /\ changed' = t.changed
      /\ Unvisited(b) = {}
      /\ stack' = SubSeq(stack, 1, Len(stack) - 1)
      /\ UNCHANGED <<code, child, pc, scan, def, visited>>
  BY <1>2, <1>3, <1>4, <1>5, <1>6, <1>7 DEF Leave
<1>9. /\ c \in Successors(b) \cup {NoBlock} /\ e \in Successors(b) \cup {NoBlock}
      /\ Successors(b) \subseteq {c, e}
      /\ Successors(b) \subseteq visited /\ NoBlock \notin Successors(b)
  BY <1>3, <1>4, <1>8 DEF Successors, Unvisited
<1>10. /\ r.in = in /\ r.out = out /\ r.changed = changed
       /\ Stage(r)
  BY <1>1, <1>5 DEF FlowInv, Shape, Equations, Scanned, OutSound, State, Stage
<1>11. /\ Stage(s) /\ \A a \in Blocks : r.out[a] \subseteq s.out[a]
       /\ ~s.changed => ~r.changed /\ s.in = r.in
       /\ c # NoBlock => r.in[c] \subseteq s.out[b]
  BY <1>1, <1>6, <1>9, <1>10, ComputeStage
<1>12. /\ Stage(t) /\ \A a \in Blocks : s.out[a] \subseteq t.out[a]
       /\ ~t.changed => ~s.changed /\ t.in = s.in
       /\ e # NoBlock => s.in[e] \subseteq t.out[b]
  BY <1>1, <1>7, <1>9, <1>11, ComputeStage
<1>13. stack' \in Seq(Blocks) /\ Active \subseteq Active' \cup {b}
  <2>1. /\ stack' \in Seq(Blocks) /\ Len(stack) \in Nat \ {0} /\ Len(stack') = Len(stack) - 1
        /\ \A k \in 1..(Len(stack) - 1) : stack'[k] = stack[k]
    <3>1. stack \in Seq(Blocks) /\ Len(stack) \in Nat \ {0}
      BY <1>1 DEF Shape, Leave
    <3>2. PICK n \in Int : n = Len(stack) - 1
      BY <3>1
    <3>3. \A i \in 1..n : stack[i] \in Blocks
      BY <3>1, <3>2
    <3>4. PICK w : w = SubSeq(stack, 1, n)
      OBVIOUS
    <3>5. /\ w \in Seq(Blocks)
          /\ Len(w) = (IF 1 <= n THEN n - 1 + 1 ELSE 0)
          /\ \A i \in 1..(n - 1 + 1) : w[i] = stack[1 + i - 1]
      BY <3>3, <3>4, SubSeqProperties
    <3>6. stack' = w
      BY <1>8, <3>2, <3>4
    <3> QED BY ONLY <3>1, <3>2, <3>5, <3>6
  <2> QED BY <1>2, <2>1 DEF Active, Top
<1>14. Shape'
  BY <1>1, <1>8, <1>12, <1>13 DEF Shape, Stage
<1>15. Equations' /\ OutSound'
  <2>1. \A a \in Blocks : in'[a] = ScanBlock(code[a]).use \cup (out'[a] \ def[a])
    BY <1>8, <1>12 DEF Stage
  <2>2. \A a \in Blocks : out'[a] \subseteq UNION {in'[d] : d \in Successors(a)}
    <3>1. in' = t.in /\ out' = t.out
      BY <1>8
    <3>2. \A a \in Blocks : t.out[a] \subseteq UNION {t.in[d] : d \in Successors(a)}
      BY <1>12 DEF Stage
    <3> QED BY ONLY <3>1, <3>2
  <2>3. \A a \in Blocks : Successors(a)' = Successors(a)
    BY <1>8 DEF Successors
  <2> QED BY <1>8, <2>1, <2>2, <2>3 DEF Equations, OutSound
<1>16. Settled'
  <2> SUFFICES ASSUME ~changed'
               PROVE  /\ 1 \in visited
                      /\ \A a \in visited \ Active' : \A d \in Successors(a) :
                           d \in visited /\ in'[d] \subseteq out'[a]
    BY <1>8 DEF Settled, Successors
  <2>1. ~changed /\ in' = in /\ s.in = in
    BY <1>8, <1>10, <1>11, <1>12
  <2>2. \A a \in Blocks : out[a] \subseteq out'[a]
    BY <1>8, <1>10, <1>11, <1>12
  <2>3. \A d \in Successors(b) : d \in visited /\ in'[d] \subseteq out'[b]
    BY <1>2, <1>8, <1>9, <1>10, <1>11, <1>12, <2>1
  <2>4. \A a \in visited \ Active : \A d \in Successors(a) : d \in visited /\ in[d] \subseteq out[a]
    BY <2>1 DEF FlowInv, Settled
  <2>5. visited \subseteq Blocks /\ 1 \in visited
    BY <1>1, <2>1 DEF FlowInv, Shape, Settled
  <2> QED BY <1>13, <2>1, <2>2, <2>3, <2>4, <2>5
<1> QED BY <1>14, <1>15, <1>16 DEF FlowInv

LEMMA FinishStep ==
  ASSUME FlowInv, Finish
  PROVE  FlowInv'
<1>1. Shape'
  BY DEF FlowInv, Shape, Finish
<1>2. Equations'
  BY DEF FlowInv, Equations, Scanned, Finish
<1>3. OutSound' /\ Settled'
  BY DEF FlowInv, OutSound, Settled, Successors, Active, Finish
<1> QED BY <1>1, <1>2, <1>3 DEF FlowInv

LEMMA FlowStep == FlowInv /\ [Next]_vars => FlowInv'
<1> SUFFICES ASSUME FlowInv, [Next]_vars PROVE FlowInv'
  OBVIOUS
<1>1. CASE UNCHANGED vars
  <2>1. Shape'
    BY <1>1 DEF vars, FlowInv, Shape
  <2>2. Equations'
    BY <1>1 DEF vars, FlowInv, Equations, Scanned
  <2>3. OutSound' /\ Settled'
    BY <1>1 DEF vars, FlowInv, OutSound, Settled, Successors, Active
  <2> QED BY <2>1, <2>2, <2>3 DEF FlowInv
<1> QED BY <1>1, GraphStep, ScanStep, BeginStep, VisitStep, LeaveStep, FinishStep DEF Next

THEOREM FlowInvariant == Spec => []FlowInv
<1> QED BY FlowInit, FlowStep, PTL DEF Spec

(* When the analysis is done, what is live at the end of a block that can  *)
(* be reached is what is live at the start of its successors: the blocks   *)
(* visited by the last traversal are all of these, because they are closed *)
(* under successors, and it has changed nothing. *)
THEOREM LiveAtEndExact == Spec => []OutExact
<1>1. FlowInv => OutExact
  <2> SUFFICES ASSUME FlowInv, pc = "done", NEW b \in Reachable
               PROVE  out[b] = UNION {in[c] : c \in Successors(b)}
    BY DEF OutExact, Successors
  <2>1. ~changed /\ stack = <<>> /\ visited \subseteq Blocks
    BY DEF FlowInv, Shape
  <2>2. Active = {}
    BY <2>1 DEF Active
  <2>3. 1 \in visited /\ \A a \in visited : \A c \in Successors(a) : c \in visited /\ in[c] \subseteq out[a]
    BY <2>1, <2>2 DEF FlowInv, Settled
  <2>4. Closed(visited)
    BY <2>1, <2>3, SuccessorsBlocks DEF FlowInv, Closed
  <2>5. b \in visited /\ b \in Blocks
    BY <2>1, <2>4 DEF Reachable
  <2>6. out[b] \subseteq UNION {in[c] : c \in Successors(b)}
    BY <2>5 DEF FlowInv, OutSound
  <2> QED BY <2>3, <2>5, <2>6
<1> QED BY <1>1, FlowInvariant, PTL

(* When the analysis is done, what is live at the start of every block is  *)
(* what it uses before defining it, and what is live at its end and not    *)
(* defined in it. *)
THEOREM LiveAtStartSolved ==
  Spec => [](pc = "done" =>
               \A b \in Blocks : in[b] = ScanBlock(code[b]).use \cup (out[b] \ def[b]))
<1>1. FlowInv => (pc = "done" =>
               \A b \in Blocks : in[b] = ScanBlock(code[b]).use \cup (out[b] \ def[b]))
  BY DEF FlowInv, Equations, Scanned
<1> QED BY <1>1, FlowInvariant, PTL
-----------------------------------------------------------------------------
(* The code generator's scan of a block finds the same variables live as   *)
(* the analysis: what is used from a quadruple on, and what is live at the *)
(* end and not defined from it on. *)
Results ==
  /\ in \in [Blocks -> SUBSET Vars] /\ out \in [Blocks -> SUBSET Vars]
  /\ dist \in [Blocks -> [Vars -> Nat]]
  /\ \A b \in Blocks : IF Scanned(b) THEN def[b] = ScanBlock(code[b]).def ELSE in[b] = {}

LEMMA BlockScanType ==
  ASSUME Shape, NEW b \in Blocks
  PROVE  ScanBlock(code[b]) \in ScanStates
<1>1. code[b] \in Seq(Quadrs) /\ 1 \in 1..(Len(code[b]) + 1)
  BY DEF Shape
<1> QED BY <1>1, ScanFromDef DEF ScanBlock

LEMMA LiveBeforeFacts ==
  ASSUME NEW q \in Quadrs, NEW after \in SUBSET Vars
  PROVE  /\ LiveBeforeQuadr(q, after) \in SUBSET Vars
         /\ \A v \in Vars : v \in LiveBeforeQuadr(q, after) <=>
              Used(q, v) \/ (v \in after /\ ~Assigned(q, v))
<1>1. q.args \in SUBSET Vars
  BY DEF Quadrs
<1>2. CASE q.result \in Vars /\ Assigned(q, q.result)
  BY <1>1, <1>2 DEF LiveBeforeQuadr, Used, Assigned
<1>3. CASE q.result \in Vars /\ ~Assigned(q, q.result)
  BY <1>1, <1>3 DEF LiveBeforeQuadr, Used, Assigned
<1>4. CASE q.result \notin Vars
  BY <1>1, <1>4 DEF LiveBeforeQuadr, Used, Assigned
<1> QED BY <1>2, <1>3, <1>4

LEMMA LiveBeforeDef ==
  ASSUME Shape, Results, NEW b \in Blocks
  PROVE  /\ LiveBefore(b) \in [1..(Len(code[b]) + 1) -> SUBSET Vars]
         /\ LiveBefore(b)[Len(code[b]) + 1] = out[b]
         /\ \A i \in 1..Len(code[b]) :
              LiveBefore(b)[i] = LiveBeforeQuadr(code[b][i], LiveBefore(b)[i + 1])
<1> DEFINE Is(g) == g = [i \in 1..(InstrNum(b) + 1) |->
                           IF i = InstrNum(b) + 1 THEN out[b]
                           ELSE LiveBeforeQuadr(code[b][i], g[i + 1])]
<1>0. code[b] \in Seq(Quadrs) /\ out[b] \in SUBSET Vars
  BY DEF Shape, Results
<1>1. PICK n : n = Len(code[b]) + 1 /\ n = InstrNum(b) + 1
  BY DEF InstrNum
<1>2. n \in Nat \ {0}
  BY <1>0, <1>1
<1>3. /\ \A i \in 1..(n - 1) : i \in 1..n /\ code[b][i] \in Quadrs /\ i + 1 \in 1..n
      /\ \A i \in 1..n : i # n <=> i \in 1..(n - 1)
      /\ n \in 1..n
  BY <1>0, <1>1
<1> DEFINE D == [p \in (1..(n - 1)) \X SUBSET Vars |-> LiveBeforeQuadr(code[b][p[1]], p[2])]
<1>5. D \in [(1..(n - 1)) \X SUBSET Vars -> SUBSET Vars]
  BY <1>3, LiveBeforeFacts
<1>6. PICK f \in [1..n -> SUBSET Vars] : StepsDown(f, 1, n, out[b], D)
  <2> HIDE DEF D
  <2> QED BY <1>0, <1>2, <1>5, RecursionDownTo1
<1>7. \A i \in 1..(n - 1) : f[i] = LiveBeforeQuadr(code[b][i], f[i + 1])
  <2> SUFFICES ASSUME NEW i \in 1..(n - 1) PROVE f[i] = LiveBeforeQuadr(code[b][i], f[i + 1])
    OBVIOUS
  <2>1. f[i] = D[<<i, f[i + 1]>>]
    <3> HIDE DEF D
    <3> QED BY <1>6 DEF StepsDown
  <2>2. <<i, f[i + 1]>> \in (1..(n - 1)) \X SUBSET Vars
    BY <1>3
  <2> QED BY <2>1, <2>2
<1>8. Is(f)
  <2> HIDE DEF D
  <2>1. f = [i \in 1..n |-> f[i]] /\ f[n] = out[b]
    BY <1>6 DEF StepsDown
  <2>2. \A i \in 1..n : f[i] = IF i = n THEN out[b] ELSE LiveBeforeQuadr(code[b][i], f[i + 1])
    BY <1>3, <1>7, <2>1
  <2> QED BY <1>1, <2>1, <2>2
<1>9. LiveBefore(b) = CHOOSE g : Is(g)
  BY DEF LiveBefore
<1>10. Is(LiveBefore(b))
  <2> HIDE DEF Is
  <2> QED BY <1>8, <1>9
<1>11. PICK h : h = LiveBefore(b)
  OBVIOUS
<1>12. /\ h = [i \in 1..n |-> h[i]] /\ h[n] = out[b]
       /\ \A i \in 1..(n - 1) : h[i] = LiveBeforeQuadr(code[b][i], h[i + 1])
  <2>1. h = [i \in 1..n |-> IF i = n THEN out[b] ELSE LiveBeforeQuadr(code[b][i], h[i + 1])]
    BY <1>1, <1>10, <1>11
  <2> QED BY <1>2, <1>3, <2>1
<1>13. \A i \in 1..n : h[i] \in SUBSET Vars
  <2> DEFINE T == {i \in 1..n : h[i] \in SUBSET Vars}
  <2>1. n \in T
    BY <1>0, <1>3, <1>12
  <2>2. ASSUME NEW i \in 1..(n - 1), i + 1 \in T PROVE i \in T
    <3>1. h[i + 1] \in SUBSET Vars
      BY <2>2
    <3>2. h[i] = LiveBeforeQuadr(code[b][i], h[i + 1])
      BY <1>12
    <3>3. h[i] \in SUBSET Vars
      BY <1>3, <3>1, <3>2, LiveBeforeFacts
    <3> QED BY <1>3, <3>3
  <2>3. 1..n \subseteq T
    <3> HIDE DEF T
    <3> QED BY <1>2, <2>1, <2>2, DownTo1
  <2> QED BY <2>3
<1>14. n - 1 = Len(code[b])
  BY <1>0, <1>1
<1> QED BY <1>1, <1>11, <1>12, <1>13, <1>14

(* At every quadruple of a block, the two scans agree. *)
LEMMA ScansAgree ==
  ASSUME Shape, Results, NEW b \in Blocks, NEW v \in Vars, NEW i \in 1..(Len(code[b]) + 1)
  PROVE  v \in LiveBefore(b)[i] <=>
           \/ v \in ScanFrom(code[b])[i].use
           \/ v \in out[b] /\ v \notin ScanFrom(code[b])[i].def
<1>0. code[b] \in Seq(Quadrs)
  BY DEF Shape
<1>1. PICK n : n = Len(code[b]) + 1
  OBVIOUS
<1>2. n \in Nat \ {0}
  BY <1>0, <1>1
<1>3. PICK h : h = LiveBefore(b)
  OBVIOUS
<1>4. PICK s : s = ScanFrom(code[b])
  OBVIOUS
<1>5. /\ \A j \in 1..(n - 1) : j \in 1..n /\ code[b][j] \in Quadrs /\ j + 1 \in 1..n /\ j - 1 \in Nat
      /\ n - 1 = Len(code[b])
      /\ n \in 1..n /\ i \in 1..n
  BY <1>0, <1>1
<1>6. /\ h \in [1..n -> SUBSET Vars] /\ h[n] = out[b]
      /\ \A j \in 1..(n - 1) : h[j] = LiveBeforeQuadr(code[b][j], h[j + 1])
  BY <1>1, <1>3, <1>5, LiveBeforeDef
<1>7. /\ s \in [1..n -> ScanStates] /\ s[n] = Nothing
      /\ \A j \in 1..(n - 1) : s[j] = ScanQuadr(s[j + 1], code[b][j], j - 1)
  BY <1>0, <1>1, <1>4, <1>5, ScanFromDef
<1> DEFINE Same(j) == v \in h[j] <=> v \in s[j].use \/ (v \in out[b] /\ v \notin s[j].def)
           T == {j \in 1..n : Same(j)}
<1>8. n \in T
  BY <1>5, <1>6, <1>7 DEF Nothing
<1>9. ASSUME NEW j \in 1..(n - 1), j + 1 \in T PROVE j \in T
  <2>1. Same(j + 1)
    BY <1>9
  <2>2. code[b][j] \in Quadrs /\ h[j + 1] \in SUBSET Vars /\ s[j + 1] \in ScanStates /\ j - 1 \in Nat
    BY <1>5, <1>6, <1>7
  <2>3. v \in h[j] <=> Used(code[b][j], v) \/ (v \in h[j + 1] /\ ~Assigned(code[b][j], v))
    BY <1>6, <2>2, LiveBeforeFacts
  <2>4. PICK t : t = ScanQuadr(s[j + 1], code[b][j], j - 1) /\ t = s[j]
    BY <1>7
  <2>5. /\ Used(code[b][j], v) => v \in t.use /\ v \notin t.def
        /\ Assigned(code[b][j], v) /\ ~Used(code[b][j], v) => v \notin t.use /\ v \in t.def
        /\ ~Assigned(code[b][j], v) /\ ~Used(code[b][j], v) =>
             /\ v \in t.use <=> v \in s[j + 1].use
             /\ v \in t.def <=> v \in s[j + 1].def
    BY <2>2, <2>4, ScanQuadrFacts
  <2>6. Same(j)
    BY <2>1, <2>3, <2>4, <2>5
  <2> QED BY <1>5, <2>6
<1>10. 1..n \subseteq T
  <2> HIDE DEF T
  <2> QED BY <1>2, <1>8, <1>9, DownTo1
<1>11. Same(i)
  BY <1>5, <1>10
<1> QED BY <1>3, <1>4, <1>11
-----------------------------------------------------------------------------
(* The reference: how many quadruples are executed until a use. *)
LEMMA PointFacts ==
  ASSUME Shape
  PROVE  /\ Points = {p \in Blocks \X Nat : p[2] \in 1..(Len(code[p[1]]) + 1)}
         /\ \A b \in Blocks : Len(code[b]) \in Nat
         /\ \A p \in Points : After(p) \subseteq Points
<1>1. \A b \in Blocks : Len(code[b]) \in Nat
  BY DEF Shape
<1>2. Points = {p \in Blocks \X Nat : p[2] \in 1..(Len(code[p[1]]) + 1)}
  <2>1. ASSUME NEW p \in Points PROVE p \in Blocks \X Nat /\ p[2] \in 1..(Len(code[p[1]]) + 1)
    BY <1>1 DEF Points, InstrNum
  <2>2. ASSUME NEW p \in Blocks \X Nat, p[2] \in 1..(Len(code[p[1]]) + 1) PROVE p \in Points
    <3>1. p = <<p[1], p[2]>> /\ p[1] \in Blocks
      OBVIOUS
    <3> QED BY <2>2, <3>1 DEF Points, InstrNum
  <2> QED BY <2>1, <2>2
<1>3. ASSUME NEW p \in Points PROVE After(p) \subseteq Points
  <2>1. p[1] \in Blocks /\ p[2] \in 1..(Len(code[p[1]]) + 1)
    BY <1>2
  <2>2. CASE Here(p)
    <3>1. After(p) = {<<p[1], p[2] + 1>>}
      BY <2>2 DEF After
    <3>2. p[2] + 1 \in 1..(Len(code[p[1]]) + 1)
      BY <1>1, <2>1, <2>2 DEF Here, InstrNum
    <3> QED BY <1>2, <2>1, <3>1, <3>2
  <2>3. CASE ~Here(p)
    <3>1. ASSUME NEW q \in After(p) PROVE q \in Points
      <4>1. PICK c \in Successors(p[1]) : q = <<c, 1>>
        BY <2>3 DEF After, Successors
      <4>2. c \in Blocks /\ 1 \in 1..(Len(code[c]) + 1)
        BY <1>1, <2>1, <4>1, SuccessorsBlocks
      <4> QED BY <1>2, <4>1, <4>2
    <3> QED BY <3>1
  <2> QED BY <2>2, <2>3
<1> QED BY <1>1, <1>2, <1>3

BlockPoints(b) == {<<b, i>> : i \in 1..(Len(code[b]) + 1)}

LEMMA BlockPointsCount ==
  ASSUME Shape, NEW b \in Blocks
  PROVE  /\ IsFiniteSet(BlockPoints(b)) /\ Cardinality(BlockPoints(b)) = Len(code[b]) + 1
         /\ BlockPoints(b) \subseteq Points
<1> DEFINE m == Len(code[b]) + 1
           f == [i \in 1..m |-> <<b, i>>]
<1>1. m \in Nat /\ m \in Int /\ 1 \in Int
  BY DEF Shape
<1>2. f \in Bijection(1..m, BlockPoints(b))
  BY Fun_IsBij DEF BlockPoints
<1>3. IsFiniteSet(1..m) /\ Cardinality(1..m) = m
  <2> HIDE DEF m
  <2> QED BY <1>1, FS_Interval
<1>4. IsFiniteSet(BlockPoints(b)) /\ Cardinality(BlockPoints(b)) = Cardinality(1..m)
  <2>1. ExistsBijection(1..m, BlockPoints(b))
    BY <1>2 DEF ExistsBijection
  <2> HIDE DEF m, f
  <2> QED BY <1>3, <2>1, FS_Bijection
<1>5. BlockPoints(b) \subseteq Points
  BY DEF BlockPoints, Points, InstrNum
<1> QED BY <1>3, <1>4, <1>5

LEMMA PointsFinite ==
  ASSUME Shape
  PROVE  IsFiniteSet(Points) /\ Cardinality(Points) \in Nat
<1> DEFINE S == {BlockPoints(b) : b \in Blocks}
           f == [b \in Blocks |-> BlockPoints(b)]
<1>1. IsFiniteSet(Blocks)
  BY LivenessAssumption, FS_Interval DEF Blocks
<1>2. f \in Surjection(Blocks, S)
  BY Fun_IsSurj
<1>3. IsFiniteSet(S)
  <2> HIDE DEF f, S
  <2> QED BY <1>1, <1>2, FS_Surjection
<1>4. \A T \in S : IsFiniteSet(T)
  BY BlockPointsCount
<1>5. Points = UNION S
  BY DEF Points, BlockPoints, InstrNum
<1>6. IsFiniteSet(Points)
  <2> HIDE DEF S
  <2> QED BY <1>3, <1>4, <1>5, FS_UNION
<1> QED BY <1>6, FS_CardinalityType

Dists == [Points -> SUBSET Nat]

LEMMA DistsType ==
  ASSUME Shape, NEW v
  PROVE  UsedHere(v) \in Dists /\ \A prev \in Dists : UsedLater(prev, v) \in Dists
<1>1. UsedHere(v) \in Dists
  BY DEF UsedHere, Dists
<1>2. ASSUME NEW prev \in Dists PROVE UsedLater(prev, v) \in Dists
  <2>1. ASSUME NEW p \in Points
        PROVE  prev[p] \in SUBSET Nat /\ Onward(prev, p) \in SUBSET Nat
    <3>1. \A q \in After(p) : prev[q] \in SUBSET Nat
      BY PointFacts DEF Dists
    <3>2. prev[p] \in SUBSET Nat
      BY DEF Dists
    <3> QED BY <3>1, <3>2 DEF Onward
  <2> QED BY <2>1 DEF UsedLater, Dists
<1> QED BY <1>1, <1>2

IsDists(g, v) ==
  g = [n \in 0..Cardinality(Points) |-> IF n = 0 THEN UsedHere(v) ELSE UsedLater(g[n - 1], v)]

LEMMA DistsDef ==
  ASSUME Shape, NEW v
  PROVE  /\ IsDists(DistsUpTo(v), v)
         /\ DistsUpTo(v) \in [0..Cardinality(Points) -> Dists]
<1>1. PICK n : n = Cardinality(Points) /\ n \in Nat
  BY PointsFinite
<1>2. /\ 0 \in Int /\ n \in Int /\ 0 <= n
      /\ \A i \in 0..n : i # 0 <=> i \in 1..n
      /\ \A i \in (0 + 1)..n : i \in 1..n /\ i \in 0..n /\ i - 1 \in 0..n
      /\ 0 \in 0..n
  BY <1>1
<1> DEFINE D == [p \in ((0 + 1)..n) \X Dists |-> UsedLater(p[2], v)]
<1>3. D \in [((0 + 1)..n) \X Dists -> Dists] /\ UsedHere(v) \in Dists
  BY DistsType
<1>4. PICK f \in [0..n -> Dists] : StepsUp(f, 0, n, UsedHere(v), D)
  <2>1. 0 \in Int /\ n \in Int /\ 0 <= n
    BY <1>1
  <2> HIDE DEF D
  <2> QED BY <1>3, <2>1, RecursionUp
<1>5. f[0] = UsedHere(v) /\ \A i \in 1..n : f[i] = UsedLater(f[i - 1], v)
  <2> SUFFICES ASSUME NEW i \in 1..n PROVE f[i] = UsedLater(f[i - 1], v)
    BY <1>4 DEF StepsUp
  <2>1. f[i] = D[<<i, f[i - 1]>>]
    <3> HIDE DEF D
    <3> QED BY <1>4 DEF StepsUp
  <2>2. <<i, f[i - 1]>> \in ((0 + 1)..n) \X Dists
    BY <1>2
  <2> QED BY <2>1, <2>2
<1>6. IsDists(f, v)
  <2>1. f = [i \in 0..n |-> f[i]]
    OBVIOUS
  <2>2. \A i \in 0..n : f[i] = IF i = 0 THEN UsedHere(v) ELSE UsedLater(f[i - 1], v)
    BY <1>2, <1>5
  <2> QED BY <1>1, <2>1, <2>2 DEF IsDists
<1>7. DistsUpTo(v) = CHOOSE g : IsDists(g, v)
  BY DEF DistsUpTo, IsDists
<1>8. IsDists(DistsUpTo(v), v)
  BY <1>6, <1>7
<1>9. PICK h : h = DistsUpTo(v)
  OBVIOUS
<1>10. h = [i \in 0..n |-> IF i = 0 THEN UsedHere(v) ELSE UsedLater(h[i - 1], v)]
  BY <1>1, <1>8, <1>9 DEF IsDists
<1>11. \A i \in 0..n : h[i] \in Dists
  <2> DEFINE T == {i \in 0..n : h[i] \in Dists}
  <2>1. 0 \in T
    BY <1>2, <1>3, <1>10
  <2>2. ASSUME NEW i \in 0..(n - 1), i \in T PROVE i + 1 \in T
    <3>1. i + 1 \in 0..n /\ i + 1 # 0 /\ i + 1 - 1 = i
      BY <1>1
    <3>2. PICK k \in 0..n : k = i + 1 /\ k # 0 /\ k - 1 = i
      BY <3>1
    <3>3. h[k] = UsedLater(h[k - 1], v)
      BY <1>10, <3>2
    <3>4. h[i] \in Dists
      BY <2>2
    <3>5. h[k] \in Dists
      BY <3>2, <3>3, <3>4, DistsType
    <3> QED BY <3>2, <3>5
  <2>3. 0..n \subseteq T
    <3>1. 0 \in Int /\ n \in Int
      BY <1>1
    <3> HIDE DEF T
    <3> QED BY <2>1, <2>2, <3>1, UpTo
  <2> QED BY <2>3
<1> QED BY <1>1, <1>8, <1>9, <1>10, <1>11

(* Where the recursion goes: a quadruple that uses v, one that assigns it, *)
(* one that does neither, and the end of a block. *)
LEMMA DistsFacts ==
  ASSUME Shape, NEW v, NEW p \in Points, NEW n \in 0..Cardinality(Points)
  PROVE  /\ DistsUpTo(v)[n][p] \in SUBSET Nat
         /\ Here(p) /\ Used(QuadrAt(p), v) => DistsUpTo(v)[0][p] = {0}
         /\ ~(Here(p) /\ Used(QuadrAt(p), v)) => DistsUpTo(v)[0][p] = {}
         /\ n # 0 /\ Touches(p, v) => DistsUpTo(v)[n][p] = DistsUpTo(v)[n - 1][p]
         /\ n # 0 /\ ~Touches(p, v) => DistsUpTo(v)[n][p] = Onward(DistsUpTo(v)[n - 1], p)
<1>1. PICK C : C = Cardinality(Points) /\ C \in Nat
  BY PointsFinite
<1>2. PICK h : h = DistsUpTo(v)
  OBVIOUS
<1>3. /\ h = [i \in 0..C |-> IF i = 0 THEN UsedHere(v) ELSE UsedLater(h[i - 1], v)]
      /\ h \in [0..C -> Dists]
  BY <1>1, <1>2, DistsDef DEF IsDists
<1>4. 0 \in 0..C /\ n \in 0..C
  BY <1>1
<1>5. h[0] = UsedHere(v) /\ (n # 0 => h[n] = UsedLater(h[n - 1], v))
  BY <1>3, <1>4
<1>6. h[n][p] \in SUBSET Nat
  BY <1>3, <1>4 DEF Dists
<1>7. /\ Here(p) /\ Used(QuadrAt(p), v) => h[0][p] = {0}
      /\ ~(Here(p) /\ Used(QuadrAt(p), v)) => h[0][p] = {}
  BY <1>5 DEF UsedHere
<1>8. n # 0 /\ Touches(p, v) => h[n][p] = h[n - 1][p]
  BY <1>5 DEF UsedLater
<1>9. n # 0 /\ ~Touches(p, v) => h[n][p] = Onward(h[n - 1], p)
  BY <1>5 DEF UsedLater
<1> QED BY <1>2, <1>6, <1>7, <1>8, <1>9

(* More steps find more distances, and keep those already found. *)
LEMMA DistsGrow ==
  ASSUME Shape, NEW v, NEW n \in 0..Cardinality(Points), NEW m \in 0..Cardinality(Points),
         n <= m, NEW p \in Points
  PROVE  DistsUpTo(v)[n][p] \subseteq DistsUpTo(v)[m][p]
<1>1. PICK C : C = Cardinality(Points) /\ C \in Nat
  BY PointsFinite
<1>2. PICK h : h = DistsUpTo(v)
  OBVIOUS
<1> DEFINE Grow(i) == \A q \in Points : h[i][q] \subseteq h[i + 1][q]
           T == {i \in 0..(C - 1) : Grow(i)}
<1>3. ASSUME NEW i \in 1..C, NEW q \in Points
      PROVE  /\ Touches(q, v) => h[i][q] = h[i - 1][q]
             /\ ~Touches(q, v) => h[i][q] = Onward(h[i - 1], q)
  <2>1. i \in 0..Cardinality(Points) /\ i # 0
    BY <1>1
  <2> QED BY <1>2, <2>1, DistsFacts
<1>4. C # 0 => 0 \in T
  <2> SUFFICES ASSUME C # 0, NEW q \in Points PROVE h[0][q] \subseteq h[1][q]
    BY <1>1
  <2>1. 1 \in 1..C /\ 0 \in 0..Cardinality(Points) /\ 1 - 1 = 0
    BY <1>1
  <2>2. CASE Touches(q, v)
    BY <1>3, <2>1, <2>2
  <2>3. CASE ~Touches(q, v)
    <3>1. h[0][q] = {}
      BY <1>2, <2>1, <2>3, DistsFacts DEF Touches
    <3> QED BY <3>1
  <2> QED BY <2>2, <2>3
<1>5. ASSUME NEW i \in 0..(C - 2), i \in T PROVE i + 1 \in T
  <2>1. PICK j \in 1..C : j = i + 1 /\ j \in 0..(C - 1) /\ j - 1 = i
    BY <1>1
  <2>2. PICK k \in 1..C : k = j + 1 /\ k - 1 = j
    BY <1>1, <2>1
  <2>3. ASSUME NEW q \in Points PROVE h[j][q] \subseteq h[k][q]
    <3>1. CASE Touches(q, v)
      <4>1. h[k][q] = h[k - 1][q]
        BY <1>3, <3>1
      <4> QED BY <2>2, <4>1
    <3>2. CASE ~Touches(q, v)
      <4>1. h[j][q] = Onward(h[j - 1], q) /\ h[k][q] = Onward(h[k - 1], q)
        BY <1>3, <3>2
      <4>2. h[j][q] = Onward(h[i], q) /\ h[k][q] = Onward(h[j], q)
        BY <2>1, <2>2, <4>1
      <4>3. \A r \in After(q) : h[i][r] \subseteq h[j][r]
        BY <1>5, <2>1, PointFacts
      <4>4. Onward(h[i], q) \subseteq Onward(h[j], q)
        BY <4>3 DEF Onward
      <4> QED BY <4>2, <4>4
    <3> QED BY <3>1, <3>2
  <2>4. Grow(j)
    BY <2>2, <2>3
  <2>5. j \in T
    BY <2>1, <2>4
  <2> QED BY <2>1, <2>5
<1>6. 0..(C - 1) \subseteq T
  <2>1. 0 \in Int /\ C - 1 \in Int /\ (0 <= C - 1 => 0 \in T)
    BY <1>1, <1>4
  <2>2. \A i \in 0..(C - 1 - 1) : i \in T => i + 1 \in T
    <3>1. C - 1 - 1 = C - 2
      BY <1>1
    <3> HIDE DEF T
    <3> QED BY <1>5, <3>1
  <2> HIDE DEF T
  <2> QED BY <2>1, <2>2, UpTo
<1> DEFINE U == {i \in n..C : h[n][p] \subseteq h[i][p]}
<1>7. n \in U
  BY <1>1
<1>8. ASSUME NEW i \in n..(C - 1), i \in U PROVE i + 1 \in U
  <2>1. i \in 0..(C - 1) /\ i + 1 \in n..C
    BY <1>1
  <2>2. Grow(i)
    BY <1>6, <2>1
  <2> QED BY <1>8, <2>1, <2>2
<1>9. n..C \subseteq U
  <2>1. n \in Int /\ C \in Int
    BY <1>1
  <2> HIDE DEF U
  <2> QED BY <1>7, <1>8, <2>1, UpTo
<1>10. m \in n..C
  BY <1>1
<1> QED BY <1>2, <1>9, <1>10

(* A use in the block itself is found as far away as the scan records. *)
LEMMA LocalUse ==
  ASSUME Shape, NEW b \in Blocks, NEW v \in Vars, v \in ScanBlock(code[b]).use,
         Len(code[b]) <= Cardinality(Points)
  PROVE  ScanBlock(code[b]).dist[v] \in DistsUpTo(v)[Len(code[b])][<<b, 1>>]
<1>0. code[b] \in Seq(Quadrs) /\ Cardinality(Points) \in Nat
  BY PointsFinite DEF Shape
<1>1. PICK n : n = Len(code[b]) + 1
  OBVIOUS
<1>2. n \in Nat \ {0} /\ n - 1 <= Cardinality(Points)
  BY <1>0, <1>1
<1>3. PICK h : h = DistsUpTo(v)
  OBVIOUS
<1>4. PICK s : s = ScanFrom(code[b])
  OBVIOUS
<1>5. /\ s \in [1..n -> ScanStates] /\ s[n] = Nothing
      /\ \A j \in 1..(n - 1) : s[j] = ScanQuadr(s[j + 1], code[b][j], j - 1)
  <2>1. n - 1 = Len(code[b])
    BY <1>0, <1>1
  <2> QED BY <1>0, <1>1, <1>4, <2>1, ScanFromDef
<1> DEFINE Found(i) == v \in s[i].use =>
                         s[i].dist[v] >= i - 1 /\ s[i].dist[v] - (i - 1) \in h[n - i][<<b, i>>]
           T == {i \in 1..n : Found(i)}
<1>6. n \in T
  BY <1>2, <1>5 DEF Nothing
<1>7. ASSUME NEW i \in 1..(n - 1), i + 1 \in T PROVE i \in T
  <2>0. i \in 1..n /\ i + 1 \in 1..n
    BY <1>2
  <2> SUFFICES Found(i)
    BY <2>0
  <2>1. PICK p : p = <<b, i>>
    OBVIOUS
  <2>2. PICK q : q = code[b][i] /\ q \in Quadrs
    BY <1>0, <1>1
  <2>3. /\ p \in Points /\ Here(p) /\ QuadrAt(p) = q /\ After(p) = {<<b, i + 1>>}
    <3>1. p \in Points /\ Here(p)
      BY <1>0, <1>1, <2>1, PointFacts DEF Here, InstrNum
    <3> QED BY <2>1, <2>2, <3>1 DEF QuadrAt, After
  <2>4. PICK t : t = s[i + 1] /\ t \in ScanStates
    BY <1>5, <2>0
  <2>5. PICK u : u = s[i] /\ u = ScanQuadr(t, q, i - 1) /\ i - 1 \in Nat
    BY <1>5, <2>2, <2>4
  <2>6. /\ Used(q, v) => u.dist[v] = i - 1
        /\ Assigned(q, v) /\ ~Used(q, v) => v \notin u.use
        /\ ~Assigned(q, v) /\ ~Used(q, v) =>
              (v \in u.use <=> v \in t.use) /\ u.dist[v] = t.dist[v]
    BY <2>2, <2>4, <2>5, ScanQuadrFacts
  <2>7. t.dist[v] \in Nat
    BY <2>4 DEF ScanStates
  <2>8. PICK k \in 0..Cardinality(Points) : k = n - i /\ k # 0 /\ k - 1 = n - (i + 1) /\ 0 <= k
    BY <1>0, <1>2
  <2>9. 0 \in 0..Cardinality(Points)
    BY <1>0
  <2>10. CASE Used(q, v)
    <3>1. h[0][p] = {0}
      BY <1>3, <2>3, <2>9, <2>10, DistsFacts
    <3>2. 0 \in h[k][p]
      BY <1>3, <2>3, <2>8, <2>9, <3>1, DistsGrow
    <3>3. u.dist[v] - (i - 1) = 0 /\ u.dist[v] >= i - 1
      BY <2>6, <2>10
    <3> QED BY <2>1, <2>5, <2>8, <3>2, <3>3
  <2>11. CASE Assigned(q, v) /\ ~Used(q, v)
    BY <2>5, <2>6, <2>11
  <2>12. CASE ~Assigned(q, v) /\ ~Used(q, v)
    <3> SUFFICES ASSUME v \in u.use
                 PROVE  u.dist[v] >= i - 1 /\ u.dist[v] - (i - 1) \in h[k][p]
      BY <2>1, <2>5, <2>8
    <3>1. t.dist[v] >= i /\ t.dist[v] - i \in h[n - (i + 1)][<<b, i + 1>>]
      <4>1. Found(i + 1) /\ v \in s[i + 1].use
        BY <1>7, <2>4, <2>6, <2>12
      <4>2. i + 1 - 1 = i
        OBVIOUS
      <4> QED BY <2>4, <4>1, <4>2
    <3>2. h[k][p] = Onward(h[k - 1], p)
      BY <1>3, <2>3, <2>8, <2>12, DistsFacts DEF Touches
    <3>3. (t.dist[v] - i) + 1 \in h[k][p]
      BY <2>3, <2>8, <3>1, <3>2 DEF Onward
    <3>4. (t.dist[v] - i) + 1 = u.dist[v] - (i - 1) /\ u.dist[v] >= i - 1
      BY <2>6, <2>7, <2>12, <3>1
    <3> QED BY <3>3, <3>4
  <2> QED BY <2>10, <2>11, <2>12
<1>8. 1..n \subseteq T
  <2> HIDE DEF T
  <2> QED BY <1>2, <1>6, <1>7, DownTo1
<1>9. Found(1) /\ s[1].use = ScanBlock(code[b]).use /\ s[1].dist = ScanBlock(code[b]).dist
  BY <1>2, <1>4, <1>8 DEF ScanBlock
<1>10. s[1].dist[v] - (1 - 1) = s[1].dist[v] /\ n - 1 = Len(code[b])
  <2>1. s[1].dist[v] \in Nat
    BY <1>2, <1>5 DEF ScanStates
  <2> QED BY <1>0, <1>1, <2>1
<1> QED BY <1>3, <1>9, <1>10

(* A block that neither uses nor defines v has no quadruple that does. *)
LEMMA Untouched ==
  ASSUME Shape, NEW b \in Blocks, NEW v \in Vars,
         v \notin ScanBlock(code[b]).use, v \notin ScanBlock(code[b]).def
  PROVE  \A i \in 1..Len(code[b]) : ~Used(code[b][i], v) /\ ~Assigned(code[b][i], v)
<1>0. code[b] \in Seq(Quadrs)
  BY DEF Shape
<1>1. PICK n : n = Len(code[b]) + 1
  OBVIOUS
<1>2. n \in Nat \ {0} /\ n - 1 = Len(code[b])
  BY <1>0, <1>1
<1>3. PICK s : s = ScanFrom(code[b])
  OBVIOUS
<1>4. /\ s \in [1..n -> ScanStates] /\ s[n] = Nothing
      /\ \A j \in 1..(n - 1) : s[j] = ScanQuadr(s[j + 1], code[b][j], j - 1)
  BY <1>0, <1>1, <1>2, <1>3, ScanFromDef
<1> DEFINE Free(i) == v \notin s[i].use /\ v \notin s[i].def
           T == {i \in 1..n : Free(i)}
<1>5. ASSUME NEW i \in 1..(n - 1), Free(i)
      PROVE  Free(i + 1) /\ ~Used(code[b][i], v) /\ ~Assigned(code[b][i], v)
  <2>0. i + 1 \in 1..n
    BY <1>2
  <2>1. PICK q : q = code[b][i] /\ q \in Quadrs
    BY <1>0, <1>2
  <2>2. PICK t : t = s[i + 1] /\ t \in ScanStates
    BY <1>4, <2>0
  <2>3. PICK u : u = s[i] /\ u = ScanQuadr(t, q, i - 1) /\ i - 1 \in Nat
    BY <1>4, <2>1, <2>2
  <2>4. /\ Used(q, v) => v \in u.use
        /\ Assigned(q, v) /\ ~Used(q, v) => v \in u.def
        /\ ~Assigned(q, v) /\ ~Used(q, v) =>
             (v \in u.use <=> v \in t.use) /\ (v \in u.def <=> v \in t.def)
    BY <2>1, <2>2, <2>3, ScanQuadrFacts
  <2> QED BY <1>5, <2>1, <2>2, <2>3, <2>4
<1>6. 1 \in T
  BY <1>2, <1>3 DEF ScanBlock
<1>7. \A i \in 1..(n - 1) : i \in T => i + 1 \in T
  BY <1>2, <1>5
<1>8. 1..n \subseteq T
  <2>1. 1 \in Int /\ n \in Int
    BY <1>2
  <2> HIDE DEF T
  <2> QED BY <1>6, <1>7, <2>1, UpTo
<1>9. \A i \in 1..(n - 1) : i \in 1..n
  BY <1>2
<1>10. \A i \in 1..(n - 1) : Free(i)
  BY <1>8, <1>9
<1> QED BY <1>2, <1>5, <1>10

(* Through such a block, a use after it is found as much farther away as   *)
(* the block is long. *)
LEMMA PassedThrough ==
  ASSUME Shape, NEW b \in Blocks, NEW v \in Vars,
         v \notin ScanBlock(code[b]).use, v \notin ScanBlock(code[b]).def,
         NEW c \in Successors(b), NEW m \in Nat, m + Len(code[b]) + 1 <= Cardinality(Points),
         NEW d \in DistsUpTo(v)[m][<<c, 1>>]
  PROVE  d + Len(code[b]) \in DistsUpTo(v)[m + Len(code[b]) + 1][<<b, 1>>]
<1>0. code[b] \in Seq(Quadrs) /\ Cardinality(Points) \in Nat
  BY PointsFinite DEF Shape
<1>1. PICK n : n = Len(code[b]) + 1
  OBVIOUS
<1>2. n \in Nat \ {0} /\ m + n <= Cardinality(Points)
  BY <1>0, <1>1
<1>3. PICK h : h = DistsUpTo(v)
  OBVIOUS
<1>4. d \in Nat
  <2>1. c \in Blocks /\ <<c, 1>> \in Points
    BY SuccessorsBlocks, PointFacts
  <2>2. m \in 0..Cardinality(Points)
    BY <1>0, <1>2
  <2> QED BY <2>1, <2>2, DistsFacts
<1> DEFINE Found(i) == d + (n - i) \in h[m + (n - i) + 1][<<b, i>>]
           T == {i \in 1..n : Found(i)}
<1>5. ASSUME NEW i \in 1..n
      PROVE  /\ <<b, i>> \in Points
             /\ ~Touches(<<b, i>>, v)
             /\ Here(<<b, i>>) <=> i # n
             /\ i # n => After(<<b, i>>) = {<<b, i + 1>>}
             /\ i = n => <<c, 1>> \in After(<<b, i>>)
             /\ m + (n - i) + 1 \in 0..Cardinality(Points) /\ m + (n - i) + 1 # 0
  <2>1. <<b, i>> \in Points
    BY <1>0, <1>1, PointFacts
  <2>2. Here(<<b, i>>) <=> i # n
    BY <1>0, <1>1 DEF Here, InstrNum
  <2>3. ~Touches(<<b, i>>, v)
    BY <1>0, <1>1, <2>2, Untouched DEF Touches, QuadrAt
  <2>4. i # n => After(<<b, i>>) = {<<b, i + 1>>}
    BY <2>2 DEF After
  <2>5. i = n => <<c, 1>> \in After(<<b, i>>)
    BY <2>2 DEF After, Successors
  <2>6. m + (n - i) + 1 \in 0..Cardinality(Points) /\ m + (n - i) + 1 # 0
    BY <1>0, <1>2
  <2> QED BY <2>1, <2>2, <2>3, <2>4, <2>5, <2>6
<1>6. ASSUME NEW i \in 1..n
      PROVE  h[m + (n - i) + 1][<<b, i>>] = Onward(h[m + (n - i)], <<b, i>>)
  <2>1. PICK k \in 0..Cardinality(Points) : k = m + (n - i) + 1 /\ k # 0 /\ k - 1 = m + (n - i)
    <3>1. m + (n - i) + 1 \in 0..Cardinality(Points) /\ m + (n - i) + 1 # 0
      BY <1>5
    <3>2. (m + (n - i) + 1) - 1 = m + (n - i)
      BY <1>2
    <3> QED BY <3>1, <3>2
  <2>2. PICK p \in Points : p = <<b, i>> /\ ~Touches(p, v)
    BY <1>5
  <2>3. h[k][p] = Onward(h[k - 1], p)
    BY <1>3, <2>1, <2>2, DistsFacts
  <2> QED BY <2>1, <2>2, <2>3
<1>7. n \in T
  <2>1. n \in 1..n /\ n - n = 0 /\ m + 0 = m /\ d + 0 = d
    BY <1>2, <1>4
  <2>2. PICK p : p = <<b, n>>
    OBVIOUS
  <2>3. ~Here(p) /\ <<c, 1>> \in After(p)
    BY <1>5, <2>1, <2>2
  <2>4. d \in Onward(h[m], p)
    BY <1>3, <2>3 DEF Onward
  <2>5. Onward(h[m], p) = h[m + (n - n) + 1][p]
    BY <1>6, <2>1, <2>2
  <2> QED BY <2>1, <2>2, <2>4, <2>5
<1>8. ASSUME NEW i \in 1..(n - 1), i + 1 \in T PROVE i \in T
  <2>1. i \in 1..n /\ i # n /\ (d + (n - (i + 1))) + 1 = d + (n - i)
        /\ m + (n - (i + 1)) + 1 = m + (n - i)
    BY <1>2, <1>4
  <2>2. PICK p : p = <<b, i>>
    OBVIOUS
  <2>3. Here(p) /\ After(p) = {<<b, i + 1>>}
    BY <1>5, <2>1, <2>2
  <2>4. d + (n - (i + 1)) \in h[m + (n - i)][<<b, i + 1>>]
    <3>1. Found(i + 1)
      BY <1>8
    <3> QED BY <2>1, <3>1
  <2>5. (d + (n - (i + 1))) + 1 \in Onward(h[m + (n - i)], p)
    BY <2>3, <2>4 DEF Onward
  <2>6. Onward(h[m + (n - i)], p) = h[m + (n - i) + 1][p]
    BY <1>6, <2>1, <2>2
  <2> QED BY <2>1, <2>2, <2>5, <2>6
<1>9. 1..n \subseteq T
  <2> HIDE DEF T
  <2> QED BY <1>2, <1>7, <1>8, DownTo1
<1>10. Found(1)
  BY <1>2, <1>9
<1>11. n - 1 = Len(code[b]) /\ m + (n - 1) + 1 = m + Len(code[b]) + 1
  BY <1>0, <1>1
<1> QED BY <1>3, <1>10, <1>11
-----------------------------------------------------------------------------
(* Every distance recorded is found by the reference within as many steps  *)
(* as there are points in the blocks at whose start the variable is known  *)
(* to be live: a block is entered for a variable when it is not yet among  *)
(* these, and counts on a successor that is. *)
Known(inn, v) == {p \in Points : v \in inn[p[1]]}
Near(inn, ds, v, b) == ds[b][v] \in DistsUpTo(v)[Cardinality(Known(inn, v))][<<b, 1>>]
Distances == \A v \in Vars : \A b \in Blocks : v \in in[b] => Near(in, dist, v, b)

ReachStage(s) ==
  /\ s.in \in [Blocks -> SUBSET Vars] /\ s.out \in [Blocks -> SUBSET Vars]
  /\ s.dist \in [Blocks -> [Vars -> Nat]]
  /\ \A v \in Vars : \A b \in Blocks : v \in s.in[b] => Near(s.in, s.dist, v, b)

LEMMA KnownCount ==
  ASSUME Shape, NEW inn, NEW v
  PROVE  /\ IsFiniteSet(Known(inn, v))
         /\ Cardinality(Known(inn, v)) \in 0..Cardinality(Points)
<1>1. Known(inn, v) \in SUBSET Points
  BY DEF Known
<1>2. IsFiniteSet(Known(inn, v)) /\ Cardinality(Known(inn, v)) <= Cardinality(Points)
  BY <1>1, PointsFinite, FS_Subset
<1> QED BY <1>2, PointsFinite, FS_CardinalityType

(* What was near stays near when more is known. *)
LEMMA NearStays ==
  ASSUME Shape, NEW inn, NEW more, NEW ds, NEW es, NEW v, NEW b \in Blocks,
         \A a \in Blocks : v \in inn[a] => v \in more[a],
         Near(inn, ds, v, b), es[b][v] = ds[b][v]
  PROVE  Near(more, es, v, b)
<1>1. Known(inn, v) \in SUBSET Known(more, v)
  BY PointFacts DEF Known
<1>2. Cardinality(Known(inn, v)) <= Cardinality(Known(more, v))
  BY <1>1, KnownCount, FS_Subset
<1>3. <<b, 1>> \in Points
  BY PointFacts
<1>4. /\ Cardinality(Known(inn, v)) \in 0..Cardinality(Points)
      /\ Cardinality(Known(more, v)) \in 0..Cardinality(Points)
  BY KnownCount
<1>5. DistsUpTo(v)[Cardinality(Known(inn, v))][<<b, 1>>]
        \subseteq DistsUpTo(v)[Cardinality(Known(more, v))][<<b, 1>>]
  BY <1>2, <1>3, <1>4, DistsGrow
<1> QED BY <1>5 DEF Near

(* What compute_in_out does to the distances: those of variables already   *)
(* known stay, and the new ones are entered as beyond the block. *)
DistanceWritten(s, t, b, c) ==
  /\ t.dist \in [Blocks -> [Vars -> Nat]]
  /\ \A a \in Blocks : \A v \in Vars : v \in s.in[a] => t.dist[a][v] = s.dist[a][v]
  /\ \A v \in NewIn(s, b, c) : t.dist[b][v] = s.dist[c][v] + Len(code[b])

LEMMA ComputeDistance ==
  ASSUME Shape, NEW s, ReachStage(s), NEW b \in Blocks, NEW c \in Blocks, NEW t,
         t = ComputeInOut(s, b, c)
  PROVE  DistanceWritten(s, t, b, c)
<1>1. c # NoBlock
  BY DEF Blocks, NoBlock
<1>2. PICK m \in Nat : m = Len(code[b]) /\ m = InstrNum(b)
  BY PointFacts DEF InstrNum
<1>3. PICK far : far = DistThrough(s, b, c)
  OBVIOUS
<1>4. far \in [Vars -> Nat] /\ \A v \in Vars : far[v] = s.dist[c][v] + m
  BY <1>2, <1>3 DEF DistThrough, ReachStage
<1>5. PICK new : new = NewIn(s, b, c)
  OBVIOUS
<1>6. PICK pass : pass = s.in[c] \ def[b]
  OBVIOUS
<1>7. new = pass \ s.in[b] /\ new \subseteq Vars
  BY <1>5, <1>6 DEF NewIn, ReachStage
<1>8. PICK d : d = [s.dist EXCEPT ![b] = [v \in Vars |-> IF v \in new THEN far[v] ELSE @[v]]]
  OBVIOUS
<1>9. t.dist = [d EXCEPT ![c] = [v \in Vars |-> IF v \in pass \ new
                                                THEN Smaller(@[v], far[v]) ELSE @[v]]]
  BY <1>1, <1>3, <1>5, <1>6, <1>8 DEF ComputeInOut
<1>10. d \in [Blocks -> [Vars -> Nat]]
       /\ \A a \in Blocks : \A v \in Vars :
            d[a][v] = IF a = b /\ v \in new THEN far[v] ELSE s.dist[a][v]
  <2>1. s.dist \in [Blocks -> [Vars -> Nat]]
    BY DEF ReachStage
  <2>2. [v \in Vars |-> IF v \in new THEN far[v] ELSE s.dist[b][v]] \in [Vars -> Nat]
    BY <1>4, <2>1
  <2>3. d = [s.dist EXCEPT ![b] = [v \in Vars |-> IF v \in new THEN far[v] ELSE s.dist[b][v]]]
    BY <1>8
  <2> QED BY <2>1, <2>2, <2>3
<1>11. t.dist \in [Blocks -> [Vars -> Nat]]
       /\ \A a \in Blocks : \A v \in Vars :
            t.dist[a][v] = IF a = c /\ v \in pass \ new THEN Smaller(d[c][v], far[v]) ELSE d[a][v]
  <2>1. [v \in Vars |-> IF v \in pass \ new THEN Smaller(d[c][v], far[v]) ELSE d[c][v]]
          \in [Vars -> Nat]
    BY <1>4, <1>10 DEF Smaller
  <2>2. t.dist = [d EXCEPT ![c] = [v \in Vars |-> IF v \in pass \ new
                                                   THEN Smaller(d[c][v], far[v]) ELSE d[c][v]]]
    BY <1>9
  <2> QED BY <1>10, <2>1, <2>2
<1>12. ASSUME NEW v \in Vars PROVE b = c => v \notin new
  BY <1>6, <1>7
<1>13. \A a \in Blocks : \A v \in Vars : v \in s.in[a] => t.dist[a][v] = s.dist[a][v]
  <2> SUFFICES ASSUME NEW a \in Blocks, NEW v \in Vars, v \in s.in[a]
               PROVE  t.dist[a][v] = s.dist[a][v]
    OBVIOUS
  <2>1. d[a][v] = s.dist[a][v]
    BY <1>7, <1>10
  <2>2. s.dist[c][v] \in Nat
    BY DEF ReachStage
  <2>3. a = c => Smaller(d[c][v], far[v]) = d[a][v]
    BY <1>2, <1>4, <2>1, <2>2 DEF Smaller
  <2> QED BY <1>11, <2>1, <2>3
<1>14. ASSUME NEW v \in new PROVE t.dist[b][v] = s.dist[c][v] + m
  <2>1. v \in Vars /\ b # c
    BY <1>7, <1>12
  <2> QED BY <1>4, <1>10, <1>11, <2>1
<1> QED BY <1>2, <1>5, <1>11, <1>13, <1>14 DEF DistanceWritten

LEMMA ComputeReach ==
  ASSUME Shape, NEW s, Stage(s), ReachStage(s), NEW b \in Blocks, NEW c \in Successors(b) \cup {NoBlock},
         def[b] = ScanBlock(code[b]).def, NEW t, t = ComputeInOut(s, b, c)
  PROVE  ReachStage(t)
<1>1. CASE c = NoBlock
  BY <1>1 DEF ComputeInOut
<1>2. CASE c \in Successors(b)
  <2>1. c \in Blocks
    BY <1>2, SuccessorsBlocks
  <2>2. /\ t.in = [s.in EXCEPT ![b] = @ \cup (s.in[c] \ def[b])]
        /\ t.out = [s.out EXCEPT ![b] = @ \cup s.in[c]]
    BY <2>1, ComputeFacts
  <2>3. /\ t.in \in [Blocks -> SUBSET Vars] /\ t.out \in [Blocks -> SUBSET Vars]
        /\ \A a \in Blocks : s.in[a] \subseteq t.in[a]
        /\ \A a \in Blocks : \A v \in t.in[a] : v \in s.in[a] \/ (a = b /\ v \in NewIn(s, b, c))
    BY <2>1, <2>2 DEF ReachStage, NewIn
  <2>4. DistanceWritten(s, t, b, c)
    BY <2>1, ComputeDistance
  <2>5. ASSUME NEW v \in Vars, NEW a \in Blocks, v \in s.in[a] PROVE Near(t.in, t.dist, v, a)
    <3>1. Near(s.in, s.dist, v, a)
      BY <2>5 DEF ReachStage
    <3>2. t.dist[a][v] = s.dist[a][v]
      BY <2>4, <2>5 DEF DistanceWritten
    <3>3. \A e \in Blocks : v \in s.in[e] => v \in t.in[e]
      BY <2>3
    <3> QED BY <3>1, <3>2, <3>3, NearStays
  <2>6. ASSUME NEW v \in Vars, v \in NewIn(s, b, c) PROVE Near(t.in, t.dist, v, b)
    <3>1. v \in s.in[c] /\ v \notin def[b] /\ v \notin s.in[b] /\ v \in t.in[b]
      BY <2>1, <2>2, <2>6 DEF NewIn, ReachStage
    <3>2. v \notin ScanBlock(code[b]).use
      BY <3>1 DEF Stage
    <3>3. PICK K : K = Known(s.in, v)
      OBVIOUS
    <3>4. /\ IsFiniteSet(K) /\ Cardinality(K) \in Nat
          /\ IsFiniteSet(BlockPoints(b)) /\ Cardinality(BlockPoints(b)) = Len(code[b]) + 1
      BY <3>3, KnownCount, BlockPointsCount
    <3>5. K \cap BlockPoints(b) = {}
      BY <3>1, <3>3 DEF Known, BlockPoints
    <3>6. Known(t.in, v) = K \cup BlockPoints(b)
      <4>1. ASSUME NEW p \in Points PROVE v \in t.in[p[1]] <=> v \in s.in[p[1]] \/ p[1] = b
        BY <2>3, <3>1, PointFacts
      <4>2. \A p \in Points : p[1] = b <=> p \in BlockPoints(b)
        BY PointFacts DEF BlockPoints
      <4> QED BY <3>3, <4>1, <4>2, BlockPointsCount DEF Known
    <3>7. Cardinality(Known(t.in, v)) = Cardinality(K) + Len(code[b]) + 1
      <4>1. Cardinality(K \cup BlockPoints(b))
              = Cardinality(K) + Cardinality(BlockPoints(b)) - Cardinality(K \cap BlockPoints(b))
        BY <3>4, FS_Union
      <4>2. Cardinality({}) = 0
        BY FS_EmptySet
      <4>3. Len(code[b]) \in Nat
        BY PointFacts
      <4>4. Cardinality(Known(t.in, v))
              = Cardinality(K) + Cardinality(BlockPoints(b)) - Cardinality({})
        BY <3>5, <3>6, <4>1
      <4> QED BY <3>4, <4>2, <4>3, <4>4
    <3>8. Cardinality(K) + Len(code[b]) + 1 <= Cardinality(Points)
      BY <3>7, KnownCount, PointsFinite
    <3>9. s.dist[c][v] \in DistsUpTo(v)[Cardinality(K)][<<c, 1>>]
      BY <2>1, <3>1, <3>3 DEF ReachStage, Near
    <3>10. s.dist[c][v] + Len(code[b]) \in DistsUpTo(v)[Cardinality(K) + Len(code[b]) + 1][<<b, 1>>]
      BY <1>2, <3>1, <3>2, <3>4, <3>8, <3>9, PassedThrough
    <3> QED BY <2>4, <2>6, <3>7, <3>10 DEF Near, DistanceWritten
  <2> QED BY <2>3, <2>4, <2>5, <2>6 DEF ReachStage, DistanceWritten
<1> QED BY <1>1, <1>2
-----------------------------------------------------------------------------
(* The reference reads the code and the graph, which no step changes once  *)
(* the graph is made. *)
LEMMA DistsSame ==
  ASSUME Shape, NEW v, code' = code, child' = child
  PROVE  Points' = Points /\ DistsUpTo(v)' = DistsUpTo(v)
<1>1. PICK C : C = Cardinality(Points) /\ C \in Nat
  BY PointsFinite
<1>2. Points' = Points
  BY DEF Points, InstrNum
<1>3. UsedHere(v)' = UsedHere(v)
  BY <1>2 DEF UsedHere, Here, QuadrAt, InstrNum
<1>4. \A prev : UsedLater(prev, v)' = UsedLater(prev, v)
  BY <1>2 DEF UsedLater, Touches, Onward, Here, QuadrAt, InstrNum, After
<1> DEFINE Is(g) == g = [n \in 0..C |-> IF n = 0 THEN UsedHere(v) ELSE UsedLater(g[n - 1], v)]
           IsNext(g) == g = [n \in 0..C |-> IF n = 0 THEN UsedHere(v)' ELSE UsedLater(g[n - 1], v)']
<1>5. \A g : Is(g) <=> IsNext(g)
  <2> SUFFICES ASSUME NEW g PROVE Is(g) <=> IsNext(g)
    OBVIOUS
  <2>1. \A n \in 0..C : UsedLater(g[n - 1], v)' = UsedLater(g[n - 1], v)
    BY <1>4
  <2> QED BY <1>3, <2>1
<1>6. Is(DistsUpTo(v))
  BY <1>1, DistsDef DEF IsDists
<1>7. DistsUpTo(v)' = CHOOSE g : IsNext(g)
  BY <1>1, <1>2 DEF DistsUpTo
<1>8. Is(DistsUpTo(v)')
  <2> HIDE DEF Is, IsNext
  <2> QED BY <1>5, <1>6, <1>7
<1>9. PICK f : f = DistsUpTo(v)
  OBVIOUS
<1>10. PICK g : g = DistsUpTo(v)'
  OBVIOUS
<1>11. Is(f) /\ Is(g)
  BY <1>6, <1>8, <1>9, <1>10
<1> DEFINE T == {n \in 0..C : f[n] = g[n]}
<1>12. 0 \in T
  BY <1>1, <1>11
<1>13. ASSUME NEW n \in 0..(C - 1), n \in T PROVE n + 1 \in T
  <2>1. PICK m \in 0..C : m = n + 1 /\ m # 0 /\ m - 1 = n
    BY <1>1
  <2>2. f[m] = UsedLater(f[m - 1], v) /\ g[m] = UsedLater(g[m - 1], v)
    BY <1>11, <2>1
  <2>3. f[m - 1] = g[m - 1]
    BY <1>13, <2>1
  <2> QED BY <2>1, <2>2, <2>3
<1>14. 0..C \subseteq T
  <2>1. 0 \in Int /\ C \in Int
    BY <1>1
  <2> HIDE DEF T
  <2> QED BY <1>12, <1>13, <2>1, UpTo
<1>15. f = g
  <2>1. f = [n \in 0..C |-> f[n]] /\ g = [n \in 0..C |-> g[n]]
    BY <1>11
  <2> QED BY <1>14, <2>1
<1> QED BY <1>2, <1>9, <1>10, <1>15

ReachInv == FlowInv /\ Results /\ Distances

LEMMA ReachInit == Init => ReachInv
<1> SUFFICES ASSUME Init PROVE Results /\ Distances
  BY FlowInit DEF ReachInv
<1>1. Results
  BY DEF Init, Results, Scanned
<1> QED BY <1>1 DEF Init, Distances

(* A step that leaves the sets alone. *)
LEMMA ReachSame ==
  ASSUME ReachInv, Shape', UNCHANGED <<code, child, def, in, out, dist>>,
         \A b \in Blocks : Scanned(b)' <=> Scanned(b)
  PROVE  Results' /\ Distances'
<1>1. Results'
  BY DEF ReachInv, Results
<1>2. Distances'
  <2> SUFFICES ASSUME NEW v \in Vars, NEW b \in Blocks, v \in in[b]
               PROVE  Near(in, dist, v, b)'
    BY DEF Distances
  <2>1. Points' = Points /\ DistsUpTo(v)' = DistsUpTo(v)
    BY DistsSame DEF ReachInv, FlowInv
  <2>2. Near(in, dist, v, b)
    BY DEF ReachInv, Distances
  <2> QED BY <2>1, <2>2 DEF Near, Known
<1> QED BY <1>1, <1>2

LEMMA ReachGraph ==
  ASSUME ReachInv, CreateGraph
  PROVE  Results' /\ Distances'
<1>1. pc = "graph" /\ pc' = "scan" /\ scan' = 1
      /\ UNCHANGED <<code, def, in, out, dist>>
  BY DEF ReachInv, FlowInv, Shape, CreateGraph
<1>2. \A b \in Blocks : in[b] = {} /\ ~Scanned(b)'
  BY <1>1 DEF ReachInv, Results, Scanned, Blocks
<1> QED BY <1>1, <1>2 DEF ReachInv, Results, Distances

LEMMA ReachScan ==
  ASSUME ReachInv, Scan
  PROVE  Results' /\ Distances'
<1> DEFINE s == ScanBlock(code[scan])
<1>0. scan \in Blocks /\ Shape /\ FlowInv /\ FlowInv'
  BY ScanStep DEF ReachInv, FlowInv, Shape, Scan
<1>1. /\ def' = [def EXCEPT ![scan] = s.def] /\ in' = [in EXCEPT ![scan] = s.use]
      /\ dist' = [dist EXCEPT ![scan] = s.dist] /\ UNCHANGED <<code, child, out>>
  BY DEF Scan
<1>2. s \in ScanStates
  BY <1>0, BlockScanType
<1>3. s.def \in SUBSET Vars /\ s.use \in SUBSET Vars /\ s.dist \in [Vars -> Nat]
  BY <1>2 DEF ScanStates
<1> HIDE DEF s
<1>4. in' \in [Blocks -> SUBSET Vars] /\ out' \in [Blocks -> SUBSET Vars] /\ dist' \in [Blocks -> [Vars -> Nat]]
  BY <1>1, <1>3 DEF ReachInv, Results
<1>5. \A b \in Blocks : Scanned(b)' <=> Scanned(b) \/ b = scan
  BY <1>0, LivenessAssumption DEF Scan, Scanned, NextBlock, Blocks
<1>6. ~Scanned(scan)
  BY <1>0 DEF Scan, Scanned, Blocks
<1>7. Results'
  <2> SUFFICES ASSUME NEW b \in Blocks
               PROVE  IF Scanned(b)' THEN def'[b] = ScanBlock(code[b]).def ELSE in'[b] = {}
    BY <1>1, <1>4 DEF Results
  <2>1. CASE b = scan
    BY <1>0, <1>1, <1>5, <2>1 DEF FlowInv, Shape, s
  <2>2. CASE b # scan
    <3>1. def'[b] = def[b] /\ in'[b] = in[b]
      BY <1>0, <1>1, <2>2 DEF FlowInv, Shape
    <3> QED BY <1>5, <2>2, <3>1 DEF ReachInv, Results
  <2> QED BY <2>1, <2>2
<1>8. Distances'
  <2> SUFFICES ASSUME NEW v \in Vars, NEW b \in Blocks, v \in in'[b]
               PROVE  Near(in, dist, v, b)'
    BY DEF Distances
  <2>1. Points' = Points /\ DistsUpTo(v)' = DistsUpTo(v)
    BY <1>0, <1>1, DistsSame
  <2>2. Near(in, dist, v, b)' <=> Near(in', dist', v, b)
    BY <2>1 DEF Near, Known
  <2>3. \A a \in Blocks : in[a] \subseteq in'[a]
    BY <1>0, <1>1, <1>6 DEF ReachInv, Results
  <2>4. CASE b = scan
    <3>1. v \in s.use /\ dist'[b][v] = s.dist[v]
      BY <1>0, <1>1, <1>3, <2>4 DEF ReachInv, Results
    <3>2. BlockPoints(b) \in SUBSET Known(in', v)
      <4>1. BlockPoints(b) \subseteq Points
        BY <1>0, BlockPointsCount
      <4>2. \A p \in BlockPoints(b) : p[1] = b
        BY DEF BlockPoints
      <4> QED BY <4>1, <4>2 DEF Known
    <3>3. Len(code[b]) + 1 <= Cardinality(Known(in', v))
      BY <1>0, <3>2, BlockPointsCount, KnownCount, FS_Subset
    <3>4. PICK m \in 0..Cardinality(Points) : m = Cardinality(Known(in', v))
      BY <1>0, KnownCount
    <3>5. PICK l \in Nat : l = Len(code[b])
      BY <1>0, PointFacts
    <3>6. l \in 0..Cardinality(Points) /\ l <= m /\ l <= Cardinality(Points)
      BY <1>0, <3>3, <3>4, <3>5, PointsFinite
    <3>7. s.dist[v] \in DistsUpTo(v)[l][<<b, 1>>]
      BY <1>0, <2>4, <3>1, <3>5, <3>6, LocalUse DEF s
    <3>8. <<b, 1>> \in Points
      BY <1>0, PointFacts
    <3>9. DistsUpTo(v)[l][<<b, 1>>] \subseteq DistsUpTo(v)[m][<<b, 1>>]
      BY <1>0, <3>6, <3>8, DistsGrow
    <3> QED BY <2>2, <3>1, <3>4, <3>7, <3>9 DEF Near
  <2>5. CASE b # scan
    <3>1. v \in in[b] /\ dist'[b][v] = dist[b][v]
      BY <1>0, <1>1, <2>5 DEF ReachInv, FlowInv, Shape, Results
    <3>2. Near(in, dist, v, b)
      BY <3>1 DEF ReachInv, Distances
    <3>3. Near(in', dist', v, b)
      BY <1>0, <2>3, <3>1, <3>2, NearStays
    <3> QED BY <2>2, <3>3
  <2> QED BY <2>4, <2>5
<1> QED BY <1>7, <1>8

LEMMA ReachLeave ==
  ASSUME ReachInv, Leave
  PROVE  Results' /\ Distances'
<1>1. FlowInv /\ Shape /\ Top \in Blocks /\ pc = "traverse"
  BY DEF ReachInv, FlowInv, Shape, Leave, Top
<1>2. PICK b \in Blocks : b = Top
  BY <1>1
<1>3. PICK c : c = child[b][1]
  OBVIOUS
<1>4. PICK e : e = child[b][2]
  OBVIOUS
<1>5. PICK r : r = State
  OBVIOUS
<1>6. PICK s : s = ComputeInOut(r, b, c)
  OBVIOUS
<1>7. PICK t : t = ComputeInOut(s, b, e)
  OBVIOUS
<1>8. /\ in' = t.in /\ out' = t.out /\ dist' = t.dist
      /\ UNCHANGED <<code, child, pc, scan, def>>
  BY <1>2, <1>3, <1>4, <1>5, <1>6, <1>7 DEF Leave
<1>9. c \in Successors(b) \cup {NoBlock} /\ e \in Successors(b) \cup {NoBlock}
  BY <1>3, <1>4 DEF Successors
<1>10. r.in = in /\ r.out = out /\ r.dist = dist /\ Stage(r)
  BY <1>1, <1>5 DEF FlowInv, Shape, Equations, Scanned, OutSound, State, Stage
<1>11. ReachStage(r)
  BY <1>10 DEF ReachInv, Results, Distances, ReachStage
<1>12. def[b] = ScanBlock(code[b]).def
  BY <1>1 DEF ReachInv, Results, Scanned
<1>13. Stage(s) /\ ReachStage(s)
  BY <1>1, <1>6, <1>9, <1>10, <1>11, <1>12, ComputeStage, ComputeReach
<1>14. ReachStage(t)
  BY <1>1, <1>7, <1>9, <1>12, <1>13, ComputeReach
<1>15. Results'
  <2>1. \A a \in Blocks : Scanned(a)' /\ Scanned(a)
    BY <1>1, <1>8 DEF Scanned
  <2> QED BY <1>8, <1>14, <2>1 DEF ReachInv, Results, ReachStage
<1>16. Distances'
  <2> SUFFICES ASSUME NEW v \in Vars, NEW a \in Blocks, v \in in'[a]
               PROVE  Near(in, dist, v, a)'
    BY DEF Distances
  <2>1. Points' = Points /\ DistsUpTo(v)' = DistsUpTo(v)
    BY <1>1, <1>8, DistsSame
  <2>2. Near(t.in, t.dist, v, a)
    BY <1>8, <1>14 DEF ReachStage
  <2> QED BY <1>8, <2>1, <2>2 DEF Near, Known
<1> QED BY <1>15, <1>16

LEMMA ReachStep == ReachInv /\ [Next]_vars => ReachInv'
<1> SUFFICES ASSUME ReachInv, [Next]_vars PROVE Results' /\ Distances'
  BY FlowStep DEF ReachInv
<1>0. Shape'
  BY FlowStep DEF ReachInv, FlowInv
<1>1. CASE CreateGraph
  BY <1>1, ReachGraph
<1>2. CASE Scan
  BY <1>2, ReachScan
<1>3. CASE BeginTraversal
  BY <1>0, <1>3, ReachSame DEF BeginTraversal, Scanned
<1>4. CASE Visit
  BY <1>0, <1>4, ReachSame DEF Visit, Scanned
<1>5. CASE Leave
  BY <1>5, ReachLeave
<1>6. CASE Finish
  BY <1>0, <1>6, ReachSame DEF Finish, Scanned
<1>7. CASE UNCHANGED vars
  BY <1>0, <1>7, ReachSame DEF vars, Scanned
<1> QED BY <1>1, <1>2, <1>3, <1>4, <1>5, <1>6, <1>7 DEF Next

THEOREM ReachInvariant == Spec => []ReachInv
<1> QED BY ReachInit, ReachStep, PTL DEF Spec

(* What the code generator's scan of a block leaves live at its start is   *)
(* what the analysis found there. *)
THEOREM ScansAgreeAtStart == Spec => []ScanAgrees
<1>1. ReachInv => ScanAgrees
  <2> SUFFICES ASSUME ReachInv, pc = "done", NEW b \in Blocks
               PROVE  LiveBefore(b)[1] = in[b]
    BY DEF ScanAgrees
  <2>1. Shape /\ Results /\ Scanned(b)
    BY DEF ReachInv, FlowInv, Scanned
  <2>2. 1 \in 1..(Len(code[b]) + 1)
    BY <2>1, PointFacts
  <2>3. in[b] = ScanBlock(code[b]).use \cup (out[b] \ def[b])
    BY <2>1 DEF ReachInv, FlowInv, Equations
  <2>4. def[b] = ScanBlock(code[b]).def
    BY <2>1 DEF Results
  <2>5. \A v \in Vars : v \in LiveBefore(b)[1] <=> v \in in[b]
    BY <2>1, <2>2, <2>3, <2>4, ScansAgree DEF ScanBlock
  <2>6. LiveBefore(b)[1] \in SUBSET Vars /\ in[b] \in SUBSET Vars
    <3>1. LiveBefore(b) \in [1..(Len(code[b]) + 1) -> SUBSET Vars]
      BY <2>1, LiveBeforeDef
    <3> QED BY <2>1, <2>2, <3>1 DEF Results
  <2> QED BY <2>5, <2>6
<1> QED BY <1>1, ReachInvariant, PTL

(* What the last traversal visited when the analysis is done. *)
LEMMA DoneClosed ==
  ASSUME ReachInv, pc = "done"
  PROVE  /\ Reachable \subseteq visited /\ visited \subseteq Blocks
         /\ \A b \in visited : Successors(b) \subseteq visited
         /\ \A b \in visited : \A c \in Successors(b) : in[c] \subseteq out[b]
<1>1. Shape /\ ~changed /\ stack = <<>> /\ visited \subseteq Blocks
  BY DEF ReachInv, FlowInv, Shape
<1>2. Active = {}
  BY <1>1 DEF Active
<1>3. 1 \in visited /\ \A a \in visited : \A c \in Successors(a) : c \in visited /\ in[c] \subseteq out[a]
  BY <1>1, <1>2 DEF ReachInv, FlowInv, Settled
<1>4. Closed(visited)
  BY <1>1, <1>3, SuccessorsBlocks DEF Closed
<1>5. Reachable \subseteq visited
  BY <1>1, <1>4 DEF Reachable
<1> QED BY <1>1, <1>3, <1>5

(* From where the reference finds a use, the variable is live. *)
LEMMA FoundIsLive ==
  ASSUME ReachInv, pc = "done", NEW v \in Vars, NEW n \in 0..Cardinality(Points),
         NEW p \in Points, p[1] \in visited, DistsUpTo(v)[n][p] # {}
  PROVE  v \in LiveBefore(p[1])[p[2]]
<1>0. Shape /\ Results /\ \A b \in Blocks : Len(code[b]) \in Nat
  BY PointFacts DEF ReachInv, FlowInv
<1>1. PICK C : C = Cardinality(Points) /\ C \in Nat
  BY <1>0, PointsFinite
<1>2. PICK h : h = DistsUpTo(v)
  OBVIOUS
<1> DEFINE Live(q) == v \in LiveBefore(q[1])[q[2]]
           Good(k) == \A q \in Points : q[1] \in visited /\ h[k][q] # {} => Live(q)
           T == {k \in 0..C : Good(k)}
(* Inside a block the scan says how liveness goes back over a quadruple. *)
<1>3. ASSUME NEW q \in Points, Here(q)
      PROVE  /\ Used(QuadrAt(q), v) => Live(q)
             /\ ~Assigned(QuadrAt(q), v) /\ Live(<<q[1], q[2] + 1>>) => Live(q)
  <2>1. PICK b \in Blocks : b = q[1]
    BY <1>0, PointFacts
  <2>2. PICK i \in 1..Len(code[b]) : i = q[2] /\ i + 1 \in 1..(Len(code[b]) + 1)
    BY <1>0, <1>3, <2>1, PointFacts DEF Here, InstrNum
  <2>3. QuadrAt(q) = code[b][i] /\ code[b][i] \in Quadrs
    BY <1>0, <2>1, <2>2 DEF QuadrAt, Shape
  <2>4. LiveBefore(b)[i] = LiveBeforeQuadr(code[b][i], LiveBefore(b)[i + 1])
        /\ LiveBefore(b)[i + 1] \in SUBSET Vars
    BY <1>0, <2>2, LiveBeforeDef
  <2>5. v \in LiveBefore(b)[i] <=>
          Used(code[b][i], v) \/ (v \in LiveBefore(b)[i + 1] /\ ~Assigned(code[b][i], v))
    BY <2>3, <2>4, LiveBeforeFacts
  <2> QED BY <2>1, <2>2, <2>3, <2>5
(* At the end of a block it is live what is live at a successor's start. *)
<1>4. ASSUME NEW q \in Points, ~Here(q), q[1] \in visited, NEW c \in Successors(q[1]), Live(<<c, 1>>)
      PROVE  Live(q)
  <2>1. PICK b \in Blocks : b = q[1]
    BY <1>0, PointFacts
  <2>2. q[2] = Len(code[b]) + 1
    BY <1>0, <1>4, <2>1, PointFacts DEF Here, InstrNum
  <2>3. c \in Blocks
    BY <1>0, <2>1, SuccessorsBlocks
  <2>4. LiveBefore(c)[1] = in[c]
    <3>1. Scanned(c) /\ 1 \in 1..(Len(code[c]) + 1)
      BY <1>0, <2>3 DEF Scanned
    <3>2. in[c] = ScanBlock(code[c]).use \cup (out[c] \ def[c]) /\ def[c] = ScanBlock(code[c]).def
      BY <1>0, <2>3, <3>1 DEF ReachInv, FlowInv, Equations, Results
    <3>3. \A u \in Vars : u \in LiveBefore(c)[1] <=> u \in in[c]
      BY <1>0, <2>3, <3>1, <3>2, ScansAgree DEF ScanBlock
    <3>4. LiveBefore(c)[1] \in SUBSET Vars /\ in[c] \in SUBSET Vars
      BY <1>0, <2>3, <3>1, LiveBeforeDef DEF Results
    <3> QED BY <3>3, <3>4
  <2>5. in[c] \subseteq out[b]
    BY <1>4, <2>1, DoneClosed
  <2>6. LiveBefore(b)[Len(code[b]) + 1] = out[b]
    BY <1>0, LiveBeforeDef
  <2> QED BY <1>4, <2>1, <2>2, <2>4, <2>5, <2>6
<1>5. 0 \in T
  <2> SUFFICES ASSUME NEW q \in Points, h[0][q] # {} PROVE Live(q)
    BY <1>1
  <2>1. 0 \in 0..Cardinality(Points)
    BY <1>1
  <2>2. Here(q) /\ Used(QuadrAt(q), v)
    BY <1>0, <1>2, <2>1, DistsFacts
  <2> QED BY <1>3, <2>2
<1>6. ASSUME NEW k \in 0..(C - 1), k \in T PROVE k + 1 \in T
  <2>1. PICK m \in 0..Cardinality(Points) : m = k + 1 /\ m # 0 /\ m - 1 = k
    BY <1>1
  <2> SUFFICES ASSUME NEW q \in Points, q[1] \in visited, h[m][q] # {} PROVE Live(q)
    BY <1>1, <2>1
  <2>2. CASE Touches(q, v)
    <3>1. h[m][q] = h[m - 1][q]
      BY <1>0, <1>2, <2>1, <2>2, DistsFacts
    <3> QED BY <1>6, <2>1, <3>1
  <2>3. CASE ~Touches(q, v)
    <3>1. h[m][q] = Onward(h[m - 1], q)
      BY <1>0, <1>2, <2>1, <2>3, DistsFacts
    <3>2. PICK r \in After(q) : h[k][r] # {}
      BY <2>1, <3>1 DEF Onward
    <3>3. r \in Points
      BY <1>0, PointFacts
    <3>4. CASE Here(q)
      <4>1. r = <<q[1], q[2] + 1>>
        BY <3>2, <3>4 DEF After
      <4>2. Live(r)
        BY <1>6, <3>2, <3>3, <4>1
      <4>3. ~Assigned(QuadrAt(q), v)
        BY <2>3, <3>4 DEF Touches
      <4> QED BY <1>3, <3>4, <4>1, <4>2, <4>3
    <3>5. CASE ~Here(q)
      <4>1. PICK c \in Successors(q[1]) : r = <<c, 1>>
        BY <3>2, <3>5 DEF After, Successors
      <4>2. c \in visited
        BY DoneClosed
      <4>3. Live(r)
        BY <1>6, <3>2, <3>3, <4>1, <4>2
      <4> QED BY <1>4, <3>5, <4>1, <4>3
    <3> QED BY <3>4, <3>5
  <2> QED BY <2>2, <2>3
<1>7. 0..C \subseteq T
  <2>1. 0 \in Int /\ C \in Int
    BY <1>1
  <2> HIDE DEF T
  <2> QED BY <1>5, <1>6, <2>1, UpTo
<1>8. Good(n)
  BY <1>1, <1>7
<1> QED BY <1>2, <1>8

LEMMA RecordedIsFound ==
  ASSUME ReachInv, NEW v \in Vars, NEW b \in Blocks, v \in in[b]
  PROVE  dist[b][v] \in UseDists(v)[b]
<1>0. Shape
  BY DEF ReachInv, FlowInv
<1>1. Near(in, dist, v, b)
  BY DEF ReachInv, Distances
<1>2. PICK n \in 0..Cardinality(Points) : n = Cardinality(Known(in, v))
  BY <1>0, KnownCount
<1>3. PICK C \in 0..Cardinality(Points) : C = Cardinality(Points) /\ n <= C
  BY <1>0, PointsFinite
<1>4. <<b, 1>> \in Points
  BY <1>0, PointFacts
<1>5. DistsUpTo(v)[n][<<b, 1>>] \subseteq DistsUpTo(v)[C][<<b, 1>>]
  BY <1>0, <1>3, <1>4, DistsGrow
<1>6. UseDists(v)[b] = DistsUpTo(v)[C][<<b, 1>>]
  BY <1>3 DEF UseDists
<1> QED BY <1>1, <1>2, <1>5, <1>6 DEF Near

(* Every distance recorded is that of a use the program really has. *)
THEOREM DistancesReal == Spec => []DistReal
<1>1. ReachInv => DistReal
  BY RecordedIsFound DEF DistReal, Reachable
<1> QED BY <1>1, ReachInvariant, PTL

(* When the analysis is done, a variable is live at the start of a block   *)
(* that can be reached exactly if some path from there uses it before it   *)
(* assigns it: for every function, whatever loops it has. *)
THEOREM LiveAtStartExact == Spec => []InExact
<1>1. ReachInv => InExact
  <2> SUFFICES ASSUME ReachInv, pc = "done", NEW v \in Vars, NEW b \in Reachable
               PROVE  v \in in[b] <=> UseDists(v)[b] # {}
    BY DEF InExact
  <2>0. Shape /\ b \in Blocks /\ b \in visited
    BY DoneClosed DEF ReachInv, FlowInv, Reachable
  <2>1. ASSUME UseDists(v)[b] # {} PROVE v \in in[b]
    <3>1. PICK C \in 0..Cardinality(Points) : C = Cardinality(Points)
      BY <2>0, PointsFinite
    <3>2. PICK p \in Points : p = <<b, 1>>
      <4>1. 1 \in 1..(Len(code[b]) + 1)
        BY <2>0, PointFacts
      <4>2. <<b, 1>> \in Points
        BY <2>0, <4>1, PointFacts
      <4> QED BY <4>2
    <3>3. DistsUpTo(v)[C][p] # {}
      BY <2>0, <2>1, <3>1, <3>2 DEF UseDists
    <3>4. v \in LiveBefore(b)[1]
      <4>1. p[1] = b /\ p[2] = 1
        BY <3>2
      <4> QED BY <2>0, <3>3, <4>1, FoundIsLive
    <3>5. Results /\ Scanned(b) /\ 1 \in 1..(Len(code[b]) + 1)
      BY <2>0, PointFacts DEF ReachInv, Scanned
    <3>6. in[b] = ScanBlock(code[b]).use \cup (out[b] \ def[b]) /\ def[b] = ScanBlock(code[b]).def
      BY <2>0, <3>5 DEF ReachInv, FlowInv, Equations, Results
    <3> QED BY <2>0, <3>4, <3>5, <3>6, ScansAgree DEF ScanBlock
  <2>2. ASSUME v \in in[b] PROVE UseDists(v)[b] # {}
    BY <2>0, <2>2, RecordedIsFound
  <2> QED BY <2>1, <2>2
<1> QED BY <1>1, ReachInvariant, PTL
=============================================================================
