--------------------------- MODULE CopyOptProofs ----------------------------
(***************************************************************************)
(* Proof that the copy passes keep what a block computes, for any block.   *)
(*                                                                         *)
(* The executions of the block before and after an iteration are compared  *)
(* state by state: they are equal, but for the stretch that is rewritten,  *)
(* where they differ in the variables the loop exchanges and in no other.  *)
(***************************************************************************)
EXTENDS CopyOpt, Induction

-----------------------------------------------------------------------------
(* What a recursive definition of this kind computes. *)
LEMMA ExecutionIs ==
  ASSUME NEW qs, Len(qs) \in Nat
  PROVE  /\ Execution(qs)[0] = [env |-> [v \in Vars |-> Start(v)], effects |-> <<>>]
         /\ \A k \in 1..Len(qs) : Execution(qs)[k] = Execute(Execution(qs)[k - 1], qs[k])
<1> PICK n \in Nat : n = Len(qs)
  OBVIOUS
<1> DEFINE e == [env |-> [v \in Vars |-> Start(v)], effects |-> <<>>]
           Is(f) == f = [k \in 0..n |-> IF k = 0 THEN e ELSE Execute(f[k - 1], qs[k])]
           Upto(f, m) == /\ f[0] = e
                         /\ \A k \in 1..m : f[k] = Execute(f[k - 1], qs[k])
           T == {m \in 0..n : \E f : Upto(f, m)}
<1>1. Execution(qs) = CHOOSE f : Is(f)
  BY DEF Execution
<1> HIDE DEF e
<1>2. 0 \in T
  <2> DEFINE f == [k \in {0} |-> e]
  <2>1. f[0] = e /\ 1..0 = {}
    OBVIOUS
  <2>2. Upto(f, 0)
    BY <2>1
  <2> HIDE DEF f
  <2> QED BY <2>2
<1>3. ASSUME NEW m \in 0..(n - 1), m \in T PROVE m + 1 \in T
  <2>1. PICK f : Upto(f, m)
    BY <1>3
  <2> DEFINE g == [k \in 0..(m + 1) |-> IF k = m + 1 THEN Execute(f[m], qs[m + 1]) ELSE f[k]]
  <2>2. g[0] = e
    BY <2>1
  <2>3. ASSUME NEW k \in 1..(m + 1) PROVE g[k] = Execute(g[k - 1], qs[k])
    <3>1. CASE k = m + 1
      <4>1. k - 1 = m /\ m # m + 1 /\ m \in 0..(m + 1) /\ m + 1 \in 0..(m + 1)
        BY <3>1
      <4>2. g[m + 1] = Execute(f[m], qs[m + 1]) /\ g[m] = f[m]
        BY <4>1
      <4> QED BY <3>1, <4>1, <4>2
    <3>2. CASE k # m + 1
      <4>1. k \in 1..m /\ k - 1 \in 0..(m + 1) /\ k - 1 # m + 1 /\ k \in 0..(m + 1)
        BY <3>2
      <4>2. g[k] = f[k] /\ g[k - 1] = f[k - 1]
        BY <3>2, <4>1
      <4> QED BY <2>1, <4>1, <4>2
    <3> QED BY <3>1, <3>2
  <2> HIDE DEF g
  <2>4. Upto(g, m + 1)
    BY <2>2, <2>3
  <2> QED BY <2>4
<1>4. n \in T
  <2>1. 0..n \subseteq T
    <3>1. 0 \in Int /\ n \in Int
      OBVIOUS
    <3> HIDE DEF T
    <3>2. \A k \in 0..(n - 1) : k \in T => k + 1 \in T
      BY <1>3
    <3> QED BY <1>2, <3>1, <3>2, UpTo
  <2> QED BY <2>1
<1>5. \E f : Is(f)
  <2>1. PICK f : Upto(f, n)
    BY <1>4
  <2> DEFINE g == [k \in 0..n |-> f[k]]
  <2>2. ASSUME NEW k \in 0..n PROVE g[k] = IF k = 0 THEN e ELSE Execute(g[k - 1], qs[k])
    <3>1. CASE k = 0
      BY <2>1, <3>1
    <3>2. CASE k # 0
      <4>1. k \in 1..n /\ k - 1 \in 0..n
        BY <3>2
      <4>2. g[k] = f[k] /\ g[k - 1] = f[k - 1]
        BY <4>1
      <4> QED BY <2>1, <3>2, <4>1, <4>2
    <3> QED BY <3>1, <3>2
  <2>3. g = [k \in 0..n |-> IF k = 0 THEN e ELSE Execute(g[k - 1], qs[k])]
    <3> DEFINE h == [k \in 0..n |-> IF k = 0 THEN e ELSE Execute(g[k - 1], qs[k])]
    <3>1. \A k \in 0..n : g[k] = h[k]
      <4> HIDE DEF g
      <4> QED BY <2>2
    <3>2. g = [k \in 0..n |-> g[k]] /\ h = [k \in 0..n |-> h[k]]
      OBVIOUS
    <3> HIDE DEF g, h
    <3>3. [k \in 0..n |-> g[k]] = [k \in 0..n |-> h[k]]
      BY <3>1
    <3>4. g = h
      BY <3>2, <3>3
    <3> QED BY <3>4 DEF h
  <2> HIDE DEF g
  <2> QED BY <2>3
<1>6. Is(Execution(qs))
  <2> HIDE DEF Is
  <2> QED BY <1>1, <1>5
<1> DEFINE f == Execution(qs)
<1> HIDE DEF f
<1>7. f = [k \in 0..n |-> IF k = 0 THEN e ELSE Execute(f[k - 1], qs[k])]
  BY <1>6 DEF f
<1>8. f[0] = e
  BY <1>7
<1>9. ASSUME NEW k \in 1..n PROVE f[k] = Execute(f[k - 1], qs[k])
  <2>1. k \in 0..n /\ k # 0
    OBVIOUS
  <2> QED BY <1>7, <2>1
<1> QED BY <1>8, <1>9 DEF f, e
-----------------------------------------------------------------------------
(* Quadruples and states. *)
LEMMA QuadrIs ==
  ASSUME NEW q \in Quadr
  PROVE  /\ q = [op |-> q.op, result |-> q.result, arg1 |-> q.arg1, arg2 |-> q.arg2]
         /\ q.op \in Assigning => q.result \in Vars
         /\ q.op \notin Assigning => q.op \in {"effect", "write_ptr", "gone"}
         /\ \A v \in Vars : Assigned(q, v) <=> q.op \in Assigning /\ q.result = v
         /\ q.op \in {"effect", "gone"} => q.result = None
         /\ q.op = "gone" => q = Gone
         /\ q.op = "write_ptr" => q.result \in Vars
         /\ q.op = "copy" => q.arg2 = None
         /\ q.op = "call" => q.arg1 = None /\ q.arg2 = None
BY QuadruplesAssumption DEF Quadr, Assigning, Arithmetic, Assigned, Gone

LEMMA WithArgsIs ==
  ASSUME NEW q, NEW a, NEW b, NEW o, NEW r, NEW x, NEW y,
         q = [op |-> o, result |-> r, arg1 |-> x, arg2 |-> y]
  PROVE  WithArgs(q, a, b) = [op |-> o, result |-> r, arg1 |-> Subst(x, a, b), arg2 |-> Subst(y, a, b)]
<1>1. q.arg1 = x /\ q.arg2 = y
  OBVIOUS
<1>2. PICK u, w : u = Subst(x, a, b) /\ w = Subst(y, a, b)
  OBVIOUS
<1>3. WithArgs(q, a, b) = [q EXCEPT !.arg1 = u, !.arg2 = w]
  BY <1>1, <1>2 DEF WithArgs
<1> DEFINE p == [q EXCEPT !.arg1 = u]
<1>4. p = [op |-> o, result |-> r, arg1 |-> u, arg2 |-> y]
  OBVIOUS
<1>5. [q EXCEPT !.arg1 = u, !.arg2 = w] = [p EXCEPT !.arg2 = w]
  OBVIOUS
<1> HIDE DEF p
<1>6. [p EXCEPT !.arg2 = w] = [op |-> o, result |-> r, arg1 |-> u, arg2 |-> w]
  BY <1>4
<1> QED BY <1>2, <1>3, <1>5, <1>6

LEMMA WithResultIs ==
  ASSUME NEW q, NEW a, NEW b, NEW o, NEW r, NEW x, NEW y,
         q = [op |-> o, result |-> r, arg1 |-> x, arg2 |-> y]
  PROVE  WithResult(q, a, b) = [op |-> o, result |-> Subst(r, a, b), arg1 |-> x, arg2 |-> y]
BY DEF WithResult

Turned(q, a, b) == [q EXCEPT !.result = b, !.arg1 = a]

LEMMA TurnedIs ==
  ASSUME NEW q, NEW a, NEW b, NEW o, NEW r, NEW x, NEW y,
         q = [op |-> o, result |-> r, arg1 |-> x, arg2 |-> y]
  PROVE  Turned(q, a, b) = [op |-> o, result |-> b, arg1 |-> a, arg2 |-> y]
<1> DEFINE p == [q EXCEPT !.result = b]
<1>1. p = [op |-> o, result |-> b, arg1 |-> x, arg2 |-> y]
  OBVIOUS
<1>2. Turned(q, a, b) = [p EXCEPT !.arg1 = a]
  BY DEF Turned
<1> HIDE DEF p
<1>3. [p EXCEPT !.arg1 = a] = [op |-> o, result |-> b, arg1 |-> a, arg2 |-> y]
  BY <1>1
<1> QED BY <1>2, <1>3

(* What renaming makes of a quadruple is a quadruple. *)
LEMMA RenamedQuadr ==
  ASSUME NEW q \in Quadr, NEW a \in Vars, NEW b \in Vars
  PROVE  /\ WithArgs(q, a, b) \in Quadr
         /\ WithResult(q, a, b) \in Quadr
         /\ Tidy(q) \in Quadr
<1>0. q = [op |-> q.op, result |-> q.result, arg1 |-> q.arg1, arg2 |-> q.arg2]
  BY QuadrIs
<1>1. WithArgs(q, a, b) = [op |-> q.op, result |-> q.result, arg1 |-> Subst(q.arg1, a, b),
                           arg2 |-> Subst(q.arg2, a, b)]
  BY <1>0, WithArgsIs
<1>2. WithResult(q, a, b) = [op |-> q.op, result |-> Subst(q.result, a, b), arg1 |-> q.arg1,
                             arg2 |-> q.arg2]
  BY <1>0, WithResultIs
<1>3. /\ Subst(q.result, a, b) = None <=> q.result = None
      /\ Subst(None, a, b) = None
      /\ q.result \in Vars <=> Subst(q.result, a, b) \in Vars
      /\ \A o \in Operand : Subst(o, a, b) \in Operand
      /\ \A o \in Operand \cup {None} : Subst(o, a, b) \in Operand \cup {None}
  BY QuadruplesAssumption DEF Subst, Operand
<1> HIDE DEF Subst
<1>4. CASE q = Gone
  <2>1. q.result = None /\ q.arg1 = None /\ q.arg2 = None
    BY <1>4 DEF Gone
  <2>2. WithArgs(q, a, b) = Gone /\ WithResult(q, a, b) = Gone
    BY <1>1, <1>2, <1>3, <1>4, <2>1 DEF Gone
  <2> QED BY <1>4, <2>2 DEF Tidy, Quadr
<1>5. CASE q # Gone
  <2>1. WithArgs(q, a, b) \in Quadr
    BY <1>1, <1>3, <1>5, QuadrIs DEF Quadr
  <2>2. WithResult(q, a, b) \in Quadr
    BY <1>2, <1>3, <1>5, QuadrIs DEF Quadr
  <2> QED BY <2>1, <2>2 DEF Tidy, Quadr
<1> QED BY <1>4, <1>5

State(s) == s = [env |-> s.env, effects |-> s.effects] /\ s.env = [v \in Vars |-> s.env[v]]
Agree(s, t, X) == s.effects = t.effects /\ \A v \in Vars \ X : s.env[v] = t.env[v]

LEMMA AgreeEqual ==
  ASSUME NEW s, State(s), NEW t, State(t), Agree(s, t, {})
  PROVE  s = t
<1>1. [v \in Vars |-> s.env[v]] = [v \in Vars |-> t.env[v]]
  BY DEF Agree
<1>2. s.env = t.env
  BY <1>1 DEF State
<1> QED BY <1>2 DEF State, Agree

LEMMA ExecuteIs ==
  ASSUME NEW s, State(s), NEW q \in Quadr
  PROVE  /\ State(Execute(s, q))
         /\ q.op \in Assigning => /\ Execute(s, q).env[q.result] = Given(s, q)
                                  /\ \A v \in Vars \ {q.result} : Execute(s, q).env[v] = s.env[v]
         /\ q.op \notin Assigning => Execute(s, q).env = s.env
         /\ q.op \in Visible => Execute(s, q).effects = Append(s.effects, Event(s, q))
         /\ q.op \notin Visible => Execute(s, q).effects = s.effects
         /\ q.op = "gone" => Execute(s, q) = s
<1> DEFINE t == Execute(s, q)
           e == IF q.op \in Assigning THEN [s.env EXCEPT ![q.result] = Given(s, q)] ELSE s.env
           f == IF q.op \in Visible THEN Append(s.effects, Event(s, q)) ELSE s.effects
<1>1. t = [env |-> e, effects |-> f]
  BY DEF Execute
<1> HIDE DEF t
<1>2. t.env = e /\ t.effects = f
  BY <1>1
<1>3. q.op \in Assigning => q.result \in Vars
  BY QuadrIs
<1>4. s.env = [v \in Vars |-> s.env[v]]
  BY DEF State
<1>5. e = [v \in Vars |-> e[v]]
  BY <1>4
<1>6. State(t)
  BY <1>1, <1>2, <1>5 DEF State
<1>7. q.op \in Assigning => t.env[q.result] = Given(s, q) /\ \A v \in Vars \ {q.result} : t.env[v] = s.env[v]
  BY <1>2, <1>3, <1>4
<1>8. q.op = "gone" => t = s
  <2>1. "gone" \notin Assigning /\ "gone" \notin Visible
    BY DEF Assigning, Arithmetic, Visible
  <2> QED BY <1>1, <2>1 DEF State
<1> QED BY <1>2, <1>6, <1>7, <1>8 DEF t

LEMMA ExecutionStates ==
  ASSUME NEW qs \in Seq(Quadr)
  PROVE  \A k \in 0..Len(qs) : State(Execution(qs)[k])
<1> PICK n \in Nat : n = Len(qs)
  OBVIOUS
<1> DEFINE T == {k \in 0..n : State(Execution(qs)[k])}
<1>1. 0 \in T
  <2> DEFINE s == Execution(qs)[0]
             e == [v \in Vars |-> Start(v)]
  <2>1. s = [env |-> e, effects |-> <<>>]
    BY ExecutionIs
  <2>2. s.env = e /\ s.effects = <<>>
    BY <2>1
  <2>3. e = [v \in Vars |-> e[v]]
    OBVIOUS
  <2> HIDE DEF s, e
  <2>4. State(s)
    BY <2>1, <2>2, <2>3 DEF State
  <2> QED BY <2>4 DEF s
<1>2. \A k \in 0..(n - 1) : k \in T => k + 1 \in T
  <2> SUFFICES ASSUME NEW k \in 0..(n - 1), k \in T PROVE k + 1 \in T
    OBVIOUS
  <2>1. k + 1 \in 1..n /\ (k + 1) - 1 = k
    OBVIOUS
  <2>2. qs[k + 1] \in Quadr
    BY <2>1
  <2>3. Execution(qs)[k + 1] = Execute(Execution(qs)[k], qs[k + 1])
    BY <2>1, ExecutionIs
  <2> QED BY <2>1, <2>2, <2>3, ExecuteIs
<1>3. 0..n \subseteq T
  <2>1. 0 \in Int /\ n \in Int
    OBVIOUS
  <2> HIDE DEF T
  <2> QED BY <1>1, <1>2, <2>1, UpTo
<1> QED BY <1>3

(* Two blocks from a common state on, over quadruples that do the same. *)
LEMMA SameFrom ==
  ASSUME NEW qs \in Seq(Quadr), NEW rs \in Seq(Quadr), Len(rs) = Len(qs),
         NEW m \in 0..Len(qs), NEW n \in m..Len(qs), Execution(rs)[m] = Execution(qs)[m],
         \A k \in (m + 1)..n :
           Execute(Execution(qs)[k - 1], rs[k]) = Execute(Execution(qs)[k - 1], qs[k])
  PROVE  \A k \in m..n : Execution(rs)[k] = Execution(qs)[k]
<1> DEFINE T == {k \in m..n : Execution(rs)[k] = Execution(qs)[k]}
<1>0. Len(qs) \in Nat /\ m \in Nat /\ n \in Nat
  OBVIOUS
<1>1. m \in T
  BY <1>0
<1>2. \A k \in m..(n - 1) : k \in T => k + 1 \in T
  <2> SUFFICES ASSUME NEW k \in m..(n - 1), k \in T PROVE k + 1 \in T
    OBVIOUS
  <2>1. k + 1 \in (m + 1)..n /\ k + 1 \in 1..Len(qs) /\ (k + 1) - 1 = k /\ k + 1 \in m..n
    BY <1>0
  <2>2. /\ Execution(qs)[k + 1] = Execute(Execution(qs)[k], qs[k + 1])
        /\ Execution(rs)[k + 1] = Execute(Execution(rs)[k], rs[k + 1])
    BY <1>0, <2>1, ExecutionIs
  <2>3. Execute(Execution(qs)[k], rs[k + 1]) = Execute(Execution(qs)[k], qs[k + 1])
    BY <2>1
  <2> QED BY <2>1, <2>2, <2>3
<1>3. m..n \subseteq T
  <2>1. m \in Int /\ n \in Int
    BY <1>0
  <2> HIDE DEF T
  <2> QED BY <1>1, <1>2, <2>1, UpTo
<1> QED BY <1>3
LEMMA TidyExecutes ==
  ASSUME NEW s, State(s), NEW q \in Quadr
  PROVE  Execute(s, Tidy(q)) = Execute(s, q)
<1>1. CASE IsCopy(q) /\ q.arg1 = q.result
  <2>1. Gone \in Quadr /\ Gone.op = "gone" /\ Tidy(q) = Gone
    BY <1>1 DEF Quadr, Gone, Tidy
  <2>2. Execute(s, Tidy(q)) = s
    BY <2>1, ExecuteIs
  <2>3. q.op \in Assigning /\ q.op \notin Visible /\ q.op = "copy" /\ q.arg1 \in Vars
    BY <1>1 DEF IsCopy, Assigning, Visible
  <2>4. Given(s, q) = s.env[q.result]
    BY <1>1, <2>3 DEF Given, Value, Arithmetic
  <2>5. Agree(s, Execute(s, q), {}) /\ State(Execute(s, q))
    BY <2>3, <2>4, ExecuteIs DEF Agree
  <2>6. Execute(s, q) = s
    <3> HIDE DEF State, Agree
    <3> QED BY <2>5, AgreeEqual
  <2> QED BY <2>2, <2>6
<1>2. CASE ~(IsCopy(q) /\ q.arg1 = q.result)
  BY <1>2 DEF Tidy
<1> QED BY <1>1, <1>2

(* A quadruple that finds the same values does the same. *)
LEMMA Congruent ==
  ASSUME NEW s, State(s), NEW t, State(t), s.effects = t.effects,
         NEW q \in Quadr, NEW p \in Quadr, p.op = q.op,
         Value(t.env, p.arg1) = Value(s.env, q.arg1),
         Value(t.env, p.arg2) = Value(s.env, q.arg2),
         q.op = "write_ptr" => Value(t.env, p.result) = Value(s.env, q.result)
  PROVE  /\ Given(t, p) = Given(s, q)
         /\ Execute(t, p).effects = Execute(s, q).effects
<1>1. Given(t, p) = Given(s, q)
  BY DEF Given
<1>2. q.op \in Visible => Event(t, p) = Event(s, q)
  <2>1. q.op = "effect" => p.result = None /\ q.result = None
    BY QuadrIs
  <2>2. q.op = "effect" => Value(t.env, p.result) = Value(s.env, q.result)
    BY <2>1, QuadruplesAssumption DEF Value
  <2> QED BY <2>2 DEF Event, Visible
<1>3. Execute(t, p).effects = Execute(s, q).effects
  <2>1. CASE q.op \in Visible
    <3>1. Execute(s, q).effects = Append(s.effects, Event(s, q))
      BY <2>1, ExecuteIs
    <3>2. Execute(t, p).effects = Append(t.effects, Event(t, p))
      BY <2>1, ExecuteIs
    <3> QED BY <1>2, <2>1, <3>1, <3>2
  <2>2. CASE q.op \notin Visible
    BY <2>2, ExecuteIs
  <2> QED BY <2>1, <2>2
<1> QED BY <1>1, <1>3

(* Dead assignments: a quadruple that does not use v does the same         *)
(* whatever v is. *)
LEMMA ExecuteUnused ==
  ASSUME NEW s, State(s), NEW t, State(t), NEW v \in Vars, Agree(s, t, {v}),
         NEW q \in Quadr, ~Used(q, v)
  PROVE  /\ Agree(Execute(s, q), Execute(t, q), {v})
         /\ Assigned(q, v) => Execute(s, q) = Execute(t, q)
<1>1. /\ Value(t.env, q.arg1) = Value(s.env, q.arg1)
      /\ Value(t.env, q.arg2) = Value(s.env, q.arg2)
      /\ q.op = "write_ptr" => Value(t.env, q.result) = Value(s.env, q.result)
  BY DEF Value, Used, Agree
<1>2. Given(t, q) = Given(s, q) /\ Execute(t, q).effects = Execute(s, q).effects
  BY <1>1, Congruent DEF Agree
<1>3. \A u \in Vars \ {v} : Execute(t, q).env[u] = Execute(s, q).env[u]
  BY <1>2, ExecuteIs DEF Agree
<1>4. Assigned(q, v) => Execute(t, q).env[v] = Execute(s, q).env[v]
  BY <1>2, ExecuteIs, QuadrIs
<1>5. Agree(Execute(s, q), Execute(t, q), {v})
  BY <1>2, <1>3 DEF Agree
<1>6. ASSUME Assigned(q, v) PROVE Execute(s, q) = Execute(t, q)
  <2>1. Agree(Execute(s, q), Execute(t, q), {})
    BY <1>2, <1>3, <1>4, <1>6 DEF Agree
  <2>2. State(Execute(s, q)) /\ State(Execute(t, q))
    BY ExecuteIs
  <2> HIDE DEF State, Agree
  <2> QED BY <2>1, <2>2, AgreeEqual
<1> QED BY <1>5, <1>6

(* Propagation forwards: where a and b are equal, one is as good as the    *)
(* other. *)
LEMMA ExecuteWithArgs ==
  ASSUME NEW s, State(s), NEW a \in Vars, NEW b \in Vars, s.env[a] = s.env[b],
         NEW q \in Quadr
  PROVE  Execute(s, WithArgs(q, a, b)) = Execute(s, q)
<1> DEFINE p == WithArgs(q, a, b)
<1>1. p \in Quadr
  BY RenamedQuadr
<1>2. p = [op |-> q.op, result |-> q.result, arg1 |-> Subst(q.arg1, a, b), arg2 |-> Subst(q.arg2, a, b)]
  BY QuadrIs, WithArgsIs
<1> HIDE DEF p
<1>3. p.op = q.op /\ p.result = q.result /\ p.arg1 = Subst(q.arg1, a, b) /\ p.arg2 = Subst(q.arg2, a, b)
  BY <1>2
<1>4. Value(s.env, p.arg1) = Value(s.env, q.arg1) /\ Value(s.env, p.arg2) = Value(s.env, q.arg2)
  BY <1>3 DEF Value, Subst
<1>5. Given(s, p) = Given(s, q) /\ Execute(s, p).effects = Execute(s, q).effects
  BY <1>1, <1>3, <1>4, Congruent
<1>6. Agree(Execute(s, p), Execute(s, q), {})
  <2>1. CASE q.op \in Assigning
    BY <1>1, <1>3, <1>5, <2>1, ExecuteIs, SMTT(60) DEF Agree
  <2>2. CASE q.op \notin Assigning
    BY <1>1, <1>3, <1>5, <2>2, ExecuteIs DEF Agree
  <2> QED BY <2>1, <2>2
<1>7. State(Execute(s, p)) /\ State(Execute(s, q))
  BY <1>1, ExecuteIs
<1>8. Execute(s, p) = Execute(s, q)
  BY <1>6, <1>7, AgreeEqual
<1> QED BY <1>8 DEF p

(* A copy between two variables that are equal does nothing. *)
LEMMA ExecuteCopy ==
  ASSUME NEW s, State(s), NEW a \in Vars, NEW b \in Vars, s.env[a] = s.env[b],
         NEW q \in Quadr, q.op = "copy", q.arg1 \in {a, b}, q.result \in {a, b}
  PROVE  Execute(s, q) = s
<1>1. q.op \in Assigning /\ q.op \notin Visible
  BY DEF Assigning, Visible
<1>2. Given(s, q) = s.env[q.result]
  BY DEF Given, Value, Arithmetic
<1>3. Agree(Execute(s, q), s, {})
  BY <1>1, <1>2, ExecuteIs DEF Agree
<1>4. State(Execute(s, q))
  BY ExecuteIs
<1> QED BY <1>3, <1>4, AgreeEqual

StopsForward(r, a, b) == /\ Assigned(r, a) \/ Assigned(r, b)
                         /\ ~CopyOf(r, {a, b})

LEMMA ExecuteForward ==
  ASSUME NEW s, State(s), NEW a \in Vars, NEW b \in Vars, s.env[a] = s.env[b],
         NEW q \in Quadr, ~StopsForward(q, a, b)
  PROVE  /\ Execute(s, Tidy(WithResult(q, a, b))) = Execute(s, q)
         /\ Execute(s, q).env[a] = Execute(s, q).env[b]
<1> DEFINE p == WithResult(q, a, b)
<1>1. p \in Quadr
  BY RenamedQuadr
<1>2. p = [op |-> q.op, result |-> Subst(q.result, a, b), arg1 |-> q.arg1, arg2 |-> q.arg2]
  BY QuadrIs, WithResultIs
<1> HIDE DEF p
<1>3. p.op = q.op /\ p.result = Subst(q.result, a, b) /\ p.arg1 = q.arg1 /\ p.arg2 = q.arg2
  BY <1>2
<1>4. Execute(s, p) = Execute(s, q) /\ Execute(s, q).env[a] = Execute(s, q).env[b]
  <2>1. CASE Assigned(q, a) \/ Assigned(q, b)
    <3>1. q.op = "copy" /\ q.arg1 \in {a, b} /\ q.result \in {a, b}
      BY <2>1 DEF StopsForward, CopyOf, Assigned
    <3>2. p.op = "copy" /\ p.arg1 \in {a, b} /\ p.result \in {a, b}
      BY <1>3, <3>1 DEF Subst
    <3> QED BY <1>1, <3>1, <3>2, ExecuteCopy
  <2>2. CASE ~(Assigned(q, a) \/ Assigned(q, b)) /\ q.op \in Assigning
    <3>1. q.result \notin {a, b} /\ q.result \in Vars
      BY <2>2, QuadrIs
    <3>2. p = q
      BY <1>2, <3>1, QuadrIs DEF Subst
    <3> QED BY <2>2, <3>1, <3>2, ExecuteIs
  <2>3. CASE q.op \notin Assigning
    <3>1. Value(s.env, p.result) = Value(s.env, q.result)
      BY <1>3 DEF Subst, Value
    <3>2. Execute(s, p).effects = Execute(s, q).effects
      BY <1>1, <1>3, <3>1, Congruent
    <3>3. Execute(s, p).env = s.env /\ Execute(s, q).env = s.env
      BY <1>1, <1>3, <2>3, ExecuteIs
    <3>4. State(Execute(s, p)) /\ State(Execute(s, q))
      BY <1>1, ExecuteIs
    <3>5. Execute(s, p) = Execute(s, q)
      BY <3>2, <3>3, <3>4, AgreeEqual DEF Agree
    <3> QED BY <3>3, <3>5
  <2> QED BY <2>1, <2>2, <2>3
<1>5. Execute(s, Tidy(p)) = Execute(s, p)
  BY <1>1, TidyExecutes
<1> QED BY <1>4, <1>5 DEF p

(* Propagation backwards: a holds what b should. *)
Exchanged(s, t, a, b) ==
  /\ s.effects = t.effects
  /\ t.env[a] = s.env[b]
  /\ \A v \in Vars \ {a, b} : s.env[v] = t.env[v]

LEMMA ExecuteExchanged ==
  ASSUME NEW s, State(s), NEW t, State(t), NEW a \in Vars, NEW b \in Vars, a # b,
         Exchanged(s, t, a, b), NEW q \in Quadr,
         ~Used(q, a), ~Assigned(q, a), ~Assigned(q, b)
  PROVE  Exchanged(Execute(s, q), Execute(t, Tidy(WithArgs(WithResult(q, b, a), b, a))), a, b)
<1> DEFINE p == WithArgs(WithResult(q, b, a), b, a)
<1>1. p \in Quadr
  BY RenamedQuadr
<1>2. WithResult(q, b, a) = [op |-> q.op, result |-> Subst(q.result, b, a), arg1 |-> q.arg1, arg2 |-> q.arg2]
  BY QuadrIs, WithResultIs
<1>3. p = [op |-> q.op, result |-> Subst(q.result, b, a), arg1 |-> Subst(q.arg1, b, a),
           arg2 |-> Subst(q.arg2, b, a)]
  BY <1>2, WithArgsIs
<1> HIDE DEF p
<1>4. p.op = q.op /\ p.result = Subst(q.result, b, a) /\ p.arg1 = Subst(q.arg1, b, a) /\ p.arg2 = Subst(q.arg2, b, a)
  BY <1>3
<1>5. q.arg1 # a /\ q.arg2 # a /\ (q.op = "write_ptr" => q.result # a)
  BY DEF Used
<1>6. \A o : o # a => Value(t.env, Subst(o, b, a)) = Value(s.env, o)
  BY DEF Value, Subst, Exchanged
<1>7. /\ Value(t.env, p.arg1) = Value(s.env, q.arg1) /\ Value(t.env, p.arg2) = Value(s.env, q.arg2)
      /\ q.op = "write_ptr" => Value(t.env, p.result) = Value(s.env, q.result)
  BY <1>4, <1>5, <1>6
<1>8. Given(t, p) = Given(s, q) /\ Execute(t, p).effects = Execute(s, q).effects
  BY <1>1, <1>4, <1>7, Congruent DEF Exchanged
<1>9. Exchanged(Execute(s, q), Execute(t, p), a, b)
  <2>1. CASE q.op \in Assigning
    <3>1. q.result \notin {a, b} /\ p.result = q.result
      BY <1>4, <2>1, QuadrIs DEF Subst
    <3>2. \A v \in Vars \ {q.result} : Execute(s, q).env[v] = s.env[v] /\ Execute(t, p).env[v] = t.env[v]
      BY <1>1, <1>4, <2>1, <3>1, ExecuteIs
    <3>3. Execute(s, q).env[q.result] = Given(s, q) /\ Execute(t, p).env[q.result] = Given(t, p)
      BY <1>1, <1>4, <2>1, <3>1, ExecuteIs
    <3> QED BY <1>8, <3>1, <3>2, <3>3 DEF Exchanged
  <2>2. CASE q.op \notin Assigning
    <3>1. Execute(s, q).env = s.env /\ Execute(t, p).env = t.env
      BY <1>1, <1>4, <2>2, ExecuteIs
    <3> QED BY <1>8, <3>1 DEF Exchanged
  <2> QED BY <2>1, <2>2
<1>10. Execute(t, Tidy(p)) = Execute(t, p)
  BY <1>1, TidyExecutes
<1> QED BY <1>9, <1>10 DEF p

(* The assignment to b that becomes one to a, and the copy that is turned  *)
(* round. *)
LEMMA ExchangeBegins ==
  ASSUME NEW s, State(s), NEW a \in Vars, NEW b \in Vars, a # b,
         NEW q \in Quadr, Assigned(q, b)
  PROVE  Exchanged(Execute(s, q), Execute(s, WithResult(q, b, a)), a, b)
<1> DEFINE p == WithResult(q, b, a)
<1>1. p \in Quadr
  BY RenamedQuadr
<1>2. q.op \in Assigning /\ q.result = b
  BY QuadrIs
<1>3. p = [op |-> q.op, result |-> a, arg1 |-> q.arg1, arg2 |-> q.arg2]
  BY <1>2, QuadrIs, WithResultIs DEF Subst
<1> HIDE DEF p
<1>4. p.op = q.op /\ p.result = a /\ p.arg1 = q.arg1 /\ p.arg2 = q.arg2
  BY <1>3
<1>5. "write_ptr" \notin Assigning
  BY DEF Assigning, Arithmetic
<1>6. Given(s, p) = Given(s, q) /\ Execute(s, p).effects = Execute(s, q).effects
  BY <1>1, <1>2, <1>4, <1>5, Congruent
<1>7. /\ Execute(s, q).env[b] = Given(s, q)
      /\ Execute(s, p).env[a] = Given(s, p)
      /\ \A v \in Vars \ {b} : Execute(s, q).env[v] = s.env[v]
      /\ \A v \in Vars \ {a} : Execute(s, p).env[v] = s.env[v]
  BY <1>1, <1>2, <1>4, ExecuteIs
<1>8. Exchanged(Execute(s, q), Execute(s, p), a, b)
  BY <1>6, <1>7 DEF Exchanged
<1> QED BY <1>8 DEF p

LEMMA ExchangeEnds ==
  ASSUME NEW s, State(s), NEW t, State(t), NEW a \in Vars, NEW b \in Vars, a # b,
         Exchanged(s, t, a, b), NEW q \in Quadr, NEW p \in Quadr,
         q.op = "copy", q.result = a, q.arg1 = b, p.op = "copy", p.result = b, p.arg1 = a
  PROVE  /\ Execute(t, p) = Execute(s, q)
         /\ Execute(s, q).env[a] = Execute(s, q).env[b]
<1>1. "copy" \in Assigning /\ "copy" \notin Visible
  BY DEF Assigning, Visible
<1>2. Given(s, q) = s.env[b] /\ Given(t, p) = t.env[a]
  BY DEF Given, Value, Arithmetic
<1>3. Execute(s, q).effects = s.effects /\ Execute(t, p).effects = t.effects
  BY <1>1, ExecuteIs
<1>4. /\ Execute(s, q).env[a] = s.env[b] /\ Execute(t, p).env[b] = t.env[a]
      /\ \A v \in Vars \ {a} : Execute(s, q).env[v] = s.env[v]
      /\ \A v \in Vars \ {b} : Execute(t, p).env[v] = t.env[v]
  BY <1>1, <1>2, ExecuteIs, SMTT(60)
<1>5. Agree(Execute(t, p), Execute(s, q), {})
  BY <1>3, <1>4 DEF Exchanged, Agree
<1>6. State(Execute(s, q)) /\ State(Execute(t, p))
  BY ExecuteIs
<1> QED BY <1>4, <1>5, <1>6, AgreeEqual
-----------------------------------------------------------------------------
(* Blocks. *)
LEMMA SeqFromFunction ==
  ASSUME NEW n \in Nat, NEW S, NEW f \in [1..n -> S]
  PROVE  f \in Seq(S) /\ Len(f) = n
OBVIOUS

LEMMA LowestIs ==
  ASSUME NEW S \in SUBSET Nat, S # {}
  PROVE  Lowest(S) \in S /\ \A j \in S : Lowest(S) <= j
<1>1. \E k \in S : \A j \in S : k <= j
  BY NatLeast
<1> QED BY <1>1 DEF Lowest

LEMMA HighestIs ==
  ASSUME NEW n \in Nat, NEW S \in SUBSET (1..n), S # {}
  PROVE  Highest(S) \in S /\ \A j \in S : j <= Highest(S)
<1> DEFINE U == {m \in Nat : n - m \in S}
<1>1. PICK e \in S : TRUE
  OBVIOUS
<1>2. n - e \in U /\ U \in SUBSET Nat
  OBVIOUS
<1>3. PICK m \in U : \A l \in U : m <= l
  <2> HIDE DEF U
  <2> QED BY <1>2, NatLeast
<1>4. n - m \in S
  BY <1>3
<1>5. ASSUME NEW j \in S PROVE j <= n - m
  <2>1. n - j \in U
    OBVIOUS
  <2>2. m <= n - j
    BY <1>3, <2>1
  <2> QED BY <2>2
<1>6. \E k \in S : \A j \in S : j <= k
  BY <1>4, <1>5
<1> QED BY <1>6 DEF Highest

LEMMA SameMeanings ==
  ASSUME NEW qs \in Seq(Quadr), NEW rs \in Seq(Quadr), Len(rs) = Len(qs),
         \A k \in 1..Len(qs) :
           Execute(Execution(qs)[k - 1], rs[k]) = Execute(Execution(qs)[k - 1], qs[k])
  PROVE  /\ \A k \in 0..Len(qs) : Execution(rs)[k] = Execution(qs)[k]
         /\ Meaning(rs) = Meaning(qs)
<1>1. Len(qs) \in Nat
  OBVIOUS
<1>2. Execution(rs)[0] = Execution(qs)[0]
  BY <1>1, ExecutionIs
<1>3. \A k \in 0..Len(qs) : Execution(rs)[k] = Execution(qs)[k]
  <2>1. 0 \in 0..Len(qs) /\ Len(qs) \in 0..Len(qs) /\ (0 + 1)..Len(qs) = 1..Len(qs)
    BY <1>1
  <2> QED BY <1>2, <2>1, SameFrom
<1> QED BY <1>1, <1>3 DEF Meaning

(* The quadruples themselves are the same, from one state to another.     *)
LEMMA SameBetween ==
  ASSUME NEW qs \in Seq(Quadr), NEW rs \in Seq(Quadr), Len(rs) = Len(qs),
         NEW m \in 0..Len(qs), NEW n \in m..Len(qs), Execution(rs)[m] = Execution(qs)[m],
         \A k \in (m + 1)..n : rs[k] = qs[k]
  PROVE  Execution(rs)[n] = Execution(qs)[n]
<1>1. \A k \in (m + 1)..n :
        Execute(Execution(qs)[k - 1], rs[k]) = Execute(Execution(qs)[k - 1], qs[k])
  OBVIOUS
<1>2. n \in m..n
  OBVIOUS
<1> QED BY <1>1, <1>2, SameFrom

LEMMA SameUpTo ==
  ASSUME NEW qs \in Seq(Quadr), NEW rs \in Seq(Quadr), Len(rs) = Len(qs),
         NEW n \in 0..Len(qs), \A k \in 1..n : rs[k] = qs[k]
  PROVE  Execution(rs)[n] = Execution(qs)[n]
<1>1. Len(qs) \in Nat /\ 0 \in 0..Len(qs) /\ (0 + 1)..n = 1..n
  OBVIOUS
<1>2. Execution(rs)[0] = Execution(qs)[0]
  BY <1>1, ExecutionIs
<1> QED BY <1>1, <1>2, SameBetween

LEMMA TidyKeeps ==
  ASSUME NEW qs \in Seq(Quadr), NEW rs \in Seq(Quadr), Len(rs) = Len(qs),
         \A k \in 1..Len(qs) : rs[k] \in {qs[k], Tidy(qs[k])}
  PROVE  /\ \A k \in 0..Len(qs) : Execution(rs)[k] = Execution(qs)[k]
         /\ Meaning(rs) = Meaning(qs)
<1> SUFFICES ASSUME NEW k \in 1..Len(qs)
             PROVE  Execute(Execution(qs)[k - 1], rs[k]) = Execute(Execution(qs)[k - 1], qs[k])
  BY SameMeanings
<1>1. qs[k] \in Quadr /\ k - 1 \in 0..Len(qs)
  OBVIOUS
<1>2. State(Execution(qs)[k - 1])
  BY <1>1, ExecutionStates
<1> QED BY <1>1, <1>2, TidyExecutes

LEMMA ForwardKeeps ==
  ASSUME NEW tab \in Seq(Quadr), NEW k \in 1..(Len(tab) + 1), NEW a \in Vars, NEW b \in Vars,
         Execution(tab)[k - 1].env[a] = Execution(tab)[k - 1].env[b]
  PROVE  /\ PropagateForwards(tab, k, a, b) \in Seq(Quadr)
         /\ Len(PropagateForwards(tab, k, a, b)) = Len(tab)
         /\ \A j \in 1..(k - 1) : PropagateForwards(tab, k, a, b)[j] = tab[j]
         /\ Meaning(PropagateForwards(tab, k, a, b)) = Meaning(tab)
<1> PICK n \in Nat : n = Len(tab)
  OBVIOUS
<1> DEFINE Renamed(j) == WithArgs(tab[j], a, b)
           stops == {j \in k..n : StopsForward(Renamed(j), a, b)}
<1>1. PICK stop \in k..(n + 1) :
        /\ stop = IF stops = {} THEN n + 1 ELSE Lowest(stops)
        /\ \A j \in k..n : j < stop => ~StopsForward(Renamed(j), a, b)
  <2>1. CASE stops = {}
    BY <2>1
  <2>2. CASE stops # {}
    <3>1. stops \in SUBSET Nat
      OBVIOUS
    <3>2. Lowest(stops) \in stops /\ \A j \in stops : Lowest(stops) <= j
      <4> HIDE DEF stops
      <4> QED BY <2>2, <3>1, LowestIs
    <3>3. Lowest(stops) \in k..(n + 1)
      BY <3>2
    <3>4. \A j \in k..n : j < Lowest(stops) => ~StopsForward(Renamed(j), a, b)
      <4> PICK l \in k..(n + 1) : l = Lowest(stops)
        BY <3>3
      <4> QED BY <3>2
    <3> QED BY <2>2, <3>3, <3>4
  <2> QED BY <2>1, <2>2
<1> DEFINE rs == PropagateForwards(tab, k, a, b)
<1>2. rs = [j \in 1..n |-> IF j = stop THEN Renamed(j)
                           ELSE IF k <= j /\ j < stop THEN Tidy(WithResult(Renamed(j), a, b))
                           ELSE tab[j]]
  BY <1>1 DEF PropagateForwards, StopsForward
<1> HIDE DEF rs
<1>3. \A j \in 1..n : tab[j] \in Quadr /\ Renamed(j) \in Quadr
                      /\ Tidy(WithResult(Renamed(j), a, b)) \in Quadr
  <2> SUFFICES ASSUME NEW j \in 1..n
               PROVE  tab[j] \in Quadr /\ Renamed(j) \in Quadr
                      /\ Tidy(WithResult(Renamed(j), a, b)) \in Quadr
    OBVIOUS
  <2>1. tab[j] \in Quadr
    OBVIOUS
  <2> QED BY <2>1, RenamedQuadr
<1>4. rs \in Seq(Quadr) /\ Len(rs) = n
  <2>1. rs \in [1..n -> Quadr]
    <3> HIDE DEF Renamed
    <3> QED BY <1>2, <1>3
  <2> QED BY <2>1
<1>5. \A j \in 1..(k - 1) : rs[j] = tab[j]
  BY <1>2
<1> DEFINE T == {j \in (k - 1)..n : /\ Execution(rs)[j] = Execution(tab)[j]
                                    /\ j < stop => Execution(tab)[j].env[a] = Execution(tab)[j].env[b]}
<1>6. k - 1 \in T
  <2>1. k - 1 \in 0..Len(tab) /\ k - 1 \in (k - 1)..n
    OBVIOUS
  <2>2. Execution(rs)[k - 1] = Execution(tab)[k - 1]
    BY <1>4, <1>5, <2>1, SameUpTo
  <2> QED BY <2>1, <2>2
<1>7. ASSUME NEW j \in (k - 1)..(n - 1), j \in T PROVE j + 1 \in T
  <2>1. j + 1 \in k..n /\ j + 1 \in 1..n /\ j \in 0..n /\ (j + 1) - 1 = j
    OBVIOUS
  <2> PICK s : s = Execution(tab)[j]
    OBVIOUS
  <2> DEFINE q == tab[j + 1]
  <2>2. q \in Quadr /\ State(s)
    BY <2>1, ExecutionStates
  <2>3. Execution(tab)[j + 1] = Execute(s, q) /\ Execution(rs)[j + 1] = Execute(s, rs[j + 1])
    <3>1. Execution(rs)[j] = s
      BY <1>7
    <3>2. Execution(tab)[j + 1] = Execute(Execution(tab)[j], tab[j + 1])
      BY <2>1, ExecutionIs
    <3>3. Execution(rs)[j + 1] = Execute(Execution(rs)[j], rs[j + 1])
      BY <1>4, <2>1, ExecutionIs
    <3> QED BY <3>1, <3>2, <3>3
  <2>4. j + 1 <= stop => s.env[a] = s.env[b]
    BY <1>7
  <2>5. CASE j + 1 < stop
    <3>1. rs[j + 1] = Tidy(WithResult(WithArgs(q, a, b), a, b))
      BY <1>2, <2>1, <2>5
    <3>2. ~StopsForward(WithArgs(q, a, b), a, b)
      BY <1>1, <2>1, <2>5
    <3>3. WithArgs(q, a, b) \in Quadr /\ Execute(s, WithArgs(q, a, b)) = Execute(s, q)
      BY <2>2, <2>4, <2>5, RenamedQuadr, ExecuteWithArgs
    <3>4. /\ Execute(s, rs[j + 1]) = Execute(s, WithArgs(q, a, b))
          /\ Execute(s, WithArgs(q, a, b)).env[a] = Execute(s, WithArgs(q, a, b)).env[b]
      BY <2>2, <2>4, <2>5, <3>1, <3>2, <3>3, ExecuteForward
    <3> QED BY <2>1, <2>3, <3>3, <3>4
  <2>6. CASE j + 1 = stop
    <3>1. rs[j + 1] = WithArgs(q, a, b)
      BY <1>2, <2>1, <2>6
    <3>2. Execute(s, rs[j + 1]) = Execute(s, q)
      BY <2>2, <2>4, <2>6, <3>1, ExecuteWithArgs
    <3> QED BY <2>1, <2>3, <2>6, <3>2
  <2>7. CASE stop < j + 1
    <3>1. rs[j + 1] = q
      BY <1>2, <2>1, <2>7
    <3> QED BY <2>1, <2>3, <2>7, <3>1
  <2> QED BY <2>1, <2>5, <2>6, <2>7
<1>8. n \in T
  <2>1. k - 1 \in Int /\ n \in Int /\ n \in (k - 1)..n
    OBVIOUS
  <2> HIDE DEF T
  <2>2. \A j \in (k - 1)..(n - 1) : j \in T => j + 1 \in T
    BY <1>7
  <2>3. (k - 1)..n \subseteq T
    BY <1>6, <2>1, <2>2, UpTo
  <2> QED BY <2>1, <2>3
<1>9. Meaning(rs) = Meaning(tab)
  BY <1>4, <1>8 DEF Meaning
<1> QED BY <1>4, <1>5, <1>9 DEF rs

LEMMA BackwardQuadrs ==
  ASSUME NEW tab \in Seq(Quadr), NEW k, NEW a \in Vars, NEW b \in Vars
  PROVE  /\ PropagateBackwards(tab, k, a, b) \in Seq(Quadr)
         /\ Len(PropagateBackwards(tab, k, a, b)) = Len(tab)
<1> PICK n \in Nat : n = Len(tab)
  OBVIOUS
<1> DEFINE Renamed(j) == WithResult(tab[j], b, a)
<1>1. ASSUME NEW j \in 1..n
      PROVE  tab[j] \in Quadr /\ Renamed(j) \in Quadr /\ Tidy(WithArgs(Renamed(j), b, a)) \in Quadr
  <2>1. tab[j] \in Quadr
    OBVIOUS
  <2> QED BY <2>1, RenamedQuadr
<1> DEFINE stops == {j \in 1..k : Assigned(Renamed(j), a)}
           stop == IF stops = {} THEN 0 ELSE Highest(stops)
<1>2. PropagateBackwards(tab, k, a, b) =
        [j \in DOMAIN tab |-> IF j = stop THEN Renamed(j)
                              ELSE IF stop < j /\ j <= k THEN Tidy(WithArgs(Renamed(j), b, a))
                              ELSE tab[j]]
  BY DEF PropagateBackwards
<1> HIDE DEF Renamed, stop
<1>3. PropagateBackwards(tab, k, a, b) \in [1..n -> Quadr]
  BY <1>1, <1>2
<1> QED BY <1>3, SeqFromFunction

CopyAt(tab, k, a, b) == tab[k].op = "copy" /\ tab[k].result = a /\ tab[k].arg1 = b
ReachesBack(tab, k, a, b, c) ==
  /\ Assigned(tab[c], b)
  /\ \A j \in (c + 1)..(k - 1) : ~Assigned(tab[j], b) /\ ~Used(tab[j], a) /\ ~Assigned(tab[j], a)
AsBack(rs, tab, k, a, b) ==
  \A j \in DOMAIN tab : j # k => rs[j] = PropagateBackwards(tab, k - 1, a, b)[j]

LEMMA BackwardKeeps ==
  ASSUME NEW tab \in Seq(Quadr), NEW i0 \in 1..Len(tab), NEW a \in Vars, NEW b \in Vars, a # b,
         CopyAt(tab, i0, a, b), NEW c \in 1..(i0 - 1), ReachesBack(tab, i0, a, b, c),
         NEW rs \in Seq(Quadr), Len(rs) = Len(tab), CopyAt(rs, i0, b, a),
         AsBack(rs, tab, i0, a, b)
  PROVE  /\ Meaning(rs) = Meaning(tab)
         /\ Execution(rs)[i0].env[a] = Execution(rs)[i0].env[b]
<1> SUFFICES ASSUME tab[i0].op = "copy", tab[i0].result = a, tab[i0].arg1 = b,
                    Assigned(tab[c], b),
                    \A j \in (c + 1)..(i0 - 1) : ~Assigned(tab[j], b) /\ ~Used(tab[j], a) /\ ~Assigned(tab[j], a),
                    NEW p \in Quadr, p.op = "copy", p.result = b, p.arg1 = a, rs[i0] = p,
                    \A j \in DOMAIN tab : j # i0 => rs[j] = PropagateBackwards(tab, i0 - 1, a, b)[j]
             PROVE  /\ Meaning(rs) = Meaning(tab)
                    /\ Execution(rs)[i0].env[a] = Execution(rs)[i0].env[b]
  BY DEF CopyAt, ReachesBack, AsBack
<1> PICK n \in Nat : n = Len(tab)
  OBVIOUS
<1> DEFINE Renamed(j) == WithResult(tab[j], b, a)
           stops == {j \in 1..(i0 - 1) : Assigned(Renamed(j), a)}
           back == PropagateBackwards(tab, i0 - 1, a, b)
<1>0. \A j \in 1..n : tab[j] \in Quadr
  OBVIOUS
<1>1. \A j \in 1..n : Assigned(Renamed(j), a) <=> Assigned(tab[j], a) \/ Assigned(tab[j], b)
  <2> SUFFICES ASSUME NEW j \in 1..n
               PROVE  Assigned(Renamed(j), a) <=> Assigned(tab[j], a) \/ Assigned(tab[j], b)
    OBVIOUS
  <2>1. Renamed(j) = [op |-> tab[j].op, result |-> Subst(tab[j].result, b, a),
                      arg1 |-> tab[j].arg1, arg2 |-> tab[j].arg2]
    BY <1>0, QuadrIs, WithResultIs
  <2> HIDE DEF Renamed
  <2>2. Renamed(j).op = tab[j].op /\ Renamed(j).result = Subst(tab[j].result, b, a)
    BY <2>1
  <2> QED BY <2>2 DEF Assigned, Subst
<1>2. c = IF stops = {} THEN 0 ELSE Highest(stops)
  <2>1. c \in stops /\ c \in 1..n
    BY <1>1
  <2>2. stops \in SUBSET (1..n) /\ stops # {}
    BY <2>1
  <2>3. \A j \in stops : j <= c
    <3> SUFFICES ASSUME NEW j \in stops, c < j PROVE FALSE
      OBVIOUS
    <3>1. j \in (c + 1)..(i0 - 1) /\ j \in 1..n
      OBVIOUS
    <3> QED BY <1>1, <3>1
  <2>4. Highest(stops) \in stops /\ \A j \in stops : j <= Highest(stops)
    <3> HIDE DEF stops
    <3> QED BY <2>2, HighestIs
  <2> HIDE DEF stops
  <2>5. PICK h \in 1..n : h = Highest(stops)
    BY <2>2, <2>4
  <2>6. h = c
    BY <2>1, <2>3, <2>4, <2>5
  <2> QED BY <2>2, <2>5, <2>6
<1>3. back = [j \in 1..n |-> IF j = c THEN Renamed(j)
                             ELSE IF c < j /\ j <= i0 - 1 THEN Tidy(WithArgs(Renamed(j), b, a))
                             ELSE tab[j]]
  BY <1>2 DEF PropagateBackwards
<1> HIDE DEF back
<1>5. DOMAIN tab = 1..n
  OBVIOUS
<1>6. rs \in Seq(Quadr) /\ Len(rs) = Len(tab)
  OBVIOUS
<1>7. /\ \A j \in 1..(c - 1) : rs[j] = tab[j]
      /\ rs[c] = Renamed(c)
      /\ \A j \in (c + 1)..(i0 - 1) : rs[j] = Tidy(WithArgs(Renamed(j), b, a))
      /\ rs[i0] = p
      /\ \A j \in (i0 + 1)..n : rs[j] = tab[j]
  <2>1. \A j \in 1..n : rs[j] = IF j = i0 THEN p ELSE back[j]
    BY <1>5 DEF back
  <2> HIDE DEF Renamed, stops
  <2>2. \A j \in 1..(c - 1) : rs[j] = tab[j]
    BY <1>3, <2>1
  <2>3. rs[c] = Renamed(c)
    BY <1>3, <2>1
  <2>4. \A j \in (c + 1)..(i0 - 1) : rs[j] = Tidy(WithArgs(Renamed(j), b, a))
    BY <1>3, <2>1
  <2>5. \A j \in (i0 + 1)..n : rs[j] = tab[j]
    BY <1>3, <2>1
  <2> QED BY <2>2, <2>3, <2>4, <2>5
<1>8. Execution(rs)[c - 1] = Execution(tab)[c - 1]
  <2>1. c - 1 \in 0..Len(tab)
    OBVIOUS
  <2>2. Len(rs) = Len(tab) /\ rs \in Seq(Quadr)
    BY <1>6
  <2>3. \A j \in 1..(c - 1) : rs[j] = tab[j]
    BY <1>7
  <2> HIDE DEF Renamed, stops
  <2> QED BY <2>1, <2>2, <2>3, SameUpTo
<1>9. \A j \in 1..n : /\ State(Execution(tab)[j - 1]) /\ State(Execution(rs)[j - 1])
                      /\ Execution(tab)[j] = Execute(Execution(tab)[j - 1], tab[j])
                      /\ Execution(rs)[j] = Execute(Execution(rs)[j - 1], rs[j])
  <2> SUFFICES ASSUME NEW j \in 1..n
               PROVE  /\ State(Execution(tab)[j - 1]) /\ State(Execution(rs)[j - 1])
                      /\ Execution(tab)[j] = Execute(Execution(tab)[j - 1], tab[j])
                      /\ Execution(rs)[j] = Execute(Execution(rs)[j - 1], rs[j])
    OBVIOUS
  <2>1. j - 1 \in 0..n
    OBVIOUS
  <2> QED BY <1>6, <2>1, ExecutionIs, ExecutionStates
<1> DEFINE T == {j \in c..(i0 - 1) : Exchanged(Execution(tab)[j], Execution(rs)[j], a, b)}
<1>10. c \in T
  <2>1. c \in 1..n /\ c \in c..(i0 - 1)
    OBVIOUS
  <2> PICK s : s = Execution(tab)[c - 1]
    OBVIOUS
  <2>2. /\ State(s) /\ tab[c] \in Quadr
        /\ Execution(tab)[c] = Execute(s, tab[c])
        /\ Execution(rs)[c] = Execute(s, WithResult(tab[c], b, a))
    BY <1>0, <1>7, <1>8, <1>9, <2>1
  <2>3. Exchanged(Execute(s, tab[c]), Execute(s, WithResult(tab[c], b, a)), a, b)
    BY <2>2, ExchangeBegins
  <2> QED BY <2>1, <2>2, <2>3
<1>11. ASSUME NEW j \in c..(i0 - 2), j \in T PROVE j + 1 \in T
  <2>1. j + 1 \in (c + 1)..(i0 - 1) /\ j + 1 \in 1..n /\ (j + 1) - 1 = j /\ j + 1 \in c..(i0 - 1)
    OBVIOUS
  <2>2. rs[j + 1] = Tidy(WithArgs(WithResult(tab[j + 1], b, a), b, a))
    BY <1>7, <2>1
  <2>3. ~Assigned(tab[j + 1], b) /\ ~Used(tab[j + 1], a) /\ ~Assigned(tab[j + 1], a)
    BY <2>1
  <2>4. /\ State(Execution(tab)[j]) /\ State(Execution(rs)[j])
        /\ Execution(tab)[j + 1] = Execute(Execution(tab)[j], tab[j + 1])
        /\ Execution(rs)[j + 1] = Execute(Execution(rs)[j], rs[j + 1])
    BY <1>9, <2>1
  <2>5. Exchanged(Execution(tab)[j + 1], Execution(rs)[j + 1], a, b)
    BY <1>0, <1>11, <2>1, <2>2, <2>3, <2>4, ExecuteExchanged
  <2> QED BY <2>1, <2>5
<1>12. i0 - 1 \in T
  <2>1. c \in Int /\ i0 - 1 \in Int /\ i0 - 1 \in c..(i0 - 1) /\ (i0 - 1) - 1 = i0 - 2
    OBVIOUS
  <2> HIDE DEF T
  <2>2. \A j \in c..((i0 - 1) - 1) : j \in T => j + 1 \in T
    BY <1>11, <2>1
  <2>3. c..(i0 - 1) \subseteq T
    BY <1>10, <2>1, <2>2, UpTo
  <2> QED BY <2>1, <2>3
<1>13. /\ Execution(rs)[i0] = Execution(tab)[i0]
       /\ Execution(tab)[i0].env[a] = Execution(tab)[i0].env[b]
  <2>1. i0 \in 1..n
    OBVIOUS
  <2> PICK s, t : s = Execution(tab)[i0 - 1] /\ t = Execution(rs)[i0 - 1]
    OBVIOUS
  <2>2. /\ State(s) /\ State(t)
        /\ Execution(tab)[i0] = Execute(s, tab[i0]) /\ Execution(rs)[i0] = Execute(t, p)
    BY <1>7, <1>9, <2>1
  <2>3. Exchanged(s, t, a, b) /\ tab[i0] \in Quadr
    BY <1>0, <1>12, <2>1
  <2> QED BY <2>2, <2>3, ExchangeEnds
<1>14. Execution(rs)[n] = Execution(tab)[n]
  <2>1. i0 \in 0..Len(tab) /\ n \in i0..Len(tab)
    OBVIOUS
  <2>2. Len(rs) = Len(tab) /\ rs \in Seq(Quadr)
    BY <1>6
  <2>3. \A j \in (i0 + 1)..n : rs[j] = tab[j]
    BY <1>7
  <2>4. Execution(rs)[i0] = Execution(tab)[i0]
    BY <1>13
  <2> HIDE DEF Renamed, stops, T
  <2> QED BY <2>1, <2>2, <2>3, <2>4, SameBetween
<1> QED BY <1>6, <1>13, <1>14 DEF Meaning

LEMMA DeadKeeps ==
  ASSUME NEW tab \in Seq(Quadr), CallsOwnResult(tab), NEW k \in 1..Len(tab), NEW v \in Vars,
         Assigned(tab[k], v), tab[k].result = v, NEW c \in (k + 1)..Len(tab),
         ~Used(tab[c], v), Assigned(tab[c], v),
         \A j \in (k + 1)..(c - 1) : ~Used(tab[j], v) /\ ~Assigned(tab[j], v),
         NEW rs, rs = [tab EXCEPT ![k] = Gone]
  PROVE  rs \in Seq(Quadr) /\ Len(rs) = Len(tab) /\ Meaning(rs) = Meaning(tab)
<1> PICK n \in Nat : n = Len(tab)
  OBVIOUS
<1>0. \A j \in 1..n : tab[j] \in Quadr
  OBVIOUS
<1>1. Gone \in Quadr /\ Gone.op = "gone"
  BY DEF Quadr, Gone
<1>2. rs \in Seq(Quadr) /\ Len(rs) = n /\ rs[k] = Gone /\ \A j \in 1..n : j # k => rs[j] = tab[j]
  BY <1>1
<1>3. tab[k].op # "call"
  <2>1. k \in DOMAIN tab /\ c \in DOMAIN tab /\ c # k /\ tab[c].result = v /\ tab[c].op # "write_ptr"
    BY DEF Assigned
  <2> QED BY <2>1 DEF CallsOwnResult
<1>4. \A j \in 1..n : /\ State(Execution(tab)[j - 1]) /\ State(Execution(rs)[j - 1])
                      /\ Execution(tab)[j] = Execute(Execution(tab)[j - 1], tab[j])
                      /\ Execution(rs)[j] = Execute(Execution(rs)[j - 1], rs[j])
  <2> SUFFICES ASSUME NEW j \in 1..n
               PROVE  /\ State(Execution(tab)[j - 1]) /\ State(Execution(rs)[j - 1])
                      /\ Execution(tab)[j] = Execute(Execution(tab)[j - 1], tab[j])
                      /\ Execution(rs)[j] = Execute(Execution(rs)[j - 1], rs[j])
    OBVIOUS
  <2>1. j - 1 \in 0..n
    OBVIOUS
  <2> QED BY <1>2, <2>1, ExecutionIs, ExecutionStates
<1>5. Execution(rs)[k - 1] = Execution(tab)[k - 1]
  <2>1. k - 1 \in 0..Len(tab) /\ \A j \in 1..(k - 1) : j \in 1..n /\ j # k
    OBVIOUS
  <2>2. \A j \in 1..(k - 1) : rs[j] = tab[j]
    BY <1>2, <2>1
  <2> QED BY <1>2, <2>1, <2>2, SameUpTo, ZenonT(60)
<1> DEFINE T == {j \in k..(c - 1) : Agree(Execution(tab)[j], Execution(rs)[j], {v})}
<1>6. k \in T
  <2> PICK s : s = Execution(tab)[k - 1]
    OBVIOUS
  <2>1. k \in 1..n /\ k \in k..(c - 1)
    OBVIOUS
  <2>2. State(s) /\ Execution(rs)[k] = Execute(s, Gone) /\ Execution(tab)[k] = Execute(s, tab[k])
    BY <1>2, <1>4, <1>5, <2>1
  <2>5. Execution(rs)[k] = s
    BY <1>1, <2>2, ExecuteIs
  <2>3. tab[k].op \in Assigning /\ tab[k].op \notin Visible
    BY <1>0, <1>3, <2>1, QuadrIs DEF Assigning, Visible, Arithmetic
  <2>4. Agree(Execute(s, tab[k]), s, {v})
    BY <1>0, <2>1, <2>2, <2>3, ExecuteIs, ZenonT(60) DEF Agree
  <2> QED BY <2>1, <2>2, <2>4, <2>5
<1>7. ASSUME NEW j \in k..(c - 2), j \in T PROVE j + 1 \in T
  <2>1. j + 1 \in (k + 1)..(c - 1) /\ j + 1 \in 1..n /\ (j + 1) - 1 = j /\ j + 1 \in k..(c - 1) /\ j + 1 # k
    OBVIOUS
  <2>2. rs[j + 1] = tab[j + 1] /\ ~Used(tab[j + 1], v)
    BY <1>2, <2>1
  <2>3. /\ State(Execution(tab)[j]) /\ State(Execution(rs)[j])
        /\ Execution(tab)[j + 1] = Execute(Execution(tab)[j], tab[j + 1])
        /\ Execution(rs)[j + 1] = Execute(Execution(rs)[j], tab[j + 1])
    BY <1>4, <2>1, <2>2
  <2>4. Agree(Execution(tab)[j + 1], Execution(rs)[j + 1], {v})
    BY <1>0, <1>7, <2>1, <2>2, <2>3, ExecuteUnused
  <2> QED BY <2>1, <2>4
<1>8. c - 1 \in T
  <2>1. k \in Int /\ c - 1 \in Int /\ c - 1 \in k..(c - 1) /\ (c - 1) - 1 = c - 2
    OBVIOUS
  <2> HIDE DEF T
  <2>2. \A j \in k..((c - 1) - 1) : j \in T => j + 1 \in T
    BY <1>7, <2>1
  <2>3. k..(c - 1) \subseteq T
    BY <1>6, <2>1, <2>2, UpTo
  <2> QED BY <2>1, <2>3
<1>9. Execution(rs)[c] = Execution(tab)[c]
  <2>1. c \in 1..n /\ c # k
    OBVIOUS
  <2>2. rs[c] = tab[c]
    BY <1>2, <2>1
  <2> PICK s, t, q : s = Execution(tab)[c - 1] /\ t = Execution(rs)[c - 1] /\ q = tab[c]
    OBVIOUS
  <2>3. State(s) /\ State(t) /\ Execution(tab)[c] = Execute(s, q) /\ Execution(rs)[c] = Execute(t, q)
    BY <1>4, <2>1, <2>2
  <2>4. Agree(s, t, {v}) /\ q \in Quadr /\ ~Used(q, v) /\ Assigned(q, v)
    BY <1>0, <1>8, <2>1
  <2> HIDE DEF T
  <2>5. Execute(s, q) = Execute(t, q)
    BY <2>3, <2>4, ExecuteUnused, ZenonT(60)
  <2> QED BY <2>3, <2>5
<1>10. Execution(rs)[n] = Execution(tab)[n]
  <2>1. c \in 0..Len(tab) /\ n \in c..Len(tab) /\ \A j \in (c + 1)..n : j \in 1..n /\ j # k
    OBVIOUS
  <2>2. \A j \in (c + 1)..n : rs[j] = tab[j]
    BY <1>2, <2>1
  <2>3. Len(rs) = Len(tab) /\ rs \in Seq(Quadr)
    BY <1>2
  <2> HIDE DEF T
  <2> QED BY <1>9, <2>1, <2>2, <2>3, SameBetween, ZenonT(60)
<1> QED BY <1>2, <1>10 DEF Meaning

LEMMA MeaningOfLonger ==
  ASSUME NEW l \in Seq(Quadr), NEW rs \in Seq(Quadr), Len(rs) = Len(l) + 1,
         \A j \in 1..Len(l) : rs[j] = l[j]
  PROVE  Meaning(rs) = Execute(Meaning(l), rs[Len(l) + 1])
<1> PICK n \in Nat : n = Len(l)
  OBVIOUS
<1>1. Len(rs) = n + 1 /\ Len(rs) \in Nat /\ Len(l) \in Nat /\ \A j \in 1..n : rs[j] = l[j]
  OBVIOUS
<1> DEFINE T == {k \in 0..n : Execution(rs)[k] = Execution(l)[k]}
<1>2. 0 \in T
  <2>1. Execution(rs)[0] = Execution(l)[0]
    BY <1>1, ExecutionIs
  <2> QED BY <2>1
<1>3. ASSUME NEW k \in 0..(n - 1), k \in T PROVE k + 1 \in T
  <2>1. k + 1 \in 1..n /\ k + 1 \in 1..(n + 1) /\ (k + 1) - 1 = k /\ k + 1 \in 0..n
    OBVIOUS
  <2>2. Execution(l)[k + 1] = Execute(Execution(l)[k], l[k + 1])
    BY <2>1, ExecutionIs
  <2>3. Execution(rs)[k + 1] = Execute(Execution(rs)[k], rs[k + 1])
    BY <1>1, <2>1, ExecutionIs
  <2> QED BY <1>1, <1>3, <2>1, <2>2, <2>3
<1>4. n \in T
  <2>1. 0 \in Int /\ n \in Int /\ n \in 0..n
    OBVIOUS
  <2> HIDE DEF T
  <2>2. \A k \in 0..(n - 1) : k \in T => k + 1 \in T
    BY <1>3
  <2>3. 0..n \subseteq T
    BY <1>2, <2>1, <2>2, UpTo
  <2> QED BY <2>1, <2>3
<1>5. Execution(rs)[n + 1] = Execute(Execution(rs)[n], rs[n + 1])
  <2>1. n + 1 \in 1..Len(rs) /\ (n + 1) - 1 = n
    BY <1>1
  <2> QED BY <1>1, <2>1, ExecutionIs
<1> QED BY <1>1, <1>4, <1>5 DEF Meaning

LEMMA MeaningAppend ==
  ASSUME NEW l \in Seq(Quadr), NEW q \in Quadr
  PROVE  Meaning(Append(l, q)) = Execute(Meaning(l), q)
<1>1. /\ Append(l, q) \in Seq(Quadr)
      /\ Len(Append(l, q)) = Len(l) + 1
      /\ Append(l, q)[Len(l) + 1] = q
      /\ \A j \in 1..Len(l) : Append(l, q)[j] = l[j]
  OBVIOUS
<1> QED BY <1>1, MeaningOfLonger

LEMMA KeptKeeps ==
  ASSUME NEW tab \in Seq(Quadr)
  PROVE  Kept(tab) \in Seq(Quadr) /\ Meaning(Kept(tab)) = Meaning(tab)
<1> PICK n \in Nat : n = Len(tab)
  OBVIOUS
<1> DEFINE S == Seq(Quadr)
           Is(f) == f = [k \in 0..n |-> IF k = 0 THEN <<>>
                                       ELSE IF tab[k] = Gone THEN f[k - 1]
                                       ELSE Append(f[k - 1], tab[k])]
           D == [p \in ((0 + 1)..n) \X S |-> IF tab[p[1]] = Gone THEN p[2] ELSE Append(p[2], tab[p[1]])]
<1>1. Kept(tab) = (CHOOSE f : Is(f))[n]
  BY DEF Kept
<1>2. \E f \in [0..n -> S] : StepsUp(f, 0, n, <<>>, D)
  <2>1. D \in [((0 + 1)..n) \X S -> S]
    <3>1. \A p \in ((0 + 1)..n) \X S : (IF tab[p[1]] = Gone THEN p[2] ELSE Append(p[2], tab[p[1]])) \in S
      <4> SUFFICES ASSUME NEW k \in (0 + 1)..n, NEW l \in S
                   PROVE  (IF tab[k] = Gone THEN l ELSE Append(l, tab[k])) \in S
        OBVIOUS
      <4>1. tab[k] \in Quadr
        OBVIOUS
      <4> QED BY <4>1
    <3> HIDE DEF S
    <3> QED BY <3>1
  <2>2. <<>> \in S /\ 0 \in Int /\ n \in Int /\ 0 <= n
    OBVIOUS
  <2> HIDE DEF D, S
  <2> QED BY <2>1, <2>2, RecursionUp
<1>3. PICK f \in [0..n -> S] : StepsUp(f, 0, n, <<>>, D)
  BY <1>2
<1>4. f[0] = <<>> /\ \A k \in 1..n : f[k] = IF tab[k] = Gone THEN f[k - 1] ELSE Append(f[k - 1], tab[k])
  <2>1. f[0] = <<>>
    BY <1>3 DEF StepsUp
  <2>2. ASSUME NEW k \in 1..n PROVE f[k] = IF tab[k] = Gone THEN f[k - 1] ELSE Append(f[k - 1], tab[k])
    <3>1. k \in (0 + 1)..n /\ f[k - 1] \in S
      OBVIOUS
    <3>2. f[k] = D[<<k, f[k - 1]>>]
      <4> HIDE DEF D
      <4> QED BY <1>3, <3>1 DEF StepsUp
    <3>3. <<k, f[k - 1]>> \in ((0 + 1)..n) \X S
      BY <3>1
    <3> HIDE DEF S
    <3> QED BY <3>2, <3>3
  <2> QED BY <2>1, <2>2
<1> HIDE DEF D
<1>5. \E g : Is(g)
  <2>1. ASSUME NEW k \in 0..n, k # 0 PROVE k \in 1..n
    BY <2>1
  <2>2. Is(f)
    <3> HIDE DEF S
    <3> QED BY <1>4, <2>1
  <2> HIDE DEF Is
  <2> QED BY <2>2
<1> PICK list : Is(list) /\ Kept(tab) = list[n]
  <2> HIDE DEF Is
  <2> QED BY <1>1, <1>5
<1>6. list[0] = <<>> /\ \A k \in 1..n : list[k] = IF tab[k] = Gone THEN list[k - 1] ELSE Append(list[k - 1], tab[k])
  <2>1. list[0] = <<>>
    OBVIOUS
  <2>2. ASSUME NEW k \in 1..n
        PROVE  list[k] = IF tab[k] = Gone THEN list[k - 1] ELSE Append(list[k - 1], tab[k])
    <3>1. k \in 0..n /\ k # 0
      OBVIOUS
    <3> QED BY <3>1
  <2> QED BY <2>1, <2>2
<1> HIDE DEF Is
<1> DEFINE T == {k \in 0..n : list[k] \in Seq(Quadr) /\ Meaning(list[k]) = Execution(tab)[k]}
<1>7. 0 \in T
  <2> PICK e : e = list[0]
    OBVIOUS
  <2>1. e \in Seq(Quadr) /\ Len(e) = 0 /\ Len(tab) \in Nat /\ 0 \in 0..n
    BY <1>6
  <2>2. Execution(e)[0] = Execution(tab)[0]
    <3>1. Len(e) \in Nat
      BY <2>1
    <3> HIDE DEF T, S
    <3> QED BY <2>1, <3>1, ExecutionIs
  <2> QED BY <2>1, <2>2 DEF Meaning
<1>8. ASSUME NEW k \in 0..(n - 1), k \in T PROVE k + 1 \in T
  <2>1. k + 1 \in 1..n /\ (k + 1) - 1 = k /\ k \in 0..n /\ k + 1 \in 0..n /\ k + 1 \in 1..Len(tab)
    OBVIOUS
  <2>2. Execution(tab)[k + 1] = Execute(Execution(tab)[k], tab[k + 1])
    BY <2>1, ExecutionIs
  <2>3. tab[k + 1] \in Quadr /\ State(Execution(tab)[k])
    BY <2>1, ExecutionStates
  <2>4. list[k] \in Seq(Quadr) /\ Meaning(list[k]) = Execution(tab)[k]
    BY <1>8
  <2>5. CASE tab[k + 1] = Gone
    <3>1. list[k + 1] = list[k]
      BY <1>6, <2>1, <2>5
    <3>2. Execution(tab)[k + 1] = Execution(tab)[k]
      BY <2>2, <2>3, <2>5, ExecuteIs DEF Gone
    <3> QED BY <2>1, <2>4, <3>1, <3>2
  <2>6. CASE tab[k + 1] # Gone
    <3>1. list[k + 1] = Append(list[k], tab[k + 1])
      BY <1>6, <2>1, <2>6
    <3>2. list[k + 1] \in Seq(Quadr)
      BY <2>3, <2>4, <3>1
    <3>3. Meaning(list[k + 1]) = Execute(Meaning(list[k]), tab[k + 1])
      BY <2>3, <2>4, <3>1, MeaningAppend
    <3> QED BY <2>1, <2>2, <2>4, <3>2, <3>3
  <2> QED BY <2>5, <2>6
<1>9. n \in T
  <2>1. 0 \in Int /\ n \in Int /\ n \in 0..n
    OBVIOUS
  <2> HIDE DEF T
  <2>2. \A k \in 0..(n - 1) : k \in T => k + 1 \in T
    BY <1>8
  <2>3. 0..n \subseteq T
    BY <1>7, <2>1, <2>2, UpTo
  <2> QED BY <2>1, <2>3
<1> QED BY <1>9 DEF Meaning

(* Propagation forwards looks at nothing before the point it starts from. *)
SameBut(rs, tab, k) == Len(rs) = Len(tab) /\ \A j \in 1..Len(tab) : j # k => rs[j] = tab[j]

With(tab, k, q) == [tab EXCEPT ![k] = q]

LEMMA ForwardLocal ==
  ASSUME NEW tab \in Seq(Quadr), NEW rs \in Seq(Quadr), NEW k \in 1..Len(tab), NEW a, NEW b,
         SameBut(rs, tab, k), NEW m, m = k + 1
  PROVE  PropagateForwards(rs, m, a, b) = With(PropagateForwards(tab, m, a, b), k, rs[k])
<1> USE DEF SameBut
<1> PICK n \in Nat : n = Len(tab)
  OBVIOUS
<1> DEFINE Old(j) == WithArgs(tab[j], a, b)
           New(j) == WithArgs(rs[j], a, b)
           oldStops == {j \in (k + 1)..n : StopsForward(Old(j), a, b)}
           newStops == {j \in (k + 1)..n : StopsForward(New(j), a, b)}
           stop == IF oldStops = {} THEN n + 1 ELSE Lowest(oldStops)
           x == PropagateForwards(tab, k + 1, a, b)
           y == PropagateForwards(rs, k + 1, a, b)
<1>1. \A j \in (k + 1)..n : rs[j] = tab[j]
  OBVIOUS
<1>2. newStops = oldStops
  BY <1>1
<1>3. stop \in (k + 1)..(n + 1)
  <2>1. CASE oldStops = {}
    BY <2>1
  <2>2. CASE oldStops # {}
    <3>1. oldStops \in SUBSET Nat /\ \A j \in oldStops : j \in (k + 1)..(n + 1)
      OBVIOUS
    <3>2. Lowest(oldStops) \in oldStops
      <4> HIDE DEF oldStops
      <4> QED BY <2>2, <3>1, LowestIs
    <3> HIDE DEF oldStops
    <3> QED BY <2>2, <3>1, <3>2
  <2> QED BY <2>1, <2>2
<1>4. DOMAIN tab = 1..n /\ DOMAIN rs = 1..n
  OBVIOUS
<1>5. x = [j \in 1..n |-> IF j = stop THEN Old(j)
                         ELSE IF k + 1 <= j /\ j < stop THEN Tidy(WithResult(Old(j), a, b)) ELSE tab[j]]
  BY <1>4 DEF PropagateForwards, StopsForward
<1>6. y = [j \in 1..n |-> IF j = stop THEN New(j)
                         ELSE IF k + 1 <= j /\ j < stop THEN Tidy(WithResult(New(j), a, b)) ELSE rs[j]]
  <2>1. y = [j \in 1..n |-> IF j = (IF newStops = {} THEN n + 1 ELSE Lowest(newStops)) THEN New(j)
                           ELSE IF k + 1 <= j /\ j < (IF newStops = {} THEN n + 1 ELSE Lowest(newStops))
                                THEN Tidy(WithResult(New(j), a, b)) ELSE rs[j]]
    BY <1>4 DEF PropagateForwards, StopsForward
  <2> HIDE DEF y, New, newStops, oldStops
  <2> QED BY <1>2, <2>1
<1> HIDE DEF x, y, stop
<1>7. DOMAIN x = 1..n /\ DOMAIN [x EXCEPT ![k] = rs[k]] = 1..n
  BY <1>5
<1>8. ASSUME NEW j \in 1..n PROVE y[j] = [x EXCEPT ![k] = rs[k]][j]
  <2>1. CASE j = k
    <3>1. y[j] = rs[k]
      <4>1. j # stop /\ ~(k + 1 <= j)
        BY <1>3, <2>1
      <4> QED BY <1>6, <2>1, <4>1
    <3>2. [x EXCEPT ![k] = rs[k]][j] = rs[k]
      BY <1>7, <2>1
    <3> QED BY <3>1, <3>2
  <2>2. CASE j # k
    <3>1. rs[j] = tab[j]
      BY <2>2
    <3>2. New(j) = Old(j)
      BY <3>1
    <3> HIDE DEF New, Old
    <3>3. y[j] = x[j]
      BY <1>5, <1>6, <3>1, <3>2
    <3>4. [x EXCEPT ![k] = rs[k]][j] = x[j]
      BY <1>7, <2>2
    <3> QED BY <3>3, <3>4
  <2> QED BY <2>1, <2>2
<1>9. DOMAIN y = 1..n
  BY <1>6
<1>10. y = [j \in 1..n |-> y[j]] /\ [x EXCEPT ![k] = rs[k]] = [j \in 1..n |-> [x EXCEPT ![k] = rs[k]][j]]
  BY <1>5, <1>6, <1>7
<1>11. [j \in 1..n |-> y[j]] = [j \in 1..n |-> [x EXCEPT ![k] = rs[k]][j]]
  BY <1>8
<1>12. y = [x EXCEPT ![k] = rs[k]]
  BY <1>10, <1>11
<1> QED BY <1>12 DEF x, y, With

LEMMA ForwardAt ==
  ASSUME NEW back \in Seq(Quadr), NEW rs \in Seq(Quadr), NEW k \in 1..Len(back),
         NEW a \in Vars, NEW b \in Vars, SameBut(rs, back, k),
         Execution(rs)[k].env[b] = Execution(rs)[k].env[a], NEW m, m = k + 1
  PROVE  /\ With(PropagateForwards(back, m, b, a), k, rs[k]) \in Seq(Quadr)
         /\ Len(With(PropagateForwards(back, m, b, a), k, rs[k])) = Len(rs)
         /\ Meaning(With(PropagateForwards(back, m, b, a), k, rs[k])) = Meaning(rs)
<1>1. m - 1 = k /\ m \in 1..(Len(rs) + 1)
  BY DEF SameBut
<1>2. /\ PropagateForwards(rs, m, b, a) \in Seq(Quadr)
      /\ Len(PropagateForwards(rs, m, b, a)) = Len(rs)
      /\ Meaning(PropagateForwards(rs, m, b, a)) = Meaning(rs)
  <2>1. Execution(rs)[m - 1].env[b] = Execution(rs)[m - 1].env[a]
    BY <1>1
  <2> QED BY <1>1, <2>1, ForwardKeeps
<1>3. PropagateForwards(rs, m, b, a) = With(PropagateForwards(back, m, b, a), k, rs[k])
  BY ForwardLocal
<1> QED BY <1>2, <1>3

(* One iteration of copy_backpropagation on a copy "a := b". *)
LEMMA BackStep ==
  ASSUME NEW tab \in Seq(Quadr), NEW k \in 1..Len(tab), NEW a \in Vars, NEW b \in Vars, a # b,
         CopyAt(tab, k, a, b), NEW c \in 1..(k - 1), ReachesBack(tab, k, a, b, c),
         NEW p \in Quadr, p.op = "copy", p.result = b, p.arg1 = a,
         NEW moved, moved = PropagateForwards(PropagateBackwards(tab, k - 1, a, b), k + 1, b, a)
  PROVE  /\ With(moved, k, p) \in Seq(Quadr)
         /\ Len(With(moved, k, p)) = Len(tab)
         /\ Meaning(With(moved, k, p)) = Meaning(tab)
<1> PICK n \in Nat : n = Len(tab)
  OBVIOUS
<1> PICK back \in Seq(Quadr) : back = PropagateBackwards(tab, k - 1, a, b) /\ Len(back) = n
  BY BackwardQuadrs
<1> PICK rs \in Seq(Quadr) : Len(rs) = n /\ rs[k] = p /\ \A j \in 1..n : j # k => rs[j] = back[j]
  <2> DEFINE f == [j \in 1..n |-> IF j = k THEN p ELSE back[j]]
  <2>1. \A j \in 1..n : back[j] \in Quadr
    OBVIOUS
  <2>2. f \in [1..n -> Quadr]
    BY <2>1
  <2>3. f[k] = p /\ \A j \in 1..n : j # k => f[j] = back[j]
    OBVIOUS
  <2> HIDE DEF f
  <2>4. f \in Seq(Quadr) /\ Len(f) = n
    BY <2>2, SeqFromFunction
  <2> QED BY <2>3, <2>4
<1>1. /\ Meaning(rs) = Meaning(tab)
      /\ Execution(rs)[k].env[a] = Execution(rs)[k].env[b]
  <2>1. Len(rs) = Len(tab) /\ DOMAIN tab = 1..n
    OBVIOUS
  <2>2. CopyAt(rs, k, b, a) /\ AsBack(rs, tab, k, a, b)
    BY <2>1 DEF CopyAt, AsBack
  <2> QED BY <2>1, <2>2, BackwardKeeps
<1> PICK m : m = k + 1
  OBVIOUS
<1> PICK r : r = With(PropagateForwards(back, m, b, a), k, rs[k])
  OBVIOUS
<1>2. k \in 1..Len(back) /\ SameBut(rs, back, k)
  BY DEF SameBut
<1>3. r \in Seq(Quadr) /\ Len(r) = Len(rs) /\ Meaning(r) = Meaning(rs)
  BY <1>1, <1>2, ForwardAt
<1>4. r = With(moved, k, p)
  OBVIOUS
<1> QED BY <1>1, <1>3, <1>4

-----------------------------------------------------------------------------
(* The passes. *)
CopyInv ==
  /\ qtab \in Seq(Quadr)
  /\ pc \in {"copies", "dead", "back", "forward", "done"}
  /\ i \in Int
  /\ pc = "dead" => i \in 1..(Size + 1)
  /\ pc = "back" => i \in 0..Size
  /\ pc = "forward" => i \in 1..(Size + 1)
  /\ CallsApart

(* Removing quadruples leaves each call its own result. *)
LEMMA GoneApart ==
  ASSUME NEW qs \in Seq(Quadr), NEW rs \in Seq(Quadr), Len(rs) = Len(qs), CallsOwnResult(qs),
         \A k \in 1..Len(qs) : rs[k] \in {qs[k], Gone}
  PROVE  CallsOwnResult(rs)
<1> SUFFICES ASSUME NEW k \in DOMAIN rs, NEW j \in DOMAIN rs, rs[k].op = "call",
                    rs[k].result = rs[j].result, j # k
             PROVE  rs[j].op = "write_ptr"
  BY DEF CallsOwnResult
<1>1. DOMAIN rs = 1..Len(qs) /\ DOMAIN qs = 1..Len(qs)
  OBVIOUS
<1>2. rs[k] = qs[k] /\ rs[k] \in Quadr
  BY <1>1 DEF Gone
<1>3. rs[k].result \in Vars
  BY <1>2, QuadrIs DEF Assigning
<1>4. rs[j] = qs[j]
  BY <1>1, <1>3, QuadruplesAssumption DEF Gone
<1> QED BY <1>1, <1>2, <1>4 DEF CallsOwnResult

LEMMA RemoveCopiesKeeps ==
  ASSUME CopyInv, RemoveCopies
  PROVE  CopyInv' /\ Meaning(qtab') = Meaning(qtab)
<1> PICK tab, rs : tab = qtab /\ rs = qtab'
  OBVIOUS
<1>1. tab \in Seq(Quadr) /\ CallsOwnResult(tab) /\ DOMAIN tab = 1..Len(tab) /\ Len(tab) \in Nat
  BY DEF CopyInv, CallsApart, RemoveCopies
<1>2. rs = [k \in 1..Len(tab) |-> Tidy(tab[k])]
  BY <1>1 DEF RemoveCopies
<1>3. \A k \in 1..Len(tab) : Tidy(tab[k]) \in Quadr /\ Tidy(tab[k]) \in {tab[k], Gone}
  BY <1>1 DEF Tidy, Quadr
<1>4. rs \in Seq(Quadr) /\ Len(rs) = Len(tab)
  <2>1. rs \in [1..Len(tab) -> Quadr]
    BY <1>2, <1>3
  <2> QED BY <1>1, <2>1, SeqFromFunction
<1>5. Meaning(rs) = Meaning(tab)
  <2>1. \A k \in 1..Len(tab) : rs[k] \in {tab[k], Tidy(tab[k])}
    BY <1>2
  <2> QED BY <1>1, <1>4, <2>1, TidyKeeps
<1>6. CallsOwnResult(rs)
  <2>1. \A k \in 1..Len(tab) : rs[k] \in {tab[k], Gone}
    BY <1>2, <1>3
  <2> QED BY <1>1, <1>4, <2>1, GoneApart
<1>7. pc' = "dead" /\ i' = 1
  BY DEF RemoveCopies
<1>8. CopyInv'
  BY <1>1, <1>4, <1>6, <1>7 DEF CopyInv, CallsApart, Size
<1> QED BY <1>5, <1>8
(* An assignment dead at k goes; c is the next one to its result. *)
LEMMA DeadApart ==
  ASSUME NEW tab \in Seq(Quadr), CallsOwnResult(tab), NEW k \in 1..Len(tab), NEW rs,
         rs = [tab EXCEPT ![k] = Gone]
  PROVE  rs \in Seq(Quadr) /\ Len(rs) = Len(tab) /\ CallsOwnResult(rs)
<1>1. Gone \in Quadr
  BY DEF Quadr
<1>2. rs \in Seq(Quadr) /\ Len(rs) = Len(tab) /\ \A j \in 1..Len(tab) : rs[j] \in {tab[j], Gone}
  BY <1>1
<1> PICK t : t = rs
  OBVIOUS
<1>3. t \in Seq(Quadr) /\ Len(t) = Len(tab) /\ \A j \in 1..Len(tab) : t[j] \in {tab[j], Gone}
  BY <1>2
<1>4. CallsOwnResult(t)
  BY <1>3, GoneApart
<1> QED BY <1>3, <1>4

LEMMA RemoveDeadKeeps ==
  ASSUME CopyInv, RemoveDead
  PROVE  CopyInv' /\ Meaning(qtab') = Meaning(qtab)
<1> PICK tab, rs, k, v : tab = qtab /\ rs = qtab' /\ k = i /\ v = qtab[k].result
  OBVIOUS
<1>1. tab \in Seq(Quadr) /\ CallsOwnResult(tab) /\ k \in 1..Len(tab)
  BY DEF CopyInv, CallsApart, RemoveDead, Size
<1>2. rs = IF Dead(k) THEN [tab EXCEPT ![k] = Gone] ELSE tab
  BY DEF RemoveDead
<1>3. rs \in Seq(Quadr) /\ Len(rs) = Len(tab) /\ CallsOwnResult(rs) /\ Meaning(rs) = Meaning(tab)
  <2>1. CASE ~Dead(k)
    BY <1>1, <1>2, <2>1
  <2>2. CASE Dead(k)
    <3> DEFINE touching == {j \in (k + 1)..Len(tab) : Used(tab[j], v) \/ Assigned(tab[j], v)}
    <3>1. v \in Vars /\ Assigned(tab[k], v) /\ touching # {} /\ ~Used(tab[Lowest(touching)], v)
      BY <2>2 DEF Dead, Size
    <3>2. touching \in SUBSET Nat
      BY <1>1
    <3>3. Lowest(touching) \in touching /\ \A j \in touching : Lowest(touching) <= j
      <4> HIDE DEF touching
      <4> QED BY <3>1, <3>2, LowestIs
    <3> PICK c : c = Lowest(touching)
      OBVIOUS
    <3>4. c \in touching /\ ~Used(tab[c], v)
      <4> HIDE DEF touching
      <4> QED BY <3>1, <3>3
    <3>5. c \in (k + 1)..Len(tab) /\ Assigned(tab[c], v)
      BY <3>4
    <3>6. \A j \in (k + 1)..(c - 1) : ~Used(tab[j], v) /\ ~Assigned(tab[j], v)
      <4> SUFFICES ASSUME NEW j \in (k + 1)..(c - 1), Used(tab[j], v) \/ Assigned(tab[j], v)
                   PROVE  FALSE
        OBVIOUS
      <4>1. j \in (k + 1)..Len(tab) /\ ~(c <= j)
        BY <1>1, <3>5
      <4>2. j \in touching
        BY <4>1
      <4> HIDE DEF touching
      <4> QED BY <3>3, <4>1, <4>2
    <3> HIDE DEF touching
    <3>7. rs = [tab EXCEPT ![k] = Gone]
      BY <1>2, <2>2
    <3>8. rs \in Seq(Quadr) /\ Len(rs) = Len(tab) /\ CallsOwnResult(rs)
      BY <1>1, <3>7, DeadApart
    <3>9. Meaning(rs) = Meaning(tab)
      <4>1. tab[k].result = v
        OBVIOUS
      <4> QED BY <1>1, <3>1, <3>4, <3>5, <3>6, <3>7, <4>1, DeadKeeps, ZenonT(60)
    <3> QED BY <3>8, <3>9
  <2> QED BY <2>1, <2>2
<1>4. pc = "dead" /\ pc' = pc /\ i' = k + 1
  BY DEF RemoveDead
<1>5. CopyInv'
  BY <1>1, <1>3, <1>4 DEF CopyInv, CallsApart, Size
<1> QED BY <1>3, <1>5

LEMMA RemoveDeadAgainKeeps ==
  ASSUME CopyInv, RemoveDeadAgain
  PROVE  CopyInv' /\ Meaning(qtab') = Meaning(qtab)
<1>1. qtab' = qtab /\ Len(qtab) \in Nat
  BY DEF RemoveDeadAgain, CopyInv
<1>2. (i' = 1 /\ pc' = "dead") \/ (i' = Len(qtab) /\ pc' = "back")
  BY DEF RemoveDeadAgain, Size
<1>3. pc = "dead" /\ qtab \in Seq(Quadr) /\ CallsOwnResult(qtab)
  BY DEF CopyInv, CallsApart, RemoveDeadAgain
<1> QED BY <1>1, <1>2, <1>3 DEF CopyInv, CallsApart, Size

LEMMA BackDoneKeeps ==
  ASSUME CopyInv, BackDone
  PROVE  CopyInv' /\ Meaning(qtab') = Meaning(qtab)
<1>1. qtab' = qtab /\ Len(qtab) \in Nat /\ qtab \in Seq(Quadr) /\ i' = 1 /\ pc' = "forward"
  BY DEF BackDone, CopyInv
<1> QED BY <1>1 DEF CopyInv, CallsApart, Size

LEMMA ForwardDoneKeeps ==
  ASSUME CopyInv, ForwardDone
  PROVE  CopyInv' /\ Meaning(qtab') = Meaning(qtab)
<1>1. qtab' = Kept(qtab) /\ qtab \in Seq(Quadr) /\ i' = i /\ i \in Int /\ pc' = "done"
  BY DEF ForwardDone, CopyInv
<1> QED BY <1>1, KeptKeeps DEF CopyInv, CallsApart
(* remove_redundant_copy at one place. *)
LEMMA TidyAt ==
  ASSUME NEW tab \in Seq(Quadr), NEW k \in 1..Len(tab), NEW q, q = Tidy(tab[k]),
         NEW rs, rs = With(tab, k, q)
  PROVE  rs \in Seq(Quadr) /\ Len(rs) = Len(tab) /\ Meaning(rs) = Meaning(tab)
<1>1. q \in Quadr
  BY DEF Tidy, Quadr
<1>2. rs \in Seq(Quadr) /\ Len(rs) = Len(tab) /\ \A j \in 1..Len(tab) : rs[j] = tab[j] \/ (j = k /\ rs[j] = q)
  BY <1>1 DEF With
<1> PICK t : t = rs
  OBVIOUS
<1>3. t \in Seq(Quadr) /\ Len(t) = Len(tab) /\ \A j \in 1..Len(tab) : t[j] \in {tab[j], Tidy(tab[j])}
  BY <1>2
<1>4. Meaning(t) = Meaning(tab)
  BY <1>3, TidyKeeps
<1> QED BY <1>3, <1>4

(* A copy that is not removed is one of two variables. *)
LEMMA CopyLeft ==
  ASSUME NEW tab \in Seq(Quadr), NEW k \in 1..Len(tab), NEW q, q = Tidy(tab[k]), IsCopy(q),
         NEW a, NEW b, a = q.result, b = q.arg1
  PROVE  /\ q = tab[k] /\ q \in Quadr /\ a \in Vars /\ b \in Vars /\ a # b
         /\ CopyAt(tab, k, a, b)
         /\ With(tab, k, q) = tab
         /\ Turned(q, a, b) = CopyQuadr(b, a)
<1>1. tab[k] \in Quadr
  OBVIOUS
<1>2. q = tab[k] /\ ~(IsCopy(tab[k]) /\ tab[k].arg1 = tab[k].result)
  BY DEF Tidy, IsCopy, Gone
<1>3. q.op = "copy" /\ q.arg1 \in Vars
  BY DEF IsCopy
<1>4. q.op \in Assigning
  BY <1>3 DEF Assigning
<1>5. /\ q.result \in Vars /\ q.arg2 = None
      /\ q = [op |-> q.op, result |-> q.result, arg1 |-> q.arg1, arg2 |-> q.arg2]
  BY <1>1, <1>2, <1>3, <1>4, QuadrIs
<1>6. q.result # q.arg1
  BY <1>2, <1>3 DEF IsCopy
<1>7. With(tab, k, q) = tab
  BY <1>2 DEF With
<1>8. Turned(q, a, b) = CopyQuadr(b, a)
  <2>1. q = [op |-> "copy", result |-> a, arg1 |-> b, arg2 |-> None]
    BY <1>3, <1>5
  <2> QED BY <2>1, TurnedIs DEF CopyQuadr
<1> QED BY <1>1, <1>2, <1>3, <1>5, <1>6, <1>7, <1>8 DEF CopyAt

LEMMA CopyExecuted ==
  ASSUME NEW s, State(s), NEW a \in Vars, NEW b \in Vars, a # b, NEW q \in Quadr,
         q.op = "copy", q.result = a, q.arg1 = b
  PROVE  Execute(s, q).env[a] = Execute(s, q).env[b]
<1>1. q.op \in Assigning
  BY DEF Assigning
<1>2. Given(s, q) = s.env[b]
  BY DEF Given, Value, Arithmetic
<1> QED BY <1>1, <1>2, ExecuteIs

LEMMA BackKeeps ==
  ASSUME CopyInv, Back
  PROVE  CopyInv' /\ Meaning(qtab') = Meaning(qtab)
<1> PICK tab, rs, k : tab = qtab /\ rs = qtab' /\ k = i
  OBVIOUS
<1> PICK q : q = Tidy(tab[k])
  OBVIOUS
<1> PICK a, b : a = q.result /\ b = q.arg1
  OBVIOUS
<1>1. tab \in Seq(Quadr) /\ k \in 1..Len(tab)
  BY DEF CopyInv, Back, Size
<1> PICK moved : moved = PropagateForwards(PropagateBackwards(With(tab, k, q), k - 1, a, b), k + 1, b, a)
  OBVIOUS
<1>2. rs = IF IsCopy(q) /\ CanBackpropagate(k - 1, a, b)
           THEN With(moved, k, Turned(q, a, b))
           ELSE With(tab, k, q)
  BY DEF Back, With, Turned
<1>3. rs \in Seq(Quadr) /\ Len(rs) = Len(tab) /\ Meaning(rs) = Meaning(tab)
  <2>1. CASE ~(IsCopy(q) /\ CanBackpropagate(k - 1, a, b))
    <3>1. rs = With(tab, k, q)
      BY <1>2, <2>1
    <3> QED BY <1>1, <3>1, TidyAt
  <2>2. CASE IsCopy(q) /\ CanBackpropagate(k - 1, a, b)
    <3>1. /\ q = tab[k] /\ q \in Quadr /\ a \in Vars /\ b \in Vars /\ a # b
          /\ CopyAt(tab, k, a, b) /\ With(tab, k, q) = tab
          /\ Turned(q, a, b) = CopyQuadr(b, a)
      BY <1>1, <2>2, CopyLeft
    <3> DEFINE stops == {j \in 1..(k - 1) : Assigned(tab[j], b) \/ Used(tab[j], a) \/ Assigned(tab[j], a)}
    <3>2. stops # {} /\ Assigned(tab[Highest(stops)], b)
      BY <2>2 DEF CanBackpropagate
    <3>3. stops \in SUBSET (1..(k - 1)) /\ k - 1 \in Nat
      BY <1>1
    <3>4. Highest(stops) \in stops /\ \A j \in stops : j <= Highest(stops)
      <4> HIDE DEF stops
      <4> QED BY <3>2, <3>3, HighestIs
    <3> PICK c : c = Highest(stops)
      OBVIOUS
    <3>5. c \in 1..(k - 1) /\ Assigned(tab[c], b)
      <4> HIDE DEF stops
      <4> QED BY <3>2, <3>3, <3>4
    <3>6. ReachesBack(tab, k, a, b, c)
      <4>1. ASSUME NEW j \in (c + 1)..(k - 1)
            PROVE  ~Assigned(tab[j], b) /\ ~Used(tab[j], a) /\ ~Assigned(tab[j], a)
        <5>1. j \in 1..(k - 1) /\ ~(j <= c)
          BY <1>1, <3>5
        <5>2. j \notin stops
          <6> HIDE DEF stops
          <6> QED BY <3>4, <5>1
        <5> QED BY <5>1, <5>2
      <4> QED BY <3>5, <4>1 DEF ReachesBack
    <3> HIDE DEF stops
    <3> PICK p : p = CopyQuadr(b, a)
      OBVIOUS
    <3>7. p \in Quadr /\ p.op = "copy" /\ p.result = b /\ p.arg1 = a
      BY <3>1 DEF CopyQuadr, Quadr, Operand
    <3>8. moved = PropagateForwards(PropagateBackwards(tab, k - 1, a, b), k + 1, b, a)
      BY <3>1
    <3>9. /\ With(moved, k, p) \in Seq(Quadr)
          /\ Len(With(moved, k, p)) = Len(tab)
          /\ Meaning(With(moved, k, p)) = Meaning(tab)
      BY <1>1, <3>1, <3>5, <3>6, <3>7, <3>8, BackStep
    <3> QED BY <1>2, <2>2, <3>1, <3>9
  <2> QED BY <2>1, <2>2
<1>4. pc' = "back" /\ i' = k - 1
  BY DEF Back
<1>5. CopyInv'
  BY <1>1, <1>3, <1>4 DEF CopyInv, CallsApart, Size
<1> QED BY <1>3, <1>5

LEMMA ForwardStepKeeps ==
  ASSUME CopyInv, Forward
  PROVE  CopyInv' /\ Meaning(qtab') = Meaning(qtab)
<1> PICK tab, rs, k : tab = qtab /\ rs = qtab' /\ k = i
  OBVIOUS
<1> PICK q : q = Tidy(tab[k])
  OBVIOUS
<1> PICK a, b, m : a = q.result /\ b = q.arg1 /\ m = k + 1
  OBVIOUS
<1>1. tab \in Seq(Quadr) /\ k \in 1..Len(tab)
  BY DEF CopyInv, Forward, Size
<1>2. rs = IF IsCopy(q) THEN PropagateForwards(With(tab, k, q), m, a, b) ELSE With(tab, k, q)
  BY DEF Forward, With
<1>3. rs \in Seq(Quadr) /\ Len(rs) = Len(tab) /\ Meaning(rs) = Meaning(tab)
  <2>1. CASE ~IsCopy(q)
    <3>1. rs = With(tab, k, q)
      BY <1>2, <2>1
    <3> QED BY <1>1, <3>1, TidyAt
  <2>2. CASE IsCopy(q)
    <3>1. /\ q = tab[k] /\ q \in Quadr /\ a \in Vars /\ b \in Vars /\ a # b
          /\ CopyAt(tab, k, a, b) /\ With(tab, k, q) = tab
      BY <1>1, <2>2, CopyLeft
    <3>2. m - 1 = k /\ m \in 1..(Len(tab) + 1) /\ k - 1 \in 0..Len(tab)
      BY <1>1
    <3> PICK s : s = Execution(tab)[k - 1]
      OBVIOUS
    <3>3. State(s) /\ Execution(tab)[k] = Execute(s, q)
      <4>1. State(s)
        BY <1>1, <3>2, ExecutionStates
      <4>2. Execution(tab)[k] = Execute(Execution(tab)[k - 1], tab[k])
        <5>1. Len(tab) \in Nat
          BY <1>1
        <5> QED BY <1>1, <5>1, ExecutionIs
      <4> QED BY <3>1, <4>1, <4>2
    <3>4. Execute(s, q).env[a] = Execute(s, q).env[b]
      <4>1. q.op = "copy" /\ q.result = a /\ q.arg1 = b
        BY <3>1 DEF CopyAt
      <4> QED BY <3>1, <3>3, <4>1, CopyExecuted
    <3>5. Execution(tab)[m - 1].env[a] = Execution(tab)[m - 1].env[b]
      BY <3>2, <3>3, <3>4
    <3>6. rs = PropagateForwards(tab, m, a, b)
      BY <1>2, <2>2, <3>1
    <3> QED BY <1>1, <3>1, <3>2, <3>5, <3>6, ForwardKeeps
  <2> QED BY <2>1, <2>2
<1>4. pc' = "forward" /\ i' = k + 1
  BY DEF Forward
<1>5. CopyInv'
  BY <1>1, <1>3, <1>4 DEF CopyInv, CallsApart, Size
<1> QED BY <1>3, <1>5

-----------------------------------------------------------------------------
LEMMA CopyInvInitially == CopyInit => CopyInv
BY DEF CopyInit, CopyInv, CallsApart

LEMMA CopyInvKept == CopyInv /\ [CopyNext]_copyVars => CopyInv' /\ Meaning(qtab') = Meaning(qtab)
<1> SUFFICES ASSUME CopyInv, [CopyNext]_copyVars
             PROVE  CopyInv' /\ Meaning(qtab') = Meaning(qtab)
  OBVIOUS
<1>1. CASE RemoveCopies
  BY <1>1, RemoveCopiesKeeps
<1>2. CASE RemoveDead
  BY <1>2, RemoveDeadKeeps
<1>3. CASE RemoveDeadAgain
  BY <1>3, RemoveDeadAgainKeeps
<1>4. CASE Back
  BY <1>4, BackKeeps
<1>5. CASE BackDone
  BY <1>5, BackDoneKeeps
<1>6. CASE Forward
  BY <1>6, ForwardStepKeeps
<1>7. CASE ForwardDone
  BY <1>7, ForwardDoneKeeps
<1>8. CASE UNCHANGED copyVars
  BY <1>8 DEF copyVars, CopyInv, CallsApart, Size
<1> QED BY <1>1, <1>2, <1>3, <1>4, <1>5, <1>6, <1>7, <1>8 DEF CopyNext

LEMMA CopyInvAlways == CopySpec => []CopyInv
BY CopyInvInitially, CopyInvKept, PTL DEF CopySpec

(* Every iteration of remove_dead_assignments, copy_backpropagation and    *)
(* copy_propagation leaves alone what the block computes, whatever the     *)
(* block, its variables and its length.                                    *)
THEOREM CopyPassesKeepMeaning == CopySpec => CopiesKeepMeaning
<1>1. CopyInv /\ [CopyNext]_copyVars => [KeepsMeaning]_copyVars
  BY CopyInvKept DEF KeepsMeaning
<1> QED BY <1>1, CopyInvAlways, PTL DEF CopySpec, CopiesKeepMeaning

(* And so does their whole run: in every state the block still computes    *)
(* what it did when optimize_local_2 was called on it.                     *)
THEOREM CopyPassesEquivalent ==
  ASSUME NEW b
  PROVE  CopySpec /\ qtab = b => [](Meaning(qtab) = Meaning(b))
<1>1. qtab = b => Meaning(qtab) = Meaning(b)
  OBVIOUS
<1>2. CopyInv /\ [CopyNext]_copyVars /\ Meaning(qtab) = Meaning(b) => (Meaning(qtab) = Meaning(b))'
  BY CopyInvKept
<1> QED BY <1>1, <1>2, CopyInvAlways, PTL DEF CopySpec

(* As long as remove_dead_assignments may run, nothing else in the block   *)
(* assigns the result of a call: the pass, which does not look at          *)
(* operations, removes no call.                                            *)
THEOREM CallsStayApart == CopySpec => []CallsApart
BY CopyInvAlways, PTL DEF CopyInv
=============================================================================
