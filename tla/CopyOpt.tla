------------------------------ MODULE CopyOpt -------------------------------
(***************************************************************************)
(* optimize_local_2 of opt.cpp on one basic block: copies of a variable to *)
(* itself and overwritten assignments are removed, copies are propagated   *)
(* backwards to the assignment of their source, then forwards to the uses  *)
(* of their result.  A step is one iteration of a pass's outer loop; the   *)
(* inner loops only ever change the quadruple they are at, and are         *)
(* described by where they stop.                                           *)
(***************************************************************************)
EXTENDS Quadruples

VARIABLES
  qtab,     \* the quadruples; a removed one is Gone
  pc,       \* the pass: "copies", "dead", "back", "forward" or "done"
  i,        \* the iteration: an index of qtab
  changed

copyVars == <<qtab, pc, i, changed>>

Size == Len(qtab)

IsCopy(q) == q.op = "copy" /\ q.arg1 \in Vars
CopyOf(q, S) == q.op = "copy" /\ q.arg1 \in S

Subst(a, from, to) == IF a = from THEN to ELSE a
WithArgs(q, from, to) == [q EXCEPT !.arg1 = Subst(@, from, to), !.arg2 = Subst(@, from, to)]
WithResult(q, from, to) == [q EXCEPT !.result = Subst(@, from, to)]

(* remove_redundant_copy *)
Tidy(q) == IF IsCopy(q) /\ q.arg1 = q.result THEN Gone ELSE q

Highest(S) == CHOOSE k \in S : \A j \in S : j <= k
Lowest(S) == CHOOSE k \in S : \A j \in S : k <= j
-----------------------------------------------------------------------------
RemoveCopies ==
  /\ pc = "copies"
  /\ qtab' = [k \in DOMAIN qtab |-> Tidy(qtab[k])]
  /\ pc' = "dead" /\ i' = 1 /\ changed' = FALSE

(* remove_dead_assignments: the next quadruple that touches the result     *)
(* assigns it again. *)
Dead(k) ==
  LET v == qtab[k].result
      touching == {j \in (k + 1)..Size : Used(qtab[j], v) \/ Assigned(qtab[j], v)}
  IN /\ v \in Vars /\ Assigned(qtab[k], v)
     /\ touching # {} /\ ~Used(qtab[Lowest(touching)], v)

RemoveDeadOn ==   \* a variant that goes on as long as anything is assigned
  /\ pc = "dead" /\ i <= Size
  /\ qtab' = IF Dead(i) THEN [qtab EXCEPT ![i] = Gone] ELSE qtab
  /\ changed' = (changed \/ qtab[i].result \in Vars)
  /\ i' = i + 1
  /\ UNCHANGED pc

RemoveDead ==
  /\ pc = "dead" /\ i <= Size
  /\ qtab' = IF Dead(i) THEN [qtab EXCEPT ![i] = Gone] ELSE qtab
  /\ changed' = (changed \/ Dead(i))
  /\ i' = i + 1
  /\ UNCHANGED pc

RemoveDeadAgain ==
  /\ pc = "dead" /\ i > Size
  /\ IF changed THEN i' = 1 /\ UNCHANGED pc ELSE i' = Size /\ pc' = "back"
  /\ changed' = FALSE
  /\ UNCHANGED qtab
-----------------------------------------------------------------------------
CanBackpropagateOver(k, a, b) ==   \* a variant that only looks for the assignment
  \E j \in 1..k : Assigned(qtab[j], b)

(* can_backpropagate: going back from k, the assignment to b is met before *)
(* anything that uses or assigns a. *)
CanBackpropagate(k, a, b) ==
  LET stops == {j \in 1..k : Assigned(qtab[j], b) \/ Used(qtab[j], a) \/ Assigned(qtab[j], a)}
  IN stops # {} /\ Assigned(qtab[Highest(stops)], b)

(* propagate_backwards: a for b, down to where a is then assigned. *)
PropagateBackwards(tab, k, a, b) ==
  LET Renamed(j) == WithResult(tab[j], b, a)
      stops == {j \in 1..k : Assigned(Renamed(j), a)}
      stop == IF stops = {} THEN 0 ELSE Highest(stops)
  IN [j \in DOMAIN tab |->
        IF j = stop THEN Renamed(j)
        ELSE IF stop < j /\ j <= k THEN Tidy(WithArgs(Renamed(j), b, a))
        ELSE tab[j]]

(* propagate_forwards: b for a, up to where one of the two is assigned     *)
(* something else than the other. *)
PropagateForwards(tab, k, a, b) ==
  LET Renamed(j) == WithArgs(tab[j], a, b)
      stops == {j \in k..Len(tab) : /\ Assigned(Renamed(j), a) \/ Assigned(Renamed(j), b)
                                    /\ ~CopyOf(Renamed(j), {a, b})}
      stop == IF stops = {} THEN Len(tab) + 1 ELSE Lowest(stops)
  IN [j \in DOMAIN tab |->
        IF j = stop THEN Renamed(j)
        ELSE IF k <= j /\ j < stop THEN Tidy(WithResult(Renamed(j), a, b))
        ELSE tab[j]]

(* copy_backpropagation: "a := b" becomes "b := a", and the value is       *)
(* computed into a. *)
Back ==
  /\ pc = "back" /\ i >= 1
  /\ LET q == Tidy(qtab[i])
         a == q.result
         b == q.arg1
         tab == [qtab EXCEPT ![i] = q]
         moved == PropagateForwards(PropagateBackwards(tab, i - 1, a, b), i + 1, b, a)
     IN qtab' = IF IsCopy(q) /\ CanBackpropagate(i - 1, a, b)
                THEN [moved EXCEPT ![i] = [q EXCEPT !.result = b, !.arg1 = a]]
                ELSE tab
  /\ i' = i - 1
  /\ UNCHANGED <<pc, changed>>

BackDoneAgain ==   \* a variant that removes dead assignments once more
  /\ pc = "back" /\ i = 0
  /\ pc' = "dead" /\ i' = 1
  /\ UNCHANGED <<qtab, changed>>

BackDone ==
  /\ pc = "back" /\ i = 0
  /\ pc' = "forward" /\ i' = 1
  /\ UNCHANGED <<qtab, changed>>

(* copy_propagation *)
Forward ==
  /\ pc = "forward" /\ i <= Size
  /\ LET q == Tidy(qtab[i])
         tab == [qtab EXCEPT ![i] = q]
     IN qtab' = IF IsCopy(q) THEN PropagateForwards(tab, i + 1, q.result, q.arg1) ELSE tab
  /\ i' = i + 1
  /\ UNCHANGED <<pc, changed>>

(* The quadruples that are left, in their order. *)
Kept(tab) ==
  LET list[k \in 0..Len(tab)] ==
        IF k = 0 THEN <<>>
        ELSE IF tab[k] = Gone THEN list[k - 1] ELSE Append(list[k - 1], tab[k])
  IN list[Len(tab)]

ForwardDone ==
  /\ pc = "forward" /\ i > Size
  /\ pc' = "done"
  /\ qtab' = Kept(qtab)
  /\ UNCHANGED <<i, changed>>

CopyNext == RemoveCopies \/ RemoveDead \/ RemoveDeadAgain \/ Back \/ BackDone \/ Forward \/ ForwardDone
-----------------------------------------------------------------------------
(* The passes alone, as perform_local_optimizations_2 runs them.  gen_call *)
(* of quadr.c gives the result of a call a temporary of its own. *)
CallsOwnResult(qs) ==
  \A k, j \in DOMAIN qs :
    qs[k].op = "call" /\ qs[k].result = qs[j].result /\ j # k => qs[j].op = "write_ptr"

CopyInit ==
  /\ qtab \in Seq(Quadr) /\ CallsOwnResult(qtab)
  /\ pc = "copies" /\ i = 1 /\ changed = FALSE

CopySpec == CopyInit /\ [][CopyNext]_copyVars
-----------------------------------------------------------------------------
(* Every iteration of every pass leaves alone what the block computes:     *)
(* whatever a loop renames, and wherever it stops, each variable ends with *)
(* the value it had, temporaries included, and the calls, stores and jumps *)
(* see the same values in the same order. *)
KeepsMeaning == pc # "graph" => Meaning(qtab') = Meaning(qtab)
CopiesKeepMeaning == [][KeepsMeaning]_copyVars

(* remove_dead_assignments removes an overwritten assignment whatever its  *)
(* operation.  No call is among them: as long as that pass may run, what   *)
(* it works on are quadruples of which nothing else assigns a call's       *)
(* result.  Back-propagation makes an end of this. *)
CallsApart ==
  pc \in {"copies", "dead"} => qtab \in Seq(Quadr) /\ CallsOwnResult(qtab)

(* Not so in blocks of five: a copy that is left is needed, as no later    *)
(* use in the block reads its result while that still equals its source.   *)
(* An iteration brings it about for its own copy, but when a later one     *)
(* finds that the source was assigned its own value, as in                 *)
(* "x = y; t = y; f(y); y = t; f(x)", and removes that assignment, the use *)
(* behind it remains, though x is y there by now. *)
Propagated ==
  pc = "done" =>
    \A k \in 1..Size : IsCopy(qtab[k]) =>
      \A j \in (k + 1)..Size :
        Used(qtab[j], qtab[k].result) =>
          \E m \in (k + 1)..(j - 1) : Assigned(qtab[m], qtab[k].result) \/ Assigned(qtab[m], qtab[k].arg1)
=============================================================================
