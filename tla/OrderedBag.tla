----------------------------- MODULE OrderedBag -----------------------------
(***************************************************************************)
(* What rbtree.h promises of a tree: an ordered bag of keys.  The caller   *)
(* has two trees, so that it can join them, and makes one call at a time:  *)
(* a call takes effect once, after it is made and before it returns.       *)
(* result is the key of the node the last call returned, or 0.             *)
(***************************************************************************)
EXTENDS Naturals

CONSTANT Keys   \* what rb_cmp_less compares: positive numbers

VARIABLES bag, spare, call, phase, result

bagVars == <<bag, spare, call, phase, result>>

NoCall == [op |-> "none", key |-> 0]
Empty == [k \in Keys |-> 0]
Has(b, k) == k \in Keys /\ b[k] > 0
Found(b, k) == IF Has(b, k) THEN k ELSE 0
Least(b) == IF b = Empty THEN 0 ELSE CHOOSE k \in Keys : Has(b, k) /\ \A j \in Keys : Has(b, j) => k <= j

Search == result' = Found(bag, call.key) /\ UNCHANGED <<bag, spare>>
Minimum == result' = Least(bag) /\ UNCHANGED <<bag, spare>>

(* rb_insert() always inserts *)
Insert == bag' = [bag EXCEPT ![call.key] = @ + 1] /\ result' = 0 /\ UNCHANGED spare

InsertIfAbsent ==
  /\ result' = Found(bag, call.key)
  /\ bag' = [bag EXCEPT ![call.key] = IF @ = 0 THEN 1 ELSE @]
  /\ UNCHANGED spare

(* If x is not found in tree, then does nothing. *)
Delete ==
  /\ bag' = [bag EXCEPT ![call.key] = IF @ = 0 THEN 0 ELSE @ - 1]
  /\ result' = 0
  /\ UNCHANGED spare

Clear == bag' = Empty /\ result' = 0 /\ UNCHANGED spare

(* The caller turns to its other tree. *)
Swap == bag' = spare /\ spare' = bag /\ result' = 0

(* Returns tree1 U {x} U tree2.  Destroys tree1 and tree2. *)
Join ==
  /\ bag' = [k \in Keys |-> bag[k] + spare[k] + (IF k = call.key THEN 1 ELSE 0)]
  /\ spare' = Empty
  /\ result' = 0

(* What rb_join does when one of the trees is empty: it returns the other. *)
JoinOfEmpty ==
  /\ Empty \in {bag, spare}
  /\ bag' = IF bag = Empty THEN spare ELSE bag
  /\ spare' = Empty
  /\ result' = 0

Begin ==
  /\ phase = "idle"
  /\ call' \in [op : {"search", "minimum", "insert", "insert_if_absent", "delete", "clear",
                      "swap", "join"},
                key : Keys \cup {0}]
  /\ phase' = "called" /\ result' = 0
  /\ UNCHANGED <<bag, spare>>

Effect ==
  /\ \/ call.op = "search" /\ Search
     \/ call.op = "minimum" /\ Minimum
     \/ call.op = "insert" /\ Insert
     \/ call.op = "insert_if_absent" /\ InsertIfAbsent
     \/ call.op = "delete" /\ Delete
     \/ call.op = "clear" /\ Clear
     \/ call.op = "swap" /\ Swap
     \/ call.op = "join" /\ Join

TakeEffect(effect) ==
  /\ phase = "called" /\ effect
  /\ \/ phase' = "effective" /\ UNCHANGED call
     \/ phase' = "idle" /\ call' = NoCall

Return ==
  /\ phase = "effective"
  /\ phase' = "idle" /\ call' = NoCall
  /\ UNCHANGED <<bag, spare, result>>

BagInit == bag = Empty /\ spare = Empty /\ call = NoCall /\ phase = "idle" /\ result = 0
BagNext ==
  Begin \/ TakeEffect(Effect) \/ (call.op = "join" /\ TakeEffect(JoinOfEmpty)) \/ Return

BagSpec == BagInit /\ [][BagNext]_bagVars
=============================================================================
