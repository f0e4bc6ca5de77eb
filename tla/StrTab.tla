------------------------------- MODULE StrTab -------------------------------
(***************************************************************************)
(* strtab_t of mem.c, as symtab.c uses it: the data of a string is its     *)
(* symbol.  The first hash_size nodes of hashtab are the buckets, marked   *)
(* empty by a hash of 0; a string that finds its bucket taken gets a node  *)
(* behind them, linked to the end of the bucket's chain, and the array is  *)
(* enlarged when it has no node left.                                      *)
(*                                                                         *)
(* A pointer to a node is the array it points into and an index; xrealloc  *)
(* may move the array.  Strings are compared, hashed and nothing else; a   *)
(* symbol is its number, counted from 1.                                   *)
(***************************************************************************)
EXTENDS Naturals, FiniteSets

CONSTANTS
  Strings,     \* the names of a program
  Hash,        \* fnv_hash of each
  TableElems,  \* the number of strings new_strtab is asked to hold
  Moves,       \* whether xrealloc may move an array that it enlarges
  NoString     \* the string of a node that is not in use

ASSUME StrTabAssumption ==
  Hash \in [Strings -> Nat] /\ TableElems \in Nat /\ Moves \in BOOLEAN /\ NoString \notin Strings

VARIABLE strtab   \* [hashtab, hash_size, hash_nodes_size, base, syms]

Null == [base |-> 0, at |-> 0]
EmptyNode == [hash |-> 0, str |-> NoString, sym |-> 0, next |-> Null]

TwoTo[k \in 0..(TableElems + 1)] == IF k = 0 THEN 1 ELSE 2 * TwoTo[k - 1]

(* new_strtab: the bits of the number asked for, and one more. *)
HashSizeLog ==
  IF TableElems = 0 THEN 0
  ELSE 1 + (CHOOSE b \in 1..TableElems : TwoTo[b - 1] <= TableElems /\ TableElems < TwoTo[b])
HashSize == TwoTo[HashSizeLog]

NewStrtab ==
  [hashtab |-> [i \in 0..(HashSize - 1) |-> EmptyNode], hash_size |-> HashSize,
   hash_nodes_size |-> HashSize + HashSize \div 2, base |-> 1, syms |-> 0]

Bucket(t, s) == Hash[s] % t.hash_size
NodesFree(t) == Cardinality(DOMAIN t.hashtab)   \* hash_nodes_free

Matches(node, s) == node.hash = Hash[s] /\ node.str = s

(* The walk along a chain, from node i: where it ends and how.  A pointer  *)
(* into an array that was moved leads to freed memory. *)
Walk(t, s) ==
  LET from[i \in DOMAIN t.hashtab] ==
        LET node == t.hashtab[i] IN
        IF Matches(node, s) THEN [at |-> i, ends |-> "found"]
        ELSE IF node.next = Null THEN [at |-> i, ends |-> "absent"]
        ELSE IF node.next.base # t.base THEN [at |-> i, ends |-> "dangling"]
        ELSE from[node.next.at]
  IN from[Bucket(t, s)]

Occupied(t, s) == t.hashtab[Bucket(t, s)].hash # 0

(* What add_str finds of s: its symbol, or 0. *)
SymbolOf(t, s) ==
  IF Occupied(t, s) /\ Walk(t, s).ends = "found" THEN t.hashtab[Walk(t, s).at].sym ELSE 0

NewNode(t, s) == [hash |-> Hash[s], str |-> s, sym |-> t.syms + 1, next |-> Null]

(* An empty bucket becomes the string's node. *)
InBucket(t, s) ==
  [t EXCEPT !.hashtab[Bucket(t, s)] = NewNode(t, s), !.syms = @ + 1]

(* A variant that forgets the link. *)
ChainedUnlinked(t, s, moved) ==
  [t EXCEPT !.hashtab = [i \in 0..NodesFree(t) |->
                           IF i = NodesFree(t) THEN NewNode(t, s) ELSE t.hashtab[i]],
            !.syms = @ + 1]

(* A variant that links from the bucket, not from the end of its chain. *)
ChainedFirst(t, s, moved) ==
  LET n == NodesFree(t)
  IN [t EXCEPT !.hashtab = [i \in 0..n |->
                  IF i = n THEN NewNode(t, s)
                  ELSE IF i = Bucket(t, s)
                       THEN [t.hashtab[i] EXCEPT !.next = [base |-> t.base, at |-> n]]
                  ELSE t.hashtab[i]],
               !.hash_nodes_size = IF n = @ THEN 2 * @ ELSE @,
               !.syms = @ + 1]

(* new_hash_node, and the link from the last node of the chain, which is   *)
(* written into the array as it was before it was enlarged. *)
Chained(t, s, moved) ==
  LET n == NodesFree(t)
      grows == n = t.hash_nodes_size
      base == IF grows /\ moved THEN t.base + 1 ELSE t.base
      last == Walk(t, s).at
  IN [t EXCEPT !.hashtab = [i \in 0..n |->
                  IF i = n THEN NewNode(t, s)
                  ELSE IF i = last /\ base = t.base
                       THEN [t.hashtab[i] EXCEPT !.next = [base |-> base, at |-> n]]
                  ELSE t.hashtab[i]],
               !.hash_nodes_size = IF grows THEN 2 * @ ELSE @,
               !.base = base, !.syms = @ + 1]

(* add_str: the tables it may leave. *)
Added(t, s) ==
  IF ~Occupied(t, s) THEN {InBucket(t, s)}
  ELSE IF Walk(t, s).ends = "found" THEN {t}
  ELSE {Chained(t, s, moved) : moved \in {FALSE, Moves}}

Dangles(t, s) == Occupied(t, s) /\ Walk(t, s).ends = "dangling"
=============================================================================
