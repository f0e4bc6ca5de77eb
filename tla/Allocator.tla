----------------------------- MODULE Allocator ------------------------------
(***************************************************************************)
(* What the users of a memory pool rely on (mem.h: "memory pool for fixed  *)
(* size objects"): an object that is handed out is nobody else's until it  *)
(* is given back, so that there are as many objects as holders.            *)
(***************************************************************************)
EXTENDS Naturals

VARIABLES
  used,    \* the objects handed out and not given back
  holders  \* how many requests they answer

Init == used = {} /\ holders = 0

Alloc ==
  /\ \E x \in used' \ used : used' = used \cup {x}
  /\ holders' = holders + 1

Free ==
  /\ \E x \in used : used' = used \ {x}
  /\ holders' = holders - 1

Next == Alloc \/ Free

Spec == Init /\ [][Next]_<<used, holders>>
=============================================================================
