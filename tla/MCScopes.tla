------------------------------ MODULE MCScopes ------------------------------
(***************************************************************************)
(* A small instance of Scopes for TLC.  The names are interchangeable and  *)
(* have one hash, so that only comparing them tells them apart.  The table *)
(* of names starts with one node and is enlarged twice for four names.     *)
(* The pool starts with one cell, the next nodes have two and four.        *)
(***************************************************************************)
EXTENDS Scopes, TLC

CONSTANTS
  func, name1, name2, name3, name4,
  MaxNames   \* bound: names and declarations in force together

MCStrings == {name1, name2, name3, name4}
MCTypes == {"int"}
MCHash == [n \in MCStrings |-> 5]

Symmetry == Permutations(MCStrings)
FewNames == strtab.syms + Len(decls) <= MaxNames
=============================================================================
