------------------------------ MODULE MCGenLoc ------------------------------
(***************************************************************************)
(* A small instance of GenLoc for TLC.  The variables are interchangeable, *)
(* and so are the slots and the registers that do not receive the result   *)
(* of a call.                                                              *)
(***************************************************************************)
EXTENDS GenLoc, TLC

Symmetry ==
  Permutations(Vars) \cup Permutations(Slots) \cup Permutations(Regs \ {RetReg})
=============================================================================
