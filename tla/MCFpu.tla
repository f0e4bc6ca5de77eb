-------------------------------- MODULE MCFpu --------------------------------
(***************************************************************************)
(* A small instance of Fpu for TLC.  The variables are interchangeable.    *)
(***************************************************************************)
EXTENDS Fpu, TLC

Symmetry == Permutations(Vars)
=============================================================================
