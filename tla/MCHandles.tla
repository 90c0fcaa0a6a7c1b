------------------------------ MODULE MCHandles ------------------------------
(* Instances of Handles; file objects are used in any order. *)
EXTENDS Handles, TLC

Symmetry == Permutations(Fps)
=============================================================================
