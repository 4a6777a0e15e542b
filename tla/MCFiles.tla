------------------------------ MODULE MCFiles ------------------------------
(* A process, its child and one more; two slots and two descriptors each.  *)
(* A count wraps at 4, which the six descriptors can reach.                *)
EXTENDS Files, TLC

Symmetry == Permutations(Proc \ {First})
=============================================================================
