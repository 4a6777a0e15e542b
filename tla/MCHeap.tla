------------------------------ MODULE MCHeap ------------------------------
(* A heap small enough to visit every layout of blocks, in units of two    *)
(* bytes so that requests are rounded.                                     *)
EXTENDS Heap
=============================================================================
