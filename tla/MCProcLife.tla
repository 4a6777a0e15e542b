---------------------------- MODULE MCProcLife ----------------------------
(* The four processes the kernel has room for, and a descriptor more: the  *)
(* one a spawn without a pid leaves behind.                                *)
EXTENDS ProcLife, TLC

(* Any child, and the one whose pid is free at first. *)
WaitForChildren == {AnyPid, 2}

Symmetry == Permutations(Proc \ {Worker, KInit, UInit})
=============================================================================
