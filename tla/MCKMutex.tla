----------------------------- MODULE MCKMutex -----------------------------
(* Three processes and the worker fill the four descriptors of the kernel  *)
(* and compete for the mutexes the configuration gives them.               *)
EXTENDS KMutex, TLC

(* Nothing tells the competing processes apart, nor the mutexes. *)
Symmetry == Permutations(Proc \ {Worker}) \cup Permutations(Mutex)
=============================================================================
