---------------------------- MODULE MCDeviceIO ----------------------------
(* Three callers and the worker, all the descriptors of the kernel.  The   *)
(* calls read one block, read two, run over the end of the disk in their   *)
(* second block, and write.                                                *)
EXTENDS DeviceIO, TLC

(* Nothing tells the callers apart. *)
Symmetry == Permutations(Client)

Calls ==
    {[op |-> "read",  offset |-> 0, count |-> 1],
     [op |-> "read",  offset |-> 0, count |-> 2],
     [op |-> "read",  offset |-> 1, count |-> 2],
     [op |-> "write", offset |-> 0, count |-> 1]}
=============================================================================
