----------------------------- MODULE ByteFifo -----------------------------
(***************************************************************************)
(* What a byte ring promises the two sides that share it: a bounded queue. *)
(* Bytes come out once, in the order they went in, and are never refused   *)
(* while there is room.                                                    *)
(***************************************************************************)
EXTENDS Naturals, Sequences

CONSTANTS Byte, Capacity

VARIABLES
    queue,      \* the bytes on their way
    out         \* the last byte handed to the reader

fifoVars == <<queue, out>>

Init == queue = <<>> /\ out \in Byte

Put(b) ==
    /\ Len(queue) < Capacity
    /\ queue' = Append(queue, b)
    /\ UNCHANGED out

Get ==
    /\ queue # <<>>
    /\ out' = Head(queue)
    /\ queue' = Tail(queue)

Next == Get \/ \E b \in Byte : Put(b)

Spec == Init /\ [][Next]_fifoVars
=============================================================================
