------------------------------ MODULE DeviceIO ------------------------------
(***************************************************************************)
(* The blocking calls of kernel/device.c on a device with a request ring,  *)
(* served by the kernel worker through romdisk_update, composed with the   *)
(* scheduler.  io_queue, which is full when the cell at its head is not    *)
(* NULL, is the sequence of its requests, oldest first.  A request is a    *)
(* variable on the stack of its caller and is named by the caller; its     *)
(* waiter holds the caller from before it is queued until it is done.      *)
(***************************************************************************)
EXTENDS RunQueue, Integers, FiniteSets

CONSTANTS
    Worker,     \* the kernel worker
    QueueLen,   \* DEVICE_IOQUEUE_LEN
    Blocks,     \* the size of the disk in blocks
    Call        \* the calls of device_read and device_write that are made

EIO == -5

Client == Proc \ {Worker}

ASSUME DeviceAssumption ==
    /\ Worker \in Proc
    /\ IsFiniteSet(Proc)
    /\ Cardinality(Proc) <= QueueSize
    /\ Blocks \in Nat \ {0}
    /\ Call \subseteq [op : {"read", "write"}, offset : Nat, count : Nat \ {0}]
    /\ QueueLen \in Nat /\ QueueLen >= Cardinality(Proc)

VARIABLES
    ring,       \* dev->io_queue
    req,        \* the requests, by caller
    pc,         \* where a caller is: in its own code, past
                \* device_request_io, or past proc_block
    step,       \* where the worker is in romdisk_update
    transfered  \* romdisk->blocks_transfered

callVars == <<ring, req, pc>>
vars == <<schedVars, callVars, step, transfered>>

NoBlock == -1

Request == [op : {"read", "write"}, count : Nat, offset : Nat \cup {EIO},
            status : {0, 1}, buffer : {NoBlock} \cup 0..(Blocks - 1)]

TypeOK ==
    /\ SchedTypeOK
    /\ ring \in Seq(Client) /\ Len(ring) <= QueueLen
    /\ req \in [Client -> Request]
    /\ pc \in [Client -> {"run", "asked", "waiting"}]
    /\ step \in {"update", "wake", "dequeue"}
    /\ transfered \in Nat

(* Everybody is ready and the worker runs. *)
Init ==
    /\ ring = <<>>
    /\ req = [p \in Client |-> [op |-> "read", count |-> 0, offset |-> 0,
                                status |-> 0, buffer |-> NoBlock]]
    /\ pc = [p \in Client |-> "run"]
    /\ step = "update"
    /\ transfered = 0
    /\ state = [p \in Proc |-> "READY"]
    /\ runq \in {q \in [1..(Cardinality(Proc) - 1) -> Client] :
                    \A i, j \in DOMAIN q : q[i] = q[j] => i = j}
    /\ current = Worker

-----------------------------------------------------------------------------
(* The caller. *)

At(label) == current \in Client /\ pc[current] = label
Goto(label) == pc' = [pc EXCEPT ![current] = label]

(* device_request_io.  It answers -1 when the ring is full, and nobody     *)
(* looks.                                                                  *)
RequestIO(p) == ring' = IF Len(ring) = QueueLen THEN ring ELSE Append(ring, p)

(* device_read or device_write up to proc_block. *)
Ask(c) ==
    /\ At("run")
    /\ req' = [req EXCEPT ![current] =
                  [op |-> c.op, count |-> c.count, offset |-> c.offset,
                   status |-> 0, buffer |-> NoBlock]]
    /\ RequestIO(current)
    /\ Goto("asked")
    /\ UNCHANGED <<schedVars, step, transfered>>

(* proc_block(current_process) *)
Block ==
    /\ At("asked")
    /\ ProcBlock(current)
    /\ Goto("waiting")
    /\ UNCHANGED <<ring, req, step, transfered>>

(* return req.offset *)
Return ==
    /\ At("waiting")
    /\ Goto("run")
    /\ UNCHANGED <<schedVars, ring, req, step, transfered>>

-----------------------------------------------------------------------------
(* The worker, which calls romdisk_update over and over. *)

Working(label) == current = Worker /\ step = label

(* The first half of device_finish_request, as far as proc_unblock_process.*)
Finish(p, result, block) ==
    /\ req' = [req EXCEPT ![p] = [@ EXCEPT !.buffer = block,
                                           !.offset = result, !.status = 1]]
    /\ step' = "wake"

(* A mutated Transfer: off by one at the end of the disk. *)
TransferPast ==
    LET p == Head(ring)
        lba == req[p].offset + transfered
    IN  /\ Working("update") /\ ring # <<>>
        /\ req[p].op = "read" /\ lba <= Blocks
        /\ transfered' = transfered + 1
        /\ IF transfered + 1 >= req[p].count
             THEN Finish(p, transfered + 1, lba)
             ELSE /\ req' = [req EXCEPT ![p].buffer = lba]
                  /\ UNCHANGED step
        /\ UNCHANGED <<schedVars, ring, pc>>

(* romdisk_update copies the next block, and finishes with the last one.   *)
Transfer ==
    LET p == Head(ring)
        lba == req[p].offset + transfered
    IN  /\ Working("update") /\ ring # <<>>
        /\ req[p].op = "read" /\ lba < Blocks
        /\ transfered' = transfered + 1
        /\ IF transfered + 1 >= req[p].count
             THEN Finish(p, transfered + 1, lba)
             ELSE /\ req' = [req EXCEPT ![p].buffer = lba]
                  /\ UNCHANGED step
        /\ UNCHANGED <<schedVars, ring, pc>>

(* romdisk_update refuses a write, and a block beyond the end of the disk. *)
Refuse ==
    LET p == Head(ring)
    IN  /\ Working("update") /\ ring # <<>>
        /\ req[p].op = "write" \/ req[p].offset + transfered >= Blocks
        /\ Finish(p, EIO, req[p].buffer)
        /\ UNCHANGED <<schedVars, ring, pc, transfered>>

(* A mutated Wake: the caller of the newest request. *)
WakeNewest ==
    /\ Working("wake")
    /\ ProcUnblock(ring[Len(ring)])
    /\ step' = "dequeue"
    /\ UNCHANGED <<callVars, transfered>>

(* proc_unblock_process *)
Wake ==
    /\ Working("wake")
    /\ ProcUnblock(Head(ring))
    /\ step' = "dequeue"
    /\ UNCHANGED <<callVars, transfered>>

(* Two mutated forms of Dequeue: the request stays on the ring, and        *)
(* blocks_transfered is not reset.                                         *)
DequeueKeeps ==
    /\ Working("dequeue")
    /\ transfered' = 0
    /\ step' = "update"
    /\ UNCHANGED <<schedVars, callVars>>

DequeueForgets ==
    /\ Working("dequeue")
    /\ ring' = Tail(ring)
    /\ step' = "update"
    /\ UNCHANGED <<schedVars, req, pc, transfered>>

(* The rest of device_finish_request and of romdisk_update.  A write does  *)
(* not reset blocks_transfered; it is 0 then.                              *)
Dequeue ==
    /\ Working("dequeue")
    /\ ring' = Tail(ring)
    /\ transfered' = 0
    /\ step' = "update"
    /\ UNCHANGED <<schedVars, req, pc>>

Work == Transfer \/ Refuse \/ Wake \/ Dequeue

(* SysTick preempts the running process. *)
Tick ==
    /\ current \in Proc
    /\ ProcSchedule
    /\ UNCHANGED <<callVars, step, transfered>>

Next ==
    \/ Tick
    \/ (\E c \in Call : Ask(c)) \/ Block \/ Return
    \/ Work

Spec == Init /\ [][Next]_vars

-----------------------------------------------------------------------------

Served(p) == req[p].status = 1

(* The ring always has a free cell for the next call, although a caller    *)
(* can ask again before the worker has taken its last request off: the -1  *)
(* that nobody looks at is never returned.                                 *)
NeverRefused == \A p \in Client : pc[p] = "run" => Len(ring) < QueueLen

(* A caller that is past its proc_block and runs has been served: nothing  *)
(* but the end of its own request has woken it.                            *)
WokenIsServed ==
    \A p \in Client :
        pc[p] = "waiting" /\ state[p] = "READY" => Served(p)

(* The trap of proc_sched_new_task (arch/armv8-m/proc.c:162) is not hit.  *)
(* It is: a caller that is served before it blocks is queued twice, the    *)
(* run queue overflows and the worker is lost.                             *)
QueueNeverEmpty == current # NoProc

(* The requests that are still to be served. *)
Waiting == IF step = "update" THEN ring ELSE Tail(ring)

(* The calls behind them, and the answers on their way back. *)
Asked(p) ==
    [who  |-> p,
     what |-> [op |-> req[p].op, offset |-> req[p].offset,
               count |-> req[p].count]]
Asks == [i \in DOMAIN Waiting |-> Asked(Waiting[i])]
Answer(p) ==
    IF pc[p] = "run" \/ ~Served(p) THEN {}
    ELSE IF req[p].offset = EIO THEN {[result |-> EIO]}
    ELSE {[result |-> req[p].offset, block |-> req[p].buffer]}
Answers == [p \in Client |-> Answer(p)]

(* The device answers in order, each caller with its own answer.           *)
Abs == INSTANCE DeviceAbs WITH calls <- Asks, answer <- Answers

ImplementsDevice == Abs!Spec
=============================================================================
