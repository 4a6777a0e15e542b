---------------------------- MODULE RunQueue ----------------------------
(***************************************************************************)
(* The ready list and the context switch of the uCnix kernel:              *)
(* proc_enqueue and proc_dequeue of kernel/proc.c, the scheduler entry     *)
(* points of arch/armv8-m/proc.c, and PendSV.  There is one core, and      *)
(* every entry point runs with interrupts disabled, so each is one step.   *)
(* The circular array proc_run_queue with its head, tail and count is the  *)
(* sequence of its occupied cells, oldest first.                           *)
(***************************************************************************)
EXTENDS Naturals, Sequences

CONSTANTS
    Proc,       \* the process descriptors (struct proc)
    NoProc,     \* the NULL pointer
    QueueSize   \* PROC_MAX_PROC, the number of cells of proc_run_queue

ASSUME RunQueueAssumption == NoProc \notin Proc /\ QueueSize \in Nat

VARIABLES
    state,      \* p->state; "UNUSED" when p is on proc_free_list
    runq,       \* proc_run_queue
    current     \* current_process

schedVars == <<state, runq, current>>

ProcState == {"UNUSED", "BLOCKED", "READY", "ZOMBIE"}

SchedTypeOK ==
    /\ state \in [Proc -> ProcState]
    /\ runq \in Seq(Proc)
    /\ Len(runq) <= QueueSize
    /\ current \in Proc \cup {NoProc}

-----------------------------------------------------------------------------

(* A mutated Enqueue: head and tail mixed up, the last in is the first out. *)
EnqueueAtHead(q, p) == IF Len(q) = QueueSize THEN q ELSE <<p>> \o q

(* proc_enqueue.  A full queue refuses the process; no caller looks at the *)
(* returned -1.                                                            *)
Enqueue(q, p) == IF Len(q) = QueueSize THEN q ELSE Append(q, p)

(* The cells at which the dequeue loop of proc_sched_new_task stops.       *)
FirstReady(q, st) ==
    {i \in 1..Len(q) : /\ st[q[i]] = "READY"
                       /\ \A j \in 1..(i-1) : st[q[j]] # "READY"}

(* A mutated Requeue: a preempted process is forgotten. *)
RequeueForgets(q, st) == q

(* The head of proc_sched_new_task: the running process goes to the back   *)
(* of the queue if it is still ready.                                      *)
Requeue(q, st) == IF st[current] = "READY" THEN Enqueue(q, current) ELSE q

(* The tail of proc_sched_new_task: entries that are not ready are thrown  *)
(* away.  An empty queue is a breakpoint trap with p = NULL.               *)
Dispatch(q, st) ==
    IF FirstReady(q, st) = {}
      THEN current' = NoProc /\ runq' = <<>>
      ELSE \E i \in FirstReady(q, st) :
              /\ current' = q[i]
              /\ runq' = SubSeq(q, i + 1, Len(q))

(* PendSV: save the running process, pick the next.                        *)
Switch(q, st) == Dispatch(Requeue(q, st), st)

-----------------------------------------------------------------------------

(* proc_schedule, and SysTick when it preempts the running process. *)
ProcSchedule == Switch(runq, state) /\ UNCHANGED state

(* proc_block(p) *)
ProcBlock(p) ==
    LET st == [state EXCEPT ![p] = "BLOCKED"]
    IN  state' = st /\ Switch(runq, st)

(* A mutated ProcUnblock: ready, but on no queue. *)
ProcUnblockUnqueued(p) ==
    LET st == [state EXCEPT ![p] = "READY"]
    IN  state' = st /\ Switch(runq, st)

(* proc_unblock_process(p): no look at the state p is in. *)
ProcUnblock(p) ==
    LET st == [state EXCEPT ![p] = "READY"]
    IN  state' = st /\ Switch(Enqueue(runq, p), st)
=============================================================================
