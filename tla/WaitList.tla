---------------------------- MODULE WaitList ----------------------------
(***************************************************************************)
(* The wait queues of kernel/waiter.c: one intrusive list per waiter_t,    *)
(* threaded through the wait_next fields of the processes.  head is the    *)
(* newest entry and tail the oldest; wait_next points from an entry to     *)
(* the next newer one, so a walk that reaches everybody starts at tail.    *)
(* Every operation runs with interrupts disabled.                          *)
(***************************************************************************)
EXTENDS Naturals, Sequences, FiniteSets

CONSTANTS
    Proc,       \* struct proc
    NoProc,     \* the NULL pointer
    Waiter,     \* waiter_t
    NoWaiter    \* the NULL waiter_t pointer

VARIABLES
    head, tail,     \* waiter->head, waiter->tail
    wait_next,      \* process->wait_next
    waiting_on      \* process->waiting_on

ListTypeOK ==
    /\ head \in [Waiter -> Proc \cup {NoProc}]
    /\ tail \in [Waiter -> Proc \cup {NoProc}]
    /\ wait_next \in [Proc -> Proc \cup {NoProc}]
    /\ waiting_on \in [Proc -> Waiter \cup {NoWaiter}]

ListInit ==
    /\ head = [w \in Waiter |-> NoProc]
    /\ tail = [w \in Waiter |-> NoProc]
    /\ wait_next = [p \in Proc |-> NoProc]
    /\ waiting_on = [p \in Proc |-> NoWaiter]

-----------------------------------------------------------------------------

(* The entry i links behind p, NoProc past the end of the list. *)
Path(link, p) ==
    LET entry[i \in Nat] ==
            IF i = 0 THEN p
            ELSE IF entry[i - 1] = NoProc THEN NoProc
                 ELSE link[entry[i - 1]]
    IN  entry

(* The entries a walk from p meets, p first.  A list never has more        *)
(* entries than there are processes, so longer walks are cut.              *)
Walk(link, p) ==
    LET entry == Path(link, p)
        met == {i \in 0..Cardinality(Proc) : entry[i] # NoProc}
    IN  [i \in 1..Cardinality(met) |-> entry[i - 1]]

(* The processes queued on w in the order waiter_pop will return them. *)
Chain(w) == Walk(wait_next, tail[w])

-----------------------------------------------------------------------------

(* A mutated WaiterPush: the newest waiter is served first. *)
WaiterPushAtTail(w, p) ==
    /\ IF head[w] = NoProc
         THEN head' = [head EXCEPT ![w] = p] /\ UNCHANGED wait_next
         ELSE wait_next' = [wait_next EXCEPT ![p] = tail[w]] /\ UNCHANGED head
    /\ tail' = [tail EXCEPT ![w] = p]
    /\ waiting_on' = [waiting_on EXCEPT ![p] = w]

(* waiter_push(w, p) *)
WaiterPush(w, p) ==
    /\ IF head[w] = NoProc
         THEN tail' = [tail EXCEPT ![w] = p] /\ UNCHANGED wait_next
         ELSE wait_next' = [wait_next EXCEPT ![head[w]] = p] /\ UNCHANGED tail
    /\ head' = [head EXCEPT ![w] = p]
    /\ waiting_on' = [waiting_on EXCEPT ![p] = w]

(* A mutated WaiterPop: wait_next is reset before it is read. *)
WaiterPopDropsRest(w) ==
    /\ tail' = [tail EXCEPT ![w] = NoProc]
    /\ head' = [head EXCEPT ![w] = NoProc]
    /\ wait_next' = [wait_next EXCEPT ![tail[w]] = NoProc]
    /\ waiting_on' = [waiting_on EXCEPT ![tail[w]] = NoWaiter]

(* waiter_pop(w), which returns the old tail[w], when w is not empty. *)
WaiterPop(w) ==
    LET popped == tail[w]
        newer  == wait_next[popped]
    IN  /\ tail' = [tail EXCEPT ![w] = newer]
        /\ head' = IF newer = NoProc THEN [head EXCEPT ![w] = NoProc] ELSE head
        /\ wait_next' = [wait_next EXCEPT ![popped] = NoProc]
        /\ waiting_on' = [waiting_on EXCEPT ![popped] = NoWaiter]
=============================================================================
