---------------------------- MODULE MutexAbs ----------------------------
(***************************************************************************)
(* What mutex_t promises its callers: at most one process is between a     *)
(* lock and the matching unlock, and a mutex that is released goes to the  *)
(* process that has waited longest, without ever being free in between.    *)
(***************************************************************************)
EXTENDS Sequences

CONSTANTS Proc, NoProc, Mutex

VARIABLES
    holder,     \* the process the mutex belongs to, or NoProc
    queue,      \* the processes waiting for it, oldest first
    inside      \* the processes that have returned from mutex_lock

absVars == <<holder, queue, inside>>

Init ==
    /\ holder = [m \in Mutex |-> NoProc]
    /\ queue = [m \in Mutex |-> <<>>]
    /\ inside = [m \in Mutex |-> {}]

Acquire(p, m) ==
    /\ holder[m] = NoProc /\ queue[m] = <<>>
    /\ holder' = [holder EXCEPT ![m] = p]
    /\ inside' = [inside EXCEPT ![m] = {p}]
    /\ UNCHANGED queue

Wait(p, m) ==
    /\ holder[m] \notin {NoProc, p}
    /\ \A i \in DOMAIN queue[m] : queue[m][i] # p
    /\ queue' = [queue EXCEPT ![m] = Append(@, p)]
    /\ UNCHANGED <<holder, inside>>

(* A process that was handed the mutex returns from mutex_lock. *)
Enter(p, m) ==
    /\ holder[m] = p /\ inside[m] = {}
    /\ inside' = [inside EXCEPT ![m] = {p}]
    /\ UNCHANGED <<holder, queue>>

Release(p, m) ==
    /\ inside[m] = {p} /\ holder[m] = p
    /\ inside' = [inside EXCEPT ![m] = {}]
    /\ IF queue[m] = <<>>
         THEN holder' = [holder EXCEPT ![m] = NoProc] /\ UNCHANGED queue
         ELSE /\ holder' = [holder EXCEPT ![m] = Head(queue[m])]
              /\ queue' = [queue EXCEPT ![m] = Tail(@)]

Next == \E p \in Proc, m \in Mutex :
            Acquire(p, m) \/ Wait(p, m) \/ Enter(p, m) \/ Release(p, m)

Spec == Init /\ [][Next]_absVars
=============================================================================
