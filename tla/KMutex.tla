------------------------------ MODULE KMutex ------------------------------
(***************************************************************************)
(* The kernel mutexes of kernel/lock.c, composed with the scheduler and    *)
(* the wait queues they are built from.  Thread code is preemptible        *)
(* wherever interrupts are enabled, so mutex_lock and mutex_unlock are     *)
(* split where they enable interrupts before calling the scheduler         *)
(* (lock.c:30 and lock.c:63).  proc_sched_started is 1 throughout.         *)
(***************************************************************************)
EXTENDS RunQueue, FiniteSets

CONSTANTS
    Mutex,      \* mutex_t objects
    NoWaiter,   \* the NULL pointer to one
    Worker,     \* the kernel worker, always ready, which takes no mutex here
    MaxDepth    \* bound on nested mutex_lock calls of one process

(* mutex_t.count is a 7-bit field. *)
ASSUME KMutexAssumption ==
    /\ Worker \in Proc
    /\ NoWaiter \notin Mutex
    /\ IsFiniteSet(Proc)
    /\ Cardinality(Proc) <= QueueSize
    /\ MaxDepth \in 1..127

VARIABLES
    lock, owner, count,     \* the fields of mutex_t, owner = NoProc for 255
    head, tail,             \* mutex_t.waiter
    wait_next, waiting_on,  \* the list fields of struct proc
    pc,                     \* where a process is in lock.c
    mut,                    \* its argument there
    next,                   \* the local variable of mutex_unlock
    held                    \* calls of mutex_lock it has returned from, less
                            \* its calls of mutex_unlock, per mutex

INSTANCE WaitList WITH Waiter <- Mutex

listVars == <<head, tail, wait_next, waiting_on>>
mutexVars == <<lock, owner, count>>
threadVars == <<pc, mut, next, held>>
vars == <<schedVars, mutexVars, listVars, threadVars>>

TypeOK ==
    /\ SchedTypeOK
    /\ ListTypeOK
    /\ lock \in [Mutex -> BOOLEAN]
    /\ owner \in [Mutex -> Proc \cup {NoProc}]
    /\ count \in [Mutex -> 0..MaxDepth]
    /\ pc \in [Proc -> {"run", "pushed", "waiting", "handover"}]
    /\ mut \in [Proc -> Mutex \cup {NoWaiter}]
    /\ next \in [Proc -> Proc \cup {NoProc}]
    /\ held \in [Proc -> [Mutex -> 0..MaxDepth]]

(* mutex_init on every mutex; the worker runs, and the others are ready    *)
(* and queued in some order.                                               *)
Init ==
    /\ lock = [m \in Mutex |-> FALSE]
    /\ owner = [m \in Mutex |-> NoProc]
    /\ count = [m \in Mutex |-> 0]
    /\ ListInit
    /\ state = [p \in Proc |-> "READY"]
    /\ runq \in {q \in [1..(Cardinality(Proc) - 1) -> Proc \ {Worker}] :
                    \A i, j \in DOMAIN q : q[i] = q[j] => i = j}
    /\ current = Worker
    /\ pc = [p \in Proc |-> "run"]
    /\ mut = [p \in Proc |-> NoWaiter]
    /\ next = [p \in Proc |-> NoProc]
    /\ held = [p \in Proc |-> [m \in Mutex |-> 0]]

-----------------------------------------------------------------------------

(* The running process is in its own code and takes mutexes. *)
Running == current \in Proc \ {Worker} /\ pc[current] = "run"

Goto(label) == pc' = [pc EXCEPT ![current] = label]

MayLock(m) == Running /\ held[current][m] < MaxDepth

(* The caller returns from mutex_lock. *)
Entered(m) == held' = [held EXCEPT ![current][m] = @ + 1]

(* The caller is done with what the mutex protects. *)
Left(m) == held' = [held EXCEPT ![current][m] = @ - 1]

(* A mutated LockAgain: the nested call is not counted. *)
LockAgainUncounted(m) ==
    /\ MayLock(m)
    /\ lock[m] /\ owner[m] = current
    /\ Entered(m)
    /\ UNCHANGED <<schedVars, mutexVars, listVars, pc, mut, next>>

(* mutex_lock by the process that has the mutex already. *)
LockAgain(m) ==
    /\ MayLock(m)
    /\ lock[m] /\ owner[m] = current
    /\ count' = [count EXCEPT ![m] = @ + 1]
    /\ Entered(m)
    /\ UNCHANGED <<schedVars, lock, owner, listVars, pc, mut, next>>

(* A mutated LockFree: count goes up from what the last owner left. *)
LockFreeStaleCount(m) ==
    /\ MayLock(m)
    /\ ~lock[m]
    /\ lock' = [lock EXCEPT ![m] = TRUE]
    /\ owner' = [owner EXCEPT ![m] = current]
    /\ count' = [count EXCEPT ![m] = @ + 1]
    /\ Entered(m)
    /\ UNCHANGED <<schedVars, listVars, pc, mut, next>>

(* mutex_lock on a free mutex. *)
LockFree(m) ==
    /\ MayLock(m)
    /\ ~lock[m]
    /\ lock' = [lock EXCEPT ![m] = TRUE]
    /\ owner' = [owner EXCEPT ![m] = current]
    /\ count' = [count EXCEPT ![m] = 1]
    /\ Entered(m)
    /\ UNCHANGED <<schedVars, listVars, pc, mut, next>>

(* mutex_lock on a mutex of another process, up to enable_interrupts. *)
LockPush(m) ==
    /\ MayLock(m)
    /\ lock[m] /\ owner[m] # current
    /\ WaiterPush(m, current)
    /\ Goto("pushed")
    /\ mut' = [mut EXCEPT ![current] = m]
    /\ UNCHANGED <<schedVars, mutexVars, next, held>>

(* The call of proc_block that follows, perhaps much later. *)
LockBlock ==
    /\ current \in Proc /\ pc[current] = "pushed"
    /\ ProcBlock(current)
    /\ Goto("waiting")
    /\ UNCHANGED <<mutexVars, listVars, mut, next, held>>

(* The process runs again and returns: if we get unblocked that means that *)
(* we get the lock.                                                        *)
LockReturn ==
    /\ current \in Proc /\ pc[current] = "waiting"
    /\ Entered(mut[current])
    /\ Goto("run")
    /\ UNCHANGED <<schedVars, mutexVars, listVars, mut, next>>

MayUnlock(m) == Running /\ held[current][m] > 0 /\ owner[m] = current

(* mutex_unlock that undoes a nested mutex_lock. *)
UnlockNested(m) ==
    /\ MayUnlock(m)
    /\ count[m] > 1
    /\ count' = [count EXCEPT ![m] = @ - 1]
    /\ Left(m)
    /\ UNCHANGED <<schedVars, lock, owner, listVars, pc, mut, next>>

(* mutex_unlock with nobody waiting: only the lock bit is cleared. *)
UnlockFree(m) ==
    /\ MayUnlock(m)
    /\ count[m] <= 1 /\ tail[m] = NoProc
    /\ lock' = [lock EXCEPT ![m] = FALSE]
    /\ Left(m)
    /\ UNCHANGED <<schedVars, owner, count, listVars, pc, mut, next>>

(* A mutated UnlockPop: the lock bit is cleared on this path too. *)
UnlockPopFrees(m) ==
    /\ MayUnlock(m)
    /\ count[m] <= 1 /\ tail[m] # NoProc
    /\ WaiterPop(m)
    /\ lock' = [lock EXCEPT ![m] = FALSE]
    /\ owner' = [owner EXCEPT ![m] = tail[m]]
    /\ next' = [next EXCEPT ![current] = tail[m]]
    /\ Left(m)
    /\ Goto("handover")
    /\ UNCHANGED <<schedVars, count, mut>>

(* mutex_unlock with somebody waiting, up to enable_interrupts: the mutex  *)
(* stays locked, with count 1, and changes hands.                          *)
UnlockPop(m) ==
    /\ MayUnlock(m)
    /\ count[m] <= 1 /\ tail[m] # NoProc
    /\ WaiterPop(m)
    /\ owner' = [owner EXCEPT ![m] = tail[m]]
    /\ next' = [next EXCEPT ![current] = tail[m]]
    /\ Left(m)
    /\ Goto("handover")
    /\ UNCHANGED <<schedVars, lock, count, mut>>

(* The call of proc_unblock_process(next) that follows. *)
UnlockWake ==
    /\ current \in Proc /\ pc[current] = "handover"
    /\ ProcUnblock(next[current])
    /\ Goto("run")
    /\ UNCHANGED <<mutexVars, listVars, mut, next, held>>

(* SysTick preempts the running process. *)
Tick ==
    /\ current \in Proc
    /\ ProcSchedule
    /\ UNCHANGED <<mutexVars, listVars, threadVars>>

Next ==
    \/ Tick
    \/ LockBlock
    \/ LockReturn
    \/ UnlockWake
    \/ \E m \in Mutex :
          \/ LockAgain(m) \/ LockFree(m) \/ LockPush(m)
          \/ UnlockNested(m) \/ UnlockFree(m) \/ UnlockPop(m)

Spec == Init /\ [][Next]_vars

-----------------------------------------------------------------------------

(* Two processes are never both between mutex_lock and mutex_unlock of one *)
(* mutex, although a mutex changes hands without being freed.              *)
MutualExclusion ==
    \A m \in Mutex, p, q \in Proc :
        held[p][m] > 0 /\ held[q][m] > 0 => p = q

(* Whoever is inside owns the locked mutex, and the depth recorded in the  *)
(* mutex is its own: the count a handover leaves behind fits the new owner.*)
HeldIsOwned ==
    \A m \in Mutex, p \in Proc :
        held[p][m] > 0 => lock[m] /\ owner[m] = p /\ count[m] = held[p][m]

(* A process that is inside mutex_lock either has been given the mutex or  *)
(* is queued on it, exactly once, and then the mutex is not free: nobody   *)
(* waits for something that nobody will hand over.                         *)
NoStrandedWaiter ==
    \A p \in Proc :
        pc[p] \in {"pushed", "waiting"} =>
            LET m == mut[p]
                places == {i \in DOMAIN Chain(m) : Chain(m)[i] = p}
            IN  /\ lock[m]
                /\ Cardinality(places) = IF owner[m] = p THEN 0 ELSE 1

(* "If we get unblocked that means that we get the lock" (lock.c:33) read  *)
(* from the other side: once the releasing process has gone through        *)
(* proc_unblock_process, the process the mutex was handed to is not left   *)
(* blocked in mutex_lock as its owner.                                     *)
HandedOverRuns ==
    \A p \in Proc :
        pc[p] = "waiting" /\ state[p] = "BLOCKED" =>
            \/ owner[mut[p]] # p
            \/ \E q \in Proc : pc[q] = "handover" /\ next[q] = p

(* kernel/lock.c implements the mutex of MutexAbs: exclusive, and handed   *)
(* to the longest waiter.                                                  *)
Abs == INSTANCE MutexAbs WITH
          holder <- [m \in Mutex |-> IF lock[m] THEN owner[m] ELSE NoProc],
          queue  <- [m \in Mutex |-> Chain(m)],
          inside <- [m \in Mutex |-> {p \in Proc : held[p][m] > 0}]

ImplementsMutex == Abs!Spec
=============================================================================
