--------------------------- MODULE KMutexProofs ---------------------------
(***************************************************************************)
(* Mutual exclusion of the kernel mutexes, for any number of processes and *)
(* mutexes, any nesting depth and any size of the ready list.              *)
(***************************************************************************)
EXTENDS KMutex, TLAPS, FiniteSetTheorems, SequenceTheorems,
        WellFoundedInduction

(* p has pushed itself on a wait queue and has not returned since. *)
InLock(p) == pc[p] \in {"pushed", "waiting"}

(* The mutex p waits for was handed to it. *)
Granted(p) == lock[mut[p]] /\ owner[mut[p]] = p /\ count[mut[p]] = 1

(* Whoever runs is ready. *)
CurrentReady == current \in Proc => state[current] = "READY"

(* A process inside mutex_lock is outside the mutex it asks for. *)
WaitersOutside ==
    \A p \in Proc : InLock(p) => mut[p] \in Mutex /\ held[p][mut[p]] = 0

(* A process on a wait queue is inside mutex_lock, for that mutex, and has *)
(* not been woken.                                                         *)
QueuedWait ==
    \A p \in Proc : waiting_on[p] # NoWaiter =>
        /\ InLock(p) /\ mut[p] = waiting_on[p]
        /\ pc[p] = "waiting" => state[p] = "BLOCKED"

(* The ends of a list are queued on it, and nothing follows the newest.    *)
EndsInv ==
    \A m \in Mutex :
        /\ tail[m] # NoProc => waiting_on[tail[m]] = m
        /\ head[m] # NoProc =>
              waiting_on[head[m]] = m /\ wait_next[head[m]] = NoProc

(* Links stay within one list, never lead to its oldest entry and never    *)
(* join.                                                                   *)
LinksInv ==
    \A p \in Proc : wait_next[p] # NoProc =>
        /\ waiting_on[p] # NoWaiter
        /\ waiting_on[wait_next[p]] = waiting_on[p]
        /\ \A m \in Mutex : tail[m] # wait_next[p]
        /\ \A q \in Proc : wait_next[q] = wait_next[p] => q = p

(* Between the two steps of a handover the new owner is off every queue,   *)
(* still asleep if it got that far, and woken by nobody else.              *)
HandoverInv ==
    \A c \in Proc : pc[c] = "handover" =>
        /\ next[c] \in Proc /\ InLock(next[c]) /\ Granted(next[c])
        /\ waiting_on[next[c]] = NoWaiter
        /\ pc[next[c]] = "waiting" => state[next[c]] = "BLOCKED"
        /\ \A d \in Proc : pc[d] = "handover" /\ next[d] = next[c] => d = c

(* Whoever can return from proc_block in mutex_lock owns the mutex. *)
ReturnInv ==
    \A p \in Proc : pc[p] = "waiting" /\ state[p] = "READY" => Granted(p)

(* A locked mutex belongs to a process that is inside or on its way in.    *)
OwnerInv ==
    \A m \in Mutex : lock[m] =>
        /\ owner[m] \in Proc
        /\ \/ held[owner[m]][m] > 0
           \/ InLock(owner[m]) /\ mut[owner[m]] = m

(* The inductive invariant. *)
IInv ==
    /\ TypeOK /\ CurrentReady
    /\ HeldIsOwned /\ OwnerInv
    /\ WaitersOutside /\ QueuedWait /\ EndsInv /\ LinksInv
    /\ HandoverInv /\ ReturnInv

-----------------------------------------------------------------------------
(* Facts about the operators of RunQueue.                                   *)

(* proc_enqueue keeps the queue a queue of processes within its array. *)
LEMMA EnqueueType ==
    ASSUME NEW q \in Seq(Proc), Len(q) <= QueueSize, NEW p \in Proc
    PROVE  Enqueue(q, p) \in Seq(Proc) /\ Len(Enqueue(q, p)) <= QueueSize
BY RunQueueAssumption DEF Enqueue

(* The context switch keeps the types, and whoever it picks is ready. *)
LEMMA SwitchType ==
    ASSUME NEW q \in Seq(Proc), Len(q) <= QueueSize, current \in Proc,
           NEW st, Switch(q, st)
    PROVE  /\ runq' \in Seq(Proc) /\ Len(runq') <= QueueSize
           /\ current' \in Proc \cup {NoProc}
           /\ current' \in Proc => st[current'] = "READY"
<1> DEFINE r == Requeue(q, st)
<1>1. r \in Seq(Proc) /\ Len(r) <= QueueSize
  BY EnqueueType DEF Requeue
<1>2. CASE FirstReady(r, st) = {}
  BY <1>2, RunQueueAssumption DEF Switch, Dispatch
<1>3. CASE FirstReady(r, st) # {}
  <2>1. PICK i \in FirstReady(r, st) :
           current' = r[i] /\ runq' = SubSeq(r, i + 1, Len(r))
    BY <1>3 DEF Switch, Dispatch
  <2>2. i \in 1..Len(r) /\ st[r[i]] = "READY"
    BY DEF FirstReady
  <2> HIDE DEF r
  <2>3. Len(r) \in Nat /\ r[i] \in Proc
    BY <1>1, <2>2
  <2>4. runq' \in Seq(Proc) /\ Len(runq') = Len(r) - i
    BY <1>1, <2>1, <2>2, <2>3
  <2> QED BY <1>1, <2>1, <2>2, <2>3, <2>4, RunQueueAssumption
<1> QED BY <1>2, <1>3

-----------------------------------------------------------------------------

(* The invariant holds at first.                                            *)
LEMMA InitIInv == Init => IInv
<1> SUFFICES ASSUME Init PROVE IInv
  OBVIOUS
<1> USE RunQueueAssumption, KMutexAssumption
<1>1. Cardinality(Proc) \in Nat /\ Cardinality(Proc) > 0
  BY FS_CardinalityType, FS_EmptySet
<1>2. runq \in Seq(Proc) /\ Len(runq) = Cardinality(Proc) - 1
  BY <1>1 DEF Init
<1>3. TypeOK
  BY <1>1, <1>2 DEF Init, ListInit, TypeOK, SchedTypeOK, ListTypeOK, ProcState
<1> QED BY <1>3 DEF Init, ListInit, IInv, CurrentReady, HeldIsOwned, OwnerInv,
      WaitersOutside, QueuedWait, EndsInv, LinksInv, HandoverInv, ReturnInv, InLock

LEMMA StepLockAgain ==
    ASSUME IInv, NEW m \in Mutex, LockAgain(m)
    PROVE  IInv'
<1> USE RunQueueAssumption, KMutexAssumption DEF IInv, LockAgain, MayLock, Running,
       schedVars, listVars, Entered
<1>1. current \in Proc /\ held[current][m] = count[m] /\ count[m] < MaxDepth
  BY DEF OwnerInv, HeldIsOwned, InLock, TypeOK
<1>2. TypeOK'
  BY <1>1 DEF TypeOK, SchedTypeOK, ListTypeOK
<1>3. CurrentReady'
  BY DEF CurrentReady
<1>4. HeldIsOwned' /\ OwnerInv'
  BY <1>1 DEF HeldIsOwned, OwnerInv, InLock, TypeOK
<1>5. WaitersOutside' /\ QueuedWait' /\ EndsInv' /\ LinksInv'
  BY DEF WaitersOutside, QueuedWait, EndsInv, LinksInv, InLock, TypeOK
<1>6. HandoverInv' /\ ReturnInv'
  BY DEF HandoverInv, ReturnInv, Granted, InLock, TypeOK, WaitersOutside
<1> QED BY <1>2, <1>3, <1>4, <1>5, <1>6

LEMMA StepLockFree ==
    ASSUME IInv, NEW m \in Mutex, LockFree(m)
    PROVE  IInv'
<1> USE RunQueueAssumption, KMutexAssumption DEF IInv, LockFree, MayLock, Running,
       schedVars, listVars, Entered
<1>1. \A p \in Proc : held[p][m] = 0
  BY DEF HeldIsOwned, TypeOK
<1>2. TypeOK'
  BY <1>1 DEF TypeOK, SchedTypeOK, ListTypeOK
<1>3. CurrentReady'
  BY DEF CurrentReady
<1>4. HeldIsOwned' /\ OwnerInv'
  BY <1>1 DEF HeldIsOwned, OwnerInv, InLock, TypeOK
<1>5. WaitersOutside' /\ QueuedWait' /\ EndsInv' /\ LinksInv'
  BY DEF WaitersOutside, QueuedWait, EndsInv, LinksInv, InLock, TypeOK
<1>6. HandoverInv' /\ ReturnInv'
  BY DEF HandoverInv, ReturnInv, Granted, InLock, TypeOK, WaitersOutside
<1> QED BY <1>2, <1>3, <1>4, <1>5, <1>6

LEMMA StepLockPush ==
    ASSUME IInv, NEW m \in Mutex, LockPush(m)
    PROVE  IInv'
<1> USE RunQueueAssumption, KMutexAssumption DEF IInv, LockPush, MayLock, Running,
       schedVars, mutexVars, Goto
<1>1. held[current][m] = 0 /\ waiting_on[current] = NoWaiter
      /\ wait_next[current] = NoProc
  <2>1. held[current][m] = 0
    BY DEF HeldIsOwned, TypeOK
  <2>2. waiting_on[current] = NoWaiter
    BY DEF QueuedWait, InLock, TypeOK
  <2>3. wait_next[current] = NoProc
    BY <2>2 DEF LinksInv
  <2> QED BY <2>1, <2>2, <2>3
<1>2. TypeOK'
  BY DEF TypeOK, SchedTypeOK, ListTypeOK, WaiterPush
<1>3. CurrentReady'
  BY DEF CurrentReady
<1>4. HeldIsOwned' /\ OwnerInv'
  BY <1>1 DEF HeldIsOwned, OwnerInv, InLock, TypeOK
<1>5. WaitersOutside' /\ QueuedWait'
  BY <1>1 DEF WaitersOutside, QueuedWait, InLock, TypeOK, ListTypeOK, WaiterPush
<1>6. EndsInv'
  BY <1>1 DEF EndsInv, TypeOK, ListTypeOK, WaiterPush
<1>7. LinksInv'
  BY <1>1 DEF LinksInv, EndsInv, TypeOK, ListTypeOK, WaiterPush
<1>8. HandoverInv' /\ ReturnInv'
  BY DEF HandoverInv, ReturnInv, Granted, InLock, TypeOK, ListTypeOK, WaiterPush
<1> QED BY <1>2, <1>3, <1>4, <1>5, <1>6, <1>7, <1>8

LEMMA StepLockBlock ==
    ASSUME IInv, LockBlock
    PROVE  IInv'
<1> USE RunQueueAssumption, KMutexAssumption DEF IInv, LockBlock,
       mutexVars, listVars, Goto
<1> DEFINE st == [state EXCEPT ![current] = "BLOCKED"]
<1>1. state' = st /\ Switch(runq, st)
  BY DEF ProcBlock
<1>2. /\ runq' \in Seq(Proc) /\ Len(runq') <= QueueSize
      /\ current' \in Proc \cup {NoProc}
      /\ current' \in Proc => st[current'] = "READY"
  BY <1>1, SwitchType DEF TypeOK, SchedTypeOK
<1>3. TypeOK'
  BY <1>1, <1>2 DEF TypeOK, SchedTypeOK, ListTypeOK, ProcState
<1>4. CurrentReady'
  BY <1>1, <1>2 DEF CurrentReady
<1>5. HeldIsOwned' /\ OwnerInv' /\ WaitersOutside'
  BY DEF HeldIsOwned, OwnerInv, WaitersOutside, InLock, TypeOK
<1>6. QueuedWait' /\ EndsInv' /\ LinksInv'
  BY <1>1 DEF QueuedWait, EndsInv, LinksInv, InLock, TypeOK, SchedTypeOK
<1>7. HandoverInv' /\ ReturnInv'
  BY <1>1 DEF HandoverInv, ReturnInv, Granted, InLock, TypeOK, SchedTypeOK
<1> QED BY <1>3, <1>4, <1>5, <1>6, <1>7

LEMMA StepLockReturn ==
    ASSUME IInv, LockReturn
    PROVE  IInv'
<1> USE RunQueueAssumption, KMutexAssumption DEF IInv, LockReturn,
       schedVars, mutexVars, listVars, Goto, Entered
<1> DEFINE m == mut[current]
<1>1. /\ m \in Mutex /\ held[current][m] = 0
      /\ lock[m] /\ owner[m] = current /\ count[m] = 1
  BY DEF WaitersOutside, ReturnInv, CurrentReady, Granted, InLock
<1>2. waiting_on[current] = NoWaiter
  BY DEF QueuedWait, CurrentReady
<1>3. \A c \in Proc : pc[c] = "handover" => next[c] # current
  BY DEF HandoverInv, CurrentReady
<1>4. TypeOK'
  BY <1>1 DEF TypeOK, SchedTypeOK, ListTypeOK
<1>5. CurrentReady'
  BY DEF CurrentReady
<1>6. HeldIsOwned' /\ OwnerInv'
  BY <1>1 DEF HeldIsOwned, OwnerInv, InLock, TypeOK
<1>7. WaitersOutside' /\ QueuedWait' /\ EndsInv' /\ LinksInv'
  BY <1>2 DEF WaitersOutside, QueuedWait, EndsInv, LinksInv, InLock, TypeOK
<1>8. HandoverInv' /\ ReturnInv'
  BY <1>3 DEF HandoverInv, ReturnInv, Granted, InLock, TypeOK
<1> QED BY <1>4, <1>5, <1>6, <1>7, <1>8

LEMMA StepUnlockNested ==
    ASSUME IInv, NEW m \in Mutex, UnlockNested(m)
    PROVE  IInv'
<1> USE RunQueueAssumption, KMutexAssumption DEF IInv, UnlockNested, MayUnlock,
       Running, schedVars, listVars, Left
<1>1. lock[m] /\ count[m] = held[current][m]
  BY DEF HeldIsOwned
<1>2. TypeOK'
  BY <1>1 DEF TypeOK, SchedTypeOK, ListTypeOK
<1>3. CurrentReady'
  BY DEF CurrentReady
<1>4. HeldIsOwned' /\ OwnerInv'
  BY <1>1 DEF HeldIsOwned, OwnerInv, InLock, TypeOK
<1>5. WaitersOutside' /\ QueuedWait' /\ EndsInv' /\ LinksInv'
  BY DEF WaitersOutside, QueuedWait, EndsInv, LinksInv, InLock, TypeOK
<1>6. HandoverInv' /\ ReturnInv'
  BY <1>1 DEF HandoverInv, ReturnInv, Granted, InLock, TypeOK, WaitersOutside
<1> QED BY <1>2, <1>3, <1>4, <1>5, <1>6

LEMMA StepUnlockFree ==
    ASSUME IInv, NEW m \in Mutex, UnlockFree(m)
    PROVE  IInv'
<1> USE RunQueueAssumption, KMutexAssumption DEF IInv, UnlockFree, MayUnlock,
       Running, schedVars, listVars, Left
<1>1. held[current][m] = 1 /\ \A p \in Proc : p # current => held[p][m] = 0
  BY DEF HeldIsOwned, TypeOK
<1>2. TypeOK'
  BY <1>1 DEF TypeOK, SchedTypeOK, ListTypeOK
<1>3. CurrentReady'
  BY DEF CurrentReady
<1>4. HeldIsOwned' /\ OwnerInv'
  BY <1>1 DEF HeldIsOwned, OwnerInv, InLock, TypeOK
<1>5. WaitersOutside' /\ QueuedWait' /\ EndsInv' /\ LinksInv'
  BY DEF WaitersOutside, QueuedWait, EndsInv, LinksInv, InLock, TypeOK
<1>6. HandoverInv' /\ ReturnInv'
  BY <1>1 DEF HandoverInv, ReturnInv, Granted, InLock, TypeOK, WaitersOutside
<1> QED BY <1>2, <1>3, <1>4, <1>5, <1>6

LEMMA StepUnlockPop ==
    ASSUME IInv, NEW m \in Mutex, UnlockPop(m)
    PROVE  IInv'
<1> USE RunQueueAssumption, KMutexAssumption DEF IInv, UnlockPop, MayUnlock,
       Running, schedVars, Left, Goto
<1> DEFINE n == tail[m]
<1>1. /\ lock[m] /\ count[m] = 1 /\ held[current][m] = 1
      /\ \A p \in Proc : p # current => held[p][m] = 0
  BY DEF HeldIsOwned, TypeOK
<1>2. /\ n \in Proc /\ waiting_on[n] = m
      /\ InLock(n) /\ mut[n] = m /\ n # current
      /\ pc[n] = "waiting" => state[n] = "BLOCKED"
  BY DEF EndsInv, QueuedWait, InLock, TypeOK, ListTypeOK
<1>3. \A c \in Proc : pc[c] = "handover" => next[c] # n
  BY <1>2 DEF HandoverInv
<1>4. TypeOK'
  BY <1>1, <1>2 DEF TypeOK, SchedTypeOK, ListTypeOK, WaiterPop
<1>5. CurrentReady'
  BY DEF CurrentReady
<1>6. HeldIsOwned' /\ OwnerInv'
  BY <1>1, <1>2 DEF HeldIsOwned, OwnerInv, InLock, TypeOK
<1>7. WaitersOutside'
  BY <1>1, <1>2 DEF WaitersOutside, InLock, TypeOK
<1>8. QueuedWait'
  BY <1>2 DEF QueuedWait, InLock, TypeOK, ListTypeOK, WaiterPop
<1>9. EndsInv' /\ LinksInv'
  BY <1>2 DEF EndsInv, LinksInv, TypeOK, ListTypeOK, WaiterPop
<1>10. HandoverInv' /\ ReturnInv'
  BY <1>1, <1>2, <1>3 DEF HandoverInv, ReturnInv, Granted, InLock, TypeOK,
       ListTypeOK, WaiterPop, WaitersOutside
<1> QED BY <1>4, <1>5, <1>6, <1>7, <1>8, <1>9, <1>10

LEMMA StepUnlockWake ==
    ASSUME IInv, UnlockWake
    PROVE  IInv'
<1> USE RunQueueAssumption, KMutexAssumption DEF IInv, UnlockWake,
       mutexVars, listVars, Goto
<1> DEFINE n == next[current]
           st == [state EXCEPT ![n] = "READY"]
<1>1. /\ n \in Proc /\ InLock(n) /\ Granted(n) /\ waiting_on[n] = NoWaiter
      /\ \A d \in Proc : pc[d] = "handover" /\ next[d] = n => d = current
  BY DEF HandoverInv
<1>2. state' = st /\ Switch(Enqueue(runq, n), st)
  BY DEF ProcUnblock
<1>3. /\ runq' \in Seq(Proc) /\ Len(runq') <= QueueSize
      /\ current' \in Proc \cup {NoProc}
      /\ current' \in Proc => st[current'] = "READY"
  <2>1. Enqueue(runq, n) \in Seq(Proc) /\ Len(Enqueue(runq, n)) <= QueueSize
    BY <1>1, EnqueueType DEF TypeOK, SchedTypeOK
  <2> QED BY <1>2, <2>1, SwitchType
<1>4. TypeOK'
  BY <1>1, <1>2, <1>3 DEF TypeOK, SchedTypeOK, ListTypeOK, ProcState
<1>5. CurrentReady'
  BY <1>2, <1>3 DEF CurrentReady
<1>6. HeldIsOwned' /\ OwnerInv' /\ WaitersOutside'
  BY DEF HeldIsOwned, OwnerInv, WaitersOutside, InLock, TypeOK
<1>7. QueuedWait' /\ EndsInv' /\ LinksInv'
  BY <1>1, <1>2 DEF QueuedWait, EndsInv, LinksInv, InLock, TypeOK, SchedTypeOK
<1>8. HandoverInv' /\ ReturnInv'
  BY <1>1, <1>2 DEF HandoverInv, ReturnInv, Granted, InLock, TypeOK, SchedTypeOK
<1> QED BY <1>4, <1>5, <1>6, <1>7, <1>8

(* What each action does to the invariant.                                  *)
LEMMA StepTick ==
    ASSUME IInv, Tick
    PROVE  IInv'
<1> USE RunQueueAssumption DEF IInv, Tick, mutexVars, listVars, threadVars
<1>1. /\ runq' \in Seq(Proc) /\ Len(runq') <= QueueSize
      /\ current' \in Proc \cup {NoProc}
      /\ current' \in Proc => state[current'] = "READY"
      /\ state' = state
  BY SwitchType DEF ProcSchedule, TypeOK, SchedTypeOK
<1>2. TypeOK'
  BY <1>1 DEF TypeOK, SchedTypeOK, ListTypeOK
<1>3. CurrentReady'
  BY <1>1 DEF CurrentReady
<1>4. HeldIsOwned' /\ OwnerInv' /\ WaitersOutside'
  BY DEF HeldIsOwned, OwnerInv, WaitersOutside, InLock
<1>5. QueuedWait' /\ EndsInv' /\ LinksInv'
  BY <1>1 DEF QueuedWait, EndsInv, LinksInv, InLock
<1>6. HandoverInv' /\ ReturnInv'
  BY <1>1 DEF HandoverInv, ReturnInv, Granted, InLock
<1> QED BY <1>2, <1>3, <1>4, <1>5, <1>6

LEMMA StutterIInv ==
    ASSUME IInv, UNCHANGED vars
    PROVE  IInv'
BY DEF IInv, vars, schedVars, mutexVars, listVars, threadVars, TypeOK, SchedTypeOK,
     ListTypeOK, CurrentReady, HeldIsOwned, OwnerInv, WaitersOutside, QueuedWait,
     EndsInv, LinksInv, HandoverInv, ReturnInv, Granted, InLock

(* The inductive invariant holds in every reachable state. *)
THEOREM Invariance == Spec => []IInv
<1>1. IInv /\ [Next]_vars => IInv'
  <2> SUFFICES ASSUME IInv, [Next]_vars PROVE IInv'
    OBVIOUS
  <2>1. CASE Tick       BY <2>1, StepTick
  <2>2. CASE LockBlock  BY <2>2, StepLockBlock
  <2>3. CASE LockReturn BY <2>3, StepLockReturn
  <2>4. CASE UnlockWake BY <2>4, StepUnlockWake
  <2>5. ASSUME NEW m \in Mutex,
               \/ LockAgain(m) \/ LockFree(m) \/ LockPush(m)
               \/ UnlockNested(m) \/ UnlockFree(m) \/ UnlockPop(m)
        PROVE  IInv'
    BY <2>5, StepLockAgain, StepLockFree, StepLockPush,
       StepUnlockNested, StepUnlockFree, StepUnlockPop
  <2>6. CASE UNCHANGED vars BY <2>6, StutterIInv
  <2> QED BY <2>1, <2>2, <2>3, <2>4, <2>5, <2>6 DEF Next
<1> QED BY <1>1, InitIInv, PTL DEF Spec

(* Every variable keeps its type; the recursion depth never outgrows the   *)
(* 7-bit count field when no process nests deeper than MaxDepth.           *)
THEOREM TypeCorrect == Spec => []TypeOK
<1>1. IInv => TypeOK
  BY DEF IInv
<1> QED BY <1>1, Invariance, PTL

(* The depth stored in a mutex is that of the process inside it, across    *)
(* recursion and handover.                                                 *)
THEOREM DepthIsOwners == Spec => []HeldIsOwned
<1>1. IInv => HeldIsOwned
  BY DEF IInv
<1> QED BY <1>1, Invariance, PTL

(* Two processes are never inside the same mutex, as long as only          *)
(* mutex_unlock wakes a process that waits for one.                        *)
THEOREM Exclusion == Spec => []MutualExclusion
<1>1. IInv => MutualExclusion
  BY DEF IInv, HeldIsOwned, MutualExclusion
<1> QED BY <1>1, Invariance, PTL

-----------------------------------------------------------------------------
(* The walk along a list.                                                   *)

(* The sizes of the intervals that are counted with.                        *)
LEMMA Counted ==
    ASSUME NEW n \in Nat
    PROVE  /\ IsFiniteSet(1..n) /\ Cardinality(1..n) = n
           /\ Cardinality(0..(n - 1)) = n
<1>1. 0 \in Int /\ 1 \in Int /\ n \in Int /\ n - 1 \in Int
  OBVIOUS
<1>2. IsFiniteSet(1..n) /\ Cardinality(1..n) = IF 1 > n THEN 0 ELSE n - 1 + 1
  BY <1>1, FS_Interval
<1>3. Cardinality(0..(n - 1)) = IF 0 > n - 1 THEN 0 ELSE n - 1 - 0 + 1
  BY <1>1, FS_Interval
<1> QED
  BY <1>2, <1>3

(* A set of numbers has a smallest element: what the proofs use in place of *)
(* an induction.                                                            *)
LEMMA SmallestOf ==
    ASSUME NEW S, S \subseteq Nat, S # {}
    PROVE  \E x \in S : \A y \in S : x <= y
<1> DEFINE Up == {1..x : x \in S}
<1>1. Up \subseteq FiniteSubsetsOf(Nat)
  BY Counted DEF FiniteSubsetsOf
<1>2. IsWellFoundedOn(StrictSubsetOrdering(Nat), FiniteSubsetsOf(Nat))
  BY FS_StrictSubsetOrderingWellFounded
<1>3. Up # {}
  OBVIOUS
<1> HIDE DEF Up
<1>4. PICK U \in Up : \A V \in Up : ~ (<<V, U>> \in StrictSubsetOrdering(Nat))
  BY <1>1, <1>2, <1>3, WFMin
<1>5. PICK x \in S : U = 1..x
  BY <1>4 DEF Up
<1>6. ASSUME NEW y \in S, ~ (x <= y)
      PROVE  FALSE
  <2>1. x \in Nat /\ y \in Nat /\ y < x
    BY <1>6
  <2>2. 1..y \in Up
    BY DEF Up
  <2>3. 1..y \subseteq 1..x /\ 1..y # 1..x /\ 1..x \subseteq Nat
    <3>1. x \in 1..x /\ x \notin 1..y
      BY <2>1
    <3> QED
      BY <2>1, <3>1
  <2>4. <<1..y, 1..x>> \in StrictSubsetOrdering(Nat)
    BY <2>3, <2>1, Counted DEF StrictSubsetOrdering, FiniteSubsetsOf
  <2> QED
    BY <2>2, <2>4, <1>4, <1>5
<1> QED
  BY <1>6

(* s is a list along link: each entry once, each linked to the next.       *)
Linked(link, s) ==
    /\ \A i, j \in 1..Len(s) : s[i] = s[j] => i = j
    /\ \A i \in 1..Len(s) :
          link[s[i]] = IF i = Len(s) THEN NoProc ELSE s[i + 1]

FirstOf(s) == IF s = <<>> THEN NoProc ELSE s[1]

(* The entries of a list, and NoProc behind them. *)
Cells(s) == [i \in Nat |-> IF i < Len(s) THEN s[i + 1] ELSE NoProc]

(* Who follows the links of a queue meets its entries in order, and then    *)
(* NoProc.                                                                  *)
LEMMA PathIs ==
    ASSUME NEW link, NEW s \in Seq(Proc), Linked(link, s)
    PROVE  \A i \in Nat : Path(link, FirstOf(s))[i] = Cells(s)[i]
<1> DEFINE p == FirstOf(s)
           Body(f) == [i \in Nat |->
               IF i = 0 THEN p
               ELSE IF f[i - 1] = NoProc THEN NoProc ELSE link[f[i - 1]]]
           g == Path(link, p)
           c == Cells(s)
<1>1. /\ Len(s) \in Nat /\ \A i \in 1..Len(s) : s[i] \in Proc
      /\ s = <<>> <=> Len(s) = 0
  BY EmptySeq
<1>2. \A i \in Nat : c[i] = IF i < Len(s) THEN s[i + 1] ELSE NoProc
  BY DEF Cells
<1>3. c = Body(c)
  <2>1. ASSUME NEW i \in Nat
        PROVE  c[i] = Body(c)[i]
    <3>1. CASE i = 0
      BY <3>1, <1>1, <1>2 DEF FirstOf
    <3>2. CASE i # 0 /\ i - 1 < Len(s)
      <4>1. /\ i - 1 \in Nat /\ i \in 1..Len(s)
            /\ c[i - 1] = s[i] /\ s[i] # NoProc
        BY <3>2, <1>1, <1>2, RunQueueAssumption
      <4>2. link[s[i]] = IF i = Len(s) THEN NoProc ELSE s[i + 1]
        BY <4>1 DEF Linked
      <4>3. i < Len(s) <=> i # Len(s)
        BY <4>1, <1>1
      <4> HIDE DEF c
      <4> QED
        BY <4>1, <4>2, <4>3, <3>2, <1>2
    <3>3. CASE i # 0 /\ ~ (i - 1 < Len(s))
      <4>1. i - 1 \in Nat /\ c[i - 1] = NoProc /\ ~ (i < Len(s))
        BY <3>3, <1>1, <1>2
      <4> HIDE DEF c
      <4> QED
        BY <4>1, <3>3, <1>2
    <3> QED
      BY <3>1, <3>2, <3>3
  <2> QED
    BY <2>1 DEF Cells
<1>4. g = Body(g)
  BY <1>3 DEF Path
<1>5. ASSUME {i \in Nat : g[i] # c[i]} # {}
      PROVE  FALSE
  <2> HIDE DEF g, c
  <2>1. PICK i \in Nat : /\ g[i] # c[i]
                         /\ \A j \in Nat : g[j] # c[j] => i <= j
    BY <1>5, SmallestOf
  <2>2. g[i] = Body(g)[i] /\ c[i] = Body(c)[i]
    BY <1>3, <1>4
  <2>3. i # 0
    BY <2>1, <2>2
  <2>4. i - 1 \in Nat /\ g[i - 1] = c[i - 1]
    BY <2>1, <2>3
  <2> QED
    BY <2>1, <2>2, <2>4
<1> QED
  BY <1>5

(* A walk along the links of a queue is the queue.                          *)
LEMMA WalkIs ==
    ASSUME NEW link, NEW s \in Seq(Proc), Linked(link, s)
    PROVE  Walk(link, FirstOf(s)) = s
<1> DEFINE g == Path(link, FirstOf(s))
           met == {i \in 0..Cardinality(Proc) : g[i] # NoProc}
           n == Len(s)
<1>1. /\ n \in Nat /\ \A i \in 1..n : s[i] \in Proc /\ s[i] # NoProc
      /\ DOMAIN s = 1..n /\ s \in [1..n -> Proc]
  BY RunQueueAssumption
<1>2. \A i \in Nat : g[i] = IF i < n THEN s[i + 1] ELSE NoProc
  BY PathIs DEF Cells
<1>3. n <= Cardinality(Proc) /\ Cardinality(Proc) \in Nat
  <2>1. s \in Injection(1..n, Proc)
    BY <1>1 DEF Linked, Injection, IsInjective
  <2>2. IsFiniteSet(Proc)
    BY KMutexAssumption
  <2>3. Cardinality(1..n) = n
    BY <1>1, Counted
  <2> HIDE DEF n
  <2> QED
    BY <2>1, <2>2, <2>3, FS_Injection, FS_CardinalityType
<1>4. met = 0..(n - 1)
  <2> HIDE DEF g, n
  <2>1. ASSUME NEW i \in 0..Cardinality(Proc)
        PROVE  g[i] # NoProc <=> i < n
    BY <2>1, <1>1, <1>2 DEF n
  <2> QED
    BY <2>1, <1>1, <1>3
<1>5. Cardinality(met) = n
  <2> HIDE DEF met, n
  <2> QED
    BY <1>1, <1>4, Counted
<1>6. Walk(link, FirstOf(s)) = [i \in 1..n |-> g[i - 1]]
  <2> HIDE DEF n
  <2> QED
    BY <1>5 DEF Walk
<1>7. \A i \in 1..n : g[i - 1] = s[i]
  <2> HIDE DEF g
  <2> QED
    BY <1>1, <1>2
<1> HIDE DEF g, n
<1> QED
  BY <1>1, <1>6, <1>7

-----------------------------------------------------------------------------
(* The wait queues.                                                         *)

(* s is the queue between oldest and newest, and those in it are those     *)
(* that wait on m.                                                         *)
IsQueue(m, newest, oldest, link, on, s) ==
    /\ s \in Seq(Proc) /\ Linked(link, s)
    /\ oldest = FirstOf(s)
    /\ newest = IF s = <<>> THEN NoProc ELSE s[Len(s)]
    /\ \A p \in Proc : on[p] = m <=> \E i \in 1..Len(s) : s[i] = p

(* The queue waiter_pop will empty is the one waiter_push has filled.      *)
QueuesInv ==
    \A m \in Mutex :
        IsQueue(m, head[m], tail[m], wait_next, waiting_on, Chain(m))

(* Whoever waits is queued until it is given the mutex, which is not free  *)
(* in the meantime.                                                        *)
WaitersInv ==
    \A p \in Proc : InLock(p) =>
        /\ lock[mut[p]]
        /\ owner[mut[p]] = p => waiting_on[p] = NoWaiter
        /\ owner[mut[p]] # p => waiting_on[p] = mut[p]

(* A queue without its first entry.                                         *)
LEMMA Popped ==
    ASSUME NEW s \in Seq(Proc), s # <<>>
    PROVE  /\ Len(s) \in Nat /\ Len(s) > 0 /\ FirstOf(s) = s[1]
           /\ s[1] \in Proc /\ Head(s) = s[1]
           /\ Tail(s) \in Seq(Proc) /\ Len(Tail(s)) = Len(s) - 1
           /\ \A i \in 1..(Len(s) - 1) : Tail(s)[i] = s[i + 1]
           /\ Tail(s) = <<>> <=> Len(s) = 1
<1>1. Len(s) \in Nat /\ Len(s) > 0 /\ FirstOf(s) = s[1]
  BY EmptySeq DEF FirstOf
<1>2. Tail(s) \in Seq(Proc) /\ Len(Tail(s)) = Len(s) - 1
  BY <1>1, HeadTailProperties
<1>3. Tail(s) = <<>> <=> Len(s) = 1
  BY <1>1, <1>2, EmptySeq
<1> QED
  BY <1>1, <1>2, <1>3, HeadTailProperties

(* A queue with one more entry.                                             *)
LEMMA Pushed ==
    ASSUME NEW s \in Seq(Proc), NEW p \in Proc
    PROVE  /\ Len(s) \in Nat /\ (s = <<>> <=> Len(s) = 0)
           /\ \A i \in 1..Len(s) : s[i] \in Proc
           /\ Append(s, p) \in Seq(Proc) /\ Len(Append(s, p)) = Len(s) + 1
           /\ \A i \in 1..Len(s) : Append(s, p)[i] = s[i]
           /\ Append(s, p)[Len(s) + 1] = p
<1>1. Len(s) \in Nat /\ (s = <<>> <=> Len(s) = 0)
  BY EmptySeq
<1> QED
  BY <1>1, AppendProperties

(* waiter_push(m, p) appends p to the queue of m.                          *)
LEMMA PushAppends ==
    ASSUME ListTypeOK, NEW m \in Mutex, NEW p \in Proc, WaiterPush(m, p),
           waiting_on[p] = NoWaiter, wait_next[p] = NoProc, NEW s,
           IsQueue(m, head[m], tail[m], wait_next, waiting_on, s)
    PROVE  IsQueue(m, head'[m], tail'[m], wait_next', waiting_on',
                   Append(s, p))
<1> DEFINE n == Len(s)
           t == Append(s, p)
<1>0. /\ s \in Seq(Proc) /\ t \in Seq(Proc) /\ t # <<>> /\ Len(t) = n + 1
      /\ s = <<>> <=> n = 0
  <2>1. s \in Seq(Proc)
    BY DEF IsQueue
  <2>2. t \in Seq(Proc) /\ Len(t) = n + 1 /\ n \in Nat /\ (s = <<>> <=> n = 0)
    BY <2>1, Pushed
  <2> HIDE DEF t, n
  <2>3. t # <<>>
    BY <2>2, EmptySeq
  <2> QED
    BY <2>1, <2>2, <2>3
<1>1. /\ n \in Nat
      /\ \A i \in 1..n : s[i] \in Proc /\ s[i] # NoProc
      /\ \A i \in 1..n : t[i] = s[i]
      /\ t[n + 1] = p
  BY <1>0, Pushed, RunQueueAssumption
<1>2. /\ \A i, j \in 1..n : s[i] = s[j] => i = j
      /\ \A i \in 1..n : wait_next[s[i]] = IF i = n THEN NoProc ELSE s[i + 1]
  BY DEF IsQueue, Linked
<1>3. /\ head[m] = IF n = 0 THEN NoProc ELSE s[n]
      /\ tail[m] = IF n = 0 THEN NoProc ELSE s[1]
      /\ \A q \in Proc : waiting_on[q] = m <=> \E i \in 1..n : s[i] = q
  BY <1>0 DEF IsQueue, FirstOf
<1>8. \A i \in 1..n : s[i] # p
  BY <1>1, <1>3, KMutexAssumption
<1>9. /\ head[m] = NoProc => tail' = [tail EXCEPT ![m] = p]
                             /\ wait_next' = wait_next
      /\ head[m] # NoProc => wait_next' = [wait_next EXCEPT ![head[m]] = p]
                             /\ tail' = tail
      /\ head' = [head EXCEPT ![m] = p]
      /\ waiting_on' = [waiting_on EXCEPT ![p] = m]
  BY DEF WaiterPush
<1> HIDE DEF n, t
<1>4. head'[m] = t[n + 1] /\ tail'[m] = t[1]
  <2>1. CASE n = 0
    BY <2>1, <1>1, <1>3, <1>9 DEF ListTypeOK
  <2>2. CASE n # 0
    <3>1. 1 \in 1..n /\ n \in 1..n
      BY <2>2, <1>1
    <3>2. head[m] # NoProc
      BY <2>2, <3>1, <1>1, <1>3
    <3> QED
      BY <2>2, <3>1, <3>2, <1>1, <1>3, <1>9 DEF ListTypeOK
  <2> QED
    BY <2>1, <2>2
<1>5. \A q \in Proc : waiting_on'[q] = m <=> \E i \in 1..(n + 1) : t[i] = q
  <2>1. \A q \in Proc : waiting_on'[q] = m <=> q = p \/ waiting_on[q] = m
    BY <1>9 DEF ListTypeOK
  <2>2. \A i \in 1..(n + 1) : i \in 1..n \/ i = n + 1
    BY <1>1
  <2>3. 1..n \subseteq 1..(n + 1) /\ n + 1 \in 1..(n + 1)
    BY <1>1
  <2> QED
    BY <2>1, <2>2, <2>3, <1>1, <1>3
<1>6. \A i, j \in 1..(n + 1) : t[i] = t[j] => i = j
  <2> TAKE i, j \in 1..(n + 1)
  <2> HAVE t[i] = t[j]
  <2>1. (i \in 1..n \/ i = n + 1) /\ (j \in 1..n \/ j = n + 1)
    BY <1>1
  <2> QED
    BY <2>1, <1>1, <1>2, <1>8
<1>7. \A i \in 1..(n + 1) :
         wait_next'[t[i]] = IF i = n + 1 THEN NoProc ELSE t[i + 1]
  <2>2. CASE n = 0
    <3>1. wait_next' = wait_next /\ 1..(n + 1) = {1}
      BY <2>2, <1>3, <1>9
    <3> QED
      BY <3>1, <2>2, <1>1
  <2>3. CASE n # 0
    <3>1. 1 \in 1..n /\ n \in 1..n /\ n + 1 \in Nat
      BY <2>3, <1>1
    <3>2. head[m] = s[n] /\ s[n] \in Proc /\ s[n] # NoProc
      BY <2>3, <3>1, <1>1, <1>3
    <3>3. /\ wait_next'[s[n]] = p
          /\ \A q \in Proc : q # s[n] => wait_next'[q] = wait_next[q]
      BY <3>2, <1>9 DEF ListTypeOK
    <3>4. wait_next'[t[n + 1]] = NoProc
      BY <3>1, <3>2, <3>3, <1>1, <1>8
    <3>5. wait_next'[t[n]] = t[n + 1]
      BY <3>1, <3>3, <1>1
    <3>6. ASSUME NEW i \in 1..n, i # n
          PROVE  wait_next'[t[i]] = t[i + 1]
      <4>1. i + 1 \in 1..n /\ s[i] # s[n]
        BY <3>6, <3>1, <1>1, <1>2
      <4> QED
        BY <4>1, <3>6, <3>3, <1>1, <1>2
    <3>7. \A i \in 1..(n + 1) : (i \in 1..n /\ i # n + 1) \/ i = n + 1
      BY <1>1
    <3> QED
      BY <3>4, <3>5, <3>6, <3>7
  <2> QED
    BY <2>2, <2>3
<1> QED
  <2>1. t = Append(s, p)
    BY DEF t
  <2>2. Linked(wait_next', t)
    BY <1>0, <1>6, <1>7 DEF Linked
  <2> QED
    BY <2>1, <2>2, <1>0, <1>4, <1>5 DEF IsQueue, FirstOf

(* waiter_pop(m) takes the oldest process off.                             *)
LEMMA PopTails ==
    ASSUME ListTypeOK, NEW m \in Mutex, WaiterPop(m), tail[m] # NoProc, NEW s,
           IsQueue(m, head[m], tail[m], wait_next, waiting_on, s)
    PROVE  /\ s # <<>> /\ tail[m] = Head(s)
           /\ IsQueue(m, head'[m], tail'[m], wait_next', waiting_on', Tail(s))
<1> DEFINE n == Len(s)
           t == Tail(s)
           p == tail[m]
<1>1. s \in Seq(Proc) /\ s # <<>> /\ p = s[1] /\ Linked(wait_next, s)
  BY DEF IsQueue, FirstOf
<1>0. /\ p = Head(s) /\ t \in Seq(Proc) /\ Len(t) = n - 1
      /\ t = <<>> <=> n = 1
  BY <1>1, Popped
<1>2. /\ n \in Nat /\ n > 0 /\ p \in Proc
      /\ \A i \in 1..(n - 1) : t[i] = s[i + 1] /\ i + 1 \in 1..n
      /\ \A i \in 1..n : s[i] \in Proc /\ s[i] # NoProc
      /\ 1 \in 1..n /\ n \in 1..n
  BY <1>1, Popped, RunQueueAssumption
<1>3. /\ \A i, j \in 1..n : s[i] = s[j] => i = j
      /\ \A i \in 1..n : wait_next[s[i]] = IF i = n THEN NoProc ELSE s[i + 1]
      /\ head[m] = s[n]
      /\ \A q \in Proc : waiting_on[q] = m <=> \E i \in 1..n : s[i] = q
  BY <1>1 DEF IsQueue, Linked
<1>4. /\ tail'[m] = wait_next[p]
      /\ head'[m] = IF wait_next[p] = NoProc THEN NoProc ELSE head[m]
      /\ \A q \in Proc \ {p} : /\ wait_next'[q] = wait_next[q]
                               /\ waiting_on'[q] = waiting_on[q]
      /\ waiting_on'[p] = NoWaiter
  BY <1>2 DEF WaiterPop, ListTypeOK
<1> HIDE DEF n, t, p
<1>5. wait_next[p] = IF n = 1 THEN NoProc ELSE t[1]
  <2>1. wait_next[p] = IF 1 = n THEN NoProc ELSE s[1 + 1]
    <3>1. p = s[1]
      BY <1>1
    <3> QED
      BY <3>1, <1>2, <1>3
  <2>2. n # 1 => 1 \in 1..(n - 1)
    BY <1>2
  <2>3. n # 1 => t[1] = s[1 + 1]
    BY <2>2, <1>2
  <2> QED
    BY <2>1, <2>3
<1>6. tail'[m] = FirstOf(t)
  BY <1>0, <1>4, <1>5 DEF FirstOf
<1>7. head'[m] = IF t = <<>> THEN NoProc ELSE t[n - 1]
  <2>1. CASE n = 1
    BY <2>1, <1>0, <1>4, <1>5
  <2>2. CASE n # 1
    <3>1. 1 \in 1..(n - 1) /\ n - 1 \in 1..(n - 1)
      BY <2>2, <1>2
    <3>2. t[1] # NoProc /\ t[n - 1] = s[n]
      BY <3>1, <1>2
    <3>3. t # <<>>
      BY <2>2, <1>0
    <3>4. head'[m] = head[m] /\ head[m] = s[n]
      BY <2>2, <3>2, <1>3, <1>4, <1>5
    <3> QED
      BY <3>2, <3>3, <3>4
  <2> QED
    BY <2>1, <2>2
<1>8. \A i \in 1..(n - 1) : t[i] \in Proc \ {p}
  BY <1>1, <1>2, <1>3
<1>9. Linked(wait_next', t)
  <2>1. \A i, j \in 1..(n - 1) : t[i] = t[j] => i = j
    BY <1>2, <1>3
  <2>2. ASSUME NEW i \in 1..(n - 1)
        PROVE  wait_next'[t[i]] = IF i = n - 1 THEN NoProc ELSE t[i + 1]
    <3>1. wait_next'[t[i]] = wait_next[s[i + 1]]
      BY <1>2, <1>4, <1>8
    <3>2. wait_next[s[i + 1]] = IF i + 1 = n THEN NoProc ELSE s[(i + 1) + 1]
      BY <1>2, <1>3
    <3>3. i + 1 = n <=> i = n - 1
      BY <1>2
    <3>4. i # n - 1 => i + 1 \in 1..(n - 1)
      BY <1>2
    <3>5. i # n - 1 => t[i + 1] = s[(i + 1) + 1]
      BY <3>4, <1>2
    <3> QED
      BY <3>1, <3>2, <3>3, <3>5
  <2> QED
    BY <2>1, <2>2, <1>0 DEF Linked
<1>10. \A q \in Proc : waiting_on'[q] = m <=> \E i \in 1..(n - 1) : t[i] = q
  <2>1. waiting_on'[p] # m
    BY <1>4, KMutexAssumption
  <2>2. ASSUME NEW q \in Proc \ {p}
        PROVE  waiting_on'[q] = m <=> \E i \in 1..(n - 1) : t[i] = q
    <3>1. waiting_on'[q] = m <=> \E i \in 1..n : s[i] = q
      BY <1>3, <1>4
    <3>2. ASSUME NEW i \in 1..n, s[i] = q
          PROVE  \E j \in 1..(n - 1) : t[j] = q
      <4>1. i # 1
        BY <3>2, <1>1
      <4>2. i - 1 \in 1..(n - 1) /\ (i - 1) + 1 = i
        BY <4>1, <1>2
      <4> QED
        BY <4>2, <3>2, <1>2
    <3> QED
      BY <3>1, <3>2, <1>2
  <2> QED
    BY <2>1, <2>2, <1>8
<1>11. Len(t) = n - 1 /\ t \in Seq(Proc)
  BY <1>0
<1>12. IsQueue(m, head'[m], tail'[m], wait_next', waiting_on', t)
  BY <1>11, <1>6, <1>7, <1>9, <1>10 DEF IsQueue
<1> QED
  BY <1>0, <1>1, <1>12 DEF t, p

(* The walk from the oldest entry of a waiter_t meets what is queued on it. *)
LEMMA ChainIs ==
    ASSUME NEW m, NEW newest, NEW oldest, NEW link, NEW on, NEW s,
           IsQueue(m, newest, oldest, link, on, s)
    PROVE  Walk(link, oldest) = s
BY WalkIs DEF IsQueue

(* A queue is left alone by what happens to those that are not in it.      *)
LEMMA OtherQueue ==
    ASSUME NEW m, NEW newest, NEW oldest, NEW link, NEW on, NEW s,
           IsQueue(m, newest, oldest, link, on, s),
           NEW link2, NEW on2,
           \A q \in Proc : on[q] = m => link2[q] = link[q],
           \A q \in Proc : on2[q] = m <=> on[q] = m
    PROVE  IsQueue(m, newest, oldest, link2, on2, s)
<1>1. s \in Seq(Proc) /\ \A i \in 1..Len(s) : s[i] \in Proc /\ on[s[i]] = m
  BY DEF IsQueue
<1>2. \A i \in 1..Len(s) : link2[s[i]] = link[s[i]]
  BY <1>1
<1>3. Linked(link2, s)
  BY <1>2 DEF IsQueue, Linked
<1> QED
  BY <1>3 DEF IsQueue

(* What does not touch the lists leaves the queues alone.                   *)
LEMMA QueuesSame ==
    ASSUME QueuesInv, UNCHANGED listVars
    PROVE  QueuesInv' /\ \A m \in Mutex : Chain(m)' = Chain(m)
BY DEF QueuesInv, Chain, listVars

(* waiter_push appends to one queue and leaves the others alone.            *)
LEMMA QueuesPush ==
    ASSUME ListTypeOK, EndsInv, QueuesInv,
           NEW m \in Mutex, NEW p \in Proc, WaiterPush(m, p),
           waiting_on[p] = NoWaiter, wait_next[p] = NoProc
    PROVE  /\ QueuesInv'
           /\ Chain(m)' = Append(Chain(m), p)
           /\ \A o \in Mutex \ {m} : Chain(o)' = Chain(o)
<1>1. IsQueue(m, head'[m], tail'[m], wait_next', waiting_on',
              Append(Chain(m), p))
  BY PushAppends DEF QueuesInv
<1>2. ASSUME NEW o \in Mutex \ {m}
      PROVE  IsQueue(o, head'[o], tail'[o], wait_next', waiting_on', Chain(o))
  <2>1. head'[o] = head[o] /\ tail'[o] = tail[o]
    BY DEF WaiterPush, ListTypeOK
  <2>2. \A q \in Proc : waiting_on'[q] = o <=> waiting_on[q] = o
    BY KMutexAssumption DEF WaiterPush, ListTypeOK
  <2>3. \A q \in Proc : waiting_on[q] = o => wait_next'[q] = wait_next[q]
    BY DEF WaiterPush, ListTypeOK, EndsInv
  <2> QED
    BY <2>1, <2>2, <2>3, OtherQueue DEF QueuesInv
<1>3. Chain(m)' = Append(Chain(m), p)
  BY <1>1, ChainIs DEF Chain
<1>4. \A o \in Mutex \ {m} : Chain(o)' = Chain(o)
  BY <1>2, ChainIs DEF Chain
<1> QED
  BY <1>1, <1>2, <1>3, <1>4 DEF QueuesInv

(* waiter_pop takes the first entry off one queue and leaves the others     *)
(* alone.                                                                   *)
LEMMA QueuesPop ==
    ASSUME ListTypeOK, EndsInv, QueuesInv,
           NEW m \in Mutex, WaiterPop(m), tail[m] # NoProc
    PROVE  /\ QueuesInv'
           /\ Chain(m) # <<>> /\ tail[m] = Head(Chain(m))
           /\ Chain(m)' = Tail(Chain(m))
           /\ \A o \in Mutex \ {m} : Chain(o)' = Chain(o)
<1>1. /\ Chain(m) # <<>> /\ tail[m] = Head(Chain(m))
      /\ IsQueue(m, head'[m], tail'[m], wait_next', waiting_on',
                 Tail(Chain(m)))
  BY PopTails DEF QueuesInv
<1>2. ASSUME NEW o \in Mutex \ {m}
      PROVE  IsQueue(o, head'[o], tail'[o], wait_next', waiting_on', Chain(o))
  <2>1. head'[o] = head[o] /\ tail'[o] = tail[o]
    BY DEF WaiterPop, ListTypeOK
  <2>2. waiting_on[tail[m]] = m /\ tail[m] \in Proc
    BY DEF EndsInv, ListTypeOK
  <2>3. \A q \in Proc : waiting_on'[q] = o <=> waiting_on[q] = o
    BY <2>2, KMutexAssumption DEF WaiterPop, ListTypeOK
  <2>4. \A q \in Proc : waiting_on[q] = o => wait_next'[q] = wait_next[q]
    BY <2>2 DEF WaiterPop, ListTypeOK
  <2> QED
    BY <2>1, <2>3, <2>4, OtherQueue DEF QueuesInv
<1>3. Chain(m)' = Tail(Chain(m))
  BY <1>1, ChainIs DEF Chain
<1>4. \A o \in Mutex \ {m} : Chain(o)' = Chain(o)
  BY <1>2, ChainIs DEF Chain
<1> QED
  BY <1>1, <1>2, <1>3, <1>4 DEF QueuesInv

(* Nobody is queued on a mutex that is free.                               *)
LEMMA FreeIsUnqueued ==
    ASSUME IInv, QueuesInv, WaitersInv, NEW m \in Mutex, ~lock[m]
    PROVE  /\ Chain(m) = <<>>
           /\ \A p \in Proc : ~(InLock(p) /\ mut[p] = m)
<1>1. \A p \in Proc : ~(InLock(p) /\ mut[p] = m)
  BY DEF WaitersInv
<1>2. \A p \in Proc : waiting_on[p] # m
  BY <1>1, KMutexAssumption DEF IInv, QueuedWait
<1>3. /\ Chain(m) \in Seq(Proc) /\ Len(Chain(m)) \in Nat
      /\ \A i \in 1..Len(Chain(m)) : Chain(m)[i] \in Proc
      /\ \A p \in Proc : waiting_on[p] = m <=>
                             \E i \in 1..Len(Chain(m)) : Chain(m)[i] = p
  BY DEF QueuesInv, IsQueue
<1>4. Len(Chain(m)) = 0
  <2>1. 1 \notin 1..Len(Chain(m))
    BY <1>2, <1>3
  <2> QED
    BY <2>1, <1>3
<1> QED
  BY <1>1, <1>3, <1>4, EmptySeq

(* At first the queues are empty and nobody waits.                          *)
LEMMA QueuesStart == Init => QueuesInv /\ WaitersInv
<1> SUFFICES ASSUME Init PROVE QueuesInv /\ WaitersInv
  OBVIOUS
<1>1. Linked(wait_next, <<>>) /\ <<>> \in Seq(Proc) /\ FirstOf(<<>>) = NoProc
  BY DEF Linked, FirstOf
<1>2. ASSUME NEW m \in Mutex
      PROVE  IsQueue(m, head[m], tail[m], wait_next, waiting_on, <<>>)
  BY <1>1, KMutexAssumption DEF IsQueue, Init, ListInit
<1>3. QueuesInv
  BY <1>2, ChainIs DEF QueuesInv, Chain
<1> QED
  BY <1>3 DEF Init, WaitersInv, InLock

(* Every step keeps the queues.                                             *)
LEMMA QueuesStep ==
    ASSUME IInv, QueuesInv, [Next]_vars
    PROVE  QueuesInv'
<1>1. ListTypeOK /\ EndsInv
  BY DEF IInv, TypeOK
<1>2. ASSUME NEW m \in Mutex, LockPush(m)
      PROVE  QueuesInv'
  <2>1. /\ current \in Proc /\ WaiterPush(m, current) /\ ~InLock(current)
    BY <1>2 DEF LockPush, MayLock, Running, InLock
  <2>2. waiting_on[current] = NoWaiter
    BY <2>1 DEF IInv, QueuedWait
  <2>3. wait_next[current] = NoProc
    BY <2>1, <2>2 DEF IInv, LinksInv
  <2> QED
    BY <1>1, <2>1, <2>2, <2>3, QueuesPush
<1>3. ASSUME NEW m \in Mutex, UnlockPop(m)
      PROVE  QueuesInv'
  BY <1>1, <1>3, QueuesPop DEF UnlockPop
<1>4. CASE UNCHANGED listVars
  BY <1>4, QueuesSame
<1> QED
  BY <1>2, <1>3, <1>4 DEF Next, vars, Tick, LockBlock, LockReturn, UnlockWake,
     LockAgain, LockFree, UnlockNested, UnlockFree

(* No step loses a waiter.                                                  *)
LEMMA WaitersStep ==
    ASSUME IInv, QueuesInv, WaitersInv, [Next]_vars
    PROVE  WaitersInv'
<1> USE KMutexAssumption, RunQueueAssumption
<1>1. CASE Tick \/ UNCHANGED vars
  BY <1>1 DEF Tick, vars, mutexVars, listVars, threadVars, WaitersInv, InLock
<1>2. CASE LockBlock
  BY <1>2 DEF LockBlock, mutexVars, listVars, Goto, WaitersInv, InLock, IInv,
     TypeOK
<1>3. CASE LockReturn
  BY <1>3 DEF LockReturn, schedVars, mutexVars, listVars, Goto, WaitersInv,
     InLock, IInv, TypeOK
<1>4. CASE UnlockWake
  BY <1>4 DEF UnlockWake, mutexVars, listVars, Goto, WaitersInv, InLock, IInv,
     TypeOK
<1>5. ASSUME NEW m \in Mutex, LockAgain(m) \/ UnlockNested(m)
      PROVE  WaitersInv'
  BY <1>5 DEF LockAgain, UnlockNested, schedVars, listVars, WaitersInv, InLock
<1>6. ASSUME NEW m \in Mutex, LockFree(m)
      PROVE  WaitersInv'
  <2>1. \A p \in Proc : InLock(p) => mut[p] # m /\ mut[p] \in Mutex
    BY <1>6, FreeIsUnqueued DEF LockFree, IInv, WaitersOutside
  <2> QED
    BY <1>6, <2>1 DEF LockFree, listVars, WaitersInv, InLock, IInv, TypeOK
<1>7. ASSUME NEW m \in Mutex, LockPush(m)
      PROVE  WaitersInv'
  BY <1>7 DEF LockPush, MayLock, Running, mutexVars, Goto, WaiterPush,
     WaitersInv, InLock, IInv, TypeOK, ListTypeOK
<1>8. ASSUME NEW m \in Mutex, UnlockFree(m)
      PROVE  WaitersInv'
  <2>1. owner[m] = current /\ tail[m] = NoProc /\ ~InLock(current)
    BY <1>8 DEF UnlockFree, MayUnlock, Running, InLock
  <2>2. \A p \in Proc : waiting_on[p] # m
    <3>1. /\ Chain(m) \in Seq(Proc) /\ tail[m] = FirstOf(Chain(m))
          /\ \A p \in Proc : waiting_on[p] = m <=>
                                 \E i \in 1..Len(Chain(m)) : Chain(m)[i] = p
      BY DEF QueuesInv, IsQueue
    <3>2. Chain(m) = <<>>
      BY <2>1, <3>1, Popped
    <3> QED
      BY <3>1, <3>2
  <2>3. \A p \in Proc : InLock(p) => mut[p] # m /\ mut[p] \in Mutex
    BY <2>1, <2>2 DEF WaitersInv, IInv, WaitersOutside
  <2> QED
    BY <1>8, <2>3 DEF UnlockFree, listVars, WaitersInv, InLock, IInv, TypeOK
<1>9. ASSUME NEW m \in Mutex, UnlockPop(m)
      PROVE  WaitersInv'
  <2> DEFINE n == tail[m]
  <2>1. /\ owner[m] = current /\ n # NoProc /\ ~InLock(current)
        /\ current \in Proc
    BY <1>9 DEF UnlockPop, MayUnlock, Running, InLock
  <2>2. n \in Proc /\ waiting_on[n] = m /\ InLock(n) /\ mut[n] = m
    BY <2>1 DEF IInv, EndsInv, QueuedWait, TypeOK, ListTypeOK
  <2>3. /\ lock' = lock /\ mut' = mut /\ owner' = [owner EXCEPT ![m] = n]
        /\ waiting_on' = [waiting_on EXCEPT ![n] = NoWaiter]
        /\ pc' = [pc EXCEPT ![current] = "handover"]
    BY <1>9 DEF UnlockPop, WaiterPop, Goto
  <2>4. \A p \in Proc : InLock(p)' => InLock(p)
    BY <2>1, <2>3 DEF InLock, IInv, TypeOK
  <2> QED
    BY <2>1, <2>2, <2>3, <2>4 DEF WaitersInv, IInv, TypeOK, ListTypeOK, InLock,
       WaitersOutside, QueuedWait
<1> QED
  BY <1>1, <1>2, <1>3, <1>4, <1>5, <1>6, <1>7, <1>8, <1>9 DEF Next

(* The lists are queues, and nobody is missing from them.                  *)
LEMMA Queues == Spec => [](IInv /\ QueuesInv /\ WaitersInv)
<1>1. Init => IInv /\ QueuesInv /\ WaitersInv
  BY InitIInv, QueuesStart
<1>2. IInv /\ IInv' /\ QueuesInv /\ WaitersInv /\ [Next]_vars
        => QueuesInv' /\ WaitersInv'
  BY QueuesStep, WaitersStep
<1> QED BY <1>1, <1>2, Invariance, PTL DEF Spec

(* A process inside mutex_lock is queued exactly once on a mutex that is   *)
(* not free, or has been given it, however waiter_push and waiter_pop have *)
(* relinked the lists.                                                     *)
THEOREM NobodyStranded == Spec => []NoStrandedWaiter
<1>1. ASSUME IInv, QueuesInv, WaitersInv
      PROVE  NoStrandedWaiter
  <2> SUFFICES ASSUME NEW p \in Proc, InLock(p)
               PROVE  LET m == mut[p]
                          places == {i \in DOMAIN Chain(m) : Chain(m)[i] = p}
                      IN  /\ lock[m]
                          /\ Cardinality(places) =
                                 IF owner[m] = p THEN 0 ELSE 1
    BY DEF NoStrandedWaiter, InLock
  <2> DEFINE m == mut[p]
             places == {i \in DOMAIN Chain(m) : Chain(m)[i] = p}
  <2>1. /\ m \in Mutex /\ lock[m]
        /\ owner[m] = p => waiting_on[p] = NoWaiter
        /\ owner[m] # p => waiting_on[p] = m
    BY <1>1 DEF WaitersInv, IInv, WaitersOutside
  <2>2. /\ Chain(m) \in Seq(Proc) /\ DOMAIN Chain(m) = 1..Len(Chain(m))
        /\ \A i, j \in DOMAIN Chain(m) : Chain(m)[i] = Chain(m)[j] => i = j
        /\ waiting_on[p] = m <=> \E i \in DOMAIN Chain(m) : Chain(m)[i] = p
    BY <1>1, <2>1 DEF QueuesInv, IsQueue, Linked
  <2> HIDE DEF m
  <2>3. CASE owner[m] = p
    <3>1. places = {}
      BY <2>1, <2>2, <2>3, KMutexAssumption
    <3> QED
      BY <3>1, <2>1, <2>3, FS_EmptySet DEF m
  <2>4. CASE owner[m] # p
    <3>1. PICK i \in DOMAIN Chain(m) : Chain(m)[i] = p
      BY <2>1, <2>2, <2>4
    <3>2. places = {i}
      BY <3>1, <2>2
    <3>3. Cardinality(places) = 1
      BY <3>2, FS_Singleton
    <3> QED
      BY <3>3, <2>1, <2>4 DEF m
  <2> QED
    BY <2>3, <2>4
<1> QED BY <1>1, Queues, PTL

-----------------------------------------------------------------------------
(* The mutex of MutexAbs.                                                   *)

Holders == [m \in Mutex |-> IF lock[m] THEN owner[m] ELSE NoProc]
Chains  == [m \in Mutex |-> Chain(m)]
Insides == [m \in Mutex |-> {p \in Proc : held[p][m] > 0}]

(* Who is inside of m: its owner, or nobody. *)
LEMMA InsideIs ==
    ASSUME IInv, NEW m \in Mutex
    PROVE  /\ \A p \in Proc : /\ held[p][m] \in Nat
                              /\ held[p][m] > 0 => lock[m] /\ owner[m] = p
           /\ ~lock[m] => Insides[m] = {}
           /\ lock[m] /\ held[owner[m]][m] > 0 /\ owner[m] \in Proc
                => Insides[m] = {owner[m]}
           /\ lock[m] /\ held[owner[m]][m] = 0 => Insides[m] = {}
<1>1. \A p \in Proc : /\ held[p][m] \in Nat
                      /\ held[p][m] > 0 => lock[m] /\ owner[m] = p
  BY KMutexAssumption DEF IInv, TypeOK, HeldIsOwned
<1>2. Insides[m] = {p \in Proc : held[p][m] > 0}
  BY DEF Insides
<1> QED
  BY <1>1, <1>2

(* The steps of MutexAbs are taken where a process gets past a lock.       *)
LEMMA LockFreeRefines ==
    ASSUME IInv, IInv', QueuesInv, WaitersInv, NEW m \in Mutex, LockFree(m),
           NEW p \in Proc, p = current
    PROVE  Abs!Acquire(p, m)
<1>1. /\ current \in Proc /\ ~lock[m] /\ UNCHANGED listVars
      /\ lock' = [lock EXCEPT ![m] = TRUE]
      /\ owner' = [owner EXCEPT ![m] = current]
      /\ held' = [held EXCEPT ![current][m] = @ + 1]
      /\ lock \in [Mutex -> BOOLEAN]
      /\ owner \in [Mutex -> Proc \cup {NoProc}]
      /\ held \in [Proc -> [Mutex -> 0..MaxDepth]] /\ MaxDepth \in Nat
  BY KMutexAssumption
     DEF LockFree, MayLock, Running, Entered, IInv, TypeOK
<1>2. Holders[m] = NoProc /\ Chains[m] = <<>> /\ Chains' = Chains
  BY <1>1, FreeIsUnqueued, QueuesSame DEF Holders, Chains
<1>3. Holders' = [Holders EXCEPT ![m] = current]
  BY <1>1 DEF Holders
<1>4. \A q \in Proc, o \in Mutex :
         held'[q][o] > 0 <=> held[q][o] > 0 \/ (q = current /\ o = m)
  BY <1>1
<1>5. \A q \in Proc : ~(held[q][m] > 0)
  BY <1>1, InsideIs
<1>6. Insides' = [Insides EXCEPT ![m] = {current}]
  <2>1. \A o \in Mutex \ {m} : Insides'[o] = Insides[o]
    BY <1>1, <1>4, <1>5 DEF Insides
  <2>2. Insides'[m] = {current}
    BY <1>1, <1>4, <1>5 DEF Insides
  <2> QED
    BY <2>1, <2>2 DEF Insides
<1> QED
  BY <1>2, <1>3, <1>6 DEF Abs!Acquire, Holders, Chains, Insides

(* To queue is to wait for the mutex.                                       *)
LEMMA LockPushRefines ==
    ASSUME IInv, QueuesInv, WaitersInv, NEW m \in Mutex, LockPush(m),
           NEW p \in Proc, p = current
    PROVE  Abs!Wait(p, m)
<1>1. /\ current \in Proc /\ lock[m] /\ owner[m] # current /\ ~InLock(current)
      /\ UNCHANGED <<lock, owner, held>> /\ WaiterPush(m, current)
      /\ ListTypeOK /\ EndsInv
  BY DEF LockPush, MayLock, Running, InLock, mutexVars, IInv, TypeOK
<1>2. Holders[m] = owner[m] /\ owner[m] \in Proc
  BY <1>1 DEF Holders, IInv, OwnerInv
<1>3. waiting_on[current] = NoWaiter /\ wait_next[current] = NoProc
  BY <1>1 DEF IInv, QueuedWait, LinksInv
<1>4. \A i \in DOMAIN Chains[m] : Chains[m][i] # current
  BY <1>1, <1>3, KMutexAssumption DEF Chains, QueuesInv, IsQueue
<1>5. /\ Chain(m)' = Append(Chain(m), current)
      /\ \A o \in Mutex \ {m} : Chain(o)' = Chain(o)
  BY <1>1, <1>3, QueuesPush
<1>6. Chains' = [Chains EXCEPT ![m] = Append(@, current)]
  BY <1>5 DEF Chains
<1>7. Holders' = Holders /\ Insides' = Insides
  BY <1>1 DEF Holders, Insides
<1> QED
  BY <1>1, <1>2, <1>4, <1>6, <1>7, RunQueueAssumption
     DEF Abs!Wait, Holders, Chains, Insides

(* To return from mutex_lock after a handover is to enter.                  *)
LEMMA LockReturnRefines ==
    ASSUME IInv, LockReturn, QueuesInv,
           NEW p \in Proc, p = current, NEW m \in Mutex, m = mut[current]
    PROVE  Abs!Enter(p, m)
<1>1. /\ current \in Proc /\ held[current][m] = 0
      /\ lock[m] /\ owner[m] = current
      /\ UNCHANGED <<lock, owner>> /\ UNCHANGED listVars
      /\ held' = [held EXCEPT ![current][m] = @ + 1]
      /\ held \in [Proc -> [Mutex -> 0..MaxDepth]] /\ MaxDepth \in Nat
  BY KMutexAssumption DEF LockReturn, Entered, mutexVars, IInv, TypeOK,
     WaitersOutside, ReturnInv, CurrentReady, Granted, InLock
<1>2. Holders[m] = current /\ Insides[m] = {}
  BY <1>1, InsideIs DEF Holders
<1>3. Holders' = Holders /\ Chains' = Chains
  BY <1>1, QueuesSame DEF Holders, Chains
<1>4. \A q \in Proc, o \in Mutex :
         held'[q][o] > 0 <=> held[q][o] > 0 \/ (q = current /\ o = m)
  BY <1>1
<1>5. \A q \in Proc : ~(held[q][m] > 0)
  BY <1>1, <1>2 DEF Insides
<1>6. Insides' = [Insides EXCEPT ![m] = {current}]
  <2>1. \A o \in Mutex \ {m} : Insides'[o] = Insides[o]
    BY <1>1, <1>4, <1>5 DEF Insides
  <2>2. Insides'[m] = {current}
    BY <1>1, <1>4, <1>5 DEF Insides
  <2> QED
    BY <2>1, <2>2 DEF Insides
<1> QED
  BY <1>2, <1>3, <1>6 DEF Abs!Enter, Holders, Chains, Insides

(* The last unlock of a mutex nobody waits for.                            *)
LEMMA UnlockFreeRefines ==
    ASSUME IInv, QueuesInv, NEW m \in Mutex, UnlockFree(m),
           NEW p \in Proc, p = current
    PROVE  Abs!Release(p, m)
<1>1. /\ current \in Proc /\ owner[m] = current /\ held[current][m] > 0
      /\ tail[m] = NoProc /\ count[m] <= 1
      /\ lock' = [lock EXCEPT ![m] = FALSE] /\ owner' = owner
      /\ UNCHANGED listVars /\ held' = [held EXCEPT ![current][m] = @ - 1]
      /\ lock \in [Mutex -> BOOLEAN]
      /\ held \in [Proc -> [Mutex -> 0..MaxDepth]] /\ MaxDepth \in Nat
  BY KMutexAssumption
     DEF UnlockFree, MayUnlock, Running, Left, IInv, TypeOK
<1>2. lock[m] /\ held[current][m] = 1
  BY <1>1 DEF IInv, HeldIsOwned
<1>3. Insides[m] = {current} /\ Holders[m] = current
  BY <1>1, <1>2, InsideIs DEF Holders
<1>4. Chains[m] = <<>> /\ Chains' = Chains
  <2>1. Chain(m) \in Seq(Proc) /\ tail[m] = FirstOf(Chain(m))
    BY DEF QueuesInv, IsQueue
  <2>2. Chain(m) = <<>>
    BY <1>1, <2>1, Popped, RunQueueAssumption
  <2> QED
    BY <2>2, <1>1, QueuesSame DEF Chains
<1>5. \A q \in Proc, o \in Mutex :
         held'[q][o] > 0 <=> held[q][o] > 0 /\ ~(q = current /\ o = m)
  BY <1>1, <1>2
<1>6. \A q \in Proc : held[q][m] > 0 => q = current
  BY <1>1, <1>2, InsideIs
<1>7. Insides' = [Insides EXCEPT ![m] = {}]
  <2>1. \A o \in Mutex \ {m} : Insides'[o] = Insides[o]
    BY <1>1, <1>5, <1>6 DEF Insides
  <2>2. Insides'[m] = {}
    BY <1>1, <1>5, <1>6 DEF Insides
  <2> QED
    BY <2>1, <2>2 DEF Insides
<1>8. Holders' = [Holders EXCEPT ![m] = NoProc]
  BY <1>1 DEF Holders
<1> QED
  BY <1>3, <1>4, <1>7, <1>8 DEF Abs!Release, Holders, Chains, Insides

(* A handover: the mutex goes to the head of the queue.                    *)
LEMMA UnlockPopRefines ==
    ASSUME IInv, QueuesInv, NEW m \in Mutex, UnlockPop(m),
           NEW p \in Proc, p = current
    PROVE  Abs!Release(p, m)
<1>1. /\ current \in Proc /\ owner[m] = current /\ held[current][m] > 0
      /\ tail[m] # NoProc /\ count[m] <= 1
      /\ owner' = [owner EXCEPT ![m] = tail[m]] /\ lock' = lock
      /\ WaiterPop(m) /\ held' = [held EXCEPT ![current][m] = @ - 1]
      /\ owner \in [Mutex -> Proc \cup {NoProc}]
      /\ held \in [Proc -> [Mutex -> 0..MaxDepth]] /\ MaxDepth \in Nat
      /\ ListTypeOK /\ EndsInv
  BY KMutexAssumption
     DEF UnlockPop, MayUnlock, Running, Left, IInv, TypeOK
<1>2. lock[m] /\ held[current][m] = 1
  BY <1>1 DEF IInv, HeldIsOwned
<1>3. Insides[m] = {current} /\ Holders[m] = current
  BY <1>1, <1>2, InsideIs DEF Holders
<1>4. /\ Chain(m) # <<>> /\ tail[m] = Head(Chain(m))
      /\ Chain(m)' = Tail(Chain(m))
      /\ \A o \in Mutex \ {m} : Chain(o)' = Chain(o)
  BY <1>1, QueuesPop
<1>5. /\ Chains[m] # <<>> /\ Head(Chains[m]) = tail[m]
      /\ Chains' = [Chains EXCEPT ![m] = Tail(@)]
  BY <1>4 DEF Chains
<1>6. \A q \in Proc, o \in Mutex :
         held'[q][o] > 0 <=> held[q][o] > 0 /\ ~(q = current /\ o = m)
  BY <1>1, <1>2
<1>7. \A q \in Proc : held[q][m] > 0 => q = current
  BY <1>1, <1>2, InsideIs
<1>8. Insides' = [Insides EXCEPT ![m] = {}]
  <2>1. \A o \in Mutex \ {m} : Insides'[o] = Insides[o]
    BY <1>1, <1>6, <1>7 DEF Insides
  <2>2. Insides'[m] = {}
    BY <1>1, <1>6, <1>7 DEF Insides
  <2> QED
    BY <2>1, <2>2 DEF Insides
<1>9. Holders' = [Holders EXCEPT ![m] = Head(Chains[m])]
  BY <1>1, <1>2, <1>5 DEF Holders
<1> QED
  BY <1>3, <1>5, <1>8, <1>9 DEF Abs!Release, Holders, Chains, Insides

(* Nested calls and the steps of the scheduler are not seen.               *)
LEMMA NestedRefines ==
    ASSUME IInv, QueuesInv, NEW m \in Mutex, LockAgain(m) \/ UnlockNested(m)
    PROVE  UNCHANGED Abs!absVars
<1>1. /\ current \in Proc /\ lock[m] /\ owner[m] = current /\ ~InLock(current)
      /\ UNCHANGED <<lock, owner>> /\ UNCHANGED listVars
      /\ \/ held' = [held EXCEPT ![current][m] = @ + 1]
         \/ /\ held' = [held EXCEPT ![current][m] = @ - 1]
            /\ count[m] > 1 /\ held[current][m] > 0
      /\ held \in [Proc -> [Mutex -> 0..MaxDepth]] /\ MaxDepth \in Nat
  BY KMutexAssumption
     DEF LockAgain, MayLock, UnlockNested, MayUnlock, Running, Entered, Left,
         HeldIsOwned, InLock, IInv, TypeOK
<1>2. held[current][m] > 0 /\ count[m] = held[current][m]
  BY <1>1 DEF IInv, OwnerInv, HeldIsOwned
<1>3. \A p \in Proc, o \in Mutex : held'[p][o] > 0 <=> held[p][o] > 0
  BY <1>1, <1>2
<1>4. Holders' = Holders /\ Chains' = Chains /\ Insides' = Insides
  BY <1>1, <1>3, QueuesSame DEF Holders, Chains, Insides
<1> QED
  BY <1>4 DEF Abs!absVars, Holders, Chains, Insides

(* The promise does not see the scheduler.                                  *)
LEMMA SchedulerRefines ==
    ASSUME QueuesInv, Tick \/ LockBlock \/ UnlockWake \/ UNCHANGED vars
    PROVE  UNCHANGED Abs!absVars
<1>1. UNCHANGED <<lock, owner, held>> /\ UNCHANGED listVars
  BY DEF Tick, LockBlock, UnlockWake, vars, mutexVars, threadVars
<1>2. Holders' = Holders /\ Chains' = Chains /\ Insides' = Insides
  BY <1>1, QueuesSame DEF Holders, Chains, Insides
<1> QED
  BY <1>2 DEF Abs!absVars, Holders, Chains, Insides

(* kernel/lock.c hands every mutex from its holder to whoever has waited   *)
(* longest, for any number of processes and mutexes.                       *)
THEOREM MutexRefines == Spec => ImplementsMutex
<1>1. Init => Abs!Init
  <2> SUFFICES ASSUME Init PROVE Abs!Init
    OBVIOUS
  <2>1. QueuesInv
    BY QueuesStart
  <2>2. \A m \in Mutex : Chain(m) = <<>>
    BY <2>1, InitIInv, QueuesStart, FreeIsUnqueued DEF Init
  <2>3. \A m \in Mutex : {p \in Proc : held[p][m] > 0} = {}
    BY DEF Init
  <2> QED
    BY <2>2, <2>3 DEF Abs!Init, Init
<1>2. IInv /\ IInv' /\ QueuesInv /\ WaitersInv /\ [Next]_vars
        => [Abs!Next]_(Abs!absVars)
  <2> SUFFICES ASSUME IInv, IInv', QueuesInv, WaitersInv, [Next]_vars
               PROVE  [Abs!Next]_(Abs!absVars)
    OBVIOUS
  <2>1. CASE Tick \/ LockBlock \/ UnlockWake \/ UNCHANGED vars
    BY <2>1, SchedulerRefines
  <2>2. CASE LockReturn
    <3>1. current \in Proc /\ mut[current] \in Mutex
      BY <2>2 DEF LockReturn, IInv, WaitersOutside, InLock
    <3>2. PICK p \in Proc, m \in Mutex : p = current /\ m = mut[current]
      BY <3>1
    <3>3. Abs!Enter(p, m)
      BY <2>2, <3>2, LockReturnRefines
    <3> QED
      BY <3>3 DEF Abs!Next
  <2>3. ASSUME NEW m \in Mutex, LockAgain(m) \/ UnlockNested(m)
        PROVE  UNCHANGED Abs!absVars
    BY <2>3, NestedRefines
  <2>4. ASSUME NEW m \in Mutex,
               LockFree(m) \/ LockPush(m) \/ UnlockFree(m) \/ UnlockPop(m)
        PROVE  Abs!Next
    <3>1. current \in Proc
      BY <2>4 DEF LockFree, LockPush, UnlockFree, UnlockPop, MayLock,
         MayUnlock, Running
    <3>2. PICK p \in Proc : p = current
      BY <3>1
    <3>3. Abs!Acquire(p, m) \/ Abs!Wait(p, m) \/ Abs!Release(p, m)
      BY <2>4, <3>2, LockFreeRefines, LockPushRefines, UnlockFreeRefines,
         UnlockPopRefines
    <3> QED
      BY <3>3 DEF Abs!Next
  <2> QED
    BY <2>1, <2>2, <2>3, <2>4 DEF Next
<1> QED BY <1>1, <1>2, Queues, PTL DEF Spec, ImplementsMutex, Abs!Spec
=============================================================================
