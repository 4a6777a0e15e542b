---------------------------- MODULE SchedProofs ----------------------------
(***************************************************************************)
(* The ready list never loses a process and never overflows, for any       *)
(* number of processes that fits it.                                       *)
(***************************************************************************)
EXTENDS Sched, TLAPS, FiniteSetTheorems, SequenceTheorems

(* q holds every process of S once, and nobody else. *)
Lists(q, S) ==
    /\ q \in Seq(Proc)
    /\ \A i, j \in 1..Len(q) : i # j => q[i] # q[j]
    /\ \A p \in Proc : p \in S <=> \E i \in 1..Len(q) : q[i] = p

Ready(st) == {p \in Proc : st[p] = "READY"}

(* The worker never stops being ready, so the dequeue loop never runs dry. *)
IInv ==
    /\ TypeOK
    /\ RunnableOnce
    /\ state[Worker] = "READY"

(* RunnableOnce in terms of Lists. *)
LEMMA OnceIsLists ==
    ASSUME NEW q, NEW c \in Proc, NEW st \in [Proc -> ProcState], q \in Seq(Proc)
    PROVE  Lists(q, Ready(st) \ {c}) <=>
              /\ \A p \in Proc :
                    IF st[p] = "READY" /\ p # c
                      THEN \E i \in DOMAIN q : q[i] = p
                      ELSE \A i \in DOMAIN q : q[i] # p
              /\ \A i, j \in DOMAIN q : i # j => q[i] # q[j]
<1>1. DOMAIN q = 1..Len(q)
  OBVIOUS
<1> QED BY <1>1 DEF Lists, Ready

(* A queue without duplicates is no longer than the set it is drawn from.  *)
LEMMA ListsBound ==
    ASSUME NEW q, NEW S, Lists(q, S), NEW T \in SUBSET Proc, Proc \cap S \subseteq T
    PROVE  Len(q) \in Nat /\ Cardinality(T) \in Nat /\ Len(q) <= Cardinality(T)
<1> DEFINE A == 1..Len(q)
<1>1. q \in [A -> T] /\ Len(q) \in Nat
  BY DEF Lists
<1>2. \A i, j \in A : q[i] = q[j] => i = j
  BY DEF Lists
<1>3. q \in Injection(A, T)
  BY <1>1, <1>2 DEF Injection, IsInjective
<1>4. IsFiniteSet(T) /\ Cardinality(T) \in Nat
  BY SchedAssumption, FS_Subset, FS_CardinalityType
<1>5. Cardinality(A) = Len(q)
  <2>1. Cardinality(1..Len(q)) = IF 1 > Len(q) THEN 0 ELSE Len(q) - 1 + 1
    BY <1>1, FS_Interval
  <2> QED BY <1>1, <2>1
<1> HIDE DEF A
<1>6. Cardinality(A) <= Cardinality(T)
  BY <1>3, <1>4, FS_Injection
<1> QED BY <1>1, <1>4, <1>5, <1>6

(* So there is a free cell for whoever is not in it. *)
LEMMA EnqueueNew ==
    ASSUME NEW q, NEW S, Lists(q, S), NEW p \in Proc \ S
    PROVE  /\ Enqueue(q, p) = Append(q, p)
           /\ Lists(Append(q, p), S \cup {p})
<1>1. q \in [1..Len(q) -> Proc \ {p}] /\ Len(q) \in Nat
  BY DEF Lists
<1>2. /\ IsFiniteSet(Proc \ {p})
      /\ Cardinality(Proc \ {p}) = Cardinality(Proc) - 1
      /\ Cardinality(Proc) \in Nat
  BY SchedAssumption, FS_RemoveElement, FS_CardinalityType
<1>3. Len(q) <= Cardinality(Proc \ {p})
  BY ListsBound
<1>4. Len(q) # QueueSize
  <2> DEFINE l == Len(q)
             n == Cardinality(Proc)
  <2>1. l \in Nat /\ n \in Nat /\ l <= n - 1
    BY <1>1, <1>2, <1>3
  <2>2. n <= QueueSize /\ QueueSize \in Nat
    BY SchedAssumption, RunQueueAssumption
  <2> HIDE DEF l, n
  <2>3. l # QueueSize
    BY <2>1, <2>2
  <2> QED BY <2>3 DEF l
<1>5. Lists(Append(q, p), S \cup {p})
  <2> DEFINE r == Append(q, p)
  <2>1. /\ r \in Seq(Proc) /\ Len(r) = Len(q) + 1
        /\ \A i \in 1..Len(q) : r[i] = q[i]
        /\ r[Len(q) + 1] = p
    BY DEF Lists
  <2>2. \A i \in 1..Len(q) : q[i] \in S
    BY <1>1 DEF Lists
  <2>3. 1..Len(r) = 1..Len(q) \cup {Len(q) + 1}
    BY <1>1, <2>1
  <2> HIDE DEF r
  <2>4. \A i, j \in 1..Len(r) : i # j => r[i] # r[j]
    BY <1>1, <2>1, <2>2, <2>3 DEF Lists
  <2>5. \A x \in Proc : x \in S \cup {p} <=> \E i \in 1..Len(r) : r[i] = x
    <3> SUFFICES ASSUME NEW x \in Proc
                 PROVE  x \in S \cup {p} <=> \E i \in 1..Len(r) : r[i] = x
      OBVIOUS
    <3>1. ASSUME x \in S PROVE \E i \in 1..Len(r) : r[i] = x
      <4>1. PICK i \in 1..Len(q) : q[i] = x
        BY <3>1 DEF Lists
      <4> QED BY <2>1, <2>3, <4>1
    <3>2. \E i \in 1..Len(r) : r[i] = p
      BY <2>1, <2>3
    <3>3. ASSUME NEW i \in 1..Len(r), r[i] = x PROVE x \in S \cup {p}
      BY <2>1, <2>2, <2>3, <3>3
    <3> QED BY <3>1, <3>2, <3>3
  <2> QED BY <2>1, <2>4, <2>5 DEF Lists, r
<1> QED BY <1>4, <1>5 DEF Enqueue

(* When exactly the ready processes are queued, PendSV runs the oldest.    *)
LEMMA DispatchOldest ==
    ASSUME NEW q, NEW st \in [Proc -> ProcState], Lists(q, Ready(st)),
           Ready(st) # {}, Dispatch(q, st)
    PROVE  current' \in Ready(st) /\ Lists(runq', Ready(st) \ {current'})
<1>1. Len(q) \in Nat /\ Len(q) > 0 /\ q[1] \in Ready(st)
  <2>1. PICK p \in Ready(st) : TRUE
    OBVIOUS
  <2>2. PICK i \in 1..Len(q) : q[i] = p
    BY <2>1 DEF Lists, Ready
  <2>3. Len(q) \in Nat /\ Len(q) > 0
    BY <2>2 DEF Lists
  <2>4. 1 \in 1..Len(q) /\ q[1] \in Proc
    BY <2>3 DEF Lists
  <2> QED BY <2>3, <2>4 DEF Lists
<1>2. FirstReady(q, st) = {1}
  <2>1. 1 \in 1..Len(q) /\ 1..(1-1) = {} /\ \A i \in 1..Len(q) : i # 1 => 1 \in 1..(i-1)
    BY <1>1
  <2> QED BY <1>1, <2>1 DEF FirstReady, Ready
<1>3. current' = q[1] /\ runq' = SubSeq(q, 2, Len(q))
  BY <1>2 DEF Dispatch
<1>4. /\ runq' \in Seq(Proc) /\ Len(runq') = Len(q) - 1
      /\ \A i \in 1..(Len(q) - 1) : runq'[i] = q[i + 1]
  <2>1. /\ q \in Seq(Proc) /\ 2 \in Int /\ Len(q) \in Int
        /\ \A i \in 2..Len(q) : q[i] \in Proc
    BY <1>1 DEF Lists
  <2>2. /\ SubSeq(q, 2, Len(q)) \in Seq(Proc)
        /\ Len(SubSeq(q, 2, Len(q))) = IF 2 <= Len(q) THEN Len(q) - 2 + 1 ELSE 0
        /\ \A i \in 1..(Len(q) - 2 + 1) : SubSeq(q, 2, Len(q))[i] = q[2 + i - 1]
    BY <2>1, SubSeqProperties
  <2>3. (IF 2 <= Len(q) THEN Len(q) - 2 + 1 ELSE 0) = Len(q) - 1
        /\ 1..(Len(q) - 2 + 1) = 1..(Len(q) - 1)
        /\ \A i \in 1..(Len(q) - 1) : 2 + i - 1 = i + 1
    BY <1>1
  <2>4. /\ runq' \in Seq(Proc) /\ Len(runq') = Len(q) - 1
    BY <1>3, <2>2, <2>3
  <2>5. ASSUME NEW i \in 1..(Len(q) - 1) PROVE runq'[i] = q[i + 1]
    <3>1. 2 + i - 1 = i + 1 /\ i \in 1..(Len(q) - 2 + 1)
      BY <2>3
    <3>2. runq'[i] = q[2 + i - 1]
      BY <1>3, <2>2, <3>1
    <3> QED BY <3>1, <3>2
  <2> QED BY <2>4, <2>5
<1>5. \A i, j \in 1..Len(runq') : i # j => runq'[i] # runq'[j]
  <2> SUFFICES ASSUME NEW i \in 1..Len(runq'), NEW j \in 1..Len(runq'), i # j
               PROVE  runq'[i] # runq'[j]
    OBVIOUS
  <2>1. i + 1 \in 1..Len(q) /\ j + 1 \in 1..Len(q) /\ i + 1 # j + 1
    BY <1>1, <1>4
  <2>2. runq'[i] = q[i + 1] /\ runq'[j] = q[j + 1]
    BY <1>1, <1>4
  <2> QED BY <2>1, <2>2 DEF Lists
<1>6. \A p \in Proc :
         p \in Ready(st) \ {current'} <=> \E i \in 1..Len(runq') : runq'[i] = p
  <2> SUFFICES ASSUME NEW p \in Proc
               PROVE  p \in Ready(st) \ {current'}
                         <=> \E i \in 1..Len(runq') : runq'[i] = p
    OBVIOUS
  <2>1. ASSUME p \in Ready(st) \ {current'}
        PROVE  \E i \in 1..Len(runq') : runq'[i] = p
    <3>1. PICK i \in 1..Len(q) : q[i] = p
      BY <2>1 DEF Lists
    <3>2. i # 1
      BY <1>3, <2>1, <3>1
    <3>3. i - 1 \in 1..(Len(q) - 1) /\ (i - 1) + 1 = i
      BY <1>1, <3>1, <3>2
    <3>4. runq'[i - 1] = p
      BY <1>4, <3>1, <3>3
    <3> QED BY <1>4, <3>3, <3>4
  <2>2. ASSUME NEW i \in 1..Len(runq'), runq'[i] = p
        PROVE  p \in Ready(st) \ {current'}
    <3>1. i + 1 \in 1..Len(q) /\ q[i + 1] = p /\ i + 1 # 1
      BY <1>1, <1>4, <2>2
    <3> QED BY <1>1, <1>3, <3>1 DEF Lists
  <2> QED BY <2>1, <2>2
<1> QED BY <1>1, <1>3, <1>4, <1>5, <1>6 DEF Lists

(* PendSV when the queue holds the ready processes that do not run.        *)
LEMMA SwitchOnce ==
    ASSUME NEW q, NEW st \in [Proc -> ProcState], current \in Proc,
           Lists(q, Ready(st) \ {current}), st[Worker] = "READY",
           state' = st, Switch(q, st)
    PROVE  IInv'
<1>1. /\ Lists(Requeue(q, st), Ready(st))
  <2>1. CASE st[current] = "READY"
    <3>1. Requeue(q, st) = Append(q, current)
          /\ Lists(Append(q, current), (Ready(st) \ {current}) \cup {current})
      BY <2>1, EnqueueNew DEF Requeue
    <3>2. (Ready(st) \ {current}) \cup {current} = Ready(st)
      BY <2>1 DEF Ready
    <3> QED BY <3>1, <3>2
  <2>2. CASE st[current] # "READY"
    <3>1. Ready(st) \ {current} = Ready(st)
      BY <2>2 DEF Ready
    <3> QED BY <2>2, <3>1 DEF Requeue
  <2> QED BY <2>1, <2>2
<1>2. Worker \in Ready(st)
  BY SchedAssumption DEF Ready
<1>3. current' \in Ready(st) /\ Lists(runq', Ready(st) \ {current'})
  BY <1>1, <1>2, DispatchOldest DEF Switch
<1>4. RunnableOnce'
  BY <1>3, OnceIsLists DEF RunnableOnce, Ready, Lists
<1>5. Len(runq') <= QueueSize
  <2>1. Len(runq') \in Nat /\ Len(runq') <= Cardinality(Proc)
        /\ Cardinality(Proc) \in Nat
    BY <1>3, ListsBound
  <2> QED BY <2>1, SchedAssumption, RunQueueAssumption
<1> QED BY <1>3, <1>4, <1>5 DEF IInv, TypeOK, SchedTypeOK, Ready, Lists

(* The queue of a state in which everybody runnable is queued once. *)
LEMMA QueueLists ==
    ASSUME IInv
    PROVE  /\ Lists(runq, Ready(state) \ {current})
           /\ state \in [Proc -> ProcState] /\ current \in Proc
           /\ state[current] = "READY"
BY OnceIsLists DEF IInv, TypeOK, SchedTypeOK, RunnableOnce

(* A step that makes p stop being ready, or leaves it unready, and then    *)
(* switches.                                                               *)
LEMMA SwitchWithout ==
    ASSUME IInv, NEW p \in Proc \ {Worker}, NEW s \in ProcState \ {"READY"},
           p = current \/ state[p] # "READY",
           state' = [state EXCEPT ![p] = s], Switch(runq, state')
    PROVE  IInv'
<1> DEFINE st == [state EXCEPT ![p] = s]
<1>1. Ready(st) \ {current} = Ready(state) \ {current}
  BY QueueLists DEF Ready
<1>2. st \in [Proc -> ProcState] /\ st[Worker] = "READY"
  BY QueueLists DEF IInv
<1>3. Lists(runq, Ready(st) \ {current})
  BY <1>1, QueueLists
<1> HIDE DEF st
<1> QED BY <1>2, <1>3, QueueLists, SwitchOnce DEF st

(* The same, when the step also wakes a process that was not ready.        *)
LEMMA SwitchWaking ==
    ASSUME IInv, NEW st \in [Proc -> ProcState], st[Worker] = "READY",
           NEW p \in Proc \ {current}, state[p] # "READY",
           Ready(st) \ {current} = (Ready(state) \ {current}) \cup {p},
           state' = st, Switch(Enqueue(runq, p), st)
    PROVE  IInv'
<1>1. p \in Proc \ (Ready(state) \ {current})
  BY DEF Ready
<1>2. Lists(Enqueue(runq, p), (Ready(state) \ {current}) \cup {p})
  <2> DEFINE R == Ready(state) \ {current}
  <2>1. Lists(runq, R) /\ p \in Proc \ R
    BY <1>1, QueueLists
  <2> HIDE DEF R
  <2>2. Enqueue(runq, p) = Append(runq, p) /\ Lists(Append(runq, p), R \cup {p})
    BY <2>1, EnqueueNew
  <2> QED BY <2>2 DEF R
<1>3. Lists(Enqueue(runq, p), Ready(st) \ {current})
  BY <1>2
<1> QED BY <1>3, QueueLists, SwitchOnce

(* The invariant holds at first.                                            *)
LEMMA InitIInv == Init => IInv
<1> SUFFICES ASSUME Init PROVE IInv
  OBVIOUS
<1>1. Cardinality(Proc) \in Nat /\ Cardinality(Proc) # 0
  BY SchedAssumption, FS_EmptySet, FS_CardinalityType
<1>2. 1 <= QueueSize
  BY <1>1, SchedAssumption, RunQueueAssumption
<1> QED BY <1>2, SchedAssumption DEF Init, IInv, TypeOK, SchedTypeOK, RunnableOnce, ProcState

(* What each action does to the invariant.                                  *)
LEMMA StepTick ==
    ASSUME IInv, Tick
    PROVE  IInv'
BY QueueLists, SwitchOnce DEF Tick, ProcSchedule, IInv

LEMMA StepBlockSelf ==
    ASSUME IInv, BlockSelf
    PROVE  IInv'
<1>1. current \in Proc \ {Worker} /\ "BLOCKED" \in ProcState \ {"READY"}
  BY QueueLists DEF BlockSelf, ProcState
<1>2. state' = [state EXCEPT ![current] = "BLOCKED"] /\ Switch(runq, state')
  BY DEF BlockSelf, ProcBlock
<1> QED BY <1>1, <1>2, SwitchWithout

LEMMA StepWake ==
    ASSUME IInv, NEW p \in Proc, Wake(p)
    PROVE  IInv'
<1> DEFINE st == [state EXCEPT ![p] = "READY"]
<1>1. p \in Proc \ {current} /\ state[p] # "READY"
  BY QueueLists DEF Wake
<1>2. state' = st /\ Switch(Enqueue(runq, p), st)
  BY DEF Wake, ProcUnblock
<1>3. st \in [Proc -> ProcState] /\ st[Worker] = "READY"
  BY QueueLists, SchedAssumption DEF IInv, ProcState
<1>4. Ready(st) \ {current} = (Ready(state) \ {current}) \cup {p}
  BY <1>1, QueueLists DEF Ready
<1> HIDE DEF st
<1> QED BY <1>1, <1>2, <1>3, <1>4, SwitchWaking

LEMMA StepMarkZombie ==
    ASSUME IInv, NEW p \in Proc \ {Worker}, p = current \/ state[p] # "READY",
           MarkZombie(p)
    PROVE  IInv'
<1> DEFINE dead == [state EXCEPT ![p] = "ZOMBIE"]
<1>1. CASE state' = dead /\ Switch(runq, dead)
  <2>1. "ZOMBIE" \in ProcState \ {"READY"}
    BY DEF ProcState
  <2> QED BY <1>1, <2>1, SwitchWithout
<1>2. ASSUME NEW parent \in Proc, dead[parent] = "BLOCKED",
             state' = [dead EXCEPT ![parent] = "READY"],
             Switch(Enqueue(runq, parent), state')
      PROVE  IInv'
  <2> DEFINE st == [dead EXCEPT ![parent] = "READY"]
  <2>1. parent # p /\ parent \in Proc \ {current} /\ state[parent] # "READY"
    BY <1>2, QueueLists
  <2>2. st \in [Proc -> ProcState] /\ st[Worker] = "READY"
    BY QueueLists, SchedAssumption DEF IInv, ProcState
  <2>3. Ready(st) \ {current} = (Ready(state) \ {current}) \cup {parent}
    BY <2>1, QueueLists DEF Ready
  <2>4. state' = st
    BY <1>2
  <2> HIDE DEF st
  <2> QED BY <1>2, <2>1, <2>2, <2>3, <2>4, SwitchWaking
<1> QED BY <1>1, <1>2 DEF MarkZombie

(* Spawn and Reap move p between states that are not ready. *)
LEMMA StepUnqueued ==
    ASSUME IInv, NEW p \in Proc, Spawn(p) \/ Reap(p)
    PROVE  IInv'
<1>1. PICK s \in ProcState \ {"READY"} : state' = [state EXCEPT ![p] = s]
  BY DEF Spawn, Reap, ProcState
<1>2. /\ state[p] # "READY" /\ runq' = runq /\ current' = current
  BY DEF Spawn, Reap
<1>3. /\ state' \in [Proc -> ProcState] /\ state'[Worker] = "READY"
      /\ state'[current] = "READY"
      /\ \A q \in Proc : state'[q] = "READY" <=> state[q] = "READY"
  BY <1>1, <1>2, QueueLists, SchedAssumption DEF IInv
<1>4. TypeOK'
  BY <1>2, <1>3 DEF IInv, TypeOK, SchedTypeOK
<1>5. RunnableOnce'
  BY <1>2, <1>3 DEF IInv, RunnableOnce
<1> QED BY <1>3, <1>4, <1>5 DEF IInv

(* The inductive invariant holds in every reachable state. *)
THEOREM Invariance == Spec => []IInv
<1>1. IInv /\ [Next]_schedVars => IInv'
  <2> SUFFICES ASSUME IInv, [Next]_schedVars PROVE IInv'
    OBVIOUS
  <2>1. CASE Tick      BY <2>1, StepTick
  <2>2. CASE BlockSelf BY <2>2, StepBlockSelf
  <2>3. CASE Exit
    BY <2>3, StepMarkZombie, QueueLists DEF Exit
  <2>4. ASSUME NEW p \in Proc, Wake(p) \/ Spawn(p) \/ KillBlocked(p) \/ Reap(p)
        PROVE  IInv'
    <3>1. CASE Wake(p) BY <3>1, StepWake
    <3>2. CASE Spawn(p) \/ Reap(p) BY <3>2, StepUnqueued
    <3>3. CASE KillBlocked(p)
      BY <3>3, StepMarkZombie DEF KillBlocked, IInv
    <3> QED BY <2>4, <3>1, <3>2, <3>3
  <2>5. CASE UNCHANGED schedVars
    BY <2>5 DEF schedVars, IInv, TypeOK, SchedTypeOK, RunnableOnce
  <2> QED BY <2>1, <2>2, <2>3, <2>4, <2>5 DEF Next
<1> QED BY <1>1, InitIInv, PTL DEF Spec

(* The queue fits its array and the dequeue loop of PendSV always finds    *)
(* somebody to run: the breakpoint of proc_sched_new_task is dead code.    *)
THEOREM AlwaysRuns == Spec => []TypeOK
<1>1. IInv => TypeOK
  BY DEF IInv
<1> QED BY <1>1, Invariance, PTL

(* No ready process is lost and none is queued twice, however often the    *)
(* processes block, wake, spawn, exit and are killed while blocked.        *)
THEOREM NothingLost == Spec => []RunnableOnce
<1>1. IInv => RunnableOnce
  BY DEF IInv
<1> QED BY <1>1, Invariance, PTL
=============================================================================
