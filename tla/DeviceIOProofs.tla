--------------------------- MODULE DeviceIOProofs ---------------------------
(***************************************************************************)
(* The blocking device calls for any number of callers, any calls and any  *)
(* size of the disk: the types, the room in the ring, that nobody returns  *)
(* without an answer, and that the driver implements DeviceAbs.            *)
(***************************************************************************)
EXTENDS DeviceIO, TLAPS, FiniteSetTheorems, SequenceTheorems

(* p is inside of its call and has not been woken. *)
InCall(p) ==
    /\ pc[p] \in {"asked", "waiting"}
    /\ pc[p] = "waiting" => state[p] = "BLOCKED"

(* The request of p has not been answered: it is as p has made it. *)
Pending(p) ==
    /\ InCall(p)
    /\ req[p].status = 0 /\ req[p].offset \in Nat /\ req[p].count > 0

(* Whoever runs is ready. *)
CurrentReady == current \in Proc => state[current] = "READY"

(* The requests that are still to be served are of different callers, and  *)
(* each of them waits for its answer.                                      *)
WaitingInv ==
    /\ \A i, j \in DOMAIN Waiting : Waiting[i] = Waiting[j] => i = j
    /\ \A i \in DOMAIN Waiting : Pending(Waiting[i])

(* Between the answer and the end of romdisk_update the request that was   *)
(* answered is still at the head of the ring, and its caller sleeps on     *)
(* until it is woken.                                                      *)
FinishInv ==
    /\ step # "update" => ring # <<>>
    /\ step = "wake" => InCall(Head(ring)) /\ Served(Head(ring))

(* The blocks that are copied belong to the request at the head, are not   *)
(* all of it, and lie on the disk.                                         *)
TransferInv ==
    step = "update" /\ transfered # 0 =>
        /\ ring # <<>> /\ req[Head(ring)].op = "read"
        /\ transfered < req[Head(ring)].count
        /\ req[Head(ring)].offset + transfered <= Blocks

IInv ==
    /\ TypeOK /\ CurrentReady /\ WaitingInv /\ FinishInv /\ TransferInv
    /\ WokenIsServed

-----------------------------------------------------------------------------
(* Facts about the operators of RunQueue.                                   *)

(* proc_enqueue keeps the queue a queue of processes within its array. *)
LEMMA EnqueueType ==
    ASSUME NEW q \in Seq(Proc), Len(q) <= QueueSize, NEW p \in Proc
    PROVE  Enqueue(q, p) \in Seq(Proc) /\ Len(Enqueue(q, p)) <= QueueSize
BY RunQueueAssumption DEF Enqueue

(* The context switch keeps the types, and whoever it picks is ready. *)
LEMMA SwitchType ==
    ASSUME NEW q \in Seq(Proc), Len(q) <= QueueSize, current \in Proc,
           NEW st, Switch(q, st)
    PROVE  /\ runq' \in Seq(Proc) /\ Len(runq') <= QueueSize
           /\ current' \in Proc \cup {NoProc}
           /\ current' \in Proc => st[current'] = "READY"
<1> DEFINE r == Requeue(q, st)
<1>1. r \in Seq(Proc) /\ Len(r) <= QueueSize
  BY EnqueueType DEF Requeue
<1>2. CASE FirstReady(r, st) = {}
  BY <1>2, RunQueueAssumption DEF Switch, Dispatch
<1>3. CASE FirstReady(r, st) # {}
  <2>1. PICK i \in FirstReady(r, st) :
           current' = r[i] /\ runq' = SubSeq(r, i + 1, Len(r))
    BY <1>3 DEF Switch, Dispatch
  <2>2. i \in 1..Len(r) /\ st[r[i]] = "READY"
    BY DEF FirstReady
  <2> HIDE DEF r
  <2>3. Len(r) \in Nat /\ r[i] \in Proc
    BY <1>1, <2>2
  <2>4. runq' \in Seq(Proc) /\ Len(runq') = Len(r) - i
    BY <1>1, <2>1, <2>2, <2>3
  <2> QED BY <1>1, <2>1, <2>2, <2>3, <2>4, RunQueueAssumption
<1> QED BY <1>2, <1>3

-----------------------------------------------------------------------------
(* The constants.                                                           *)

(* The processes can be counted, and all but the worker are callers.        *)
LEMMA Bounds ==
    /\ Worker \in Proc /\ Worker \notin Client /\ Client \subseteq Proc
    /\ NoProc \notin Proc
    /\ IsFiniteSet(Proc) /\ IsFiniteSet(Client)
    /\ Cardinality(Proc) \in Nat /\ Cardinality(Client) \in Nat
    /\ Cardinality(Client) = Cardinality(Proc) - 1
    /\ QueueSize \in Nat /\ Cardinality(Proc) <= QueueSize
    /\ QueueLen \in Nat /\ QueueLen >= Cardinality(Proc)
    /\ Blocks \in Nat /\ Blocks > 0
    /\ EIO \in Int /\ EIO < 0
    /\ Call \subseteq [op : {"read", "write"}, offset : Nat, count : Nat \ {0}]
<1>1. Worker \in Proc /\ IsFiniteSet(Proc)
  BY DeviceAssumption
<1>2. Client = Proc \ {Worker}
  BY DEF Client
<1>3. IsFiniteSet(Client) /\ Cardinality(Client) = Cardinality(Proc) - 1
  BY <1>1, <1>2, FS_RemoveElement
<1>4. Cardinality(Proc) \in Nat /\ Cardinality(Client) \in Nat
  BY <1>1, <1>3, FS_CardinalityType
<1> QED
  BY <1>1, <1>2, <1>3, <1>4, DeviceAssumption, RunQueueAssumption DEF EIO

-----------------------------------------------------------------------------
(* Sequences, cell by cell.                                                 *)

(* A sequence without its head.                                             *)
LEMMA TailCells ==
    ASSUME NEW S, NEW s \in Seq(S), s # <<>>
    PROVE  /\ Head(s) = s[1] /\ Head(s) \in S /\ 1 \in DOMAIN s
           /\ Len(s) \in Nat /\ Len(s) > 0 /\ DOMAIN s = 1..Len(s)
           /\ Tail(s) \in Seq(S) /\ Len(Tail(s)) = Len(s) - 1
           /\ DOMAIN Tail(s) = 1..(Len(s) - 1)
           /\ \A i \in 1..(Len(s) - 1) : Tail(s)[i] = s[i + 1]
<1>1. Len(s) \in Nat /\ Len(s) > 0 /\ DOMAIN s = 1..Len(s)
  BY EmptySeq
<1> QED
  BY <1>1, HeadTailProperties

(* A sequence with one more entry.                                          *)
LEMMA AppendCells ==
    ASSUME NEW S, NEW s \in Seq(S), NEW e \in S
    PROVE  /\ Append(s, e) \in Seq(S) /\ Len(Append(s, e)) = Len(s) + 1
           /\ Len(s) \in Nat /\ DOMAIN s = 1..Len(s)
           /\ DOMAIN Append(s, e) = 1..(Len(s) + 1)
           /\ \A i \in 1..Len(s) : Append(s, e)[i] = s[i]
           /\ Append(s, e)[Len(s) + 1] = e
BY AppendProperties

(* Entry by entry is enough.                                                *)
LEMMA IsAppend ==
    ASSUME NEW S, NEW s \in Seq(S), NEW e \in S, NEW t \in Seq(S),
           Len(t) = Len(s) + 1, \A i \in 1..Len(s) : t[i] = s[i],
           t[Len(s) + 1] = e
    PROVE  t = Append(s, e)
<1>1. \A i \in 1..Len(t) : t[i] = Append(s, e)[i]
  <2> TAKE i \in 1..Len(t)
  <2>1. i \in 1..Len(s) \/ i = Len(s) + 1
    BY AppendCells
  <2> QED
    BY <2>1, AppendCells
<1> QED
  BY <1>1, AppendCells, SeqEqual

(* The same for a tail.                                                     *)
LEMMA IsTail ==
    ASSUME NEW S, NEW s \in Seq(S), s # <<>>, NEW t \in Seq(S),
           Len(t) = Len(s) - 1, \A i \in 1..(Len(s) - 1) : t[i] = s[i + 1]
    PROVE  t = Tail(s)
BY TailCells, SeqEqual

-----------------------------------------------------------------------------
(* What is still to be served.                                              *)

(* The requests still to be served are entries of the ring.                 *)
LEMMA WaitingType ==
    ASSUME TypeOK, FinishInv
    PROVE  /\ ring \in Seq(Client) /\ Len(ring) \in Nat
           /\ Waiting \in Seq(Client) /\ Len(Waiting) \in Nat
           /\ DOMAIN Waiting = 1..Len(Waiting)
           /\ \A i \in DOMAIN Waiting : Waiting[i] \in Client
           /\ step = "update" => Waiting = ring
           /\ step # "update" => /\ Waiting = Tail(ring) /\ ring # <<>>
                                 /\ Len(ring) = Len(Waiting) + 1
<1>1. ring \in Seq(Client) /\ Len(ring) \in Nat
  BY DEF TypeOK
<1>2. CASE step = "update"
  BY <1>1, <1>2 DEF Waiting
<1>3. CASE step # "update"
  <2>1. ring # <<>> /\ Waiting = Tail(ring)
    BY <1>3 DEF FinishInv, Waiting
  <2> QED
    BY <2>1, <1>1, <1>3, TailCells
<1> QED
  BY <1>2, <1>3

(* A caller outside of any call leaves a cell of the ring free.             *)
LEMMA RoomInRing ==
    ASSUME TypeOK, FinishInv, WaitingInv,
           NEW p \in Client, pc[p] = "run"
    PROVE  Len(ring) < QueueLen
<1> DEFINE n == Len(Waiting)
           Rest == Client \ {p}
<1>1. /\ Waiting \in Seq(Client) /\ n \in Nat /\ DOMAIN Waiting = 1..n
      /\ \A i \in DOMAIN Waiting : Waiting[i] \in Client
      /\ Len(ring) <= n + 1 /\ Len(ring) \in Nat
  BY WaitingType
<1>2. \A i \in DOMAIN Waiting : Waiting[i] \in Rest
  BY <1>1 DEF WaitingInv, Pending, InCall
<1>3. Waiting \in [1..n -> Rest]
  BY <1>1, <1>2
<1>4. Waiting \in Injection(1..n, Rest)
  BY <1>1, <1>3 DEF WaitingInv, Injection, IsInjective
<1>5. IsFiniteSet(Rest) /\ Cardinality(Rest) = Cardinality(Client) - 1
  BY Bounds, FS_RemoveElement
<1>6. Cardinality(1..n) <= Cardinality(Rest)
  BY <1>4, <1>5, FS_Injection
<1> HIDE DEF n
<1>7. Cardinality(1..n) = n
  BY <1>1, FS_Interval
<1> QED
  BY <1>1, <1>5, <1>6, <1>7, Bounds DEF n

(* The context switch, as the calls use it.                                 *)
LEMMA SwitchKeeps ==
    ASSUME TypeOK, current \in Proc, NEW q \in Seq(Proc), Len(q) <= QueueSize,
           NEW st \in [Proc -> ProcState], state' = st, Switch(q, st)
    PROVE  SchedTypeOK' /\ CurrentReady'
<1>1. /\ runq' \in Seq(Proc) /\ Len(runq') <= QueueSize
      /\ current' \in Proc \cup {NoProc}
      /\ current' \in Proc => st[current'] = "READY"
  BY SwitchType
<1> QED
  BY <1>1 DEF SchedTypeOK, CurrentReady

-----------------------------------------------------------------------------
(* The calls.                                                               *)

(* What the wait of a caller depends on.                                    *)
LEMMA PendingSame ==
    ASSUME NEW p \in Client, Pending(p),
           pc'[p] = pc[p], state'[p] = state[p], req'[p] = req[p]
    PROVE  Pending(p)'
BY DEF Pending, InCall

(* Preemption only switches.                                                *)
LEMMA StepTick ==
    ASSUME IInv, Tick
    PROVE  IInv'
<1>1. /\ TypeOK /\ current \in Proc /\ Switch(runq, state)
      /\ UNCHANGED <<state, ring, req, pc, step, transfered>>
  BY DEF Tick, ProcSchedule, callVars, IInv
<1>2. SchedTypeOK' /\ CurrentReady'
  BY <1>1, SwitchKeeps DEF TypeOK, SchedTypeOK
<1>3. TypeOK'
  BY <1>1, <1>2 DEF TypeOK
<1>4. WaitingInv'
  BY <1>1 DEF IInv, WaitingInv, Waiting, Pending, InCall
<1>5. FinishInv' /\ TransferInv' /\ WokenIsServed'
  BY <1>1 DEF IInv, FinishInv, TransferInv, WokenIsServed, InCall, Served
<1> QED
  BY <1>2, <1>3, <1>4, <1>5 DEF IInv

(* A request is queued behind those of others.                              *)
LEMMA AskQueues ==
    ASSUME IInv, NEW c \in Call, Ask(c)
    PROVE  /\ current \in Client /\ pc[current] = "run"
           /\ ring' = Append(ring, current)
           /\ Waiting' = Append(Waiting, current)
           /\ \A i \in DOMAIN Waiting : Waiting[i] # current
           /\ UNCHANGED <<state, runq, step, transfered>> /\ current' = current
           /\ c.op \in {"read", "write"} /\ c.offset \in Nat
           /\ c.count \in Nat /\ c.count > 0
           /\ req'[current] = [op |-> c.op, count |-> c.count,
                               offset |-> c.offset, status |-> 0,
                               buffer |-> NoBlock]
           /\ \A q \in Client \ {current} : req'[q] = req[q] /\ pc'[q] = pc[q]
           /\ pc'[current] = "asked"
           /\ req' \in [Client -> Request]
           /\ pc' \in [Client -> {"run", "asked", "waiting"}]
<1>1. /\ TypeOK /\ FinishInv /\ WaitingInv
      /\ current \in Client /\ pc[current] = "run"
      /\ UNCHANGED <<state, runq, step, transfered>> /\ current' = current
      /\ req' = [req EXCEPT ![current] =
                    [op |-> c.op, count |-> c.count, offset |-> c.offset,
                     status |-> 0, buffer |-> NoBlock]]
      /\ pc' = [pc EXCEPT ![current] = "asked"]
      /\ RequestIO(current)
  BY DEF Ask, At, Goto, schedVars, IInv
<1>2. ring' = Append(ring, current)
  <2>1. Len(ring) < QueueLen /\ Len(ring) \in Nat
    BY <1>1, RoomInRing, WaitingType
  <2> QED
    BY <2>1, <1>1, Bounds DEF RequestIO
<1>3. Waiting' = Append(Waiting, current)
  <2>1. CASE step = "update"
    BY <2>1, <1>1, <1>2 DEF Waiting
  <2>2. CASE step # "update"
    <3>1. ring \in Seq(Client) /\ ring # <<>> /\ Waiting = Tail(ring)
      BY <2>2, <1>1, WaitingType
    <3>2. Tail(Append(ring, current)) = Append(Tail(ring), current)
      BY <3>1, HeadTailAppend
    <3> QED
      BY <2>2, <3>1, <3>2, <1>1, <1>2 DEF Waiting
  <2> QED
    BY <2>1, <2>2
<1>4. \A i \in DOMAIN Waiting : Waiting[i] # current
  BY <1>1 DEF WaitingInv, Pending, InCall
<1>5. c.op \in {"read", "write"} /\ c.offset \in Nat
      /\ c.count \in Nat /\ c.count > 0
  BY Bounds
<1>6. [op |-> c.op, count |-> c.count, offset |-> c.offset,
       status |-> 0, buffer |-> NoBlock] \in Request
  BY <1>5 DEF Request
<1>7. /\ req' \in [Client -> Request]
      /\ req'[current] = [op |-> c.op, count |-> c.count,
                          offset |-> c.offset, status |-> 0,
                          buffer |-> NoBlock]
      /\ \A q \in Client \ {current} : req'[q] = req[q]
  BY <1>1, <1>6 DEF TypeOK
<1>8. /\ pc' \in [Client -> {"run", "asked", "waiting"}]
      /\ pc'[current] = "asked"
      /\ \A q \in Client \ {current} : pc'[q] = pc[q]
  BY <1>1 DEF TypeOK
<1> QED
  BY <1>1, <1>2, <1>3, <1>4, <1>5, <1>7, <1>8

LEMMA StepAsk ==
    ASSUME IInv, NEW c \in Call, Ask(c)
    PROVE  IInv'
<1> DEFINE n == Len(Waiting)
<1>1. /\ current \in Client /\ pc[current] = "run"
      /\ ring' = Append(ring, current)
      /\ Waiting' = Append(Waiting, current)
      /\ \A i \in DOMAIN Waiting : Waiting[i] # current
      /\ UNCHANGED <<state, runq, step, transfered>> /\ current' = current
      /\ c.offset \in Nat /\ c.count \in Nat /\ c.count > 0
      /\ req'[current] = [op |-> c.op, count |-> c.count,
                          offset |-> c.offset, status |-> 0,
                          buffer |-> NoBlock]
      /\ \A q \in Client \ {current} : req'[q] = req[q] /\ pc'[q] = pc[q]
      /\ pc'[current] = "asked"
      /\ req' \in [Client -> Request]
      /\ pc' \in [Client -> {"run", "asked", "waiting"}]
  BY AskQueues
<1>2. TypeOK /\ CurrentReady /\ WaitingInv /\ FinishInv /\ TransferInv
      /\ WokenIsServed
  BY DEF IInv
<1>3. /\ ring \in Seq(Client) /\ Len(ring) \in Nat
      /\ Waiting \in Seq(Client) /\ n \in Nat /\ DOMAIN Waiting = 1..n
      /\ \A i \in DOMAIN Waiting : Waiting[i] \in Client
  BY <1>2, WaitingType
<1>4. /\ DOMAIN Waiting' = 1..(n + 1) /\ Waiting'[n + 1] = current
      /\ \A i \in 1..n : Waiting'[i] = Waiting[i]
  BY <1>1, <1>3, AppendCells
<1>5. /\ ring' \in Seq(Client) /\ ring' # <<>>
      /\ ring # <<>> => Head(ring') = Head(ring)
  <2>1. Head(ring') = IF ring = <<>> THEN current ELSE Head(ring)
    BY <1>1, <1>3, HeadTailAppend
  <2>2. ring' \in Seq(Client) /\ Len(ring') = Len(ring) + 1
    BY <1>1, <1>3, AppendCells
  <2>3. ring' # <<>>
    BY <2>2, <1>3
  <2> QED
    BY <2>1, <2>2, <2>3
<1>6. TypeOK'
  <2>1. Len(ring') <= QueueLen
    <3>1. Len(ring) < QueueLen
      BY <1>1, <1>2, RoomInRing
    <3> QED
      BY <3>1, <1>1, <1>3, AppendCells, Bounds
  <2>2. SchedTypeOK'
    BY <1>1, <1>2 DEF TypeOK, SchedTypeOK
  <2> QED
    BY <2>1, <2>2, <1>1, <1>2, <1>5 DEF TypeOK
<1>7. CurrentReady'
  BY <1>1, <1>2 DEF CurrentReady
<1> HIDE DEF n
<1>8. WaitingInv'
  <2>1. ASSUME NEW i \in DOMAIN Waiting'
        PROVE  Pending(Waiting[i])' /\ (i = n + 1 \/ i \in 1..n)
    <3>1. CASE i = n + 1
      BY <3>1, <1>1, <1>4 DEF Pending, InCall
    <3>2. CASE i # n + 1
      <4>1. i \in 1..n /\ i \in DOMAIN Waiting
        BY <3>2, <1>3, <1>4
      <4>2. Waiting'[i] = Waiting[i] /\ Waiting[i] \in Client
            /\ Waiting[i] # current
        BY <4>1, <1>1, <1>3, <1>4
      <4> QED
        BY <4>1, <4>2, <1>1, <1>2 DEF WaitingInv, Pending, InCall
    <3> QED
      BY <3>1, <3>2
  <2>2. ASSUME NEW i \in DOMAIN Waiting', NEW j \in DOMAIN Waiting',
               Waiting'[i] = Waiting'[j]
        PROVE  i = j
    <3>1. (i = n + 1 \/ i \in 1..n) /\ (j = n + 1 \/ j \in 1..n)
      BY <2>1
    <3> QED
      BY <3>1, <2>2, <1>1, <1>2, <1>3, <1>4 DEF WaitingInv
  <2> QED
    BY <2>1, <2>2 DEF WaitingInv
<1>9. FinishInv'
  <2>1. step = "wake" => /\ ring # <<>> /\ InCall(Head(ring))
                         /\ Served(Head(ring)) /\ Head(ring) \in Client
    BY <1>2, <1>3, TailCells DEF FinishInv
  <2> QED
    BY <2>1, <1>1, <1>5 DEF FinishInv, InCall, Served
<1>10. TransferInv'
  <2> SUFFICES ASSUME step = "update", transfered # 0
               PROVE  /\ ring # <<>> /\ Head(ring) \in Client
                      /\ Head(ring) # current
    BY <1>1, <1>2, <1>5 DEF TransferInv
  <2>1. ring # <<>> /\ Waiting = ring
    BY <1>2, WaitingType DEF TransferInv
  <2>2. Head(ring) = ring[1] /\ 1 \in DOMAIN ring /\ Head(ring) \in Client
    BY <2>1, <1>3, TailCells
  <2> QED
    BY <2>1, <2>2, <1>1
<1>11. WokenIsServed'
  BY <1>1, <1>2 DEF WokenIsServed, Served
<1> QED
  BY <1>6, <1>7, <1>8, <1>9, <1>10, <1>11 DEF IInv

LEMMA StepBlock ==
    ASSUME IInv, Block
    PROVE  IInv'
<1>1. /\ TypeOK /\ CurrentReady /\ WaitingInv /\ FinishInv /\ TransferInv
      /\ WokenIsServed
      /\ current \in Client /\ current \in Proc /\ pc[current] = "asked"
      /\ state' = [state EXCEPT ![current] = "BLOCKED"]
      /\ Switch(runq, state')
      /\ pc' = [pc EXCEPT ![current] = "waiting"]
      /\ UNCHANGED <<ring, req, step, transfered>>
  BY Bounds DEF IInv, Block, At, ProcBlock, Goto
<1>2. /\ state' \in [Proc -> ProcState]
      /\ pc' \in [Client -> {"run", "asked", "waiting"}]
      /\ state'[current] = "BLOCKED" /\ pc'[current] = "waiting"
      /\ \A q \in Client \ {current} : pc'[q] = pc[q] /\ state'[q] = state[q]
  BY <1>1, Bounds DEF TypeOK, SchedTypeOK, ProcState
<1>3. SchedTypeOK' /\ CurrentReady'
  BY <1>1, <1>2, SwitchKeeps DEF TypeOK, SchedTypeOK
<1>4. TypeOK'
  BY <1>1, <1>2, <1>3 DEF TypeOK
<1>5. \A q \in Client : InCall(q) => InCall(q)'
  BY <1>2 DEF InCall
<1>6. \A q \in Client : Pending(q) => Pending(q)'
  BY <1>1, <1>5 DEF Pending
<1>7. WaitingInv'
  <2>1. Waiting' = Waiting /\ \A i \in DOMAIN Waiting : Waiting[i] \in Client
    BY <1>1, WaitingType DEF Waiting
  <2> QED
    BY <2>1, <1>1, <1>6 DEF WaitingInv
<1>8. FinishInv'
  <2>1. ring # <<>> => Head(ring) \in Client
    BY <1>1, TailCells DEF TypeOK
  <2> QED
    BY <2>1, <1>1, <1>5 DEF FinishInv, Served
<1>9. TransferInv' /\ WokenIsServed'
  BY <1>1, <1>2 DEF TransferInv, WokenIsServed, Served
<1> QED
  BY <1>3, <1>4, <1>7, <1>8, <1>9 DEF IInv

LEMMA StepReturn ==
    ASSUME IInv, Return
    PROVE  IInv'
<1>1. /\ TypeOK /\ CurrentReady /\ WaitingInv /\ FinishInv /\ TransferInv
      /\ WokenIsServed
      /\ current \in Client /\ current \in Proc /\ pc[current] = "waiting"
      /\ pc' = [pc EXCEPT ![current] = "run"]
      /\ UNCHANGED <<state, runq, current, ring, req, step, transfered>>
  BY Bounds DEF IInv, Return, At, Goto, schedVars
<1>2. /\ pc' \in [Client -> {"run", "asked", "waiting"}]
      /\ \A q \in Client \ {current} : pc'[q] = pc[q]
      /\ pc'[current] = "run"
  BY <1>1 DEF TypeOK
<1>3. state[current] = "READY" /\ ~InCall(current)
  BY <1>1 DEF CurrentReady, InCall
<1>4. \A q \in Client : InCall(q) => InCall(q)'
  BY <1>1, <1>2, <1>3 DEF InCall
<1>5. \A q \in Client : Pending(q) => Pending(q)'
  BY <1>1, <1>4 DEF Pending
<1>6. TypeOK' /\ CurrentReady'
  BY <1>1, <1>2 DEF TypeOK, SchedTypeOK, CurrentReady
<1>7. WaitingInv'
  <2>1. Waiting' = Waiting /\ \A i \in DOMAIN Waiting : Waiting[i] \in Client
    BY <1>1, WaitingType DEF Waiting
  <2> QED
    BY <2>1, <1>1, <1>5 DEF WaitingInv
<1>8. FinishInv'
  <2>1. ring # <<>> => Head(ring) \in Client
    BY <1>1, TailCells DEF TypeOK
  <2> QED
    BY <2>1, <1>1, <1>4 DEF FinishInv, Served
<1>9. TransferInv' /\ WokenIsServed'
  BY <1>1, <1>2 DEF TransferInv, WokenIsServed, Served
<1> QED
  BY <1>6, <1>7, <1>8, <1>9 DEF IInv

-----------------------------------------------------------------------------
(* The worker.                                                              *)

(* What the worker serves is the oldest request that is waiting.            *)
LEMMA Serving ==
    ASSUME IInv, step = "update", ring # <<>>
    PROVE  /\ Waiting = ring /\ ring \in Seq(Client)
           /\ Len(ring) \in Nat /\ Len(ring) > 0
           /\ DOMAIN ring = 1..Len(ring)
           /\ \A i \in 1..Len(ring) : ring[i] \in Client /\ Pending(ring[i])
           /\ Head(ring) = ring[1] /\ Head(ring) \in Client
           /\ Pending(Head(ring))
           /\ Tail(ring) \in Seq(Client)
           /\ Len(Tail(ring)) = Len(ring) - 1
           /\ DOMAIN Tail(ring) = 1..(Len(ring) - 1)
           /\ \A i \in 1..(Len(ring) - 1) : /\ Tail(ring)[i] = ring[i + 1]
                                            /\ Tail(ring)[i] \in Client
                                            /\ Tail(ring)[i] # Head(ring)
<1>1. Waiting = ring /\ ring \in Seq(Client)
  BY WaitingType DEF IInv
<1>2. /\ Len(ring) \in Nat /\ Len(ring) > 0
      /\ DOMAIN ring = 1..Len(ring)
      /\ Head(ring) = ring[1]
      /\ Tail(ring) \in Seq(Client)
      /\ Len(Tail(ring)) = Len(ring) - 1
      /\ DOMAIN Tail(ring) = 1..(Len(ring) - 1)
      /\ \A i \in 1..(Len(ring) - 1) : Tail(ring)[i] = ring[i + 1]
  BY <1>1, TailCells
<1>3. \A i \in 1..Len(ring) : ring[i] \in Client /\ Pending(ring[i])
  BY <1>1, <1>2 DEF IInv, WaitingInv
<1>4. Head(ring) \in Client /\ Pending(Head(ring))
  BY <1>2, <1>3
<1>5. ASSUME NEW i \in 1..(Len(ring) - 1)
      PROVE  Tail(ring)[i] \in Client /\ Tail(ring)[i] # Head(ring)
  <2>1. i + 1 \in DOMAIN ring /\ 1 \in DOMAIN ring /\ i + 1 # 1
    BY <1>2
  <2>2. ring[i + 1] # ring[1]
    BY <2>1, <1>1 DEF IInv, WaitingInv
  <2> QED
    BY <2>1, <2>2, <1>2, <1>3
<1> QED
  BY <1>1, <1>2, <1>3, <1>4, <1>5

(* The request that is answered is no longer waiting, the others are.       *)
LEMMA StepFinish ==
    ASSUME IInv, step = "update", ring # <<>>, current = Worker,
           NEW result \in Nat \cup {EIO},
           NEW block \in {NoBlock} \cup 0..(Blocks - 1),
           Finish(Head(ring), result, block),
           UNCHANGED <<schedVars, ring, pc>>, transfered' \in Nat
    PROVE  IInv'
<1> DEFINE p == Head(ring)
<1>1. /\ TypeOK /\ CurrentReady /\ WaitingInv /\ FinishInv /\ TransferInv
      /\ WokenIsServed
      /\ step' = "wake"
      /\ UNCHANGED <<state, runq, current, ring, pc>>
      /\ req' = [req EXCEPT ![p] = [@ EXCEPT !.buffer = block,
                                             !.offset = result, !.status = 1]]
  BY DEF IInv, Finish, schedVars
<1>2. p \in Client /\ Pending(p) /\ InCall(p)
  BY Serving DEF Pending
<1> HIDE DEF p
<1>3. /\ req' \in [Client -> Request] /\ req'[p].status = 1
      /\ \A q \in Client \ {p} : req'[q] = req[q]
  <2>1. req[p] \in Request
    BY <1>1, <1>2 DEF TypeOK
  <2>2. [req[p] EXCEPT !.buffer = block, !.offset = result, !.status = 1]
           \in Request
    BY <2>1 DEF Request
  <2> QED
    BY <2>1, <2>2, <1>1, <1>2 DEF TypeOK, Request
<1>4. TypeOK' /\ CurrentReady'
  BY <1>1, <1>3 DEF TypeOK, SchedTypeOK, CurrentReady
<1>5. WaitingInv'
  <2>1. Waiting' = Tail(ring)
    BY <1>1 DEF Waiting
  <2>2. /\ DOMAIN ring = 1..Len(ring) /\ Len(ring) \in Nat /\ Waiting = ring
        /\ DOMAIN Tail(ring) = 1..(Len(ring) - 1)
        /\ \A i \in 1..Len(ring) : Pending(ring[i])
        /\ \A i \in 1..(Len(ring) - 1) : /\ Tail(ring)[i] = ring[i + 1]
                                         /\ Tail(ring)[i] \in Client
                                         /\ Tail(ring)[i] # p
    BY Serving DEF p
  <2>3. ASSUME NEW i \in DOMAIN Tail(ring), NEW j \in DOMAIN Tail(ring),
               Tail(ring)[i] = Tail(ring)[j]
        PROVE  i = j
    <3>1. i + 1 \in DOMAIN ring /\ j + 1 \in DOMAIN ring
          /\ ring[i + 1] = ring[j + 1]
      BY <2>2, <2>3
    <3>2. i + 1 = j + 1
      BY <3>1, <2>2, <1>1 DEF WaitingInv
    <3> QED
      BY <3>2, <2>2
  <2>4. ASSUME NEW i \in DOMAIN Tail(ring)
        PROVE  Pending(Tail(ring)[i])'
    <3>1. i + 1 \in 1..Len(ring)
      BY <2>2
    <3>2. Pending(Tail(ring)[i]) /\ Tail(ring)[i] \in Client \ {p}
      BY <3>1, <2>2
    <3> QED
      BY <3>2, <1>1, <1>3 DEF Pending, InCall
  <2> QED
    BY <2>1, <2>3, <2>4 DEF WaitingInv
<1>6. FinishInv' /\ TransferInv'
  BY <1>1, <1>2, <1>3 DEF FinishInv, TransferInv, InCall, Served, p
<1>7. WokenIsServed'
  BY <1>1, <1>3 DEF WokenIsServed, Served
<1> QED
  BY <1>4, <1>5, <1>6, <1>7 DEF IInv

(* The last block has the request finished with its count.                  *)
LEMMA TransferCounts ==
    ASSUME IInv, Transfer
    PROVE  /\ step = "update" /\ current = Worker /\ ring # <<>>
           /\ req[Head(ring)] \in Request /\ Head(ring) \in Client
           /\ req[Head(ring)].op = "read" /\ req[Head(ring)].offset \in Nat
           /\ req[Head(ring)].count \in Nat /\ transfered \in Nat
           /\ transfered < req[Head(ring)].count
           /\ req[Head(ring)].offset + transfered \in 0..(Blocks - 1)
           /\ transfered' = transfered + 1
           /\ UNCHANGED <<schedVars, ring, pc>>
<1>1. /\ step = "update" /\ current = Worker /\ ring # <<>> /\ TypeOK
      /\ req[Head(ring)].op = "read"
      /\ req[Head(ring)].offset + transfered < Blocks
      /\ transfered' = transfered + 1
      /\ UNCHANGED <<schedVars, ring, pc>>
  BY DEF Transfer, Working, IInv
<1>2. Head(ring) \in Client /\ Pending(Head(ring))
  BY <1>1, Serving
<1>3. /\ req[Head(ring)] \in Request /\ transfered \in Nat
      /\ req[Head(ring)].count \in Nat
  BY <1>1, <1>2 DEF TypeOK, Request
<1>4. req[Head(ring)].offset \in Nat /\ req[Head(ring)].count > 0
  BY <1>2 DEF Pending
<1>5. transfered < req[Head(ring)].count
  BY <1>1, <1>3, <1>4 DEF IInv, TransferInv
<1>6. req[Head(ring)].offset + transfered \in 0..(Blocks - 1)
  <2>1. \A o, t, n \in Nat : o + t < n => o + t \in 0..(n - 1)
    OBVIOUS
  <2>2. Blocks \in Nat
    BY Bounds
  <2> QED
    BY <2>1, <2>2, <1>1, <1>3, <1>4, Zenon
<1> QED
  BY <1>1, <1>2, <1>3, <1>4, <1>5, <1>6, Zenon

LEMMA StepTransfer ==
    ASSUME IInv, Transfer
    PROVE  IInv'
<1> DEFINE p == Head(ring)
           lba == req[p].offset + transfered
<1>1. /\ step = "update" /\ current = Worker /\ ring # <<>>
      /\ req[p] \in Request /\ p \in Client
      /\ req[p].op = "read" /\ req[p].offset \in Nat
      /\ req[p].count \in Nat /\ transfered \in Nat
      /\ transfered < req[p].count
      /\ lba \in 0..(Blocks - 1)
      /\ transfered' = transfered + 1
      /\ UNCHANGED <<schedVars, ring, pc>>
  BY TransferCounts
<1>2. CASE transfered + 1 >= req[p].count
  <2>1. Finish(p, transfered + 1, lba)
    BY <1>2 DEF Transfer
  <2>2. transfered + 1 \in Nat
    BY <1>1
  <2> HIDE DEF lba
  <2> QED
    BY <2>1, <2>2, <1>1, StepFinish
<1>3. CASE ~(transfered + 1 >= req[p].count)
  <2>1. /\ req' = [req EXCEPT ![p].buffer = lba] /\ step' = step
        /\ UNCHANGED <<state, runq, current, ring, pc>>
    BY <1>3, <1>1 DEF Transfer, schedVars
  <2>2. TypeOK /\ CurrentReady /\ WaitingInv /\ FinishInv /\ WokenIsServed
        /\ Waiting = ring /\ \A i \in DOMAIN ring : ring[i] \in Client
    BY <1>1, Serving DEF IInv
  <2> HIDE DEF p, lba
  <2>3. /\ req' \in [Client -> Request]
        /\ req'[p].op = req[p].op /\ req'[p].count = req[p].count
        /\ req'[p].offset = req[p].offset /\ req'[p].status = req[p].status
        /\ \A q \in Client \ {p} : req'[q] = req[q]
    BY <1>1, <2>1, <2>2 DEF TypeOK, Request
  <2>4. TypeOK' /\ CurrentReady'
    BY <1>1, <2>1, <2>2, <2>3 DEF TypeOK, SchedTypeOK, CurrentReady
  <2>5. \A q \in Client : Pending(q) => Pending(q)'
    BY <2>1, <2>3 DEF Pending, InCall
  <2>6. WaitingInv'
    BY <1>1, <2>1, <2>2, <2>5 DEF WaitingInv, Waiting
  <2>7. FinishInv' /\ WokenIsServed'
    BY <1>1, <2>1, <2>2, <2>3 DEF FinishInv, WokenIsServed, Served
  <2>8. TransferInv'
    <3>1. p = Head(ring')
      BY <2>1 DEF p
    <3>2. req'[p].op = "read" /\ transfered' < req'[p].count
          /\ req'[p].offset + transfered' <= Blocks
      BY <1>1, <1>3, <2>3, Bounds DEF lba
    <3> QED
      BY <3>1, <3>2, <1>1, <2>1 DEF TransferInv
  <2> QED
    BY <2>4, <2>6, <2>7, <2>8 DEF IInv
<1> QED
  BY <1>2, <1>3

LEMMA StepRefuse ==
    ASSUME IInv, Refuse
    PROVE  IInv'
<1>1. /\ step = "update" /\ current = Worker /\ ring # <<>> /\ TypeOK
      /\ Finish(Head(ring), EIO, req[Head(ring)].buffer)
      /\ UNCHANGED <<schedVars, ring, pc>> /\ transfered' = transfered
  BY DEF Refuse, Working, IInv
<1>2. transfered' \in Nat /\ req[Head(ring)] \in Request
  BY <1>1, Serving DEF TypeOK
<1>3. req[Head(ring)].buffer \in {NoBlock} \cup 0..(Blocks - 1)
  BY <1>2 DEF Request
<1> QED
  BY <1>1, <1>2, <1>3, StepFinish

LEMMA StepWake ==
    ASSUME IInv, Wake
    PROVE  IInv'
<1> DEFINE p == Head(ring)
<1>1. /\ TypeOK /\ CurrentReady /\ WaitingInv /\ FinishInv /\ TransferInv
      /\ WokenIsServed
      /\ current \in Proc /\ step = "wake" /\ step' = "dequeue"
      /\ state' = [state EXCEPT ![p] = "READY"]
      /\ Switch(Enqueue(runq, p), state')
      /\ UNCHANGED <<ring, req, pc, transfered>>
  BY Bounds DEF IInv, Wake, Working, ProcUnblock, callVars
<1>2. p \in Client /\ p \in Proc /\ Served(p) /\ ring # <<>>
  BY <1>1, Bounds, WaitingType, TailCells DEF FinishInv
<1> HIDE DEF p
<1>3. /\ state' \in [Proc -> ProcState] /\ state'[p] = "READY"
      /\ \A q \in Client \ {p} : state'[q] = state[q]
  BY <1>1, <1>2, Bounds DEF TypeOK, SchedTypeOK, ProcState
<1>4. SchedTypeOK' /\ CurrentReady'
  <2>1. Enqueue(runq, p) \in Seq(Proc) /\ Len(Enqueue(runq, p)) <= QueueSize
    BY <1>1, <1>2, EnqueueType DEF TypeOK, SchedTypeOK
  <2> QED
    BY <2>1, <1>1, <1>3, SwitchKeeps
<1>5. TypeOK'
  BY <1>1, <1>4 DEF TypeOK
<1>6. Waiting' = Waiting /\ \A i \in DOMAIN Waiting : Waiting[i] \in Client
  BY <1>1, WaitingType DEF Waiting
<1>7. \A q \in Client : Pending(q) => Pending(q)'
  BY <1>1, <1>2, <1>3 DEF Pending, InCall, Served
<1>8. WaitingInv'
  BY <1>1, <1>6, <1>7 DEF WaitingInv
<1>9. FinishInv' /\ TransferInv'
  BY <1>1 DEF FinishInv, TransferInv
<1>10. WokenIsServed'
  BY <1>1, <1>2, <1>3 DEF WokenIsServed, Served
<1> QED
  BY <1>4, <1>5, <1>8, <1>9, <1>10 DEF IInv

LEMMA StepDequeue ==
    ASSUME IInv, Dequeue
    PROVE  IInv'
<1>1. /\ TypeOK /\ CurrentReady /\ WaitingInv /\ FinishInv /\ WokenIsServed
      /\ step = "dequeue" /\ step' = "update"
      /\ ring' = Tail(ring) /\ transfered' = 0
      /\ UNCHANGED <<state, runq, current, req, pc>>
  BY DEF IInv, Dequeue, Working, schedVars
<1>2. /\ ring' \in Seq(Client) /\ Len(ring') <= QueueLen
      /\ Waiting' = Waiting /\ \A i \in DOMAIN Waiting : Waiting[i] \in Client
  <2>1. /\ Waiting = Tail(ring) /\ ring # <<>> /\ ring \in Seq(Client)
        /\ \A i \in DOMAIN Waiting : Waiting[i] \in Client
    BY <1>1, WaitingType
  <2>2. Tail(ring) \in Seq(Client) /\ Len(Tail(ring)) = Len(ring) - 1
        /\ Len(ring) \in Nat
    BY <2>1, TailCells
  <2>3. Len(ring) <= QueueLen
    BY <1>1 DEF TypeOK
  <2> QED
    BY <2>1, <2>2, <2>3, <1>1, Bounds DEF Waiting
<1>3. TypeOK' /\ CurrentReady'
  BY <1>1, <1>2 DEF TypeOK, SchedTypeOK, CurrentReady
<1>4. WaitingInv'
  BY <1>1, <1>2 DEF WaitingInv, Pending, InCall
<1>5. FinishInv' /\ TransferInv' /\ WokenIsServed'
  BY <1>1 DEF FinishInv, TransferInv, WokenIsServed, Served
<1> QED
  BY <1>3, <1>4, <1>5 DEF IInv

-----------------------------------------------------------------------------

(* The invariant holds at first.                                            *)
LEMMA InitIInv == Init => IInv
<1> SUFFICES ASSUME Init PROVE IInv
  OBVIOUS
<1>1. runq \in Seq(Proc) /\ Len(runq) <= QueueSize
  <2>1. runq \in [1..(Cardinality(Proc) - 1) -> Client]
    BY DEF Init
  <2>2. Cardinality(Proc) - 1 \in Nat
    BY Bounds
  <2>3. runq \in [1..(Cardinality(Proc) - 1) -> Proc]
    BY <2>1, Bounds
  <2>4. runq \in Seq(Proc) /\ Len(runq) = Cardinality(Proc) - 1
    BY <2>2, <2>3
  <2> QED
    BY <2>4, Bounds
<1>2. ring \in Seq(Client) /\ Len(ring) = 0 /\ ring = <<>> /\ DOMAIN ring = {}
  BY DEF Init
<1>3. SchedTypeOK
  BY <1>1, Bounds DEF Init, SchedTypeOK, ProcState
<1>4. req \in [Client -> Request]
  BY DEF Init, Request
<1>5. TypeOK
  BY <1>2, <1>3, <1>4, Bounds DEF Init, TypeOK
<1>6. CurrentReady
  BY Bounds DEF Init, CurrentReady
<1>7. WaitingInv
  BY <1>2 DEF Init, WaitingInv, Waiting
<1>8. FinishInv /\ TransferInv /\ WokenIsServed
  BY DEF Init, FinishInv, TransferInv, WokenIsServed
<1> QED
  BY <1>5, <1>6, <1>7, <1>8 DEF IInv

LEMMA StutterIInv == IInv /\ UNCHANGED vars => IInv'
BY DEF IInv, vars, schedVars, callVars, TypeOK, SchedTypeOK, CurrentReady,
       WaitingInv, Waiting, Pending, InCall, FinishInv, Served, TransferInv,
       WokenIsServed

(* What the theorems rest on.                                               *)
THEOREM Invariance == Spec => []IInv
<1>1. IInv /\ [Next]_vars => IInv'
  BY StutterIInv, StepTick, StepAsk, StepBlock, StepReturn, StepTransfer,
     StepRefuse, StepWake, StepDequeue DEF Next, Work
<1> QED
  BY <1>1, InitIInv, PTL DEF Spec

(* Requests and results keep their types, the ring holds callers and does   *)
(* not outgrow its array, whatever is asked of a disk of whatever size.     *)
THEOREM TypeCorrect == Spec => []TypeOK
<1>1. IInv => TypeOK
  BY DEF IInv
<1> QED
  BY <1>1, Invariance, PTL

(* The ring has a free cell for every call, although a caller may ask again *)
(* before its last request is off the ring, if it has as many cells as      *)
(* there are processes, the worker counted: with one fewer, the other       *)
(* callers and the old request of the one that asks fill it.                *)
THEOREM RingHasRoom == Spec => []NeverRefused
<1>1. IInv => NeverRefused
  BY RoomInRing DEF IInv, NeverRefused
<1> QED
  BY <1>1, Invariance, PTL

(* Nobody returns from device_read or device_write without its answer.      *)
THEOREM Answered == Spec => []WokenIsServed
<1>1. IInv => WokenIsServed
  BY DEF IInv
<1> QED
  BY <1>1, Invariance, PTL

-----------------------------------------------------------------------------
(* The driver implements DeviceAbs.                                         *)

What == [op : {"read", "write"}, offset : Nat \cup {EIO}, count : Nat]
Asking == [who : Client, what : What]

(* The call of p, as the requests r have it.                                *)
CallOf(r, p) ==
    [who  |-> p,
     what |-> [op |-> r[p].op, offset |-> r[p].offset, count |-> r[p].count]]

CallsOf(r, w) == [i \in DOMAIN w |-> CallOf(r, w[i])]

(* The calls of the callers are calls as DeviceAbs knows them.              *)
LEMMA CallsType ==
    ASSUME NEW w \in Seq(Client), NEW r \in [Client -> Request]
    PROVE  /\ CallsOf(r, w) \in Seq(Asking)
           /\ Len(CallsOf(r, w)) = Len(w) /\ Len(w) \in Nat
           /\ DOMAIN CallsOf(r, w) = 1..Len(w)
           /\ \A i \in 1..Len(w) : /\ w[i] \in Client
                                   /\ CallsOf(r, w)[i] = CallOf(r, w[i])
<1>1. Len(w) \in Nat /\ DOMAIN w = 1..Len(w)
      /\ \A i \in 1..Len(w) : w[i] \in Client
  OBVIOUS
<1>2. \A p \in Client : CallOf(r, p) \in Asking
  BY DEF Request, CallOf, Asking, What
<1>3. CallsOf(r, w) \in [1..Len(w) -> Asking]
  BY <1>1, <1>2 DEF CallsOf
<1>4. CallsOf(r, w) \in Seq(Asking) /\ Len(CallsOf(r, w)) = Len(w)
  BY <1>1, <1>3
<1> QED
  BY <1>1, <1>3, <1>4 DEF CallsOf

(* The calls of the abstract device are the requests that wait.             *)
LEMMA AsksAre ==
    Asks = CallsOf(req, Waiting) /\ Asks' = CallsOf(req', Waiting')
BY DEF Asks, Asked, CallOf, CallsOf

(* A step that neither queues nor answers a request is not seen.            *)
LEMMA Unseen ==
    ASSUME IInv, Waiting' = Waiting,
           \A p \in Client : /\ req'[p].op = req[p].op
                             /\ req'[p].offset = req[p].offset
                             /\ req'[p].count = req[p].count
                             /\ req'[p].status = req[p].status
                             /\ Served(p) => req'[p].buffer = req[p].buffer
                             /\ pc[p] = "run" <=> pc'[p] = "run"
    PROVE  UNCHANGED Abs!absVars
<1>1. Asks' = Asks
  <2>1. \A i \in DOMAIN Waiting : Waiting[i] \in Client
    BY WaitingType DEF IInv
  <2> QED
    BY <2>1 DEF Asks, Asked
<1>2. Answers' = Answers
  <2>1. \A p \in Client : Answer(p)' = Answer(p)
    BY DEF Answer, Served
  <2> QED
    BY <2>1 DEF Answers
<1> QED
  BY <1>1, <1>2 DEF Abs!absVars

(* Ask is the abstract Ask of whoever runs.                                 *)
LEMMA AskRefines ==
    ASSUME IInv, NEW c \in Call, Ask(c)
    PROVE  Abs!Ask(current, c) /\ current \in Client
<1> DEFINE n == Len(Waiting)
           e == [who |-> current, what |-> c]
<1>1. /\ current \in Client /\ pc[current] = "run"
      /\ Waiting' = Append(Waiting, current)
      /\ \A i \in DOMAIN Waiting : Waiting[i] # current
      /\ req'[current] = [op |-> c.op, count |-> c.count,
                          offset |-> c.offset, status |-> 0,
                          buffer |-> NoBlock]
      /\ \A q \in Client \ {current} : req'[q] = req[q] /\ pc'[q] = pc[q]
      /\ pc'[current] = "asked" /\ current' = current
      /\ req' \in [Client -> Request]
  BY AskQueues
<1>2. Waiting \in Seq(Client) /\ req \in [Client -> Request]
  BY WaitingType DEF IInv, TypeOK
<1>3. /\ Asks \in Seq(Asking) /\ Len(Asks) = n /\ n \in Nat
      /\ DOMAIN Asks = 1..n /\ DOMAIN Waiting = 1..n
      /\ \A i \in 1..n : Waiting[i] \in Client
                         /\ Asks[i] = CallOf(req, Waiting[i])
  BY <1>2, AsksAre, CallsType
<1>4. /\ Waiting' \in Seq(Client)
      /\ Len(Waiting') = n + 1 /\ Waiting'[n + 1] = current
      /\ \A i \in 1..n : Waiting'[i] = Waiting[i]
  BY <1>1, <1>2, AppendCells
<1>5. /\ Asks' \in Seq(Asking) /\ Len(Asks') = n + 1
      /\ \A i \in 1..(n + 1) : Asks'[i] = CallOf(req', Waiting'[i])
  BY <1>1, <1>4, AsksAre, CallsType
<1>6. \A i \in 1..n : Asks'[i] = Asks[i]
  <2> TAKE i \in 1..n
  <2>1. i \in 1..(n + 1) /\ Waiting[i] \in Client \ {current}
    BY <1>1, <1>3
  <2>2. req'[Waiting[i]] = req[Waiting[i]]
    BY <2>1, <1>1
  <2>3. Asks'[i] = CallOf(req', Waiting[i])
    BY <2>1, <1>4, <1>5
  <2> QED
    BY <2>2, <2>3, <1>3 DEF CallOf
<1>7. c = [op |-> c.op, offset |-> c.offset, count |-> c.count]
  BY Bounds
<1>8. Asks'[n + 1] = e /\ e \in Asking
  <2>1. n + 1 \in 1..(n + 1)
    BY <1>3
  <2>2. Asks'[n + 1] = CallOf(req', current)
    BY <2>1, <1>4, <1>5
  <2>3. CallOf(req', current) =
          [who |-> current,
           what |-> [op |-> c.op, offset |-> c.offset, count |-> c.count]]
    BY <1>1 DEF CallOf
  <2>4. Asks'[n + 1] \in Asking
    BY <2>1, <1>5
  <2> QED
    BY <2>2, <2>3, <2>4, <1>7
<1> HIDE DEF n, e
<1>9. Asks' = Append(Asks, e)
  BY <1>3, <1>5, <1>6, <1>8, IsAppend
<1>10. ~Abs!Waits(current)
  BY <1>1, <1>3 DEF Abs!Waits, CallOf
<1>11. Answers' = Answers /\ Answers[current] = {}
  <2>1. Answer(current) = {} /\ Answer(current)' = {}
    BY <1>1 DEF Answer, Served
  <2>2. \A q \in Client \ {current} : Answer(q)' = Answer(q)
    BY <1>1 DEF Answer, Served
  <2> QED
    BY <2>1, <2>2, <1>1 DEF Answers
<1> QED
  BY <1>1, <1>9, <1>10, <1>11 DEF Abs!Ask, e

(* The end of a request is the abstract Serve, if the result is right.      *)
LEMMA FinishRefines ==
    ASSUME IInv, step = "update", ring # <<>>, current = Worker,
           NEW result \in Nat \cup {EIO},
           NEW block \in {NoBlock} \cup 0..(Blocks - 1),
           Finish(Head(ring), result, block),
           UNCHANGED <<schedVars, ring, pc>>, transfered' \in Nat,
           Abs!Reply(CallOf(req, Head(ring)).what) =
               IF result = EIO THEN {[result |-> EIO]}
               ELSE {[result |-> result, block |-> block]}
    PROVE  Abs!Serve
<1> DEFINE p == Head(ring)
           n == Len(ring)
<1>1. /\ Waiting = ring /\ ring \in Seq(Client) /\ n \in Nat /\ n > 0
      /\ p = ring[1] /\ p \in Client /\ Pending(p)
      /\ Tail(ring) \in Seq(Client) /\ Len(Tail(ring)) = n - 1
      /\ \A i \in 1..(n - 1) : /\ Tail(ring)[i] = ring[i + 1]
                               /\ Tail(ring)[i] \in Client \ {p}
  BY Serving
<1>2. /\ IInv' /\ step' = "wake" /\ ring' = ring /\ pc' = pc
      /\ req' = [req EXCEPT ![p] = [@ EXCEPT !.buffer = block,
                                             !.offset = result, !.status = 1]]
      /\ req \in [Client -> Request]
  BY StepFinish DEF Finish, IInv, TypeOK
<1>3. /\ \A q \in Client \ {p} : req'[q] = req[q]
      /\ req'[p].status = 1 /\ req'[p].offset = result
      /\ req'[p].buffer = block /\ req' \in [Client -> Request]
  <2>1. \A q \in Client \ {p} : req'[q] = req[q]
    BY <1>1, <1>2
  <2>2. req[p] \in Request
    BY <1>1, <1>2
  <2> HIDE DEF p
  <2>3. /\ req'[p].status = 1 /\ req'[p].offset = result
        /\ req'[p].buffer = block
    BY <2>2, <1>1, <1>2 DEF Request
  <2>4. req' \in [Client -> Request]
    BY <1>2 DEF IInv, TypeOK
  <2> QED
    BY <2>1, <2>3, <2>4
<1>4. Waiting' = Tail(ring)
  BY <1>2 DEF Waiting
<1>5. /\ Asks \in Seq(Asking) /\ Len(Asks) = n
      /\ \A i \in 1..n : Asks[i] = CallOf(req, ring[i])
  BY <1>1, <1>2, AsksAre, CallsType
<1>6. /\ Asks' \in Seq(Asking) /\ Len(Asks') = n - 1
      /\ \A i \in 1..(n - 1) : Asks'[i] = CallOf(req', Tail(ring)[i])
  BY <1>1, <1>3, <1>4, AsksAre, CallsType
<1>7. \A i \in 1..(n - 1) : Asks'[i] = Asks[i + 1]
  <2> TAKE i \in 1..(n - 1)
  <2>1. i + 1 \in 1..n /\ Tail(ring)[i] = ring[i + 1]
        /\ Tail(ring)[i] \in Client \ {p}
    BY <1>1
  <2>2. Asks'[i] = CallOf(req', ring[i + 1])
    BY <2>1, <1>6
  <2>3. Asks[i + 1] = CallOf(req, ring[i + 1])
    BY <2>1, <1>5
  <2>4. req'[ring[i + 1]] = req[ring[i + 1]]
    BY <2>1, <1>3
  <2> QED
    BY <2>2, <2>3, <2>4 DEF CallOf
<1>8. Asks # <<>> /\ Head(Asks) = CallOf(req, p) /\ Asks' = Tail(Asks)
  <2>1. Asks # <<>>
    BY <1>1, <1>5
  <2>2. Head(Asks) = Asks[1] /\ 1 \in 1..n
    BY <1>1, <1>5, <2>1, TailCells
  <2> HIDE DEF n, p
  <2>3. Asks' = Tail(Asks)
    BY <2>1, <1>5, <1>6, <1>7, IsTail
  <2> QED
    BY <2>1, <2>2, <2>3, <1>1, <1>5
<1>9. Answers' = [Answers EXCEPT ![p] = Abs!Reply(CallOf(req, p).what)]
  <2>1. pc[p] # "run"
    BY <1>1 DEF Pending, InCall
  <2>2. Answer(p)' = Abs!Reply(CallOf(req, p).what) /\ p' = p
    BY <2>1, <1>2, <1>3 DEF Answer, Served
  <2> HIDE DEF p
  <2>3. \A q \in Client \ {p} : Answer(q)' = Answer(q)
    BY <1>2, <1>3 DEF Answer, Served
  <2>4. \A q \in Client : q = p => Answer(q)' = Abs!Reply(CallOf(req, p).what)
    BY <2>2
  <2> QED
    BY <2>3, <2>4, <1>1 DEF Answers
<1>10. CallOf(req, p).who = p
  BY DEF CallOf
<1> QED
  BY <1>8, <1>9, <1>10 DEF Abs!Serve

(* A block that is copied: the last one ends the request.                   *)
LEMMA TransferRefines ==
    ASSUME IInv, Transfer
    PROVE  Abs!Serve \/ UNCHANGED Abs!absVars
<1> DEFINE p == Head(ring)
           lba == req[p].offset + transfered
<1>1. /\ step = "update" /\ current = Worker /\ ring # <<>>
      /\ req[p] \in Request /\ p \in Client
      /\ req[p].op = "read" /\ req[p].offset \in Nat
      /\ req[p].count \in Nat /\ transfered \in Nat
      /\ transfered < req[p].count
      /\ lba \in 0..(Blocks - 1)
      /\ transfered' = transfered + 1
      /\ UNCHANGED <<schedVars, ring, pc>>
  BY TransferCounts
<1>2. CASE transfered + 1 >= req[p].count
  <2>1. Finish(p, transfered + 1, lba)
    BY <1>2 DEF Transfer
  <2>2. lba = req[p].offset + transfered
    OBVIOUS
  <2> HIDE DEF p, lba
  <2>3. /\ transfered + 1 = req[p].count /\ transfered + 1 \in Nat
        /\ transfered + 1 # EIO
        /\ req[p].offset + req[p].count <= Blocks
        /\ req[p].offset + req[p].count - 1 = lba
    <3>1. /\ req[p].count \in Nat /\ req[p].offset \in Nat
          /\ transfered \in Nat /\ transfered < req[p].count
          /\ lba < Blocks /\ lba \in Int
          /\ Blocks \in Int /\ EIO \in Int /\ EIO < 0
      BY <1>1, Bounds
    <3>2. transfered + 1 = req[p].count
      BY <3>1, <1>2
    <3>3. req[p].offset + req[p].count <= Blocks
      BY <3>1, <3>2, <2>2
    <3>4. req[p].offset + req[p].count - 1 = lba
      BY <3>1, <3>2, <2>2
    <3>5. transfered + 1 \in Nat /\ transfered + 1 # EIO
      BY <3>1
    <3> QED
      BY <3>2, <3>3, <3>4, <3>5
  <2>4. Abs!Reply(CallOf(req, p).what) =
            {[result |-> transfered + 1, block |-> lba]}
    <3> DEFINE c == CallOf(req, p).what
    <3>1. /\ c.op = "read" /\ c.count = transfered + 1
          /\ c.offset + c.count <= Blocks /\ c.offset + c.count - 1 = lba
          /\ c.offset + c.count \in Int
      BY <2>3, <1>1 DEF CallOf
    <3> HIDE DEF c
    <3>2. ~(c.op = "write" \/ c.offset + c.count > Blocks)
      BY <3>1, Bounds
    <3>3. Abs!Reply(c) =
              {[result |-> c.count, block |-> c.offset + c.count - 1]}
      BY <3>2 DEF Abs!Reply
    <3> QED
      BY <3>1, <3>3 DEF c
  <2> USE DEF p
  <2> QED
    BY <2>1, <2>3, <2>4, <1>1, FinishRefines
<1>3. CASE ~(transfered + 1 >= req[p].count)
  <2>1. /\ req' = [req EXCEPT ![p].buffer = lba] /\ step' = step
        /\ ring' = ring /\ pc' = pc
    BY <1>3, <1>1 DEF Transfer, schedVars
  <2>2. Pending(p) /\ req \in [Client -> Request]
    BY <1>1, Serving DEF IInv, TypeOK
  <2> HIDE DEF p, lba
  <2>3. /\ req'[p].op = req[p].op /\ req'[p].count = req[p].count
        /\ req'[p].offset = req[p].offset /\ req'[p].status = req[p].status
        /\ \A q \in Client \ {p} : req'[q] = req[q]
    BY <1>1, <2>1, <2>2 DEF Request
  <2>4. Waiting' = Waiting
    BY <2>1 DEF Waiting
  <2>5. ~Served(p)
    BY <2>2 DEF Pending, Served
  <2> QED
    BY <2>1, <2>3, <2>4, <2>5, Unseen
<1> QED
  BY <1>2, <1>3

(* A write, or a call that runs over the end of the disk.                   *)
LEMMA RefuseRefines ==
    ASSUME IInv, Refuse
    PROVE  Abs!Serve
<1> DEFINE p == Head(ring)
<1>1. /\ step = "update" /\ current = Worker /\ ring # <<>>
      /\ req[p].op = "write" \/ req[p].offset + transfered >= Blocks
      /\ Finish(p, EIO, req[p].buffer)
      /\ UNCHANGED <<schedVars, ring, pc>> /\ transfered' = transfered
  BY DEF Refuse, Working
<1>2. p \in Client /\ Pending(p) /\ req[p] \in Request /\ transfered \in Nat
  BY <1>1, Serving DEF IInv, TypeOK
<1>3. /\ req[p].buffer \in {NoBlock} \cup 0..(Blocks - 1)
      /\ req[p].offset \in Nat /\ req[p].count \in Nat /\ req[p].count > 0
  BY <1>2 DEF Request, Pending
<1>4. req[p].op = "write" \/ req[p].offset + req[p].count > Blocks
  <2>1. transfered = 0 \/ transfered < req[p].count
    BY <1>1 DEF IInv, TransferInv
  <2>2. \A o, t, c, n \in Nat :
           (t = 0 \/ t < c) /\ c > 0 /\ o + t >= n => o + c > n
    OBVIOUS
  <2>3. Blocks \in Nat
    BY Bounds
  <2> QED
    BY <2>1, <2>2, <2>3, <1>1, <1>2, <1>3, Zenon
<1>5. Abs!Reply(CallOf(req, p).what) = {[result |-> EIO]}
  BY <1>4 DEF Abs!Reply, CallOf
<1> HIDE DEF p
<1> QED
  BY <1>1, <1>2, <1>3, <1>5, FinishRefines DEF p

(* A caller that returns takes its answer with it.                          *)
LEMMA ReturnRefines ==
    ASSUME IInv, Return
    PROVE  Abs!Return(current) /\ current \in Client
<1>1. /\ current \in Client /\ pc[current] = "waiting"
      /\ state[current] = "READY" /\ WokenIsServed
      /\ pc' = [pc EXCEPT ![current] = "run"]
      /\ UNCHANGED <<ring, req, step>> /\ current' = current
      /\ pc \in [Client -> {"run", "asked", "waiting"}]
  BY Bounds DEF IInv, Return, At, Goto, schedVars, CurrentReady, TypeOK
<1>2. /\ \A q \in Client \ {current} : pc'[q] = pc[q]
      /\ pc'[current] = "run" /\ Served(current)
  BY <1>1 DEF WokenIsServed
<1>3. Asks' = Asks
  BY <1>1 DEF Asks, Asked, Waiting
<1>4. Answer(current) # {} /\ Answer(current)' = {}
  BY <1>1, <1>2 DEF Answer
<1>5. \A q \in Client \ {current} : Answer(q)' = Answer(q)
  BY <1>1, <1>2 DEF Answer, Served
<1>6. Answers' = [Answers EXCEPT ![current] = {}] /\ Answers[current] # {}
  BY <1>1, <1>4, <1>5 DEF Answers
<1> QED
  BY <1>1, <1>3, <1>6 DEF Abs!Return

(* The steps of the abstract device, and those it does not see.             *)
LEMMA StepRefines ==
    ASSUME IInv, [Next]_vars
    PROVE  [Abs!Next]_(Abs!absVars)
<1>1. CASE Tick \/ Block \/ Wake \/ UNCHANGED vars
  <2>1. /\ UNCHANGED <<ring, req>>
        /\ \A p \in Client : pc[p] = "run" <=> pc'[p] = "run"
    BY <1>1 DEF Tick, Block, Wake, vars, callVars, At, Goto, IInv, TypeOK
  <2>2. Waiting' = Waiting
    BY <1>1, <2>1 DEF Tick, Block, Wake, vars, Working, Waiting
  <2> QED
    BY <2>1, <2>2, Unseen
<1>2. CASE Dequeue
  <2>1. step = "dequeue" /\ step' = "update" /\ ring' = Tail(ring)
        /\ UNCHANGED <<req, pc>>
    BY <1>2 DEF Dequeue, Working
  <2>2. Waiting' = Waiting
    BY <2>1 DEF Waiting
  <2> QED
    BY <2>1, <2>2, Unseen
<1>3. CASE \E c \in Call : Ask(c)
  BY <1>3, AskRefines DEF Abs!Next
<1>4. CASE Return
  BY <1>4, ReturnRefines DEF Abs!Next
<1>5. CASE Transfer
  BY <1>5, TransferRefines DEF Abs!Next
<1>6. CASE Refuse
  BY <1>6, RefuseRefines DEF Abs!Next
<1> QED
  BY <1>1, <1>2, <1>3, <1>4, <1>5, <1>6 DEF Next, Work

(* At first nobody has asked.                                               *)
LEMMA InitRefines == Init => Abs!Init
<1> SUFFICES ASSUME Init PROVE Abs!Init
  OBVIOUS
<1>1. Asks = <<>>
  BY DEF Init, Asks, Waiting
<1>2. Answers = [p \in Client |-> {}]
  BY DEF Init, Answers, Answer
<1> QED
  BY <1>1, <1>2 DEF Abs!Init

(* The ring, the requests on the stacks of the callers, the block-by-block  *)
(* copying and the wake-ups together behave as DeviceAbs: calls are         *)
(* answered one at a time, in order, each with its own answer, for any      *)
(* number of callers and any disk.                                          *)
THEOREM DeviceRefines == Spec => ImplementsDevice
<1>1. IInv /\ [Next]_vars => [Abs!Next]_(Abs!absVars)
  BY StepRefines
<1> QED
  BY <1>1, InitRefines, Invariance, PTL DEF Spec, ImplementsDevice, Abs!Spec
=============================================================================
