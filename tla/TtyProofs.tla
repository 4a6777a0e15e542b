----------------------------- MODULE TtyProofs -----------------------------
(***************************************************************************)
(* The tty for any number of processes, calls, keys and texts, and rings   *)
(* of any length: newlines are expanded once, the callers' buffers are not *)
(* overrun, and who is popped alive is the only one made READY when dead.  *)
(***************************************************************************)
EXTENDS Tty, SequenceTheorems, TLAPS

State == {"user", "blocked", "zombie"}

Requests == [waiter : Process \cup {Nobody}, write : BOOLEAN,
             text : Seq(Char), count : Nat]

(* A request to write names its text from end to end. *)
WellFormed(q) ==
    /\ q \in Seq(Requests)
    /\ \A i \in 1..Len(q) : q[i].write => Len(q[i].text) = q[i].count

(* Whoever a request is to wake is blocked, for this one. *)
Awaited(q, st) ==
    /\ \A i \in 1..Len(q) :
          q[i].waiter \in Process => st[q[i].waiter] = "blocked"
    /\ \A i, j \in 1..Len(q) :
          q[i].waiter \in Process /\ q[i].waiter = q[j].waiter => i = j

(* A queue is never longer than the calls that were made. *)
Queued ==
    /\ WellFormed(queue)
    /\ Awaited(queue, state)
    /\ calls \in 0..MaxCalls /\ Len(queue) <= calls

(* Without a request, nothing is done of one. *)
Idle == queue = <<>> => copied = 0 /\ worker = "update"

Phases == {"update", "newline", "finish", "wake", "dequeue"}

(* Who was popped is not on the queue any more, and is blocked until it is *)
(* woken, unless it is killed before.                                      *)
Answering ==
    /\ popped \in Process \cup {Nobody} /\ late \in BOOLEAN
    /\ worker = "wake" <=> popped # Nobody
    /\ popped # Nobody =>
          /\ state[popped] = "blocked" \/ (late /\ state[popped] = "zombie")
          /\ \A i \in 1..Len(queue) : queue[i].waiter # popped

(* The inductive invariant, by what the actions touch: the requests and    *)
(* how far they are, what is sent, and the rest.                           *)
Serving ==
    /\ Queued
    /\ BufferFits /\ Idle /\ Answering
    /\ copied \in Nat /\ worker \in Phases
    /\ state \in [Process -> State]

Sending ==
    /\ OutputIsExpansion
    /\ tx \in 0..TxMax /\ nl \in Writer \cup {Nobody}
    /\ mixed \in BOOLEAN /\ garbled \in BOOLEAN

Others ==
    /\ rx \in Seq(Key) /\ Len(rx) <= RxMax
    /\ fg \in Process \cup {Nobody}
    /\ put \in Char \cup {NoChar}

IInv == Serving /\ Sending /\ Others

-----------------------------------------------------------------------------
(* What the operators of Tty do. *)

(* The bounds are numbers.                                                  *)
LEMMA BoundsNat == /\ RxMax \in Nat /\ TxMax \in Nat /\ MaxKeys \in Nat
                   /\ MaxCalls \in Nat /\ MaxPuts \in Nat
BY TtyAssumption

(* The bytes of one character.                                              *)
LEMMA AppendOne ==
    ASSUME NEW a, NEW b
    PROVE  Append(<<>>, b) = <<b>> /\ Append(<<a>>, b) = <<a, b>>
<1> DEFINE S == {a, b}
<1>1. a \in S /\ b \in S
  OBVIOUS
<1> HIDE DEF S
<1>2. <<a>> \in Seq(S) /\ Len(<<a>>) = 1
  BY <1>1
<1>3. <<a, b>> \in Seq(S) /\ Len(<<a, b>>) = 2
  BY <1>1
<1>4. /\ Append(<<a>>, b) \in Seq(S) /\ Len(Append(<<a>>, b)) = 2
      /\ Append(<<a>>, b)[1] = a /\ Append(<<a>>, b)[2] = b
  BY <1>1, <1>2, AppendProperties
<1>5. \A i \in 1..2 : Append(<<a>>, b)[i] = <<a, b>>[i]
  BY <1>4
<1>6. Append(<<>>, b) = <<b>>
  OBVIOUS
<1> QED
  BY <1>3, <1>4, <1>5, <1>6, SeqEqual

(* tty_writeb, called with the same character until it succeeds, leaves at *)
(* each return nothing or the first byte of a newline behind.              *)
LEMMA WriteBKeeps ==
    ASSUME Sending, NEW who \in Writer, NEW c, c # NoChar, WriteB(who, c)
    PROVE  Sending'
<1> USE DEF Writer
<1>1. tx' = tx + 1 /\ tx # TxMax
  BY DEF WriteB, Emit, Full
<1>2. tx' \in 0..TxMax
  <2>1. tx \in 0..TxMax
    BY DEF Sending
  <2> QED
    BY <1>1, <2>1, BoundsNat
<1>3. nl' \in Writer \cup {Nobody} /\ garbled' \in BOOLEAN /\ mixed' \in BOOLEAN
  <2>1. nl' \in Writer \cup {Nobody}
    BY DEF WriteB, Sending
  <2>2. mixed' \in BOOLEAN
    BY DEF WriteB
  <2>3. Emit("LF", c) \/ Emit("CR", NoChar) \/ Emit(c, c)
    BY DEF WriteB
  <2>4. garbled' \in BOOLEAN
    BY <2>3 DEF Emit, Sending
  <2> QED
    BY <2>1, <2>2, <2>4
<1>4. ASSUME ~mixed'
      PROVE  out' = (IF nl' = Nobody THEN <<>> ELSE <<"CR">>) /\ ~garbled'
  <2>1. ~mixed /\ (nl # Nobody => nl = who /\ c = "LF")
    BY <1>4 DEF WriteB
  <2>2. out = (IF nl = Nobody THEN <<>> ELSE <<"CR">>) /\ ~garbled
    BY <2>1 DEF OutputIsExpansion, Sending
  <2>3. CASE nl # Nobody
    <3>1. /\ out' = <<>> /\ nl' = Nobody
          /\ garbled' = (garbled \/ Append(out, "LF") # Expansion(c))
      <4>1. Emit("LF", c) /\ nl' = Nobody
        BY <2>3 DEF WriteB
      <4> QED
        BY <2>1, <2>3, <4>1 DEF Emit
    <3>2. Append(<<"CR">>, "LF") = <<"CR", "LF">>
      BY AppendOne
    <3>3. Append(out, "LF") = Expansion(c)
      BY <2>1, <2>2, <2>3, <3>2 DEF Expansion
    <3> QED
      BY <2>2, <3>1, <3>3
  <2>4. CASE nl = Nobody /\ c = "LF"
    <3>1. out' = Append(out, "CR") /\ nl' = who /\ garbled' = garbled
      <4>1. Emit("CR", NoChar) /\ nl' = who
        BY <2>4 DEF WriteB
      <4> QED
        BY <4>1 DEF Emit
    <3>2. Append(out, "CR") = <<"CR">> /\ who # Nobody
      BY <2>2, <2>4, AppendOne, TtyAssumption
    <3> QED
      BY <2>2, <3>1, <3>2
  <2>5. CASE nl = Nobody /\ c # "LF"
    <3>1. /\ out' = <<>> /\ nl' = Nobody
          /\ garbled' = (garbled \/ Append(out, c) # Expansion(c))
      <4>1. Emit(c, c) /\ nl' = Nobody /\ c # NoChar
        BY <2>5 DEF WriteB
      <4> QED
        BY <4>1 DEF Emit
    <3>2. Append(out, c) = Expansion(c)
      BY <2>2, <2>5, AppendOne DEF Expansion
    <3> QED
      BY <2>2, <3>1, <3>2
  <2> QED
    BY <2>3, <2>4, <2>5
<1> QED
  BY <1>2, <1>3, <1>4 DEF OutputIsExpansion, Sending

(* An echo that fits in part is cut. *)
LEMMA EchoKeeps ==
    ASSUME Sending, NEW bytes, Len(bytes) \in Nat, Echo(bytes)
    PROVE  Sending'
<1>1. tx \in 0..TxMax
  BY DEF Sending
<1>2. tx' \in 0..TxMax
  BY <1>1, BoundsNat DEF Echo
<1>3. /\ nl' = nl /\ out' = out /\ garbled' = garbled /\ mixed' \in BOOLEAN
      /\ ~mixed' => ~mixed
  BY DEF Echo
<1> QED
  BY <1>2, <1>3 DEF Sending, OutputIsExpansion

(* A request added, or without its waiter, or the first one gone.          *)
LEMMA AppendRequest ==
    ASSUME NEW q, NEW st \in [Process -> State], WellFormed(q), Awaited(q, st),
           NEW r \in Requests, r.write => Len(r.text) = r.count,
           r.waiter \in Process, st[r.waiter] = "user"
    PROVE  /\ WellFormed(Append(q, r))
           /\ Awaited(Append(q, r), [st EXCEPT ![r.waiter] = "blocked"])
           /\ Len(Append(q, r)) = Len(q) + 1
           /\ Append(q, r) # <<>>
           /\ Head(Append(q, r)) = IF q = <<>> THEN r ELSE Head(q)
<1> DEFINE u == Append(q, r)
           new == [st EXCEPT ![r.waiter] = "blocked"]
<1>1. /\ u \in Seq(Requests) /\ Len(u) = Len(q) + 1 /\ Len(q) \in Nat
      /\ u[Len(q) + 1] = r
      /\ \A i \in 1..Len(q) : u[i] = q[i]
  BY DEF WellFormed
<1>2. 1..Len(u) = 1..Len(q) \cup {Len(q) + 1}
  BY <1>1
<1>3. \A i \in 1..Len(q) : q[i] \in Requests
  BY DEF WellFormed
<1>4. Head(u) = (IF q = <<>> THEN r ELSE Head(q)) /\ u # <<>>
  <2>1. q = <<>> <=> Len(q) = 0
    BY DEF WellFormed
  <2>2. Head(u) = u[1] /\ u # <<>>
    BY <1>1
  <2>3. Len(q) # 0 => Head(q) = q[1] /\ 1 \in 1..Len(q)
    BY <1>1 DEF WellFormed
  <2> QED
    BY <1>1, <2>1, <2>2, <2>3
<1>5. \A i \in 1..Len(q) : q[i].waiter # r.waiter
  BY DEF Awaited
<1>6. \A p \in Process : p # r.waiter => new[p] = st[p]
  OBVIOUS
<1>7. new[r.waiter] = "blocked"
  OBVIOUS
<1> HIDE DEF u, new
<1>8. WellFormed(u)
  BY <1>1, <1>2 DEF WellFormed
<1>9. Awaited(u, new)
  <2>1. ASSUME NEW i \in 1..Len(u), u[i].waiter \in Process
        PROVE  new[u[i].waiter] = "blocked"
    BY <1>1, <1>2, <1>6, <1>7, <2>1 DEF Awaited
  <2>2. ASSUME NEW i \in 1..Len(u), NEW j \in 1..Len(u), u[i].waiter \in Process,
               u[i].waiter = u[j].waiter
        PROVE  i = j
    BY <1>1, <1>2, <1>5, <2>2 DEF Awaited
  <2> QED
    BY <2>1, <2>2 DEF Awaited
<1> QED
  BY <1>1, <1>4, <1>8, <1>9 DEF u, new

(* The death of a caller takes its name off its requests.                   *)
LEMMA AbandonRequests ==
    ASSUME WellFormed(queue), Awaited(queue, state), state \in [Process -> State],
           NEW p \in Process \cup {Nobody}
    PROVE  /\ WellFormed(Abandoned(p, queue))
           /\ Dead(p) \in [Process -> State]
           /\ Awaited(Abandoned(p, queue), Dead(p))
           /\ Len(Abandoned(p, queue)) = Len(queue)
           /\ Abandoned(p, queue) = <<>> <=> queue = <<>>
           /\ queue # <<>> => Head(Abandoned(p, queue)).count = Head(queue).count
           /\ \A i \in 1..Len(queue) :
                 Abandoned(p, queue)[i].waiter \in {queue[i].waiter, Nobody}
<1> DEFINE u == Abandoned(p, queue)
           st == Dead(p)
<1>1. /\ DOMAIN queue = 1..Len(queue) /\ Len(queue) \in Nat
      /\ \A i \in 1..Len(queue) : queue[i] \in Requests
  BY DEF WellFormed
<1>2. \A i \in 1..Len(queue) :
         /\ u[i] \in Requests
         /\ u[i].write = queue[i].write /\ u[i].text = queue[i].text
         /\ u[i].count = queue[i].count
         /\ u[i].waiter = IF queue[i].waiter = p THEN Nobody ELSE queue[i].waiter
  BY <1>1 DEF Abandoned, Requests
<1>3. u \in Seq(Requests) /\ Len(u) = Len(queue)
  <2>1. u \in [1..Len(queue) -> Requests]
    BY <1>1, <1>2 DEF Abandoned
  <2> HIDE DEF u
  <2> QED
    BY <1>1, <2>1
<1>4. /\ st \in [Process -> State]
      /\ \A q \in Process : q # p => st[q] = state[q]
  BY DEF Dead, State
<1> HIDE DEF u, st
<1>5. WellFormed(u)
  BY <1>2, <1>3 DEF WellFormed
<1>6. Awaited(u, st)
  <2>1. \A i \in 1..Len(u) : u[i].waiter \in Process =>
           u[i].waiter = queue[i].waiter /\ queue[i].waiter # p
    BY <1>2, <1>3, TtyAssumption
  <2>2. \A i \in 1..Len(u) : u[i].waiter \in Process =>
           st[u[i].waiter] = "blocked"
    BY <1>3, <1>4, <2>1 DEF Awaited
  <2>3. \A i, j \in 1..Len(u) :
           u[i].waiter \in Process /\ u[i].waiter = u[j].waiter => i = j
    BY <1>3, <2>1 DEF Awaited
  <2> QED
    BY <2>2, <2>3 DEF Awaited
<1>7. u = <<>> <=> queue = <<>>
  BY <1>1, <1>3 DEF WellFormed
<1>8. ASSUME queue # <<>> PROVE Head(u).count = Head(queue).count
  <2>1. 1 \in 1..Len(queue) /\ Head(queue) = queue[1] /\ Head(u) = u[1]
    BY <1>1, <1>3, <1>7, <1>8 DEF WellFormed
  <2> QED
    BY <1>2, <2>1
<1> QED
  BY <1>2, <1>3, <1>4, <1>5, <1>6, <1>7, <1>8 DEF u, st

(* A queue of requests and the one at its head.                             *)
LEMMA HeadRequest ==
    ASSUME NEW q, WellFormed(q), q # <<>>
    PROVE  /\ 1 \in 1..Len(q) /\ Head(q) = q[1] /\ Head(q) \in Requests
           /\ Tail(q) \in Seq(Requests) /\ Len(Tail(q)) = Len(q) - 1
           /\ \A i \in 1..(Len(q) - 1) : i + 1 \in 1..Len(q) /\ Tail(q)[i] = q[i + 1]
<1>1. q \in Seq(Requests) /\ Len(q) \in Nat /\ Len(q) # 0
  BY DEF WellFormed
<1>2. 1 \in 1..Len(q) /\ Head(q) = q[1] /\ q[1] \in Requests
  BY <1>1
<1>3. /\ Tail(q) \in Seq(Requests) /\ Len(Tail(q)) = Len(q) - 1
      /\ \A i \in 1..(Len(q) - 1) : Tail(q)[i] = q[i + 1]
  BY <1>1, HeadTailProperties
<1> QED
  BY <1>1, <1>2, <1>3

(* The waiter is popped: its request wakes nobody any more.                *)
LEMMA PopRequest ==
    ASSUME NEW q, NEW st \in [Process -> State], WellFormed(q), Awaited(q, st),
           q # <<>>, NEW u, u = [q EXCEPT ![1].waiter = Nobody]
    PROVE  /\ WellFormed(u) /\ Awaited(u, st)
           /\ Len(u) = Len(q) /\ u # <<>> /\ Head(u).count = Head(q).count
           /\ Head(q).waiter \in Process =>
                 /\ st[Head(q).waiter] = "blocked"
                 /\ \A i \in 1..Len(u) : u[i].waiter # Head(q).waiter
<1>1. /\ 1 \in 1..Len(q) /\ Head(q) = q[1] /\ Head(q) \in Requests
      /\ Len(q) \in Nat /\ DOMAIN q = 1..Len(q)
      /\ \A i \in 1..Len(q) : q[i] \in Requests
  BY HeadRequest DEF WellFormed
<1>2. /\ \A i \in 1..Len(q) : i # 1 => u[i] = q[i]
      /\ u[1] = [q[1] EXCEPT !.waiter = Nobody]
      /\ DOMAIN u = 1..Len(q)
  BY <1>1
<1>3. /\ u[1] \in Requests /\ u[1].waiter = Nobody
      /\ u[1].count = q[1].count /\ u[1].write = q[1].write
      /\ u[1].text = q[1].text
  BY <1>1, <1>2 DEF Requests
<1>4. u \in [1..Len(q) -> Requests]
  <2>1. \A i \in 1..Len(q) : u[i] \in Requests
    BY <1>1, <1>2, <1>3
  <2>2. q \in [1..Len(q) -> Requests]
    BY <1>1 DEF WellFormed
  <2> QED
    BY <1>2, <2>1, <2>2
<1>5. /\ u \in Seq(Requests) /\ Len(u) = Len(q) /\ u # <<>>
      /\ Head(u) = u[1]
  BY <1>1, <1>4
<1> HIDE DEF Requests
<1>6. WellFormed(u)
  BY <1>1, <1>2, <1>3, <1>5 DEF WellFormed
<1>7. Nobody \notin Process
  BY TtyAssumption
<1>8. \A i \in 1..Len(u) : u[i].waiter \in Process => i # 1 /\ u[i] = q[i]
  BY <1>2, <1>3, <1>5, <1>7
<1>9. Awaited(u, st)
  <2>1. \A i \in 1..Len(u) : u[i].waiter \in Process => st[u[i].waiter] = "blocked"
    BY <1>5, <1>8 DEF Awaited
  <2>2. ASSUME NEW i \in 1..Len(u), NEW j \in 1..Len(u), u[i].waiter \in Process,
               u[i].waiter = u[j].waiter
        PROVE  i = j
    <3>1. u[i] = q[i] /\ u[j] = q[j] /\ i \in 1..Len(q) /\ j \in 1..Len(q)
      BY <1>5, <1>8, <2>2
    <3> QED
      BY <2>2, <3>1 DEF Awaited
  <2> QED
    BY <2>1, <2>2 DEF Awaited
<1>10. ASSUME Head(q).waiter \in Process
       PROVE  /\ st[Head(q).waiter] = "blocked"
              /\ \A i \in 1..Len(u) : u[i].waiter # Head(q).waiter
  <2>1. st[Head(q).waiter] = "blocked"
    BY <1>1, <1>10 DEF Awaited
  <2>2. ASSUME NEW i \in 1..Len(u), u[i].waiter = q[1].waiter
        PROVE  FALSE
    <3>1. i # 1 /\ u[i] = q[i] /\ i \in 1..Len(q)
      BY <1>1, <1>5, <1>8, <1>10, <2>2
    <3>2. q[i].waiter = q[1].waiter /\ q[1].waiter \in Process
      BY <1>1, <1>10, <2>2, <3>1
    <3> QED
      BY <1>1, <3>1, <3>2 DEF Awaited
  <2> QED
    BY <1>1, <2>1, <2>2
<1> QED
  BY <1>1, <1>3, <1>5, <1>6, <1>9, <1>10

(* The first request leaves the queue.                                     *)
LEMMA DropRequest ==
    ASSUME NEW q, NEW st \in [Process -> State], WellFormed(q), Awaited(q, st),
           q # <<>>
    PROVE  /\ WellFormed(Tail(q)) /\ Awaited(Tail(q), st)
           /\ Len(Tail(q)) = Len(q) - 1
<1> DEFINE u == Tail(q)
<1>1. /\ u \in Seq(Requests) /\ Len(u) = Len(q) - 1 /\ Len(q) \in Nat
      /\ \A i \in 1..(Len(q) - 1) : i + 1 \in 1..Len(q) /\ u[i] = q[i + 1]
  BY HeadRequest DEF WellFormed
<1> HIDE DEF u
<1>2. WellFormed(u)
  BY <1>1 DEF WellFormed
<1>3. Awaited(u, st)
  <2>1. \A i \in 1..Len(u) : u[i].waiter \in Process => st[u[i].waiter] = "blocked"
    BY <1>1 DEF Awaited
  <2>2. ASSUME NEW i \in 1..Len(u), NEW j \in 1..Len(u), u[i].waiter \in Process,
               u[i].waiter = u[j].waiter
        PROVE  i = j
    <3>1. /\ i + 1 \in 1..Len(q) /\ u[i] = q[i + 1]
          /\ j + 1 \in 1..Len(q) /\ u[j] = q[j + 1]
      BY <1>1
    <3>2. i + 1 = j + 1
      BY <2>2, <3>1 DEF Awaited
    <3> QED
      BY <3>2
  <2> QED
    BY <2>1, <2>2 DEF Awaited
<1> QED
  BY <1>1, <1>2, <1>3 DEF u
-----------------------------------------------------------------------------
(* The actions. *)

(* The types are part of the invariant.                                     *)
LEMMA IInvTypes == IInv => TypeOK
<1> SUFFICES ASSUME IInv PROVE TypeOK
  OBVIOUS
<1>1. /\ DOMAIN queue = 1..Len(queue)
      /\ \A i \in 1..Len(queue) : queue[i] \in Requests
  BY DEF IInv, Serving, Queued, WellFormed
<1>2. \A i \in DOMAIN queue : queue[i].waiter \in Process \cup {Nobody}
                             /\ queue[i].write \in BOOLEAN
  BY <1>1 DEF Requests
<1>3. Len(queue) <= MaxCalls
  <2>1. Len(queue) \in Nat
    BY DEF IInv, Serving, Queued, WellFormed
  <2> QED
    BY <2>1, BoundsNat DEF IInv, Serving, Queued
<1> QED
  BY <1>2, <1>3 DEF TypeOK, IInv, Serving, Sending, Others, State, Phases,
     Answering

(* The invariant holds at first.                                            *)
LEMMA Initially == Init => IInv
<1> SUFFICES ASSUME Init PROVE IInv
  OBVIOUS
<1>1. /\ <<>> \in Seq(Requests) /\ <<>> \in Seq(Key)
      /\ Len(<<>>) = 0 /\ 1..0 = {}
  OBVIOUS
<1>2. WellFormed(queue) /\ Awaited(queue, state)
  BY <1>1 DEF Init, WellFormed, Awaited
<1>3. 0 \in 0..MaxCalls /\ 0 \in 0..TxMax /\ 0 <= RxMax
  BY BoundsNat
<1>4. state \in [Process -> State]
  BY DEF Init, State
<1>5. Serving
  <2>1. Len(queue) <= calls /\ calls \in 0..MaxCalls
    BY <1>1, <1>3 DEF Init
  <2>2. /\ BufferFits /\ Idle /\ Answering
        /\ copied \in Nat /\ worker \in Phases
    BY DEF Init, BufferFits, Idle, Answering, Phases
  <2> QED
    BY <1>2, <1>4, <2>1, <2>2 DEF Serving, Queued
<1>6. Sending
  BY <1>3 DEF Init, Sending, OutputIsExpansion
<1>7. Others
  BY <1>1, <1>3 DEF Init, Others
<1> QED
  BY <1>5, <1>6, <1>7 DEF IInv

(* Each part is kept by what does not touch it. *)
LEMMA ServingSame ==
    ASSUME Serving, UNCHANGED <<queue, copied, worker, answer, state, calls>>
    PROVE  Serving'
BY DEF Serving, Queued, BufferFits, Idle, Answering, answer

(* What does not send, and what does nothing else, keeps the parts it       *)
(* leaves alone.                                                            *)
LEMMA SendingSame ==
    ASSUME Sending, UNCHANGED <<tx, nl, out, garbled, mixed>>
    PROVE  Sending'
BY DEF Sending, OutputIsExpansion

LEMMA OthersSame ==
    ASSUME Others, UNCHANGED <<rx, fg, put>>
    PROVE  Others'
BY DEF Others

LEMMA StepRequest ==
    ASSUME IInv, NEW p \in Process, NEW write \in BOOLEAN,
           NEW text \in Seq(Char), NEW count \in Nat,
           write => Len(text) = count, Request(p, write, text, count)
    PROVE  IInv'
<1> DEFINE r == [waiter |-> p, write |-> write, text |-> text, count |-> count]
<1>1. r \in Requests /\ r.waiter = p /\ r.count = count
      /\ (r.write => Len(r.text) = r.count)
  BY DEF Requests
<1>2. queue' = Append(queue, r) /\ state' = [state EXCEPT ![p] = "blocked"]
  BY DEF Request
<1>3. /\ WellFormed(queue) /\ Awaited(queue, state)
      /\ state \in [Process -> State] /\ state[p] = "user"
      /\ Len(queue) \in Nat /\ calls \in Nat /\ Len(queue) <= calls
      /\ calls' = calls + 1 /\ calls' <= MaxCalls
  BY BoundsNat DEF Request, IInv, Serving, Queued, WellFormed
<1> HIDE DEF r
<1>4. /\ WellFormed(queue') /\ Awaited(queue', state')
      /\ Len(queue') = Len(queue) + 1 /\ queue' # <<>>
      /\ Head(queue') = IF queue = <<>> THEN r ELSE Head(queue)
  BY <1>1, <1>2, <1>3, AppendRequest
<1>5. Queued'
  BY <1>3, <1>4, BoundsNat DEF Queued
<1>6. BufferFits' /\ Idle'
  BY <1>1, <1>4 DEF Request, IInv, Serving, BufferFits, Idle
<1>7. Answering'
  <2>1. UNCHANGED <<popped, late, worker>> /\ Answering
    BY DEF Request, answer, IInv, Serving
  <2>2. popped # Nobody => popped # p /\ popped \in Process
    BY <1>3, <2>1 DEF Answering
  <2>3. popped # Nobody => state'[popped] = state[popped]
    BY <1>2, <1>3, <2>2
  <2>4. ASSUME popped # Nobody, NEW i \in 1..Len(queue')
        PROVE  queue'[i].waiter # popped
    <3>1. CASE i = Len(queue) + 1
      BY <1>1, <1>2, <1>3, <2>2, <2>4, <3>1 DEF WellFormed
    <3>2. CASE i \in 1..Len(queue)
      BY <1>1, <1>2, <1>3, <2>1, <2>4, <3>2 DEF WellFormed, Answering
    <3> QED
      BY <1>3, <1>4, <3>1, <3>2
  <2> QED
    BY <2>1, <2>3, <2>4 DEF Answering
<1>8. Serving'
  BY <1>2, <1>3, <1>5, <1>6, <1>7 DEF Serving, State, Request, IInv
<1> QED
  BY <1>8, SendingSame, OthersSame DEF Request, IInv, usart

LEMMA StepKilled ==
    ASSUME IInv, NEW p \in Process, Killed(p)
    PROVE  IInv'
<1>1. /\ WellFormed(queue) /\ Awaited(queue, state)
      /\ state \in [Process -> State]
      /\ queue' = Abandoned(p, queue) /\ state' = Dead(p)
      /\ late' = (late \/ popped = p)
      /\ UNCHANGED <<copied, worker, popped, bounds>>
  BY DEF Killed, IInv, Serving, Queued
<1>2. /\ WellFormed(queue') /\ Awaited(queue', state')
      /\ state' \in [Process -> State] /\ Len(queue') = Len(queue)
      /\ queue' = <<>> <=> queue = <<>>
      /\ queue # <<>> => Head(queue').count = Head(queue).count
      /\ \A i \in 1..Len(queue) : queue'[i].waiter \in {queue[i].waiter, Nobody}
  BY <1>1, AbandonRequests
<1>3. Answering'
  <2>1. Answering
    BY DEF IInv, Serving
  <2>2. popped # Nobody =>
           IF popped = p THEN late' /\ state'[popped] = "zombie"
                         ELSE late' = late /\ state'[popped] = state[popped]
    BY <1>1, <2>1 DEF Dead, Answering
  <2>3. late' \in BOOLEAN
    BY <1>1, <2>1 DEF Answering
  <2> QED
    BY <1>1, <1>2, <2>1, <2>2, <2>3 DEF Answering
<1>4. Serving'
  BY <1>1, <1>2, <1>3 DEF IInv, Serving, Queued, BufferFits, Idle, bounds
<1> QED
  BY <1>4, SendingSame, OthersSame DEF Killed, IInv, usart

(* What is known of the request the worker serves.                          *)
LEMMA HeadIs ==
    ASSUME IInv, queue # <<>>
    PROVE  /\ WellFormed(queue) /\ Awaited(queue, state)
           /\ state \in [Process -> State]
           /\ Len(queue) <= calls /\ calls \in 0..MaxCalls
           /\ Head(queue) \in Requests /\ Head(queue).count \in Nat
           /\ Head(queue).write => Len(Head(queue).text) = Head(queue).count
           /\ copied \in Nat
           /\ Head(queue).count > 0 => copied <= Head(queue).count
           /\ Head(queue).count > 0 /\ worker = "update" =>
                 copied < Head(queue).count
<1>1. WellFormed(queue) /\ Head(queue) = queue[1] /\ 1 \in 1..Len(queue)
      /\ Head(queue) \in Requests
  BY HeadRequest DEF IInv, Serving, Queued
<1>2. copied \in Nat /\ Head(queue).count \in Nat
  BY <1>1 DEF IInv, Serving, Requests
<1> QED
  BY <1>1, <1>2 DEF IInv, Serving, Queued, WellFormed, BufferFits

(* A key is taken from the receive ring.                                    *)
LEMMA TailKeys ==
    ASSUME Others, rx # <<>>
    PROVE  Tail(rx) \in Seq(Key) /\ Len(Tail(rx)) <= RxMax
<1>1. rx \in Seq(Key) /\ Len(rx) \in Nat /\ Len(rx) # 0
  BY DEF Others
<1>2. Tail(rx) \in Seq(Key) /\ Len(Tail(rx)) = Len(rx) - 1
  BY <1>1
<1> QED
  BY <1>1, <1>2, BoundsNat DEF Others

(* Work that leaves the head of the queue where it is. *)
LEMMA GoOn ==
    ASSUME IInv, queue # <<>>, UNCHANGED <<queue, answer, state, calls>>,
           worker \in {"update", "newline"},
           copied' \in Nat, worker' \in {"update", "newline", "finish"},
           Head(queue).count > 0 =>
              IF worker' = "update" THEN copied' < Head(queue).count
                                    ELSE copied' <= Head(queue).count
    PROVE  Serving'
<1>1. Answering'
  BY DEF IInv, Serving, Answering, answer
<1> QED
  BY <1>1 DEF IInv, Serving, Queued, BufferFits, Idle, Phases

LEMMA StepWrite ==
    ASSUME IInv, Write
    PROVE  IInv'
<1> DEFINE r == Head(queue)
           c == r.text[copied + 1]
<1>1. worker = "update" /\ queue # <<>> /\ r.write /\ copied < r.count
  BY DEF Write
<1>2. /\ r \in Requests /\ copied \in Nat
      /\ Len(r.text) = r.count
  BY <1>1, HeadIs
<1>3. r.text \in Seq(Char) /\ r.count \in Nat
  BY <1>2 DEF Requests
<1>4. c \in Char /\ c # NoChar
  BY <1>1, <1>2, <1>3, TtyAssumption
<1>5. /\ WriteB("worker", c) /\ UNCHANGED <<rx, queue, answer, fg, state, put, bounds>>
      /\ copied' = (IF Written THEN copied + 1 ELSE copied)
      /\ worker' = IF copied' = r.count THEN "finish" ELSE "update"
  BY DEF Write
<1> HIDE DEF r, c
<1>6. Sending'
  BY <1>4, <1>5, WriteBKeeps DEF IInv, Writer
<1>7. Serving'
  <2>1. copied' \in Nat /\ copied' <= r.count
    BY <1>1, <1>2, <1>3, <1>5
  <2> QED
    BY <1>1, <1>3, <1>5, <2>1, GoOn DEF bounds, r
<1> QED
  BY <1>5, <1>6, <1>7, OthersSame DEF IInv

LEMMA StepWriteNothing ==
    ASSUME IInv, WriteNothing
    PROVE  IInv'
<1>1. worker = "update" /\ queue # <<>> /\ Head(queue).count = 0
  BY DEF WriteNothing
<1>2. Serving'
  BY <1>1, HeadIs, GoOn DEF WriteNothing, bounds
<1> QED
  BY <1>2, SendingSame, OthersSame DEF WriteNothing, IInv, usart

LEMMA StepReadChar ==
    ASSUME IInv, NEW k \in Key, ReadChar(k)
    PROVE  IInv'
<1> DEFINE r == Head(queue)
<1>1. worker = "update" /\ queue # <<>> /\ rx # <<>> /\ rx' = Tail(rx)
  BY DEF ReadChar, Reads
<1>2. /\ copied \in Nat /\ r.count \in Nat
      /\ r.count > 0 => copied < r.count
  BY <1>1, HeadIs
<1>3. /\ Echo(<<k>>) /\ UNCHANGED <<queue, answer, fg, state, put, bounds>>
      /\ copied' = copied + 1
      /\ worker' = IF copied' = r.count THEN "finish" ELSE "update"
  BY DEF ReadChar
<1>4. Sending'
  BY <1>3, EchoKeeps DEF IInv
<1>5. Others'
  BY <1>1, <1>3, TailKeys DEF IInv, Others
<1> HIDE DEF r
<1>6. Serving'
  <2>1. copied' \in Nat /\ (r.count > 0 => copied' <= r.count)
    BY <1>2, <1>3
  <2>2. r.count > 0 => IF worker' = "update" THEN copied' < r.count
                                            ELSE copied' <= r.count
    BY <1>2, <1>3, <2>1
  <2> QED
    BY <1>1, <1>3, <2>1, <2>2, GoOn DEF bounds, r
<1> QED
  BY <1>4, <1>5, <1>6 DEF IInv

LEMMA StepReadBackspace ==
    ASSUME IInv, NEW k \in Key, ReadBackspace(k)
    PROVE  IInv'
<1>1. worker = "update" /\ queue # <<>> /\ rx # <<>> /\ rx' = Tail(rx)
  BY DEF ReadBackspace, Reads
<1>2. /\ copied \in Nat /\ Head(queue).count \in Nat
      /\ Head(queue).count > 0 => copied < Head(queue).count
  BY <1>1, HeadIs
<1>3. UNCHANGED <<queue, worker, answer, fg, state, put, bounds>>
  BY DEF ReadBackspace
<1>4. Sending'
  <2>1. Len(<<"BS", "SP", "BS">>) \in Nat
    OBVIOUS
  <2>2. CASE UNCHANGED <<tx, nl, out, garbled, mixed>>
    BY <2>2, SendingSame DEF IInv
  <2>3. CASE Echo(<<"BS", "SP", "BS">>)
    BY <2>1, <2>3, EchoKeeps DEF IInv
  <2> QED
    BY <2>2, <2>3 DEF ReadBackspace
<1>5. Others'
  BY <1>1, <1>3, TailKeys DEF IInv, Others
<1>6. Serving'
  <2>1. copied' = copied \/ (copied # 0 /\ copied' = copied - 1)
    BY DEF ReadBackspace
  <2>2. /\ copied' \in Nat
        /\ Head(queue).count > 0 => copied' < Head(queue).count
    BY <1>2, <2>1
  <2> QED
    BY <1>1, <1>2, <1>3, <2>2, GoOn DEF bounds
<1> QED
  BY <1>4, <1>5, <1>6 DEF IInv

LEMMA StepReadNewline ==
    ASSUME IInv, ReadNewline
    PROVE  IInv'
<1>1. worker = "update" /\ queue # <<>> /\ rx # <<>> /\ rx' = Tail(rx)
  BY DEF ReadNewline, Reads
<1>2. /\ copied \in Nat /\ Head(queue).count \in Nat
      /\ Head(queue).count > 0 => copied < Head(queue).count
  BY <1>1, HeadIs
<1>3. Serving'
  BY <1>1, <1>2, GoOn DEF ReadNewline, bounds
<1>4. Others'
  BY <1>1, TailKeys DEF ReadNewline, IInv, Others
<1> QED
  BY <1>3, <1>4, SendingSame DEF ReadNewline, IInv

LEMMA StepEchoNewline ==
    ASSUME IInv, EchoNewline
    PROVE  IInv'
<1>1. queue # <<>> /\ worker = "newline"
  BY DEF EchoNewline, IInv, Serving, Idle
<1>2. Sending'
  BY TtyAssumption, WriteBKeeps DEF EchoNewline, IInv, Writer
<1>3. /\ copied \in Nat
      /\ Head(queue).count > 0 => copied <= Head(queue).count
  BY <1>1, HeadIs
<1>4. Serving'
  BY <1>1, <1>3, GoOn DEF EchoNewline, bounds
<1> QED
  BY <1>2, <1>4, OthersSame DEF EchoNewline, IInv

LEMMA StepReadEnd ==
    ASSUME IInv, ReadEnd
    PROVE  IInv'
<1>1. worker = "update" /\ queue # <<>> /\ rx # <<>> /\ rx' = Tail(rx)
  BY DEF ReadEnd, Reads
<1>2. Serving'
  BY <1>1, HeadIs, GoOn DEF ReadEnd, bounds
<1>3. Others'
  BY <1>1, TailKeys DEF ReadEnd, IInv, Others
<1> QED
  BY <1>2, <1>3, SendingSame DEF ReadEnd, IInv

LEMMA StepReadInterrupt ==
    ASSUME IInv, ReadInterrupt
    PROVE  IInv'
<1>1. worker = "update" /\ queue # <<>> /\ rx # <<>> /\ rx' = Tail(rx)
  BY DEF ReadInterrupt, Reads
<1>2. /\ fg \in Process \cup {Nobody}
      /\ copied \in Nat
      /\ Head(queue).count > 0 => copied <= Head(queue).count
  BY <1>1, HeadIs DEF IInv, Others
<1>3. /\ queue' = Abandoned(fg, queue) /\ state' = Dead(fg)
      /\ worker' = "finish" /\ UNCHANGED <<copied, answer, bounds>>
  BY DEF ReadInterrupt
<1>4. /\ WellFormed(queue') /\ Awaited(queue', state')
      /\ state' \in [Process -> State] /\ Len(queue') = Len(queue)
      /\ queue' # <<>> /\ Head(queue').count = Head(queue).count
  BY <1>1, <1>2, <1>3, AbandonRequests DEF IInv, Serving, Queued
<1>5. Answering'
  BY <1>1, <1>3 DEF IInv, Serving, Answering, answer
<1>6. Serving'
  BY <1>2, <1>3, <1>4, <1>5
     DEF IInv, Serving, Queued, BufferFits, Idle, Phases, bounds
<1>7. Others'
  BY <1>1, TailKeys DEF ReadInterrupt, IInv, Others
<1> QED
  BY <1>6, <1>7, SendingSame DEF ReadInterrupt, IInv

LEMMA StepFinish ==
    ASSUME IInv, Finish
    PROVE  IInv'
<1>1. worker = "finish" /\ queue # <<>> /\ popped = Nobody
  BY DEF Finish, IInv, Serving, Idle, Answering
<1>2. /\ popped' = Head(queue).waiter
      /\ queue' = [queue EXCEPT ![1].waiter = Nobody]
      /\ worker' = (IF popped' = Nobody THEN "dequeue" ELSE "wake")
      /\ UNCHANGED <<copied, late, state, bounds>>
  BY DEF Finish
<1>3. /\ WellFormed(queue) /\ Awaited(queue, state)
      /\ state \in [Process -> State] /\ Head(queue) \in Requests
      /\ Head(queue).count > 0 => copied <= Head(queue).count
  BY <1>1, HeadIs
<1>4. /\ WellFormed(queue') /\ Awaited(queue', state)
      /\ Len(queue') = Len(queue) /\ queue' # <<>>
      /\ Head(queue').count = Head(queue).count
      /\ popped' \in Process =>
            /\ state[popped'] = "blocked"
            /\ \A i \in 1..Len(queue') : queue'[i].waiter # popped'
  BY <1>1, <1>2, <1>3, PopRequest
<1>5. Answering'
  <2>1. popped' \in Process \cup {Nobody}
    BY <1>2, <1>3 DEF Requests
  <2> QED
    BY <1>1, <1>2, <1>4, <2>1 DEF Answering, IInv, Serving
<1>6. Serving'
  BY <1>2, <1>3, <1>4, <1>5
     DEF IInv, Serving, Queued, BufferFits, Idle, Phases, bounds
<1> QED
  BY <1>6, SendingSame, OthersSame DEF Finish, IInv, usart

LEMMA StepWake ==
    ASSUME IInv, Wake
    PROVE  IInv'
<1>1. /\ worker = "wake" /\ queue # <<>> /\ popped \in Process
      /\ \A i \in 1..Len(queue) : queue[i].waiter # popped
  BY DEF Wake, IInv, Serving, Idle, Answering
<1>2. /\ state' = [state EXCEPT ![popped] = "user"]
      /\ popped' = Nobody /\ late' = FALSE /\ worker' = "dequeue"
      /\ UNCHANGED <<queue, copied, bounds>>
  BY DEF Wake
<1>3. /\ WellFormed(queue) /\ Awaited(queue, state)
      /\ state \in [Process -> State]
      /\ Head(queue).count > 0 => copied <= Head(queue).count
  BY <1>1, HeadIs
<1>4. Awaited(queue, state')
  <2>1. \A p \in Process : p # popped => state'[p] = state[p]
    BY <1>2, <1>3
  <2> QED
    BY <1>1, <1>3, <2>1 DEF Awaited
<1>5. state' \in [Process -> State]
  BY <1>2, <1>3 DEF State
<1>6. Answering'
  BY <1>2 DEF Answering
<1>7. Serving'
  BY <1>1, <1>2, <1>3, <1>4, <1>5, <1>6
     DEF IInv, Serving, Queued, BufferFits, Idle, Phases, bounds
<1> QED
  BY <1>7, SendingSame, OthersSame DEF Wake, IInv, usart

LEMMA StepDequeue ==
    ASSUME IInv, Dequeue
    PROVE  IInv'
<1>1. worker = "dequeue" /\ queue # <<>> /\ popped = Nobody
  BY DEF Dequeue, IInv, Serving, Idle, Answering
<1>2. /\ queue' = Tail(queue) /\ copied' = 0 /\ worker' = "update"
      /\ UNCHANGED <<answer, state, bounds>>
  BY DEF Dequeue
<1>3. /\ WellFormed(queue) /\ Awaited(queue, state)
      /\ state \in [Process -> State]
      /\ Len(queue) <= calls /\ calls \in 0..MaxCalls /\ Len(queue) \in Nat
  BY <1>1, HeadIs DEF WellFormed
<1>4. /\ WellFormed(queue') /\ Awaited(queue', state')
      /\ Len(queue') = Len(queue) - 1
  BY <1>1, <1>2, <1>3, DropRequest
<1>5. Queued'
  <2>1. calls' = calls /\ calls \in Nat
    BY <1>2, <1>3, BoundsNat DEF bounds
  <2> QED
    BY <1>3, <1>4, <2>1 DEF Queued
<1>6. BufferFits' /\ Idle'
  BY <1>2 DEF BufferFits, Idle
<1>7. Answering'
  BY <1>1, <1>2 DEF IInv, Serving, Answering, answer
<1>8. Serving'
  BY <1>2, <1>3, <1>5, <1>6, <1>7 DEF Serving, Phases
<1> QED
  BY <1>8, SendingSame, OthersSame DEF Dequeue, IInv, usart

LEMMA StepPutLoop ==
    ASSUME IInv, PutLoop
    PROVE  IInv'
<1>1. put # NoChar
  BY DEF PutLoop
<1>2. Sending'
  BY <1>1, WriteBKeeps DEF PutLoop, IInv, Writer
<1>3. Others'
  BY DEF PutLoop, IInv, Others
<1> QED
  BY <1>2, <1>3, ServingSame DEF PutLoop, IInv, bounds

LEMMA StepType ==
    ASSUME IInv, NEW k \in Key, Type(k)
    PROVE  IInv'
<1>1. rx' \in Seq(Key) /\ Len(rx') <= RxMax
  <2>1. rx \in Seq(Key) /\ Len(rx) \in Nat /\ Len(rx) <= RxMax
    BY DEF IInv, Others
  <2>2. /\ Append(rx, k) \in Seq(Key) /\ Len(Append(rx, k)) = Len(rx) + 1
        /\ <<>> \in Seq(Key) /\ Len(<<>>) = 0
    BY <2>1
  <2> QED
    BY <2>1, <2>2, BoundsNat DEF Type
<1>2. Others'
  BY <1>1 DEF Type, IInv, Others
<1> QED
  BY <1>2, ServingSame, SendingSame DEF Type, IInv

LEMMA StepOthers ==
    ASSUME IInv,
           \/ \E p, q \in Process : SetForeground(p, q)
           \/ \E c \in Char : Put(c)
           \/ Transmit
           \/ UNCHANGED vars
    PROVE  IInv'
<1>1. Serving'
  BY ServingSame DEF SetForeground, Put, Transmit, vars, usart, bounds, IInv
<1>2. Sending'
  <2>1. CASE Transmit
    <3>1. tx' \in 0..TxMax
      BY <2>1, BoundsNat DEF Transmit, IInv, Sending
    <3> QED
      BY <2>1, <3>1 DEF Transmit, IInv, Sending, OutputIsExpansion
  <2> QED
    BY <2>1, SendingSame DEF SetForeground, Put, vars, usart, IInv
<1>3. Others'
  BY DEF SetForeground, Put, Transmit, vars, usart, IInv, Others
<1> QED
  BY <1>1, <1>2, <1>3 DEF IInv

(* Every action keeps the invariant. *)
LEMMA Inductive == IInv /\ [Next]_vars => IInv'
<1> SUFFICES ASSUME IInv, [Next]_vars PROVE IInv'
  OBVIOUS
<1>1. ASSUME NEW p \in Process, NEW text \in Texts, Request(p, TRUE, text, Len(text))
      PROVE  IInv'
  <2>1. text \in Seq(Char)
    BY TtyAssumption
  <2>2. Len(text) \in Nat
    BY <2>1
  <2> QED
    BY <1>1, <2>1, <2>2, StepRequest
<1>2. ASSUME NEW p \in Process, NEW n \in Counts, Request(p, FALSE, <<>>, n)
      PROVE  IInv'
  <2>1. n \in Nat /\ <<>> \in Seq(Char)
    BY TtyAssumption
  <2> QED
    BY <1>2, <2>1, StepRequest
<1>3. ASSUME NEW p \in Process, Killed(p) PROVE IInv'
  BY <1>3, StepKilled
<1>4. CASE Work
  BY <1>4, StepWrite, StepWriteNothing, StepEchoNewline, StepReadNewline,
     StepReadEnd, StepReadInterrupt, StepFinish, StepWake, StepDequeue,
     StepReadChar, StepReadBackspace DEF Work
<1>5. CASE PutLoop
  BY <1>5, StepPutLoop
<1>6. ASSUME NEW k \in Key, Type(k) PROVE IInv'
  BY <1>6, StepType
<1>7. CASE \/ \E p, q \in Process : SetForeground(p, q)
           \/ \E c \in Char : Put(c)
           \/ Transmit
           \/ UNCHANGED vars
  BY <1>7, StepOthers
<1> QED
  BY <1>1, <1>2, <1>3, <1>4, <1>5, <1>6, <1>7 DEF Next

(* The inductive invariant holds in every reachable state.                  *)
THEOREM Invariance == Spec => []IInv
BY Initially, Inductive, PTL DEF Spec

(* Every variable keeps its type, the queue holds no more requests than    *)
(* calls were made, and no echo or output overruns the transmit ring.      *)
THEOREM TypeCorrect == Spec => []TypeOK
BY Invariance, IInvTypes, PTL

(* tty_read and tty_write never go past the end of a caller's buffer of at *)
(* least one byte, although bytes_copied is shared by all requests and a   *)
(* request may end in four ways.  Of a request of 0 bytes this says        *)
(* nothing: tty_read, which looks for the end after each byte, passes it.  *)
THEOREM BuffersFit == Spec => []BufferFits
<1>1. IInv => BufferFits
  BY DEF IInv, Serving
<1> QED
  BY <1>1, Invariance, PTL

(* tty_writeb transmits each character as its expansion, however often the *)
(* ring is full, until kputc and the worker have a newline in the works at *)
(* a time.                                                                 *)
THEOREM ExpandedOnce == Spec => []OutputIsExpansion
<1>1. IInv => OutputIsExpansion
  BY DEF IInv, Sending
<1> QED
  BY <1>1, Invariance, PTL

-----------------------------------------------------------------------------
(* device_finish_request makes its waiter READY without a look at it.      *)

StayDead ==
    \A p \in Process : state[p] = "zombie" /\ ~(late /\ popped = p)
                         => state'[p] = "zombie"

(* No step wakes the dead but Wake, and that one only whom it has popped   *)
(* alive.                                                                  *)
LEMMA StepsSpare == IInv /\ [Next]_vars => StayDead
<1> SUFFICES ASSUME IInv, [Next]_vars PROVE StayDead
  OBVIOUS
<1>1. ASSUME NEW p \in Process, NEW write, NEW text, NEW count,
             Request(p, write, text, count)
      PROVE  StayDead
  BY <1>1 DEF Request, StayDead, IInv, Serving
<1>2. ASSUME NEW p \in Process, Killed(p) PROVE StayDead
  BY <1>2 DEF Killed, Dead, StayDead
<1>3. CASE UNCHANGED state
  BY <1>3 DEF StayDead
<1>4. CASE Work
  <2>1. CASE ReadInterrupt
    BY <2>1 DEF ReadInterrupt, Dead, StayDead
  <2>2. CASE Wake
    <3>1. /\ state' = [state EXCEPT ![popped] = "user"]
          /\ state[popped] = "blocked" \/ late
          /\ state \in [Process -> State]
      BY <2>2 DEF Wake, IInv, Serving, Answering
    <3> QED
      BY <3>1 DEF StayDead
  <2>3. CASE \/ Write \/ WriteNothing \/ EchoNewline \/ ReadNewline \/ ReadEnd
             \/ Finish \/ Dequeue
             \/ \E k \in Key : ReadChar(k) \/ ReadBackspace(k)
    BY <1>3, <2>3 DEF Write, WriteNothing, EchoNewline, ReadNewline, ReadEnd,
       Finish, Dequeue, ReadChar, ReadBackspace
  <2> QED
    BY <1>4, <2>1, <2>2, <2>3 DEF Work
<1>5. CASE \/ \E p, q \in Process : SetForeground(p, q)
           \/ \E c \in Char : Put(c)
           \/ PutLoop
           \/ \E k \in Key : Type(k)
           \/ Transmit
           \/ UNCHANGED vars
  BY <1>3, <1>5 DEF SetForeground, Put, PutLoop, Type, Transmit, vars
<1> QED
  BY <1>1, <1>2, <1>4, <1>5 DEF Next

(* Nobody comes back from the dead by the request it leaves behind, nor    *)
(* when CTRL-C ends the request its own victim waits for: the only ones    *)
(* the worker revives are those that were killed after it had popped them. *)
THEOREM DeadStayDead == Spec => KilledStaysDead
<1>1. IInv /\ [Next]_vars => StayDead
  BY StepsSpare
<1> QED
  BY <1>1, Invariance, PTL DEF Spec, KilledStaysDead, StayDead
=============================================================================
