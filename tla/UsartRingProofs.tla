-------------------------- MODULE UsartRingProofs --------------------------
(***************************************************************************)
(* The rings of drivers/usart/mcxa.c implement bounded queues for every    *)
(* ring length and every set of byte values.                               *)
(***************************************************************************)
EXTENDS UsartRing, SequenceTheorems, TLAPS

-----------------------------------------------------------------------------
(* Index arithmetic, for a ring of any length. *)

(* Indices stay in the ring, and it is never more than full. *)
LEMMA IndexType ==
    ASSUME NEW len \in Nat \ {0},
           NEW h \in 0..(len - 1), NEW t \in 0..(len - 1)
    PROVE  /\ Succ(h, len) \in 0..(len - 1)
           /\ Fill(h, t, len) \in 0..(len - 1)
           /\ \A i \in 0..(len - 1) : Cell(t, i, len) \in 0..(len - 1)
           /\ Fill(h, t, len) = 0 <=> h = t
BY DEF Succ, Fill, Cell

(* Putting a byte in the cell after the head of a ring with room makes it  *)
(* the last one and disturbs none of the others.                           *)
LEMMA PutAfterHead ==
    ASSUME NEW len \in Nat \ {0},
           NEW h \in 0..(len - 1), NEW t \in 0..(len - 1),
           Succ(h, len) # t
    PROVE  /\ Fill(h, t, len) < len - 1
           /\ Fill(Succ(h, len), t, len) = Fill(h, t, len) + 1
           /\ Cell(t, Fill(h, t, len) + 1, len) = Succ(h, len)
           /\ \A i \in 1..Fill(h, t, len) : Cell(t, i, len) # Succ(h, len)
BY DEF Succ, Fill, Cell

(* The same for the cell at the head. *)
LEMMA PutAtHead ==
    ASSUME NEW len \in Nat \ {0},
           NEW h \in 0..(len - 1), NEW t \in 0..(len - 1),
           Fill(h, t, len) < len - 1
    PROVE  /\ Fill(Succ(h, len), t, len) = Fill(h, t, len) + 1
           /\ Cell(t, Fill(h, t, len), len) = h
           /\ \A i \in 1..Fill(h, t, len) : Cell(t, i - 1, len) # h
BY DEF Succ, Fill, Cell

(* Advancing the tail takes the first byte away and shifts the others.     *)
LEMMA TakeAtTail ==
    ASSUME NEW len \in Nat \ {0},
           NEW h \in 0..(len - 1), NEW t \in 0..(len - 1),
           h # t
    PROVE  /\ Fill(h, t, len) > 0
           /\ Fill(h, Succ(t, len), len) = Fill(h, t, len) - 1
           /\ Cell(t, 1, len) = Succ(t, len)
           /\ Cell(t, 0, len) = t
           /\ \A i \in 1..(Fill(h, t, len) - 1) :
                 /\ Cell(Succ(t, len), i, len) = Cell(t, i + 1, len)
                 /\ Cell(Succ(t, len), i - 1, len) = Cell(t, i, len)
BY DEF Succ, Fill, Cell

(* What Append and Tail do to a sequence that is given cell by cell.       *)
LEMMA CellsAreSeq ==
    ASSUME NEW S, NEW n \in Nat, NEW s \in [1..n -> S]
    PROVE  s \in Seq(S) /\ Len(s) = n
OBVIOUS

(* Cell by cell, a ring with one more byte is an Append,                    *)
LEMMA AppendCells ==
    ASSUME NEW S, NEW n \in Nat, NEW e \in S,
           NEW s \in [1..n -> S], NEW u \in [1..(n + 1) -> S],
           \A i \in 1..n : u[i] = s[i], u[n + 1] = e
    PROVE  u = Append(s, e)
<1>1. s \in Seq(S) /\ Len(s) = n /\ u \in Seq(S) /\ Len(u) = n + 1
  BY CellsAreSeq
<1>2. /\ Append(s, e) \in Seq(S) /\ Len(Append(s, e)) = n + 1
      /\ \A i \in 1..n : Append(s, e)[i] = s[i]
      /\ Append(s, e)[n + 1] = e
  BY <1>1, AppendProperties
<1>3. \A i \in 1..Len(u) : u[i] = Append(s, e)[i]
  BY <1>1, <1>2
<1> QED
  BY <1>1, <1>2, <1>3, SeqEqual

(* and one with a byte less is a Tail.                                      *)
LEMMA TailCells ==
    ASSUME NEW S, NEW n \in Nat \ {0},
           NEW s \in [1..n -> S], NEW u \in [1..(n - 1) -> S],
           \A i \in 1..(n - 1) : u[i] = s[i + 1]
    PROVE  s # <<>> /\ Head(s) = s[1] /\ u = Tail(s)
<1>1. /\ s \in Seq(S) /\ Len(s) = n
      /\ u \in Seq(S) /\ Len(u) = n - 1
  BY CellsAreSeq
<1>2. s # <<>> /\ Head(s) = s[1]
  BY <1>1
<1>3. /\ Tail(s) \in Seq(S) /\ Len(Tail(s)) = n - 1
      /\ \A i \in 1..(n - 1) : Tail(s)[i] = s[i + 1]
  BY <1>1, <1>2, HeadTailProperties
<1>4. \A i \in 1..Len(u) : u[i] = Tail(s)[i]
  BY <1>1, <1>3
<1> QED
  BY <1>1, <1>2, <1>3, <1>4, SeqEqual

-----------------------------------------------------------------------------
(* The invariant: types, an armed transmitter, and what readb has taken is *)
(* the cell it gave up, which receiving leaves alone while there is room.  *)
IInv ==
    /\ TypeOK
    /\ PendingIsArmed
    /\ reading => Cell(rx_tail, RxLen - 1, RxLen) = tmp

(* An arriving byte finds room when the handler stores it. *)
Room == rdrf => Fill(rx_head, rx_tail, RxLen) < RxLen - 1

(* The invariants hold at first.                                            *)
LEMMA Initially == Init => IInv /\ Room
<1> SUFFICES ASSUME Init PROVE IInv /\ Room
  OBVIOUS
<1>1. 0 \in 0..(TxLen - 1) /\ 0 \in 0..(RxLen - 1)
  BY UsartAssumption
<1>2. TypeOK
  BY <1>1, UsartAssumption DEF Init, TypeOK
<1> QED
  BY <1>2 DEF Init, IInv, Room, PendingIsArmed

(* Every step of the rings keeps the invariant. *)
LEMMA Inductive == IInv /\ Room /\ [Next]_vars => IInv' /\ Room'
<1> SUFFICES ASSUME IInv, Room, [Next]_vars PROVE IInv' /\ Room'
  OBVIOUS
<1> USE UsartAssumption DEF IInv, Room, TypeOK, PendingIsArmed, txVars, rxVars,
    readerVars
<1>1. ASSUME NEW b \in Byte, Writeb(b) PROVE IInv' /\ Room'
  BY <1>1, IndexType DEF Writeb
<1>2. CASE ReadbTake
  <2>1. Succ(rx_tail, RxLen) \in 0..(RxLen - 1)
    BY IndexType
  <2>2. Cell(Succ(rx_tail, RxLen), RxLen - 1, RxLen) = rx_tail
    BY DEF Succ, Cell
  <2>3. Room'
    <3>1. Fill(rx_head, Succ(rx_tail, RxLen), RxLen)
             = Fill(rx_head, rx_tail, RxLen) - 1
      BY <1>2, TakeAtTail DEF ReadbTake
    <3>2. Fill(rx_head, rx_tail, RxLen) \in Nat
      BY IndexType
    <3> QED
      BY <1>2, <3>1, <3>2 DEF ReadbTake
  <2> QED
    BY <1>2, <2>1, <2>2, <2>3 DEF ReadbTake
<1>3. CASE ReadbReturn
  BY <1>3 DEF ReadbReturn, Cell
<1>4. CASE InterruptReceive
  <2>1. Succ(rx_head, RxLen) \in 0..(RxLen - 1)
    BY IndexType
  <2>2. rx_fifo' \in [0..(RxLen - 1) -> Byte]
    BY <1>4 DEF InterruptReceive
  <2> QED
    BY <1>4, <2>1, <2>2 DEF InterruptReceive
<1>5. CASE InterruptSend
  BY <1>5, IndexType DEF InterruptSend
<1>6. CASE InterruptIdle
  BY <1>6 DEF InterruptIdle
<1>7. CASE Shift
  BY <1>7 DEF Shift
<1>8. ASSUME NEW b \in Byte, Arrive(b) PROVE IInv' /\ Room'
  BY <1>8 DEF Arrive
<1>9. CASE UNCHANGED vars
  BY <1>9 DEF vars
<1> QED
  BY <1>1, <1>2, <1>3, <1>4, <1>5, <1>6, <1>7, <1>8, <1>9 DEF Next, Interrupt

(* The inductive invariant holds in every reachable state.                  *)
LEMMA Always == Spec => [](IInv /\ Room)
BY Initially, Inductive, PTL DEF Spec

(* usart_mcxa_writeb and the interrupt handler keep every variable in its  *)
(* type, whatever the lengths of the rings.                                *)
THEOREM TypeCorrect == Spec => []TypeOK
<1>1. IInv => TypeOK
  BY DEF IInv
<1> QED
  BY <1>1, Always, PTL

(* writeb (mcxa.c:129) and the handler (mcxa.c:86) switch the transmit     *)
(* interrupt on and off, and never leave it off with a byte in the ring.   *)
THEOREM Armed == Spec => []PendingIsArmed
<1>1. IInv => PendingIsArmed
  BY DEF IInv
<1> QED
  BY <1>1, Always, PTL

-----------------------------------------------------------------------------
(* The transmit ring refines ByteFifo. *)

(* What the rings hold are bytes: the transmit ring ...                     *)
LEMMA TxCells == TypeOK => TxQueue \in [1..Fill(tx_head, tx_tail, TxLen) -> Byte]
<1> SUFFICES ASSUME TypeOK,
                    NEW i \in 1..Fill(tx_head, tx_tail, TxLen)
             PROVE  tx_fifo[Cell(tx_tail, i, TxLen)] \in Byte
  BY DEF TxQueue
<1>1. Fill(tx_head, tx_tail, TxLen) \in 0..(TxLen - 1)
  BY UsartAssumption, IndexType DEF TypeOK
<1>2. Cell(tx_tail, i, TxLen) \in 0..(TxLen - 1)
  BY <1>1, UsartAssumption, IndexType DEF TypeOK
<1> QED
  BY <1>2 DEF TypeOK

(* The transmit ring is empty at first,                                     *)
LEMMA TxStart == Init => Tx!Init
<1> SUFFICES ASSUME Init PROVE Tx!Init
  OBVIOUS
<1>1. Fill(tx_head, tx_tail, TxLen) = 0
  BY UsartAssumption DEF Init, Fill
<1>2. TxQueue = <<>>
  BY <1>1 DEF TxQueue
<1> QED
  BY <1>2, UsartAssumption DEF Init, Tx!Init

(* An accepted byte is appended to the queue. *)
LEMMA TxPut ==
    ASSUME TypeOK, NEW b \in Byte, Writeb(b)
    PROVE  Tx!Put(b)
<1> DEFINE n == Fill(tx_head, tx_tail, TxLen)
<1> USE UsartAssumption
<1>1. n \in Nat /\ n < TxLen - 1 /\ Succ(tx_head, TxLen) \in 0..(TxLen - 1)
  BY IndexType, PutAfterHead DEF TypeOK, Writeb
<1>2. Fill(tx_head', tx_tail', TxLen) = n + 1
  BY PutAfterHead DEF TypeOK, Writeb
<1>3. TxQueue \in [1..n -> Byte]
  BY TxCells
<1>4. /\ TxQueue' \in [1..(n + 1) -> Byte]
      /\ \A i \in 1..n : TxQueue'[i] = TxQueue[i]
      /\ TxQueue'[n + 1] = b
  <2>1. TxQueue' = [i \in 1..(n + 1) |-> tx_fifo'[Cell(tx_tail, i, TxLen)]]
    BY <1>2 DEF TxQueue, Writeb
  <2>2. \A i \in 1..n : Cell(tx_tail, i, TxLen) \in 0..(TxLen - 1) \ {tx_head'}
    BY <1>1, IndexType, PutAfterHead DEF TypeOK, Writeb
  <2>3. Cell(tx_tail, n + 1, TxLen) = tx_head'
    BY PutAfterHead DEF TypeOK, Writeb
  <2>4. /\ tx_fifo'[tx_head'] = b
        /\ \A c \in 0..(TxLen - 1) \ {tx_head'} : tx_fifo'[c] = tx_fifo[c]
    BY <1>1 DEF TypeOK, Writeb
  <2>5. TxQueue'[n + 1] = b
    BY <1>1, <2>1, <2>3, <2>4
  <2>6. ASSUME NEW i \in 1..n PROVE TxQueue'[i] = TxQueue[i]
    <3>1. TxQueue'[i] = tx_fifo'[Cell(tx_tail, i, TxLen)]
      BY <1>1, <2>1
    <3>2. TxQueue[i] = tx_fifo[Cell(tx_tail, i, TxLen)]
      BY DEF TxQueue
    <3> QED
      BY <2>2, <2>4, <3>1, <3>2
  <2>7. TxQueue' \in [1..(n + 1) -> Byte]
    <3>1. ASSUME NEW i \in 1..(n + 1) PROVE TxQueue'[i] \in Byte
      <4> HIDE DEF n
      <4>1. CASE i = n + 1
        BY <2>5, <4>1
      <4>2. CASE i # n + 1
        <5>1. i \in 1..n
          BY <1>1, <4>2
        <5> QED
          BY <1>3, <2>6, <5>1
      <4> QED
        BY <4>1, <4>2
    <3> HIDE DEF n
    <3> QED
      BY <2>1, <3>1
  <2> QED
    BY <2>5, <2>6, <2>7
<1>5. TxQueue' = Append(TxQueue, b)
  <2> HIDE DEF n
  <2> QED BY <1>1, <1>3, <1>4, AppendCells
<1>6. Len(TxQueue) < TxLen - 1
  <2> HIDE DEF n
  <2> QED BY <1>1, <1>3, CellsAreSeq
<1> QED
  BY <1>5, <1>6 DEF Tx!Put, Writeb

(* The handler moves the oldest byte to the data register. *)
LEMMA TxGet ==
    ASSUME TypeOK, InterruptSend
    PROVE  Tx!Get
<1> DEFINE n == Fill(tx_head, tx_tail, TxLen)
<1> USE UsartAssumption
<1>1. n \in Nat \ {0} /\ Fill(tx_head', tx_tail', TxLen) = n - 1
  <2>1. n \in 0..(TxLen - 1)
    BY IndexType DEF TypeOK
  <2>2. n > 0 /\ Fill(tx_head, Succ(tx_tail, TxLen), TxLen) = n - 1
    BY TakeAtTail DEF TypeOK, InterruptSend
  <2> QED
    BY <2>1, <2>2 DEF InterruptSend
<1>2. TxQueue \in [1..n -> Byte]
  BY TxCells
<1>3. TxQueue' = [i \in 1..(n - 1) |-> tx_fifo[Cell(Succ(tx_tail, TxLen), i, TxLen)]]
  BY <1>1 DEF TxQueue, InterruptSend
<1>4. \A i \in 1..(n - 1) : TxQueue'[i] = TxQueue[i + 1]
  <2>1. \A i \in 1..(n - 1) :
           Cell(Succ(tx_tail, TxLen), i, TxLen) = Cell(tx_tail, i + 1, TxLen)
    BY TakeAtTail DEF TypeOK, InterruptSend
  <2> QED
    BY <1>1, <1>3, <2>1 DEF TxQueue
<1>5. TxQueue' \in [1..(n - 1) -> Byte]
  BY <1>1, <1>2, <1>3, <1>4
<1>6. tdr' = TxQueue[1]
  BY <1>1, TakeAtTail DEF TypeOK, InterruptSend, TxQueue
<1>7. TxQueue # <<>> /\ Head(TxQueue) = TxQueue[1] /\ TxQueue' = Tail(TxQueue)
  <2> HIDE DEF n
  <2> QED BY <1>1, <1>2, <1>4, <1>5, TailCells
<1> QED
  BY <1>6, <1>7 DEF Tx!Get

(* Bytes go through the transmit ring in order, none lost, none twice,     *)
(* none refused while there is room, whatever its length.                  *)
THEOREM TxRefines == Spec => TxIsFifo
<1>1. TypeOK /\ [Next]_vars => [Tx!Next]_(Tx!fifoVars)
  <2> SUFFICES ASSUME TypeOK, [Next]_vars PROVE [Tx!Next]_(Tx!fifoVars)
    OBVIOUS
  <2>1. CASE \E b \in Byte : Writeb(b)
    BY <2>1, TxPut DEF Tx!Next
  <2>2. CASE InterruptSend
    BY <2>2, TxGet DEF Tx!Next
  <2>3. CASE UNCHANGED <<txVars, tdr>>
    BY <2>3 DEF txVars, Tx!fifoVars, TxQueue, Fill, Cell
  <2> QED
    BY <2>1, <2>2, <2>3 DEF Next, Interrupt, ReadbTake, ReadbReturn,
       InterruptReceive, InterruptIdle, Shift, Arrive, vars
<1> QED
  BY <1>1, TxStart, TypeCorrect, PTL DEF Spec, TxIsFifo, Tx!Spec

-----------------------------------------------------------------------------
(* The receive ring refines ByteFifo, the byte readb is about to return    *)
(* counting as returned.                                                   *)

RxOut == IF reading THEN rx_fifo[tmp] ELSE got

(* ... and the receive ring.                                                *)
LEMMA RxCells == TypeOK => RxQueue \in [1..Fill(rx_head, rx_tail, RxLen) -> Byte]
<1> SUFFICES ASSUME TypeOK,
                    NEW i \in 1..Fill(rx_head, rx_tail, RxLen)
             PROVE  rx_fifo[Cell(rx_tail, i - 1, RxLen)] \in Byte
  BY DEF RxQueue
<1>1. Fill(rx_head, rx_tail, RxLen) \in 0..(RxLen - 1)
  BY UsartAssumption, IndexType DEF TypeOK
<1>2. i - 1 \in 0..(RxLen - 1)
  BY <1>1, UsartAssumption
<1>3. Cell(rx_tail, i - 1, RxLen) \in 0..(RxLen - 1)
  BY <1>2, UsartAssumption, IndexType DEF TypeOK
<1> QED
  BY <1>3 DEF TypeOK

(* and so is the receive ring.                                              *)
LEMMA RxStart == Init => Rx!Init
<1> SUFFICES ASSUME Init PROVE Rx!Init
  OBVIOUS
<1>1. Fill(rx_head, rx_tail, RxLen) = 0
  BY UsartAssumption DEF Init, Fill
<1>2. RxQueue = <<>>
  BY <1>1 DEF RxQueue
<1> QED
  BY <1>2, UsartAssumption DEF Init, Rx!Init

(* While there is room, the handler appends the byte it was given and      *)
(* leaves the cell that readb is about to read alone.                      *)
LEMMA RxPut ==
    ASSUME IInv, Room, InterruptReceive
    PROVE  Rx!Put(rdr)
<1> DEFINE n == Fill(rx_head, rx_tail, RxLen)
<1> USE UsartAssumption
<1>1. /\ n \in Nat /\ n < RxLen - 1
      /\ Fill(rx_head', rx_tail', RxLen) = n + 1
      /\ Cell(rx_tail, n, RxLen) = rx_head
      /\ \A i \in 1..n : Cell(rx_tail, i - 1, RxLen) # rx_head
      /\ \A i \in 0..(RxLen - 1) : Cell(rx_tail, i, RxLen) \in 0..(RxLen - 1)
  <2>1. /\ rx_head \in 0..(RxLen - 1) /\ rx_tail \in 0..(RxLen - 1)
        /\ rx_tail' = rx_tail /\ rx_head' = Succ(rx_head, RxLen)
    BY DEF IInv, TypeOK, InterruptReceive, rxVars
  <2>2. n \in Nat /\ n < RxLen - 1
    BY <2>1, IndexType DEF Room, InterruptReceive
  <2>3. /\ Fill(Succ(rx_head, RxLen), rx_tail, RxLen) = n + 1
        /\ Cell(rx_tail, n, RxLen) = rx_head
        /\ \A i \in 1..n : Cell(rx_tail, i - 1, RxLen) # rx_head
    BY <2>1, <2>2, PutAtHead
  <2>4. \A i \in 0..(RxLen - 1) : Cell(rx_tail, i, RxLen) \in 0..(RxLen - 1)
    BY <2>1, IndexType
  <2> QED
    BY <2>1, <2>2, <2>3, <2>4
<1>2. /\ rx_fifo'[rx_head] = rdr
      /\ \A c \in 0..(RxLen - 1) \ {rx_head} : rx_fifo'[c] = rx_fifo[c]
  BY DEF IInv, TypeOK, InterruptReceive
<1>3. RxQueue \in [1..n -> Byte]
  BY RxCells DEF IInv
<1>4. RxQueue' = [i \in 1..(n + 1) |-> rx_fifo'[Cell(rx_tail, i - 1, RxLen)]]
  BY <1>1 DEF RxQueue, InterruptReceive
<1>5. RxQueue'[n + 1] = rdr
  <2>1. n + 1 \in 1..(n + 1) /\ (n + 1) - 1 = n
    BY <1>1
  <2> HIDE DEF n
  <2>2. RxQueue'[n + 1] = rx_fifo'[Cell(rx_tail, n, RxLen)]
    BY <1>4, <2>1
  <2> QED
    BY <1>1, <1>2, <2>2
<1>6. ASSUME NEW i \in 1..n PROVE RxQueue'[i] = RxQueue[i]
  <2>1. RxQueue'[i] = rx_fifo'[Cell(rx_tail, i - 1, RxLen)]
    BY <1>1, <1>4
  <2>2. RxQueue[i] = rx_fifo[Cell(rx_tail, i - 1, RxLen)]
    BY DEF RxQueue
  <2>3. Cell(rx_tail, i - 1, RxLen) \in 0..(RxLen - 1) \ {rx_head}
    BY <1>1
  <2> QED
    BY <1>2, <2>1, <2>2, <2>3
<1>7. RxQueue' \in [1..(n + 1) -> Byte]
  <2>1. ASSUME NEW i \in 1..(n + 1) PROVE RxQueue'[i] \in Byte
    <3> HIDE DEF n
    <3>1. CASE i = n + 1
      BY <1>5, <3>1 DEF IInv, TypeOK
    <3>2. CASE i # n + 1
      <4>1. i \in 1..n
        BY <1>1, <3>2
      <4> QED
        BY <1>3, <1>6, <4>1
    <3> QED
      BY <3>1, <3>2
  <2> HIDE DEF n
  <2> QED
    BY <1>4, <2>1
<1>8. RxQueue' = Append(RxQueue, rdr) /\ Len(RxQueue) < RxLen - 1
  <2>1. rdr \in Byte
    BY DEF IInv, TypeOK
  <2>2. n \in Nat /\ n < RxLen - 1
    BY <1>1
  <2> HIDE DEF n
  <2>3. RxQueue' = Append(RxQueue, rdr)
    BY <1>3, <1>5, <1>6, <1>7, <2>1, <2>2, AppendCells
  <2>4. Len(RxQueue) = n
    BY <1>3, <2>2, CellsAreSeq
  <2> QED
    BY <2>2, <2>3, <2>4
<1>9. RxOut' = RxOut
  <2>1. CASE reading
    <3>1. tmp # rx_head
      BY <1>1, <2>1 DEF IInv, TypeOK, Cell, Fill
    <3> QED
      BY <1>2, <2>1, <3>1 DEF RxOut, IInv, TypeOK, InterruptReceive, readerVars
  <2>2. CASE ~reading
    BY <2>2 DEF RxOut, InterruptReceive, readerVars
  <2> QED
    BY <2>1, <2>2
<1> QED
  BY <1>8, <1>9 DEF Rx!Put, RxOut

(* readb takes the oldest byte when it gives up the cell. *)
LEMMA RxGet ==
    ASSUME TypeOK, ReadbTake
    PROVE  Rx!Get
<1> DEFINE n == Fill(rx_head, rx_tail, RxLen)
<1> USE UsartAssumption
<1>1. n \in Nat \ {0} /\ Fill(rx_head', rx_tail', RxLen) = n - 1
  <2>1. n \in 0..(RxLen - 1)
    BY IndexType DEF TypeOK
  <2>2. n > 0 /\ Fill(rx_head, Succ(rx_tail, RxLen), RxLen) = n - 1
    BY TakeAtTail DEF TypeOK, ReadbTake
  <2> QED
    BY <2>1, <2>2 DEF ReadbTake
<1>2. RxQueue \in [1..n -> Byte]
  BY RxCells
<1>3. RxQueue' = [i \in 1..(n - 1) |->
                     rx_fifo[Cell(Succ(rx_tail, RxLen), i - 1, RxLen)]]
  BY <1>1 DEF RxQueue, ReadbTake
<1>4. \A i \in 1..(n - 1) : RxQueue'[i] = RxQueue[i + 1]
  <2>1. \A i \in 1..(n - 1) :
           Cell(Succ(rx_tail, RxLen), i - 1, RxLen) = Cell(rx_tail, i, RxLen)
    BY TakeAtTail DEF TypeOK, ReadbTake
  <2>2. \A i \in 1..(n - 1) : RxQueue[i + 1] = rx_fifo[Cell(rx_tail, i, RxLen)]
    BY <1>1 DEF RxQueue
  <2>3. \A i \in 1..(n - 1) :
           RxQueue'[i] = rx_fifo[Cell(Succ(rx_tail, RxLen), i - 1, RxLen)]
    BY <1>3, Zenon
  <2> QED
    BY <2>1, <2>2, <2>3, Zenon
<1>5. RxQueue' \in [1..(n - 1) -> Byte]
  BY <1>1, <1>2, <1>3, <1>4
<1>6. RxOut' = RxQueue[1]
  <2>1. Cell(rx_tail, 0, RxLen) = rx_tail
    BY TakeAtTail DEF TypeOK, ReadbTake
  <2>2. RxQueue[1] = rx_fifo[rx_tail]
    BY <1>1, <2>1 DEF RxQueue
  <2> QED
    BY <2>2 DEF RxOut, ReadbTake
<1>7. RxQueue # <<>> /\ Head(RxQueue) = RxQueue[1] /\ RxQueue' = Tail(RxQueue)
  <2> HIDE DEF n
  <2> QED BY <1>1, <1>2, <1>4, <1>5, TailCells
<1> QED
  BY <1>6, <1>7 DEF Rx!Get, RxOut

(* Bytes go through the receive ring in order, none lost and none twice,   *)
(* although readb gives up a cell before it reads it, whatever its length. *)
THEOREM RxRefines == Spec => RxIsFifo
<1>1. IInv /\ Room /\ [Next]_vars => [Rx!Next]_(Rx!fifoVars)
  <2> SUFFICES ASSUME IInv, Room, [Next]_vars PROVE [Rx!Next]_(Rx!fifoVars)
    OBVIOUS
  <2>1. CASE InterruptReceive
    <3>1. rdr \in Byte
      BY DEF IInv, TypeOK
    <3> QED
      BY <2>1, <3>1, RxPut DEF Rx!Next
  <2>2. CASE ReadbTake
    BY <2>2, RxGet DEF Rx!Next, IInv
  <2>3. CASE ReadbReturn
    BY <2>3 DEF ReadbReturn, rxVars, Rx!fifoVars, RxQueue, Fill, Cell
  <2>4. CASE UNCHANGED <<rxVars, readerVars>>
    BY <2>4 DEF rxVars, readerVars, Rx!fifoVars, RxQueue, Fill, Cell
  <2> QED
    BY <2>1, <2>2, <2>3, <2>4 DEF Next, Interrupt, Writeb, InterruptSend,
       InterruptIdle, Shift, Arrive, vars
<1> QED
  BY <1>1, RxStart, Always, PTL DEF Spec, RxIsFifo, Rx!Spec
=============================================================================
