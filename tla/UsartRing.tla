----------------------------- MODULE UsartRing -----------------------------
(***************************************************************************)
(* The two byte rings of drivers/usart/mcxa.c, shared by thread code       *)
(* (usart_mcxa_writeb by whoever prints, usart_mcxa_readb by the kernel    *)
(* worker, both with interrupts disabled) and usart_mcxa_interrupt.        *)
(* The transmit ring stores a byte in the cell after tx_head, the receive  *)
(* ring in the cell at rx_head.  The registers of the LPUART are modelled  *)
(* from the way the driver uses them.                                      *)
(***************************************************************************)
EXTENDS Naturals, Sequences

CONSTANTS
    Byte,       \* the values of a byte
    TxLen,      \* USART_TX_FIFO_LEN
    RxLen       \* USART_RX_FIFO_LEN

(* The lengths are powers of two, so that the masks of usart.h are moduli; *)
(* nothing else depends on it.  kzalloc fills the rings with zeros.        *)
ASSUME UsartAssumption ==
    /\ TxLen \in Nat \ {0} /\ RxLen \in Nat \ {0}
    /\ 0 \in Byte

VARIABLES
    tx_fifo, tx_head, tx_tail,
    rx_fifo, rx_head, rx_tail,
    tie,        \* CTRL.TIE, the transmit interrupt enable
    tdr, tdre,  \* the transmit data register, and STAT.TDRE: it is empty
    rdr, rdrf,  \* the receive data register, and STAT.RDRF: it is full
    reading,    \* the worker is in readb, past __enable_irq (line 113)
    tmp,        \* its local variable there
    got         \* the byte readb last returned

txVars == <<tx_fifo, tx_head, tx_tail>>
rxVars == <<rx_fifo, rx_head, rx_tail>>
readerVars == <<reading, tmp, got>>
vars == <<txVars, rxVars, tie, tdr, tdre, rdr, rdrf, readerVars>>

(* A mutated Succ: off by one at the end of the ring. *)
SuccPast(i, len) == IF i = len THEN 0 ELSE i + 1

(* (i + 1) & MSK *)
Succ(i, len) == IF i + 1 = len THEN 0 ELSE i + 1

(* The number of bytes in a ring. *)
Fill(head, tail, len) ==
    IF tail <= head THEN head - tail ELSE head + len - tail

(* The cell i places after cell tail. *)
Cell(tail, i, len) == IF tail + i < len THEN tail + i ELSE tail + i - len

TypeOK ==
    /\ tx_fifo \in [0..(TxLen - 1) -> Byte]
    /\ tx_head \in 0..(TxLen - 1) /\ tx_tail \in 0..(TxLen - 1)
    /\ rx_fifo \in [0..(RxLen - 1) -> Byte]
    /\ rx_head \in 0..(RxLen - 1) /\ rx_tail \in 0..(RxLen - 1)
    /\ tie \in BOOLEAN /\ tdre \in BOOLEAN /\ rdrf \in BOOLEAN
    /\ tdr \in Byte /\ rdr \in Byte
    /\ reading \in BOOLEAN /\ tmp \in 0..(RxLen - 1) /\ got \in Byte

(* usart_create and usart_mcxa_init *)
Init ==
    /\ tx_fifo = [i \in 0..(TxLen - 1) |-> 0]
    /\ tx_head = 0 /\ tx_tail = 0
    /\ rx_fifo = [i \in 0..(RxLen - 1) |-> 0]
    /\ rx_head = 0 /\ rx_tail = 0
    /\ tie = FALSE
    /\ tdr = 0 /\ tdre = TRUE
    /\ rdr = 0 /\ rdrf = FALSE
    /\ reading = FALSE /\ tmp = 0 /\ got = 0

-----------------------------------------------------------------------------

(* Two mutated forms of Writeb: a full ring is not seen, and the transmit  *)
(* interrupt is not enabled.                                               *)
WritebOverwrites(val) ==
    /\ tx_head' = Succ(tx_head, TxLen)
    /\ tx_fifo' = [tx_fifo EXCEPT ![Succ(tx_head, TxLen)] = val]
    /\ tie' = TRUE
    /\ UNCHANGED <<tx_tail, rxVars, tdr, tdre, rdr, rdrf, readerVars>>

WritebUnarmed(val) ==
    /\ Succ(tx_head, TxLen) # tx_tail
    /\ tx_head' = Succ(tx_head, TxLen)
    /\ tx_fifo' = [tx_fifo EXCEPT ![Succ(tx_head, TxLen)] = val]
    /\ UNCHANGED <<tx_tail, rxVars, tie, tdr, tdre, rdr, rdrf, readerVars>>

(* usart_mcxa_writeb on a ring with room. *)
Writeb(val) ==
    LET cell == Succ(tx_head, TxLen)
    IN  /\ cell # tx_tail
        /\ tx_head' = cell
        /\ tx_fifo' = [tx_fifo EXCEPT ![cell] = val]
        /\ tie' = TRUE
        /\ UNCHANGED <<tx_tail, rxVars, tdr, tdre, rdr, rdrf, readerVars>>

(* usart_mcxa_readb up to __enable_irq: the cell is given up first. *)
ReadbTake ==
    /\ ~reading
    /\ rx_tail # rx_head
    /\ tmp' = rx_tail
    /\ rx_tail' = Succ(rx_tail, RxLen)
    /\ reading' = TRUE
    /\ UNCHANGED <<txVars, rx_fifo, rx_head, tie, tdr, tdre, rdr, rdrf, got>>

(* The rest of it: interrupts are enabled and the cell is read. *)
ReadbReturn ==
    /\ reading
    /\ got' = rx_fifo[tmp]
    /\ reading' = FALSE
    /\ UNCHANGED <<txVars, rxVars, tie, tdr, tdre, rdr, rdrf, tmp>>

(* A mutated InterruptReceive: the cell after rx_head, as in writeb. *)
InterruptReceiveAfter ==
    /\ rdrf
    /\ rx_fifo' = [rx_fifo EXCEPT ![Succ(rx_head, RxLen)] = rdr]
    /\ rx_head' = Succ(rx_head, RxLen)
    /\ rdrf' = FALSE
    /\ UNCHANGED <<txVars, rx_tail, tie, tdr, tdre, rdr, readerVars>>

(* usart_mcxa_interrupt with a byte received: it is stored, whether there  *)
(* is room or not, and the handler returns.                                *)
InterruptReceive ==
    /\ rdrf
    /\ rx_fifo' = [rx_fifo EXCEPT ![rx_head] = rdr]
    /\ rx_head' = Succ(rx_head, RxLen)
    /\ rdrf' = FALSE
    /\ UNCHANGED <<txVars, rx_tail, tie, tdr, tdre, rdr, readerVars>>

(* usart_mcxa_interrupt because the transmitter is ready for a byte. *)
InterruptSend ==
    /\ ~rdrf /\ tie /\ tdre
    /\ tx_tail # tx_head
    /\ tx_tail' = Succ(tx_tail, TxLen)
    /\ tdr' = tx_fifo[Succ(tx_tail, TxLen)]
    /\ tdre' = FALSE
    /\ UNCHANGED <<tx_fifo, tx_head, rxVars, tie, rdr, rdrf, readerVars>>

(* A mutated InterruptIdle: the handler does not look again. *)
InterruptIdleAlways ==
    /\ ~rdrf /\ tie /\ tdre
    /\ tie' = FALSE
    /\ UNCHANGED <<txVars, rxVars, tdr, tdre, rdr, rdrf, readerVars>>

(* The same with nothing to send: the transmit interrupt is turned off. *)
InterruptIdle ==
    /\ ~rdrf /\ tie /\ tdre
    /\ tx_tail = tx_head
    /\ tie' = FALSE
    /\ UNCHANGED <<txVars, rxVars, tdr, tdre, rdr, rdrf, readerVars>>

Interrupt == InterruptReceive \/ InterruptSend \/ InterruptIdle

-----------------------------------------------------------------------------
(* The wire. *)

(* The byte in the data register has moved to the shift register. *)
Shift ==
    /\ ~tdre
    /\ tdre' = TRUE
    /\ UNCHANGED <<txVars, rxVars, tie, tdr, rdr, rdrf, readerVars>>

(* A byte arrives.  Bounds, both of which the driver leaves to the sender: *)
(* the interrupt handler has fetched the byte before, and the worker has   *)
(* read enough of the ring to leave room.                                  *)
Arrive(b) ==
    /\ ~rdrf
    /\ Fill(rx_head, rx_tail, RxLen) < RxLen - 1
    /\ rdr' = b /\ rdrf' = TRUE
    /\ UNCHANGED <<txVars, rxVars, tie, tdr, tdre, readerVars>>

Next ==
    \/ ReadbTake \/ ReadbReturn
    \/ Interrupt
    \/ Shift
    \/ \E b \in Byte : Writeb(b) \/ Arrive(b)

Spec == Init /\ [][Next]_vars

(* A pending interrupt is taken, with a fetched byte first, and the        *)
(* transmitter finishes the byte it has.                                   *)
FairSpec ==
    /\ Spec
    /\ WF_vars(InterruptReceive)
    /\ SF_vars(InterruptSend)
    /\ WF_vars(Shift)

-----------------------------------------------------------------------------

(* A byte that writeb accepted is never left behind with the transmit      *)
(* interrupt off, whatever writeb and the handler that turns the interrupt *)
(* off do to each other.                                                   *)
PendingIsArmed == tx_head # tx_tail => tie

(* Every accepted byte reaches the transmitter.                            *)
Transmitted ==
    \A i \in 0..(TxLen - 1) :
        (tx_tail = i /\ tx_head # i) ~> (tx_tail = Succ(i, TxLen))

(* The bytes of the two rings, oldest first. *)
TxQueue == [i \in 1..Fill(tx_head, tx_tail, TxLen) |->
                tx_fifo[Cell(tx_tail, i, TxLen)]]
RxQueue == [i \in 1..Fill(rx_head, rx_tail, RxLen) |->
                rx_fifo[Cell(rx_tail, i - 1, RxLen)]]

(* Between writeb and the transmit register, the ring is a bounded FIFO.   *)
Tx == INSTANCE ByteFifo WITH Capacity <- TxLen - 1,
                             queue <- TxQueue, out <- tdr
TxIsFifo == Tx!Spec

(* Between the handler and the caller of readb too, although readb gives   *)
(* up a cell before it reads it.                                           *)
Rx == INSTANCE ByteFifo WITH Capacity <- RxLen - 1,
                             queue <- RxQueue,
                             out <- IF reading THEN rx_fifo[tmp] ELSE got
RxIsFifo == Rx!Spec
=============================================================================
