\* Two byte values are enough to see two bytes change places.
CONSTANTS
    Byte = {0, 1}
    TxLen = 4
    RxLen = 3
SPECIFICATION FairSpec
INVARIANT TypeOK
INVARIANT PendingIsArmed
PROPERTY TxIsFifo
PROPERTY RxIsFifo
PROPERTY Transmitted
