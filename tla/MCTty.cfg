CONSTANTS
    Process = {p, q}
    Nobody = Nobody
    Key <- KeysUsed
    Char <- CharsUsed
    NoChar = NoChar
    Texts <- TextsUsed
    Counts <- CountsUsed
    RxMax = 1
    TxMax = 2
    MaxKeys = 2
    MaxCalls = 2
    MaxPuts = 1
SPECIFICATION Spec
CHECK_DEADLOCK FALSE
INVARIANT TypeOK
INVARIANT OutputIsExpansion
INVARIANT BufferFits
PROPERTY KilledStaysDead
PROPERTY OutputEnds
