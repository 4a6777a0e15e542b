\* QueueSize is PROC_MAX_PROC.  The ring is as short as the assumption allows.
\* The system can stop, in the trap that DeviceTrap.cfg is about.
CONSTANTS
    Worker = w
    Proc = {w, p1, p2, p3}
    NoProc = NoProc
    QueueSize = 4
    QueueLen = 4
    Blocks = 2
    Call <- Calls
SYMMETRY Symmetry
SPECIFICATION Spec
CHECK_DEADLOCK FALSE
INVARIANT TypeOK
INVARIANT NeverRefused
INVARIANT WokenIsServed
PROPERTY ImplementsDevice
