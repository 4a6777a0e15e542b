CONSTANTS
    Worker = w
    Proc = {w, p1, p2, p3}
    NoProc = NoProc
    QueueSize = 4
    QueueLen = 4
    Blocks = 2
    Call <- Calls
SPECIFICATION Spec
CHECK_DEADLOCK FALSE
INVARIANT QueueNeverEmpty
