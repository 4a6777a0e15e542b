CONSTANTS
    Worker = w
    Proc = {w, p1, p2, p3}
    NoProc = NoProc
    NoWaiter = NoWaiter
    QueueSize = 4
    Mutex = {m1}
    MaxDepth = 1
SPECIFICATION Spec
CHECK_DEADLOCK FALSE
INVARIANT HandedOverRuns
