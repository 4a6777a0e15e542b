CONSTANTS
    Worker = w
    KInit = k
    UInit = u
    Proc = {w, k, u, d1, d2}
    NoProc = NoProc
    MaxProc = 4
    MaxSpawn = 3
    Wild = Wild
    WaitFor <- WaitForChildren
SPECIFICATION Spec
CHECK_DEADLOCK FALSE
INVARIANT StackIsReal
