\* Two mutexes, so that a process can hold one and wait for the other, and
\* the wait_next fields serve two lists.  Depth 2 takes a mutex recursively.
CONSTANTS
    Worker = w
    Proc = {w, p1, p2, p3}
    NoProc = NoProc
    NoWaiter = NoWaiter
    QueueSize = 4
    Mutex = {m1, m2}
    MaxDepth = 2
SYMMETRY Symmetry
SPECIFICATION Spec
INVARIANT TypeOK
INVARIANT MutualExclusion
INVARIANT HeldIsOwned
INVARIANT NoStrandedWaiter
PROPERTY ImplementsMutex
