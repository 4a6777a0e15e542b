\* PROC_MAX_PROC = 4 (include/kernel/settings.h): the kernel's own size.
CONSTANTS
    Worker = w
    KernelInit = i
    Proc = {w, i, p1, p2}
    NoProc = NoProc
    QueueSize = 4
SPECIFICATION FairSpec
INVARIANT TypeOK
INVARIANT RunnableOnce
PROPERTY EventuallyRuns
