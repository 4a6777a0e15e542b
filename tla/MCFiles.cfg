CONSTANTS
    First = a
    Proc = {a, b, c}
    NoProc = NoProc
    MaxFiles = 2
    MaxFds = 2
    Wrap = 4
SYMMETRY Symmetry
SPECIFICATION Spec
CHECK_DEADLOCK FALSE
INVARIANT TypeOK
INVARIANT FilesCovered
INVARIANT FilesExact
