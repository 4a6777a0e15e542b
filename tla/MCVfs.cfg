CONSTANTS
    Process = {p, q}
    Ucfs = {"root", "dir", "file"}
    Devfs = {"devroot", "tty", "null"}
    Root = "root"
    MountDir = "dir"
    DevRoot = "devroot"
    Name <- Names
    Entry <- Tree
    Size <- Sizes
    BlockSize = 3
    NDentry = 2
    Paths <- PathsUsed
    Counts = {4, 20}
    NoEnt = "noent"
    Nil = "nil"
SYMMETRY Symmetry
SPECIFICATION VfsSpec
CHECK_DEADLOCK FALSE
INVARIANT VfsTypeOK
 
INVARIANT DentriesTrue
INVARIANT MissIsHome
 
