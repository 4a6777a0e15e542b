------------------------------- MODULE Files -------------------------------
(***************************************************************************)
(* The table of open files of fs/vfs.c, its reference counts, and the      *)
(* descriptor tables of the processes that share it: open, close, dup, the *)
(* inheritance of sys_spawn and the closing of proc_reap.                  *)
(*                                                                         *)
(* A count is read in one step and written in the next.  The vfs keeps     *)
(* vfs_file_lock meanwhile, but sys_spawn does not take it.                *)
(***************************************************************************)
EXTENDS Integers, Sequences, FiniteSets

CONSTANTS
    Proc,           \* processes, each one has a single life
    First,          \* the one that runs first, and adopts
    NoProc,         \* nobody
    MaxFiles,       \* VFS_MAXFILES
    MaxFds,         \* PROC_MAXFILES
    Wrap            \* 2 ^ 4, the width of file.refcount being 4 bits

(* A count has room for 1.                                                  *)
ASSUME FilesAssumption ==
    /\ IsFiniteSet(Proc) /\ First \in Proc /\ NoProc \notin Proc
    /\ MaxFiles \in Nat \ {0} /\ MaxFds \in Nat \ {0}
    /\ Wrap \in Nat /\ Wrap > 1

Slot == 1..MaxFiles     \* vfs_file_table
Fd   == 1..MaxFds       \* local_fd_table
NoFile == 0             \* its value 255

VARIABLES
    refcount,       \* of the slots
    free,           \* file_table_free, the top first
    fds,            \* local_fd_table
    lock,           \* the owner of vfs_file_lock
    life, parent,   \* of a process
    doing, todo,    \* what a process does, and the descriptors left to do
    was,            \* the count it has read, and of which slot
    child,          \* the one it spawns
    mishap          \* history: what has gone wrong so far

vars == <<refcount, free, fds, lock, life, parent, doing, todo, was, child,
          mishap>>

(* A full descriptor table; a full file table; a reaped process with open  *)
(* files; two updates of one count at a time; a count of 16.               *)
Mishap == {"leaked", "locked", "reaped", "raced", "wrapped"}
Empty == [fd \in Fd |-> NoFile]
Nothing == [slot |-> NoFile, count |-> 0]

TypeOK ==
    /\ refcount \in [Slot -> 0..(Wrap - 1)]
    /\ free \in Seq(Slot)
    /\ fds \in [Proc -> [Fd -> Slot \cup {NoFile}]]
    /\ lock \in Proc \cup {NoProc}
    /\ life \in [Proc -> {"none", "stopped", "live", "zombie", "gone"}]
    /\ parent \in [Proc -> Proc]
    /\ doing \in [Proc -> {"user", "dup", "close", "spawn", "reap"}]
    /\ todo \in [Proc -> SUBSET Fd]
    /\ was \in [Proc -> [slot : Slot \cup {NoFile}, count : 0..(Wrap - 1)]]
    /\ child \in [Proc -> Proc \cup {NoProc}]
    /\ mishap \subseteq Mishap

(* vfs_init *)
Init ==
    /\ refcount = [s \in Slot |-> 0]
    /\ free = [i \in 1..MaxFiles |-> MaxFiles + 1 - i]
    /\ fds = [p \in Proc |-> Empty]
    /\ lock = NoProc
    /\ life = [p \in Proc |-> IF p = First THEN "live" ELSE "none"]
    /\ parent = [p \in Proc |-> First]
    /\ doing = [p \in Proc |-> "user"] /\ todo = [p \in Proc |-> {}]
    /\ was = [p \in Proc |-> Nothing] /\ child = [p \in Proc |-> NoProc]
    /\ mishap = {}

-----------------------------------------------------------------------------

Lowest(S) == CHOOSE x \in S : \A y \in S : x <= y

(* proc_fd_add *)
Room(p) == {fd \in Fd : fds[p][fd] = NoFile}
Added(p, s) ==
    IF Room(p) = {} THEN fds ELSE [fds EXCEPT ![p][Lowest(Room(p))] = s]

(* The model ends with the mishaps that make a count too small.            *)
Runs(p) == life[p] = "live" /\ mishap \cap {"raced", "wrapped"} = {}
Calls(p) == Runs(p) /\ doing[p] = "user"
(* mutex_lock, which the owner passes again. *)
MayLock(p) == lock \in {NoProc, p}
Holds(p) == was[p].slot # NoFile

(* vfs_open, vfs_openat: nobody looks at what proc_fd_add returns. *)
Open(p) ==
    /\ Calls(p) /\ MayLock(p) /\ free # <<>>
    /\ refcount' = [refcount EXCEPT ![Head(free)] = 1]
    /\ free' = Tail(free)
    /\ fds' = Added(p, Head(free))
    /\ mishap' = mishap \cup (IF Room(p) = {} THEN {"leaked"} ELSE {})
    /\ UNCHANGED <<lock, life, parent, doing, todo, was, child>>

(* file_alloc finds no slot and returns without mutex_unlock. *)
OpenFails(p) ==
    /\ Calls(p) /\ MayLock(p) /\ free = <<>>
    /\ lock' = p
    /\ mishap' = mishap \cup {"locked"}
    /\ UNCHANGED <<refcount, free, fds, life, parent, doing, todo, was, child>>

-----------------------------------------------------------------------------
(* The counts: vfs_fcntl and vfs_close, under the lock, and sys_spawn. *)

Read(p, fd) ==
    LET s == fds[p][fd]
    IN  was' = [was EXCEPT ![p] = [slot |-> s, count |-> refcount[s]]]

(* vfs_close and vfs_fcntl take the lock and read the count of fd. *)
Call(p, op, fd) ==
    /\ Calls(p) /\ fds[p][fd] # NoFile
    /\ MayLock(p) /\ lock' = p
    /\ Read(p, fd)
    /\ doing' = [doing EXCEPT ![p] = op]
    /\ todo' = [todo EXCEPT ![p] = {fd}]
    /\ UNCHANGED <<refcount, free, fds, life, parent, child, mishap>>

(* The loops of proc_reap and sys_spawn read the count of the next one. *)
ReadNext(p) ==
    /\ Runs(p) /\ ~Holds(p) /\ todo[p] # {}
    /\ Read(p, Lowest(todo[p]))
    /\ IF doing[p] = "spawn" THEN UNCHANGED lock
                             ELSE MayLock(p) /\ lock' = p
    /\ UNCHANGED <<refcount, free, fds, life, parent, doing, todo, child,
                   mishap>>

(* p writes what becomes of the count it has read, and lets go of the      *)
(* lock, but for the one a failed file_alloc has left it with.             *)
Store(p, count) ==
    LET s == was[p].slot
    IN  /\ refcount' = [refcount EXCEPT ![s] = count]
        /\ was' = [was EXCEPT ![p] = Nothing]
        /\ todo' = [todo EXCEPT ![p] = @ \ {Lowest(@)}]
        /\ lock' = IF doing[p] = "spawn" \/ "locked" \in mishap THEN lock
                                                               ELSE NoProc
        /\ mishap' = mishap
              \cup (IF \E q \in Proc \ {p} : was[q].slot = s
                      THEN {"raced"} ELSE {})
              \cup (IF was[p].count = Wrap - 1 /\ count = 0
                      THEN {"wrapped"} ELSE {})
              \cup (IF doing[p] = "dup" /\ Room(p) = {}
                      THEN {"leaked"} ELSE {})

(* A mutated Dup: the count outgrows its field. *)
DupUnwrapped(p) ==
    /\ Runs(p) /\ Holds(p) /\ doing[p] = "dup"
    /\ Store(p, was[p].count + 1)
    /\ fds' = Added(p, was[p].slot)
    /\ doing' = [doing EXCEPT ![p] = "user"]
    /\ UNCHANGED <<free, life, parent, child>>

(* vfs_fcntl(F_DUPFD) *)
Dup(p) ==
    /\ Runs(p) /\ Holds(p) /\ doing[p] = "dup"
    /\ Store(p, (was[p].count + 1) % Wrap)
    /\ fds' = Added(p, was[p].slot)
    /\ doing' = [doing EXCEPT ![p] = "user"]
    /\ UNCHANGED <<free, life, parent, child>>

(* A mutated Close: the last reference does not free the slot. *)
CloseKeepsSlot(p) ==
    /\ Runs(p) /\ Holds(p) /\ doing[p] \in {"close", "reap"}
    /\ Store(p, IF was[p].count > 1 THEN was[p].count - 1 ELSE 0)
    /\ fds' = [fds EXCEPT ![p][Lowest(todo[p])] = NoFile]
    /\ doing' = [doing EXCEPT ![p] = IF todo'[p] = {} THEN "user" ELSE @]
    /\ UNCHANGED <<free, life, parent, child>>

(* vfs_close, file_free *)
Close(p) ==
    /\ Runs(p) /\ Holds(p) /\ doing[p] \in {"close", "reap"}
    /\ IF was[p].count > 1
         THEN Store(p, was[p].count - 1) /\ UNCHANGED free
         ELSE Store(p, 0) /\ free' = <<was[p].slot>> \o free
    /\ fds' = [fds EXCEPT ![p][Lowest(todo[p])] = NoFile]
    /\ doing' = [doing EXCEPT ![p] = IF todo'[p] = {} THEN "user" ELSE @]
    /\ UNCHANGED <<life, parent, child>>

(* A mutated Inherit: the child's reference is not counted. *)
InheritUncounted(p) ==
    /\ Runs(p) /\ Holds(p) /\ doing[p] = "spawn"
    /\ Store(p, was[p].count)
    /\ fds' = Added(child[p], was[p].slot)
    /\ UNCHANGED <<free, life, parent, doing, child>>

(* The end of sys_spawn gives the child one more descriptor. *)
Inherit(p) ==
    /\ Runs(p) /\ Holds(p) /\ doing[p] = "spawn"
    /\ Store(p, (was[p].count + 1) % Wrap)
    /\ fds' = Added(child[p], was[p].slot)
    /\ UNCHANGED <<free, life, parent, doing, child>>

-----------------------------------------------------------------------------

(* sys_spawn makes the child, which is stopped ... *)
Spawn(p, c, give) ==
    /\ Calls(p) /\ life[c] = "none"
    /\ give \subseteq Fd \ Room(p)
    /\ life' = [life EXCEPT ![c] = "stopped"]
    /\ parent' = [parent EXCEPT ![c] = p]
    /\ doing' = [doing EXCEPT ![p] = "spawn"]
    /\ todo' = [todo EXCEPT ![p] = give]
    /\ child' = [child EXCEPT ![p] = c]
    /\ UNCHANGED <<refcount, free, fds, lock, was, mishap>>

(* ... until its parent continues it. *)
Started(p) ==
    /\ Runs(p) /\ doing[p] = "spawn" /\ todo[p] = {}
    /\ life' = [life EXCEPT ![child[p]] = "live"]
    /\ child' = [child EXCEPT ![p] = NoProc]
    /\ doing' = [doing EXCEPT ![p] = "user"]
    /\ UNCHANGED <<refcount, free, fds, lock, parent, todo, was, mishap>>

(* sys_exit: the files are left to the parent, or to First. *)
Exit(p) ==
    /\ Calls(p) /\ p # First
    /\ life' = [life EXCEPT ![p] = "zombie"]
    /\ parent' = [q \in Proc |-> IF parent[q] = p THEN First ELSE parent[q]]
    /\ UNCHANGED <<refcount, free, fds, lock, doing, todo, was, child, mishap>>

(* proc_reap: vfs_close works on the caller's descriptors, and those of    *)
(* the dead process are forgotten.                                         *)
Reap(p, c) ==
    LET mine == Fd \ Room(p)
    IN  /\ Calls(p) /\ life[c] = "zombie" /\ parent[c] = p
        /\ life' = [life EXCEPT ![c] = "gone"]
        /\ fds' = [fds EXCEPT ![c] = Empty]
        /\ todo' = [todo EXCEPT ![p] = mine]
        /\ doing' = [doing EXCEPT ![p] = IF mine = {} THEN "user" ELSE "reap"]
        /\ mishap' = mishap \cup (IF Room(c) # Fd THEN {"reaped"} ELSE {})
        /\ UNCHANGED <<refcount, free, lock, parent, was, child>>

Next ==
    \E p \in Proc :
        \/ Open(p) \/ OpenFails(p)
        \/ \E fd \in Fd, op \in {"dup", "close"} : Call(p, op, fd)
        \/ ReadNext(p) \/ Dup(p) \/ Close(p) \/ Inherit(p)
        \/ \E c \in Proc : Spawn(p, c, Fd \ Room(p)) \/ Spawn(p, c, {})
        \/ Started(p) \/ Exit(p)
        \/ \E c \in Proc : Reap(p, c)

Spec == Init /\ [][Next]_vars

-----------------------------------------------------------------------------

Refs(s) == Cardinality({r \in Proc \X Fd : fds[r[1]][r[2]] = s})

(* A slot that somebody has a descriptor of is counted, and not on the     *)
(* free stack: no file changes under its readers.  A leak loses slots and  *)
(* never gives one to two; a count that is updated by two at once, or that *)
(* wraps, may.                                                             *)
FilesCovered ==
    mishap \cap {"raced", "wrapped"} = {} =>
        \A s \in Slot : /\ Refs(s) <= refcount[s]
                        /\ Refs(s) > 0 => \A i \in DOMAIN free : free[i] # s

(* The stack holds every unused slot, once: its panic (vfs.c:148) is out   *)
(* of reach, and no slot is lost but to the mishaps that are named.        *)
FilesExact ==
    mishap = {} =>
        \A s \in Slot : /\ Refs(s) = refcount[s]
                        /\ Cardinality({i \in DOMAIN free : free[i] = s})
                              = IF refcount[s] = 0 THEN 1 ELSE 0
=============================================================================
