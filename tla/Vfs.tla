-------------------------------- MODULE Vfs --------------------------------
(***************************************************************************)
(* Processes that walk paths and read files: vfs_walk_rel and vfs_read of  *)
(* fs/vfs.c with the dentry cache, the inode cache and the mount table, on *)
(* top of ucfs_lookup, ucfs_read_i and ucfs_read, which share one scratch  *)
(* buffer and one indirect buffer, and of devfs.                           *)
(*                                                                         *)
(* A process sleeps in every device_read, and is preempted between any two *)
(* accesses to what others write.  Cached inodes are never evicted, so     *)
(* their reference counts decide nothing and are left out.                 *)
(***************************************************************************)
EXTENDS Integers, Sequences

CONSTANTS
    Process,
    Ucfs, Devfs,            \* the inode numbers of the two file systems
    Root, MountDir, DevRoot,    \* "/", "/dev" on ucfs, "/dev" on devfs
    Name,                   \* of the entries of a directory
    Entry,                  \* of an inode that is read as a directory: what
                            \* its names lead to
    Size,                   \* of the files on ucfs, in bytes
    BlockSize,              \* 512
    NDentry,                \* DENTRY_CACHE_LEN
    Paths,                  \* sequences of names that are asked for
    Counts,                 \* and numbers of bytes
    NoEnt, Nil              \* no inode; nothing

ASSUME VfsAssumption ==
    /\ Ucfs \cap Devfs = {} /\ NoEnt \notin Ucfs \cup Devfs
    /\ {Root, MountDir} \subseteq Ucfs /\ Root # MountDir /\ DevRoot \in Devfs
    /\ {"dev", "tty"} \subseteq Name /\ Nil \notin Name \cup Ucfs \cup Devfs
    /\ Paths \subseteq Seq(Name) \ {<<>>} /\ Counts \subseteq Nat \ {0}
    /\ DOMAIN Size \subseteq Ucfs /\ \A f \in DOMAIN Size : Size[f] \in Nat
    /\ BlockSize \in Nat \ {0} /\ NDentry \in Nat /\ NDentry >= 2

(* Both lookups number what they find in their own file system; devfs is   *)
(* mounted on /dev, and its root is not one of its devices.                *)
ASSUME EntryAssumption ==
    /\ Ucfs \cup {DevRoot} \subseteq DOMAIN Entry
    /\ \A i \in Ucfs : \A n \in DOMAIN Entry[i] : Entry[i][n] \in Ucfs
    /\ \A n \in DOMAIN Entry[DevRoot] : Entry[DevRoot][n] \in Devfs
    /\ "dev" \in DOMAIN Entry[Root] /\ Entry[Root]["dev"] = MountDir
    /\ ".." \in DOMAIN Entry[MountDir] /\ Entry[MountDir][".."] = Root
    /\ "tty" \in DOMAIN Entry[DevRoot] /\ Entry[DevRoot]["tty"] # DevRoot

Ino == Ucfs \cup Devfs

VARIABLES
    cache,              \* cache_list, its newest inode last; Nil as long as
                        \* nobody has stored the number of the inode
    dentries,           \* dentry_cache
    next,               \* dentry_cache_index
    scratch,            \* the block in scratch_buffer
    indirect,           \* the file whose block list is in indirect_buffer
    pc,                 \* of a process: where it is
    start, path,        \* history: the walk it was asked for
    base, rest,         \* the inode it has reached, the names that are left
    found,              \* the inode number of the next name
    slot,               \* the dentry or the inode it writes
    offset, count, got, \* of its read: file offset, size, bytes so far
    block, left,        \* current_block, and the whole blocks to come
    damage              \* history: what has gone wrong so far

walkVars == <<start, path, base, rest, found, slot>>
readVars == <<offset, count, got, block, left>>
buffers == <<scratch, indirect>>
vfsVars == <<cache, dentries, next, buffers, pc, walkVars, readVars, damage>>

(* What the two buffers hold, and a block of the device. *)
Dir(i)     == <<"dir", i>>
Blocks(i)  == <<"blocks", i>>
Data(i, k) == <<"data", i, k>>
Inodes     == <<"inodes">>

(* A buffer is overwritten before it is used; a dentry is read while it is *)
(* written; an inode is met before it is filled; more is read than was     *)
(* asked for.                                                              *)
Damage == {"shared", "torn", "unfilled", "overrun"}

Labels ==
    {"user", "name", "lookup", "scan", "put", "putparent", "putname", "inode",
     "miss", "number", "type", "fill", "store", "failed", "open", "blocks", "first", "firstcopy",
     "whole", "restcopy", "return"}

Dentry == [parent : Ino, name : Name \cup {Nil}, ino : Ino]

VfsTypeOK ==
    /\ cache \in Seq(Ino \cup {Nil})
    /\ dentries \in [1..NDentry -> Dentry]
    /\ next \in 1..NDentry
    /\ indirect \in Ino \cup {Nil}
    /\ pc \in [Process -> Labels]
    /\ start \in [Process -> DOMAIN cache]
    /\ base \in [Process -> DOMAIN cache]
    /\ path \in [Process -> Seq(Name)] /\ rest \in [Process -> Seq(Name)]
    /\ found \in [Process -> Ino \cup {NoEnt}]
    /\ slot \in [Process -> Nat]
    /\ offset \in [Process -> Nat] /\ count \in [Process -> Nat]
    /\ got \in [Process -> Seq(Nat)]
    /\ block \in [Process -> Nat] /\ left \in [Process -> Nat]
    /\ damage \subseteq Damage

(* vfs_mount_root, vfs_mount_dev and the first vfs_open have been here. *)
TheRoot == 1
TheMountpoint == 2
TheDevRoot == 3
VfsInit ==
    /\ cache = <<Root, MountDir, DevRoot, Entry[DevRoot]["tty"]>>
    /\ dentries = [d \in 1..NDentry |->
          CASE d = 1 -> [parent |-> Root, name |-> "dev", ino |-> MountDir]
            [] d = 2 -> [parent |-> DevRoot, name |-> "tty",
                         ino |-> Entry[DevRoot]["tty"]]
            [] OTHER -> [parent |-> Root, name |-> Nil, ino |-> Root]]
    /\ next = (2 % NDentry) + 1
    /\ scratch = Dir(Root) /\ indirect = Nil
    /\ pc = [p \in Process |-> "user"]
    /\ start = [p \in Process |-> TheRoot] /\ path = [p \in Process |-> <<>>]
    /\ base = [p \in Process |-> TheRoot] /\ rest = [p \in Process |-> <<>>]
    /\ found = [p \in Process |-> NoEnt] /\ slot = [p \in Process |-> 0]
    /\ offset = [p \in Process |-> 0] /\ count = [p \in Process |-> 0]
    /\ got = [p \in Process |-> <<>>] /\ block = [p \in Process |-> 0]
    /\ left = [p \in Process |-> 0]
    /\ damage = {}

-----------------------------------------------------------------------------

(* The model ends with what makes everything after it arbitrary. *)
At(p, l) == pc[p] = l /\ damage \subseteq {"torn"}
Goto(p, l) == pc' = [pc EXCEPT ![p] = l]

(* The directory entries of i; devfs has one directory, which contains     *)
(* itself as "..", and does not ask which inode it is called with.         *)
Lookup(i, name) ==
    LET dir == Entry[IF i \in Devfs THEN DevRoot ELSE i]
    IN  IF name \in DOMAIN dir THEN dir[name] ELSE NoEnt

(* A mutated Parent: it stays in the mounted file system. *)
ParentInside(p) == base[p]

(* Where vfs_read_dentry looks: ".." of a mounted root is that of the      *)
(* directory it is mounted on.                                             *)
Parent(p) ==
    IF Head(rest[p]) = ".." /\ base[p] = TheDevRoot THEN TheMountpoint
                                                    ELSE base[p]

Where(p) == cache[Parent(p)]

(* check_mount *)
Cross(i) == IF i = TheMountpoint THEN TheDevRoot ELSE i

(* The walk has come to inode i of the cache, and writes none any more. *)
Enter(p, i) ==
    /\ slot' = [slot EXCEPT ![p] = 0]
    /\ base' = [base EXCEPT ![p] = Cross(i)]
    /\ rest' = [rest EXCEPT ![p] = Tail(@)]
    /\ found' = [found EXCEPT ![p] = NoEnt]
    /\ Goto(p, IF Len(rest[p]) = 1 THEN "open" ELSE "name")
    /\ UNCHANGED <<start, path>>

(* vfs_walk_path, absolute and relative to a cwd of /dev. *)
Walk(p, from, names) ==
    /\ At(p, "user")
    /\ start' = [start EXCEPT ![p] = from]
    /\ path' = [path EXCEPT ![p] = names]
    /\ base' = [base EXCEPT ![p] = from]
    /\ rest' = [rest EXCEPT ![p] = names]
    /\ Goto(p, "name")
    /\ UNCHANGED <<cache, dentries, next, buffers, found, slot, readVars,
                   damage>>

(* vfs_read_dentry: the cache is searched without a lock. *)
FindDentry(p) ==
    LET name == Head(rest[p])
        hits == {d \in DOMAIN dentries : /\ dentries[d].name = name
                                         /\ dentries[d].parent = Where(p)}
        hit == CHOOSE d \in hits : \A e \in hits : d <= e
        written == {slot[q] : q \in {r \in Process : pc[r] \in
                                        {"putparent", "putname"}}}
    IN  /\ At(p, "name")
        /\ CASE name = "." ->
                  /\ found' = [found EXCEPT ![p] = cache[base[p]]]
                  /\ Goto(p, "inode") /\ UNCHANGED damage
             [] name # "." /\ hits # {} ->
                  /\ found' = [found EXCEPT ![p] = dentries[hit].ino]
                  /\ damage' = damage \cup
                        (IF hit \in written THEN {"torn"} ELSE {})
                  /\ Goto(p, "inode")
             [] OTHER -> Goto(p, "lookup") /\ UNCHANGED <<found, damage>>
        /\ UNCHANGED <<cache, dentries, next, buffers, start, path, base, rest,
                       slot, readVars>>

(* The name is looked up by the file system, which may not know it. *)
LookedUp(p, ino) ==
    /\ found' = [found EXCEPT ![p] = ino]
    /\ Goto(p, IF ino = NoEnt THEN "failed" ELSE "put")

(* devfs_lookup *)
DevLookup(p) ==
    /\ At(p, "lookup") /\ Where(p) \in Devfs
    /\ LookedUp(p, Lookup(Where(p), Head(rest[p])))
    /\ UNCHANGED <<cache, dentries, next, buffers, start, path, base, rest,
                   slot, readVars, damage>>

(* ucfs_lookup: the directory is read ... *)
DirRead(p) ==
    /\ At(p, "lookup") /\ Where(p) \in Ucfs
    /\ scratch' = Dir(Where(p))
    /\ Goto(p, "scan")
    /\ UNCHANGED <<cache, dentries, next, indirect, walkVars, readVars,
                   damage>>

(* What p has read is not what it uses. *)
Overwritten(buffer, expected) ==
    /\ buffer # expected
    /\ damage' = damage \cup {"shared"}
    /\ UNCHANGED <<cache, dentries, next, buffers, pc, walkVars, readVars>>

(* ... and its entries are compared. *)
DirScan(p) ==
    /\ At(p, "scan")
    /\ \/ Overwritten(scratch, Dir(Where(p)))
       \/ /\ scratch = Dir(Where(p))
          /\ LookedUp(p, Lookup(Where(p), Head(rest[p])))
          /\ UNCHANGED <<cache, dentries, next, buffers, start, path, base,
                         rest, slot, readVars, damage>>

(* The three stores into the next dentry, under vfs_dentry_lock. *)
PutIno(p) ==
    /\ At(p, "put")
    /\ \A q \in Process : pc[q] \notin {"putparent", "putname"}
    /\ slot' = [slot EXCEPT ![p] = next]
    /\ next' = (next % NDentry) + 1
    /\ dentries' = [dentries EXCEPT ![next].ino = found[p]]
    /\ Goto(p, "putparent")
    /\ UNCHANGED <<cache, buffers, start, path, base, rest, found, readVars,
                   damage>>

(* A mutated PutParent: the parent is where the walk is. *)
PutBase(p) ==
    /\ At(p, "putparent")
    /\ dentries' = [dentries EXCEPT ![slot[p]].parent = cache[base[p]]]
    /\ Goto(p, "putname")
    /\ UNCHANGED <<cache, next, buffers, walkVars, readVars, damage>>

PutParent(p) ==
    /\ At(p, "putparent")
    /\ dentries' = [dentries EXCEPT ![slot[p]].parent = Where(p)]
    /\ Goto(p, "putname")
    /\ UNCHANGED <<cache, next, buffers, walkVars, readVars, damage>>

PutName(p) ==
    /\ At(p, "putname")
    /\ dentries' = [dentries EXCEPT ![slot[p]].name = Head(rest[p])]
    /\ slot' = [slot EXCEPT ![p] = 0]
    /\ Goto(p, "inode")
    /\ UNCHANGED <<cache, next, buffers, start, path, base, rest, found,
                   readVars, damage>>

-----------------------------------------------------------------------------

(* The inodes that are on the list and still being filled.                 *)
Unfilled ==
    {slot[p] : p \in {q \in Process : pc[q] \in {"number", "type", "store"}}}

(* The search stops at an inode that is not filled yet and newer than any  *)
(* it looks for: its number is there already, or by chance.                *)
MeetsUnfilled(p, hits) ==
    /\ \E i \in Unfilled : /\ cache[i] \in {found[p], Nil}
                           /\ \A j \in hits : j <= i
    /\ damage' = damage \cup {"unfilled"}
    /\ UNCHANGED <<pc, walkVars>>

(* What it finds among hits: the newest, or nothing. *)
Finds(p, hits) ==
    /\ UNCHANGED damage
    /\ \/ hits = {} /\ Goto(p, "miss") /\ UNCHANGED walkVars
       \/ \E i \in hits \ Unfilled : (\A j \in hits : j <= i) /\ Enter(p, i)

(* A mutated FindInode: the loop ends before the last inode of the list. *)
FindNewer(p) ==
    LET hits == {i \in DOMAIN cache \ {1} : cache[i] = found[p]}
    IN  /\ At(p, "inode")
        /\ MeetsUnfilled(p, hits) \/ Finds(p, hits)
        /\ UNCHANGED <<cache, dentries, next, buffers, readVars>>

(* vfs_read_inode: the newest cached inode of that number. *)
FindInode(p) ==
    LET hits == {i \in DOMAIN cache : cache[i] = found[p]}
    IN  /\ At(p, "inode")
        /\ MeetsUnfilled(p, hits) \/ Finds(p, hits)
        /\ UNCHANGED <<cache, dentries, next, buffers, readVars>>

(* A mutated NewInode: it is not put on the list. *)
NewUncached(p, l) ==
    /\ slot' = [slot EXCEPT ![p] = Len(cache) + 1]
    /\ Goto(p, l)
    /\ UNCHANGED <<cache, dentries, next, buffers, start, path, base, rest,
                   found, readVars, damage>>

(* inode_alloc: the inode is on the list before anything is stored in it.  *)
(* Two processes that miss the same number make two of it.                 *)
NewInode(p, l) ==
    /\ cache' = Append(cache, Nil)
    /\ slot' = [slot EXCEPT ![p] = Len(cache) + 1]
    /\ Goto(p, l)
    /\ UNCHANGED <<dentries, next, buffers, start, path, base, rest, found,
                   readVars, damage>>

(* devfs_read_i; the file system is that of base, whatever found is.  It   *)
(* stores the number first, and what kind of inode it is later.            *)
DevReadInode(p) ==
    /\ At(p, "miss") /\ cache[base[p]] \in Devfs
    /\ NewInode(p, "number")

DevNumber(p) ==
    /\ At(p, "number")
    /\ cache' = [cache EXCEPT ![slot[p]] = found[p]]
    /\ Goto(p, "type")
    /\ UNCHANGED <<dentries, next, buffers, walkVars, readVars, damage>>

DevFill(p) ==
    /\ At(p, "type")
    /\ Enter(p, slot[p])
    /\ UNCHANGED <<cache, dentries, next, buffers, readVars, damage>>

(* ucfs_read_i *)
InodesRead(p) ==
    /\ At(p, "miss") /\ cache[base[p]] \in Ucfs
    /\ scratch' = Inodes
    /\ Goto(p, "fill")
    /\ UNCHANGED <<cache, dentries, next, indirect, walkVars, readVars,
                   damage>>

InodeAlloc(p) ==
    /\ At(p, "fill")
    /\ NewInode(p, "store")

(* It fills the inode under vfs_cache_lock, from the scratch buffer. *)
InodeFill(p) ==
    /\ At(p, "store")
    /\ \/ Overwritten(scratch, Inodes)
       \/ /\ scratch = Inodes
          /\ cache' = [cache EXCEPT ![slot[p]] = found[p]]
          /\ Enter(p, slot[p])
          /\ UNCHANGED <<dentries, next, buffers, readVars, damage>>

(* The walk returns NULL, or vfs_close forgets the file it has led to. *)
Forget(p) ==
    /\ pc[p] \in {"failed", "open"} /\ At(p, pc[p])
    /\ Goto(p, "user")
    /\ base' = [base EXCEPT ![p] = TheRoot]
    /\ start' = [start EXCEPT ![p] = TheRoot]
    /\ path' = [path EXCEPT ![p] = <<>>] /\ rest' = [rest EXCEPT ![p] = <<>>]
    /\ offset' = [offset EXCEPT ![p] = 0]
    /\ UNCHANGED <<cache, dentries, next, buffers, found, slot, count, got,
                   block, left, damage>>

-----------------------------------------------------------------------------
(* vfs_read of a file on ucfs. *)

File(p) == cache[base[p]]
(* indirect_buffer[k] is BLOCK_NIL. *)
AtEnd(p, k) == k * BlockSize >= Size[File(p)]
(* The bytes from position b to position e - 1 of the file. *)
Bytes(b, e) == [i \in 1..(e - b) |-> b + i - 1]

(* A mutated Clipped: the offset is forgotten. *)
ClippedToSize(p, n) == IF n > Size[File(p)] THEN Size[File(p)] ELSE n

Clipped(p, n) ==
    IF n + offset[p] > Size[File(p)] THEN Size[File(p)] - offset[p] ELSE n

(* The blocks of the file are looked up first. *)
ReadFile(p, n) ==
    /\ At(p, "open") /\ File(p) \in DOMAIN Size
    /\ count' = [count EXCEPT ![p] = Clipped(p, n)]
    /\ scratch' = Blocks(File(p))
    /\ Goto(p, "blocks")
    /\ start' = [start EXCEPT ![p] = TheRoot]
    /\ path' = [path EXCEPT ![p] = <<>>]
    /\ UNCHANGED <<cache, dentries, next, indirect, base, rest, found, slot,
                   offset, got, block, left, damage>>

(* ucfs_read goes on with whole blocks, if there are more ... *)
Continue(p, bytes, k) ==
    /\ got' = [got EXCEPT ![p] = bytes]
    /\ block' = [block EXCEPT ![p] = k]
    /\ Goto(p, IF AtEnd(p, k) THEN "return" ELSE "whole")

BlocksCopy(p) ==
    LET k == offset[p] \div BlockSize
    IN  /\ At(p, "blocks")
        /\ \/ Overwritten(scratch, Blocks(File(p)))
           \/ /\ scratch = Blocks(File(p))
              /\ indirect' = File(p)
              /\ left' = [left EXCEPT ![p] = count[p] \div BlockSize]
              /\ IF offset[p] % BlockSize = 0 \/ AtEnd(p, k)
                   THEN Continue(p, <<>>, k)
                   ELSE Goto(p, "first") /\ UNCHANGED <<got, block>>
              /\ UNCHANGED <<cache, dentries, next, scratch, walkVars, offset,
                             count, damage>>

(* The block an unaligned read begins in, by way of the scratch buffer. *)
FirstRead(p) ==
    /\ At(p, "first")
    /\ \/ Overwritten(indirect, File(p))
       \/ /\ indirect = File(p)
          /\ scratch' = Data(File(p), offset[p] \div BlockSize)
          /\ Goto(p, "firstcopy")
          /\ UNCHANGED <<cache, dentries, next, indirect, walkVars, readVars,
                         damage>>

FirstCopy(p) ==
    LET k == offset[p] \div BlockSize
        room == BlockSize - (offset[p] % BlockSize)
        n == IF room > count[p] THEN count[p] ELSE room
    IN  /\ At(p, "firstcopy")
        /\ \/ Overwritten(scratch, Data(File(p), k))
           \/ Overwritten(indirect, File(p))
           \/ /\ scratch = Data(File(p), k) /\ indirect = File(p)
              /\ Continue(p, Bytes(offset[p], offset[p] + n), k + 1)
              /\ UNCHANGED <<cache, dentries, next, buffers, walkVars, offset,
                             count, left, damage>>

(* The device writes count >> 9 blocks to the caller's buffer, whatever    *)
(* the first block has put there already.                                  *)
WholeRead(p) ==
    /\ At(p, "whole") /\ left[p] > 0
    /\ \/ Overwritten(indirect, File(p))
       \/ /\ indirect = File(p)
          /\ left' = [left EXCEPT ![p] = @ - 1]
          /\ Continue(p, got[p] \o Bytes(block[p] * BlockSize,
                                         (block[p] + 1) * BlockSize),
                      block[p] + 1)
          /\ UNCHANGED <<cache, dentries, next, buffers, walkVars, offset,
                         count, damage>>

(* The rest, by way of the scratch buffer.  What is left is unsigned: less *)
(* than nothing is a rest, too.                                            *)
RestRead(p) ==
    /\ At(p, "whole") /\ left[p] = 0
    /\ \/ Overwritten(indirect, File(p))
       \/ /\ indirect = File(p) /\ Len(got[p]) # count[p]
          /\ scratch' = Data(File(p), block[p])
          /\ Goto(p, "restcopy")
          /\ UNCHANGED <<damage, indirect>>
       \/ /\ Len(got[p]) = count[p]
          /\ Goto(p, "return")
          /\ UNCHANGED <<buffers, damage>>
    /\ UNCHANGED <<cache, dentries, next, walkVars, readVars>>

(* It is copied, and less than nothing is most of the memory.              *)
RestCopy(p) ==
    LET b == block[p] * BlockSize
        n == count[p] - Len(got[p])
    IN  /\ At(p, "restcopy")
        /\ \/ Overwritten(scratch, Data(File(p), block[p]))
           \/ /\ n < 0 /\ damage' = damage \cup {"overrun"}
              /\ UNCHANGED <<cache, dentries, next, buffers, pc, walkVars,
                             readVars>>
           \/ /\ n > 0 /\ scratch = Data(File(p), block[p])
              /\ got' = [got EXCEPT ![p] = @ \o Bytes(b, b + n)]
              /\ Goto(p, "return")
              /\ UNCHANGED <<cache, dentries, next, buffers, walkVars, offset,
                             count, block, left, damage>>

(* vfs_read moves the file offset by what was read. *)
Return(p) ==
    /\ At(p, "return")
    /\ damage' = damage \cup
          (IF Len(got[p]) > count[p] THEN {"overrun"} ELSE {})
    /\ offset' = [offset EXCEPT ![p] = @ + Len(got[p])]
    /\ count' = [count EXCEPT ![p] = 0] /\ got' = [got EXCEPT ![p] = <<>>]
    /\ block' = [block EXCEPT ![p] = 0] /\ left' = [left EXCEPT ![p] = 0]
    /\ Goto(p, "open")
    /\ UNCHANGED <<cache, dentries, next, buffers, walkVars>>

-----------------------------------------------------------------------------

VfsNext ==
    \E p \in Process :
        \/ \E from \in {TheRoot, TheDevRoot}, names \in Paths :
              Walk(p, from, names)
        \/ FindDentry(p) \/ DevLookup(p) \/ DirRead(p) \/ DirScan(p)
        \/ PutIno(p) \/ PutParent(p) \/ PutName(p)
        \/ FindInode(p) \/ DevReadInode(p) \/ DevNumber(p) \/ DevFill(p)
        \/ InodesRead(p) \/ InodeAlloc(p) \/ InodeFill(p)
        \/ Forget(p)
        \/ \E n \in Counts : ReadFile(p, n)
        \/ BlocksCopy(p) \/ FirstRead(p) \/ FirstCopy(p) \/ WholeRead(p)
        \/ RestRead(p) \/ RestCopy(p) \/ Return(p)

VfsSpec == VfsInit /\ [][VfsNext]_vfsVars

-----------------------------------------------------------------------------

(* The reference: what a path means, given what the file systems answer.   *)
(* Below the mounted directory is the other file system, and its ".." is   *)
(* that of the directory.                                                  *)
Meaning(i, name) ==
    LET j == IF name = "." THEN i
             ELSE Lookup(IF i = DevRoot /\ name = ".." THEN MountDir ELSE i,
                         name)
    IN  IF j = MountDir THEN DevRoot ELSE j

(* Where its first k names lead. *)
Trail(from, names) ==
    LET trail[k \in 0..Len(names)] ==
            IF k = 0 THEN from
            ELSE IF trail[k - 1] = NoEnt THEN NoEnt
            ELSE Meaning(trail[k - 1], names[k])
    IN  trail

Resolve(from, names) == Trail(from, names)[Len(names)]

(* A walk ends where its path leads, or fails where there is nothing,      *)
(* whoever fills the caches meanwhile, whatever they have forgotten, and   *)
(* across the mount in both directions.                                    *)
WalkRight ==
    damage = {} =>
        \A p \in Process :
            LET end == Resolve(cache[start[p]], path[p])
            IN  /\ pc[p] = "open" /\ path[p] # <<>> => File(p) = end
                /\ pc[p] = "failed" => end = NoEnt

(* No dentry ever lies, not even after one was read half written: only a   *)
(* lookup in a scratch buffer with another block in it can put in a wrong  *)
(* one, and nothing would ever put it right.                               *)
DentriesTrue ==
    \A d \in DOMAIN dentries :
        \/ \E p \in Process : pc[p] \in {"putparent", "putname"} /\ slot[p] = d
        \/ dentries[d].name = Nil
        \/ Lookup(dentries[d].parent, dentries[d].name) = dentries[d].ino

(* An inode that is not cached is read from the file system of the inode   *)
(* the walk is at.  That is the one its number belongs to, also for the    *)
(* ".." of a mounted root: what that leads to has been cached for ever.    *)
MissIsHome ==
    damage = {} =>
        \A p \in Process :
            pc[p] = "miss" => (found[p] \in Devfs <=> File(p) \in Devfs)

(* More than asked for is read only from inside of a block. *)
Overlong(p) == Len(got[p]) > count[p] /\ offset[p] % BlockSize # 0

(* A file is read in order, without a gap, and up to its end.  A read that *)
(* returns more than it was asked for, or goes on to copy a rest of less   *)
(* than nothing, started inside of a block.                                *)
ReadRight ==
    \A p \in Process :
        /\ pc[p] = "return" =>
              got[p] = Bytes(offset[p], offset[p] + count[p]) \/ Overlong(p)
        /\ pc[p] = "restcopy" => Len(got[p]) < count[p] \/ Overlong(p)
=============================================================================
