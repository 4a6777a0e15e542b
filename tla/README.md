# uCnix: a TLA+ model of the kernel

uCnix is a small Unix-like kernel for ARMv8-M microcontrollers (one core, no
MMU, at most four processes). These modules model its concurrency-carrying
parts, TLC checks them at small sizes, and TLAPS proves the main results for
every size. All paths are relative to the repository's `src/`.

## 1. Inventory

### Execution model

- One core. Thread code runs in one of the processes; two of them are kernel
  threads made at boot (`kernel_init`, `kernel/init.c:172-205`): the *worker*
  (descriptor 0) and *kernel init*, which becomes process 1.
- A system call runs in thread mode of the calling process, with interrupts
  enabled (`syscall_thread_main`), so kernel code can be preempted nearly anywhere.
- SysTick (`arch/armv8-m/time.c`) pends PendSV, which runs
  `proc_sched_new_task` and swaps stacks. `proc_schedule`, `proc_block` and
  `proc_unblock_process` pend it too. Critical sections disable interrupts.
- `proc_stop_scheduling` clears `proc_sched_started`; while it is 0 ticks do not
  switch and `mutex_lock`/`mutex_unlock` return at once.
- Peripherals interrupt through `register_interrupt`; the usart is the only
  one that shares memory with thread code.

### Components

| component | state | operations | talks to | what is hard | what makes it correct |
|---|---|---|---|---|---|
| scheduler (`kernel/proc.c`, `arch/armv8-m/proc.c`, `context_switch.S`) | `state`, `proc_run_queue`, `current_process`, `proc_sched_started` | enqueue, dequeue, block, unblock, schedule, create, mark_zombie, reap, start/stop | everything that waits | a queue with exactly one cell per process whose overflow nobody notices; calls on processes in an unexpected state | every ready process runs or has exactly one cell; nobody starves |
| wait queues (`kernel/waiter.c`) | `head`, `tail`, `wait_next`, `waiting_on` | push, pop, remove | mutexes, proc_mark_zombie | an intrusive list walked from the wrong end | first in first out; remove removes |
| kernel mutex (`kernel/lock.c`) | `lock`, `owner`, `count`, waiter | init, lock, unlock | scheduler, wait queues | handover in two steps with interrupts enabled; wakeups that are not handovers | exclusion, FIFO, no waiter stranded |
| block allocator (`kernel/alloc.c`) | descriptors, stack of unused ones | init, alloc, free | kmalloc, page_alloc | split and two-sided merge, running out of descriptors | blocks tile the heap, nothing leaks, first fit |
| process table and signals (`kernel/proc.c`, `kernel/exec.c`, `kernel/init.c`, `svc_call.S`) | active/free lists, pid and stack stacks, masks, `kill_pending`, `kernel_mode` | spawn, exit, kill, waitpid, reap, signals | scheduler, files, allocator | death, adoption and reaping in any order; lost wakeups of waitpid | no resource freed twice or lost, every zombie reaped, parents woken |
| device requests (`kernel/device.c`, romdisk) | request ring per device | request, peek, finish, read, write, update | worker, scheduler | a request finished before its caller blocks; a full ring | FIFO, each call gets its own answer |
| tty (`drivers/tty/tty.c`) | line buffer, flags | read, write, ioctl, update | device requests, usart, signals | CTRL-C to the foreground group while reading; newline expansion over a full ring | bytes in order, one LF per CR LF |
| usart (`drivers/usart/mcxa.c`) | two byte rings, CTRL.TIE | readb, writeb, interrupt handler | tty, hardware | thread code against the handler | both rings are FIFOs, pending bytes are armed |
| virtual file system (`fs/vfs.c`) | file table, inode and name caches, mounts | open, close, read, write, lseek, fcntl, walk, mount | ucfs, devfs, devices | reference counts over many paths; caches filled by blocking reads | counts match references, one inode per number |
| ucfs, devfs (`fs/`) | scratch buffers, node list | read, readdir, lookup, read_i, mount | vfs, device requests | direct/indirect block arithmetic at boundaries; buffers shared while blocked | the right bytes for every offset and length |
| credentials, sysctl, uname | fields of one process | set/get | - | straight-line code | - |
| display driver | command ring, step counter | write, update | tick | not in the default build | - |
| faults, panic, interrupt table, board, library, user space, image tools | - | - | - | register-level, boot-time or host-side code, or clients of the above | - |

The hazards found while reading are in `PROJECT.json`, each at its line.

## 2. Modules

```
RunQueue --- Sched --- MCSched, SchedProofs
   |
   +--- DeviceIO --- MCDeviceIO, DeviceIOProofs         DeviceAbs <= DeviceIO
   |
   +--- KMutex --- MCKMutex, KMutexProofs               MutexAbs  <= KMutex
WaitList --/
                   Heap --- MCHeap, HeapProofs          HeapAbs   <= Heap
              UsartRing --- MCUsartRing, UsartRingProofs  ByteFifo <= UsartRing
                    Tty --- MCTty, TtyProofs
               ProcLife --- MCProcLife, ProcLifeProofs
                  Files --- MCFiles, FileSystemProofs
                    Vfs --- MCVfs, FileSystemProofs
```

(`A <= B`: B is shown to implement A.)

**RunQueue** - the queue and the context switch, as operators the other
modules compose with. `Enqueue`, `Requeue`, `FirstReady`/`Dispatch` and
`Switch` are `proc_enqueue`, the two halves of `proc_sched_new_task` and
PendSV; `ProcSchedule`, `ProcBlock(p)` and `ProcUnblock(p)` the entry points,
which check as little as the code does. The circular array with `head`,
`tail` and `count` is a sequence, the value -1 of a full queue is ignored as
by every caller, and the `__BKPT` on an empty queue becomes
`current = NoProc`. Each entry point is one step: it disables interrupts and
PendSV is taken as soon as they are enabled.

**Sched** - RunQueue under the callers' discipline: a process blocks only
itself, only BLOCKED processes are unblocked, children are created stopped
(`sys_spawn`), a process dies by `exit` or by being killed while BLOCKED, and
zombies are reaped. SIGSTOP and the killing of a READY process are left out:
both leave a cell of a process that is not READY in the queue, and with it the
discipline (section 6).

**WaitList** - `waiter_push` and `waiter_pop` on the real pointers; `Chain(w)` is
the order of service, what a walk along the links meets (`Path`, `Walk`). The walk is
a recursive function, cut at the number of processes, so that it can be proved about.

**KMutex** - `mutex_lock` and `mutex_unlock`, one action per branch, split
where interrupts are enabled before the scheduler is called: `LockPush` /
`LockBlock` / `LockReturn` and `UnlockPop` / `UnlockWake`. `pc`, `mut` and `next`
are the process's place in the code and its locals; `held` is a history
variable. A `Tick` can come between any two steps. Mutexes may be nested and
held together, and unlocking follows the callers' discipline (only what one
holds).

**MutexAbs** - the promise: exclusive, granted in order of arrival, handed
over without being free in between.

**DeviceIO** - `device_read`/`device_write` of several callers, the request
ring and the worker running `romdisk_update`, on RunQueue. A caller's steps are
`Ask` (up to and with `device_request_io`), `Block` (`proc_block`) and `Return`;
the worker's are `Transfer` or `Refuse` (one `romdisk_update`, with the first half
of `device_finish_request` when it is the last), `Wake` and `Dequeue`: interrupts
are enabled between them. Requests live on the callers' stacks and are named
by the caller. A buffer is the block it last received. **DeviceAbs** - the
promise: first come first served, each with its own answer. That a read of
several blocks copies each over the one before is part of that promise as it
stands (`Reply`), because `romdisk_update` does not advance the buffer.

**Heap** - `heap_alloc` (exact fit, split, refusal) and `heap_free` with the
two merges of `try_coalesce`, on the descriptor array and the stack of unused
descriptors. One call is one step because `alloc_mut` is held throughout. The
out-of-range bytes and the pointer arithmetic of `block_base` are offsets in
units. The loops over the list follow `next` from descriptor 0 (`Walk`, `Chain`), and
`Base` adds up the sizes on the way as `block_base` does. `live` is what the callers
hold, and callers free only that.

**HeapAbs** - the promise: disjoint objects at the lowest address that fits;
refused only when nothing fits or the descriptors are used up.

**UsartRing** - the two rings of `usart_mcxa` with the handler, `writeb`,
`readb` (in two steps, since it reads the byte after `__enable_irq`) and the
registers as the driver uses them. **ByteFifo** is the promise of either ring.
A call that answers -1 changes nothing and has no action.

**ProcLife** - the life of a process: `sys_spawn` in its preemptible parts
(`BeginAlloc`, `AllocProcess`; `TakePid` or `CreateFails`, `TakeStack`,
`CreateStopped`; `Inherit`), `sys_exit`, `sys_kill`, `sys_sigprocmask`,
`sys_waitpid` in its parts (`WaitReap`, or `WaitScan`, `WaitBlock`, `WaitRescan`),
`proc_reap` in its own (`ReapStack`, `ReapPid`, `ReapProcess`), the end of the boot
process, and the worker that reaps orphans and halts the kernel after init.
The stacks of free pids and kernel stacks have no lock: `BeginList` is the load of
the count, and `TakePid`, `TakeStack`, `ReapStack` and `ReapPid` are what is stored
some time later, by somebody who is alone in that list (`Alone`). Who is not, and
overwrites the other, has `raced` (`Collide`). `proc_acces_lock` is taken between
`BeginAlloc` and `AllocProcess` and while a zombie is reaped (`Locked`). The worker has
stopped the scheduler instead, and passes the lock; it too has `raced` when it meets
somebody inside of a list. What is one step although it can be preempted: a scan of
`proc_active_list` under the lock, and in `proc_send_sig` the search for a process and
what is done to it. `proc_send_sig` acts after it has given the lock back
(`kernel/proc.c:270-307`), so a target that is reaped in between is not shown. Who waits
for the lock is not shown as BLOCKED. `Die` is all of
`proc_mark_zombie` with the SIGCHLD that ends it, `Send` the rest of
`proc_send_sig`. State: both lists of descriptors, the stacks of free pids and
kernel stacks, the fields of `struct proc` these use, and `pc` with the locals of
the calls that are not atomic. Which READY process runs is left open: the
scheduler may preempt anywhere. The parent of a process that is being made may itself
be half made: a reused descriptor keeps the signal mask of its last life, and a SIGCONT
can start it between `proc_create` and the end of `sys_spawn` (`kernel/exec.c:90-99`).
`ParentIsListed` allows for it. Every state the code enters by one of its own
errors is recorded in `mishap` (section 6), and the model ends there: what
follows such a state says nothing about the code that is right.

**Files** - the table of open files: `vfs_open`, `vfs_close`, `F_DUPFD`, the
descriptors a child inherits and those `proc_reap` closes. A reference count is
read in one step (`Call`, `ReadNext`) and written in another (`Dup`, `Close`,
`Inherit`), because `sys_spawn` does it without the lock. A process has one life;
`mishap` as above, except that the model goes on after a leak.

**Vfs** - processes that walk paths and read files. A walk is the loop of
`vfs_walk_rel` for each name: `FindDentry`, then on a miss `DevLookup` or `DirRead` and
`DirScan` and the three stores into the name cache (`PutIno`, `PutParent`, `PutName`);
`FindInode`, then on a miss `DevReadInode`, `DevNumber` and `DevFill`, or `InodesRead`,
`InodeAlloc` and `InodeFill`; `Enter` is `check_mount` and the next turn of the loop.
`NewInode` (`inode_alloc`) puts an inode on the list that nobody has filled; a search that
meets it, or takes its number for another, is the mishap `unfilled`. `ReadFile` to `Return`
are `ucfs_read`, split at every `device_read` and at every use of a shared buffer. The
difference `RestRead` tests is unsigned: below zero it goes on to `RestCopy`, which
copies a huge size (mishap `overrun`). What a buffer or a block
holds is named by what was put there. Cached inodes are positions in the
sequence `cache`, because two of them can have the same number. Names are
strings, a path is a sequence of names, files are the positions of their bytes.
The last name of a path and those before it take the same steps. `Entry` is the tree:
what the names of a directory lead to. It leads from ucfs to ucfs and from devfs to
devfs, since each file system numbers what it looks up itself (`FS_MAKE_UNO`).
`devfs_lookup` does not ask which inode it is called for, so a name behind a device is
looked up in the one directory there is. On ucfs a path that leads through a plain
file takes the blocks of the file for a directory; what `Entry` gives there is open.
`Trail` is what a path means, position by position, and `Resolve` its end. The names of
this module (`VfsInit`, `VfsSpec`, ...) differ from those of Files, so that a module can
extend both.

**Tty** - `tty_read`, `tty_write`, `tty_writeb`, the request queue, CTRL-C and `kputc`, on top
of a usart reduced to the keys it has received and the number of bytes it has to
send. The steps of the worker are one character (`Write`, `ReadChar`, ...): the
loops that repeat while the usart refuses a byte are actions that are not enabled
then. `out` is what has been sent of the character in the works. `Char` and `NoChar`
are what can be written and the character nobody is writing. `device_finish_request` takes
three steps: `Finish` pops the waiter, `Wake` makes it READY, `Dequeue` takes the request
off; `popped` is who is to be woken. A process may be killed between them, and `late`
says that it was. Calls of 0 bytes are among the calls.

**MC*** instantiate the modules for TLC. Operators marked "A mutated ..." are
wrong variants of the definition below them, used to see that each property
notices a plausible bug; no specification refers to them.

## 3. Runs

| run | checks | size |
|---|---|---|
| `sched` | `TypeOK`, `RunnableOnce`, `EventuallyRuns` | 4 processes, queue of 4: the kernel's own sizes (`PROC_MAX_PROC`) |
| `kmutex` | `TypeOK`, `MutualExclusion`, `HeldIsOwned`, `NoStrandedWaiter`, `ImplementsMutex` | worker and 3 processes, 2 mutexes, nesting depth 2 |
| `heap` | `TypeOK`, `DescriptorsAccounted`, `BlocksTile`, `ImplementsAllocator` | 6 units of 2 bytes, 4 descriptors, requests of 1, 3, 4 and 6 bytes |
| `usart` | `TypeOK`, `PendingIsArmed`, `TxIsFifo`, `RxIsFifo`, `Transmitted` | transmit ring 4, receive ring 3, two byte values |
| `device` | `TypeOK`, `NeverRefused`, `WokenIsServed`, `ImplementsDevice` | worker and 3 callers, ring of 4, disk of 2 blocks, 4 kinds of call |
| `proc` | `TypeOK`, `PidsAccounted`, `StacksAccounted`, `ParentIsListed`, `InitDeathHeard`, `DeathWakes` | 4 pids and stacks, 5 descriptors, 3 calls of `sys_spawn` |
| `files` | `TypeOK`, `FilesCovered`, `FilesExact` | 3 processes, 2 files, 2 descriptors each, counts up to 3 |
| `vfs` | `VfsTypeOK`, `WalkRight`, `DentriesTrue`, `MissIsHome`, `ReadRight` | 2 processes, 2 file systems of 3 inodes each, 2 dentries, blocks of 3 bytes, a file of 12, reads of 4 and of 20 |
| `tty` | `TypeOK`, `OutputIsExpansion`, `BufferFits`, `KilledStaysDead`, `OutputEnds` | 2 processes, 2 calls of 0 or 2 bytes, 2 keys, 1 `kputc`, rings of 1 and 2 |
| `mutex_lost_wakeup`, `device_trap`, `proc_stack` | one violated property each, see 6 | the sizes of `kmutex` with one mutex, of `device` and of `proc` |

What they show and why the sizes are enough:

- `sched`: no ready process is ever lost by the queue that fails silently, and
  none is queued twice; under SysTick every ready process gets its turn,
  although each wakeup appends the running process behind the woken one.
- `kmutex`: exclusion and FIFO service survive preemption at every step,
  handover, the stale `count` a handover leaves, and a process that blocks
  after it was handed the mutex. Three contenders give a queue of two behind
  an owner; two mutexes let one process wait for one while it holds another,
  and share the `wait_next` fields between two lists. Permuting contenders
  and mutexes is a symmetry of `Spec` and of the safety properties checked.
- `heap`: six units and four descriptors run out of either first. `heap_alloc`
  refuses exactly when the promise allows. Two-byte units make requests round.
- `usart`: rings that wrap and fill within a few calls. A byte that `writeb`
  accepted is never left without an interrupt and reaches the transmitter;
  `readb` gives up the cell before it reads it and still returns the right byte.
- `device`: whatever the preemption, answers are the callers' own and in
  order, although a caller is woken, and can ask again, before its request is
  off the ring; a ring with as many cells as there are processes (four here,
  eight in the code) is never full. The four calls cover one and two blocks,
  the end of the disk in the middle of a request, and a write. The run does
  not check for deadlock, because the system does stop: see `device_trap`.

- `proc`: four pids are the kernel's own number (`PROC_MAX_PROC`); the boot
  processes, two more and one descriptor to spare let a child be adopted, die
  while its parent dies, be reaped from two sides, and a pid be used again while
  another spawn is halfway. Three spawns do not reach the half-made parent of section
  2, which needs five pids and four spawns; the theorems cover it. As long as nobody
  meets another inside of a list, and no other mishap happens, no pid or kernel stack
  is lost or has two owners, and whoever has got a pid finds a kernel stack: the panic
  of `proc_create` for want of one can only follow such a meeting. Two that do meet are
  reachable in the run, as in the code. Everybody's parent is on the list, so that the
  SIGCHLD that restarts the scheduler arrives, and the worker does not miss the
  death of init although it reaps one zombie per SIGCHLD: the only other process
  without a parent is the boot process, which is behind init in `proc_active_list`. The run
  does not check for deadlock: the kernel halts after init, and the model at a
  mishap.
- `files`: both files shared by a parent and two children is the smallest state
  in which inheritance, dup and reaping interleave on one count. With three
  files the run takes 15 times as long and finds the same. No file is freed under
  a descriptor unless two updates of a count overlap or it wraps. It stops when
  the process that was left with the lock dies, or at those two mishaps.
- `vfs`: the two dentries are fewer than the names of the tree, so entries are
  overwritten all the time. The paths cross the mount downward, upward and both
  ways, name what does not exist, and begin at both roots. The name `.` is left to the
  theorem. The file has four blocks. A read of 4 bytes from the beginning takes a whole block and a
  byte; the next one begins inside of a block, and copies a whole one more than was asked
  for, after which the rest is below zero. A read of 20 ends with the file, and is whole
  blocks only, or the end of one and two more. The boundaries are those of the block
  size, whatever it is.
- `tty`: a transmit ring of two bytes refuses each byte of a newline and of an echo
  in turn. Two requests let one begin where the other left off, and CTRL-C kill
  the process that waits, the one behind it, or the one that does not. The other
  process kills too, also between the two halves of a wakeup.

Bounds: `MaxDepth` (nested locks, 7 bits in the code), `MaxSpawn`, `MaxFiles` and
`MaxFds` (32 each in the code), `Wrap` (16), `NDentry` (a power of two), `BlockSize` (512), `Paths`,
`Counts`, `MaxKeys`, `MaxCalls`, `MaxPuts`, `RxMax` and `TxMax`, `Requests`, `Call`, the
alphabet `Byte`, the number of processes and mutexes. No counter is unbounded.
`Arrive` in UsartRing is an assumption on the sender: a byte arrives only
when the last has been fetched and the ring has room. The driver ensures
neither; a byte more makes the ring look empty, and an overrun of the receiver
is never cleared. `RxIsFifo` says nothing about those cases.

## 4. Fairness

- `sched`: `WF(Tick)`. SysTick keeps firing while the scheduler is started.
  Nothing is assumed of the processes.
- `usart`: `WF(InterruptReceive)` and `WF(Shift)`: a received byte keeps its
  interrupt pending until it is read, and the transmitter finishes a byte.
  `SF(InterruptSend)`: the transmit interrupt stays pending while it is enabled
  and the register is empty; a received byte is served first and disables it
  for a moment only, so it is enabled again and again. Nothing is assumed of
  `writeb` and `readb`.

- `tty`: `WF(Work)`: the worker is always ready and runs again and again (`sched`);
  `WF(Transmit)`: as in `usart`; `WF(PutLoop)`: `kputc` busy-waits in a process that stays
  ready. Nothing is assumed of the keys and the callers.

`proc`, `files` and `vfs` check safety only. A process there can always be kept
from running by one of the mishaps (a lost wakeup, a lock that is never given
back), so what must eventually happen in them is not a property of the code.

## 5. Proofs

Every theorem is proved for every value of the constants that satisfies the
`...Assumption` of its module, and none has a hypothesis of its own:

- RunQueue, Sched, KMutex, DeviceIO: finitely many processes, no more of them than
  cells in the run queue (in the code both are `PROC_MAX_PROC`), `NoProc` is none of
  them, the worker is one; `MaxDepth \in 1..127`, the range of the 7-bit `count`; a
  request ring with at least as many cells as processes, the worker counted (8 and 4 in
  the code), a disk of at least one block.
- Heap: at most `BLOCK_NIL` descriptors, a heap between one unit and `MaxUnits`, the
  range of the 16-bit sizes, a unit of at least one byte, no request of 0 bytes.
- UsartRing: rings with at least one cell, `0 \in Byte`.
- Tty: names that differ from each other.
- ProcLife: the three processes the boot makes are different, at least four pids, the
  wild stack is not one of the stacks.
- Files: finitely many processes, at least one slot and one descriptor, and a count
  that can hold a 1.
- Vfs: the two file systems share no inode number, blocks of at least one byte, at
  least two dentries (a power of two in the code), no empty path and no read of 0 bytes
  (`VfsAssumption`); names lead to inodes of the same file system, `/dev` is the directory
  devfs is mounted on and its `..` the root, and the root of devfs is not one of its
  devices (`EntryAssumption`). The tree, the paths, the sizes and the number of processes
  are open.

How they are proved. Each module has an inductive invariant `IInv` (`VfsInv` for Vfs), one lemma for each
action that says that it is kept (in the larger modules several, by what the
action disturbs), and a theorem `Invariance` that joins them; the theorems below follow
from it. What a lemma needs of the operators is stated once, with ASSUME ... PROVE.

- **SchedProofs**. `AlwaysRuns` (`TypeOK`: the dequeue loop always finds
  somebody) and `NothingLost` (`RunnableOnce`). `RunnableOnce` says that the queue
  lists each ready process other than the running one once (`Lists`); a list
  without repetition is no longer than the number of processes
  (`ListsBound`), so `Enqueue` never meets a full queue (`EnqueueNew`). It is not
  inductive without the fact that the worker is always ready, which the switch
  needs to find somebody: `IInv` adds it. `DispatchOldest` and `SwitchOnce` carry
  the context switch for all actions.
- **KMutexProofs**. `TypeCorrect`, `DepthIsOwners` (`HeldIsOwned`), `Exclusion`
  (`MutualExclusion`), `NobodyStranded` (`NoStrandedWaiter`), `MutexRefines`
  (`ImplementsMutex`). Exclusion alone is not inductive: what a handover does
  depends on the wait lists. `IInv` adds the links of the lists (`EndsInv`,
  `LinksInv`, `QueuedWait`), where a waiter may be (`WaitersOutside`), who can be in
  the middle of a handover (`HandoverInv`) and that whoever returns from
  `mutex_lock` owns the mutex with count 1 (`ReturnInv`). That nobody is stranded is
  about the walk along the links, which is recursive. It is proved by a second
  invariant: `Chain` is a queue (`QueuesInv`: linked from `tail` to `head`, nobody twice,
  exactly those with `waiting_on` set), and whoever is inside of `mutex_lock` is in one or
  owns its mutex (`WaitersInv`). What the walk meets after a push or a pop is determined
  by its first entries; the proofs look at the first position where it would differ,
  the smallest element of a set of numbers, and need no induction theorem. Given that, `LockPush` is an Append and `UnlockPop` a Tail of
  the abstract queue, and the refinement goes action by action.
- **DeviceIOProofs**. `TypeCorrect`, `RingHasRoom` (`NeverRefused`), `Answered`
  (`WokenIsServed`), `DeviceRefines` (`ImplementsDevice`). `Waiting` is the ring without a
  request that is answered and still to be taken off (`FinishInv`); `WaitingInv` says
  that it lists different callers, each with an unanswered request and asleep or about
  to be. A caller that can ask is none of them, and the worker never asks, so `Waiting`
  has at most `Cardinality(Proc) - 2` entries then, and with the answered request a cell is
  left (`RoomInRing`): a cell for each process, the worker counted, is enough, although a
  caller can be on the ring twice. One cell fewer is not: all the others wait, and the
  answered request of the one that asks again is still on the ring. `TransferInv` says that the blocks the worker has copied are on the disk
  and not all of the request, which the answer depends on. A step of the refinement is
  a stutter except for `Ask`, `Return` and the first half of `device_finish_request`.
- **HeapProofs**. `TypeCorrect`, `NoDescriptorLost` (`DescriptorsAccounted`), `HeapIsTiled`
  (`BlocksTile`), `HeapRefines` (`ImplementsAllocator`). `IInv` does not speak of the walk
  along the list: it says that there are a set L of descriptors and an address for each
  such that (`Layout`) their blocks are disjoint and cover the heap (`Tiled`), `next`
  and `prev` lead from each to the one behind and before it (`Linked`), no two free
  blocks touch (`Apart`), the blocks in use are what the callers hold, and the stack of
  unused descriptors has each of the others once (`Spare`). A split adds one
  descriptor to L (`CutKeeps`), a merge takes one away (`MergeKeeps`), and the two
  merges of `try_coalesce` are handled one after the other, with `Apart` given up
  around the freed block in between (`ApartBut`). That the loops of the code meet L in
  the order of the addresses (`Enumerated`, `WalkIs`, `ChainOrdered`) and that the sizes
  they add up are the addresses (`BaseOrdered`) is one fact about a layout, again by the
  first position that would be wrong. For the refinement, there is room at an address
  exactly when it is inside of one free block (`FitsIs`), so the first fitting block of
  the list is the lowest fitting address, and the descriptors in use are counted by a
  bijection with the objects and the gaps between them (`BlocksCounted`).
- **UsartRingProofs**. `TypeCorrect`, `Armed` (`PendingIsArmed`), and the two refinements
  `TxRefines` (`TxIsFifo`) and `RxRefines` (`RxIsFifo`) for rings of every length. Lemmas on
  ring arithmetic (`PutAfterHead`, `PutAtHead`, `TakeAtTail`) turn cell operations into
  Append and Tail. The receive side needs to know that the cell `readb` still
  has to read is the one just behind the tail, which a ring with room does not
  overwrite.
- **TtyProofs**. `TypeCorrect`, `BuffersFit` (`BufferFits`), `ExpandedOnce`
  (`OutputIsExpansion`), `DeadStayDead` (`KilledStaysDead`). `IInv` has three parts:
  `Serving`, what the first request and `bytes_copied` can be while the worker is in
  either of its loops; `Sending`, which bytes of a character are out when, as long as
  nobody has confused the flag TTY_S_NL; `Others`, what is true of the requests behind
  the first one, and of the callers. `Answering` says who has been popped: a process that
  still waits, unless it was killed since (`late`). `DeadStayDead` is an action property:
  who has been killed, by CTRL-C or by another process, is not woken by the answer to a
  request it left behind, but for the window in section 6. `BuffersFit` is about requests
  of at least one byte.
- **FileSystemProofs**, first part (Files). `TypeCorrect`, `Covered` (`FilesCovered`), `Exact`
  (`FilesExact`). `CallsInv` and `ChildInv` say where a process is and which slot it has
  read the count of, and that a child in the making belongs to one parent and has room
  for what it is still to get. `CountsInv` holds until two updates overlap or a count
  wraps: what a process has read is still the count, the count covers the references, and
  the free stack has unused slots, once each. `ExactInv`: without any mishap the count is
  exact and no slot is lost. References are counted as the cardinality of a set of pairs
  of process and descriptor, and every action adds or takes away one pair.
- **FileSystemProofs**, second part (Vfs). `VfsTypes` (`VfsTypeOK`), `WalksEndRight`
  (`WalkRight`), `DentriesStayTrue` (`DentriesTrue`), `MissesAreHome` (`MissIsHome`),
  `ReadsAreRight` (`ReadRight`). None of the properties is inductive alone. For the walks,
  `VfsInv` adds what a process knows at each point: what is left is the end of its path
  (`PathsOf`), the inode it has reached is where the names behind it lead (`TrailOf`), and
  the number it has found is the meaning of the next name (`FoundOf`), because dentries
  are true and a dentry in the works is seen by one writer at a time (`StoresOf`,
  `OneStores`). `CacheInv` says that the mountpoint and the root of devfs are cached once,
  so that position and number agree where `check_mount` compares them; `FillInv`, which
  inodes on the list somebody is still filling, each by one process, and that nobody
  else has come to use them; and `MountsOf`
  that a walk never stays at the mountpoint and never misses one of the three: so
  the `..` of a mounted root, whose number belongs to the other file system, is never
  asked for from the wrong one. For the reads, `OffsetsOf` keeps a request within
  the file, and `BytesOf` says for each label what `ucfs_read` has gathered: the bytes from the
  offset on, up to where `current_block` begins or to the end (`Continues`, `Ends`). A
  read from inside of a block may have gathered more than was asked for (`Overlong`):
  then the rest is below zero and the copy that follows a mishap. What is left is arithmetic of division and blocks (`Division`, `Products`, `BlockBounds`),
  stated once for any block size, and how byte ranges join (`BytesJoin`). That the
  recursive function `Trail` is defined for a path of any length follows from the smallest
  length that would have no trail (`TrailsExist`, `TrailIs`). An action is shown to keep
  the invariant by what it leaves alone: `Framed` and `Same` are what
  the other processes need (`Together`).
- **ProcLifeProofs**. `TypeCorrect`, `PidsHaveOneOwner` (`PidsAccounted`),
  `StacksHaveOneOwner` (`StacksAccounted`), `ParentsAreListed` (`ParentIsListed`),
  `InitIsHeard` (`InitDeathHeard`), `DeathWakesParent` (`DeathWakes`). `IInv` is in layers.
  The types hold always. `Accounts` holds as long as `mishap` is empty, that is, as long
  as no two have met inside of a list either: each descriptor is on one list once
  (`ListInv`), who is alive is listed (`AliveInv`), who has a descriptor in hand is alive
  and the only one (`HandInv`), the lock has one owner (`LockInv`), each pid and stack is
  free or has one owner (`PidInv`, `StackInv`), and there are as many free stacks as free
  pids and processes that are between the two (`CountInv`), which is why whoever has got
  a pid finds a stack. `Family` holds before the halt: the worker, the order of
  `proc_active_list` behind init, that a parent is listed, that what `sys_waitpid` is
  taking apart is nobody's parent any more when it loses its pid (`TakenInv`), and that the
  death of init is still to be heard while init is a zombie. `Heard` needs `Ordered`: the
  worker reaps the first zombie of its own on the list and forgets the signal, so it
  must meet init before the boot process. What an action does to one descriptor is
  the same for several actions and stated once (`PartKeeps`, `PopPid`, `PushPid`,
  `PopStack`, `PushStack`). `DeathWakes` is a property of steps and follows from
  `Family` before the step (`Wakes`).

The two lemmas about the operators of RunQueue that KMutexProofs and DeviceIOProofs share
(what a context switch keeps) stand in both.

Model-checked only: what must eventually happen (`EventuallyRuns`, `Transmitted`,
`OutputEnds`), because liveness under fairness is out of this prover's reach. Every invariant
and every action property that a run expects to hold, and every refinement, has a theorem.


## 6. Where the code and its comments disagree

- `mutex_lost_wakeup`: `kernel/lock.c:30` enables interrupts between `waiter_push`
  and `proc_block`. Handed the mutex in that window, the process blocks as its
  owner and nobody wakes it.
- `device_trap`: the trap of `arch/armv8-m/proc.c:162`. `kernel/device.c:109` enables
  interrupts between `device_request_io` and `proc_block`. Served in that
  window, a caller is queued a second time and then sleeps for ever; a few such
  cells fill the run queue and the worker is lost. That every request is served
  eventually is therefore not a property of DeviceIO.

- `proc_stack`: `arch/armv8-m/svc_call.S:38` "invert current mode". The byte it writes is
  not `kernel_mode`, which stays 0 in a system call. `proc_reap` then returns the
  user stack of a process that called `exit` to the list of kernel stacks, and the
  next `sys_spawn` hands it out.

What else the code does against itself is kept out of the specifications by
their discipline, or ends the model as a `mishap`:

- SIGCHLD and SIGCONT unblock a process whatever it is blocked for
  (`kernel/proc.c:279`). One that is queued on a mutex returns from `mutex_lock`
  without it, beside the owner. `kmutex` holds as long as only its own wakeups
  arrive.
- `waiter_remove` (`kernel/waiter.c:39`) walks from the newest entry along links that
  lead from the oldest: a process killed in `mutex_lock` stays queued.
- SIGSTOP, and SIGKILL of a READY process, leave a cell of the run queue behind;
  made READY again the process has two, the queue overflows and loses somebody
  (`kernel/proc.c:63`). `sched` holds as long as only BLOCKED processes are killed
  and nobody is stopped.
- ProcLife: `raced`, two processes are inside of the list of free pids or of free stacks
  at once, and one takes what the other takes or writes over what it has stored
  (`kernel/proc.c:36-59`, without the lock; also the worker with the scheduler stopped,
  `kernel/init.c:39`): a pid or a stack can then have two owners or none; `nopid`, `sys_spawn` without a pid leaves the descriptor listed;
  `halfreaped`, a descriptor with its last life's state is reaped while it is being
  made; `abandoned`, the spawning process is killed in between; `hidden`, a signal
  meets such a descriptor by its old pid; `stopped`, the scheduler is not started
  again because a dying process has no parent on the list. And `sys_waitpid` blocks
  after its scan without looking again (`kernel/exec.c:292`): a child that dies in
  between is waited for in vain. The model has those states and no property that
  denies them.
- Files: `locked`, `file_alloc` keeps the lock of a full table; `leaked`, nobody looks
  at what `proc_fd_add` answers; `reaped`, `proc_reap` closes the files of its caller;
  `raced`, `sys_spawn` counts without the lock; `wrapped`, the count has 4 bits.
- Vfs: `shared`, a buffer of the file system is overwritten by one process while
  another sleeps in `device_read`; `torn`, a dentry answers while it is written;
  `overrun`, a read that begins inside of a block can be longer than asked for, and the
  rest of one that is, is unsigned and copied as a huge size (`fs/ucfs.c:64-67`);
  `unfilled`, an inode is found in the cache before it is filled (`fs/vfs.c:47`).
- Tty: `mixed`, `kputc` and the worker, or the worker's own echo, use TTY_S_NL of each
  other. A process killed between `waiter_pop` and `proc_unblock_process`
  (`kernel/device.c:75-77`) is made READY again: `KilledStaysDead` excepts whoever is
  `late`, and the model shows it come back. A read of 0 bytes takes a character all the
  same and writes it behind the caller's buffer (`drivers/tty/tty.c:109-110`):
  `BufferFits` is about the others.

## 7. Not modelled yet, and the plan

1. The composition of DeviceIO with signals and deaths, and of ProcLife with the
   run queue.
2. `ucfs_readdir`, `devfs_readdir` and `vfs_lseek` on Vfs.

Left out on purpose: the reference counts of inodes (`inode_free` never evicts, so
they decide nothing); credentials, sysctl and uname (assignments to the fields of one
process); the display driver (not built by default), board and start-up code,
fault handlers and panic (they stop the machine), string and print helpers,
user space (read for what it asks of the kernel) and the image tools (one pass
on the build host). The lpc55s69 usart polls and keeps no state. Most of the
repository's lines are the vendors' register headers, which hold no behaviour.
