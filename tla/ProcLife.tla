----------------------------- MODULE ProcLife -----------------------------
(***************************************************************************)
(* The life of a process: sys_spawn, the signals, exit, sys_waitpid and    *)
(* proc_reap of kernel/proc.c and kernel/exec.c, with the free lists of    *)
(* pids, kernel stacks and descriptors they live on.                       *)
(*                                                                         *)
(* Every READY process may take the next step: the scheduler preempts      *)
(* anywhere and starves nobody (module Sched).  What is done with the      *)
(* scheduler stopped is one step.  Under proc_acces_lock only the searches *)
(* of the active list are: the list itself also changes while the          *)
(* scheduler is stopped, which passes the lock, and the free lists of pids *)
(* and stacks are used without any.                                        *)
(***************************************************************************)
EXTENDS Integers, Sequences, FiniteSets

CONSTANTS
    Proc,                   \* descriptors, struct proc
    Worker, KInit, UInit,   \* those of the worker, kernel init and init
    NoProc,                 \* the NULL pointer
    MaxProc,                \* PROC_MAX_PROC
    MaxSpawn,               \* bound on the calls of sys_spawn
    WaitFor,                \* what sys_waitpid is called with
    Wild                    \* a pointer that is no element of stack_array

ASSUME ProcLifeAssumption ==
    /\ {Worker, KInit, UInit} \subseteq Proc
    /\ Worker # KInit /\ Worker # UInit /\ KInit # UInit
    /\ NoProc \notin Proc
    /\ MaxProc \in Nat /\ MaxProc >= 4
    /\ Wild \notin Nat
    /\ WaitFor \subseteq {-1} \cup Nat
    /\ MaxSpawn \in Nat

Pid   == 0..(MaxProc - 1)
Stack == 0..(MaxProc - 1)
AnyPid == -1            \* the pid sys_waitpid takes for any child

VARIABLES
    active, free,           \* proc_active_list, proc_free_list
    pids, stacks,           \* the free pids and stacks, the next one first
    state, pid, ppid, sigmask,  \* fields of struct proc
    kstack,                 \* the kernel stack proc_create gave it
    pc,                     \* where it is: "user" and "kernel" outside of
                            \* any system call, the rest inside of one
    child, want,            \* local variables of sys_spawn and sys_waitpid:
                            \* the one they make or reap, and the pid
    noticed,                \* exit_code of the worker is not 0
    halted,                 \* the worker has left its loop
    spawned,                \* history: the calls of sys_spawn
    mishap                  \* history: what has gone wrong so far

listVars == <<active, free, pids, stacks>>
vars == <<listVars, state, pid, ppid, sigmask, kstack, pc, child, want,
          noticed, halted, spawned, mishap>>

Sent == {"CONT", "STOP", "KILL"}    \* the signals that are sent on purpose
Sig  == Sent \cup {"CHLD"}

(* The ways in which sys_spawn goes wrong: there is no pid; a descriptor   *)
(* is reaped while sys_spawn has it in hand; the caller is killed there; a *)
(* signal meets such a descriptor, which still shows the pid of its last   *)
(* life, instead of the process that has the pid now.  One that the lists  *)
(* invite: two processes are inside of the same at once, and either may    *)
(* lose or double what it holds.  And one in which proc_mark_zombie goes   *)
(* wrong: no parent is found and the scheduler stays stopped.              *)
Mishap == {"nopid", "halfreaped", "abandoned", "hidden", "raced", "stopped"}

(* Inside of sys_spawn, with a descriptor in hand, and of proc_reap under  *)
(* the lock of sys_waitpid: in front of a free list, and inside of it; and *)
(* inside of the list of descriptors.                                      *)
Spawning == {"creating", "numbering", "numbered", "stacking", "stacked",
             "created"}
Reaping  == {"reaping", "unstacking", "unstacked", "unnumbering", "unlinking"}
Begins   == [creating |-> "numbering", numbered |-> "stacking",
             reaping |-> "unstacking", unstacked |-> "unnumbering"]
InPids   == {"numbering", "unnumbering"}
InStacks == {"stacking", "unstacking"}
InList   == {"linking", "unlinking"}

TypeOK ==
    /\ active \in Seq(Proc) /\ free \in Seq(Proc)
    /\ pids \in Seq(Pid) /\ stacks \in Seq(Stack \cup {Wild})
    /\ state \in [Proc -> {"ZOMBIE", "BLOCKED", "READY"}]
    /\ pid \in [Proc -> Pid] /\ ppid \in [Proc -> Pid]
    /\ sigmask \in [Proc -> SUBSET Sig]
    /\ kstack \in [Proc -> Stack \cup {Wild}]
    /\ pc \in [Proc -> {"boot", "kernel", "user", "linking", "scanned",
                        "waiting", "exited"} \cup Spawning \cup Reaping]
    /\ child \in [Proc -> Proc \cup {NoProc}]
    /\ want \in [Proc -> {AnyPid} \cup WaitFor]
    /\ noticed \in BOOLEAN /\ halted \in BOOLEAN
    /\ spawned \in 0..MaxSpawn
    /\ mishap \subseteq Mishap

(* kernel_init_process before its proc_kill(1, SIGCONT), the pids swapped: *)
(* the worker has 0, init 1, and itself 3.  A new descriptor is all zero.  *)
Init ==
    /\ active = <<UInit, KInit, Worker>> /\ free = <<>>
    /\ pids = <<2>> \o [i \in 1..(MaxProc - 4) |-> i + 3]
    /\ stacks = [i \in 1..(MaxProc - 3) |-> MaxProc - 3 - i]
    /\ state = [p \in Proc |-> CASE p \in {Worker, KInit} -> "READY"
                                 [] p = UInit -> "BLOCKED"
                                 [] OTHER -> "ZOMBIE"]
    /\ pid = [p \in Proc |-> CASE p = KInit -> 3 [] p = UInit -> 1
                               [] OTHER -> 0]
    /\ ppid = [p \in Proc |-> 0]
    /\ sigmask = [p \in Proc |-> CASE p = Worker -> {"CHLD"}
                                   [] p = KInit -> {"CHLD", "CONT"}
                                   [] p = UInit -> Sig
                                   [] OTHER -> {}]
    /\ kstack = [p \in Proc |-> CASE p = Worker -> MaxProc - 1
                                  [] p = KInit -> MaxProc - 2
                                  [] p = UInit -> MaxProc - 3
                                  [] OTHER -> Wild]
    /\ pc = [p \in Proc |-> CASE p = Worker -> "kernel" [] p = KInit -> "boot"
                              [] p = UInit -> "user"
                              [] OTHER -> "exited"]
    /\ child = [p \in Proc |-> NoProc]
    /\ want = [p \in Proc |-> AnyPid]
    /\ noticed = FALSE /\ halted = FALSE /\ mishap = {} /\ spawned = 0

-----------------------------------------------------------------------------

(* Of the descriptors in S, the one nearest to the head of the list. *)
Listed == {active[i] : i \in DOMAIN active}
First(S) ==
    IF S \cap Listed = {} THEN NoProc
    ELSE active[CHOOSE i \in DOMAIN active :
                   active[i] \in S /\ \A j \in 1..(i - 1) : active[j] \notin S]

(* proc_get_process *)
Find(t) == First({p \in Proc : pid[p] = t})

(* A system call of p begins, or goes on, at l.  The model ends with the   *)
(* first mishap, and with the halt of the kernel.                          *)
At(p, l) == state[p] = "READY" /\ pc[p] = l /\ mishap = {} /\ ~halted
Goto(p, l) == pc' = [pc EXCEPT ![p] = l]

(* What the processes at one of the labels have in hand. *)
InHand(labels) == {child[p] : p \in {q \in Proc : pc[q] \in labels}}

(* Descriptors proc_alloc_process has published and nobody has numbered.   *)
Raw == InHand({"creating", "numbering"})
Hidden(q) == IF q \in Raw THEN {"hidden"} ELSE {}

(* A mutated Reparented: the children that are dead already are forgotten. *)
ReparentLiving(p) ==
    [q \in Proc |-> IF q \in Listed /\ ppid[q] = pid[p] /\ state[q] # "ZOMBIE"
                      THEN 1 ELSE ppid[q]]

(* Init, pid 1, adopts the children of p. *)
Reparented(p) ==
    [q \in Proc |-> IF q \in Listed /\ ppid[q] = pid[p] THEN 1 ELSE ppid[q]]

(* A mutated Die: the parent is told, and sleeps on. *)
DieSilently(p) ==
    /\ state' = [state EXCEPT ![p] = "ZOMBIE"]
    /\ ppid' = Reparented(p)
    /\ noticed' = (noticed \/ Find(ppid'[p]) = Worker)
    /\ UNCHANGED mishap

(* proc_mark_zombie, which ends with SIGCHLD to the parent: the signal is  *)
(* what starts the scheduler again, and a parent that sleeps is woken.     *)
Die(p) ==
    LET parent == Find(Reparented(p)[p])
        heard == parent \notin {NoProc, p} /\ "CHLD" \in sigmask[parent]
        woken == {q \in {parent} : heard /\ state[q] = "BLOCKED"}
    IN  /\ state' = [q \in Proc |-> IF q = p THEN "ZOMBIE"
                                    ELSE IF q \in woken THEN "READY"
                                    ELSE state[q]]
        /\ ppid' = Reparented(p)
        /\ noticed' = (noticed \/ (heard /\ parent = Worker))
        /\ mishap' = Hidden(parent)
              \cup {m \in {"abandoned"} : pc[p] \in Spawning}
              \cup {m \in {"stopped"} : parent = NoProc}

(* proc_send_sig to q of a signal other than SIGCHLD.  proc_kill_process   *)
(* does not defer the death of a READY user process: kernel_mode is 0      *)
(* inside of a system call too, and the kernel's own take no SIGKILL.      *)
Send(q, sig) ==
    LET does(from) == q # NoProc /\ sig \in sigmask[q] /\ state[q] = from
        becomes(st) == /\ state' = [state EXCEPT ![q] = st]
                       /\ UNCHANGED <<ppid, noticed, mishap>>
    IN  \/ sig = "KILL" /\ (does("READY") \/ does("BLOCKED")) /\ Die(q)
        \/ sig = "CONT" /\ does("BLOCKED") /\ becomes("READY")
        \/ sig = "STOP" /\ does("READY") /\ becomes("BLOCKED")

-----------------------------------------------------------------------------
(* sys_spawn, which is preemptible between its parts. *)

(* proc_acces_lock is held over more than one step.  Whoever has stopped   *)
(* the scheduler passes it.                                                *)
Locked == \E p \in Proc : pc[p] \in Reaping \cup InList

(* proc_alloc_process begins, under the lock, ... *)
BeginAlloc(p) ==
    /\ At(p, "user") /\ ~Locked /\ spawned < MaxSpawn
    /\ spawned' = spawned + 1
    /\ Goto(p, "linking")
    /\ UNCHANGED <<listVars, state, pid, ppid, sigmask, kstack, child, want,
                   noticed, halted, mishap>>

(* ... and lists a descriptor, with the fields of its last life, or zero:  *)
(* a ZOMBIE.                                                               *)
AllocProcess(p, d) ==
    /\ At(p, "linking")
    /\ IF free # <<>> THEN d = Head(free) /\ free' = Tail(free)
                      ELSE d \notin Listed /\ UNCHANGED free
    /\ active' = <<d>> \o active
    /\ child' = [child EXCEPT ![p] = d]
    /\ Goto(p, "creating")
    /\ UNCHANGED <<pids, stacks, state, pid, ppid, sigmask, kstack, want,
                   noticed, halted, mishap, spawned>>

(* proc_pid_alloc, proc_stack_alloc and their counterparts read how many   *)
(* there are, and write it, with what they take or give, some time later.  *)
BeginList(p) ==
    /\ pc[p] \in DOMAIN Begins /\ At(p, pc[p])
    /\ Goto(p, Begins[pc[p]])
    /\ UNCHANGED <<listVars, state, pid, ppid, sigmask, kstack, child, want,
                   noticed, halted, mishap, spawned>>

(* Nobody else is inside of the list. *)
Alone(p, users) == \A q \in Proc \ {p} : pc[q] \notin users

(* Somebody else is, and is overwritten. *)
Collide(p) ==
    /\ At(p, pc[p])
    /\ \E users \in {InPids, InStacks} : pc[p] \in users /\ ~Alone(p, users)
    /\ mishap' = mishap \cup {"raced"}
    /\ UNCHANGED <<listVars, state, pid, ppid, sigmask, kstack, pc, child, want,
                   noticed, halted, spawned>>

(* The rest of proc_create: the descriptor gets a pid, ... *)
TakePid(p) ==
    /\ At(p, "numbering") /\ Alone(p, InPids)
    /\ pids # <<>>
    /\ pid' = [pid EXCEPT ![child[p]] = Head(pids)] /\ pids' = Tail(pids)
    /\ Goto(p, "numbered")
    /\ UNCHANGED <<active, free, stacks, state, ppid, sigmask, kstack, child,
                   want, noticed, halted, mishap, spawned>>

(* A mutated CreateFails: 255 is taken for a pid. *)
CreateUnchecked(p) ==
    /\ At(p, "numbering")
    /\ pids = <<>>
    /\ pid' = [pid EXCEPT ![child[p]] = 255]
    /\ Goto(p, "numbered")
    /\ UNCHANGED <<listVars, state, ppid, sigmask, kstack, child, want,
                   noticed, halted, spawned, mishap>>

(* ... unless there is none: it stays where it is. *)
CreateFails(p) ==
    /\ At(p, "numbering")
    /\ pids = <<>>
    /\ mishap' = mishap \cup {"nopid"}
    /\ child' = [child EXCEPT ![p] = NoProc]
    /\ Goto(p, "user")
    /\ UNCHANGED <<listVars, state, pid, ppid, sigmask, kstack, want, noticed,
                   halted, spawned>>

(* ... a kernel stack, ... *)
TakeStack(p) ==
    /\ At(p, "stacking") /\ Alone(p, InStacks)
    /\ stacks # <<>>
    /\ kstack' = [kstack EXCEPT ![child[p]] = Head(stacks)]
    /\ stacks' = Tail(stacks)
    /\ Goto(p, "stacked")
    /\ UNCHANGED <<active, free, pids, state, pid, ppid, sigmask, child, want,
                   noticed, halted, mishap, spawned>>

(* ... and is a ZOMBIE no longer. *)
CreateStopped(p) ==
    /\ At(p, "stacked")
    /\ state' = [state EXCEPT ![child[p]] = "BLOCKED"]
    /\ pc' = [pc EXCEPT ![p] = "created", ![child[p]] = "user"]
    /\ UNCHANGED <<listVars, pid, ppid, sigmask, kstack, child, want, noticed,
                   halted, mishap, spawned>>

(* The rest of sys_spawn: parent and signal mask. *)
Inherit(p) ==
    /\ At(p, "created")
    /\ ppid' = [ppid EXCEPT ![child[p]] = pid[p]]
    /\ sigmask' = [sigmask EXCEPT ![child[p]] =
                      sigmask[p] \cup {"STOP", "KILL"}]
    /\ child' = [child EXCEPT ![p] = NoProc]
    /\ Goto(p, "user")
    /\ UNCHANGED <<listVars, state, pid, kstack, want, noticed, halted, mishap,
                   spawned>>

-----------------------------------------------------------------------------

(* sys_exit *)
Exit(p) ==
    /\ At(p, "user")
    /\ Die(p)
    /\ Goto(p, "exited")
    /\ UNCHANGED <<listVars, pid, sigmask, kstack, child, want, halted,
                   spawned>>

(* sys_kill *)
Kill(p, t, sig) ==
    /\ At(p, "user") /\ ~Locked
    /\ Send(Find(t), sig)          \* a signal without effect is a stutter
    /\ IF state'[p] = "ZOMBIE" THEN Goto(p, "exited") ELSE UNCHANGED pc
    /\ UNCHANGED <<listVars, pid, sigmask, kstack, child, want, halted,
                   spawned>>

(* sys_sigprocmask *)
SigProcMask(p, blocked) ==
    /\ At(p, "user")
    /\ sigmask' = [sigmask EXCEPT ![p] = Sig \ blocked]
    /\ UNCHANGED <<listVars, state, pid, ppid, kstack, pc, child, want,
                   noticed, halted, mishap, spawned>>

(* The stack proc_reap gives back: splim in kernel mode, and save_splim in *)
(* user mode.  Inside of a system call save_splim is the user's stack, and *)
(* kernel_mode is still 0.                                                 *)
StackOf(d) == IF pc[d] \in {"user", "kernel"} THEN kstack[d] ELSE Wild

(* proc_free_process unlinks the one cell of d. *)
Unlinked(d) ==
    LET at == CHOOSE i \in DOMAIN active : active[i] = d
    IN  [i \in 1..(Len(active) - 1) |->
            active[IF i < at THEN i ELSE i + 1]]

(* A mutated FreeStack: the stack is kept. *)
KeepStack(d) == UNCHANGED stacks

FreeStack(d) == stacks' = <<StackOf(d)>> \o stacks

(* A mutated FreePid: the pid is kept. *)
KeepPid(d) == UNCHANGED pids

FreePid(d) == pids' = <<pid[d]>> \o pids

FreeProcess(d) == active' = Unlinked(d) /\ free' = <<d>> \o free

(* A zombie is chosen that sys_spawn has in hand. *)
Chosen(d) == IF d \in InHand(Spawning) THEN {"halfreaped"} ELSE {}

-----------------------------------------------------------------------------
(* sys_waitpid *)

Children(p) == {q \in Listed : ppid[q] = pid[p]}
Dead(p, w) ==
    {q \in Children(p) : state[q] = "ZOMBIE" /\ w \in {AnyPid, pid[q]}}

(* proc_reap begins, under the lock. *)
BeginReap(p, d) ==
    /\ child' = [child EXCEPT ![p] = d]
    /\ mishap' = mishap \cup Chosen(d)
    /\ Goto(p, "reaping")

(* The first scan finds a zombie. *)
WaitReap(p, w) ==
    /\ At(p, "user") /\ ~Locked
    /\ Dead(p, w) # {}
    /\ BeginReap(p, First(Dead(p, w)))
    /\ UNCHANGED <<listVars, state, pid, ppid, sigmask, kstack, want, noticed,
                   halted, spawned>>

(* The kernel stack is free again, then the pid, ... *)
ReapStack(p) ==
    /\ At(p, "unstacking") /\ Alone(p, InStacks)
    /\ FreeStack(child[p])
    /\ Goto(p, "unstacked")
    /\ UNCHANGED <<active, free, pids, state, pid, ppid, sigmask, kstack, child,
                   want, noticed, halted, mishap, spawned>>

ReapPid(p) ==
    /\ At(p, "unnumbering") /\ Alone(p, InPids)
    /\ FreePid(child[p])
    /\ Goto(p, "unlinking")
    /\ UNCHANGED <<active, free, stacks, state, pid, ppid, sigmask, kstack,
                   child, want, noticed, halted, mishap, spawned>>

(* ... and last, with the lock, the descriptor. *)
ReapProcess(p) ==
    /\ At(p, "unlinking")
    /\ FreeProcess(child[p])
    /\ child' = [child EXCEPT ![p] = NoProc]
    /\ Goto(p, "user")
    /\ UNCHANGED <<pids, stacks, state, pid, ppid, sigmask, kstack, want,
                   noticed, halted, mishap, spawned>>

(* It finds none, but there are children. *)
WaitScan(p, w) ==
    /\ At(p, "user") /\ ~Locked
    /\ Dead(p, w) = {} /\ Children(p) # {}
    /\ want' = [want EXCEPT ![p] = w]
    /\ Goto(p, "scanned")
    /\ UNCHANGED <<listVars, state, pid, ppid, sigmask, kstack, child, noticed,
                   halted, mishap, spawned>>

(* proc_block, outside of the lock *)
WaitBlock(p) ==
    /\ At(p, "scanned")
    /\ state' = [state EXCEPT ![p] = "BLOCKED"]
    /\ Goto(p, "waiting")
    /\ UNCHANGED <<listVars, pid, ppid, sigmask, kstack, child, want, noticed,
                   halted, mishap, spawned>>

(* The second scan, which is the last one. *)
WaitRescan(p) ==
    LET dead == Dead(p, want[p])
    IN  /\ At(p, "waiting") /\ ~Locked
        /\ IF dead # {} THEN BeginReap(p, First(dead))
                        ELSE Goto(p, "user") /\ UNCHANGED <<child, mishap>>
        /\ want' = [want EXCEPT ![p] = AnyPid]
        /\ UNCHANGED <<listVars, state, pid, ppid, sigmask, kstack, noticed,
                       halted, spawned>>

-----------------------------------------------------------------------------
(* The kernel's own processes. *)

(* kernel_init_process starts init and dies. *)
BootInit ==
    /\ At(KInit, "boot")
    /\ Send(Find(1), "CONT")
    /\ Goto(KInit, "kernel")
    /\ UNCHANGED <<listVars, pid, sigmask, kstack, child, want, halted,
                   spawned>>

BootExit ==
    /\ At(KInit, "kernel")
    /\ Die(KInit)
    /\ UNCHANGED <<listVars, pid, sigmask, kstack, pc, child, want, halted,
                   spawned>>

Orphans == {q \in Listed : state[q] = "ZOMBIE" /\ ppid[q] = 0}

(* proc_reap with the scheduler stopped, wherever it has stopped others. *)
Reap(d) ==
    /\ FreeStack(d) /\ FreePid(d) /\ FreeProcess(d)
    /\ mishap' = mishap \cup Chosen(d) \cup
          {m \in {"raced"} :
              \E p \in Proc : pc[p] \in InPids \cup InStacks \cup InList}

(* A mutated WorkerReap: the oldest zombie first. *)
WorkerReapOldest ==
    LET d == active[CHOOSE i \in DOMAIN active :
                /\ active[i] \in Orphans
                /\ \A j \in (i + 1)..Len(active) : active[j] \notin Orphans]
    IN  /\ At(Worker, "kernel") /\ noticed
        /\ IF Orphans = {} THEN UNCHANGED <<listVars, mishap>> ELSE Reap(d)
        /\ halted' = (Orphans # {} /\ pid[d] = 1)
        /\ noticed' = halted'
        /\ UNCHANGED <<state, pid, ppid, sigmask, kstack, pc, child, want,
                       spawned>>

(* kernel_worker_process after SIGCHLD: one zombie without a parent is     *)
(* reaped, and the kernel halts after init.                                *)
WorkerReap ==
    LET d == First(Orphans)
    IN  /\ At(Worker, "kernel") /\ noticed
        /\ IF Orphans = {} THEN UNCHANGED <<listVars, mishap>> ELSE Reap(d)
        /\ halted' = (Orphans # {} /\ pid[d] = 1)
        /\ noticed' = halted'
        /\ UNCHANGED <<state, pid, ppid, sigmask, kstack, pc, child, want,
                       spawned>>

Step(p) ==
    \/ BeginAlloc(p) \/ (\E d \in Proc : AllocProcess(p, d))
    \/ BeginList(p) \/ Collide(p)
    \/ TakePid(p) \/ CreateFails(p) \/ TakeStack(p) \/ CreateStopped(p)
    \/ Inherit(p)
    \/ Exit(p)
    \/ \E t \in Pid, sig \in Sent : Kill(p, t, sig)
    \/ \E blocked \in {{}, {"CHLD"}} : SigProcMask(p, blocked)
    \/ \E w \in WaitFor : WaitReap(p, w) \/ WaitScan(p, w)
    \/ ReapStack(p) \/ ReapPid(p) \/ ReapProcess(p)
    \/ WaitBlock(p) \/ WaitRescan(p)

Next == (\E p \in Proc : Step(p)) \/ BootInit \/ BootExit \/ WorkerReap

Spec == Init /\ [][Next]_vars

-----------------------------------------------------------------------------

(* The processes sys_spawn is done with, and those it never got to. *)
Made == Listed \ InHand(Spawning)

(* Descriptors without a kernel stack of their own: not yet, or no longer. *)
Stackless == InHand({"creating", "numbering", "numbered", "stacking",
                     "unstacked", "unnumbering", "unlinking"})

(* Every pid has one owner, a process or the free list: reaping and        *)
(* creating, in any order, loses none and gives none to two.  The only way *)
(* out is a spawn that fails for want of a pid, that is interrupted        *)
(* between its parts by a sys_waitpid or a SIGKILL, or somebody who meets  *)
(* another inside of a list.                                               *)
PidsAccounted ==
    mishap = {} =>
        \A t \in Pid :
            Cardinality({p \in Listed \ (Raw \cup InHand({"unlinking"})) :
                            pid[p] = t})
               + Cardinality({i \in DOMAIN pids : pids[i] = t}) = 1

(* Whoever has got a pid finds a kernel stack, however the parts of other  *)
(* spawns and reaps come between: as long as nobody meets in a free list,  *)
(* proc_create does not panic for want of a stack (arch proc.c:45).  No    *)
(* two processes share a kernel stack, and none runs on a free one.        *)
StacksAccounted ==
    mishap = {} =>
        /\ InHand({"numbered", "stacking"}) # {} => stacks # <<>>
        /\ \A s \in Stack :
              Cardinality({p \in Listed \ Stackless : kstack[p] = s})
                 + Cardinality({i \in DOMAIN stacks : stacks[i] = s}) <= 1

(* Nobody is the child of a process that is gone: the SIGCHLD of every     *)
(* death finds a parent, which is what starts the scheduler again.  The    *)
(* parent may itself be in the hands of sys_spawn: a reused descriptor     *)
(* keeps its old signal mask, and a SIGCONT starts it before its time.     *)
ParentIsListed ==
    mishap = {} /\ ~halted =>
        \A p \in Made : \E q \in Listed \ Raw :
            /\ pid[q] = ppid[p]
            /\ state[q] # "ZOMBIE" \/ pid[q] = 1

(* A process that dies while its parent sleeps in sys_waitpid wakes it:    *)
(* the SIGCHLD is not taken by anybody else, and not masked on its way.    *)
DeathWakes ==
    [][\A p, q \in Made :
          /\ state[p] # "ZOMBIE" /\ state'[p] = "ZOMBIE" /\ ppid[p] = pid[q]
          /\ pc[q] = "waiting" /\ "CHLD" \in sigmask[q]
          /\ mishap' = {}
          => state'[q] # "BLOCKED"]_vars

(* The stack proc_create hands out is an element of stack_array.  It is    *)
(* not: a process that dies inside of a system call, as every process that *)
(* calls exit does, gives back its user stack in place of its own.         *)
StackIsReal ==
    \A p \in Listed \ Stackless : state[p] # "ZOMBIE" => kstack[p] # Wild

(* A dead init keeps the worker alert until the kernel halts, whoever else *)
(* has died about that time: the worker reaps one zombie per SIGCHLD and   *)
(* then forgets the signal.                                                *)
InitDeathHeard ==
    mishap = {} /\ ~halted =>
        \A p \in Made : pid[p] = 1 /\ state[p] = "ZOMBIE" => noticed
=============================================================================
