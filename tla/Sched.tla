------------------------------ MODULE Sched ------------------------------
(***************************************************************************)
(* The scheduler under the discipline its callers are written for: a       *)
(* process blocks only itself, only a BLOCKED process is unblocked, and    *)
(* processes come and go as sys_spawn, exit, the killing of a blocked      *)
(* process and proc_reap make them.  KMutex shows a caller that breaks     *)
(* the discipline.                                                         *)
(***************************************************************************)
EXTENDS RunQueue, FiniteSets

CONSTANTS
    Worker,     \* the kernel worker, which is always ready and never exits
    KernelInit  \* kernel_init_process, the other process made at boot

ASSUME SchedAssumption ==
    /\ Worker \in Proc /\ KernelInit \in Proc /\ Worker # KernelInit
    /\ IsFiniteSet(Proc)
    /\ Cardinality(Proc) <= QueueSize

(* kernel_init creates both processes ready and proc_start_scheduling      *)
(* takes the first one off the queue.                                      *)
Init ==
    /\ state = [p \in Proc |-> IF p \in {Worker, KernelInit}
                                 THEN "READY" ELSE "UNUSED"]
    /\ runq = <<KernelInit>>
    /\ current = Worker

(* SysTick, or the running process giving way. *)
Tick == ProcSchedule

(* The running process waits for a device, a mutex or a child. *)
BlockSelf == current # Worker /\ ProcBlock(current)

(* The running process completes what p waits for, or sends it SIGCONT. *)
Wake(p) == state[p] = "BLOCKED" /\ ProcUnblock(p)

(* sys_spawn: proc_create makes the child stopped, so it is not queued. *)
Spawn(p) ==
    /\ current # Worker
    /\ state[p] = "UNUSED"
    /\ state' = [state EXCEPT ![p] = "BLOCKED"]
    /\ UNCHANGED <<runq, current>>

(* proc_mark_zombie(p): SIGCHLD then wakes the parent if it is blocked and *)
(* reschedules if it is not.                                               *)
MarkZombie(p) ==
    LET dead == [state EXCEPT ![p] = "ZOMBIE"]
    IN  \/ state' = dead /\ Switch(runq, dead)
        \/ \E parent \in Proc :
              /\ dead[parent] = "BLOCKED"
              /\ LET st == [dead EXCEPT ![parent] = "READY"]
                 IN  state' = st /\ Switch(Enqueue(runq, parent), st)

(* sys_exit.  The scheduler stops in proc_mark_zombie and starts again in  *)
(* proc_send_sig, so the two are one step here.                            *)
Exit == current # Worker /\ MarkZombie(current)

(* proc_kill_process on a BLOCKED process.  On a READY one it leaves a     *)
(* cell of the queue behind; see the README.                               *)
KillBlocked(p) == state[p] = "BLOCKED" /\ MarkZombie(p)

(* proc_reap, as far as the scheduler can tell: the pid, the stacks, the   *)
(* files and the working directory are other components' state.            *)
Reap(p) ==
    /\ state[p] = "ZOMBIE"
    /\ state' = [state EXCEPT ![p] = "UNUSED"]
    /\ UNCHANGED <<runq, current>>

Next ==
    \/ Tick
    \/ BlockSelf
    \/ Exit
    \/ \E p \in Proc : Wake(p) \/ Spawn(p) \/ KillBlocked(p) \/ Reap(p)

Spec == Init /\ [][Next]_schedVars

(* SysTick keeps firing for as long as the scheduler runs. *)
FairSpec == Spec /\ WF_schedVars(Tick)

-----------------------------------------------------------------------------

(* The scheduler's variables have their types, the queue fits its array    *)
(* and the dequeue loop has found somebody to run.                         *)
TypeOK == SchedTypeOK /\ current \in Proc

(* No runnable process is ever lost by the silently failing proc_enqueue,  *)
(* and none is queued twice: the running process is ready and not queued,  *)
(* every other ready process has exactly one cell, and nobody else has     *)
(* one.                                                                    *)
RunnableOnce ==
    /\ state[current] = "READY"
    /\ \A p \in Proc :
          IF state[p] = "READY" /\ p # current
            THEN \E i \in DOMAIN runq : runq[i] = p
            ELSE \A i \in DOMAIN runq : runq[i] # p
    /\ \A i, j \in DOMAIN runq : i # j => runq[i] # runq[j]

(* Round robin starves nobody: under preemption every ready process gets   *)
(* the processor, whatever the others block, wake, spawn and kill.         *)
EventuallyRuns == \A p \in Proc : (state[p] = "READY") ~> (current = p)
=============================================================================
