--------------------------- MODULE ProcLifeProofs ---------------------------
(***************************************************************************)
(* The life of processes for any number of pids, descriptors and spawns:   *)
(* who owns which pid and which kernel stack, and who hears of a death.    *)
(***************************************************************************)
EXTENDS ProcLife, FiniteSetTheorems, SequenceTheorems, WellFoundedInduction,
        TLAPS

Alive(p) == state[p] # "ZOMBIE"

(* Inside of sys_spawn or of proc_reap, a process has a descriptor in hand. *)
Labels   == Spawning \cup Reaping
Hands    == {p \in Proc : pc[p] \in Labels}
Spawners == {p \in Proc : pc[p] \in Spawning}

(* The descriptors in the hands of either, and those without their pid.    *)
Half      == InHand(Spawning)
Taken     == InHand(Reaping)
Unlinking == InHand({"unlinking"})

(* The descriptors that own a pid, and those that own a kernel stack.      *)
Owner  == Listed \ (Raw \cup Unlinking)
Keeper == Listed \ Stackless

(* No descriptor is twice on a list, or on both.                           *)
ListInv ==
    /\ \A i, j \in DOMAIN active : active[i] = active[j] => i = j
    /\ \A i, j \in DOMAIN free : free[i] = free[j] => i = j
    /\ \A i \in DOMAIN free : free[i] \notin Listed

AliveInv == \A p \in Proc : Alive(p) => p \in Owner

(* Whoever has a descriptor in hand is alive and the only one who has; the *)
(* descriptor is a zombie, until it is created.                            *)
HandInv ==
    /\ \A p \in Hands : Alive(p) /\ child[p] \in Listed /\ child[p] # p
    /\ \A p, q \in Hands : child[p] = child[q] => p = q
    /\ \A p \in Hands : pc[p] # "created" => ~Alive(child[p])

(* The lock has one owner. *)
LockInv ==
    \A p, q \in Proc :
        pc[p] \in Reaping \cup InList /\ pc[q] \in Reaping \cup InList => p = q

(* Every pid is free or has one owner. *)
PidInv ==
    /\ \A i, j \in DOMAIN pids : pids[i] = pids[j] => i = j
    /\ \A p, q \in Owner : pid[p] = pid[q] => p = q
    /\ \A p \in Owner, i \in DOMAIN pids : pid[p] # pids[i]
    /\ \A t \in Pid : \/ \E p \in Owner : pid[p] = t
                      \/ \E i \in DOMAIN pids : pids[i] = t

(* Every stack is free or has one owner, or it is lost. *)
StackInv ==
    /\ \A i, j \in DOMAIN stacks :
          stacks[i] = stacks[j] => i = j \/ stacks[i] = Wild
    /\ \A p, q \in Keeper : kstack[p] = kstack[q] => p = q \/ kstack[p] = Wild
    /\ \A p \in Keeper, i \in DOMAIN stacks :
          kstack[p] = stacks[i] => kstack[p] = Wild

(* Who has a pid in hand, but no stack: each is one stack more than pids.  *)
Between == {"numbered", "stacking", "unstacked", "unnumbering"}
Excess  == {p \in Proc : pc[p] \in Between}

CountInv ==
    IsFiniteSet(Excess) /\ Len(stacks) = Len(pids) + Cardinality(Excess)

Accounts == /\ ListInv /\ AliveInv /\ HandInv /\ LockInv
            /\ PidInv /\ StackInv /\ CountInv

(* Nothing happens to the worker. *)
WorkerInv ==
    /\ Worker \in Made /\ pid[Worker] = 0 /\ ppid[Worker] = 0
    /\ state[Worker] = "READY" /\ pc[Worker] = "kernel"
    /\ sigmask[Worker] = {"CHLD"}

Ordered ==
    \E i, j \in DOMAIN active : i < j /\ active[i] = UInit /\ active[j] = KInit

(* Only the first three processes are the worker's children, and the       *)
(* worker meets init before the process that has started it.               *)
FirstInv ==
    /\ UInit \in Made /\ pid[UInit] = 1 /\ ppid[UInit] = 0
    /\ \A p \in Made : ppid[p] = 0 => p \in {Worker, UInit, KInit}
    /\ KInit \in Made /\ ppid[KInit] = 0 => Ordered

Parented ==
    \A p \in Made : \E q \in Owner :
        pid[q] = ppid[p] /\ (Alive(q) \/ pid[q] = 1)

Heard == ~Alive(UInit) => noticed

(* What is reaped in a system call is neither init nor the worker's, and   *)
(* nobody who matters goes by the pid it has lost: not the parent of       *)
(* anybody, and nobody who is about to be.                                 *)
TakenInv ==
    /\ \A d \in Taken : pid[d] # 1 /\ ppid[d] # 0
    /\ \A d \in Unlinking, q \in Made : ppid[q] # pid[d]
    /\ \A d \in Unlinking, q \in Spawners : pid[q] # pid[d]

Family == WorkerInv /\ FirstInv /\ Parented /\ Heard /\ TakenInv

(* What DeathWakes says of a step. *)
Wakes ==
    \A p, q \in Made :
        /\ state[p] # "ZOMBIE" /\ state'[p] = "ZOMBIE" /\ ppid[p] = pid[q]
        /\ pc[q] = "waiting" /\ "CHLD" \in sigmask[q]
        /\ mishap' = {}
        => state'[q] # "BLOCKED"

(* What every step does, short of a mishap. *)
Keeps == mishap' = {} => Accounts' /\ (~halted' => Family') /\ Wakes

IInv ==
    /\ TypeOK
    /\ mishap = {} => Accounts
    /\ mishap = {} /\ ~halted => Family

-----------------------------------------------------------------------------
(* Lists.                                                                   *)

(* The constants, as the arithmetic needs them.                             *)
LEMMA Constants ==
    /\ {Worker, KInit, UInit} \subseteq Proc
    /\ Worker # KInit /\ Worker # UInit /\ KInit # UInit
    /\ NoProc \notin Proc
    /\ MaxProc \in Nat /\ MaxProc >= 4 /\ MaxSpawn \in Nat
    /\ \A s \in Stack : s # Wild
    /\ Pid \subseteq Nat /\ 0 \in Pid /\ 1 \in Pid
BY ProcLifeAssumption DEF Stack, Pid

(* The sizes of the intervals that are counted with.                        *)
LEMMA Counted ==
    ASSUME NEW n \in Nat
    PROVE  IsFiniteSet(1..n)
<1>1. 1 \in Int /\ n \in Int
  OBVIOUS
<1> QED
  BY <1>1, FS_Interval

(* A set of numbers has a smallest element: what the proofs use in place of *)
(* an induction.                                                            *)
LEMMA SmallestOf ==
    ASSUME NEW S, S \subseteq Nat, S # {}
    PROVE  \E x \in S : \A y \in S : x <= y
<1> DEFINE Up == {1..x : x \in S}
<1>1. Up \subseteq FiniteSubsetsOf(Nat)
  BY Counted DEF FiniteSubsetsOf
<1>2. IsWellFoundedOn(StrictSubsetOrdering(Nat), FiniteSubsetsOf(Nat))
  BY FS_StrictSubsetOrderingWellFounded
<1>3. Up # {}
  OBVIOUS
<1> HIDE DEF Up
<1>4. PICK U \in Up : \A V \in Up : ~ (<<V, U>> \in StrictSubsetOrdering(Nat))
  BY <1>1, <1>2, <1>3, WFMin
<1>5. PICK x \in S : U = 1..x
  BY <1>4 DEF Up
<1>6. ASSUME NEW y \in S, ~ (x <= y)
      PROVE  FALSE
  <2>1. x \in Nat /\ y \in Nat /\ y < x
    BY <1>6
  <2>2. 1..y \in Up
    BY DEF Up
  <2>3. 1..y \subseteq 1..x /\ 1..y # 1..x /\ 1..x \subseteq Nat
    <3>1. x \in 1..x /\ x \notin 1..y
      BY <2>1
    <3> QED
      BY <2>1, <3>1
  <2>4. <<1..y, 1..x>> \in StrictSubsetOrdering(Nat)
    BY <2>3, <2>1, Counted DEF StrictSubsetOrdering, FiniteSubsetsOf
  <2> QED
    BY <2>2, <2>4, <1>4, <1>5
<1> QED
  BY <1>6

(* The search along the active list finds the first descriptor it is after.*)
LEMMA FirstIs ==
    ASSUME active \in Seq(Proc), NEW S, S \cap Listed # {}
    PROVE  /\ First(S) \in S /\ First(S) \in Listed /\ First(S) \in Proc
           /\ \E i \in DOMAIN active :
                 /\ active[i] = First(S)
                 /\ \A j \in DOMAIN active : j < i => active[j] \notin S
<1> DEFINE at == {i \in DOMAIN active : active[i] \in S}
<1>1. /\ Len(active) \in Nat /\ DOMAIN active = 1..Len(active)
      /\ \A i \in DOMAIN active : active[i] \in Proc
  OBVIOUS
<1>2. at \subseteq Nat /\ at # {}
  BY <1>1 DEF Listed
<1>3. PICK i \in at : \A j \in at : i <= j
  BY <1>2, SmallestOf
<1>4. \A j \in 1..(i - 1) : j \in DOMAIN active /\ ~ (i <= j)
  BY <1>1, <1>3
<1>5. \E k \in DOMAIN active :
         active[k] \in S /\ \A j \in 1..(k - 1) : active[j] \notin S
  BY <1>3, <1>4
<1> DEFINE k == CHOOSE x \in DOMAIN active :
                   active[x] \in S /\ \A j \in 1..(x - 1) : active[j] \notin S
<1>6. /\ k \in DOMAIN active /\ active[k] \in S
      /\ \A j \in 1..(k - 1) : active[j] \notin S
  BY <1>5
<1>7. First(S) = active[k]
  BY DEF First
<1> HIDE DEF k
<1>8. \A j \in DOMAIN active : j < k => j \in 1..(k - 1)
  BY <1>1, <1>6
<1> QED
  BY <1>1, <1>6, <1>7, <1>8 DEF Listed

(* What a search of the list finds is on the list.                          *)
LEMMA FirstFails ==
    ASSUME NEW S
    PROVE  First(S) # NoProc => S \cap Listed # {}
BY DEF First

(* A cell is unlinked; the order of the others stays.                      *)
LEMMA UnlinkedIs ==
    ASSUME active \in Seq(Proc), ListInv, NEW d \in Listed
    PROVE  LET s == Unlinked(d)
           IN  /\ s \in Seq(Proc)
               /\ \A i, j \in DOMAIN s : s[i] = s[j] => i = j
               /\ \A p : p \in Listed \ {d} <=> \E i \in DOMAIN s : s[i] = p
               /\ \A i, j \in DOMAIN active :
                     i < j /\ active[i] # d /\ active[j] # d =>
                         \E a, b \in DOMAIN s :
                             a < b /\ s[a] = active[i] /\ s[b] = active[j]
<1> DEFINE at == CHOOSE i \in DOMAIN active : active[i] = d
           n == Len(active)
           s == Unlinked(d)
<1>1. /\ n \in Nat /\ DOMAIN active = 1..n
      /\ \A i \in 1..n : active[i] \in Proc
  OBVIOUS
<1>2. at \in 1..n /\ active[at] = d
  BY <1>1 DEF Listed
<1>3. s = [i \in 1..(n - 1) |-> active[IF i < at THEN i ELSE i + 1]]
  BY DEF Unlinked
<1> HIDE DEF at, s, n
<1>4. \A i, j \in 1..n : active[i] = active[j] => i = j
  BY <1>1 DEF ListInv
<1>5. /\ DOMAIN s = 1..(n - 1)
      /\ \A i \in 1..(n - 1) : i < at => s[i] = active[i] /\ i \in 1..n
      /\ \A i \in 1..(n - 1) : ~(i < at) =>
             s[i] = active[i + 1] /\ i + 1 \in 1..n
  BY <1>1, <1>2, <1>3
<1>6. s \in Seq(Proc)
  <2>1. \A i \in 1..(n - 1) : s[i] \in Proc
    BY <1>1, <1>5
  <2>2. n - 1 \in Nat
    BY <1>1, <1>2
  <2> QED
    BY <2>1, <2>2, <1>3, IsASeq
<1>7. ASSUME NEW i \in 1..(n - 1), NEW j \in 1..(n - 1), s[i] = s[j]
      PROVE  i = j
  BY <1>1, <1>2, <1>4, <1>5, <1>7
<1>8. \A i \in 1..(n - 1) : s[i] \in Listed \ {d}
  <2> TAKE i \in 1..(n - 1)
  <2>1. CASE i < at
    BY <2>1, <1>1, <1>2, <1>4, <1>5 DEF Listed
  <2>2. CASE ~(i < at)
    <3>1. s[i] = active[i + 1] /\ i + 1 \in 1..n /\ i + 1 # at
      BY <2>2, <1>2, <1>5
    <3> QED
      BY <3>1, <1>1, <1>2, <1>4 DEF Listed
  <2> QED
    BY <2>1, <2>2
(* where cell i of the active list goes *)
<1> DEFINE to(i) == IF i < at THEN i ELSE i - 1
<1>9. ASSUME NEW i \in 1..n, active[i] # d
      PROVE  to(i) \in 1..(n - 1) /\ s[to(i)] = active[i]
  <2>1. i # at
    BY <1>2, <1>9
  <2>2. CASE i < at
    BY <2>2, <1>1, <1>2, <1>5
  <2>3. CASE at < i
    <3>1. i - 1 \in 1..(n - 1) /\ ~(i - 1 < at) /\ (i - 1) + 1 = i /\ ~(i < at)
      BY <2>3, <1>1, <1>2
    <3> QED
      BY <3>1, <1>5
  <2> QED
    BY <2>1, <2>2, <2>3, <1>2
<1>10. ASSUME NEW p
       PROVE  p \in Listed \ {d} <=> \E i \in DOMAIN s : s[i] = p
  <2>1. ASSUME p \in Listed \ {d}
        PROVE  \E i \in DOMAIN s : s[i] = p
    <3>1. PICK i \in 1..n : active[i] = p /\ active[i] # d
      BY <2>1, <1>1 DEF Listed
    <3> HIDE DEF to
    <3>2. to(i) \in 1..(n - 1) /\ s[to(i)] = p
      BY <3>1, <1>9
    <3> QED
      BY <3>2, <1>5
  <2>2. ASSUME NEW i \in DOMAIN s, s[i] = p
        PROVE  p \in Listed \ {d}
    BY <2>2, <1>5, <1>8
  <2> QED
    BY <2>1, <2>2
<1>11. ASSUME NEW i \in 1..n, NEW j \in 1..n,
              i < j, active[i] # d, active[j] # d
       PROVE  \E a, b \in 1..(n - 1) :
                 a < b /\ s[a] = active[i] /\ s[b] = active[j]
  <2>1. to(i) < to(j)
    BY <1>2, <1>11
  <2> HIDE DEF to
  <2>2. to(i) \in 1..(n - 1) /\ s[to(i)] = active[i]
    BY <1>9, <1>11
  <2>3. to(j) \in 1..(n - 1) /\ s[to(j)] = active[j]
    BY <1>9, <1>11
  <2> QED
    BY <2>1, <2>2, <2>3
<1>12. DOMAIN s = 1..(n - 1) /\ DOMAIN active = 1..n /\ s = Unlinked(d)
  BY <1>1, <1>5 DEF s
<1>13. \A i, j \in DOMAIN active :
          i < j /\ active[i] # d /\ active[j] # d =>
              \E a, b \in DOMAIN s :
                  a < b /\ s[a] = active[i] /\ s[b] = active[j]
  BY <1>11, <1>12
<1>14. \A i, j \in DOMAIN s : s[i] = s[j] => i = j
  BY <1>7, <1>12
<1> QED
  BY <1>6, <1>10, <1>12, <1>13, <1>14

(* A sequence with one more entry at its head.                              *)
LEMMA PrependIs ==
    ASSUME NEW S, NEW s \in Seq(S), NEW d \in S
    PROVE  LET t == <<d>> \o s
           IN  /\ t \in Seq(S) /\ Len(t) = Len(s) + 1 /\ Len(s) \in Nat
               /\ DOMAIN s = 1..Len(s) /\ DOMAIN t = 1..(Len(s) + 1)
               /\ t[1] = d /\ 1 \in DOMAIN t
               /\ \A i \in DOMAIN s : i + 1 \in DOMAIN t /\ t[i + 1] = s[i]
               /\ \A i \in DOMAIN t :
                     i = 1 \/ (i - 1 \in DOMAIN s /\ t[i] = s[i - 1])
<1>1. Len(s) \in Nat /\ DOMAIN s = 1..Len(s)
  OBVIOUS
<1>2. <<d>> \in Seq(S) /\ Len(<<d>>) = 1 /\ <<d>>[1] = d
  OBVIOUS
<1> QED
  BY <1>1, <1>2, ConcatProperties

(* A sequence without its head.                                             *)
LEMMA TailIs ==
    ASSUME NEW S, NEW s \in Seq(S), s # <<>>
    PROVE  /\ Tail(s) \in Seq(S) /\ Len(Tail(s)) = Len(s) - 1
           /\ Len(s) \in Nat /\ Len(s) > 0
           /\ DOMAIN s = 1..Len(s) /\ DOMAIN Tail(s) = 1..(Len(s) - 1)
           /\ Head(s) = s[1] /\ 1 \in DOMAIN s /\ Head(s) \in S
           /\ \A i \in DOMAIN Tail(s) :
                 i + 1 \in DOMAIN s /\ Tail(s)[i] = s[i + 1]
           /\ \A i \in DOMAIN s :
                 i = 1 \/ (i - 1 \in DOMAIN Tail(s) /\ Tail(s)[i - 1] = s[i])
<1>1. Len(s) \in Nat /\ Len(s) > 0 /\ DOMAIN s = 1..Len(s)
  BY EmptySeq
<1>2. /\ Tail(s) \in Seq(S) /\ Len(Tail(s)) = Len(s) - 1
      /\ Head(s) = s[1] /\ Head(s) \in S
      /\ \A i \in 1..Len(Tail(s)) : Tail(s)[i] = s[i + 1]
  BY <1>1, HeadTailProperties
<1>3. DOMAIN Tail(s) = 1..(Len(s) - 1)
  BY <1>1, <1>2
<1>4. \A i \in DOMAIN s :
         i = 1 \/ (i - 1 \in DOMAIN Tail(s) /\ Tail(s)[i - 1] = s[i])
  <2> TAKE i \in DOMAIN s
  <2>1. i # 1 => i - 1 \in 1..(Len(s) - 1) /\ (i - 1) + 1 = i
    BY <1>1
  <2> QED
    BY <2>1, <1>2, <1>3
<1> QED
  BY <1>1, <1>2, <1>3, <1>4

-----------------------------------------------------------------------------
(* Who has what in hand.                                                    *)

(* The labels are told apart by which of their sets they are in.            *)
LEMMA LabelsAre ==
    /\ Spawning \subseteq Labels /\ Reaping \subseteq Labels
    /\ Spawning \cap Reaping = {}
    /\ Spawning = {"creating", "numbering", "numbered", "stacking", "stacked",
                   "created"}
    /\ Reaping = {"reaping", "unstacking", "unstacked", "unnumbering",
                  "unlinking"}
    /\ Labels = Spawning \cup Reaping
    /\ "linking" \notin Labels /\ InList = {"linking", "unlinking"}
    /\ Between = {"numbered", "stacking", "unstacked", "unnumbering"}
BY DEF Labels, Spawning, Reaping, InList, Between

(* A process has the descriptor in hand at its own label only.              *)
LEMMA HandHas ==
    ASSUME HandInv, NEW L, L \subseteq Labels, NEW p \in Hands
    PROVE  child[p] \in InHand(L) <=> pc[p] \in L
<1>1. ASSUME NEW q \in Proc, pc[q] \in L, child[p] = child[q]
      PROVE  p = q
  BY <1>1 DEF HandInv, Hands
<1> QED
  BY <1>1 DEF InHand, Hands

(* One process goes from label to label: what it had is no longer in hand,  *)
(* what it has is.                                                          *)
LEMMA HandMoves ==
    ASSUME HandInv, NEW L, L \subseteq Labels, NEW p \in Proc,
           \A q \in Proc \ {p} : /\ child'[q] = child[q]
                                 /\ pc'[q] \in L <=> pc[q] \in L
    PROVE  InHand(L)' =
              (InHand(L) \ (IF p \in Hands THEN {child[p]} ELSE {}))
                 \cup (IF pc'[p] \in L THEN {child'[p]} ELSE {})
<1>1. \A x : x \in InHand(L) <=> \E q \in Proc : pc[q] \in L /\ x = child[q]
  BY DEF InHand
<1>2. \A x : x \in InHand(L)' <=> \E q \in Proc : pc'[q] \in L /\ x = child'[q]
  BY DEF InHand
<1>3. \A q \in Proc : pc[q] \in L => q \in Hands
  BY DEF Hands
<1>4. \A q \in Proc : p \in Hands /\ pc[q] \in L /\ child[q] = child[p] => q = p
  BY <1>3 DEF HandInv
<1> QED
  BY <1>1, <1>2, <1>3, <1>4

(* So for all the sets that are spoken of. *)
LEMMA SetsMove ==
    ASSUME HandInv, NEW p \in Proc,
           \A q \in Proc \ {p} :
              /\ child'[q] = child[q]
              /\ pc'[q] = pc[q] \/ (pc[q] \notin Labels /\ pc'[q] \notin Labels)
    PROVE  LET was == IF p \in Hands THEN {child[p]} ELSE {}
               is(L) == IF pc'[p] \in L THEN {child'[p]} ELSE {}
           IN  /\ Half' = (Half \ was) \cup is(Spawning)
               /\ Taken' = (Taken \ was) \cup is(Reaping)
               /\ Raw' = (Raw \ was) \cup is({"creating", "numbering"})
               /\ Unlinking' = (Unlinking \ was) \cup is({"unlinking"})
               /\ Stackless' = (Stackless \ was)
                     \cup is({"creating", "numbering", "numbered", "stacking",
                              "unstacked", "unnumbering", "unlinking"})
<1>1. ASSUME NEW L, L \subseteq Labels
      PROVE  InHand(L)' =
                (InHand(L) \ (IF p \in Hands THEN {child[p]} ELSE {}))
                   \cup (IF pc'[p] \in L THEN {child'[p]} ELSE {})
  <2>1. \A q \in Proc \ {p} : /\ child'[q] = child[q]
                              /\ pc'[q] \in L <=> pc[q] \in L
    BY <1>1
  <2> QED
    BY <1>1, <2>1, HandMoves
<1>2. Half' = (Half \ (IF p \in Hands THEN {child[p]} ELSE {}))
                 \cup (IF pc'[p] \in Spawning THEN {child'[p]} ELSE {})
  BY <1>1, LabelsAre DEF Half
<1>3. Taken' = (Taken \ (IF p \in Hands THEN {child[p]} ELSE {}))
                 \cup (IF pc'[p] \in Reaping THEN {child'[p]} ELSE {})
  BY <1>1, LabelsAre DEF Taken
<1>4. Raw' = (Raw \ (IF p \in Hands THEN {child[p]} ELSE {}))
                 \cup (IF pc'[p] \in {"creating", "numbering"} THEN {child'[p]}
                                                              ELSE {})
  <2>1. {"creating", "numbering"} \subseteq Labels
    BY LabelsAre
  <2> QED
    BY <1>1, <2>1 DEF Raw
<1>5. Unlinking' = (Unlinking \ (IF p \in Hands THEN {child[p]} ELSE {}))
                 \cup (IF pc'[p] \in {"unlinking"} THEN {child'[p]} ELSE {})
  <2>1. {"unlinking"} \subseteq Labels
    BY LabelsAre
  <2> QED
    BY <1>1, <2>1 DEF Unlinking
<1>6. Stackless' = (Stackless \ (IF p \in Hands THEN {child[p]} ELSE {}))
                 \cup (IF pc'[p] \in {"creating", "numbering", "numbered",
                                     "stacking", "unstacked", "unnumbering",
                                     "unlinking"}
                         THEN {child'[p]} ELSE {})
  <2>1. {"creating", "numbering", "numbered", "stacking", "unstacked",
         "unnumbering", "unlinking"} \subseteq Labels
    BY LabelsAre
  <2> QED
    BY <1>1, <2>1 DEF Stackless
<1> QED
  BY <1>2, <1>3, <1>4, <1>5, <1>6

(* How the sets of descriptors are related. *)
LEMMA SetsAre ==
    ASSUME active \in Seq(Proc), Accounts
    PROVE  /\ Listed \subseteq Proc /\ Owner \subseteq Listed
           /\ Keeper \subseteq Listed /\ Made = Listed \ Half
           /\ Raw \subseteq Half /\ Unlinking \subseteq Taken
           /\ Half \subseteq Listed /\ Taken \subseteq Listed
           /\ Half \cap Taken = {}
           /\ \A q \in Raw \cup Taken : ~Alive(q) /\ q \notin Hands
           /\ Hands \subseteq Owner /\ Spawners \subseteq Hands
           /\ \A q \in Made : Alive(q) => q \in Owner
<1>1. Listed \subseteq Proc
  BY DEF Listed
<1>2. /\ Raw \subseteq Half /\ Unlinking \subseteq Taken
      /\ Spawners \subseteq Hands
  BY LabelsAre DEF Raw, Half, Unlinking, Taken, InHand, Spawners, Hands
<1>3. /\ \A x \in Half : \E p \in Hands : pc[p] \in Spawning /\ x = child[p]
      /\ \A x \in Taken : \E p \in Hands : pc[p] \in Reaping /\ x = child[p]
      /\ \A x \in Raw : \E p \in Hands :
            pc[p] \in {"creating", "numbering"} /\ x = child[p]
  BY LabelsAre DEF Half, Taken, Raw, InHand, Hands
<1>4. Half \subseteq Listed /\ Taken \subseteq Listed /\ Half \cap Taken = {}
  BY <1>3, LabelsAre DEF Accounts, HandInv
<1>5. \A q \in Raw \cup Taken : ~Alive(q)
  BY <1>3, LabelsAre DEF Accounts, HandInv
<1>6. Hands \subseteq Proc /\ \A q \in Hands : Alive(q)
  BY DEF Accounts, HandInv, Hands
<1>7. Hands \subseteq Owner /\ \A q \in Made : Alive(q) => q \in Owner
  BY <1>1, <1>6 DEF Accounts, AliveInv, Made
<1>8. Made = Listed \ Half
  BY DEF Made, Half
<1> QED
  BY <1>1, <1>2, <1>4, <1>5, <1>6, <1>7, <1>8 DEF Owner, Keeper

-----------------------------------------------------------------------------
(* The lists.                                                               *)

(* The first free pid goes to a descriptor that has none. *)
LEMMA PopPid ==
    ASSUME pids \in Seq(Pid), pids # <<>>, PidInv,
           pid \in [Proc -> Pid], Owner \subseteq Proc,
           NEW d \in Proc, d \notin Owner,
           pid' = [pid EXCEPT ![d] = Head(pids)], pids' = Tail(pids),
           Owner' = Owner \cup {d}
    PROVE  PidInv' /\ Len(pids') = Len(pids) - 1 /\ Len(pids) \in Nat
<1> DEFINE h == Head(pids)
           t == Tail(pids)
<1>1. /\ \A i \in DOMAIN t : /\ i + 1 \in DOMAIN pids /\ t[i] = pids[i + 1]
                             /\ i \in Nat /\ i > 0
      /\ \A i \in DOMAIN pids : i = 1 \/ \E j \in DOMAIN t : t[j] = pids[i]
      /\ h = pids[1] /\ 1 \in DOMAIN pids
  <2>1. /\ DOMAIN t = 1..(Len(pids) - 1) /\ Len(pids) \in Nat
        /\ h = pids[1] /\ 1 \in DOMAIN pids
        /\ \A i \in DOMAIN t : i + 1 \in DOMAIN pids /\ t[i] = pids[i + 1]
    BY TailIs
  <2>2. \A i \in DOMAIN pids :
           i = 1 \/ (i - 1 \in DOMAIN t /\ t[i - 1] = pids[i])
    BY TailIs
  <2> HIDE DEF h, t
  <2>3. \A i \in DOMAIN t : i \in Nat /\ i > 0
    BY <2>1
  <2> QED
    BY <2>1, <2>2, <2>3
<1>a. Len(pids') = Len(pids) - 1 /\ Len(pids) \in Nat
  BY TailIs
<1>b. pid'[d] = h /\ pids' = t /\ \A q \in Owner : pid'[q] = pid[q]
  OBVIOUS
<1> HIDE DEF h, t
<1>2. /\ \A i, j \in DOMAIN pids : pids[i] = pids[j] => i = j
      /\ \A q, r \in Owner : pid[q] = pid[r] => q = r
      /\ \A q \in Owner, i \in DOMAIN pids : pid[q] # pids[i]
      /\ \A u \in Pid : \/ \E q \in Owner : pid[q] = u
                        \/ \E i \in DOMAIN pids : pids[i] = u
  BY DEF PidInv
<1>5. \A i, j \in DOMAIN t : t[i] = t[j] => i = j
  BY <1>1, <1>2
<1>6. \A i \in DOMAIN t : t[i] # h
  BY <1>1, <1>2
<1>7. \A q, r \in Owner \cup {d} : pid'[q] = pid'[r] => q = r
  BY <1>1, <1>2, <1>b
<1>8. \A q \in Owner \cup {d}, i \in DOMAIN t : pid'[q] # t[i]
  BY <1>1, <1>2, <1>b, <1>6
<1>9. \A u \in Pid : \/ \E q \in Owner \cup {d} : pid'[q] = u
                     \/ \E i \in DOMAIN t : t[i] = u
  BY <1>1, <1>2, <1>b
<1>10. /\ \A i, j \in DOMAIN pids' : pids'[i] = pids'[j] => i = j
       /\ \A q, r \in Owner' : pid'[q] = pid'[r] => q = r
       /\ \A q \in Owner', i \in DOMAIN pids' : pid'[q] # pids'[i]
  BY <1>b, <1>5, <1>7, <1>8
<1>11. \A u \in Pid : \/ \E q \in Owner' : pid'[q] = u
                      \/ \E i \in DOMAIN pids' : pids'[i] = u
  BY <1>b, <1>9
<1> QED
  BY <1>a, <1>10, <1>11 DEF PidInv, Pid

(* A pid is given back. *)
LEMMA PushPid ==
    ASSUME pids \in Seq(Pid), PidInv, pid \in [Proc -> Pid],
           NEW d \in Proc, d \in Owner, pid' = pid, FreePid(d),
           Owner' = Owner \ {d}
    PROVE  PidInv' /\ Len(pids') = Len(pids) + 1 /\ Len(pids) \in Nat
<1>1. /\ DOMAIN pids' \subseteq Int /\ DOMAIN pids \subseteq Int
      /\ \A i \in DOMAIN pids' : \/ i = 1 /\ pids'[i] = pid[d]
                                 \/ i - 1 \in DOMAIN pids
                                       /\ pids'[i] = pids[i - 1]
      /\ 1 \in DOMAIN pids' /\ pids'[1] = pid[d]
      /\ \A i \in DOMAIN pids : i + 1 \in DOMAIN pids'
                                   /\ pids'[i + 1] = pids[i]
      /\ Len(pids') = Len(pids) + 1 /\ Len(pids) \in Nat
  <2>1. pid[d] \in Pid /\ pids' = <<pid[d]>> \o pids
    BY DEF FreePid
  <2> QED
    BY <2>1, PrependIs
<1>2. /\ \A i, j \in DOMAIN pids : pids[i] = pids[j] => i = j
      /\ \A q, r \in Owner : pid[q] = pid[r] => q = r
      /\ \A q \in Owner, i \in DOMAIN pids : pid[q] # pids[i]
      /\ \A u \in Pid : \/ \E q \in Owner : pid[q] = u
                        \/ \E i \in DOMAIN pids : pids[i] = u
  BY DEF PidInv
<1>3. \A i, j \in DOMAIN pids' : pids'[i] = pids'[j] => i = j
  <2> TAKE i, j \in DOMAIN pids'
  <2> HAVE pids'[i] = pids'[j]
  <2>1. CASE i = 1 /\ pids'[i] = pid[d]
    BY <2>1, <1>1, <1>2
  <2>2. CASE i - 1 \in DOMAIN pids /\ pids'[i] = pids[i - 1]
    <3>1. pids'[i] # pid[d]
      BY <2>2, <1>2
    <3>2. j - 1 \in DOMAIN pids /\ pids'[j] = pids[j - 1]
      BY <3>1, <1>1
    <3>3. i - 1 = j - 1
      BY <2>2, <3>2, <1>2
    <3> QED
      BY <3>3, <1>1
  <2> QED
    BY <2>1, <2>2, <1>1
<1>4. \A q \in Owner \ {d}, i \in DOMAIN pids' : pid[q] # pids'[i]
  BY <1>1, <1>2
<1>5. \A u \in Pid : \/ \E q \in Owner \ {d} : pid[q] = u
                     \/ \E i \in DOMAIN pids' : pids'[i] = u
  BY <1>1, <1>2
<1> QED
  BY <1>1, <1>2, <1>3, <1>4, <1>5 DEF PidInv

(* The first free kernel stack goes to a descriptor that has none. *)
LEMMA PopStack ==
    ASSUME stacks \in Seq(Stack \cup {Wild}), stacks # <<>>, StackInv,
           kstack \in [Proc -> Stack \cup {Wild}], Keeper \subseteq Proc,
           NEW d \in Proc, d \notin Keeper,
           kstack' = [kstack EXCEPT ![d] = Head(stacks)],
           stacks' = Tail(stacks), Keeper' = Keeper \cup {d}
    PROVE  StackInv' /\ Len(stacks') = Len(stacks) - 1 /\ Len(stacks) \in Nat
<1> DEFINE h == Head(stacks)
           t == Tail(stacks)
<1>1. /\ \A i \in DOMAIN t : /\ i + 1 \in DOMAIN stacks
                             /\ t[i] = stacks[i + 1] /\ i \in Nat /\ i > 0
      /\ h = stacks[1] /\ 1 \in DOMAIN stacks
      /\ Len(t) = Len(stacks) - 1 /\ Len(stacks) \in Nat
  BY TailIs
<1>2. kstack'[d] = h /\ stacks' = t /\ \A q \in Keeper : kstack'[q] = kstack[q]
  OBVIOUS
<1> HIDE DEF h, t
<1>3. /\ \A i, j \in DOMAIN stacks :
            stacks[i] = stacks[j] => i = j \/ stacks[i] = Wild
      /\ \A q, r \in Keeper :
            kstack[q] = kstack[r] => q = r \/ kstack[q] = Wild
      /\ \A q \in Keeper, i \in DOMAIN stacks :
            kstack[q] = stacks[i] => kstack[q] = Wild
  BY DEF StackInv
<1>4. \A i, j \in DOMAIN t : t[i] = t[j] => i = j \/ t[i] = Wild
  BY <1>1, <1>3
<1>5. \A i \in DOMAIN t : t[i] = h => h = Wild
  BY <1>1, <1>3
<1>6. \A q, r \in Keeper \cup {d} :
         kstack'[q] = kstack'[r] => q = r \/ kstack'[q] = Wild
  BY <1>1, <1>2, <1>3
<1>7. \A q \in Keeper \cup {d}, i \in DOMAIN t :
         kstack'[q] = t[i] => kstack'[q] = Wild
  BY <1>1, <1>2, <1>3, <1>5
<1> QED
  BY <1>1, <1>2, <1>4, <1>6, <1>7 DEF StackInv

(* A kernel stack is given back, or what is taken for it. *)
LEMMA PushStack ==
    ASSUME stacks \in Seq(Stack \cup {Wild}), StackInv,
           kstack \in [Proc -> Stack \cup {Wild}],
           NEW d \in Proc, d \in Keeper, kstack' = kstack, FreeStack(d),
           Keeper' = Keeper \ {d}
    PROVE  /\ StackInv' /\ Len(stacks') = Len(stacks) + 1
           /\ Len(stacks) \in Nat /\ stacks' \in Seq(Stack \cup {Wild})
<1> DEFINE k == StackOf(d)
           T == Stack \cup {Wild}
<1>1. k = kstack[d] \/ k = Wild
  BY DEF StackOf
<1>2. k \in T /\ stacks \in Seq(T) /\ stacks' = <<k>> \o stacks
  BY DEF StackOf, FreeStack
<1> HIDE DEF k, T
<1>3. /\ DOMAIN stacks' \subseteq Int /\ DOMAIN stacks \subseteq Int
      /\ \A i \in DOMAIN stacks' : \/ i = 1 /\ stacks'[i] = k
                                   \/ i - 1 \in DOMAIN stacks
                                         /\ stacks'[i] = stacks[i - 1]
      /\ Len(stacks') = Len(stacks) + 1 /\ Len(stacks) \in Nat
      /\ stacks' \in Seq(T)
  BY <1>2, PrependIs
<1>4. /\ \A i, j \in DOMAIN stacks :
            stacks[i] = stacks[j] => i = j \/ stacks[i] = Wild
      /\ \A q, r \in Keeper :
            kstack[q] = kstack[r] => q = r \/ kstack[q] = Wild
      /\ \A q \in Keeper, i \in DOMAIN stacks :
            kstack[q] = stacks[i] => kstack[q] = Wild
  BY DEF StackInv
<1>5. \A i, j \in DOMAIN stacks' :
         stacks'[i] = stacks'[j] => i = j \/ stacks'[i] = Wild
  <2> TAKE i, j \in DOMAIN stacks'
  <2> HAVE stacks'[i] = stacks'[j]
  <2>1. CASE i = 1 /\ stacks'[i] = k
    BY <2>1, <1>1, <1>3, <1>4
  <2>2. CASE i - 1 \in DOMAIN stacks /\ stacks'[i] = stacks[i - 1]
    <3>1. stacks'[i] = Wild \/ stacks'[i] # k
      BY <2>2, <1>1, <1>4
    <3>2. CASE stacks'[i] # k
      <4>1. j - 1 \in DOMAIN stacks /\ stacks'[j] = stacks[j - 1]
        BY <3>2, <1>3
      <4>2. i - 1 = j - 1 \/ stacks'[i] = Wild
        BY <2>2, <4>1, <1>4
      <4> QED
        BY <4>2, <1>3
    <3> QED
      BY <3>1, <3>2
  <2> QED
    BY <2>1, <2>2, <1>3
<1>6. \A q \in Keeper \ {d}, i \in DOMAIN stacks' :
         kstack[q] = stacks'[i] => kstack[q] = Wild
  BY <1>1, <1>3, <1>4
<1> QED
  BY <1>3, <1>4, <1>5, <1>6 DEF StackInv, T

(* A descriptor goes from the active list to the free list. *)
LEMMA Unlinks ==
    ASSUME active \in Seq(Proc), free \in Seq(Proc), ListInv,
           NEW d \in Listed, d \in Proc, FreeProcess(d)
    PROVE  ListInv' /\ Listed' = Listed \ {d}
<1>1. active' = Unlinked(d) /\ free' = <<d>> \o free
  BY DEF FreeProcess
<1>2. /\ Listed' = Listed \ {d}
      /\ \A i, j \in DOMAIN active' : active'[i] = active'[j] => i = j
  <2>1. /\ \A p : p \in Listed \ {d} <=> \E i \in DOMAIN active' : active'[i] = p
        /\ \A i, j \in DOMAIN active' : active'[i] = active'[j] => i = j
    BY <1>1, UnlinkedIs
  <2>2. \A p : p \in Listed' <=> \E i \in DOMAIN active' : active'[i] = p
    BY DEF Listed
  <2> QED
    BY <2>1, <2>2
<1>3. /\ DOMAIN free' \subseteq Int /\ DOMAIN free \subseteq Int
      /\ \A i \in DOMAIN free' : \/ i = 1 /\ free'[i] = d
                                 \/ i - 1 \in DOMAIN free
                                       /\ free'[i] = free[i - 1]
  BY <1>1, PrependIs
<1>4. /\ \A i, j \in DOMAIN free : free[i] = free[j] => i = j
      /\ \A i \in DOMAIN free : free[i] \notin Listed
  BY DEF ListInv
<1>5. \A i, j \in DOMAIN free' : free'[i] = free'[j] => i = j
  <2> TAKE i, j \in DOMAIN free'
  <2> HAVE free'[i] = free'[j]
  <2>1. CASE i = 1 /\ free'[i] = d
    BY <2>1, <1>3, <1>4
  <2>2. CASE i - 1 \in DOMAIN free /\ free'[i] = free[i - 1]
    <3>1. free'[i] # d
      BY <2>2, <1>4
    <3>2. j - 1 \in DOMAIN free /\ free'[j] = free[j - 1]
      BY <3>1, <1>3
    <3>3. i - 1 = j - 1
      BY <2>2, <3>2, <1>4
    <3> QED
      BY <3>3, <1>3
  <2> QED
    BY <2>1, <2>2, <1>3
<1>6. \A i \in DOMAIN free' : free'[i] \notin Listed'
  BY <1>3, <1>4, <1>2
<1> QED
  BY <1>2, <1>5, <1>6 DEF ListInv

(* One stack more than pids is free for a process that comes in between,    *)
(* with a pid and no stack, or no longer one.                               *)
LEMMA CountUp ==
    ASSUME CountInv, NEW p, p \notin Excess, Excess' = Excess \cup {p},
           Len(pids) \in Nat, Len(pids') \in Nat,
           Len(stacks') - Len(pids') = Len(stacks) - Len(pids) + 1,
           Len(stacks) \in Nat, Len(stacks') \in Nat
    PROVE  CountInv'
<1>1. IsFiniteSet(Excess) /\ Cardinality(Excess) \in Nat
  BY FS_CardinalityType DEF CountInv
<1>2. /\ IsFiniteSet(Excess \cup {p})
      /\ Cardinality(Excess \cup {p}) = Cardinality(Excess) + 1
  BY <1>1, FS_AddElement
<1> QED
  BY <1>1, <1>2 DEF CountInv

(* One stack less is, for a process that is through.                        *)
LEMMA CountDown ==
    ASSUME CountInv, NEW p, p \in Excess, Excess' = Excess \ {p},
           Len(pids) \in Nat, Len(pids') \in Nat,
           Len(stacks') - Len(pids') = Len(stacks) - Len(pids) - 1,
           Len(stacks) \in Nat, Len(stacks') \in Nat
    PROVE  CountInv'
<1>1. IsFiniteSet(Excess) /\ Cardinality(Excess) \in Nat
  BY FS_CardinalityType DEF CountInv
<1>2. /\ IsFiniteSet(Excess \ {p})
      /\ Cardinality(Excess \ {p}) = Cardinality(Excess) - 1
  BY <1>1, FS_RemoveElement
<1> QED
  BY <1>1, <1>2 DEF CountInv

-----------------------------------------------------------------------------
(* The accounts of descriptors, pids and stacks.                            *)

(* Who has the lock takes it with him from label to label.                  *)
LEMMA LockStays ==
    ASSUME LockInv,
           \A p \in Proc : pc'[p] \in Reaping \cup InList
                              => pc[p] \in Reaping \cup InList
    PROVE  LockInv'
BY DEF LockInv

(* Who finds it free may take it.                                           *)
LEMMA LockTaken ==
    ASSUME ~Locked, NEW p \in Proc, \A q \in Proc \ {p} : pc'[q] = pc[q]
    PROVE  LockInv'
BY DEF LockInv, Locked

(* A process dies, sleeps, wakes or goes on, and owns what it owned.       *)
LEMMA CalmKeeps ==
    ASSUME TypeOK, Accounts, UNCHANGED <<listVars, pid, kstack, child>>,
           \A p \in Proc : state'[p] # "ZOMBIE" => Alive(p),
           \A p \in Proc : \/ pc'[p] = pc[p]
                           \/ pc[p] \notin Labels /\ pc'[p] \notin Labels,
           \A p \in Hands : state'[p] # "ZOMBIE",
           LockInv'
    PROVE  /\ Accounts' /\ Listed' = Listed /\ Raw' = Raw /\ Owner' = Owner
           /\ Made' = Made /\ Taken' = Taken /\ Unlinking' = Unlinking
           /\ Spawners' = Spawners /\ Hands' = Hands
<1>1. Listed' = Listed
  BY DEF Listed, listVars
<1>2. ASSUME NEW L, L \subseteq Labels
      PROVE  InHand(L)' = InHand(L) /\ \A p \in Proc : pc'[p] \in L <=> pc[p] \in L
  <2>1. \A p \in Proc : pc'[p] \in L <=> pc[p] \in L
    BY <1>2
  <2> QED
    BY <2>1 DEF InHand
<1>3. /\ Half' = Half /\ Taken' = Taken /\ Raw' = Raw /\ Unlinking' = Unlinking
      /\ Stackless' = Stackless
  <2>1. /\ {"creating", "numbering"} \subseteq Labels
        /\ {"unlinking"} \subseteq Labels
        /\ {"creating", "numbering", "numbered", "stacking", "unstacked",
            "unnumbering", "unlinking"} \subseteq Labels
        /\ Spawning \subseteq Labels /\ Reaping \subseteq Labels
    BY LabelsAre
  <2> QED
    BY <2>1, <1>2 DEF Half, Taken, Raw, Unlinking, Stackless
<1>4. Made' = Made /\ Owner' = Owner /\ Keeper' = Keeper
  BY <1>1, <1>3 DEF Made, Half, Owner, Keeper
<1>5. Spawners' = Spawners /\ Hands' = Hands /\ Excess' = Excess
  <2>1. Spawning \subseteq Labels /\ Between \subseteq Labels
    BY LabelsAre
  <2> QED
    BY <2>1, <1>2 DEF Spawners, Hands, Excess
<1>6. ListInv' /\ PidInv' /\ StackInv' /\ CountInv'
  BY <1>1, <1>4, <1>5
     DEF Accounts, ListInv, PidInv, StackInv, CountInv, listVars
<1>7. AliveInv'
  BY <1>4 DEF Accounts, AliveInv, Alive
<1>8. HandInv'
  <2>1. \A p \in Hands : pc'[p] = pc[p] /\ child'[p] = child[p] /\ p \in Proc
    BY DEF Hands
  <2>2. \A p \in Hands : child[p] \in Proc
    BY DEF TypeOK, Accounts, HandInv, Listed
  <2> QED
    BY <1>1, <1>5, <2>1, <2>2 DEF Accounts, HandInv, Alive
<1> QED
  BY <1>1, <1>3, <1>4, <1>5, <1>6, <1>7, <1>8 DEF Accounts

(* A process goes on to the next part, with the same descriptor in hand.    *)
LEMMA PartKeeps ==
    ASSUME TypeOK, Accounts, NEW p \in Hands, NEW b \in Labels,
           pc' = [pc EXCEPT ![p] = b], UNCHANGED <<active, free, state, child>>,
           pc[p] # "created", b # "created",
           b \in Reaping <=> pc[p] \in Reaping,
           NEW d, d = child[p]
    PROVE  /\ ListInv' /\ AliveInv' /\ HandInv' /\ LockInv'
           /\ Listed' = Listed /\ Made' = Made /\ Taken' = Taken
           /\ Spawners' = Spawners /\ Hands' = Hands
           /\ d \in Listed /\ d \in Proc /\ ~Alive(d) /\ d \notin Hands
           /\ Owner' = IF b \in {"creating", "numbering", "unlinking"}
                         THEN Owner \ {d} ELSE Owner \cup {d}
           /\ d \in Owner <=> pc[p] \notin {"creating", "numbering", "unlinking"}
           /\ Keeper' = IF b \in {"creating", "numbering", "numbered", "stacking",
                                  "unstacked", "unnumbering", "unlinking"}
                          THEN Keeper \ {d} ELSE Keeper \cup {d}
           /\ d \in Keeper <=>
                 pc[p] \notin {"creating", "numbering", "numbered", "stacking",
                               "unstacked", "unnumbering", "unlinking"}
           /\ Unlinking' = IF b = "unlinking" THEN Unlinking \cup {d}
                                              ELSE Unlinking \ {d}
           /\ Excess' = IF b \in Between THEN Excess \cup {p} ELSE Excess \ {p}
<1>1. /\ p \in Proc /\ pc[p] \in Labels /\ pc'[p] = b /\ child' = child
      /\ \A q \in Proc \ {p} : pc'[q] = pc[q] /\ child'[q] = child[q]
      /\ b \in Spawning <=> pc[p] \in Spawning
  BY LabelsAre DEF Hands, TypeOK
<1>2. d \in Listed /\ d \in Proc /\ ~Alive(d) /\ d \notin Hands
  BY DEF TypeOK, Accounts, HandInv, Listed
<1>3. /\ Listed' = Listed /\ Hands' = Hands /\ Spawners' = Spawners
      /\ ListInv'
  BY <1>1 DEF Listed, Hands, Spawners, Accounts, ListInv
<1>4. /\ Half' = (Half \ {d}) \cup (IF b \in Spawning THEN {d} ELSE {})
      /\ Taken' = (Taken \ {d}) \cup (IF b \in Reaping THEN {d} ELSE {})
      /\ Raw' = (Raw \ {d})
            \cup (IF b \in {"creating", "numbering"} THEN {d} ELSE {})
      /\ Unlinking' = (Unlinking \ {d})
            \cup (IF b \in {"unlinking"} THEN {d} ELSE {})
      /\ Stackless' = (Stackless \ {d})
            \cup (IF b \in {"creating", "numbering", "numbered", "stacking",
                            "unstacked", "unnumbering", "unlinking"}
                    THEN {d} ELSE {})
  BY <1>1, SetsMove DEF Accounts
<1>5. ASSUME NEW L, L \subseteq Labels
      PROVE  d \in InHand(L) <=> pc[p] \in L
  BY <1>5, HandHas DEF Accounts
<1>6. /\ d \in Half <=> pc[p] \in Spawning
      /\ d \in Taken <=> pc[p] \in Reaping
      /\ d \in Raw <=> pc[p] \in {"creating", "numbering"}
      /\ d \in Unlinking <=> pc[p] = "unlinking"
      /\ d \in Stackless <=>
            pc[p] \in {"creating", "numbering", "numbered", "stacking",
                       "unstacked", "unnumbering", "unlinking"}
  <2>1. /\ {"creating", "numbering"} \subseteq Labels
        /\ {"unlinking"} \subseteq Labels
        /\ {"creating", "numbering", "numbered", "stacking", "unstacked",
            "unnumbering", "unlinking"} \subseteq Labels
        /\ Spawning \subseteq Labels /\ Reaping \subseteq Labels
    BY LabelsAre
  <2> QED
    BY <2>1, <1>5 DEF Half, Taken, Raw, Unlinking, Stackless
<1>7. Made' = Made /\ Taken' = Taken
  BY <1>1, <1>3, <1>4, <1>6 DEF Made, Half
<1>8. /\ Owner' = IF b \in {"creating", "numbering", "unlinking"}
                    THEN Owner \ {d} ELSE Owner \cup {d}
      /\ d \in Owner <=> pc[p] \notin {"creating", "numbering", "unlinking"}
  BY <1>2, <1>3, <1>4, <1>6 DEF Owner
<1>9. /\ Keeper' = IF b \in {"creating", "numbering", "numbered", "stacking",
                             "unstacked", "unnumbering", "unlinking"}
                     THEN Keeper \ {d} ELSE Keeper \cup {d}
      /\ d \in Keeper <=>
            pc[p] \notin {"creating", "numbering", "numbered", "stacking",
                          "unstacked", "unnumbering", "unlinking"}
  BY <1>2, <1>3, <1>4, <1>6 DEF Keeper
<1>10. Excess' = IF b \in Between THEN Excess \cup {p} ELSE Excess \ {p}
  BY <1>1 DEF Excess
<1>11. AliveInv'
  BY <1>2, <1>8 DEF Accounts, AliveInv, Alive
<1>12. HandInv'
  <2>1. \A q \in Hands : pc'[q] # "created" => pc[q] # "created"
    BY <1>1 DEF Hands
  <2> QED
    BY <2>1, <1>1, <1>3 DEF Accounts, HandInv, Alive
<1>13. LockInv'
  <2>1. pc'[p] \in Reaping \cup InList => pc[p] \in Reaping \cup InList
    BY <1>1, LabelsAre
  <2> QED
    BY <2>1, <1>1, LockStays DEF Accounts
<1> QED
  BY <1>2, <1>3, <1>4, <1>7, <1>8, <1>9, <1>10, <1>11, <1>12, <1>13

(* In front of a list or inside of it, the accounts are the same.           *)
LEMMA BeginKeeps ==
    ASSUME TypeOK, Accounts, NEW p \in Proc, BeginList(p)
    PROVE  /\ Accounts' /\ Owner' = Owner /\ Made' = Made /\ Taken' = Taken
           /\ Unlinking' = Unlinking /\ Spawners' = Spawners
<1> DEFINE b == Begins[pc[p]]
           d == child[p]
<1>1. /\ \/ pc[p] = "creating" /\ b = "numbering"
         \/ pc[p] = "numbered" /\ b = "stacking"
         \/ pc[p] = "reaping" /\ b = "unstacking"
         \/ pc[p] = "unstacked" /\ b = "unnumbering"
      /\ pc' = [pc EXCEPT ![p] = b]
      /\ UNCHANGED <<active, free, pids, stacks, state, pid, kstack, child>>
  BY DEF BeginList, Begins, Goto, listVars
<1> HIDE DEF b, d
<1>2. /\ p \in Hands /\ b \in Labels /\ pc[p] # "created" /\ b # "created"
      /\ b \in Reaping <=> pc[p] \in Reaping
  BY <1>1, LabelsAre DEF Hands
<1>3. /\ ListInv' /\ AliveInv' /\ HandInv' /\ LockInv'
      /\ Made' = Made /\ Taken' = Taken /\ Spawners' = Spawners
      /\ Owner' = (IF b \in {"creating", "numbering", "unlinking"}
                     THEN Owner \ {d} ELSE Owner \cup {d})
      /\ d \in Owner <=> pc[p] \notin {"creating", "numbering", "unlinking"}
      /\ Keeper' = (IF b \in {"creating", "numbering", "numbered", "stacking",
                             "unstacked", "unnumbering", "unlinking"}
                     THEN Keeper \ {d} ELSE Keeper \cup {d})
      /\ d \in Keeper <=>
            pc[p] \notin {"creating", "numbering", "numbered", "stacking",
                          "unstacked", "unnumbering", "unlinking"}
      /\ Unlinking' = (IF b = "unlinking" THEN Unlinking \cup {d}
                                         ELSE Unlinking \ {d})
      /\ Excess' = (IF b \in Between THEN Excess \cup {p} ELSE Excess \ {p})
  BY <1>1, <1>2, PartKeeps DEF d
<1>4. Owner' = Owner /\ Keeper' = Keeper
  BY <1>1, <1>3
<1>5. Excess' = Excess
  <2>1. p \in Excess <=> pc[p] \in Between
    BY <1>2 DEF Excess, Hands
  <2> QED
    BY <2>1, <1>1, <1>3, LabelsAre
<1>6. Unlinking' = Unlinking
  <2>1. d \in Unlinking <=> pc[p] = "unlinking"
    <3>1. {"unlinking"} \subseteq Labels
      BY LabelsAre
    <3> QED
      BY <3>1, <1>2, HandHas DEF Accounts, Unlinking, d
  <2> QED
    BY <2>1, <1>1, <1>3
<1>7. PidInv' /\ StackInv' /\ CountInv'
  BY <1>1, <1>4, <1>5 DEF Accounts, PidInv, StackInv, CountInv
<1> QED
  BY <1>3, <1>4, <1>6, <1>7 DEF Accounts

(* A descriptor is listed, which owns nothing yet.                          *)
LEMMA AllocKeeps ==
    ASSUME TypeOK, Accounts, NEW p \in Proc, NEW d \in Proc, AllocProcess(p, d)
    PROVE  /\ Accounts' /\ d \notin Listed /\ Listed' = Listed \cup {d}
           /\ Owner' = Owner /\ Made' = Made /\ Taken' = {} /\ Unlinking' = {}
<1>1. /\ active \in Seq(Proc) /\ free \in Seq(Proc)
      /\ child \in [Proc -> Proc \cup {NoProc}]
      /\ active' = <<d>> \o active
      /\ child' = [child EXCEPT ![p] = d]
      /\ pc' = [pc EXCEPT ![p] = "creating"]
      /\ pc[p] = "linking" /\ state[p] = "READY"
      /\ p \notin Hands
      /\ UNCHANGED <<pids, stacks, state, pid, kstack>>
      /\ \A q \in Proc \ {p} : child'[q] = child[q] /\ pc'[q] = pc[q]
      /\ child'[p] = d /\ pc'[p] = "creating"
  BY LabelsAre DEF TypeOK, AllocProcess, At, Goto, Hands
<1>2. /\ d \notin Listed
      /\ \A i, j \in DOMAIN free' : free'[i] = free'[j] => i = j
      /\ \A i \in DOMAIN free' : free'[i] \notin Listed /\ free'[i] # d
  <2>1. CASE free = <<>>
    BY <2>1 DEF AllocProcess
  <2>2. CASE free # <<>>
    <3>1. d = Head(free) /\ free' = Tail(free)
      BY <2>2 DEF AllocProcess
    <3> QED
      BY <2>2, <3>1, <1>1, TailIs DEF Accounts, ListInv
  <2> QED
    BY <2>1, <2>2
<1>3. Listed' = Listed \cup {d}
  <2>1. /\ \A i \in DOMAIN active' : active'[i] = d \/ active'[i] \in Listed
        /\ \E i \in DOMAIN active' : active'[i] = d
        /\ \A i \in DOMAIN active :
              i + 1 \in DOMAIN active' /\ active'[i + 1] = active[i]
    <3>1. /\ \A i \in DOMAIN active' :
                i = 1 \/ (i - 1 \in DOMAIN active /\ active'[i] = active[i - 1])
          /\ active'[1] = d /\ 1 \in DOMAIN active'
          /\ \A i \in DOMAIN active :
                i + 1 \in DOMAIN active' /\ active'[i + 1] = active[i]
      BY <1>1, PrependIs
    <3> QED
      BY <3>1 DEF Listed
  <2>2. \A q : q \in Listed' <=> \E i \in DOMAIN active' : active'[i] = q
    BY DEF Listed
  <2>3. \A q : q \in Listed <=> \E i \in DOMAIN active : active[i] = q
    BY DEF Listed
  <2> QED
    BY <2>1, <2>2, <2>3
<1>4. ListInv'
  <2>1. \A i, j \in DOMAIN active' : active'[i] = active'[j] => i = j
    <3> TAKE i, j \in DOMAIN active'
    <3> HAVE active'[i] = active'[j]
    <3>1. /\ DOMAIN active' \subseteq Int /\ active'[1] = d
          /\ i = 1 \/ (i - 1 \in DOMAIN active /\ active'[i] = active[i - 1])
          /\ j = 1 \/ (j - 1 \in DOMAIN active /\ active'[j] = active[j - 1])
      BY <1>1, PrependIs
    <3>2. \A k \in DOMAIN active : active[k] # d
      BY <1>2 DEF Listed
    <3>3. \A k, l \in DOMAIN active : active[k] = active[l] => k = l
      BY DEF Accounts, ListInv
    <3> QED
      BY <3>1, <3>2, <3>3
  <2> QED
    BY <2>1, <1>2, <1>3 DEF ListInv
<1>5. p \in Owner /\ d # p /\ ~Alive(d)
  BY <1>1, <1>2, SetsAre DEF Accounts, AliveInv, Alive
<1>6. /\ Half' = Half \cup {d} /\ Taken' = Taken /\ Raw' = Raw \cup {d}
      /\ Unlinking' = Unlinking /\ Stackless' = Stackless \cup {d}
      /\ Hands' = Hands \cup {p} /\ Excess' = Excess
  <2> DEFINE was == IF p \in Hands THEN {child[p]} ELSE {}
             is(L) == IF pc'[p] \in L THEN {child'[p]} ELSE {}
  <2>0. /\ Half' = (Half \ was) \cup is(Spawning)
        /\ Taken' = (Taken \ was) \cup is(Reaping)
        /\ Raw' = (Raw \ was) \cup is({"creating", "numbering"})
        /\ Unlinking' = (Unlinking \ was) \cup is({"unlinking"})
        /\ Stackless' = (Stackless \ was)
              \cup is({"creating", "numbering", "numbered", "stacking",
                       "unstacked", "unnumbering", "unlinking"})
    BY <1>1, SetsMove DEF Accounts
  <2>1. was = {} /\ \A L : is(L) = IF "creating" \in L THEN {d} ELSE {}
    BY <1>1
  <2>2. Hands' = Hands \cup {p} /\ Excess' = Excess
    BY <1>1, LabelsAre DEF Hands, Excess
  <2> HIDE DEF was, is
  <2> QED
    BY <2>0, <2>1, <2>2, LabelsAre
<1>7. Taken = {} /\ Unlinking = {}
  <2>1. \A q \in Proc : pc[q] \notin Reaping
    BY <1>1, LabelsAre DEF Accounts, LockInv
  <2>2. Taken = {}
    BY <2>1 DEF Taken, InHand
  <2> QED
    BY <2>2, SetsAre DEF TypeOK
<1>8. Owner' = Owner /\ Made' = Made /\ Keeper' = Keeper
  <2>1. Made' = Listed' \ Half' /\ Made = Listed \ Half
    BY DEF Made, Half
  <2> QED
    BY <2>1, <1>2, <1>3, <1>6, SetsAre DEF Owner, Keeper, TypeOK
<1>9. AliveInv' /\ PidInv' /\ StackInv' /\ CountInv'
  BY <1>1, <1>6, <1>8
     DEF Accounts, AliveInv, PidInv, StackInv, CountInv, Alive
<1>10. HandInv'
  <2>1. \A q \in Hands : /\ Alive(q) /\ child[q] \in Listed /\ child[q] # q
                         /\ q \in Proc \ {p} /\ child'[q] = child[q]
                         /\ pc'[q] = pc[q]
    BY <1>1 DEF Accounts, HandInv, Hands
  <2>2. Alive(p) /\ state' = state
    BY <1>1 DEF Alive
  <2> QED
    BY <1>1, <1>2, <1>3, <1>5, <1>6, <2>1, <2>2 DEF Accounts, HandInv, Alive
<1>11. LockInv'
  BY <1>1, LabelsAre, LockStays DEF Accounts
<1> QED
  BY <1>2, <1>3, <1>4, <1>6, <1>7, <1>8, <1>9, <1>10, <1>11 DEF Accounts

(* proc_create gives the descriptor a pid of its own, ...                   *)
LEMMA TakePidKeeps ==
    ASSUME TypeOK, Accounts, NEW p \in Proc, TakePid(p), NEW d, d = child[p]
    PROVE  /\ Accounts' /\ d \in Proc /\ d \notin Owner /\ d \notin Taken
           /\ Owner' = Owner \cup {d} /\ Made' = Made /\ Taken' = Taken
           /\ Unlinking' = Unlinking /\ Spawners' = Spawners
<1>1. /\ pids # <<>> /\ pc[p] = "numbering"
      /\ pid' = [pid EXCEPT ![d] = Head(pids)] /\ pids' = Tail(pids)
      /\ pc' = [pc EXCEPT ![p] = "numbered"]
      /\ UNCHANGED <<active, free, stacks, state, kstack, child>>
  BY DEF TakePid, At, Goto
<1>2. /\ p \in Hands /\ "numbered" \in Labels
      /\ "numbered" \in Reaping <=> pc[p] \in Reaping
  BY <1>1, LabelsAre DEF Hands
<1>3. /\ ListInv' /\ AliveInv' /\ HandInv' /\ LockInv'
      /\ Made' = Made /\ Taken' = Taken /\ Spawners' = Spawners
      /\ d \in Proc /\ Owner' = Owner \cup {d} /\ d \notin Owner
      /\ Keeper' = Keeper \ {d} /\ d \notin Keeper
      /\ Unlinking' = Unlinking \ {d}
      /\ Excess' = Excess \cup {p}
  BY <1>1, <1>2, PartKeeps DEF Between
<1>4. d \notin Taken /\ Unlinking' = Unlinking
  <2>1. d \in Taken <=> pc[p] \in Reaping
    BY <1>2, LabelsAre, HandHas DEF Accounts, Taken
  <2> QED
    BY <2>1, <1>1, <1>3, LabelsAre, SetsAre DEF TypeOK
<1>5. PidInv' /\ Len(pids') = Len(pids) - 1 /\ Len(pids) \in Nat
  <2>1. Owner \subseteq Proc
    BY SetsAre DEF TypeOK
  <2> QED
    BY <2>1, <1>1, <1>3, PopPid DEF TypeOK, Accounts
<1>6. StackInv'
  <2>1. Keeper' = Keeper
    BY <1>3
  <2> QED
    BY <2>1, <1>1 DEF Accounts, StackInv
<1>7. CountInv'
  <2>1. p \notin Excess
    BY <1>1 DEF Excess, Between
  <2>2. /\ Len(stacks) \in Nat /\ Len(stacks') \in Nat /\ Len(pids') \in Nat
        /\ Len(stacks') = Len(stacks)
    <3>1. stacks' = stacks /\ Len(stacks) \in Nat
      BY <1>1 DEF TypeOK
    <3>2. Len(pids') \in Nat
      BY <1>1, <1>5, TailIs DEF TypeOK
    <3> QED
      BY <3>1, <3>2
  <2> QED
    BY <2>1, <2>2, <1>3, <1>5, CountUp DEF Accounts
<1> QED
  BY <1>3, <1>4, <1>5, <1>6, <1>7 DEF Accounts

(* ... and finds a kernel stack, as the accounts have it.                   *)
LEMMA StacksSuffice ==
    ASSUME TypeOK, Accounts, NEW p \in Proc, pc[p] \in {"numbered", "stacking"}
    PROVE  stacks # <<>>
<1>1. p \in Excess
  BY DEF Excess, Between
<1>2. /\ Cardinality(Excess) \in Nat /\ Cardinality(Excess) # 0
      /\ Len(stacks) = Len(pids) + Cardinality(Excess)
  BY <1>1, FS_CardinalityType, FS_EmptySet DEF Accounts, CountInv
<1>3. Len(pids) \in Nat
  BY DEF TypeOK
<1>4. Len(stacks) # 0
  BY <1>2, <1>3
<1> QED
  BY <1>4

(* It is its own, if it is a kernel stack.                                  *)
LEMMA TakeStackKeeps ==
    ASSUME TypeOK, Accounts, NEW p \in Proc, TakeStack(p), NEW d, d = child[p]
    PROVE  /\ Accounts' /\ Owner' = Owner /\ Made' = Made /\ Taken' = Taken
           /\ Unlinking' = Unlinking /\ Spawners' = Spawners
<1>1. /\ stacks # <<>> /\ pc[p] = "stacking"
      /\ kstack' = [kstack EXCEPT ![d] = Head(stacks)]
      /\ stacks' = Tail(stacks)
      /\ pc' = [pc EXCEPT ![p] = "stacked"]
      /\ UNCHANGED <<active, free, pids, state, pid, child>>
  BY DEF TakeStack, At, Goto
<1>2. /\ p \in Hands /\ "stacked" \in Labels
      /\ "stacked" \in Reaping <=> pc[p] \in Reaping
  BY <1>1, LabelsAre DEF Hands
<1>3. /\ ListInv' /\ AliveInv' /\ HandInv' /\ LockInv'
      /\ Made' = Made /\ Taken' = Taken /\ Spawners' = Spawners
      /\ d \in Proc /\ Owner' = Owner \cup {d} /\ d \in Owner
      /\ Keeper' = Keeper \cup {d} /\ d \notin Keeper
      /\ Unlinking' = Unlinking \ {d}
      /\ Excess' = Excess \ {p}
  <2> DEFINE b == "stacked"
  <2>1. /\ b \in Labels /\ b # "created" /\ pc[p] # "created"
        /\ b \in Reaping <=> pc[p] \in Reaping
        /\ pc' = [pc EXCEPT ![p] = b]
    BY <1>1, <1>2
  <2>2. b \notin {"creating", "numbering", "unlinking"} /\ b # "unlinking"
    OBVIOUS
  <2>3. b \notin {"creating", "numbering", "numbered", "stacking",
                 "unstacked", "unnumbering", "unlinking"} /\ b \notin Between
    BY DEF Between
  <2> HIDE DEF b
  <2> QED
    BY <1>1, <1>2, <2>1, <2>2, <2>3, PartKeeps
<1>4. Owner' = Owner /\ Unlinking' = Unlinking
  BY <1>3 DEF Owner
<1>5. StackInv' /\ Len(stacks') = Len(stacks) - 1 /\ Len(stacks) \in Nat
  <2>1. Keeper \subseteq Proc
    BY SetsAre DEF TypeOK
  <2> QED
    BY <2>1, <1>1, <1>3, PopStack DEF TypeOK, Accounts
<1>6. PidInv'
  BY <1>1, <1>4 DEF Accounts, PidInv
<1>7. CountInv'
  <2>1. p \in Excess
    BY <1>1 DEF Excess, Between
  <2>2. Len(pids) \in Nat /\ pids' = pids /\ Len(stacks') \in Nat
    <3>1. Len(pids) \in Nat /\ pids' = pids
      BY <1>1 DEF TypeOK
    <3>2. Len(stacks') \in Nat
      BY <1>1, TailIs DEF TypeOK
    <3> QED
      BY <3>1, <3>2
  <2> QED
    BY <2>1, <2>2, <1>3, <1>5, CountDown DEF Accounts
<1> QED
  BY <1>3, <1>4, <1>5, <1>6, <1>7 DEF Accounts

(* Whoever is created is a zombie no longer.                                *)
LEMMA StoppedKeeps ==
    ASSUME TypeOK, Accounts, NEW p \in Proc, CreateStopped(p), NEW d, d = child[p]
    PROVE  /\ Accounts' /\ d \in Proc /\ d \in Owner /\ d \in Half /\ ~Alive(d)
           /\ d # p /\ Owner' = Owner /\ Made' = Made /\ Taken' = Taken
           /\ Unlinking' = Unlinking /\ Spawners' = Spawners
<1>1. /\ pc \in [Proc -> {"boot", "kernel", "user", "linking", "scanned",
                          "waiting", "exited"} \cup Labels]
      /\ state \in [Proc -> {"ZOMBIE", "BLOCKED", "READY"}]
      /\ state' = [state EXCEPT ![d] = "BLOCKED"]
      /\ pc' = [pc EXCEPT ![p] = "created", ![d] = "user"]
      /\ pc[p] = "stacked"
      /\ UNCHANGED <<listVars, pid, kstack, child>>
  BY DEF TypeOK, CreateStopped, At, Labels
<1>2. p \in Hands /\ "created" \in Labels /\ "user" \notin Labels
  BY <1>1, LabelsAre DEF Hands
<1>3. d \in Listed /\ d \in Proc /\ ~Alive(d) /\ d # p /\ d \notin Hands
  BY <1>1, <1>2, SetsAre DEF TypeOK, Accounts, HandInv
<1>4. /\ \A q \in Proc \ {p, d} : pc'[q] = pc[q] /\ state'[q] = state[q]
      /\ pc'[p] = "created" /\ pc'[d] = "user" /\ pc[d] \notin Labels
      /\ state'[p] = state[p] /\ state'[d] = "BLOCKED"
      /\ \A q \in Proc : child'[q] = child[q]
  BY <1>1, <1>3 DEF Hands
<1>5. ASSUME NEW L, L \subseteq Labels
      PROVE  d \in InHand(L) <=> pc[p] \in L
  BY <1>2, <1>5, HandHas DEF Accounts
<1>6. /\ d \in Half /\ d \notin Taken /\ d \notin Raw /\ d \notin Unlinking
      /\ d \notin Stackless
  <2>1. /\ {"creating", "numbering"} \subseteq Labels
        /\ {"unlinking"} \subseteq Labels
        /\ {"creating", "numbering", "numbered", "stacking", "unstacked",
            "unnumbering", "unlinking"} \subseteq Labels
        /\ Spawning \subseteq Labels /\ Reaping \subseteq Labels
        /\ pc[p] \in Spawning /\ pc[p] \notin Reaping
    BY <1>1, LabelsAre
  <2> QED
    BY <2>1, <1>1, <1>5 DEF Half, Taken, Raw, Unlinking, Stackless
<1>7. /\ Half' = Half /\ Taken' = Taken /\ Raw' = Raw /\ Unlinking' = Unlinking
      /\ Stackless' = Stackless
  <2> DEFINE was == IF p \in Hands THEN {child[p]} ELSE {}
             is(L) == IF pc'[p] \in L THEN {child'[p]} ELSE {}
  <2>1. /\ Half' = (Half \ was) \cup is(Spawning)
        /\ Taken' = (Taken \ was) \cup is(Reaping)
        /\ Raw' = (Raw \ was) \cup is({"creating", "numbering"})
        /\ Unlinking' = (Unlinking \ was) \cup is({"unlinking"})
        /\ Stackless' = (Stackless \ was)
              \cup is({"creating", "numbering", "numbered", "stacking",
                       "unstacked", "unnumbering", "unlinking"})
    <3>1. \A q \in Proc \ {p} :
             /\ child'[q] = child[q]
             /\ pc'[q] = pc[q] \/ (pc[q] \notin Labels /\ pc'[q] \notin Labels)
      BY <1>2, <1>4
    <3> QED
      BY <3>1, SetsMove DEF Accounts
  <2>2. was = {d} /\ \A L : is(L) = IF "created" \in L THEN {d} ELSE {}
    BY <1>2, <1>4
  <2> HIDE DEF was, is
  <2>3. "created" \in Spawning /\ "created" \notin Reaping
    BY LabelsAre
  <2> QED
    BY <2>1, <2>2, <2>3, <1>6
<1>8. /\ Listed' = Listed /\ Hands' = Hands /\ Spawners' = Spawners
      /\ Excess' = Excess
  <2>1. \A q \in Proc : /\ pc'[q] \in Labels <=> pc[q] \in Labels
                        /\ pc'[q] \in Spawning <=> pc[q] \in Spawning
                        /\ pc'[q] \in Between <=> pc[q] \in Between
    BY <1>1, <1>2, <1>4, LabelsAre
  <2> QED
    BY <2>1, <1>1 DEF Listed, listVars, Hands, Spawners, Excess
<1>9. Owner' = Owner /\ Made' = Made /\ Keeper' = Keeper /\ d \in Owner
  BY <1>3, <1>6, <1>7, <1>8 DEF Owner, Made, Keeper, Half
<1>10. ListInv' /\ PidInv' /\ StackInv' /\ CountInv'
  BY <1>1, <1>8, <1>9
     DEF Accounts, ListInv, PidInv, StackInv, CountInv, listVars
<1>11. AliveInv'
  BY <1>4, <1>9 DEF Accounts, AliveInv, Alive
<1>12. HandInv'
  <2>1. \A q \in Hands : /\ q \in Proc /\ q # d /\ state'[q] = state[q]
                         /\ child'[q] = child[q]
                         /\ q # p => pc'[q] = pc[q] /\ child[q] # d
    BY <1>2, <1>3, <1>4 DEF Accounts, HandInv, Hands
  <2>2. \A q \in Hands : child[q] \in Listed /\ child[q] \in Proc
    BY SetsAre DEF Accounts, HandInv, TypeOK
  <2>3. \A x \in Proc : x # d => (Alive(x)' <=> Alive(x))
    BY <1>4 DEF Alive
  <2> QED
    BY <2>1, <2>2, <2>3, <1>4, <1>8 DEF Accounts, HandInv
<1>13. LockInv'
  <2>1. \A q \in Proc : pc'[q] \in Reaping \cup InList
                           => pc[q] \in Reaping \cup InList
    BY <1>4, LabelsAre
  <2> QED
    BY <2>1, LockStays DEF Accounts
<1> QED
  BY <1>3, <1>6, <1>7, <1>8, <1>9, <1>10, <1>11, <1>12, <1>13 DEF Accounts

(* The end of sys_spawn makes it a process like any other.                  *)
LEMMA InheritKeeps ==
    ASSUME TypeOK, Accounts, NEW p \in Proc, Inherit(p), NEW d, d = child[p]
    PROVE  /\ Accounts' /\ p \in Spawners /\ d \in Half /\ d \notin Taken
           /\ Owner' = Owner /\ Made' = Made \cup {d} /\ Taken' = Taken
           /\ Unlinking' = Unlinking /\ Spawners' = Spawners \ {p}
<1>1. /\ pc \in [Proc -> {"boot", "kernel", "user", "linking", "scanned",
                          "waiting", "exited"} \cup Labels]
      /\ child \in [Proc -> Proc \cup {NoProc}]
      /\ child' = [child EXCEPT ![p] = NoProc]
      /\ pc' = [pc EXCEPT ![p] = "user"]
      /\ pc[p] = "created" /\ state[p] = "READY"
      /\ UNCHANGED <<active, free, pids, stacks, state, pid, kstack>>
  BY DEF TypeOK, Inherit, At, Goto, listVars, Labels
<1>2. /\ p \in Hands /\ p \in Spawners /\ "user" \notin Labels
      /\ pc[p] \in Spawning /\ pc[p] \notin Reaping
  BY <1>1, LabelsAre DEF Hands, Spawners
<1>3. /\ \A q \in Proc \ {p} : child'[q] = child[q] /\ pc'[q] = pc[q]
      /\ pc'[p] = "user"
  BY <1>1
<1>4. ASSUME NEW L, L \subseteq Labels
      PROVE  d \in InHand(L) <=> pc[p] \in L
  BY <1>2, <1>4, HandHas DEF Accounts
<1>5. /\ d \in Half /\ d \notin Taken /\ d \notin Raw /\ d \notin Unlinking
      /\ d \notin Stackless
  <2>1. /\ {"creating", "numbering"} \subseteq Labels
        /\ {"unlinking"} \subseteq Labels
        /\ {"creating", "numbering", "numbered", "stacking", "unstacked",
            "unnumbering", "unlinking"} \subseteq Labels
        /\ Spawning \subseteq Labels /\ Reaping \subseteq Labels
    BY LabelsAre
  <2> QED
    BY <2>1, <1>1, <1>2, <1>4 DEF Half, Taken, Raw, Unlinking, Stackless
<1>6. /\ Half' = Half \ {d} /\ Taken' = Taken /\ Raw' = Raw
      /\ Unlinking' = Unlinking /\ Stackless' = Stackless
  <2> DEFINE was == IF p \in Hands THEN {child[p]} ELSE {}
             is(L) == IF pc'[p] \in L THEN {child'[p]} ELSE {}
  <2>1. /\ Half' = (Half \ was) \cup is(Spawning)
        /\ Taken' = (Taken \ was) \cup is(Reaping)
        /\ Raw' = (Raw \ was) \cup is({"creating", "numbering"})
        /\ Unlinking' = (Unlinking \ was) \cup is({"unlinking"})
        /\ Stackless' = (Stackless \ was)
              \cup is({"creating", "numbering", "numbered", "stacking",
                       "unstacked", "unnumbering", "unlinking"})
    BY <1>3, SetsMove DEF Accounts
  <2>2. was = {d} /\ \A L : "user" \notin L => is(L) = {}
    BY <1>2, <1>3
  <2> HIDE DEF was, is
  <2>3. "user" \notin Spawning /\ "user" \notin Reaping
    BY LabelsAre
  <2> QED
    BY <2>1, <2>2, <2>3, <1>5
<1>7. /\ Listed' = Listed /\ Hands' = Hands \ {p} /\ Spawners' = Spawners \ {p}
      /\ Excess' = Excess
  BY <1>1, <1>3, LabelsAre DEF Listed, Hands, Spawners, Excess
<1>8. d \in Listed
  BY <1>5, SetsAre DEF TypeOK
<1>9. Owner' = Owner /\ Made' = Made \cup {d} /\ Keeper' = Keeper
  <2>1. Made = Listed \ Half /\ Made' = Listed' \ Half'
    BY DEF Made, Half
  <2> QED
    BY <2>1, <1>5, <1>6, <1>7, <1>8 DEF Owner, Keeper
<1>10. ListInv' /\ AliveInv' /\ PidInv' /\ StackInv' /\ CountInv'
  BY <1>1, <1>7, <1>9
     DEF Accounts, ListInv, AliveInv, PidInv, StackInv, CountInv, Alive
<1>11. HandInv'
  <2>1. \A q \in Hands \ {p} : /\ q \in Proc \ {p} /\ child'[q] = child[q]
                               /\ pc'[q] = pc[q]
    BY <1>3 DEF Hands
  <2> QED
    BY <2>1, <1>1, <1>7 DEF Accounts, HandInv, Alive
<1>12. LockInv'
  BY <1>3, LabelsAre, LockStays DEF Accounts
<1> QED
  BY <1>2, <1>5, <1>6, <1>7, <1>9, <1>10, <1>11, <1>12 DEF Accounts

(* sys_waitpid takes a zombie in hand that nobody else has.                 *)
LEMMA BeginReapKeeps ==
    ASSUME TypeOK, Accounts, NEW p \in Proc, NEW d \in Listed, ~Alive(d),
           state[p] = "READY", pc[p] \notin Labels, ~Locked, BeginReap(p, d),
           mishap' = {},
           UNCHANGED <<listVars, state, pid, kstack>>
    PROVE  /\ Accounts' /\ d \in Made /\ d \in Owner /\ Owner' = Owner
           /\ Made' = Made /\ Taken = {} /\ Taken' = {d} /\ Unlinking' = {}
           /\ Spawners' = Spawners
<1>1. /\ d \in Proc /\ child \in [Proc -> Proc \cup {NoProc}]
      /\ child' = [child EXCEPT ![p] = d] /\ pc' = [pc EXCEPT ![p] = "reaping"]
      /\ pc \in [Proc -> {"boot", "kernel", "user", "linking", "scanned",
                          "waiting", "exited"} \cup Labels]
      /\ Chosen(d) = {}
  BY SetsAre DEF TypeOK, BeginReap, Goto, Labels
<1>2. /\ \A q \in Proc \ {p} : child'[q] = child[q] /\ pc'[q] = pc[q]
      /\ pc'[p] = "reaping" /\ child'[p] = d /\ p \notin Hands
      /\ Alive(p) /\ d # p
  BY <1>1 DEF Hands, Alive
<1>3. d \notin Half
  BY <1>1 DEF Chosen, Half
<1>4. \A q \in Proc : pc[q] \notin Reaping
  BY DEF Locked
<1>5. Taken = {} /\ Unlinking = {}
  <2>1. Taken = {}
    BY <1>4 DEF Taken, InHand
  <2> QED
    BY <2>1, SetsAre DEF TypeOK
<1>6. /\ Half' = Half /\ Taken' = {d} /\ Raw' = Raw /\ Unlinking' = {}
      /\ Stackless' = Stackless
  <2> DEFINE was == IF p \in Hands THEN {child[p]} ELSE {}
             is(L) == IF pc'[p] \in L THEN {child'[p]} ELSE {}
  <2>1. /\ Half' = (Half \ was) \cup is(Spawning)
        /\ Taken' = (Taken \ was) \cup is(Reaping)
        /\ Raw' = (Raw \ was) \cup is({"creating", "numbering"})
        /\ Unlinking' = (Unlinking \ was) \cup is({"unlinking"})
        /\ Stackless' = (Stackless \ was)
              \cup is({"creating", "numbering", "numbered", "stacking",
                       "unstacked", "unnumbering", "unlinking"})
    BY <1>2, SetsMove DEF Accounts
  <2>2. was = {} /\ \A L : is(L) = IF "reaping" \in L THEN {d} ELSE {}
    BY <1>2
  <2> HIDE DEF was, is
  <2>3. "reaping" \notin Spawning /\ "reaping" \in Reaping
    BY LabelsAre
  <2> QED
    BY <2>1, <2>2, <2>3, <1>5
<1>7. /\ Listed' = Listed /\ Hands' = Hands \cup {p} /\ Spawners' = Spawners
      /\ Excess' = Excess
  <2>1. p \notin Spawners /\ p \notin Excess
    BY LabelsAre DEF Spawners, Excess
  <2> QED
    BY <2>1, <1>2, LabelsAre DEF Listed, listVars, Hands, Spawners, Excess
<1>8. /\ Owner' = Owner /\ Made' = Made /\ Keeper' = Keeper /\ d \in Made
      /\ d \in Owner
  <2>1. Made = Listed \ Half /\ Made' = Listed' \ Half'
    BY DEF Made, Half
  <2> QED
    BY <2>1, <1>3, <1>5, <1>6, <1>7, SetsAre DEF Owner, Keeper, TypeOK
<1>9. ListInv' /\ AliveInv' /\ PidInv' /\ StackInv' /\ CountInv'
  BY <1>7, <1>8
     DEF Accounts, ListInv, AliveInv, PidInv, StackInv, CountInv, listVars, Alive
<1>10. HandInv'
  <2>1. \A q \in Hands : /\ q \in Proc \ {p} /\ child'[q] = child[q]
                         /\ pc'[q] = pc[q] /\ child[q] # d
    <3>1. \A q \in Hands : q \in Spawners
      BY <1>4, LabelsAre DEF Hands, Spawners
    <3>2. \A q \in Spawners : child[q] \in Half
      BY DEF Spawners, Half, InHand
    <3> QED
      BY <3>1, <3>2, <1>2, <1>3 DEF Hands
  <2>2. \A x : Alive(x)' <=> Alive(x)
    BY DEF Alive
  <2> QED
    BY <2>1, <2>2, <1>2, <1>7 DEF Accounts, HandInv
<1>11. LockInv'
  BY <1>2, LockTaken
<1> QED
  BY <1>5, <1>6, <1>7, <1>8, <1>9, <1>10, <1>11 DEF Accounts

(* The stack of the zombie in hand is free again, ...                       *)
LEMMA ReapStackKeeps ==
    ASSUME TypeOK, Accounts, NEW p \in Proc, ReapStack(p)
    PROVE  /\ Accounts' /\ stacks' \in Seq(Stack \cup {Wild})
           /\ Owner' = Owner /\ Made' = Made /\ Taken' = Taken
           /\ Unlinking' = Unlinking /\ Spawners' = Spawners
<1> DEFINE d == child[p]
<1>1. /\ FreeStack(d) /\ pc[p] = "unstacking"
      /\ pc' = [pc EXCEPT ![p] = "unstacked"]
      /\ UNCHANGED <<active, free, pids, state, pid, kstack, child>>
  BY DEF ReapStack, At, Goto
<1> HIDE DEF d
<1>2. /\ p \in Hands /\ "unstacked" \in Labels
      /\ "unstacked" \in Reaping <=> pc[p] \in Reaping
  BY <1>1, LabelsAre DEF Hands
<1>3. /\ ListInv' /\ AliveInv' /\ HandInv' /\ LockInv'
      /\ Made' = Made /\ Taken' = Taken /\ Spawners' = Spawners
      /\ d \in Proc /\ Owner' = Owner \cup {d} /\ d \in Owner
      /\ Keeper' = Keeper \ {d} /\ d \in Keeper
      /\ Unlinking' = Unlinking \ {d}
      /\ Excess' = Excess \cup {p}
  BY <1>1, <1>2, PartKeeps DEF Between, d
<1>4. Owner' = Owner /\ Unlinking' = Unlinking
  BY <1>3 DEF Owner
<1>5. /\ StackInv' /\ Len(stacks') = Len(stacks) + 1 /\ Len(stacks) \in Nat
      /\ stacks' \in Seq(Stack \cup {Wild})
  BY <1>1, <1>3, PushStack DEF TypeOK, Accounts
<1>6. PidInv'
  BY <1>1, <1>4 DEF Accounts, PidInv
<1>7. CountInv'
  <2>1. p \notin Excess
    BY <1>1 DEF Excess, Between
  <2>2. Len(pids) \in Nat /\ pids' = pids
    BY <1>1 DEF TypeOK
  <2> QED
    BY <2>1, <2>2, <1>3, <1>5, CountUp DEF Accounts
<1> QED
  BY <1>3, <1>4, <1>5, <1>6, <1>7 DEF Accounts

(* ... so is the pid, ...                                                   *)
LEMMA ReapPidKeeps ==
    ASSUME TypeOK, Accounts, NEW p \in Proc, ReapPid(p), NEW d, d = child[p]
    PROVE  /\ Accounts' /\ d \in Proc /\ d \in Owner /\ d \in Taken
           /\ Owner' = Owner \ {d} /\ Made' = Made /\ Taken' = Taken
           /\ Unlinking' = {d} /\ Spawners' = Spawners /\ ~Alive(d)
<1>1. /\ FreePid(d) /\ pc[p] = "unnumbering"
      /\ pc' = [pc EXCEPT ![p] = "unlinking"]
      /\ UNCHANGED <<active, free, stacks, state, pid, kstack, child>>
  BY DEF ReapPid, At, Goto
<1>2. /\ p \in Hands /\ "unlinking" \in Labels
      /\ "unlinking" \in Reaping <=> pc[p] \in Reaping
  BY <1>1, LabelsAre DEF Hands
<1>3. /\ ListInv' /\ AliveInv' /\ HandInv' /\ LockInv'
      /\ Made' = Made /\ Taken' = Taken /\ Spawners' = Spawners
      /\ d \in Proc /\ Owner' = Owner \ {d} /\ d \in Owner /\ ~Alive(d)
      /\ Keeper' = Keeper \ {d} /\ d \notin Keeper
      /\ Unlinking' = Unlinking \cup {d}
      /\ Excess' = Excess \ {p}
  BY <1>1, <1>2, PartKeeps DEF Between
<1>4. d \in Taken /\ Unlinking = {}
  <2>1. d \in Taken <=> pc[p] \in Reaping
    BY <1>2, LabelsAre, HandHas DEF Accounts, Taken
  <2>2. \A q \in Proc : pc[q] # "unlinking"
    BY <1>1, LabelsAre DEF Accounts, LockInv
  <2>3. Unlinking = {}
    BY <2>2 DEF Unlinking, InHand
  <2> QED
    BY <2>1, <2>3, <1>1, LabelsAre
<1>5. PidInv' /\ Len(pids') = Len(pids) + 1 /\ Len(pids) \in Nat
  BY <1>1, <1>3, PushPid DEF TypeOK, Accounts
<1>6. StackInv'
  <2>1. Keeper' = Keeper
    BY <1>3
  <2> QED
    BY <2>1, <1>1 DEF Accounts, StackInv
<1>7. CountInv'
  <2>1. p \in Excess
    BY <1>1 DEF Excess, Between
  <2>2. Len(stacks) \in Nat /\ stacks' = stacks
    BY <1>1 DEF TypeOK
  <2> QED
    BY <2>1, <2>2, <1>3, <1>5, CountDown DEF Accounts
<1> QED
  BY <1>3, <1>4, <1>5, <1>6, <1>7 DEF Accounts

(* ... and at last the descriptor.                                          *)
LEMMA ReapProcessKeeps ==
    ASSUME TypeOK, Accounts, NEW p \in Proc, ReapProcess(p), NEW d, d = child[p]
    PROVE  /\ Accounts' /\ d \in Listed /\ d \in Taken /\ ~Alive(d)
           /\ FreeProcess(d) /\ Owner' = Owner /\ Made' = Made \ {d}
           /\ Taken' = Taken \ {d} /\ Unlinking' = Unlinking \ {d}
           /\ Spawners' = Spawners
<1>1. /\ pc \in [Proc -> {"boot", "kernel", "user", "linking", "scanned",
                          "waiting", "exited"} \cup Labels]
      /\ child \in [Proc -> Proc \cup {NoProc}]
      /\ child' = [child EXCEPT ![p] = NoProc]
      /\ pc' = [pc EXCEPT ![p] = "user"]
      /\ pc[p] = "unlinking" /\ FreeProcess(d)
      /\ UNCHANGED <<pids, stacks, state, pid, kstack>>
  BY DEF TypeOK, ReapProcess, At, Goto, Labels
<1>2. /\ p \in Hands /\ p \notin Spawners /\ "user" \notin Labels
      /\ pc[p] \notin Spawning /\ pc[p] \in Reaping
  BY <1>1, LabelsAre DEF Hands, Spawners
<1>3. /\ \A q \in Proc \ {p} : child'[q] = child[q] /\ pc'[q] = pc[q]
      /\ pc'[p] = "user"
  BY <1>1
<1>4. ASSUME NEW L, L \subseteq Labels
      PROVE  d \in InHand(L) <=> pc[p] \in L
  BY <1>2, <1>4, HandHas DEF Accounts
<1>5. /\ d \notin Half /\ d \in Taken /\ d \notin Raw /\ d \in Unlinking
      /\ d \in Stackless
  <2>1. /\ {"creating", "numbering"} \subseteq Labels
        /\ {"unlinking"} \subseteq Labels
        /\ {"creating", "numbering", "numbered", "stacking", "unstacked",
            "unnumbering", "unlinking"} \subseteq Labels
        /\ Spawning \subseteq Labels /\ Reaping \subseteq Labels
    BY LabelsAre
  <2> QED
    BY <2>1, <1>1, <1>2, <1>4 DEF Half, Taken, Raw, Unlinking, Stackless
<1>6. /\ Half' = Half /\ Taken' = Taken \ {d} /\ Raw' = Raw
      /\ Unlinking' = Unlinking \ {d} /\ Stackless' = Stackless \ {d}
  <2> DEFINE was == IF p \in Hands THEN {child[p]} ELSE {}
             is(L) == IF pc'[p] \in L THEN {child'[p]} ELSE {}
  <2>1. /\ Half' = (Half \ was) \cup is(Spawning)
        /\ Taken' = (Taken \ was) \cup is(Reaping)
        /\ Raw' = (Raw \ was) \cup is({"creating", "numbering"})
        /\ Unlinking' = (Unlinking \ was) \cup is({"unlinking"})
        /\ Stackless' = (Stackless \ was)
              \cup is({"creating", "numbering", "numbered", "stacking",
                       "unstacked", "unnumbering", "unlinking"})
    BY <1>3, SetsMove DEF Accounts
  <2>2. was = {d} /\ \A L : "user" \notin L => is(L) = {}
    BY <1>2, <1>3
  <2> HIDE DEF was, is
  <2>3. "user" \notin Spawning /\ "user" \notin Reaping
    BY LabelsAre
  <2> QED
    BY <2>1, <2>2, <2>3, <1>5
<1>7. d \in Listed /\ d \in Proc /\ ~Alive(d)
  BY <1>5, SetsAre DEF TypeOK
<1>8. ListInv' /\ Listed' = Listed \ {d}
  BY <1>1, <1>7, Unlinks DEF TypeOK, Accounts
<1>9. Hands' = Hands \ {p} /\ Spawners' = Spawners /\ Excess' = Excess
  BY <1>1, <1>2, <1>3, LabelsAre DEF Hands, Spawners, Excess
<1>10. Owner' = Owner /\ Made' = Made \ {d} /\ Keeper' = Keeper
  <2>1. Made = Listed \ Half /\ Made' = Listed' \ Half'
    BY DEF Made, Half
  <2> QED
    BY <2>1, <1>5, <1>6, <1>8 DEF Owner, Keeper
<1>11. AliveInv' /\ PidInv' /\ StackInv' /\ CountInv'
  BY <1>1, <1>9, <1>10
     DEF Accounts, AliveInv, PidInv, StackInv, CountInv, Alive
<1>12. HandInv'
  <2>1. \A q \in Hands \ {p} : /\ q \in Proc \ {p} /\ child'[q] = child[q]
                               /\ pc'[q] = pc[q] /\ child[q] # d
    BY <1>2, <1>3 DEF Hands, Accounts, HandInv
  <2> QED
    BY <2>1, <1>1, <1>8, <1>9 DEF Accounts, HandInv, Alive
<1>13. LockInv'
  BY <1>3, LabelsAre, LockStays DEF Accounts
<1> QED
  BY <1>1, <1>5, <1>6, <1>7, <1>8, <1>9, <1>10, <1>11, <1>12, <1>13 DEF Accounts

(* The worker reaps a zombie nobody has in hand, at once.                   *)
LEMMA ReapKeeps ==
    ASSUME TypeOK, Accounts, NEW d \in Listed, ~Alive(d), d \notin Half,
           d \notin Taken, Reap(d), UNCHANGED <<state, pid, kstack, child, pc>>
    PROVE  /\ Accounts' /\ d \in Owner /\ Owner' = Owner \ {d}
           /\ Made' = Made \ {d} /\ Taken' = Taken /\ Unlinking' = Unlinking
           /\ Spawners' = Spawners /\ stacks' \in Seq(Stack \cup {Wild})
<1>1. /\ active \in Seq(Proc) /\ free \in Seq(Proc) /\ pids \in Seq(Pid)
      /\ stacks \in Seq(Stack \cup {Wild})
      /\ pid \in [Proc -> Pid] /\ kstack \in [Proc -> Stack \cup {Wild}]
      /\ FreeStack(d) /\ FreePid(d) /\ FreeProcess(d)
      /\ d \in Proc
  BY SetsAre DEF TypeOK, Reap
<1>2. /\ Half' = Half /\ Taken' = Taken /\ Raw' = Raw /\ Unlinking' = Unlinking
      /\ Stackless' = Stackless /\ Spawners' = Spawners /\ Hands' = Hands
      /\ Excess' = Excess
  BY DEF Half, Taken, Raw, Unlinking, Stackless, Spawners, Hands, Excess, InHand
<1>3. ListInv' /\ Listed' = Listed \ {d}
  BY <1>1, Unlinks DEF Accounts
<1>4. d \notin Raw /\ d \notin Unlinking /\ d \notin Stackless
  <2>1. d \notin Raw /\ d \notin Unlinking
    BY <1>1, SetsAre
  <2>2. Stackless \subseteq Half \cup Taken
    BY LabelsAre DEF Stackless, Half, Taken, InHand
  <2> QED
    BY <2>1, <2>2
<1>5. /\ Owner' = Owner \ {d} /\ Made' = Made \ {d} /\ Keeper' = Keeper \ {d}
      /\ d \in Owner /\ d \in Keeper
  <2>1. Made = Listed \ Half /\ Made' = Listed' \ Half'
    BY DEF Made, Half
  <2> QED
    BY <2>1, <1>2, <1>3, <1>4 DEF Owner, Keeper
<1>6. PidInv' /\ Len(pids') = Len(pids) + 1 /\ Len(pids) \in Nat
  BY <1>1, <1>5, PushPid DEF Accounts
<1>7. /\ StackInv' /\ Len(stacks') = Len(stacks) + 1 /\ Len(stacks) \in Nat
      /\ stacks' \in Seq(Stack \cup {Wild})
  BY <1>1, <1>5, PushStack DEF Accounts
<1>8. CountInv'
  <2>1. Cardinality(Excess) \in Nat
    BY FS_CardinalityType DEF Accounts, CountInv
  <2> QED
    BY <2>1, <1>2, <1>6, <1>7 DEF Accounts, CountInv
<1>9. AliveInv' /\ HandInv' /\ LockInv'
  <2>1. AliveInv'
    BY <1>5 DEF Accounts, AliveInv, Alive
  <2>2. \A p \in Hands : child[p] # d
    BY LabelsAre DEF Half, Taken, InHand, Hands
  <2>3. HandInv'
    BY <1>2, <1>3, <2>2 DEF Accounts, HandInv, Alive
  <2>4. LockInv'
    BY DEF Accounts, LockInv
  <2> QED
    BY <2>1, <2>3, <2>4
<1> QED
  BY <1>2, <1>3, <1>5, <1>6, <1>7, <1>8, <1>9 DEF Accounts

-----------------------------------------------------------------------------
(* The family: who is whose child, and who hears of a death.                *)

(* The pids of the worker and of init are theirs alone, and system calls    *)
(* are made by others.                                                      *)
LEMMA Relations ==
    ASSUME TypeOK, Accounts, Family
    PROVE  /\ \A q \in Owner : pid[q] = 0 => q = Worker
           /\ \A q \in Owner : pid[q] = 1 => q = UInit
           /\ Worker \in Owner /\ UInit \in Owner /\ Alive(Worker)
           /\ Owner \subseteq Proc
           /\ \A q \in Proc : state[q] = "READY" /\ pc[q] # "kernel" =>
                 q # Worker /\ q \in Owner /\ pid[q] # 0
<1>1. Owner \subseteq Proc /\ Raw \subseteq Half /\ Unlinking \subseteq Taken
  BY SetsAre DEF TypeOK
<1>2. Alive(Worker) /\ pc[Worker] = "kernel" /\ Worker \in Proc
  BY Constants DEF Family, WorkerInv, Alive
<1>3. \A q \in Proc : state[q] = "READY" => q \in Owner
  BY DEF Accounts, AliveInv, Alive
<1>4. Worker \in Owner /\ pid[Worker] = 0 /\ pid[UInit] = 1
  BY <1>2, <1>3 DEF Family, WorkerInv, FirstInv
<1>5. UInit \in Owner
  <2>1. UInit \in Listed \ Half
    BY SetsAre DEF TypeOK, Family, FirstInv
  <2>2. UInit \notin Taken
    BY <1>4 DEF Family, TakenInv
  <2> QED
    BY <2>1, <2>2, <1>1 DEF Owner
<1>6. \A q, r \in Owner : pid[q] = pid[r] => q = r
  BY DEF Accounts, PidInv
<1> QED
  BY <1>1, <1>2, <1>3, <1>4, <1>5, <1>6

(* Nobody who matters dies or disappears; whoever joins the family has a    *)
(* parent that lives and is not the worker.                                 *)
LEMMA FamilyKeeps ==
    ASSUME TypeOK, Accounts, Family,
           \A q \in Owner : Alive(q) \/ pid[q] = 1 =>
              q \in Owner' /\ pid'[q] = pid[q],
           \A q \in Owner : Alive(q) => state'[q] # "ZOMBIE",
           Worker \in Made', UInit \in Made',
           \A q \in Made : q \in Made' => ppid'[q] = ppid[q],
           \A q \in Made' \ Made :
              ppid'[q] # 0 /\ \E r \in Owner : Alive(r) /\ pid[r] = ppid'[q],
           KInit \in Made' /\ Ordered => Ordered',
           state'[Worker] = state[Worker], pc'[Worker] = pc[Worker],
           sigmask'[Worker] = sigmask[Worker]
    PROVE  /\ WorkerInv' /\ FirstInv' /\ Parented'
           /\ noticed' = noticed => Heard'
<1>1. /\ Worker \in Owner /\ UInit \in Owner /\ Alive(Worker)
      /\ Worker \in Made /\ UInit \in Made
  BY Relations DEF Family, WorkerInv, FirstInv
<1>2. WorkerInv'
  BY <1>1 DEF Family, WorkerInv
<1>3. FirstInv'
  BY <1>1 DEF Family, FirstInv
<1>4. Parented'
  <2> SUFFICES ASSUME NEW q \in Made'
               PROVE  \E r \in Owner' : /\ pid'[r] = ppid'[q]
                                        /\ state'[r] # "ZOMBIE" \/ pid'[r] = 1
    BY DEF Parented, Alive
  <2>1. CASE q \in Made
    <3>1. PICK r \in Owner : pid[r] = ppid[q] /\ (Alive(r) \/ pid[r] = 1)
      BY <2>1 DEF Family, Parented
    <3> QED
      BY <2>1, <3>1
  <2>2. CASE q \notin Made
    <3>1. PICK r \in Owner : Alive(r) /\ pid[r] = ppid'[q]
      BY <2>2
    <3> QED
      BY <3>1
  <2> QED
    BY <2>1, <2>2
<1>5. noticed' = noticed => Heard'
  BY <1>1 DEF Family, Heard, Alive
<1> QED
  BY <1>2, <1>3, <1>4, <1>5

(* Nobody new is reaped in a system call, and whoever joins the family has  *)
(* a parent that is about to be.                                            *)
LEMMA TakenKeeps ==
    ASSUME TypeOK, Accounts, TakenInv,
           Taken' \subseteq Taken, Unlinking' \subseteq Unlinking,
           \A d \in Taken : pid'[d] = pid[d] /\ ppid'[d] = ppid[d],
           \A q \in Spawners' : q \in Spawners /\ pid'[q] = pid[q],
           \A q \in Made : q \in Made' => ppid'[q] = ppid[q],
           \A q \in Made' \ Made : \E r \in Spawners : ppid'[q] = pid[r]
    PROVE  TakenInv'
<1>1. Unlinking \subseteq Taken
  BY SetsAre DEF TypeOK
<1>2. \A d \in Taken' : pid'[d] # 1 /\ ppid'[d] # 0
  BY DEF TakenInv
<1>3. \A d \in Unlinking', q \in Made' : ppid'[q] # pid'[d]
  <2> TAKE d \in Unlinking', q \in Made'
  <2>1. d \in Unlinking /\ pid'[d] = pid[d]
    BY <1>1
  <2>2. CASE q \in Made
    BY <2>1, <2>2 DEF TakenInv
  <2>3. CASE q \notin Made
    BY <2>1, <2>3 DEF TakenInv
  <2> QED
    BY <2>2, <2>3
<1>4. \A d \in Unlinking', q \in Spawners' : pid'[q] # pid'[d]
  BY <1>1 DEF TakenInv
<1> QED
  BY <1>2, <1>3, <1>4 DEF TakenInv

(* The order of the two does not change when another is unlinked.           *)
LEMMA OrderKeeps ==
    ASSUME TypeOK, Accounts, NEW d \in Listed, FreeProcess(d), d # UInit,
           d # KInit, Ordered
    PROVE  Ordered'
<1>1. active \in Seq(Proc) /\ ListInv /\ active' = Unlinked(d)
  BY DEF TypeOK, Accounts, FreeProcess
<1>2. PICK i \in DOMAIN active, j \in DOMAIN active :
         i < j /\ active[i] = UInit /\ active[j] = KInit
  BY DEF Ordered
<1>3. \E a, b \in DOMAIN active' :
         a < b /\ active'[a] = active[i] /\ active'[b] = active[j]
  BY <1>1, <1>2, UnlinkedIs
<1> QED
  BY <1>2, <1>3 DEF Ordered

(* A zombie disappears that is not init.                                    *)
LEMMA GoneFamily ==
    ASSUME TypeOK, Accounts, Family, NEW d \in Listed, ~Alive(d), d # UInit,
           FreeProcess(d), UNCHANGED <<state, pid, ppid, sigmask>>,
           pc'[Worker] = pc[Worker],
           Owner' = Owner \/ Owner' = Owner \ {d}, Made' = Made \ {d}
    PROVE  /\ WorkerInv' /\ FirstInv' /\ Parented'
           /\ noticed' = noticed => Heard'
<1>1. /\ \A q \in Owner : pid[q] = 1 => q = UInit
      /\ d # Worker /\ Worker \in Made /\ UInit \in Made
  BY Relations DEF Family, WorkerInv, FirstInv
<1>2. \A q \in Owner : Alive(q) \/ pid[q] = 1 =>
         q \in Owner' /\ pid'[q] = pid[q]
  BY <1>1
<1>3. KInit \in Made' /\ Ordered => Ordered'
  BY OrderKeeps
<1>4. \A q \in Owner : Alive(q) => state'[q] # "ZOMBIE"
  BY DEF Alive
<1> QED
  BY <1>1, <1>2, <1>3, <1>4, FamilyKeeps

(* Who is found with a pid shows it. *)
LEMMA Found ==
    ASSUME TypeOK, NEW t, Find(t) # NoProc
    PROVE  Find(t) \in Listed /\ Find(t) \in Proc /\ pid[Find(t)] = t
<1> DEFINE S == {p \in Proc : pid[p] = t}
<1>1. Find(t) = First(S)
  BY DEF Find
<1>2. S \cap Listed # {}
  BY <1>1, FirstFails
<1>3. First(S) \in S /\ First(S) \in Listed
  BY <1>2, FirstIs DEF TypeOK
<1> QED
  BY <1>1, <1>3

(* A process dies, and no mishap: its children go to init, its parent is   *)
(* told and woken.                                                         *)
LEMMA DieKeeps ==
    ASSUME TypeOK, Accounts, Family, mishap' = {},
           NEW p \in Proc, p # Worker, Alive(p), Die(p), pc[p] \notin Reaping,
           UNCHANGED <<listVars, pid, sigmask, kstack, child>>,
           \A q \in Proc : \/ pc'[q] = pc[q]
                           \/ pc[q] \notin Labels /\ pc'[q] \notin Labels,
           LockInv', pc'[Worker] = pc[Worker]
    PROVE  Accounts' /\ Family' /\ Wakes
<1> DEFINE ours == Reparented(p)[p]
           parent == Find(ours)
           heard == parent \notin {NoProc, p} /\ "CHLD" \in sigmask[parent]
<1>1. /\ state' = [q \in Proc |->
                      IF q = p THEN "ZOMBIE"
                      ELSE IF q \in {r \in {parent} : heard /\ state[r] = "BLOCKED"}
                             THEN "READY" ELSE state[q]]
      /\ ppid' = Reparented(p)
      /\ noticed' = (noticed \/ (heard /\ parent = Worker))
      /\ Hidden(parent) = {} /\ pc[p] \notin Spawning
      /\ parent # NoProc
  BY DEF Die
<1>2. /\ p \in Owner /\ Owner \subseteq Proc /\ Owner \subseteq Listed
      /\ Listed \subseteq Proc /\ Made \subseteq Listed
      /\ Taken \subseteq Listed /\ Unlinking \subseteq Taken
  BY SetsAre DEF TypeOK, Accounts, AliveInv
<1>3. /\ pid \in [Proc -> Pid] /\ ppid \in [Proc -> Pid]
      /\ \A q \in Proc : ppid'[q] = IF q \in Listed /\ ppid[q] = pid[p]
                                      THEN 1 ELSE ppid[q]
  BY <1>1 DEF TypeOK, Reparented
<1>4. ours = ppid'[p]
  BY <1>1, <1>2, <1>3, Constants
<1>5. parent \in Listed /\ parent \notin Raw /\ pid[parent] = ours
  <2>1. parent \notin Raw
    BY <1>1 DEF Hidden
  <2> HIDE DEF ours
  <2> QED
    BY <2>1, <1>1, Found
<1>6. p \in Made => parent \in Owner
  <2> SUFFICES ASSUME p \in Made, parent \in Unlinking
               PROVE  FALSE
    BY <1>5 DEF Owner
  <2>1. pid[parent] # 1 /\ ppid[p] # pid[parent]
    BY <1>2 DEF Family, TakenInv
  <2> HIDE DEF ours, parent
  <2> QED
    BY <2>1, <1>2, <1>3, <1>4, <1>5
<1> HIDE DEF ours
<1>7. parent # p /\ "CHLD" \in sigmask[parent] => heard
  BY <1>1
<1> HIDE DEF parent, heard
<1>8. /\ state'[p] = "ZOMBIE"
      /\ \A q \in Proc : q # p => \/ state'[q] = state[q]
                                  \/ Alive(q) /\ state'[q] = "READY"
      /\ heard /\ parent # p => state'[parent] # "BLOCKED"
  <2>1. state'[p] = "ZOMBIE"
    BY <1>1
  <2>2. \A q \in Proc : q # p => \/ state'[q] = state[q]
                                 \/ Alive(q) /\ state'[q] = "READY"
    BY <1>1 DEF Alive
  <2>3. heard /\ parent # p => state'[parent] # "BLOCKED"
    BY <1>1, <1>2, <1>5
  <2> QED
    BY <2>1, <2>2, <2>3
<1>9. /\ \A q \in Owner : pid[q] = 0 => q = Worker
      /\ \A q \in Owner : pid[q] = 1 => q = UInit
      /\ Worker \in Owner /\ UInit \in Owner
      /\ \A q, r \in Owner : pid[q] = pid[r] => q = r
      /\ Worker \in Made /\ UInit \in Made
  BY Relations DEF Accounts, PidInv, Family, WorkerInv, FirstInv
<1>10. /\ Accounts' /\ Made' = Made /\ Owner' = Owner /\ Taken' = Taken
       /\ Unlinking' = Unlinking /\ Spawners' = Spawners
  <2>1. \A q \in Proc : state'[q] # "ZOMBIE" => Alive(q)
    BY <1>8 DEF Alive
  <2>2. \A q \in Hands : state'[q] # "ZOMBIE"
    <3>1. \A q \in Hands : q \in Proc /\ q # p /\ Alive(q)
      BY <1>1, LabelsAre DEF Hands, Accounts, HandInv
    <3> QED
      BY <3>1, <1>8 DEF Alive
  <2> QED
    BY <2>1, <2>2, CalmKeeps
<1>11. WorkerInv'
  <2>1. ppid'[Worker] = 0 /\ Worker \in Proc
    BY <1>2, <1>3, <1>9 DEF Family, WorkerInv
  <2>2. state'[Worker] = "READY"
    BY <1>8, <1>9, <1>2 DEF Family, WorkerInv
  <2> QED
    BY <2>1, <2>2, <1>10 DEF Family, WorkerInv
<1>12. FirstInv'
  <2>1. pid[p] # 0
    BY <1>2, <1>9
  <2>2. \A q \in Made : ppid'[q] = 0 <=> ppid[q] = 0
    BY <2>1, <1>2, <1>3
  <2>3. Ordered' <=> Ordered
    BY DEF Ordered, listVars
  <2> QED
    BY <2>2, <2>3, <1>2, <1>10 DEF Family, FirstInv
<1>13. Parented'
  <2> SUFFICES ASSUME NEW q \in Made
               PROVE  \E r \in Owner : /\ pid[r] = ppid'[q]
                                       /\ state'[r] # "ZOMBIE" \/ pid[r] = 1
    BY <1>10 DEF Parented, Alive
  <2>1. CASE ppid[q] = pid[p]
    <3>1. ppid'[q] = 1
      BY <2>1, <1>2, <1>3
    <3>2. pid[UInit] = 1
      BY DEF Family, FirstInv
    <3> QED
      BY <3>1, <3>2, <1>9
  <2>2. CASE ppid[q] # pid[p]
    <3>1. PICK r \in Owner : pid[r] = ppid[q] /\ (Alive(r) \/ pid[r] = 1)
      BY DEF Family, Parented
    <3>2. ppid'[q] = ppid[q] /\ r # p /\ r \in Proc
      BY <3>1, <2>2, <1>2, <1>3
    <3> QED
      BY <3>1, <3>2, <1>8 DEF Alive
  <2> QED
    BY <2>1, <2>2
<1>14. Heard'
  <2>1. CASE p = UInit
    <3>1. ours = 0
      BY <2>1, <1>2, <1>3, <1>4, <1>9, Constants DEF Family, FirstInv
    <3>2. parent = Worker
      BY <3>1, <2>1, <1>5, <1>6, <1>9
    <3>3. heard
      BY <3>2, <1>7 DEF Family, WorkerInv
    <3> QED
      BY <3>2, <3>3, <1>1 DEF Heard
  <2>2. CASE p # UInit
    <3>1. state'[UInit] = "ZOMBIE" => state[UInit] = "ZOMBIE"
      BY <2>2, <1>2, <1>8, <1>9
    <3> QED
      BY <3>1, <1>1 DEF Family, Heard, Alive
  <2> QED
    BY <2>1, <2>2
<1>15. TakenInv'
  <2>1. \A q \in Proc : ppid'[q] = ppid[q] \/ ppid'[q] = 1
    BY <1>3
  <2>2. \A d \in Taken : pid[d] # 1 /\ ppid'[d] # 0
    BY <2>1, <1>2 DEF Family, TakenInv
  <2>3. \A d \in Unlinking, q \in Made : ppid'[q] # pid[d]
    BY <2>1, <2>2, <1>2 DEF Family, TakenInv
  <2> QED
    BY <2>2, <2>3, <1>10 DEF Family, TakenInv
<1>16. Wakes
  <2> SUFFICES ASSUME NEW r \in Made, NEW q \in Made, state[r] # "ZOMBIE",
                      state'[r] = "ZOMBIE", ppid[r] = pid[q],
                      "CHLD" \in sigmask[q]
               PROVE  state'[q] # "BLOCKED"
    BY DEF Wakes
  <2>1. r = p
    BY <1>2, <1>8
  <2>2. CASE q = p
    BY <2>2, <1>8
  <2>3. CASE q # p /\ ~Alive(q)
    BY <2>3, <1>2, <1>8 DEF Alive
  <2>4. CASE q # p /\ Alive(q)
    <3>1. q \in Owner
      BY <2>4, SetsAre DEF TypeOK
    <3>2. ours = pid[q]
      BY <2>1, <2>4, <3>1, <1>2, <1>3, <1>4, <1>9
    <3>3. parent = q
      BY <2>1, <3>1, <3>2, <1>5, <1>6, <1>9
    <3> QED
      BY <3>3, <2>4, <1>7, <1>8
  <2> QED
    BY <2>2, <2>3, <2>4
<1> QED
  BY <1>10, <1>11, <1>12, <1>13, <1>14, <1>15, <1>16 DEF Family

-----------------------------------------------------------------------------
(* The steps.                                                               *)

(* A step in which a process may sleep, wake or go on, but none dies.      *)
LEMMA CalmStep ==
    ASSUME TypeOK, Accounts, Family,
           UNCHANGED <<listVars, pid, ppid, kstack, child, noticed>>,
           \A q \in Proc : Alive(q) <=> state'[q] # "ZOMBIE",
           \A q \in Proc : \/ pc'[q] = pc[q]
                           \/ pc[q] \notin Labels /\ pc'[q] \notin Labels,
           LockInv',
           state'[Worker] = state[Worker], pc'[Worker] = pc[Worker],
           sigmask'[Worker] = sigmask[Worker]
    PROVE  Keeps
<1>0. /\ Owner \subseteq Proc /\ Made \subseteq Proc /\ Hands \subseteq Proc
      /\ Taken \subseteq Proc
  BY SetsAre DEF TypeOK, Hands
<1>1. \A q \in Hands : state'[q] # "ZOMBIE"
  BY <1>0 DEF Accounts, HandInv
<1>2. /\ Accounts' /\ Owner' = Owner /\ Made' = Made
      /\ Taken' = Taken /\ Unlinking' = Unlinking /\ Spawners' = Spawners
  BY <1>1, CalmKeeps
<1>3. Ordered => Ordered'
  BY DEF Ordered, listVars
<1>4. WorkerInv' /\ FirstInv' /\ Parented' /\ Heard'
  <2>1. \A q \in Owner : q \in Owner' /\ pid'[q] = pid[q]
    BY <1>2
  <2>2. \A q \in Owner : Alive(q) => state'[q] # "ZOMBIE"
    BY <1>0
  <2>3. /\ Made' \ Made = {} /\ noticed' = noticed
        /\ \A q \in Made : ppid'[q] = ppid[q]
        /\ Worker \in Made' /\ UInit \in Made'
    BY <1>2 DEF Family, WorkerInv, FirstInv
  <2> QED
    BY <2>1, <2>2, <2>3, <1>3, FamilyKeeps
<1>5. TakenInv'
  <2>1. TakenInv /\ Made' \ Made = {}
    BY <1>2 DEF Family
  <2> QED
    BY <2>1, <1>2, TakenKeeps
<1>6. Wakes
  BY <1>0 DEF Wakes, Alive
<1> QED
  BY <1>2, <1>4, <1>5, <1>6 DEF Keeps, Family

(* A step of sys_spawn or of proc_reap that changes nothing the family      *)
(* goes by.                                                                 *)
LEMMA PartStep ==
    ASSUME TypeOK, Accounts, Family, Accounts',
           Owner \subseteq Owner', Made' = Made, Taken' \subseteq Taken,
           Unlinking' \subseteq Unlinking, Spawners' \subseteq Spawners,
           UNCHANGED <<active, ppid, sigmask, noticed>>,
           \A q \in Owner \cup Taken : pid'[q] = pid[q],
           \A q \in Owner : Alive(q) => state'[q] = state[q],
           \A q \in Proc : state'[q] = "ZOMBIE" => ~Alive(q),
           pc'[Worker] = pc[Worker]
    PROVE  Keeps
<1>1. /\ Worker \in Owner /\ Alive(Worker) /\ Owner \subseteq Proc
      /\ Made \subseteq Proc /\ Spawners \subseteq Owner
  BY Relations, SetsAre DEF TypeOK
<1>2. Ordered => Ordered'
  BY DEF Ordered
<1>3. WorkerInv' /\ FirstInv' /\ Parented' /\ Heard'
  <2>1. \A q \in Owner : q \in Owner' /\ pid'[q] = pid[q]
    OBVIOUS
  <2>2. \A q \in Owner : Alive(q) => state'[q] # "ZOMBIE"
    BY DEF Alive
  <2>3. /\ Made' \ Made = {} /\ noticed' = noticed
        /\ \A q \in Made : ppid'[q] = ppid[q]
        /\ Worker \in Made' /\ UInit \in Made'
        /\ state'[Worker] = state[Worker]
        /\ sigmask'[Worker] = sigmask[Worker]
    BY <1>1 DEF Family, WorkerInv, FirstInv
  <2> QED
    BY <2>1, <2>2, <2>3, <1>2, FamilyKeeps
<1>4. TakenInv'
  <2>1. /\ TakenInv /\ Made' \ Made = {}
        /\ \A d \in Taken : pid'[d] = pid[d] /\ ppid'[d] = ppid[d]
        /\ \A q \in Spawners' : q \in Spawners /\ pid'[q] = pid[q]
        /\ \A q \in Made : q \in Made' => ppid'[q] = ppid[q]
    BY <1>1 DEF Family
  <2> QED
    BY <2>1, TakenKeeps
<1>5. Wakes
  BY <1>1 DEF Wakes, Alive
<1> QED
  BY <1>3, <1>4, <1>5 DEF Keeps, Family

(* What the steps of system calls have in common.                           *)
LEMMA CallsAre ==
    ASSUME TypeOK, Accounts, Family
    PROVE  /\ \A q \in Proc : state[q] = "READY" /\ pc[q] # "kernel" =>
                 q # Worker /\ q \in Owner /\ Alive(q) /\ pid[q] # 0
           /\ Worker \in Proc /\ KInit \in Proc /\ KInit # Worker
           /\ pc[Worker] = "kernel" /\ Worker \in Owner /\ Alive(Worker)
           /\ pc \in [Proc -> {"boot", "kernel", "user", "linking", "scanned",
                               "waiting", "exited"} \cup Spawning \cup Reaping]
           /\ DOMAIN pc = Proc
           /\ pid \in [Proc -> Pid] /\ ppid \in [Proc -> Pid]
           /\ sigmask \in [Proc -> SUBSET Sig]
           /\ state \in [Proc -> {"ZOMBIE", "BLOCKED", "READY"}]
<1>1. TypeOK /\ WorkerInv
  BY DEF Family
<1>2. /\ \A q \in Proc : state[q] = "READY" /\ pc[q] # "kernel" =>
            q # Worker /\ q \in Owner /\ pid[q] # 0
      /\ Worker \in Owner /\ Alive(Worker)
  BY Relations
<1>3. \A q : state[q] = "READY" => Alive(q)
  BY DEF Alive
<1>4. DOMAIN pc = Proc
  BY <1>1 DEF TypeOK
<1> QED
  BY <1>1, <1>2, <1>3, <1>4, Constants DEF TypeOK, WorkerInv

(* The parts of sys_spawn and of proc_reap begin.                           *)
LEMMA BeginSteps ==
    ASSUME TypeOK, Accounts, Family, NEW p \in Proc,
           BeginAlloc(p) \/ BeginList(p)
    PROVE  Keeps
<1>1. CASE BeginAlloc(p)
  <2>1. /\ pc[p] = "user" /\ state[p] = "READY" /\ ~Locked
        /\ pc' = [pc EXCEPT ![p] = "linking"]
        /\ UNCHANGED <<listVars, state, pid, ppid, sigmask, kstack, child,
                       noticed>>
    BY <1>1 DEF BeginAlloc, At, Goto
  <2>2. "user" \notin Labels /\ "linking" \notin Labels
    BY LabelsAre
  <2>3. /\ \A q \in Proc \ {p} : pc'[q] = pc[q]
        /\ pc'[p] = "linking" /\ pc'[Worker] = pc[Worker]
    BY <2>1, CallsAre
  <2>4. LockInv'
    BY <2>1, <2>3, LockTaken
  <2>5. \A q \in Proc : Alive(q) <=> state'[q] # "ZOMBIE"
    BY <2>1 DEF Alive
  <2>6. \A q \in Proc : \/ pc'[q] = pc[q]
                        \/ pc[q] \notin Labels /\ pc'[q] \notin Labels
    BY <2>1, <2>2, <2>3
  <2>7. state'[Worker] = state[Worker] /\ sigmask'[Worker] = sigmask[Worker]
    BY <2>1
  <2> QED
    BY <2>1, <2>3, <2>4, <2>5, <2>6, <2>7, CalmStep
<1>2. CASE BeginList(p)
  <2>1. /\ Accounts' /\ Owner' = Owner /\ Made' = Made /\ Taken' = Taken
        /\ Unlinking' = Unlinking /\ Spawners' = Spawners
    BY <1>2, BeginKeeps
  <2>2. /\ UNCHANGED <<active, state, pid, ppid, sigmask, noticed>>
        /\ state[p] = "READY" /\ pc[p] # "kernel"
        /\ \E l : pc' = [pc EXCEPT ![p] = l]
    BY <1>2 DEF BeginList, At, Goto, Begins, listVars
  <2>3. pc'[Worker] = pc[Worker]
    BY <2>2, CallsAre
  <2>4. \A q \in Proc : state'[q] = "ZOMBIE" => ~Alive(q)
    BY <2>2 DEF Alive
  <2> QED
    BY <2>1, <2>2, <2>3, <2>4, PartStep
<1> QED
  BY <1>1, <1>2

(* A descriptor joins the list, and nothing else happens.                   *)
LEMMA AllocStep ==
    ASSUME TypeOK, Accounts, Family, NEW p \in Proc, NEW d \in Proc,
           AllocProcess(p, d)
    PROVE  Keeps
<1>1. /\ Accounts' /\ Owner' = Owner /\ Made' = Made
      /\ Taken' = {} /\ Unlinking' = {}
  BY AllocKeeps
<1>2. /\ UNCHANGED <<state, pid, ppid, sigmask, noticed>>
      /\ pc' = [pc EXCEPT ![p] = "creating"] /\ p # Worker
      /\ active' = <<d>> \o active /\ active \in Seq(Proc)
  BY CallsAre DEF AllocProcess, At, Goto, TypeOK
<1>3. pc'[Worker] = pc[Worker]
  BY <1>2, CallsAre
<1>4. Ordered => Ordered'
  <2> SUFFICES ASSUME NEW i \in DOMAIN active, NEW j \in DOMAIN active,
                      i < j, active[i] = UInit, active[j] = KInit
               PROVE  Ordered'
    BY DEF Ordered
  <2>1. /\ i + 1 \in DOMAIN active' /\ active'[i + 1] = UInit
        /\ j + 1 \in DOMAIN active' /\ active'[j + 1] = KInit
        /\ i \in Int /\ j \in Int
    BY <1>2, PrependIs
  <2> QED
    BY <2>1 DEF Ordered
<1>5. WorkerInv' /\ FirstInv' /\ Parented' /\ Heard'
  <2>1. /\ \A q \in Owner : q \in Owner' /\ pid'[q] = pid[q]
        /\ \A q \in Owner : Alive(q) => state'[q] # "ZOMBIE"
        /\ Made' \ Made = {} /\ noticed' = noticed
        /\ \A q \in Made : ppid'[q] = ppid[q]
        /\ Worker \in Made' /\ UInit \in Made'
        /\ state'[Worker] = state[Worker]
        /\ sigmask'[Worker] = sigmask[Worker]
    BY <1>1, <1>2 DEF Alive, Family, WorkerInv, FirstInv
  <2> QED
    BY <2>1, <1>3, <1>4, FamilyKeeps
<1>6. TakenInv'
  BY <1>1 DEF TakenInv
<1> QED
  BY <1>1, <1>2, <1>5, <1>6 DEF Keeps, Family, Wakes

(* proc_create numbers the descriptor, gives it a stack and stops it.       *)
LEMMA CreateSteps ==
    ASSUME TypeOK, Accounts, Family, NEW p \in Proc,
           TakePid(p) \/ TakeStack(p) \/ CreateStopped(p)
    PROVE  Keeps
<1>1. CASE TakePid(p)
  <2> DEFINE d == child[p]
  <2>1. /\ Accounts' /\ d \in Proc /\ d \notin Owner /\ d \notin Taken
        /\ Owner' = Owner \cup {d} /\ Made' = Made /\ Taken' = Taken
        /\ Unlinking' = Unlinking /\ Spawners' = Spawners
    BY <1>1, TakePidKeeps
  <2>2. /\ UNCHANGED <<active, state, ppid, sigmask, noticed>>
        /\ state[p] = "READY" /\ pc[p] = "numbering"
        /\ pc' = [pc EXCEPT ![p] = "numbered"]
        /\ pid' = [pid EXCEPT ![d] = Head(pids)]
    BY <1>1 DEF TakePid, At, Goto
  <2> HIDE DEF d
  <2>3. /\ pc'[Worker] = pc[Worker]
        /\ \A q \in Proc \ {d} : pid'[q] = pid[q]
    BY <2>2, CallsAre
  <2>4. Owner \cup Taken \subseteq Proc \ {d}
    BY <2>1, SetsAre DEF TypeOK
  <2>5. \A q \in Proc : state'[q] = "ZOMBIE" => ~Alive(q)
    BY <2>2 DEF Alive
  <2> QED
    BY <2>1, <2>2, <2>3, <2>4, <2>5, PartStep
<1>2. CASE TakeStack(p)
  <2>1. /\ Accounts' /\ Owner' = Owner /\ Made' = Made /\ Taken' = Taken
        /\ Unlinking' = Unlinking /\ Spawners' = Spawners
    BY <1>2, TakeStackKeeps
  <2>2. /\ UNCHANGED <<active, state, pid, ppid, sigmask, noticed>>
        /\ state[p] = "READY" /\ pc[p] = "stacking"
        /\ pc' = [pc EXCEPT ![p] = "stacked"]
    BY <1>2 DEF TakeStack, At, Goto
  <2>3. pc'[Worker] = pc[Worker]
    BY <2>2, CallsAre
  <2>4. \A q \in Proc : state'[q] = "ZOMBIE" => ~Alive(q)
    BY <2>2 DEF Alive
  <2> QED
    BY <2>1, <2>2, <2>3, <2>4, PartStep
<1>3. CASE CreateStopped(p)
  <2> DEFINE d == child[p]
  <2>1. /\ Accounts' /\ d \in Proc /\ ~Alive(d) /\ Owner' = Owner
        /\ Made' = Made /\ Taken' = Taken /\ Unlinking' = Unlinking
        /\ Spawners' = Spawners
    BY <1>3, StoppedKeeps
  <2>2. /\ UNCHANGED <<active, pid, ppid, sigmask, noticed>>
        /\ state[p] = "READY" /\ pc[p] = "stacked"
        /\ state' = [state EXCEPT ![d] = "BLOCKED"]
        /\ pc' = [pc EXCEPT ![p] = "created", ![d] = "user"]
    BY <1>3 DEF CreateStopped, At, listVars
  <2> HIDE DEF d
  <2>3. d # Worker /\ p # Worker
    BY <2>1, <2>2, CallsAre
  <2>4. /\ pc'[Worker] = pc[Worker] /\ state'[d] = "BLOCKED"
        /\ \A q \in Proc \ {d} : state'[q] = state[q]
    BY <2>1, <2>2, <2>3, CallsAre
  <2>5. \A q \in Proc : state'[q] = "ZOMBIE" => ~Alive(q)
    BY <2>4 DEF Alive
  <2>6. \A q \in Owner : Alive(q) => state'[q] = state[q]
    BY <2>1, <2>4, SetsAre DEF TypeOK
  <2> QED
    BY <2>1, <2>2, <2>4, <2>5, <2>6, PartStep
<1> QED
  BY <1>1, <1>2, <1>3

(* The new process gets its parent, which lives.                            *)
LEMMA InheritStep ==
    ASSUME TypeOK, Accounts, Family, NEW p \in Proc, Inherit(p)
    PROVE  Keeps
<1> DEFINE d == child[p]
<1>1. /\ Accounts' /\ p \in Spawners /\ d \in Half /\ d \notin Taken
      /\ Owner' = Owner /\ Made' = Made \cup {d} /\ Taken' = Taken
      /\ Unlinking' = Unlinking /\ Spawners' = Spawners \ {p}
  BY InheritKeeps
<1>2. /\ UNCHANGED <<active, state, pid, noticed>>
      /\ state[p] = "READY" /\ pc[p] = "created"
      /\ pc' = [pc EXCEPT ![p] = "user"]
      /\ ppid' = [ppid EXCEPT ![d] = pid[p]]
      /\ sigmask' = [sigmask EXCEPT ![d] = sigmask[p] \cup {"STOP", "KILL"}]
  BY DEF Inherit, At, Goto, listVars
<1> HIDE DEF d
<1>3. /\ d \notin Made /\ d \in Proc /\ Made \subseteq Proc
      /\ Taken \subseteq Proc /\ Worker \in Made /\ UInit \in Made
  BY <1>1, SetsAre DEF TypeOK, Family, WorkerInv, FirstInv
<1>4. p \in Owner /\ Alive(p) /\ pid[p] # 0 /\ p # Worker
  BY <1>2, CallsAre
<1>5. /\ \A q \in Proc \ {d} : ppid'[q] = ppid[q] /\ sigmask'[q] = sigmask[q]
      /\ ppid'[d] = pid[p] /\ pc'[Worker] = pc[Worker]
  BY <1>2, <1>3, <1>4, CallsAre
<1>6. Ordered => Ordered'
  BY <1>2 DEF Ordered
<1>7. WorkerInv' /\ FirstInv' /\ Parented' /\ Heard'
  <2>1. /\ \A q \in Owner : q \in Owner' /\ pid'[q] = pid[q]
        /\ \A q \in Owner : Alive(q) => state'[q] # "ZOMBIE"
    BY <1>1, <1>2 DEF Alive
  <2>2. /\ Worker \in Made' /\ UInit \in Made' /\ noticed' = noticed
        /\ \A q \in Made : ppid'[q] = ppid[q]
        /\ state'[Worker] = state[Worker]
        /\ sigmask'[Worker] = sigmask[Worker]
    BY <1>1, <1>2, <1>3, <1>5
  <2>3. \A q \in Made' \ Made :
           ppid'[q] # 0 /\ \E r \in Owner : Alive(r) /\ pid[r] = ppid'[q]
    BY <1>1, <1>4, <1>5
  <2> QED
    BY <2>1, <2>2, <2>3, <1>5, <1>6, FamilyKeeps
<1>8. TakenInv'
  <2>1. /\ TakenInv
        /\ \A e \in Taken : pid'[e] = pid[e] /\ ppid'[e] = ppid[e]
        /\ \A q \in Spawners' : q \in Spawners /\ pid'[q] = pid[q]
        /\ \A q \in Made : q \in Made' => ppid'[q] = ppid[q]
        /\ \A q \in Made' \ Made : \E r \in Spawners : ppid'[q] = pid[r]
    BY <1>1, <1>2, <1>3, <1>5 DEF Family
  <2> QED
    BY <2>1, <1>1, TakenKeeps
<1>9. Wakes
  BY <1>2 DEF Wakes
<1> QED
  BY <1>1, <1>7, <1>8, <1>9 DEF Keeps, Family

(* The parts of sys_spawn keep the invariant.                               *)
LEMMA SpawnSteps ==
    ASSUME TypeOK, Accounts, Family, NEW p \in Proc,
           \/ BeginAlloc(p) \/ (\E d \in Proc : AllocProcess(p, d))
           \/ BeginList(p) \/ Collide(p)
           \/ TakePid(p) \/ CreateFails(p) \/ TakeStack(p) \/ CreateStopped(p)
           \/ Inherit(p)
    PROVE  Keeps
<1>1. CASE Collide(p)
  BY <1>1 DEF Collide, Keeps
<1>2. CASE CreateFails(p)
  BY <1>2 DEF CreateFails, Keeps
<1> QED
  BY <1>1, <1>2, BeginSteps, AllocStep, CreateSteps, InheritStep

(* A step in which one process dies. *)
LEMMA DeathStep ==
    ASSUME TypeOK, Accounts, Family,
           NEW p \in Proc, p # Worker, Alive(p), Die(p), pc[p] \notin Reaping,
           UNCHANGED <<listVars, pid, sigmask, kstack, child>>,
           \A q \in Proc : \/ pc'[q] = pc[q]
                           \/ pc[q] \notin Labels /\ pc'[q] \notin Labels,
           LockInv', pc'[Worker] = pc[Worker]
    PROVE  Keeps
BY DieKeeps DEF Keeps

(* A signal is sent on purpose by a process that is not the worker; SIGKILL *)
(* not while anybody reaps under the lock.                                  *)
LEMMA SendStep ==
    ASSUME TypeOK, Accounts, Family, NEW q, NEW sig \in Sent, Send(q, sig),
           q # NoProc => q \in Proc,
           sig = "KILL" => ~Locked,
           UNCHANGED <<listVars, pid, sigmask, kstack, child>>,
           \A r \in Proc : \/ pc'[r] = pc[r]
                           \/ pc[r] \notin Labels /\ pc'[r] \notin Labels,
           LockInv', pc'[Worker] = pc[Worker]
    PROVE  Keeps
<1>1. /\ q \in Proc /\ sig \in sigmask[q] /\ Alive(q)
      /\ \/ sig = "KILL" /\ Die(q)
         \/ /\ state[q] = "BLOCKED" /\ state' = [state EXCEPT ![q] = "READY"]
            /\ UNCHANGED <<ppid, noticed, mishap>>
         \/ /\ state[q] = "READY" /\ state' = [state EXCEPT ![q] = "BLOCKED"]
            /\ UNCHANGED <<ppid, noticed, mishap>>
  BY DEF Send, Alive
<1>2. q # Worker
  BY <1>1 DEF Sent, Family, WorkerInv
<1>3. CASE sig = "KILL" /\ Die(q)
  <2>1. pc[q] \notin Reaping
    BY <1>1, <1>3 DEF Locked
  <2> QED
    BY <2>1, <1>1, <1>2, <1>3, DeathStep
<1>4. ASSUME NEW st \in {"READY", "BLOCKED"},
             state' = [state EXCEPT ![q] = st],
             UNCHANGED <<ppid, noticed, mishap>>
      PROVE  Keeps
  <2>1. state \in [Proc -> {"ZOMBIE", "BLOCKED", "READY"}] /\ Worker \in Proc
    BY Constants DEF TypeOK
  <2>2. /\ \A r \in Proc : Alive(r) <=> state'[r] # "ZOMBIE"
        /\ state'[Worker] = state[Worker]
    BY <2>1, <1>1, <1>2, <1>4 DEF Alive
  <2> QED
    BY <2>2, <1>4, CalmStep
<1> QED
  BY <1>1, <1>3, <1>4

(* A step that goes from one label outside of sys_spawn and proc_reap to    *)
(* another.                                                                 *)
LEMMA Outside ==
    ASSUME TypeOK, Accounts, Family, NEW p \in Proc, p # Worker, NEW l,
           pc' = [pc EXCEPT ![p] = l],
           pc[p] \notin Labels \cup InList, l \notin Labels \cup InList
    PROVE  /\ \A q \in Proc : \/ pc'[q] = pc[q]
                              \/ pc[q] \notin Labels /\ pc'[q] \notin Labels
           /\ LockInv' /\ pc'[Worker] = pc[Worker]
<1>1. /\ \A q \in Proc \ {p} : pc'[q] = pc[q]
      /\ pc'[p] = l /\ pc'[Worker] = pc[Worker]
  BY CallsAre
<1>2. \A q \in Proc : pc'[q] \in Reaping \cup InList
                         => pc[q] \in Reaping \cup InList
  BY <1>1, LabelsAre
<1>3. LockInv'
  BY <1>2, LockStays DEF Accounts
<1> QED
  BY <1>1, <1>3

(* sys_exit and sys_kill keep the invariant, ... *)
LEMMA EndSteps ==
    ASSUME TypeOK, Accounts, Family, NEW p \in Proc,
           Exit(p) \/ \E t \in Pid, sig \in Sent : Kill(p, t, sig)
    PROVE  Keeps
<1>1. /\ "user" \notin Labels \cup InList /\ "exited" \notin Labels \cup InList
      /\ "user" \notin Reaping
  BY LabelsAre
<1>2. CASE Exit(p)
  <2>1. /\ p # Worker /\ Alive(p) /\ Die(p) /\ pc[p] = "user"
        /\ pc' = [pc EXCEPT ![p] = "exited"]
        /\ UNCHANGED <<listVars, pid, sigmask, kstack, child>>
    BY <1>2, CallsAre DEF Exit, At, Goto
  <2>2. /\ \A q \in Proc : \/ pc'[q] = pc[q]
                           \/ pc[q] \notin Labels /\ pc'[q] \notin Labels
        /\ LockInv' /\ pc'[Worker] = pc[Worker]
    BY <2>1, <1>1, Outside
  <2> QED
    BY <2>1, <2>2, <1>1, DeathStep
<1>3. ASSUME NEW t \in Pid, NEW sig \in Sent, Kill(p, t, sig)
      PROVE  Keeps
  <2>1. /\ p # Worker /\ Send(Find(t), sig) /\ pc[p] = "user" /\ ~Locked
        /\ pc' = [pc EXCEPT ![p] = "exited"] \/ pc' = pc
        /\ UNCHANGED <<listVars, pid, sigmask, kstack, child>>
    BY <1>3, CallsAre DEF Kill, At, Goto
  <2>2. Find(t) # NoProc => Find(t) \in Proc
    BY Found
  <2>3. /\ \A q \in Proc : \/ pc'[q] = pc[q]
                           \/ pc[q] \notin Labels /\ pc'[q] \notin Labels
        /\ LockInv' /\ pc'[Worker] = pc[Worker]
    <3>1. CASE pc' = [pc EXCEPT ![p] = "exited"]
      BY <3>1, <2>1, <1>1, Outside
    <3>2. CASE pc' = pc
      BY <3>2, LockStays DEF Accounts
    <3> QED
      BY <2>1, <3>1, <3>2
  <2> QED
    BY <2>1, <2>2, <2>3, SendStep
<1> QED
  BY <1>2, <1>3

(* ... so do sys_sigprocmask and the scans of sys_waitpid, ...              *)
LEMMA QuietSteps ==
    ASSUME TypeOK, Accounts, Family, NEW p \in Proc,
           \/ \E blocked \in {{}, {"CHLD"}} : SigProcMask(p, blocked)
           \/ WaitBlock(p) \/ (\E w \in WaitFor : WaitScan(p, w))
    PROVE  Keeps
<1>1. /\ "user" \notin Labels \cup InList /\ "scanned" \notin Labels \cup InList
      /\ "waiting" \notin Labels \cup InList
  BY LabelsAre
<1>2. ASSUME NEW blocked \in {{}, {"CHLD"}}, SigProcMask(p, blocked)
      PROVE  Keeps
  <2>1. /\ p # Worker /\ sigmask' = [sigmask EXCEPT ![p] = Sig \ blocked]
        /\ UNCHANGED <<listVars, state, pid, ppid, kstack, pc, child, noticed>>
    BY <1>2, CallsAre DEF SigProcMask, At
  <2>2. sigmask'[Worker] = sigmask[Worker]
    BY <2>1, CallsAre
  <2>3. \A q \in Proc : Alive(q) <=> state'[q] # "ZOMBIE"
    BY <2>1 DEF Alive
  <2>4. LockInv'
    BY <2>1, LockStays DEF Accounts
  <2> QED
    BY <2>1, <2>2, <2>3, <2>4, CalmStep
<1>3. ASSUME WaitBlock(p)
      PROVE  Keeps
  <2>1. /\ p # Worker /\ state' = [state EXCEPT ![p] = "BLOCKED"]
        /\ pc' = [pc EXCEPT ![p] = "waiting"] /\ pc[p] = "scanned"
        /\ state[p] = "READY"
        /\ UNCHANGED <<listVars, pid, ppid, sigmask, kstack, child, noticed>>
    BY <1>3, CallsAre DEF WaitBlock, At, Goto
  <2>2. /\ state'[Worker] = state[Worker] /\ sigmask'[Worker] = sigmask[Worker]
        /\ \A r \in Proc : Alive(r) <=> state'[r] # "ZOMBIE"
    BY <2>1, CallsAre DEF Alive
  <2>3. /\ \A q \in Proc : \/ pc'[q] = pc[q]
                           \/ pc[q] \notin Labels /\ pc'[q] \notin Labels
        /\ LockInv' /\ pc'[Worker] = pc[Worker]
    BY <2>1, <1>1, Outside
  <2> QED
    BY <2>1, <2>2, <2>3, CalmStep
<1>4. ASSUME NEW w \in WaitFor, WaitScan(p, w)
      PROVE  Keeps
  <2>1. /\ p # Worker
        /\ pc' = [pc EXCEPT ![p] = "scanned"] /\ pc[p] = "user"
        /\ UNCHANGED <<listVars, state, pid, ppid, sigmask, kstack, child,
                       noticed>>
    BY <1>4, CallsAre DEF WaitScan, At, Goto
  <2>2. /\ state'[Worker] = state[Worker] /\ sigmask'[Worker] = sigmask[Worker]
        /\ \A r \in Proc : Alive(r) <=> state'[r] # "ZOMBIE"
    BY <2>1 DEF Alive
  <2>3. /\ \A q \in Proc : \/ pc'[q] = pc[q]
                           \/ pc[q] \notin Labels /\ pc'[q] \notin Labels
        /\ LockInv' /\ pc'[Worker] = pc[Worker]
    BY <2>1, <1>1, Outside
  <2> QED
    BY <2>1, <2>2, <2>3, CalmStep
<1> QED
  BY <1>2, <1>3, <1>4

(* ... and the end of the boot.                                             *)
LEMMA BootSteps ==
    ASSUME TypeOK, Accounts, Family, BootInit \/ BootExit
    PROVE  Keeps
<1>1. /\ "boot" \notin Labels \cup InList /\ "kernel" \notin Labels \cup InList
      /\ "kernel" \notin Reaping
  BY LabelsAre
<1>2. CASE BootInit
  <2>1. /\ Send(Find(1), "CONT") /\ pc[KInit] = "boot"
        /\ pc' = [pc EXCEPT ![KInit] = "kernel"]
        /\ UNCHANGED <<listVars, pid, sigmask, kstack, child>>
    BY <1>2 DEF BootInit, At, Goto
  <2>2. Find(1) # NoProc => Find(1) \in Proc
    BY Found
  <2>3. /\ \A q \in Proc : \/ pc'[q] = pc[q]
                           \/ pc[q] \notin Labels /\ pc'[q] \notin Labels
        /\ LockInv' /\ pc'[Worker] = pc[Worker]
    BY <2>1, <1>1, CallsAre, Outside
  <2>4. "CONT" \in Sent
    BY DEF Sent
  <2> QED
    BY <2>1, <2>2, <2>3, <2>4, SendStep
<1>3. CASE BootExit
  <2>1. /\ Alive(KInit) /\ Die(KInit) /\ pc[KInit] = "kernel"
        /\ UNCHANGED <<listVars, pid, sigmask, kstack, pc, child>>
    BY <1>3 DEF BootExit, At, Alive
  <2>2. LockInv'
    BY <2>1, LockStays DEF Accounts
  <2> QED
    BY <2>1, <2>2, <1>1, CallsAre, DeathStep
<1> QED
  BY <1>2, <1>3

(* sys_waitpid takes a child of its caller in hand. *)
LEMMA BeginReapStep ==
    ASSUME TypeOK, Accounts, Family, NEW p \in Proc,
           state[p] = "READY", pc[p] # "kernel", pc[p] \notin Labels, ~Locked,
           NEW w, Dead(p, w) # {}, BeginReap(p, First(Dead(p, w))),
           UNCHANGED <<listVars, state, pid, ppid, sigmask, kstack, noticed>>
    PROVE  Keeps
<1> SUFFICES ASSUME mishap' = {}
             PROVE  Accounts' /\ Family' /\ Wakes
  BY DEF Keeps
<1> DEFINE d == First(Dead(p, w))
<1>1. Dead(p, w) \cap Listed = Dead(p, w)
  BY DEF Dead, Children
<1>2. d \in Dead(p, w) /\ d \in Listed
  BY <1>1, FirstIs DEF TypeOK
<1>3. ~Alive(d) /\ ppid[d] = pid[p]
  BY <1>2 DEF Dead, Children, Alive
<1>4. BeginReap(p, d)
  OBVIOUS
<1> HIDE DEF d
<1>5. /\ Accounts' /\ d \in Owner /\ Owner' = Owner /\ Made' = Made
      /\ Taken' = {d} /\ Unlinking' = {}
  BY <1>2, <1>3, <1>4, BeginReapKeeps
<1>6. p # Worker /\ pid[p] # 0 /\ pc' = [pc EXCEPT ![p] = "reaping"]
  BY <1>4, CallsAre DEF BeginReap, Goto
<1>7. pc'[Worker] = pc[Worker]
  BY <1>6, CallsAre
<1>8. pid[d] # 1 /\ ppid[d] # 0
  BY <1>3, <1>5, <1>6, Relations DEF Family, FirstInv
<1>9. WorkerInv' /\ FirstInv' /\ Parented' /\ Heard'
  <2>1. Ordered => Ordered'
    BY DEF Ordered, listVars
  <2>2. /\ \A q \in Owner : q \in Owner' /\ pid'[q] = pid[q]
        /\ \A q \in Owner : Alive(q) => state'[q] # "ZOMBIE"
        /\ Made' \ Made = {} /\ noticed' = noticed
        /\ \A q \in Made : ppid'[q] = ppid[q]
        /\ Worker \in Made' /\ UInit \in Made'
        /\ state'[Worker] = state[Worker]
        /\ sigmask'[Worker] = sigmask[Worker]
    BY <1>5 DEF Alive, Family, WorkerInv, FirstInv
  <2> QED
    BY <2>1, <2>2, <1>7, FamilyKeeps
<1>10. TakenInv'
  BY <1>5, <1>8 DEF TakenInv
<1>11. Wakes
  BY DEF Wakes
<1> QED
  BY <1>5, <1>9, <1>10, <1>11 DEF Family

(* Both scans of sys_waitpid keep the invariant. *)
LEMMA WaitSteps ==
    ASSUME TypeOK, Accounts, Family, NEW p \in Proc,
           (\E w \in WaitFor : WaitReap(p, w)) \/ WaitRescan(p)
    PROVE  Keeps
<1>1. /\ "user" \notin Labels \cup InList /\ "waiting" \notin Labels \cup InList
  BY LabelsAre
<1>2. ASSUME NEW w \in WaitFor, WaitReap(p, w)
      PROVE  Keeps
  <2>1. /\ state[p] = "READY" /\ pc[p] = "user" /\ ~Locked
        /\ Dead(p, w) # {} /\ BeginReap(p, First(Dead(p, w)))
        /\ UNCHANGED <<listVars, state, pid, ppid, sigmask, kstack, noticed>>
    BY <1>2 DEF WaitReap, At
  <2> QED
    BY <2>1, <1>1, BeginReapStep
<1>3. ASSUME WaitRescan(p)
      PROVE  Keeps
  <2> DEFINE w == want[p]
  <2>1. /\ state[p] = "READY" /\ pc[p] = "waiting" /\ ~Locked
        /\ IF Dead(p, w) # {} THEN BeginReap(p, First(Dead(p, w)))
                              ELSE Goto(p, "user") /\ UNCHANGED <<child, mishap>>
        /\ UNCHANGED <<listVars, state, pid, ppid, sigmask, kstack, noticed>>
    BY <1>3 DEF WaitRescan, At
  <2> HIDE DEF w
  <2>2. CASE Dead(p, w) # {}
    BY <2>1, <2>2, <1>1, BeginReapStep
  <2>3. CASE Dead(p, w) = {}
    <3>1. pc' = [pc EXCEPT ![p] = "user"] /\ child' = child
      BY <2>1, <2>3 DEF Goto
    <3>2. p # Worker
      BY <2>1, CallsAre
    <3>3. /\ \A q \in Proc : \/ pc'[q] = pc[q]
                             \/ pc[q] \notin Labels /\ pc'[q] \notin Labels
          /\ LockInv' /\ pc'[Worker] = pc[Worker]
      BY <3>1, <3>2, <2>1, <1>1, Outside
    <3>4. \A q \in Proc : Alive(q) <=> state'[q] # "ZOMBIE"
      BY <2>1 DEF Alive
    <3>5. state'[Worker] = state[Worker] /\ sigmask'[Worker] = sigmask[Worker]
      BY <2>1
    <3> QED
      BY <2>1, <3>1, <3>3, <3>4, <3>5, CalmStep
  <2> QED
    BY <2>2, <2>3
<1> QED
  BY <1>2, <1>3

(* Who is in the hands of sys_waitpid is neither the worker nor init.       *)
LEMMA TakenAre ==
    ASSUME TypeOK, Accounts, Family, NEW d \in Taken
    PROVE  d # Worker /\ d # UInit /\ ~Alive(d) /\ ppid[d] # 0
BY SetsAre DEF TypeOK, Family, TakenInv, WorkerInv, FirstInv, Alive

(* The pid of a zombie is free again: it was nobody's parent any more.      *)
LEMMA ReapPidStep ==
    ASSUME TypeOK, Accounts, Family, NEW p \in Proc, ReapPid(p)
    PROVE  Keeps
<1> DEFINE d == child[p]
<1>1. /\ Accounts' /\ d \in Proc /\ d \in Owner /\ d \in Taken
      /\ Owner' = Owner \ {d} /\ Made' = Made /\ Taken' = Taken
      /\ Unlinking' = {d} /\ Spawners' = Spawners /\ ~Alive(d)
  BY ReapPidKeeps
<1>2. /\ UNCHANGED <<active, state, pid, ppid, sigmask, noticed>>
      /\ state[p] = "READY" /\ pc[p] = "unnumbering"
      /\ pc' = [pc EXCEPT ![p] = "unlinking"]
  BY DEF ReapPid, At, Goto
<1> HIDE DEF d
<1>3. d # Worker /\ d # UInit /\ pid[d] # 1
  BY <1>1, TakenAre DEF Family, TakenInv
<1>4. pc'[Worker] = pc[Worker]
  BY <1>2, CallsAre
<1>5. \A q \in Owner : pid[q] = pid[d] => q = d
  BY <1>1 DEF Accounts, PidInv
<1>6. \A q \in Made : ppid[q] # pid[d]
  BY <1>1, <1>3, <1>5 DEF Family, Parented
<1>7. \A q \in Spawners : pid[q] # pid[d]
  <2>1. \A q \in Spawners : q \in Owner /\ Alive(q)
    BY SetsAre DEF TypeOK, Accounts, HandInv
  <2> QED
    BY <2>1, <1>1, <1>5
<1>8. WorkerInv' /\ FirstInv' /\ Parented' /\ Heard'
  <2>1. Ordered => Ordered'
    BY <1>2 DEF Ordered
  <2>2. /\ \A q \in Owner : Alive(q) \/ pid[q] = 1 =>
              q \in Owner' /\ pid'[q] = pid[q]
        /\ \A q \in Owner : Alive(q) => state'[q] # "ZOMBIE"
        /\ Made' \ Made = {} /\ noticed' = noticed
        /\ \A q \in Made : ppid'[q] = ppid[q]
        /\ Worker \in Made' /\ UInit \in Made'
        /\ state'[Worker] = state[Worker]
        /\ sigmask'[Worker] = sigmask[Worker]
    BY <1>1, <1>2, <1>3 DEF Alive, Family, WorkerInv, FirstInv
  <2> QED
    BY <2>1, <2>2, <1>4, FamilyKeeps
<1>9. TakenInv'
  BY <1>1, <1>2, <1>6, <1>7 DEF Family, TakenInv
<1>10. Wakes
  BY <1>2 DEF Wakes
<1> QED
  BY <1>1, <1>8, <1>9, <1>10 DEF Keeps, Family

(* The descriptor is free again. *)
LEMMA ReapProcessStep ==
    ASSUME TypeOK, Accounts, Family, NEW p \in Proc, ReapProcess(p)
    PROVE  Keeps
<1> DEFINE d == child[p]
<1>1. /\ Accounts' /\ d \in Listed /\ d \in Taken /\ ~Alive(d)
      /\ FreeProcess(d) /\ Owner' = Owner /\ Made' = Made \ {d}
      /\ Taken' = Taken \ {d} /\ Unlinking' = Unlinking \ {d}
      /\ Spawners' = Spawners
  BY ReapProcessKeeps
<1>2. /\ UNCHANGED <<state, pid, ppid, sigmask, noticed>>
      /\ state[p] = "READY" /\ pc[p] = "unlinking"
      /\ pc' = [pc EXCEPT ![p] = "user"]
  BY DEF ReapProcess, At, Goto
<1> HIDE DEF d
<1>3. d # UInit
  BY <1>1, TakenAre
<1>4. pc'[Worker] = pc[Worker]
  BY <1>2, CallsAre
<1>5. WorkerInv' /\ FirstInv' /\ Parented' /\ Heard'
  BY <1>1, <1>2, <1>3, <1>4, GoneFamily
<1>6. TakenInv'
  <2>1. TakenInv /\ Made' \ Made = {}
    BY <1>1 DEF Family
  <2> QED
    BY <2>1, <1>1, <1>2, TakenKeeps
<1>7. Wakes
  BY <1>2 DEF Wakes
<1> QED
  BY <1>1, <1>5, <1>6, <1>7 DEF Keeps, Family

(* The parts of proc_reap keep the invariant.                               *)
LEMMA ReapSteps ==
    ASSUME TypeOK, Accounts, Family, NEW p \in Proc,
           ReapStack(p) \/ ReapPid(p) \/ ReapProcess(p)
    PROVE  Keeps
<1>1. CASE ReapStack(p)
  <2>1. /\ Accounts' /\ Owner' = Owner /\ Made' = Made /\ Taken' = Taken
        /\ Unlinking' = Unlinking /\ Spawners' = Spawners
    BY <1>1, ReapStackKeeps
  <2>2. /\ UNCHANGED <<active, state, pid, ppid, sigmask, noticed>>
        /\ state[p] = "READY" /\ pc[p] = "unstacking"
        /\ pc' = [pc EXCEPT ![p] = "unstacked"]
    BY <1>1 DEF ReapStack, At, Goto
  <2>3. pc'[Worker] = pc[Worker]
    BY <2>2, CallsAre
  <2>4. \A q \in Proc : state'[q] = "ZOMBIE" => ~Alive(q)
    BY <2>2 DEF Alive
  <2> QED
    BY <2>1, <2>2, <2>3, <2>4, PartStep
<1> QED
  BY <1>1, ReapPidStep, ReapProcessStep

(* The worker reaps init, if it is dead, before anybody else.               *)
LEMMA WorkerStep ==
    ASSUME TypeOK, Accounts, Family, WorkerReap
    PROVE  Keeps
<1> SUFFICES ASSUME mishap' = {}
             PROVE  Accounts' /\ (~halted' => Family') /\ Wakes
  BY DEF Keeps
<1> DEFINE d == First(Orphans)
<1>1. /\ IF Orphans = {} THEN UNCHANGED <<listVars, mishap>> ELSE Reap(d)
      /\ halted' = (Orphans # {} /\ pid[d] = 1) /\ noticed' = halted'
      /\ UNCHANGED <<state, pid, ppid, sigmask, kstack, pc, child>>
  BY DEF WorkerReap
<1>2. /\ UInit \in Made /\ pid[UInit] = 1 /\ ppid[UInit] = 0
      /\ Worker \in Made /\ Alive(Worker)
  BY DEF Family, WorkerInv, FirstInv, Alive
<1>3. Made = Listed \ Half
  BY SetsAre DEF TypeOK
<1>4. \A q : q \in Orphans <=> q \in Listed /\ ~Alive(q) /\ ppid[q] = 0
  BY DEF Orphans, Alive
<1>5. Wakes
  BY <1>1 DEF Wakes
<1>6. CASE Orphans = {}
  <2>1. Alive(UInit)
    BY <1>2, <1>3, <1>4, <1>6
  <2>2. /\ Accounts' /\ Owner' = Owner /\ Made' = Made
        /\ Taken' = Taken /\ Unlinking' = Unlinking /\ Spawners' = Spawners
    <3>1. \A q \in Proc : state'[q] # "ZOMBIE" => Alive(q)
      BY <1>1 DEF Alive
    <3>2. \A q \in Hands : state'[q] # "ZOMBIE"
      BY <1>1 DEF Accounts, HandInv, Alive
    <3>3. LockInv'
      BY <1>1, LockStays DEF Accounts
    <3> QED
      BY <3>1, <3>2, <3>3, <1>1, <1>6, CalmKeeps
  <2>3. WorkerInv' /\ FirstInv' /\ Parented'
    <3>1. Ordered => Ordered'
      BY <1>1, <1>6 DEF Ordered, listVars
    <3>2. /\ \A q \in Owner : q \in Owner' /\ pid'[q] = pid[q]
          /\ \A q \in Owner : Alive(q) => state'[q] # "ZOMBIE"
          /\ Made' \ Made = {}
          /\ \A q \in Made : ppid'[q] = ppid[q]
          /\ Worker \in Made' /\ UInit \in Made'
      BY <2>2, <1>1, <1>2 DEF Alive
    <3> QED
      BY <3>1, <3>2, <1>1, FamilyKeeps
  <2>4. TakenInv'
    <3>1. TakenInv /\ Made' \ Made = {}
      BY <2>2 DEF Family
    <3> QED
      BY <3>1, <2>2, <1>1, TakenKeeps
  <2>5. Heard'
    BY <2>1, <1>1 DEF Heard, Alive
  <2> QED
    BY <2>2, <2>3, <2>4, <2>5, <1>5 DEF Family
<1>7. CASE Orphans # {}
  <2>1. Orphans \cap Listed = Orphans
    BY <1>4
  <2>2. /\ d \in Orphans /\ d \in Listed
        /\ \E i \in DOMAIN active :
              /\ active[i] = d
              /\ \A j \in DOMAIN active : j < i => active[j] \notin Orphans
    BY <2>1, <1>7, FirstIs DEF TypeOK
  <2>3. Reap(d)
    BY <1>1, <1>7
  <2> HIDE DEF d
  <2>4. ~Alive(d) /\ ppid[d] = 0
    BY <2>2, <1>4
  <2>5. d \notin Half /\ d \notin Taken
    <3>1. d \notin Half
      BY <2>3 DEF Reap, Chosen, Half
    <3> QED
      BY <3>1, <2>4, TakenAre
  <2>6. /\ Accounts' /\ Owner' = Owner \ {d} /\ Made' = Made \ {d}
        /\ Taken' = Taken /\ Unlinking' = Unlinking /\ Spawners' = Spawners
    BY <2>2, <2>3, <2>4, <2>5, <1>1, ReapKeeps
  <2>7. d \in Made /\ d \in {UInit, KInit}
    BY <2>2, <2>4, <2>5, <1>2, <1>3 DEF Family, FirstInv
  <2>8. CASE d = UInit
    BY <2>6, <2>8, <1>1, <1>2, <1>5, <1>7
  <2>9. CASE d = KInit /\ d # UInit
    <3>1. WorkerInv' /\ FirstInv' /\ Parented'
      BY <2>2, <2>3, <2>4, <2>6, <2>9, <1>1, GoneFamily DEF Reap
    <3>2. Alive(UInit)
      <4>1. PICK i \in DOMAIN active, j \in DOMAIN active :
               i < j /\ active[i] = UInit /\ active[j] = d
        BY <2>4, <2>7, <2>9 DEF Family, FirstInv, Ordered
      <4>2. PICK k \in DOMAIN active :
               /\ active[k] = d
               /\ \A l \in DOMAIN active : l < k => active[l] \notin Orphans
        BY <2>2
      <4>3. k = j
        BY <4>1, <4>2 DEF Accounts, ListInv
      <4>4. UInit \notin Orphans
        BY <4>1, <4>2, <4>3
      <4> QED
        BY <4>4, <1>2, <1>3, <1>4
    <3>3. Heard'
      BY <3>2, <1>1 DEF Heard, Alive
    <3>4. TakenInv'
      <4>1. TakenInv /\ Made' \ Made = {}
        BY <2>6 DEF Family
      <4> QED
        BY <4>1, <2>6, <1>1, TakenKeeps
    <3> QED
      BY <2>6, <3>1, <3>3, <3>4, <1>5 DEF Family
  <2> QED
    BY <2>7, <2>8, <2>9
<1> QED
  BY <1>6, <1>7

-----------------------------------------------------------------------------
(* Types.                                                                   *)

(* The types, by what the actions have in common: a death,                  *)
LEMMA DieTypes ==
    ASSUME TypeOK, NEW p \in Proc, Die(p)
    PROVE  /\ state' \in [Proc -> {"ZOMBIE", "BLOCKED", "READY"}]
           /\ ppid' \in [Proc -> Pid] /\ noticed' \in BOOLEAN
           /\ mishap' \subseteq Mishap
<1> DEFINE parent == Find(Reparented(p)[p])
           heard == parent \notin {NoProc, p} /\ "CHLD" \in sigmask[parent]
<1>1. /\ state' = [q \in Proc |->
                      IF q = p THEN "ZOMBIE"
                      ELSE IF q \in {r \in {parent} : heard /\ state[r] = "BLOCKED"}
                             THEN "READY" ELSE state[q]]
      /\ ppid' = Reparented(p)
      /\ noticed' = (noticed \/ (heard /\ parent = Worker))
      /\ mishap' = Hidden(parent)
            \cup {m \in {"abandoned"} : pc[p] \in Spawning}
            \cup {m \in {"stopped"} : parent = NoProc}
  BY DEF Die
<1> HIDE DEF parent, heard
<1>2. /\ state \in [Proc -> {"ZOMBIE", "BLOCKED", "READY"}]
      /\ ppid \in [Proc -> Pid] /\ noticed \in BOOLEAN
  BY DEF TypeOK
<1>3. state' \in [Proc -> {"ZOMBIE", "BLOCKED", "READY"}]
  BY <1>1, <1>2
<1>4. ppid' \in [Proc -> Pid]
  BY <1>1, <1>2, Constants DEF Reparented
<1>5. noticed' \in BOOLEAN
  BY <1>1, <1>2
<1>6. mishap' \subseteq Mishap
  BY <1>1 DEF Hidden, Mishap
<1> QED
  BY <1>3, <1>4, <1>5, <1>6

(* a signal,                                                                *)
LEMMA SendTypes ==
    ASSUME TypeOK, NEW q, NEW sig, Send(q, sig), q # NoProc => q \in Proc
    PROVE  /\ state' \in [Proc -> {"ZOMBIE", "BLOCKED", "READY"}]
           /\ ppid' \in [Proc -> Pid] /\ noticed' \in BOOLEAN
           /\ mishap' \subseteq Mishap
<1>1. \/ q \in Proc /\ Die(q)
      \/ /\ \E st \in {"READY", "BLOCKED"} : state' = [state EXCEPT ![q] = st]
         /\ UNCHANGED <<ppid, noticed, mishap>>
  BY DEF Send
<1>2. CASE q \in Proc /\ Die(q)
  BY <1>2, DieTypes
<1>3. CASE /\ \E st \in {"READY", "BLOCKED"} : state' = [state EXCEPT ![q] = st]
           /\ UNCHANGED <<ppid, noticed, mishap>>
  BY <1>3 DEF TypeOK
<1> QED
  BY <1>1, <1>2, <1>3

(* the reaping by the worker,                                               *)
LEMMA ReapTypes ==
    ASSUME TypeOK, ListInv, NEW d \in Listed, Reap(d)
    PROVE  /\ active' \in Seq(Proc) /\ free' \in Seq(Proc)
           /\ pids' \in Seq(Pid) /\ stacks' \in Seq(Stack \cup {Wild})
           /\ mishap' \subseteq Mishap
<1>1. /\ active \in Seq(Proc) /\ free \in Seq(Proc) /\ pids \in Seq(Pid)
      /\ stacks \in Seq(Stack \cup {Wild})
      /\ pid \in [Proc -> Pid] /\ kstack \in [Proc -> Stack \cup {Wild}]
      /\ mishap \subseteq Mishap
  BY DEF TypeOK
<1>2. d \in Proc
  BY <1>1 DEF Listed
<1>3. /\ stacks' = <<StackOf(d)>> \o stacks /\ pids' = <<pid[d]>> \o pids
      /\ active' = Unlinked(d) /\ free' = <<d>> \o free
      /\ mishap' \subseteq mishap \cup {"halfreaped", "raced"}
  BY DEF Reap, FreeStack, FreePid, FreeProcess, Chosen
<1>4. StackOf(d) \in Stack \cup {Wild} /\ pid[d] \in Pid
  BY <1>1, <1>2 DEF StackOf
<1>5. active' \in Seq(Proc)
  BY <1>1, <1>2, <1>3, UnlinkedIs
<1>6. free' \in Seq(Proc)
  BY <1>1, <1>2, <1>3, PrependIs
<1>7. pids' \in Seq(Pid)
  BY <1>1, <1>3, <1>4, PrependIs
<1>8. stacks' \in Seq(Stack \cup {Wild})
  <2> DEFINE k == StackOf(d)
             T == Stack \cup {Wild}
  <2>1. k \in T /\ stacks \in Seq(T) /\ stacks' = <<k>> \o stacks
    BY <1>1, <1>3, <1>4
  <2> HIDE DEF k, T
  <2>2. stacks' \in Seq(T)
    BY <2>1, PrependIs
  <2> QED
    BY <2>2 DEF T
<1>9. mishap' \subseteq Mishap
  BY <1>1, <1>3 DEF Mishap
<1> QED
  BY <1>5, <1>6, <1>7, <1>8, <1>9

(* and where a process is.                                                  *)
LEMMA GotoTypes ==
    ASSUME TypeOK, NEW p \in Proc, NEW l,
           l \in {"user", "kernel", "linking", "scanned", "waiting", "exited"}
                    \cup Spawning \cup Reaping,
           Goto(p, l)
    PROVE  pc' \in [Proc -> {"boot", "kernel", "user", "linking", "scanned",
                             "waiting", "exited"} \cup Spawning \cup Reaping]
BY DEF TypeOK, Goto

(* The parts of sys_spawn keep the types,                                   *)
LEMMA SpawnTypes ==
    ASSUME TypeOK, NEW p \in Proc,
           \/ BeginAlloc(p) \/ (\E d \in Proc : AllocProcess(p, d))
           \/ BeginList(p) \/ Collide(p)
           \/ TakePid(p) \/ CreateFails(p) \/ TakeStack(p) \/ CreateStopped(p)
           \/ Inherit(p)
    PROVE  TypeOK'
<1>1. ASSUME BeginAlloc(p)
      PROVE  TypeOK'
  <2>1. pc' \in [Proc -> {"boot", "kernel", "user", "linking", "scanned",
                          "waiting", "exited"} \cup Spawning \cup Reaping]
    BY <1>1, GotoTypes DEF BeginAlloc
  <2>2. spawned' \in 0..MaxSpawn
    BY <1>1, Constants DEF BeginAlloc, TypeOK
  <2> QED
    BY <2>1, <2>2, <1>1 DEF TypeOK, BeginAlloc, listVars
<1>2. ASSUME NEW d \in Proc, AllocProcess(p, d)
      PROVE  TypeOK'
  <2>1. free' \in Seq(Proc)
    <3>1. CASE free = <<>>
      BY <3>1, <1>2 DEF AllocProcess, TypeOK
    <3>2. CASE free # <<>>
      <4>1. free' = Tail(free) /\ free \in Seq(Proc)
        BY <3>2, <1>2 DEF AllocProcess, TypeOK
      <4> QED
        BY <3>2, <4>1, TailIs
    <3> QED
      BY <3>1, <3>2
  <2>2. active' \in Seq(Proc)
    BY <1>2, PrependIs DEF AllocProcess, TypeOK
  <2>3. child' \in [Proc -> Proc \cup {NoProc}]
    BY <1>2 DEF AllocProcess, TypeOK
  <2>4. pc' \in [Proc -> {"boot", "kernel", "user", "linking", "scanned",
                          "waiting", "exited"} \cup Spawning \cup Reaping]
    BY <1>2, GotoTypes DEF AllocProcess, Spawning
  <2> QED
    BY <1>2, <2>1, <2>2, <2>3, <2>4 DEF AllocProcess, TypeOK
<1>3. ASSUME BeginList(p)
      PROVE  TypeOK'
  <2>1. \A l \in DOMAIN Begins : Begins[l] \in Spawning \cup Reaping
    BY DEF Begins, Spawning, Reaping
  <2>2. pc' \in [Proc -> {"boot", "kernel", "user", "linking", "scanned",
                          "waiting", "exited"} \cup Spawning \cup Reaping]
    BY <2>1, <1>3, GotoTypes DEF BeginList
  <2> QED
    BY <2>2, <1>3 DEF TypeOK, BeginList, listVars
<1>4. ASSUME Collide(p)
      PROVE  TypeOK'
  BY <1>4 DEF TypeOK, Collide, listVars, Mishap
<1>5. ASSUME TakePid(p)
      PROVE  TypeOK'
  <2>1. /\ pids # <<>> /\ pids' = Tail(pids) /\ pids \in Seq(Pid)
        /\ pid' = [pid EXCEPT ![child[p]] = Head(pids)]
    BY <1>5 DEF TakePid, TypeOK
  <2>2. pids' \in Seq(Pid) /\ Head(pids) \in Pid
    BY <2>1, TailIs
  <2>3. pid' \in [Proc -> Pid]
    BY <2>1, <2>2 DEF TypeOK
  <2>4. pc' \in [Proc -> {"boot", "kernel", "user", "linking", "scanned",
                          "waiting", "exited"} \cup Spawning \cup Reaping]
    BY <1>5, GotoTypes DEF TakePid, Spawning
  <2> QED
    BY <1>5, <2>2, <2>3, <2>4 DEF TakePid, TypeOK
<1>6. ASSUME CreateFails(p)
      PROVE  TypeOK'
  <2>1. pc' \in [Proc -> {"boot", "kernel", "user", "linking", "scanned",
                          "waiting", "exited"} \cup Spawning \cup Reaping]
    BY <1>6, GotoTypes DEF CreateFails
  <2> QED
    BY <2>1, <1>6 DEF TypeOK, CreateFails, listVars, Mishap
<1>7. ASSUME TakeStack(p)
      PROVE  TypeOK'
  <2> DEFINE T == Stack \cup {Wild}
  <2>1. /\ stacks # <<>> /\ stacks' = Tail(stacks) /\ stacks \in Seq(T)
        /\ kstack' = [kstack EXCEPT ![child[p]] = Head(stacks)]
        /\ kstack \in [Proc -> T]
    BY <1>7 DEF TakeStack, TypeOK
  <2> HIDE DEF T
  <2>2. stacks' \in Seq(T) /\ Head(stacks) \in T
    BY <2>1, TailIs
  <2>3. stacks' \in Seq(Stack \cup {Wild}) /\ kstack' \in [Proc -> Stack \cup {Wild}]
    BY <2>1, <2>2 DEF T
  <2>4. pc' \in [Proc -> {"boot", "kernel", "user", "linking", "scanned",
                          "waiting", "exited"} \cup Spawning \cup Reaping]
    BY <1>7, GotoTypes DEF TakeStack, Spawning
  <2> QED
    BY <1>7, <2>3, <2>4 DEF TakeStack, TypeOK
<1>8. ASSUME CreateStopped(p)
      PROVE  TypeOK'
  <2>1. /\ state' \in [Proc -> {"ZOMBIE", "BLOCKED", "READY"}]
        /\ pc' \in [Proc -> {"boot", "kernel", "user", "linking", "scanned",
                             "waiting", "exited"} \cup Spawning \cup Reaping]
    BY <1>8 DEF CreateStopped, TypeOK, Spawning
  <2> QED
    BY <2>1, <1>8 DEF TypeOK, CreateStopped, listVars
<1>9. ASSUME Inherit(p)
      PROVE  TypeOK'
  <2>1. pc' \in [Proc -> {"boot", "kernel", "user", "linking", "scanned",
                          "waiting", "exited"} \cup Spawning \cup Reaping]
    BY <1>9, GotoTypes DEF Inherit
  <2> QED
    BY <2>1, <1>9 DEF TypeOK, Inherit, listVars, Sig, Sent
<1> QED
  BY <1>1, <1>2, <1>3, <1>4, <1>5, <1>6, <1>7, <1>8, <1>9

(* so do exit and the signals,                                              *)
LEMMA SignalTypes ==
    ASSUME TypeOK, NEW p \in Proc,
           \/ Exit(p)
           \/ \E t \in Pid, sig \in Sent : Kill(p, t, sig)
           \/ \E blocked \in {{}, {"CHLD"}} : SigProcMask(p, blocked)
           \/ WaitBlock(p) \/ (\E w \in WaitFor : WaitScan(p, w))
           \/ BootInit \/ BootExit
    PROVE  TypeOK'
<1> DEFINE Where == {"boot", "kernel", "user", "linking", "scanned",
                     "waiting", "exited"} \cup Spawning \cup Reaping
<1>1. ASSUME Exit(p)
      PROVE  TypeOK'
  <2>1. Die(p) /\ Goto(p, "exited")
    BY <1>1 DEF Exit
  <2>2. pc' \in [Proc -> Where]
    BY <2>1, GotoTypes
  <2> QED
    BY <2>1, <2>2, <1>1, DieTypes DEF TypeOK, Exit, listVars
<1>2. ASSUME NEW t \in Pid, NEW sig \in Sent, Kill(p, t, sig)
      PROVE  TypeOK'
  <2>1. /\ Send(Find(t), sig)
        /\ Goto(p, "exited") \/ UNCHANGED pc
        /\ UNCHANGED <<listVars, pid, sigmask, kstack, child, want, halted,
                       spawned>>
    BY <1>2 DEF Kill
  <2>2. Find(t) # NoProc => Find(t) \in Proc
    BY Found
  <2>3. /\ state' \in [Proc -> {"ZOMBIE", "BLOCKED", "READY"}]
        /\ ppid' \in [Proc -> Pid] /\ noticed' \in BOOLEAN
        /\ mishap' \subseteq Mishap
    BY <2>1, <2>2, SendTypes
  <2>4. pc' \in [Proc -> Where]
    BY <2>1, GotoTypes DEF TypeOK
  <2> QED
    BY <2>1, <2>3, <2>4 DEF TypeOK, listVars
<1>3. ASSUME NEW blocked \in {{}, {"CHLD"}}, SigProcMask(p, blocked)
      PROVE  TypeOK'
  BY <1>3 DEF TypeOK, SigProcMask, listVars
<1>4. ASSUME WaitBlock(p)
      PROVE  TypeOK'
  <2>1. pc' \in [Proc -> Where]
    BY <1>4, GotoTypes DEF WaitBlock
  <2> QED
    BY <2>1, <1>4 DEF TypeOK, WaitBlock, listVars
<1>5. ASSUME NEW w \in WaitFor, WaitScan(p, w)
      PROVE  TypeOK'
  <2>1. pc' \in [Proc -> Where]
    BY <1>5, GotoTypes DEF WaitScan
  <2> QED
    BY <2>1, <1>5 DEF TypeOK, WaitScan, listVars
<1>6. ASSUME BootInit
      PROVE  TypeOK'
  <2>1. /\ Send(Find(1), "CONT") /\ Goto(KInit, "kernel") /\ KInit \in Proc
        /\ UNCHANGED <<listVars, pid, sigmask, kstack, child, want, halted,
                       spawned>>
    BY <1>6, Constants DEF BootInit
  <2>2. Find(1) # NoProc => Find(1) \in Proc
    BY Found
  <2>3. /\ state' \in [Proc -> {"ZOMBIE", "BLOCKED", "READY"}]
        /\ ppid' \in [Proc -> Pid] /\ noticed' \in BOOLEAN
        /\ mishap' \subseteq Mishap
    BY <2>1, <2>2, SendTypes
  <2>4. pc' \in [Proc -> Where]
    BY <2>1, GotoTypes
  <2> QED
    BY <2>1, <2>3, <2>4 DEF TypeOK, listVars
<1>7. ASSUME BootExit
      PROVE  TypeOK'
  <2>1. Die(KInit) /\ KInit \in Proc
    BY <1>7, Constants DEF BootExit
  <2> QED
    BY <2>1, <1>7, DieTypes DEF TypeOK, BootExit, listVars
<1> QED
  BY <1>1, <1>2, <1>3, <1>4, <1>5, <1>6, <1>7

(* the scans of sys_waitpid,                                                *)
LEMMA WaitTypes ==
    ASSUME TypeOK, NEW p \in Proc,
           (\E w \in WaitFor : WaitReap(p, w)) \/ WaitRescan(p)
    PROVE  TypeOK'
<1> DEFINE Where == {"boot", "kernel", "user", "linking", "scanned",
                     "waiting", "exited"} \cup Spawning \cup Reaping
<1>1. ASSUME NEW w, Dead(p, w) # {}, BeginReap(p, First(Dead(p, w)))
      PROVE  /\ child' \in [Proc -> Proc \cup {NoProc}]
             /\ mishap' \subseteq Mishap /\ pc' \in [Proc -> Where]
  <2> DEFINE d == First(Dead(p, w))
  <2>1. Dead(p, w) \cap Listed # {}
    BY <1>1 DEF Dead, Children
  <2>2. d \in Proc
    BY <2>1, FirstIs DEF TypeOK
  <2>3. /\ child' = [child EXCEPT ![p] = d] /\ Goto(p, "reaping")
        /\ mishap' \subseteq mishap \cup {"halfreaped"}
    BY <1>1 DEF BeginReap, Chosen
  <2> HIDE DEF d
  <2>4. pc' \in [Proc -> Where]
    BY <2>3, GotoTypes DEF Reaping
  <2> QED
    BY <2>2, <2>3, <2>4 DEF TypeOK, Mishap
<1> HIDE DEF Where
<1>2. ASSUME NEW w \in WaitFor, WaitReap(p, w)
      PROVE  TypeOK'
  <2>1. /\ Dead(p, w) # {} /\ BeginReap(p, First(Dead(p, w)))
        /\ UNCHANGED <<listVars, state, pid, ppid, sigmask, kstack, want,
                       noticed, halted, spawned>>
    BY <1>2 DEF WaitReap
  <2>2. /\ child' \in [Proc -> Proc \cup {NoProc}]
        /\ mishap' \subseteq Mishap /\ pc' \in [Proc -> Where]
    BY <2>1, <1>1
  <2> QED
    BY <2>1, <2>2 DEF TypeOK, listVars, Where
<1>3. ASSUME WaitRescan(p)
      PROVE  TypeOK'
  <2> DEFINE w == want[p]
  <2>1. /\ IF Dead(p, w) # {} THEN BeginReap(p, First(Dead(p, w)))
                              ELSE Goto(p, "user") /\ UNCHANGED <<child, mishap>>
        /\ want' = [want EXCEPT ![p] = AnyPid]
        /\ UNCHANGED <<listVars, state, pid, ppid, sigmask, kstack, noticed,
                       halted, spawned>>
    BY <1>3 DEF WaitRescan
  <2> HIDE DEF w
  <2>2. /\ child' \in [Proc -> Proc \cup {NoProc}]
        /\ mishap' \subseteq Mishap /\ pc' \in [Proc -> Where]
    <3>1. CASE Dead(p, w) # {}
      BY <3>1, <2>1, <1>1
    <3>2. CASE Dead(p, w) = {}
      <4>1. Goto(p, "user") /\ child' = child /\ mishap' = mishap
        BY <3>2, <2>1
      <4> QED
        BY <4>1, GotoTypes DEF TypeOK, Where
    <3> QED
      BY <3>1, <3>2
  <2> QED
    BY <2>1, <2>2 DEF TypeOK, listVars, Where
<1> QED
  BY <1>2, <1>3

(* and whoever reaps.                                                       *)
LEMMA ReapingTypes ==
    ASSUME TypeOK, Accounts, NEW p \in Proc,
           ReapStack(p) \/ ReapPid(p) \/ ReapProcess(p) \/ WorkerReap
    PROVE  TypeOK'
<1> DEFINE Where == {"boot", "kernel", "user", "linking", "scanned",
                     "waiting", "exited"} \cup Spawning \cup Reaping
<1>1. ASSUME ReapStack(p)
      PROVE  TypeOK'
  <2>1. stacks' \in Seq(Stack \cup {Wild})
    BY <1>1, ReapStackKeeps
  <2>2. pc' \in [Proc -> Where]
    BY <1>1, GotoTypes DEF ReapStack, Reaping
  <2> QED
    BY <2>1, <2>2, <1>1 DEF TypeOK, ReapStack
<1>2. ASSUME ReapPid(p)
      PROVE  TypeOK'
  <2> DEFINE d == child[p]
  <2>1. d \in Proc
    BY <1>2, ReapPidKeeps
  <2>2. /\ pids' = <<pid[d]>> \o pids /\ pids \in Seq(Pid)
        /\ pid \in [Proc -> Pid]
    BY <1>2 DEF ReapPid, FreePid, TypeOK
  <2> HIDE DEF d
  <2>3. pids' \in Seq(Pid)
    BY <2>1, <2>2, PrependIs
  <2>4. pc' \in [Proc -> Where]
    BY <1>2, GotoTypes DEF ReapPid, Reaping
  <2> QED
    BY <2>3, <2>4, <1>2 DEF TypeOK, ReapPid
<1>3. ASSUME ReapProcess(p)
      PROVE  TypeOK'
  <2> DEFINE d == child[p]
  <2>1. d \in Listed
    BY <1>3, ReapProcessKeeps
  <2>2. /\ active' = Unlinked(d) /\ free' = <<d>> \o free
        /\ active \in Seq(Proc) /\ free \in Seq(Proc) /\ ListInv
    BY <1>3 DEF ReapProcess, FreeProcess, TypeOK, Accounts
  <2> HIDE DEF d
  <2>3. d \in Proc
    BY <2>1, <2>2 DEF Listed
  <2>4. active' \in Seq(Proc)
    BY <2>1, <2>2, <2>3, UnlinkedIs
  <2>5. free' \in Seq(Proc)
    BY <2>2, <2>3, PrependIs
  <2>6. child' \in [Proc -> Proc \cup {NoProc}]
    BY <1>3 DEF ReapProcess, TypeOK
  <2>7. pc' \in [Proc -> Where]
    BY <1>3, GotoTypes DEF ReapProcess
  <2> QED
    BY <2>4, <2>5, <2>6, <2>7, <1>3 DEF TypeOK, ReapProcess
<1>4. ASSUME WorkerReap
      PROVE  TypeOK'
  <2>1. IF Orphans = {} THEN UNCHANGED <<listVars, mishap>>
                        ELSE Reap(First(Orphans))
    BY <1>4 DEF WorkerReap
  <2>2. Orphans \subseteq Listed
    BY DEF Orphans
  <2>3. /\ active' \in Seq(Proc) /\ free' \in Seq(Proc)
        /\ pids' \in Seq(Pid) /\ stacks' \in Seq(Stack \cup {Wild})
        /\ mishap' \subseteq Mishap
    <3>1. CASE Orphans # {}
      <4>1. First(Orphans) \in Listed
        <5>1. Orphans \cap Listed # {}
          BY <3>1, <2>2
        <5> QED
          BY <5>1, FirstIs DEF TypeOK
      <4> QED
        BY <4>1, <3>1, <2>1, ReapTypes DEF Accounts
    <3>2. CASE Orphans = {}
      BY <3>2, <2>1 DEF TypeOK, listVars
    <3> QED
      BY <3>1, <3>2
  <2>4. halted' \in BOOLEAN /\ noticed' \in BOOLEAN
    BY <1>4 DEF WorkerReap
  <2> QED
    BY <2>3, <2>4, <1>4 DEF TypeOK, WorkerReap
<1> QED
  BY <1>1, <1>2, <1>3, <1>4

-----------------------------------------------------------------------------
(* The beginning.                                                           *)

(* The stacks of pids and kernel stacks after the boot.                     *)
LEMMA FreeAtFirst ==
    ASSUME Init
    PROVE  /\ pids \in Seq(Pid) /\ Len(pids) = MaxProc - 3
           /\ DOMAIN pids = 1..(MaxProc - 3)
           /\ pids[1] = 2
           /\ \A i \in 2..(MaxProc - 3) : pids[i] = i + 2
           /\ stacks \in Seq(Stack \cup {Wild}) /\ Len(stacks) = MaxProc - 3
           /\ DOMAIN stacks = 1..(MaxProc - 3)
           /\ \A i \in 1..(MaxProc - 3) : stacks[i] = MaxProc - 3 - i
<1> DEFINE rest == [i \in 1..(MaxProc - 4) |-> i + 3]
<1>1. MaxProc \in Nat /\ MaxProc >= 4
  BY Constants
<1>2. pids = <<2>> \o rest /\ stacks = [i \in 1..(MaxProc - 3) |-> MaxProc - 3 - i]
  BY DEF Init
<1>3. rest \in Seq(Pid) /\ Len(rest) = MaxProc - 4
  <2>1. \A i \in 1..(MaxProc - 4) : i + 3 \in Pid
    BY <1>1 DEF Pid
  <2>2. MaxProc - 4 \in Nat
    BY <1>1
  <2> QED
    BY <2>1, <2>2, IsASeq
<1>4. \A i \in 1..(MaxProc - 4) : rest[i] = i + 3
  OBVIOUS
<1> HIDE DEF rest
<1>5. 2 \in Pid
  BY <1>1 DEF Pid
<1>6. /\ pids \in Seq(Pid) /\ Len(pids) = Len(rest) + 1
      /\ DOMAIN pids = 1..(Len(rest) + 1) /\ DOMAIN rest = 1..Len(rest)
      /\ pids[1] = 2
      /\ \A i \in DOMAIN pids :
            i = 1 \/ (i - 1 \in DOMAIN rest /\ pids[i] = rest[i - 1])
  BY <1>2, <1>3, <1>5, PrependIs
<1>7. /\ Len(pids) = MaxProc - 3 /\ DOMAIN pids = 1..(MaxProc - 3)
      /\ DOMAIN rest = 1..(MaxProc - 4)
  BY <1>1, <1>3, <1>6
<1>8. \A i \in 2..(MaxProc - 3) : pids[i] = i + 2
  <2> TAKE i \in 2..(MaxProc - 3)
  <2>1. i \in DOMAIN pids /\ i # 1 /\ i \in Int
    BY <1>1, <1>7
  <2>2. i - 1 \in 1..(MaxProc - 4) /\ pids[i] = rest[i - 1]
    BY <2>1, <1>6, <1>7
  <2> QED
    BY <2>1, <2>2, <1>4
<1>9. stacks \in Seq(Stack \cup {Wild}) /\ Len(stacks) = MaxProc - 3
  <2>1. \A i \in 1..(MaxProc - 3) : MaxProc - 3 - i \in Stack \cup {Wild}
    BY <1>1 DEF Stack
  <2>2. MaxProc - 3 \in Nat
    BY <1>1
  <2> QED
    BY <2>1, <2>2, <1>2, IsASeq
<1> QED
  BY <1>2, <1>6, <1>7, <1>8, <1>9

(* The list after the boot.                                                 *)
LEMMA FirstThree ==
    ASSUME Init
    PROVE  /\ active \in Seq(Proc) /\ DOMAIN active = 1..3
           /\ active[1] = UInit /\ active[2] = KInit /\ active[3] = Worker
           /\ free \in Seq(Proc) /\ DOMAIN free = {}
           /\ Listed = {UInit, KInit, Worker}
           /\ Hands = {} /\ Spawners = {} /\ Excess = {}
           /\ Taken = {} /\ Unlinking = {}
           /\ \A p \in Proc : pc[p] \notin Reaping \cup InList
           /\ Owner = {UInit, KInit, Worker} /\ Made = {UInit, KInit, Worker}
           /\ Keeper = {UInit, KInit, Worker}
<1>1. active = <<UInit, KInit, Worker>> /\ free = <<>>
  BY DEF Init
<1>2. /\ active \in Seq(Proc) /\ DOMAIN active = 1..3
      /\ active[1] = UInit /\ active[2] = KInit /\ active[3] = Worker
      /\ free \in Seq(Proc) /\ DOMAIN free = {}
  BY <1>1, Constants
<1>3. Listed = {UInit, KInit, Worker}
  <2>1. \A i \in 1..3 : i = 1 \/ i = 2 \/ i = 3
    OBVIOUS
  <2>2. 1 \in 1..3 /\ 2 \in 1..3 /\ 3 \in 1..3
    OBVIOUS
  <2>3. \A x : x \in Listed <=> \E i \in 1..3 : x = active[i]
    BY <1>2 DEF Listed
  <2> QED
    BY <2>1, <2>2, <2>3, <1>2
<1>4. \A p \in Proc : pc[p] \notin Labels \cup InList
  BY LabelsAre DEF Init
<1>5. \A L : L \subseteq Labels => InHand(L) = {}
  BY <1>4 DEF InHand
<1>6. /\ Half = {} /\ Raw = {} /\ Taken = {} /\ Unlinking = {}
      /\ Stackless = {}
  BY <1>5, LabelsAre DEF Half, Raw, Taken, Unlinking, Stackless
<1>7. /\ Hands = {} /\ Spawners = {} /\ Excess = {}
      /\ \A p \in Proc : pc[p] \notin Reaping \cup InList
  BY <1>4, LabelsAre DEF Hands, Spawners, Excess
<1>8. Owner = Listed /\ Made = Listed /\ Keeper = Listed
  BY <1>6 DEF Owner, Made, Keeper, Half
<1> QED
  BY <1>2, <1>3, <1>6, <1>7, <1>8

(* The invariant holds after the boot.                                      *)
LEMMA Starts ==
    ASSUME Init
    PROVE  IInv
<1>1. /\ {Worker, KInit, UInit} \subseteq Proc
      /\ Worker # KInit /\ Worker # UInit /\ KInit # UInit
      /\ MaxProc \in Nat /\ MaxProc >= 4 /\ MaxSpawn \in Nat
      /\ \A s \in Stack : s # Wild
  BY Constants
<1>2. /\ state[Worker] = "READY" /\ state[KInit] = "READY"
      /\ state[UInit] = "BLOCKED"
      /\ \A p \in Proc : p \notin {Worker, KInit, UInit} => ~Alive(p)
  BY <1>1 DEF Init, Alive
<1>3. /\ pid[Worker] = 0 /\ pid[UInit] = 1 /\ pid[KInit] = 3
      /\ \A p \in Proc : ppid[p] = 0
  BY <1>1 DEF Init
<1>4. /\ kstack[Worker] = MaxProc - 1 /\ kstack[KInit] = MaxProc - 2
      /\ kstack[UInit] = MaxProc - 3
  BY <1>1 DEF Init
<1>5. TypeOK
  <2>1. state \in [Proc -> {"ZOMBIE", "BLOCKED", "READY"}]
    BY DEF Init
  <2>2. pid \in [Proc -> Pid]
    BY <1>1 DEF Init, Pid
  <2>3. ppid \in [Proc -> Pid] /\ child \in [Proc -> Proc \cup {NoProc}]
    BY Constants DEF Init
  <2>4. sigmask \in [Proc -> SUBSET Sig]
    BY DEF Init, Sig, Sent
  <2>5. kstack \in [Proc -> Stack \cup {Wild}]
    BY <1>1 DEF Init, Stack
  <2>6. pc \in [Proc -> {"boot", "kernel", "user", "linking", "scanned",
                         "waiting", "exited"} \cup Spawning \cup Reaping]
    BY DEF Init
  <2>7. want \in [Proc -> {AnyPid} \cup WaitFor]
    BY DEF Init
  <2>8. noticed \in BOOLEAN /\ halted \in BOOLEAN
    <3>1. noticed = FALSE /\ halted = FALSE
      BY Zenon DEF Init
    <3> QED
      BY <3>1
  <2>9. mishap \subseteq Mishap /\ spawned \in 0..MaxSpawn
    BY Constants DEF Init
  <2> QED
    BY <2>1, <2>2, <2>3, <2>4, <2>5, <2>6, <2>7, <2>8, <2>9,
       FreeAtFirst, FirstThree DEF TypeOK
<1>6. CountInv
  <2>1. Excess = {} /\ Len(pids) = MaxProc - 3 /\ Len(stacks) = MaxProc - 3
    BY FreeAtFirst, FirstThree
  <2>2. IsFiniteSet(Excess) /\ Cardinality(Excess) = 0
    BY <2>1, FS_EmptySet
  <2> QED
    BY <2>1, <2>2, <1>1 DEF CountInv
<1>7. ListInv
  BY <1>1, FirstThree DEF ListInv
<1>8. AliveInv /\ HandInv /\ LockInv
  BY <1>2, FirstThree DEF AliveInv, HandInv, LockInv
<1>9. PidInv
  <2>1. /\ DOMAIN pids = 1..(MaxProc - 3) /\ pids[1] = 2
        /\ \A i \in 2..(MaxProc - 3) : pids[i] = i + 2
    BY FreeAtFirst
  <2>2. \A i \in DOMAIN pids : /\ i \in Nat /\ i >= 1 /\ i <= MaxProc - 3
                               /\ i = 1 => pids[i] = 2
                               /\ i # 1 => pids[i] = i + 2 /\ i >= 2
    BY <2>1, <1>1
  <2>3. \A i, j \in DOMAIN pids : pids[i] = pids[j] => i = j
    BY <2>2
  <2>4. Owner = {UInit, KInit, Worker}
    BY FirstThree
  <2>5. \A p, q \in Owner : pid[p] = pid[q] => p = q
    BY <2>4, <1>3
  <2>6. \A p \in Owner, i \in DOMAIN pids : pid[p] # pids[i]
    BY <2>2, <2>4, <1>3
  <2>7. ASSUME NEW t \in Pid
        PROVE  \/ \E p \in Owner : pid[p] = t
               \/ \E i \in DOMAIN pids : pids[i] = t
    <3>1. t \in Nat /\ t <= MaxProc - 1
      BY <1>1 DEF Pid
    <3>2. CASE t \in {0, 1, 3}
      BY <3>2, <2>4, <1>3
    <3>3. CASE t = 2
      BY <3>3, <2>1, <1>1
    <3>4. CASE t >= 4
      <4>1. t - 2 \in 2..(MaxProc - 3) /\ t - 2 \in 1..(MaxProc - 3)
        BY <3>1, <3>4, <1>1
      <4>2. pids[t - 2] = t
        BY <4>1, <2>1, <3>1
      <4> QED
        BY <4>1, <4>2, <2>1
    <3> QED
      BY <3>1, <3>2, <3>3, <3>4
  <2> QED
    BY <2>3, <2>5, <2>6, <2>7 DEF PidInv
<1>10. StackInv
  <2>1. /\ DOMAIN stacks = 1..(MaxProc - 3)
        /\ \A i \in 1..(MaxProc - 3) : stacks[i] = MaxProc - 3 - i
    BY FreeAtFirst
  <2>2. Keeper = {UInit, KInit, Worker}
    BY FirstThree
  <2>3. \A i, j \in DOMAIN stacks : stacks[i] = stacks[j] => i = j
    BY <2>1, <1>1
  <2>4. \A p, q \in Keeper : kstack[p] = kstack[q] => p = q
    BY <2>2, <1>1, <1>4
  <2>5. \A p \in Keeper, i \in DOMAIN stacks : kstack[p] # stacks[i]
    BY <2>1, <2>2, <1>1, <1>4
  <2> QED
    BY <2>3, <2>4, <2>5 DEF StackInv
<1>11. Family
  <2>1. Made = {UInit, KInit, Worker} /\ Owner = {UInit, KInit, Worker}
    BY FirstThree
  <2>2. pc[Worker] = "kernel" /\ sigmask[Worker] = {"CHLD"}
    BY <1>1 DEF Init
  <2>3. WorkerInv
    BY <2>1, <2>2, <1>1, <1>2, <1>3 DEF WorkerInv
  <2>4. Ordered
    <3>1. 1 \in DOMAIN active /\ 2 \in DOMAIN active /\ 1 < 2
      BY FirstThree
    <3> QED
      BY <3>1, FirstThree DEF Ordered
  <2>5. FirstInv
    BY <2>1, <2>4, <1>1, <1>3 DEF FirstInv
  <2>6. Parented
    BY <2>1, <1>1, <1>2, <1>3 DEF Parented, Alive
  <2>7. Heard
    BY <1>2 DEF Heard, Alive
  <2>8. TakenInv
    BY FirstThree DEF TakenInv
  <2> QED
    BY <2>3, <2>5, <2>6, <2>7, <2>8 DEF Family
<1> QED
  BY <1>5, <1>6, <1>7, <1>8, <1>9, <1>10, <1>11 DEF IInv, Accounts

-----------------------------------------------------------------------------

(* Every step keeps the invariant, and a death wakes the parent.            *)
LEMMA AnyStep ==
    ASSUME IInv, [Next]_vars
    PROVE  IInv' /\ Wakes
<1>1. TypeOK
  BY DEF IInv
<1>2. ASSUME Next
      PROVE  IInv' /\ Wakes
  <2>1. mishap = {} /\ ~halted
    BY <1>2 DEF Next, Step, BeginAlloc, AllocProcess, BeginList, Collide,
                TakePid, CreateFails, TakeStack, CreateStopped, Inherit, Exit,
                Kill, SigProcMask, WaitReap, WaitScan, WaitBlock, WaitRescan,
                ReapStack, ReapPid, ReapProcess, BootInit, BootExit,
                WorkerReap, At
  <2>2. Accounts /\ Family
    BY <2>1 DEF IInv
  <2>3. TypeOK' /\ Keeps
    <3>1. ASSUME NEW p \in Proc, Step(p)
          PROVE  TypeOK' /\ Keeps
      <4>1. CASE \/ BeginAlloc(p) \/ (\E d \in Proc : AllocProcess(p, d))
                 \/ BeginList(p) \/ Collide(p)
                 \/ TakePid(p) \/ CreateFails(p) \/ TakeStack(p)
                 \/ CreateStopped(p) \/ Inherit(p)
        BY <4>1, <1>1, <2>2, SpawnSteps, SpawnTypes
      <4>2. CASE Exit(p) \/ \E t \in Pid, sig \in Sent : Kill(p, t, sig)
        BY <4>2, <1>1, <2>2, EndSteps, SignalTypes
      <4>3. CASE \/ \E blocked \in {{}, {"CHLD"}} : SigProcMask(p, blocked)
                 \/ WaitBlock(p) \/ (\E w \in WaitFor : WaitScan(p, w))
        BY <4>3, <1>1, <2>2, QuietSteps, SignalTypes
      <4>4. CASE (\E w \in WaitFor : WaitReap(p, w)) \/ WaitRescan(p)
        BY <4>4, <1>1, <2>2, WaitSteps, WaitTypes
      <4>5. CASE ReapStack(p) \/ ReapPid(p) \/ ReapProcess(p)
        BY <4>5, <1>1, <2>2, ReapSteps, ReapingTypes
      <4> QED
        BY <3>1, <4>1, <4>2, <4>3, <4>4, <4>5 DEF Step
    <3>2. CASE BootInit \/ BootExit
      BY <3>2, <1>1, <2>2, BootSteps, SignalTypes, Constants
    <3>3. CASE WorkerReap
      BY <3>3, <1>1, <2>2, WorkerStep, ReapingTypes, Constants
    <3> QED
      BY <1>2, <3>1, <3>2, <3>3 DEF Next
  <2>4. Wakes
    BY <2>3 DEF Keeps, Wakes
  <2> QED
    BY <2>3, <2>4 DEF IInv, Keeps
<1>3. ASSUME UNCHANGED vars
      PROVE  IInv' /\ Wakes
  <2>1. /\ Listed' = Listed /\ Half' = Half /\ Raw' = Raw /\ Taken' = Taken
        /\ Unlinking' = Unlinking /\ Stackless' = Stackless
        /\ Hands' = Hands /\ Spawners' = Spawners /\ Excess' = Excess
    BY <1>3 DEF vars, listVars, Listed, Half, Raw, Taken, Unlinking, Stackless,
                Hands, Spawners, Excess, InHand
  <2>2. Owner' = Owner /\ Made' = Made /\ Keeper' = Keeper
    <3>1. Made = Listed \ Half /\ Made' = Listed' \ Half'
      BY DEF Made, Half
    <3> QED
      BY <2>1, <3>1 DEF Owner, Keeper
  <2>3. TypeOK'
    BY <1>1, <1>3 DEF vars, listVars, TypeOK
  <2>4. Accounts => Accounts'
    <3>1. ListInv => ListInv'
      BY <2>1, <1>3 DEF vars, listVars, ListInv
    <3>2. (AliveInv => AliveInv') /\ (HandInv => HandInv')
      BY <2>1, <2>2, <1>3 DEF vars, listVars, AliveInv, HandInv, Alive
    <3>3. (PidInv => PidInv') /\ (StackInv => StackInv')
      BY <2>2, <1>3 DEF vars, listVars, PidInv, StackInv
    <3>4. LockInv => LockInv'
      BY <1>3 DEF vars, LockInv
    <3>5. CountInv => CountInv'
      BY <2>1, <1>3 DEF vars, listVars, CountInv
    <3> QED
      BY <3>1, <3>2, <3>3, <3>4, <3>5 DEF Accounts
  <2>5. Family => Family'
    <3>1. WorkerInv => WorkerInv'
      BY <2>2, <1>3 DEF vars, WorkerInv
    <3>2. Ordered' <=> Ordered
      BY <1>3 DEF vars, listVars, Ordered
    <3>3. FirstInv => FirstInv'
      BY <2>2, <3>2, <1>3 DEF vars, FirstInv
    <3>4. Parented => Parented'
      BY <2>2, <1>3 DEF vars, Parented, Alive
    <3>5. Heard => Heard'
      BY <1>3 DEF vars, Heard, Alive
    <3>6. TakenInv => TakenInv'
      BY <2>1, <2>2, <1>3 DEF vars, TakenInv
    <3> QED
      BY <3>1, <3>3, <3>4, <3>5, <3>6 DEF Family
  <2>6. mishap' = mishap /\ halted' = halted
    BY <1>3 DEF vars
  <2>7. Wakes
    BY <1>3 DEF vars, Wakes
  <2> QED
    BY <2>3, <2>4, <2>5, <2>6, <2>7 DEF IInv
<1> QED
  BY <1>2, <1>3

(* The inductive invariant holds in every reachable state.                  *)
THEOREM Invariance == Spec => []IInv
<1>1. Init => IInv
  BY Starts
<1>2. IInv /\ [Next]_vars => IInv'
  BY AnyStep
<1> QED
  BY <1>1, <1>2, PTL DEF Spec

(* Every variable has its type, whatever has gone wrong.                   *)
THEOREM TypeCorrect == Spec => []TypeOK
<1>1. IInv => TypeOK
  BY DEF IInv
<1> QED
  BY <1>1, Invariance, PTL

(* A set whose elements are all equal has at most one.                      *)
LEMMA AtMostOne ==
    ASSUME NEW S, \A x, y \in S : x = y
    PROVE  (S = {} /\ Cardinality(S) = 0) \/ (Cardinality(S) = 1 /\ S # {})
<1>1. CASE S = {}
  BY <1>1, FS_EmptySet
<1>2. CASE S # {}
  <2>1. PICK x \in S : TRUE
    BY <1>2
  <2>2. S = {x}
    BY <2>1
  <2> QED
    BY <2>2, FS_Singleton
<1> QED
  BY <1>1, <1>2

(* Reaping and creating lose no pid and give none to two processes: short  *)
(* of a mishap, every pid has one owner.                                   *)
THEOREM PidsHaveOneOwner == Spec => []PidsAccounted
<1>1. IInv => PidsAccounted
  <2> SUFFICES ASSUME IInv, mishap = {}, NEW t \in Pid
               PROVE  Cardinality({p \in Owner : pid[p] = t})
                         + Cardinality({i \in DOMAIN pids : pids[i] = t}) = 1
    BY DEF PidsAccounted, Owner, Unlinking
  <2> DEFINE A == {p \in Owner : pid[p] = t}
             B == {i \in DOMAIN pids : pids[i] = t}
  <2>1. PidInv
    BY DEF IInv, Accounts
  <2>2. (\A x, y \in A : x = y) /\ (\A x, y \in B : x = y)
    BY <2>1 DEF PidInv
  <2>3. (A = {} \/ B = {}) /\ (A # {} \/ B # {})
    BY <2>1 DEF PidInv
  <2> HIDE DEF A, B
  <2>4. (A = {} /\ Cardinality(A) = 0) \/ (Cardinality(A) = 1 /\ A # {})
    BY <2>2, AtMostOne
  <2>5. (B = {} /\ Cardinality(B) = 0) \/ (Cardinality(B) = 1 /\ B # {})
    BY <2>2, AtMostOne
  <2>6. Cardinality(A) + Cardinality(B) = 1
    BY <2>3, <2>4, <2>5
  <2> QED
    BY <2>6 DEF A, B
<1> QED
  BY <1>1, Invariance, PTL

(* Whoever has got a pid finds a kernel stack; no kernel stack has two      *)
(* owners, or is free while a process runs on it: short of a mishap.        *)
THEOREM StacksHaveOneOwner == Spec => []StacksAccounted
<1>1. ASSUME IInv, mishap = {}, InHand({"numbered", "stacking"}) # {}
      PROVE  stacks # <<>>
  <2>1. PICK p \in Proc : pc[p] \in {"numbered", "stacking"}
    BY <1>1 DEF InHand
  <2> QED
    BY <2>1, <1>1, StacksSuffice DEF IInv
<1>2. ASSUME IInv, mishap = {}, NEW s \in Stack
      PROVE  Cardinality({p \in Keeper : kstack[p] = s})
                + Cardinality({i \in DOMAIN stacks : stacks[i] = s}) <= 1
  <2> DEFINE A == {p \in Keeper : kstack[p] = s}
             B == {i \in DOMAIN stacks : stacks[i] = s}
  <2>1. StackInv /\ s # Wild
    BY <1>2, Constants DEF IInv, Accounts
  <2>2. (\A x, y \in A : x = y) /\ (\A x, y \in B : x = y)
    BY <2>1 DEF StackInv
  <2>3. A = {} \/ B = {}
    BY <2>1 DEF StackInv
  <2> HIDE DEF A, B
  <2>4. (A = {} /\ Cardinality(A) = 0) \/ (Cardinality(A) = 1 /\ A # {})
    BY <2>2, AtMostOne
  <2>5. (B = {} /\ Cardinality(B) = 0) \/ (Cardinality(B) = 1 /\ B # {})
    BY <2>2, AtMostOne
  <2>6. Cardinality(A) + Cardinality(B) <= 1
    BY <2>3, <2>4, <2>5
  <2> QED
    BY <2>6 DEF A, B
<1>3. IInv => StacksAccounted
  BY <1>1, <1>2 DEF StacksAccounted, Keeper
<1> QED
  BY <1>3, Invariance, PTL

(* Nobody is the child of a process that is gone.                          *)
THEOREM ParentsAreListed == Spec => []ParentIsListed
<1>1. IInv => ParentIsListed
  BY DEF IInv, ParentIsListed, Family, Parented, Owner, Alive
<1> QED
  BY <1>1, Invariance, PTL

(* A dead init keeps the worker alert until the kernel halts.              *)
THEOREM InitIsHeard == Spec => []InitDeathHeard
<1>1. IInv => InitDeathHeard
  <2> SUFFICES ASSUME IInv, mishap = {}, ~halted, NEW p \in Made,
                      pid[p] = 1, state[p] = "ZOMBIE"
               PROVE  noticed
    BY DEF InitDeathHeard
  <2>1. TypeOK /\ Accounts /\ Family
    BY DEF IInv
  <2>2. p \in Owner
    <3>1. p \notin Taken
      BY <2>1 DEF Family, TakenInv
    <3> QED
      BY <2>1, <3>1, SetsAre DEF TypeOK, Owner
  <2>3. p = UInit
    BY <2>1, <2>2, Relations
  <2> QED
    BY <2>1, <2>3 DEF Family, Heard, Alive
<1> QED
  BY <1>1, Invariance, PTL

(* The death of a process wakes the parent that sleeps in sys_waitpid.     *)
THEOREM DeathWakesParent == Spec => DeathWakes
<1>1. IInv /\ [Next]_vars => Wakes
  BY AnyStep
<1> QED
  BY <1>1, Invariance, PTL DEF Spec, DeathWakes, Wakes
=============================================================================
