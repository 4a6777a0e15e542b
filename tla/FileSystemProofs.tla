-------------------------- MODULE FileSystemProofs --------------------------
(***************************************************************************)
(* The two halves of vfs.c.  First the file table (Files), for any number  *)
(* of processes, files and descriptors, and counts of any width; its       *)
(* invariant is IInv.  Then the walks and the reads (Vfs), for any tree,   *)
(* any paths, any size of the dentry cache and of the blocks, and any      *)
(* number of processes; its invariant is VfsInv.                           *)
(***************************************************************************)
EXTENDS Files, Vfs, FiniteSetTheorems, WellFoundedInduction, SequenceTheorems,
        TLAPS

-----------------------------------------------------------------------------
(* The file table. *)

Used(p) == Fd \ Room(p)
Good == mishap \cap {"raced", "wrapped"} = {}

(* Where a process is and what its local variables are worth: only a       *)
(* running process is in a system call, what it still has to do is open,   *)
(* and it has read the count of the next.                                  *)
CallsInv ==
    \A p \in Proc :
        /\ doing[p] = "user" => todo[p] = {} /\ ~Holds(p)
        /\ life[p] # "live" => doing[p] = "user"
        /\ life[p] = "none" => fds[p] = Empty
        /\ doing[p] = "dup" => \E fd \in Fd : todo[p] = {fd}
        /\ todo[p] \subseteq Used(p)
        /\ Holds(p) => /\ todo[p] # {}
                       /\ was[p].slot = fds[p][Lowest(todo[p])]

(* A child that is being made belongs to one parent, and has room for all  *)
(* it is still to get.                                                     *)
ChildInv ==
    \A p \in Proc :
        doing[p] = "spawn" =>
            /\ child[p] \in Proc /\ life[child[p]] = "stopped"
            /\ \A q \in Proc \ {p} : doing[q] = "spawn" => child[q] # child[p]
            /\ Cardinality(Used(child[p])) + Cardinality(todo[p]) <= MaxFds

(* Until two updates of a count overlap or it wraps, what a process has    *)
(* read is still the count, and the free stack is a set of unused slots.   *)
CountsInv ==
    Good =>
        /\ \A s \in Slot : Refs(s) <= refcount[s]
        /\ \A p \in Proc : Holds(p) => was[p].count = refcount[was[p].slot]
        /\ \A i \in DOMAIN free : refcount[free[i]] = 0
        /\ \A i, j \in DOMAIN free : free[i] = free[j] => i = j

(* Until anything goes wrong, no reference and no slot is lost.            *)
ExactInv ==
    mishap = {} =>
        \A s \in Slot : /\ Refs(s) = refcount[s]
                        /\ refcount[s] = 0 => \E i \in DOMAIN free : free[i] = s

IInv == TypeOK /\ CallsInv /\ ChildInv /\ CountsInv /\ ExactInv

-----------------------------------------------------------------------------

(* The constants, as the arithmetic needs them.                             *)
LEMMA Bounds ==
    /\ MaxFiles \in Nat /\ MaxFiles > 0 /\ MaxFds \in Nat /\ MaxFds > 0
    /\ Wrap \in Nat /\ Wrap > 1
    /\ Slot \subseteq Nat /\ NoFile \notin Slot
    /\ IsFiniteSet(Fd) /\ Cardinality(Fd) = MaxFds
    /\ IsFiniteSet(Proc \X Fd)
<1>1. MaxFiles \in Nat /\ MaxFiles > 0 /\ MaxFds \in Nat /\ MaxFds > 0
  BY FilesAssumption
<1>2. Wrap \in Nat /\ Wrap > 1 /\ IsFiniteSet(Proc)
  BY FilesAssumption
<1>3. IsFiniteSet(Fd) /\ Cardinality(Fd) = MaxFds
  BY <1>1, FS_Interval DEF Fd
<1>4. IsFiniteSet(Proc \X Fd)
  BY <1>2, <1>3, FS_Product
<1>5. Slot \subseteq Nat /\ NoFile \notin Slot
  BY <1>1 DEF Slot, NoFile
<1> QED
  BY <1>1, <1>2, <1>3, <1>4, <1>5

(* What the loops take next is something they have to do.                   *)
LEMMA LowestIn ==
    ASSUME NEW S, S \subseteq Fd, S # {}
    PROVE  Lowest(S) \in S
<1> DEFINE Up == {1..x : x \in S}
<1>1. S \subseteq Nat /\ \A x \in S : x > 0
  BY Bounds DEF Fd
<1>2. Up \subseteq FiniteSubsetsOf(Nat)
  BY <1>1, FS_Interval DEF FiniteSubsetsOf
<1>3. IsWellFoundedOn(StrictSubsetOrdering(Nat), FiniteSubsetsOf(Nat))
  BY FS_StrictSubsetOrderingWellFounded
<1>4. Up # {}
  OBVIOUS
<1> HIDE DEF Up
<1>5. PICK U \in Up : \A V \in Up : ~ (<<V, U>> \in StrictSubsetOrdering(Nat))
  BY <1>2, <1>3, <1>4, WFMin
<1>6. PICK x \in S : U = 1..x
  BY <1>5 DEF Up
<1>7. ASSUME NEW y \in S, ~ (x <= y)
      PROVE  FALSE
  <2>1. x \in Nat /\ y \in Nat /\ y < x /\ x > 0
    BY <1>1, <1>7
  <2>2. 1..y \in Up
    BY DEF Up
  <2>3. 1..y \subseteq 1..x /\ 1..y # 1..x /\ 1..x \subseteq Nat
    <3>1. x \in 1..x /\ x \notin 1..y
      BY <2>1
    <3> QED
      BY <2>1, <3>1
  <2>4. <<1..y, 1..x>> \in StrictSubsetOrdering(Nat)
    BY <2>3, <2>1, FS_Interval DEF StrictSubsetOrdering, FiniteSubsetsOf
  <2> QED
    BY <2>2, <2>4, <1>5, <1>6
<1>8. \E z \in S : \A y \in S : z <= y
  BY <1>7
<1> QED
  BY <1>8 DEF Lowest

-----------------------------------------------------------------------------
(* References in a table of descriptors.                                    *)

Tables == [Proc -> [Fd -> Slot \cup {NoFile}]]
RefSet(f, s) == {r \in Proc \X Fd : f[r[1]][r[2]] = s}

(* References are finitely many.                                            *)
LEMMA RefsFinite ==
    ASSUME NEW f, NEW s
    PROVE  /\ IsFiniteSet(RefSet(f, s))
           /\ Cardinality(RefSet(f, s)) \in Nat
<1>1. RefSet(f, s) \subseteq Proc \X Fd
  BY DEF RefSet
<1> QED
  BY <1>1, Bounds, FS_Subset, FS_CardinalityType

(* g is f but for one descriptor of p.                                      *)
Sets(f, g, p, fd, s) ==
    /\ g \in Tables /\ g[p][fd] = s
    /\ \A q \in Proc, e \in Fd : q # p \/ e # fd => g[q][e] = f[q][e]

(* A descriptor that is written is one reference more ...                   *)
LEMMA RefsAdded ==
    ASSUME NEW f \in Tables, NEW g, NEW p \in Proc, NEW fd \in Fd,
           NEW s \in Slot, Sets(f, g, p, fd, s), f[p][fd] = NoFile,
           NEW t \in Slot
    PROVE  Cardinality(RefSet(g, t)) =
               Cardinality(RefSet(f, t)) + IF t = s THEN 1 ELSE 0
<1>1. t # NoFile
  BY Bounds
<1>2. RefSet(g, t) = IF t = s THEN RefSet(f, t) \cup {<<p, fd>>}
                              ELSE RefSet(f, t)
  <2>1. CASE t = s
    BY <1>1, <2>1 DEF RefSet, Sets
  <2>2. CASE t # s
    BY <1>1, <2>2 DEF RefSet, Sets
  <2> QED
    BY <2>1, <2>2
<1>3. <<p, fd>> \notin RefSet(f, t)
  BY <1>1 DEF RefSet
<1>4. Cardinality(RefSet(f, t) \cup {<<p, fd>>}) = Cardinality(RefSet(f, t)) + 1
  BY <1>3, RefsFinite, FS_AddElement
<1>5. Cardinality(RefSet(f, t)) \in Nat
  BY RefsFinite
<1> QED
  BY <1>2, <1>4, <1>5

(* ... and one that is cleared is one less.                                 *)
LEMMA RefsRemoved ==
    ASSUME NEW f \in Tables, NEW g, NEW p \in Proc, NEW fd \in Fd,
           Sets(f, g, p, fd, NoFile),
           NEW t \in Slot
    PROVE  Cardinality(RefSet(g, t)) =
               Cardinality(RefSet(f, t)) - IF t = f[p][fd] THEN 1 ELSE 0
<1>1. t # NoFile
  BY Bounds
<1>2. RefSet(g, t) = IF t = f[p][fd] THEN RefSet(f, t) \ {<<p, fd>>}
                                     ELSE RefSet(f, t)
  <2>1. CASE t = f[p][fd]
    BY <1>1, <2>1 DEF RefSet, Sets
  <2>2. CASE t # f[p][fd]
    BY <1>1, <2>2 DEF RefSet, Sets
  <2> QED
    BY <2>1, <2>2
<1>3. t = f[p][fd] => <<p, fd>> \in RefSet(f, t)
  BY DEF RefSet
<1>4. t = f[p][fd] => Cardinality(RefSet(f, t) \ {<<p, fd>>}) =
                          Cardinality(RefSet(f, t)) - 1
  BY <1>3, RefsFinite, FS_RemoveElement
<1>5. Cardinality(RefSet(f, t)) \in Nat
  BY RefsFinite
<1> QED
  BY <1>2, <1>4, <1>5

(* Forgetting descriptors adds no reference.                                *)
LEMMA RefsForgotten ==
    ASSUME NEW f \in Tables, NEW g,
           \A q \in Proc, e \in Fd : g[q][e] \in {f[q][e], NoFile},
           NEW t \in Slot
    PROVE  Cardinality(RefSet(g, t)) <= Cardinality(RefSet(f, t))
<1>1. RefSet(g, t) \subseteq RefSet(f, t)
  BY Bounds DEF RefSet
<1> QED
  BY <1>1, RefsFinite, FS_Subset

(* A slot that a descriptor names is referred to.                           *)
LEMMA RefsPositive ==
    ASSUME NEW f \in Tables, NEW p \in Proc, NEW fd \in Fd
    PROVE  Cardinality(RefSet(f, f[p][fd])) >= 1
<1>1. <<p, fd>> \in RefSet(f, f[p][fd])
  BY DEF RefSet
<1>2. Cardinality(RefSet(f, f[p][fd])) # 0
  BY <1>1, RefsFinite, FS_EmptySet
<1> QED
  BY <1>2, RefsFinite

(* proc_fd_add fills one descriptor, if there is one.                       *)
LEMMA AddedOne ==
    ASSUME TypeOK, NEW p \in Proc, NEW s \in Slot
    PROVE  /\ fds \in Tables /\ Added(p, s) \in Tables
           /\ Room(p) = {} => Added(p, s) = fds
           /\ Room(p) # {} => \E fd \in Room(p) :
                                  Sets(fds, Added(p, s), p, fd, s)
           /\ \A q \in Proc \ {p} : Added(p, s)[q] = fds[q]
<1>1. fds \in Tables
  BY DEF TypeOK, Tables
<1>2. CASE Room(p) = {}
  BY <1>1, <1>2 DEF Added
<1>3. CASE Room(p) # {}
  <2> DEFINE fd == Lowest(Room(p))
  <2>1. fd \in Room(p) /\ fd \in Fd
    BY <1>3, LowestIn DEF Room
  <2>2. Added(p, s) = [fds EXCEPT ![p][fd] = s]
    BY <1>3 DEF Added
  <2> HIDE DEF fd
  <2>3. Sets(fds, Added(p, s), p, fd, s)
    BY <2>1, <2>2, <1>1 DEF Tables, Sets
  <2> QED
    BY <2>1, <2>2, <2>3, <1>1, <1>3 DEF Tables
<1> QED
  BY <1>2, <1>3

-----------------------------------------------------------------------------
(* Refs of the model is the size of RefSet.                                 *)
LEMMA RefsAre ==
    /\ \A s : Refs(s) = Cardinality(RefSet(fds, s))
    /\ \A s : Refs(s)' = Cardinality(RefSet(fds', s))
    /\ \A s : Refs(s) \in Nat
    /\ \A s : Refs(s)' \in Nat
<1>1. \A s : Refs(s) = Cardinality(RefSet(fds, s))
  BY DEF Refs, RefSet
<1>2. \A s : Refs(s)' = Cardinality(RefSet(fds', s))
  BY DEF Refs, RefSet
<1> QED
  BY <1>1, <1>2, RefsFinite

(* The references after proc_fd_add.                                        *)
LEMMA AddedRefs ==
    ASSUME TypeOK, NEW p \in Proc, NEW s \in Slot, fds' = Added(p, s),
           NEW t \in Slot
    PROVE  Refs(t)' = Refs(t) + IF t = s /\ Room(p) # {} THEN 1 ELSE 0
<1>1. CASE Room(p) = {}
  BY <1>1, AddedOne, RefsAre
<1>2. CASE Room(p) # {}
  <2>1. PICK fd \in Room(p) : Sets(fds, Added(p, s), p, fd, s)
    BY <1>2, AddedOne
  <2>2. fd \in Fd /\ fds[p][fd] = NoFile
    BY DEF Room
  <2>3. Cardinality(RefSet(fds', t)) =
            Cardinality(RefSet(fds, t)) + IF t = s THEN 1 ELSE 0
    BY <2>1, <2>2, AddedOne, RefsAdded
  <2> QED
    BY <1>2, <2>3, RefsAre
<1> QED
  BY <1>1, <1>2

(* What a process has read the count of is a slot, and it is counted.       *)
LEMMA HeldIsCounted ==
    ASSUME IInv, Good, NEW q \in Proc, Holds(q)
    PROVE  /\ was[q].slot \in Slot
           /\ Lowest(todo[q]) \in todo[q] /\ Lowest(todo[q]) \in Fd
           /\ fds[q][Lowest(todo[q])] = was[q].slot
           /\ was[q].count = refcount[was[q].slot]
           /\ refcount[was[q].slot] \in Nat /\ refcount[was[q].slot] >= 1
           /\ \A i \in DOMAIN free : free[i] # was[q].slot
<1>1. todo[q] \in SUBSET Fd /\ todo[q] # {} /\ was[q].slot \in Slot
      /\ was[q].slot = fds[q][Lowest(todo[q])]
  BY DEF IInv, TypeOK, CallsInv, Holds
<1>2. Lowest(todo[q]) \in todo[q] /\ Lowest(todo[q]) \in Fd
  BY <1>1, LowestIn
<1>3. was[q].count = refcount[was[q].slot]
  BY DEF IInv, CountsInv
<1>4. refcount[was[q].slot] \in Nat
  BY <1>1, Bounds DEF IInv, TypeOK
<1>5. fds \in Tables
  BY DEF IInv, TypeOK, Tables
<1>6. Refs(was[q].slot) >= 1
  BY <1>1, <1>2, <1>5, RefsPositive, RefsAre
<1>7. refcount[was[q].slot] >= 1
  BY <1>1, <1>4, <1>6, RefsAre DEF IInv, CountsInv
<1>8. \A i \in DOMAIN free : free[i] # was[q].slot
  BY <1>4, <1>7 DEF IInv, CountsInv
<1> QED
  BY <1>1, <1>2, <1>3, <1>4, <1>7, <1>8

(* The free stack holds slots.                                              *)
LEMMA FreeAre ==
    ASSUME TypeOK
    PROVE  /\ Len(free) \in Nat /\ DOMAIN free = 1..Len(free)
           /\ \A i \in DOMAIN free : free[i] \in Slot
BY DEF TypeOK

-----------------------------------------------------------------------------

(* A process that takes a slot from the free stack.                         *)
LEMMA OpenKeeps ==
    ASSUME IInv, NEW p \in Proc, Open(p)
    PROVE  IInv'
<1> DEFINE s == Head(free)
<1>1. life[p] = "live" /\ Good /\ doing[p] = "user" /\ free # <<>> /\ TypeOK
  BY DEF Open, Calls, Runs, Good, IInv
<1>2. /\ s \in Slot /\ s = free[1] /\ 1 \in DOMAIN free
      /\ Tail(free) \in Seq(Slot)
      /\ DOMAIN Tail(free) = 1..(Len(free) - 1)
      /\ \A i \in DOMAIN Tail(free) : /\ i + 1 \in DOMAIN free
                                      /\ Tail(free)[i] = free[i + 1]
  <2>1. free \in Seq(Slot) /\ free # <<>>
    BY <1>1 DEF TypeOK
  <2> QED
    BY <2>1, HeadTailProperties
<1> HIDE DEF s
<1>3. /\ refcount' = [refcount EXCEPT ![s] = 1] /\ free' = Tail(free)
      /\ fds' = Added(p, s)
      /\ mishap' = mishap \cup (IF Room(p) = {} THEN {"leaked"} ELSE {})
      /\ UNCHANGED <<lock, life, parent, doing, todo, was, child>>
  BY DEF Open, s
<1>4. fds \in Tables /\ fds' \in Tables /\ \A q \in Proc \ {p} : fds'[q] = fds[q]
  BY <1>1, <1>2, <1>3, AddedOne DEF TypeOK, Tables
<1>5. refcount[s] = 0 /\ refcount'[s] = 1
      /\ \A t \in Slot \ {s} : refcount'[t] = refcount[t]
  BY <1>1, <1>2, <1>3 DEF IInv, CountsInv, TypeOK
<1>6. Refs(s) = 0
  BY <1>1, <1>2, <1>5, RefsAre DEF IInv, CountsInv
<1>7. \A t \in Slot : Refs(t)' = Refs(t) + IF t = s /\ Room(p) # {}
                                             THEN 1 ELSE 0
  BY <1>1, <1>2, <1>3, AddedRefs
<1>8. TypeOK'
  <2>1. refcount' \in [Slot -> 0..(Wrap - 1)]
    BY <1>1, <1>2, <1>3, Bounds DEF TypeOK
  <2>2. mishap' \subseteq Mishap
    BY <1>1, <1>3 DEF TypeOK, Mishap
  <2> QED
    BY <2>1, <2>2, <1>1, <1>2, <1>3, <1>4 DEF TypeOK, Tables
<1>9. CallsInv'
  <2> SUFFICES ASSUME NEW q \in Proc
               PROVE  /\ doing[q] = "user" => todo[q] = {} /\ ~Holds(q)
                      /\ life[q] # "live" => doing[q] = "user"
                      /\ life[q] = "none" => fds'[q] = Empty
                      /\ doing[q] = "dup" => \E fd \in Fd : todo[q] = {fd}
                      /\ todo[q] \subseteq Used(q)'
                      /\ Holds(q) => /\ todo[q] # {}
                                     /\ was[q].slot = fds'[q][Lowest(todo[q])]
    BY <1>3 DEF CallsInv, Holds
  <2>1. CASE q = p
    BY <2>1, <1>1 DEF IInv, CallsInv
  <2>2. CASE q # p
    BY <2>2, <1>4 DEF IInv, CallsInv, Used, Room
  <2> QED
    BY <2>1, <2>2
<1>10. ChildInv'
  <2>1. \A q \in Proc : doing[q] = "spawn" => child[q] # p
    BY <1>1 DEF IInv, ChildInv
  <2>2. \A q \in Proc \ {p} : Used(q)' = Used(q)
    BY <1>4 DEF Used, Room
  <2>3. ChildInv
    BY DEF IInv
  <2> QED
    BY <2>1, <2>2, <2>3, <1>3 DEF ChildInv
<1>11. CountsInv'
  <2>1. \A t \in Slot : Refs(t)' <= refcount'[t]
    BY <1>1, <1>5, <1>6, <1>7, RefsAre DEF IInv, CountsInv
  <2>2. ASSUME NEW q \in Proc, Holds(q)'
        PROVE  was'[q].count = refcount'[was'[q].slot]
    <3>1. Holds(q) /\ was'[q] = was[q]
      BY <2>2, <1>3 DEF Holds
    <3>2. was[q].slot \in Slot /\ was[q].slot # s
          /\ was[q].count = refcount[was[q].slot]
      BY <3>1, <1>1, <1>2, HeldIsCounted
    <3> QED
      BY <3>1, <3>2, <1>5
  <2>3. \A i \in DOMAIN free' : refcount'[free'[i]] = 0
    BY <1>1, <1>2, <1>3, <1>5, FreeAre DEF IInv, CountsInv
  <2>4. \A i, j \in DOMAIN free' : free'[i] = free'[j] => i = j
    BY <1>1, <1>2, <1>3 DEF IInv, CountsInv
  <2> QED
    BY <2>1, <2>2, <2>3, <2>4 DEF CountsInv
<1>12. ExactInv'
  <2> SUFFICES ASSUME mishap' = {}, NEW t \in Slot
               PROVE  /\ Refs(t)' = refcount'[t]
                      /\ refcount'[t] = 0 => \E i \in DOMAIN free' : free'[i] = t
    BY DEF ExactInv
  <2>1. mishap = {} /\ Room(p) # {}
    BY <1>3
  <2>2. Refs(t)' = refcount'[t]
    BY <2>1, <1>5, <1>6, <1>7, RefsAre DEF IInv, ExactInv
  <2>3. ASSUME refcount'[t] = 0
        PROVE  \E i \in DOMAIN free' : free'[i] = t
    <3>1. t # s /\ refcount[t] = 0
      BY <2>3, <1>5
    <3>2. PICK i \in DOMAIN free : free[i] = t
      BY <2>1, <3>1 DEF IInv, ExactInv
    <3>3. i \in 1..Len(free) /\ i # 1 /\ Len(free) \in Nat
      BY <3>1, <3>2, <1>1, <1>2, FreeAre
    <3>4. i - 1 \in DOMAIN Tail(free) /\ Tail(free)[i - 1] = free[i]
      BY <3>3, <1>2
    <3> QED
      BY <3>2, <3>4, <1>3
  <2> QED
    BY <2>2, <2>3
<1> QED
  BY <1>8, <1>9, <1>10, <1>11, <1>12 DEF IInv

-----------------------------------------------------------------------------

(* What leaves the file table and the descriptors alone leaves the counts   *)
(* right, if what it reads of them is right.                                *)
LEMMA FilesSame ==
    ASSUME IInv, Good, UNCHANGED <<refcount, free, fds>>, mishap \subseteq mishap',
           \A q \in Proc : \/ was'[q] = was[q]
                           \/ was'[q].count = refcount[was'[q].slot]
    PROVE  CountsInv' /\ ExactInv'
<1>1. \A s : Refs(s)' = Refs(s)
  BY RefsAre
<1>2. CountsInv'
  BY <1>1 DEF IInv, CountsInv, Holds
<1>3. ExactInv'
  BY <1>1 DEF IInv, ExactInv
<1> QED
  BY <1>2, <1>3

(* A file table that is full.                                               *)
LEMMA OpenFailsKeeps ==
    ASSUME IInv, NEW p \in Proc, OpenFails(p)
    PROVE  IInv'
<1>1. Good /\ UNCHANGED <<refcount, free, fds, life, parent, doing, todo, was,
                          child>>
      /\ lock' = p /\ mishap' = mishap \cup {"locked"}
  BY DEF OpenFails, Calls, Runs, Good
<1>2. TypeOK'
  BY <1>1 DEF IInv, TypeOK, Mishap
<1>3. CallsInv' /\ ChildInv'
  BY <1>1 DEF IInv, CallsInv, ChildInv, Holds, Used, Room
<1>4. CountsInv' /\ ExactInv'
  BY <1>1, FilesSame
<1> QED
  BY <1>2, <1>3, <1>4 DEF IInv

(* What a descriptor names, and its count.                                  *)
LEMMA ReadTyped ==
    ASSUME TypeOK, NEW p \in Proc, NEW fd \in Fd, fds[p][fd] # NoFile, Read(p, fd)
    PROVE  /\ was' \in [Proc -> [slot : Slot \cup {NoFile}, count : 0..(Wrap - 1)]]
           /\ was'[p].slot = fds[p][fd] /\ was'[p].count = refcount[fds[p][fd]]
           /\ \A q \in Proc \ {p} : was'[q] = was[q]
<1>1. fds[p][fd] \in Slot
  BY DEF TypeOK
<1>2. refcount[fds[p][fd]] \in 0..(Wrap - 1)
  BY <1>1 DEF TypeOK
<1> QED
  BY <1>1, <1>2 DEF TypeOK, Read

(* A process that enters vfs_close or vfs_fcntl.                            *)
LEMMA CallKeeps ==
    ASSUME IInv, NEW p \in Proc, NEW fd \in Fd, NEW op \in {"dup", "close"},
           Call(p, op, fd)
    PROVE  IInv'
<1>1. /\ Good /\ life[p] = "live" /\ doing[p] = "user"
      /\ fds[p][fd] # NoFile /\ TypeOK
      /\ UNCHANGED <<refcount, free, fds, life, parent, child, mishap>>
      /\ lock' = p /\ Read(p, fd)
      /\ doing' = [doing EXCEPT ![p] = op]
      /\ todo' = [todo EXCEPT ![p] = {fd}]
  BY DEF Call, Calls, Runs, Good, IInv
<1>2. /\ was' \in [Proc -> [slot : Slot \cup {NoFile}, count : 0..(Wrap - 1)]]
      /\ was'[p].slot = fds[p][fd] /\ was'[p].count = refcount[fds[p][fd]]
      /\ \A q \in Proc \ {p} : was'[q] = was[q]
  BY <1>1, ReadTyped
<1>3. /\ doing'[p] = op /\ todo'[p] = {fd}
      /\ \A q \in Proc \ {p} : doing'[q] = doing[q] /\ todo'[q] = todo[q]
  BY <1>1 DEF TypeOK
<1>4. TypeOK'
  <2>1. doing' \in [Proc -> {"user", "dup", "close", "spawn", "reap"}]
        /\ todo' \in [Proc -> SUBSET Fd]
    BY <1>1 DEF TypeOK
  <2> QED
    BY <2>1, <1>1, <1>2 DEF TypeOK
<1>5. CallsInv'
  <2> SUFFICES ASSUME NEW q \in Proc
               PROVE  /\ doing'[q] = "user" => todo'[q] = {} /\ ~Holds(q)'
                      /\ life'[q] # "live" => doing'[q] = "user"
                      /\ life'[q] = "none" => fds'[q] = Empty
                      /\ doing'[q] = "dup" => \E e \in Fd : todo'[q] = {e}
                      /\ todo'[q] \subseteq Used(q)'
                      /\ Holds(q)' => /\ todo'[q] # {}
                                      /\ was'[q].slot = fds'[q][Lowest(todo'[q])]
    BY DEF CallsInv, Holds
  <2>1. CASE q = p
    <3>1. Lowest({fd}) = fd
      BY LowestIn
    <3>2. fd \in Used(p)'
      BY <1>1 DEF Used, Room
    <3>3. fds' = fds /\ life' = life /\ life[p] = "live" /\ op # "user"
      BY <1>1
    <3>4. was'[q].slot = fds'[q][Lowest(todo'[q])]
      BY <3>1, <3>3, <2>1, <1>2, <1>3
    <3> QED
      BY <3>2, <3>3, <3>4, <2>1, <1>3
  <2>2. CASE q # p
    BY <2>2, <1>1, <1>2, <1>3 DEF IInv, CallsInv, Holds, Used, Room
  <2> QED
    BY <2>1, <2>2
<1>6. ChildInv'
  BY <1>1, <1>3 DEF IInv, ChildInv, Used, Room
<1>7. CountsInv' /\ ExactInv'
  BY <1>1, <1>2, FilesSame
<1> QED
  BY <1>4, <1>5, <1>6, <1>7 DEF IInv

(* The loops of proc_reap and sys_spawn, at their next descriptor.          *)
LEMMA ReadNextKeeps ==
    ASSUME IInv, NEW p \in Proc, ReadNext(p)
    PROVE  IInv'
<1> DEFINE fd == Lowest(todo[p])
<1>1. /\ Good /\ life[p] = "live" /\ ~Holds(p) /\ todo[p] # {} /\ TypeOK
      /\ UNCHANGED <<refcount, free, fds, life, parent, doing, todo, child,
                     mishap>>
      /\ Read(p, fd)
      /\ lock' \in {lock, p}
  BY DEF ReadNext, Runs, Good, IInv
<1>2. fd \in todo[p] /\ fd \in Fd /\ fds[p][fd] # NoFile
  <2>1. fd \in todo[p] /\ todo[p] \subseteq Fd
    BY <1>1, LowestIn DEF TypeOK
  <2> HIDE DEF fd
  <2> QED
    BY <2>1 DEF IInv, CallsInv, Used, Room
<1>3. /\ was' \in [Proc -> [slot : Slot \cup {NoFile}, count : 0..(Wrap - 1)]]
      /\ was'[p].slot = fds[p][fd] /\ was'[p].count = refcount[fds[p][fd]]
      /\ \A q \in Proc \ {p} : was'[q] = was[q]
  BY <1>1, <1>2, ReadTyped
<1>4. TypeOK'
  BY <1>1, <1>3 DEF TypeOK
<1>5. CallsInv'
  <2> SUFFICES ASSUME NEW q \in Proc
               PROVE  /\ doing[q] = "user" => todo[q] = {} /\ ~Holds(q)'
                      /\ life[q] # "live" => doing[q] = "user"
                      /\ life[q] = "none" => fds[q] = Empty
                      /\ doing[q] = "dup" => \E e \in Fd : todo[q] = {e}
                      /\ todo[q] \subseteq Used(q)
                      /\ Holds(q)' => /\ todo[q] # {}
                                      /\ was'[q].slot = fds[q][Lowest(todo[q])]
    BY <1>1 DEF CallsInv, Holds, Used, Room
  <2>1. CASE q = p
    BY <2>1, <1>1, <1>3 DEF IInv, CallsInv
  <2>2. CASE q # p
    BY <2>2, <1>3 DEF IInv, CallsInv, Holds
  <2> QED
    BY <2>1, <2>2
<1>6. ChildInv'
  BY <1>1 DEF IInv, ChildInv, Used, Room
<1>7. CountsInv' /\ ExactInv'
  BY <1>1, <1>3, FilesSame
<1> QED
  BY <1>4, <1>5, <1>6, <1>7 DEF IInv

-----------------------------------------------------------------------------
(* The write of a count.                                                    *)

Reads == [Proc -> [slot : Slot \cup {NoFile}, count : 0..(Wrap - 1)]]

(* The second half of a change of a count keeps the types,                  *)
LEMMA StoreTyped ==
    ASSUME IInv, NEW p \in Proc, Runs(p), Holds(p), NEW n \in 0..(Wrap - 1),
           Store(p, n)
    PROVE  /\ refcount' \in [Slot -> 0..(Wrap - 1)]
           /\ was' \in Reads
           /\ todo' \in [Proc -> SUBSET Fd]
           /\ lock' \in Proc \cup {NoProc}
           /\ mishap' \subseteq Mishap
<1>1. TypeOK /\ was[p].slot \in Slot
  BY HeldIsCounted DEF IInv, Runs, Good
<1>2. refcount' \in [Slot -> 0..(Wrap - 1)]
  BY <1>1 DEF Store, TypeOK
<1>3. was' \in Reads
  <2>1. Nothing \in [slot : Slot \cup {NoFile}, count : 0..(Wrap - 1)]
    BY Bounds DEF Nothing
  <2> QED
    BY <2>1, <1>1 DEF Store, TypeOK, Reads
<1>4. todo' \in [Proc -> SUBSET Fd]
  BY <1>1 DEF Store, TypeOK
<1>5. lock' \in Proc \cup {NoProc}
  BY <1>1 DEF Store, TypeOK
<1>6. mishap' \subseteq Mishap
  BY <1>1 DEF Store, TypeOK, Mishap
<1> QED
  BY <1>2, <1>3, <1>4, <1>5, <1>6

(* writes one count, and is done with one descriptor.                       *)
LEMMA StoreDoes ==
    ASSUME IInv, NEW p \in Proc, Runs(p), Holds(p), NEW n \in 0..(Wrap - 1),
           Store(p, n)
    PROVE  /\ refcount'[was[p].slot] = n
           /\ \A t \in Slot \ {was[p].slot} : refcount'[t] = refcount[t]
           /\ ~Holds(p)' /\ todo'[p] = todo[p] \ {Lowest(todo[p])}
           /\ \A q \in Proc \ {p} : was'[q] = was[q] /\ todo'[q] = todo[q]
           /\ mishap \subseteq mishap'
           /\ Good' => \A q \in Proc \ {p} : was[q].slot # was[p].slot
           /\ Good' => ~(was[p].count = Wrap - 1 /\ n = 0)
           /\ mishap' = {} /\ doing[p] = "dup" => Room(p) # {}
<1>1. TypeOK /\ was[p].slot \in Slot
  BY HeldIsCounted DEF IInv, Runs, Good
<1>2. /\ refcount'[was[p].slot] = n
      /\ \A t \in Slot \ {was[p].slot} : refcount'[t] = refcount[t]
  BY <1>1 DEF Store, TypeOK
<1>3. ~Holds(p)'
  BY <1>1 DEF Store, TypeOK, Holds, Nothing
<1>4. /\ todo'[p] = todo[p] \ {Lowest(todo[p])}
      /\ \A q \in Proc \ {p} : was'[q] = was[q] /\ todo'[q] = todo[q]
  BY <1>1 DEF Store, TypeOK
<1>5. mishap \subseteq mishap'
  BY DEF Store
<1>6. Good' => \A q \in Proc \ {p} : was[q].slot # was[p].slot
  BY DEF Store, Good
<1>7. Good' => ~(was[p].count = Wrap - 1 /\ n = 0)
  BY DEF Store, Good
<1>8. mishap' = {} /\ doing[p] = "dup" => Room(p) # {}
  BY DEF Store
<1> QED
  BY <1>2, <1>3, <1>4, <1>5, <1>6, <1>7, <1>8

(* Nobody else has read the count that is written.                          *)
LEMMA StoreReaders ==
    ASSUME IInv, NEW p \in Proc, Runs(p), Holds(p), NEW n \in 0..(Wrap - 1),
           Store(p, n), Good', NEW q \in Proc, Holds(q)'
    PROVE  was'[q].count = refcount'[was'[q].slot]
<1>1. q # p /\ was'[q] = was[q]
  BY StoreDoes
<1>2. Holds(q) /\ Good
  BY <1>1 DEF Holds, Runs, Good
<1>3. was[q].slot \in Slot /\ was[q].count = refcount[was[q].slot]
  BY <1>2, HeldIsCounted
<1>4. was[q].slot # was[p].slot
  BY <1>1, StoreDoes
<1>5. refcount'[was[q].slot] = refcount[was[q].slot]
  BY <1>3, <1>4, StoreDoes
<1> QED
  BY <1>1, <1>3, <1>5

(* A count that does not wrap grows by 1.                                   *)
LEMMA CountUp ==
    ASSUME NEW n \in 0..(Wrap - 1)
    PROVE  /\ (n + 1) % Wrap \in 0..(Wrap - 1)
           /\ n # Wrap - 1 => (n + 1) % Wrap = n + 1
           /\ n = Wrap - 1 => (n + 1) % Wrap = 0
<1>1. Wrap \in Nat /\ Wrap > 1 /\ n \in Nat /\ n <= Wrap - 1
  BY Bounds
<1>2. CASE n = Wrap - 1
  <2>1. n + 1 = Wrap /\ Wrap % Wrap = 0
    BY <1>1, <1>2
  <2> QED
    BY <2>1, <1>1, <1>2
<1>3. CASE n # Wrap - 1
  <2>1. n + 1 < Wrap
    BY <1>1, <1>3
  <2>2. (n + 1) % Wrap = n + 1
    BY <2>1, <1>1
  <2> QED
    BY <2>1, <2>2, <1>1, <1>3
<1> QED
  BY <1>2, <1>3

(* One more reference and a count that is greater by 1: dup and sys_spawn.  *)
LEMMA CountedUp ==
    ASSUME IInv, NEW p \in Proc, Runs(p), Holds(p),
           Store(p, (was[p].count + 1) % Wrap), free' = free,
           NEW to \in Proc, fds' = Added(to, was[p].slot)
    PROVE  /\ CountsInv'
           /\ Room(to) # {} => ExactInv'
<1> DEFINE s == was[p].slot
           n == (was[p].count + 1) % Wrap
<1>1. Good /\ TypeOK
  BY DEF Runs, Good, IInv
<1>2. /\ s \in Slot /\ was[p].count = refcount[s]
      /\ refcount[s] \in Nat /\ refcount[s] >= 1
      /\ \A i \in DOMAIN free : free[i] # s
  BY <1>1, HeldIsCounted
<1>3. was[p].count \in 0..(Wrap - 1)
  BY <1>1 DEF TypeOK
<1>4. n \in 0..(Wrap - 1)
  BY <1>3, CountUp
<1>5. /\ refcount'[s] = n /\ \A t \in Slot \ {s} : refcount'[t] = refcount[t]
      /\ mishap \subseteq mishap'
      /\ Good' => ~(was[p].count = Wrap - 1 /\ n = 0)
  BY <1>4, StoreDoes
<1>6. Good' => refcount'[s] = refcount[s] + 1
  BY <1>2, <1>3, <1>5, CountUp
<1>7. \A t \in Slot : Refs(t)' = Refs(t) + IF t = s /\ Room(to) # {}
                                             THEN 1 ELSE 0
  BY <1>1, <1>2, AddedRefs
<1>8. Good' => \A q \in Proc : Holds(q)' =>
                  was'[q].count = refcount'[was'[q].slot]
  BY <1>4, StoreReaders
<1>9. \A t \in Slot : refcount[t] \in Nat
  BY <1>1, Bounds DEF TypeOK
<1> HIDE DEF s, n
<1>10. CountsInv'
  <2> SUFFICES ASSUME Good'
               PROVE  /\ \A t \in Slot : Refs(t)' <= refcount'[t]
                      /\ \A i \in DOMAIN free' : refcount'[free'[i]] = 0
                      /\ \A i, j \in DOMAIN free' : free'[i] = free'[j] => i = j
    BY <1>8 DEF CountsInv
  <2>1. ASSUME NEW t \in Slot
        PROVE  Refs(t)' <= refcount'[t]
    <3>1. Refs(t) <= refcount[t] /\ Refs(t) \in Nat /\ refcount[t] \in Nat
      BY <1>1, <1>9, RefsAre DEF IInv, CountsInv
    <3>2. CASE t = s
      BY <3>1, <3>2, <1>6, <1>7
    <3>3. CASE t # s
      BY <3>1, <3>3, <1>5, <1>7
    <3> QED
      BY <3>2, <3>3
  <2>2. ASSUME NEW i \in DOMAIN free
        PROVE  refcount'[free[i]] = 0
    BY <1>1, <1>2, <1>5, FreeAre DEF IInv, CountsInv
  <2> QED
    BY <2>1, <2>2, <1>1 DEF IInv, CountsInv
<1>11. ASSUME Room(to) # {}, mishap' = {}, NEW t \in Slot
       PROVE  /\ Refs(t)' = refcount'[t]
              /\ refcount'[t] = 0 => \E i \in DOMAIN free' : free'[i] = t
  <2>1. Good' /\ mishap = {}
    BY <1>5, <1>11 DEF Good
  <2>2. Refs(t) = refcount[t]
        /\ (refcount[t] = 0 => \E i \in DOMAIN free : free[i] = t)
    BY <2>1 DEF IInv, ExactInv
  <2>3. CASE t = s
    BY <2>1, <2>2, <2>3, <1>2, <1>6, <1>7, <1>11
  <2>4. CASE t # s
    BY <2>2, <2>4, <1>5, <1>7, <1>9
  <2> QED
    BY <2>3, <2>4
<1> QED
  BY <1>10, <1>11 DEF ExactInv

-----------------------------------------------------------------------------

(* fcntl(F_DUPFD), when it is back.                                         *)
LEMMA DupKeeps ==
    ASSUME IInv, NEW p \in Proc, Dup(p)
    PROVE  IInv'
<1> DEFINE n == (was[p].count + 1) % Wrap
<1>1. /\ Runs(p) /\ Holds(p) /\ doing[p] = "dup" /\ Store(p, n)
      /\ fds' = Added(p, was[p].slot)
      /\ doing' = [doing EXCEPT ![p] = "user"]
      /\ UNCHANGED <<free, life, parent, child>>
      /\ TypeOK /\ Good /\ life[p] = "live"
  BY DEF Dup, IInv, Runs, Good
<1>2. was[p].slot \in Slot /\ Lowest(todo[p]) \in todo[p]
  BY <1>1, HeldIsCounted
<1>3. n \in 0..(Wrap - 1)
  BY <1>1, CountUp DEF TypeOK
<1> HIDE DEF n
<1>4. /\ refcount' \in [Slot -> 0..(Wrap - 1)] /\ was' \in Reads
      /\ todo' \in [Proc -> SUBSET Fd] /\ lock' \in Proc \cup {NoProc}
      /\ mishap' \subseteq Mishap
  BY <1>1, <1>3, StoreTyped
<1>5. /\ ~Holds(p)' /\ todo'[p] = todo[p] \ {Lowest(todo[p])}
      /\ \A q \in Proc \ {p} : was'[q] = was[q] /\ todo'[q] = todo[q]
      /\ mishap' = {} => Room(p) # {}
  BY <1>1, <1>3, StoreDoes
<1>6. todo'[p] = {}
  BY <1>1, <1>2, <1>5 DEF IInv, CallsInv
<1>7. /\ doing'[p] = "user"
      /\ \A q \in Proc \ {p} : doing'[q] = doing[q] /\ fds'[q] = fds[q]
      /\ fds' \in Tables
  BY <1>1, <1>2, AddedOne DEF TypeOK
<1>8. TypeOK'
  <2>1. doing' \in [Proc -> {"user", "dup", "close", "spawn", "reap"}]
    BY <1>1 DEF TypeOK
  <2> QED
    BY <2>1, <1>1, <1>4, <1>7 DEF TypeOK, Tables, Reads
<1>9. CallsInv'
  <2> SUFFICES ASSUME NEW q \in Proc
               PROVE  /\ doing'[q] = "user" => todo'[q] = {} /\ ~Holds(q)'
                      /\ life'[q] # "live" => doing'[q] = "user"
                      /\ life'[q] = "none" => fds'[q] = Empty
                      /\ doing'[q] = "dup" => \E e \in Fd : todo'[q] = {e}
                      /\ todo'[q] \subseteq Used(q)'
                      /\ Holds(q)' => /\ todo'[q] # {}
                                      /\ was'[q].slot = fds'[q][Lowest(todo'[q])]
    BY DEF CallsInv, Holds
  <2>1. CASE q = p
    BY <2>1, <1>1, <1>5, <1>6, <1>7
  <2>2. CASE q # p
    BY <2>2, <1>1, <1>5, <1>7 DEF IInv, CallsInv, Holds, Used, Room
  <2> QED
    BY <2>1, <2>2
<1>10. ChildInv'
  <2> SUFFICES ASSUME NEW q \in Proc, doing'[q] = "spawn"
               PROVE  /\ child'[q] \in Proc /\ life'[child'[q]] = "stopped"
                      /\ \A r \in Proc \ {q} :
                            doing'[r] = "spawn" => child'[r] # child'[q]
                      /\ Cardinality(Used(child[q])') + Cardinality(todo'[q])
                            <= MaxFds
    BY <1>1 DEF ChildInv
  <2>1. q # p /\ doing[q] = "spawn" /\ todo'[q] = todo[q]
    BY <1>5, <1>7
  <2>2. child[q] \in Proc /\ child[q] # p
    BY <2>1, <1>1 DEF IInv, ChildInv
  <2>3. Used(child[q])' = Used(child[q])
    BY <2>2, <1>1, <1>7 DEF Used, Room
  <2> QED
    BY <2>1, <2>2, <2>3, <1>1, <1>7 DEF IInv, ChildInv
<1>11. CountsInv' /\ (mishap' = {} => ExactInv')
  BY <1>1, <1>5, CountedUp DEF n
<1>12. ExactInv'
  BY <1>11 DEF ExactInv
<1> QED
  BY <1>8, <1>9, <1>10, <1>11, <1>12 DEF IInv

(* A descriptor that sys_spawn gives to the child.                          *)
LEMMA InheritKeeps ==
    ASSUME IInv, NEW p \in Proc, Inherit(p)
    PROVE  IInv'
<1> DEFINE n == (was[p].count + 1) % Wrap
           c == child[p]
           d == Lowest(todo[p])
<1>1. /\ Runs(p) /\ Holds(p) /\ doing[p] = "spawn" /\ Store(p, n)
      /\ fds' = Added(c, was[p].slot)
      /\ UNCHANGED <<free, life, parent, doing, child>>
      /\ TypeOK /\ Good /\ life[p] = "live"
  BY DEF Inherit, IInv, Runs, Good
<1>2. was[p].slot \in Slot /\ d \in todo[p] /\ todo[p] \in SUBSET Fd
  BY <1>1, HeldIsCounted DEF TypeOK
<1>3. n \in 0..(Wrap - 1)
  BY <1>1, CountUp DEF TypeOK
<1> HIDE DEF n, d
<1>4. /\ refcount' \in [Slot -> 0..(Wrap - 1)] /\ was' \in Reads
      /\ todo' \in [Proc -> SUBSET Fd] /\ lock' \in Proc \cup {NoProc}
      /\ mishap' \subseteq Mishap
  BY <1>1, <1>3, StoreTyped
<1>5. /\ ~Holds(p)' /\ todo'[p] = todo[p] \ {d}
      /\ \A q \in Proc \ {p} : was'[q] = was[q] /\ todo'[q] = todo[q]
  BY <1>1, <1>3, StoreDoes DEF d
<1>6. c \in Proc /\ life[c] = "stopped" /\ c # p /\ doing[c] = "user"
      /\ todo[c] = {} /\ ~Holds(c)
      /\ Cardinality(Used(c)) + Cardinality(todo[p]) <= MaxFds
  BY <1>1 DEF IInv, ChildInv, CallsInv
<1> HIDE DEF c
<1>7. /\ fds' \in Tables /\ \A q \in Proc \ {c} : fds'[q] = fds[q]
      /\ Room(c) # {} => \E fd \in Room(c) : Sets(fds, fds', c, fd, was[p].slot)
      /\ Room(c) = {} => fds' = fds
  BY <1>1, <1>2, <1>6, AddedOne
<1>8. /\ IsFiniteSet(todo[p]) /\ Cardinality(todo[p]) \in Nat
      /\ Cardinality(todo[p]) >= 1
      /\ Cardinality(todo'[p]) = Cardinality(todo[p]) - 1
  <2>1. IsFiniteSet(todo[p])
    BY <1>2, Bounds, FS_Subset
  <2>2. Cardinality(todo[p]) \in Nat /\ Cardinality(todo[p]) # 0
    BY <2>1, <1>2, FS_CardinalityType, FS_EmptySet
  <2>3. Cardinality(todo[p] \ {d}) = Cardinality(todo[p]) - 1
    BY <2>1, <1>2, FS_RemoveElement
  <2> QED
    BY <2>1, <2>2, <2>3, <1>5
<1>9. /\ IsFiniteSet(Used(c)) /\ Cardinality(Used(c)) \in Nat
      /\ Cardinality(Used(c)') <= Cardinality(Used(c)) + 1
      /\ Cardinality(Used(c)') \in Nat
  <2>1. Used(c) \subseteq Fd /\ Used(c)' \subseteq Fd
    BY DEF Used, c
  <2>2. IsFiniteSet(Used(c)) /\ Cardinality(Used(c)) \in Nat
        /\ IsFiniteSet(Used(c)') /\ Cardinality(Used(c)') \in Nat
    BY <2>1, Bounds, FS_Subset, FS_CardinalityType
  <2>3. CASE Room(c) = {}
    <3>1. Used(c)' = Used(c)
      BY <2>3, <1>1, <1>7 DEF Used, Room, c
    <3> QED
      BY <2>2, <3>1
  <2>4. CASE Room(c) # {}
    <3>1. PICK fd \in Room(c) : Sets(fds, fds', c, fd, was[p].slot)
      BY <2>4, <1>7
    <3>2. Used(c)' \subseteq Used(c) \cup {fd}
      BY <3>1, <1>1, <1>6 DEF Used, Room, Sets, c
    <3>3. /\ IsFiniteSet(Used(c) \cup {fd})
          /\ Cardinality(Used(c) \cup {fd}) =
                IF fd \in Used(c) THEN Cardinality(Used(c))
                                  ELSE Cardinality(Used(c)) + 1
      BY <2>2, FS_AddElement
    <3>4. IsFiniteSet(Used(c) \cup {fd})
          /\ Cardinality(Used(c) \cup {fd}) <= Cardinality(Used(c)) + 1
      BY <3>3, <2>2
    <3>5. Cardinality(Used(c) \cup {fd}) \in Nat
      BY <3>4, FS_CardinalityType
    <3>6. Cardinality(Used(c)') <= Cardinality(Used(c) \cup {fd})
      BY <3>2, <3>4, FS_Subset
    <3> QED
      BY <2>2, <3>4, <3>5, <3>6
  <2> QED
    BY <2>2, <2>3, <2>4
<1>10. Room(c) # {}
  <2>1. SUFFICES ASSUME Room(c) = {}
                 PROVE  FALSE
    OBVIOUS
  <2>2. Used(c) = Fd
    BY <2>1 DEF Used
  <2> QED
    BY <2>2, <1>6, <1>8, Bounds
<1>11. TypeOK'
  BY <1>1, <1>4, <1>7 DEF TypeOK, Tables, Reads
<1>12. CallsInv'
  <2> SUFFICES ASSUME NEW q \in Proc
               PROVE  /\ doing[q] = "user" => todo'[q] = {} /\ ~Holds(q)'
                      /\ life[q] # "live" => doing[q] = "user"
                      /\ life[q] = "none" => fds'[q] = Empty
                      /\ doing[q] = "dup" => \E e \in Fd : todo'[q] = {e}
                      /\ todo'[q] \subseteq Used(q)'
                      /\ Holds(q)' => /\ todo'[q] # {}
                                      /\ was'[q].slot = fds'[q][Lowest(todo'[q])]
    BY <1>1 DEF CallsInv, Holds
  <2>1. CASE q = p
    <3>1. Used(p)' = Used(p) /\ fds'[p] = fds[p]
      BY <1>6, <1>7 DEF Used, Room
    <3> QED
      BY <2>1, <3>1, <1>1, <1>5 DEF IInv, CallsInv
  <2>2. CASE q = c
    BY <2>2, <1>5, <1>6 DEF Holds
  <2>3. CASE q # p /\ q # c
    BY <2>3, <1>5, <1>7 DEF IInv, CallsInv, Holds, Used, Room
  <2> QED
    BY <2>1, <2>2, <2>3
<1>13. ChildInv'
  <2> SUFFICES ASSUME NEW q \in Proc, doing[q] = "spawn"
               PROVE  /\ child[q] \in Proc /\ life[child[q]] = "stopped"
                      /\ \A r \in Proc \ {q} :
                            doing[r] = "spawn" => child[r] # child[q]
                      /\ Cardinality(Used(child[q])') + Cardinality(todo'[q])
                            <= MaxFds
    BY <1>1 DEF ChildInv
  <2>1. CASE q = p
    BY <2>1, <1>1, <1>6, <1>8, <1>9, Bounds DEF IInv, ChildInv, c
  <2>2. CASE q # p
    <3>1. child[q] \in Proc /\ child[q] # c
      BY <2>2, <1>1 DEF IInv, ChildInv, c
    <3>2. Used(child[q])' = Used(child[q])
      BY <3>1, <1>1, <1>7 DEF Used, Room
    <3> QED
      BY <2>2, <3>1, <3>2, <1>5 DEF IInv, ChildInv
  <2> QED
    BY <2>1, <2>2
<1>14. CountsInv' /\ ExactInv'
  BY <1>1, <1>6, <1>10, CountedUp DEF n
<1> QED
  BY <1>11, <1>12, <1>13, <1>14 DEF IInv

(* A descriptor that vfs_close closes.                                      *)
LEMMA CloseKeeps ==
    ASSUME IInv, NEW p \in Proc, Close(p)
    PROVE  IInv'
<1> DEFINE s == was[p].slot
           d == Lowest(todo[p])
           n == IF was[p].count > 1 THEN was[p].count - 1 ELSE 0
<1>1. /\ Runs(p) /\ Holds(p) /\ doing[p] \in {"close", "reap"} /\ Store(p, n)
      /\ free' = IF was[p].count > 1 THEN free ELSE <<s>> \o free
      /\ fds' = [fds EXCEPT ![p][d] = NoFile]
      /\ doing' = [doing EXCEPT ![p] = IF todo'[p] = {} THEN "user" ELSE @]
      /\ UNCHANGED <<life, parent, child>>
      /\ TypeOK /\ Good /\ life[p] = "live"
  BY DEF Close, IInv, Runs, Good
<1>2. /\ s \in Slot /\ d \in todo[p] /\ d \in Fd /\ todo[p] \in SUBSET Fd
      /\ fds[p][d] = s
      /\ was[p].count = refcount[s] /\ refcount[s] \in Nat /\ refcount[s] >= 1
      /\ \A i \in DOMAIN free : free[i] # s
  BY <1>1, HeldIsCounted DEF TypeOK
<1>3. /\ n \in 0..(Wrap - 1) /\ n = refcount[s] - 1
      /\ free' = IF refcount[s] > 1 THEN free ELSE <<s>> \o free
  <2>1. was[p].count \in 0..(Wrap - 1)
    BY <1>1 DEF TypeOK
  <2> QED
    BY <2>1, <1>1, <1>2, Bounds
<1> HIDE DEF n, d, s
<1>4. /\ refcount' \in [Slot -> 0..(Wrap - 1)] /\ was' \in Reads
      /\ todo' \in [Proc -> SUBSET Fd] /\ lock' \in Proc \cup {NoProc}
      /\ mishap' \subseteq Mishap
  BY <1>1, <1>3, StoreTyped
<1>5. /\ refcount'[s] = n /\ \A t \in Slot \ {s} : refcount'[t] = refcount[t]
      /\ ~Holds(p)' /\ todo'[p] = todo[p] \ {d}
      /\ \A q \in Proc \ {p} : was'[q] = was[q] /\ todo'[q] = todo[q]
      /\ mishap \subseteq mishap'
  BY <1>1, <1>3, StoreDoes DEF d, s
<1>6. /\ doing'[p] = "user" => todo'[p] = {}
      /\ doing'[p] \in {"user", "close", "reap"}
      /\ \A q \in Proc \ {p} : doing'[q] = doing[q] /\ fds'[q] = fds[q]
      /\ fds' \in Tables /\ Sets(fds, fds', p, d, NoFile)
      /\ doing' \in [Proc -> {"user", "dup", "close", "spawn", "reap"}]
  <2>1. fds' \in Tables /\ Sets(fds, fds', p, d, NoFile)
    BY <1>1, <1>2 DEF TypeOK, Tables, Sets
  <2>2. doing' \in [Proc -> {"user", "dup", "close", "spawn", "reap"}]
    BY <1>1 DEF TypeOK
  <2>3. /\ doing'[p] = "user" => todo'[p] = {}
        /\ doing'[p] \in {"user", "close", "reap"}
    BY <1>1 DEF TypeOK
  <2>4. \A q \in Proc \ {p} : doing'[q] = doing[q] /\ fds'[q] = fds[q]
    BY <1>1, <1>2 DEF TypeOK
  <2> QED
    BY <2>1, <2>2, <2>3, <2>4
<1>7. \A t \in Slot : Refs(t)' = Refs(t) - IF t = s THEN 1 ELSE 0
  <2> TAKE t \in Slot
  <2>1. fds \in Tables
    BY <1>1 DEF TypeOK, Tables
  <2>2. Cardinality(RefSet(fds', t)) =
            Cardinality(RefSet(fds, t)) - IF t = fds[p][d] THEN 1 ELSE 0
    BY <2>1, <1>2, <1>6, RefsRemoved
  <2> QED
    BY <2>2, <1>2, RefsAre
<1>8. free' \in Seq(Slot)
  <2>1. free \in Seq(Slot) /\ <<s>> \in Seq(Slot)
    BY <1>1, <1>2 DEF TypeOK
  <2>2. <<s>> \o free \in Seq(Slot)
    BY <2>1
  <2> QED
    BY <2>1, <2>2, <1>3
<1>9. TypeOK'
  BY <1>1, <1>4, <1>6, <1>8 DEF TypeOK, Tables, Reads
<1>10. CallsInv'
  <2> SUFFICES ASSUME NEW q \in Proc
               PROVE  /\ doing'[q] = "user" => todo'[q] = {} /\ ~Holds(q)'
                      /\ life'[q] # "live" => doing'[q] = "user"
                      /\ life'[q] = "none" => fds'[q] = Empty
                      /\ doing'[q] = "dup" => \E e \in Fd : todo'[q] = {e}
                      /\ todo'[q] \subseteq Used(q)'
                      /\ Holds(q)' => /\ todo'[q] # {}
                                      /\ was'[q].slot = fds'[q][Lowest(todo'[q])]
    BY DEF CallsInv, Holds
  <2>1. CASE q = p
    <3>1. todo[p] \subseteq Used(p)
      BY DEF IInv, CallsInv
    <3>2. todo'[p] \subseteq Used(p)'
      BY <3>1, <1>2, <1>5, <1>6 DEF Used, Room, Sets
    <3> QED
      BY <2>1, <3>2, <1>1, <1>5, <1>6
  <2>2. CASE q # p
    BY <2>2, <1>1, <1>5, <1>6 DEF IInv, CallsInv, Holds, Used, Room
  <2> QED
    BY <2>1, <2>2
<1>11. ChildInv'
  <2> SUFFICES ASSUME NEW q \in Proc, doing'[q] = "spawn"
               PROVE  /\ child'[q] \in Proc /\ life'[child'[q]] = "stopped"
                      /\ \A r \in Proc \ {q} :
                            doing'[r] = "spawn" => child'[r] # child'[q]
                      /\ Cardinality(Used(child[q])') + Cardinality(todo'[q])
                            <= MaxFds
    BY <1>1 DEF ChildInv
  <2>1. q # p /\ doing[q] = "spawn" /\ todo'[q] = todo[q]
    BY <1>5, <1>6
  <2>2. child[q] \in Proc /\ child[q] # p
    BY <2>1, <1>1 DEF IInv, ChildInv
  <2>3. Used(child[q])' = Used(child[q])
    BY <2>2, <1>1, <1>6 DEF Used, Room
  <2> QED
    BY <2>1, <2>2, <2>3, <1>1, <1>6 DEF IInv, ChildInv
<1>12. /\ \A t \in Slot : Refs(t) <= refcount[t] /\ refcount[t] \in Nat
       /\ \A i \in DOMAIN free : refcount[free[i]] = 0
       /\ \A i, j \in DOMAIN free : free[i] = free[j] => i = j
  BY <1>1, Bounds DEF IInv, CountsInv, TypeOK
<1>13. CASE refcount[s] > 1
  <2>1. free' = free /\ refcount'[s] # 0
    BY <1>2, <1>3, <1>5, <1>13
  <2>2. CountsInv'
    <3> SUFFICES ASSUME Good'
                 PROVE  /\ \A t \in Slot : Refs(t)' <= refcount'[t]
                        /\ \A q \in Proc : Holds(q)' =>
                              was'[q].count = refcount'[was'[q].slot]
                        /\ \A i \in DOMAIN free' : refcount'[free'[i]] = 0
                        /\ \A i, j \in DOMAIN free' : free'[i] = free'[j] => i = j
      BY DEF CountsInv
    <3>1. \A t \in Slot : Refs(t)' <= refcount'[t]
      BY <1>2, <1>3, <1>5, <1>7, <1>12, RefsAre
    <3>2. \A q \in Proc : Holds(q)' => was'[q].count = refcount'[was'[q].slot]
      BY <1>1, <1>3, StoreReaders
    <3>3. \A i \in DOMAIN free : refcount'[free[i]] = 0
      BY <1>1, <1>2, <1>5, <1>12, FreeAre
    <3> QED
      BY <3>1, <3>2, <3>3, <2>1, <1>12
  <2>3. ASSUME mishap' = {}, NEW t \in Slot
        PROVE  /\ Refs(t)' = refcount'[t]
               /\ refcount'[t] = 0 => \E i \in DOMAIN free' : free'[i] = t
    <3>1. mishap = {}
      BY <2>3, <1>5
    <3>2. /\ Refs(t) = refcount[t]
          /\ refcount[t] = 0 => \E i \in DOMAIN free : free[i] = t
      BY <3>1 DEF IInv, ExactInv
    <3> QED
      BY <3>2, <2>1, <1>3, <1>5, <1>7, <1>12
  <2> QED
    BY <2>2, <2>3, <1>9, <1>10, <1>11 DEF IInv, ExactInv
<1>14. CASE ~ (refcount[s] > 1)
  <2>1. /\ refcount[s] = 1 /\ refcount'[s] = 0 /\ free' = <<s>> \o free
        /\ Refs(s) <= 1
    BY <1>2, <1>3, <1>5, <1>12, <1>14
  <2>2. /\ DOMAIN free' = 1..(Len(free) + 1) /\ Len(free) \in Nat
        /\ free'[1] = s
        /\ \A i \in DOMAIN free' : i # 1 => /\ i - 1 \in DOMAIN free
                                            /\ free'[i] = free[i - 1]
        /\ \A i \in DOMAIN free : /\ i + 1 \in DOMAIN free'
                                  /\ free'[i + 1] = free[i]
    <3>1. free \in Seq(Slot) /\ <<s>> \in Seq(Slot)
          /\ Len(<<s>>) = 1 /\ <<s>>[1] = s
      BY <1>1, <1>2 DEF TypeOK
    <3> QED
      BY <3>1, <2>1, ConcatProperties
  <2>3. CountsInv'
    <3> SUFFICES ASSUME Good'
                 PROVE  /\ \A t \in Slot : Refs(t)' <= refcount'[t]
                        /\ \A q \in Proc : Holds(q)' =>
                              was'[q].count = refcount'[was'[q].slot]
                        /\ \A i \in DOMAIN free' : refcount'[free'[i]] = 0
                        /\ \A i, j \in DOMAIN free' : free'[i] = free'[j] => i = j
      BY DEF CountsInv
    <3>1. \A t \in Slot : Refs(t)' <= refcount'[t]
      BY <2>1, <1>2, <1>5, <1>7, <1>12, RefsAre
    <3>2. \A q \in Proc : Holds(q)' => was'[q].count = refcount'[was'[q].slot]
      BY <1>1, <1>3, StoreReaders
    <3>3. ASSUME NEW i \in DOMAIN free'
          PROVE  refcount'[free'[i]] = 0
      <4>1. CASE i = 1
        BY <4>1, <2>1, <2>2
      <4>2. CASE i # 1
        BY <4>2, <2>2, <1>1, <1>2, <1>5, <1>12, FreeAre
      <4> QED
        BY <4>1, <4>2
    <3>4. ASSUME NEW i \in DOMAIN free', NEW j \in DOMAIN free',
                 free'[i] = free'[j]
          PROVE  i = j
      <4>1. i \in Nat /\ j \in Nat
        BY <2>2
      <4>2. CASE i = 1
        BY <4>2, <3>4, <2>2, <1>2
      <4>3. CASE j = 1
        BY <4>3, <3>4, <2>2, <1>2
      <4>4. CASE i # 1 /\ j # 1
        <5>1. i - 1 = j - 1
          BY <4>4, <3>4, <2>2, <1>12
        <5> QED
          BY <5>1, <4>1
      <4> QED
        BY <4>2, <4>3, <4>4
    <3> QED
      BY <3>1, <3>2, <3>3, <3>4
  <2>4. ASSUME mishap' = {}, NEW t \in Slot
        PROVE  /\ Refs(t)' = refcount'[t]
               /\ refcount'[t] = 0 => \E i \in DOMAIN free' : free'[i] = t
    <3>1. mishap = {}
      BY <2>4, <1>5
    <3>2. /\ Refs(t) = refcount[t]
          /\ refcount[t] = 0 => \E i \in DOMAIN free : free[i] = t
      BY <3>1 DEF IInv, ExactInv
    <3>3. CASE t = s
      <4>1. 1 \in DOMAIN free'
        BY <2>2
      <4> QED
        BY <4>1, <3>2, <3>3, <2>1, <2>2, <1>7
    <3>4. CASE t # s
      BY <3>2, <3>4, <2>2, <1>5, <1>7, <1>12
    <3> QED
      BY <3>3, <3>4
  <2> QED
    BY <2>3, <2>4, <1>9, <1>10, <1>11 DEF IInv, ExactInv
<1> QED
  BY <1>13, <1>14

-----------------------------------------------------------------------------

(* sys_spawn makes a child.                                                 *)
LEMMA SpawnKeeps ==
    ASSUME IInv, NEW p \in Proc, NEW c \in Proc, NEW give, Spawn(p, c, give)
    PROVE  IInv'
<1>1. /\ Good /\ life[p] = "live" /\ doing[p] = "user" /\ TypeOK
      /\ life[c] = "none" /\ give \subseteq Fd \ Room(p) /\ c # p
      /\ life' = [life EXCEPT ![c] = "stopped"]
      /\ parent' = [parent EXCEPT ![c] = p]
      /\ doing' = [doing EXCEPT ![p] = "spawn"]
      /\ todo' = [todo EXCEPT ![p] = give]
      /\ child' = [child EXCEPT ![p] = c]
      /\ UNCHANGED <<refcount, free, fds, lock, was, mishap>>
  BY DEF Spawn, Calls, Runs, Good, IInv
<1>2. /\ doing'[p] = "spawn" /\ todo'[p] = give /\ child'[p] = c
      /\ life'[c] = "stopped"
      /\ \A q \in Proc \ {p} : /\ doing'[q] = doing[q] /\ todo'[q] = todo[q]
                               /\ child'[q] = child[q]
      /\ \A q \in Proc \ {c} : life'[q] = life[q]
  BY <1>1 DEF TypeOK
<1>3. TypeOK'
  <2>1. /\ life' \in [Proc -> {"none", "stopped", "live", "zombie", "gone"}]
        /\ parent' \in [Proc -> Proc]
        /\ doing' \in [Proc -> {"user", "dup", "close", "spawn", "reap"}]
        /\ todo' \in [Proc -> SUBSET Fd]
        /\ child' \in [Proc -> Proc \cup {NoProc}]
    BY <1>1 DEF TypeOK
  <2> QED
    BY <2>1, <1>1 DEF TypeOK
<1>4. CallsInv'
  <2> SUFFICES ASSUME NEW q \in Proc
               PROVE  /\ doing'[q] = "user" => todo'[q] = {} /\ ~Holds(q)
                      /\ life'[q] # "live" => doing'[q] = "user"
                      /\ life'[q] = "none" => fds[q] = Empty
                      /\ doing'[q] = "dup" => \E e \in Fd : todo'[q] = {e}
                      /\ todo'[q] \subseteq Used(q)
                      /\ Holds(q) => /\ todo'[q] # {}
                                     /\ was[q].slot = fds[q][Lowest(todo'[q])]
    BY <1>1 DEF CallsInv, Holds, Used, Room
  <2>1. CASE q = p
    BY <2>1, <1>1, <1>2 DEF IInv, CallsInv, Used
  <2>2. CASE q = c
    BY <2>2, <1>1, <1>2 DEF IInv, CallsInv
  <2>3. CASE q # p /\ q # c
    BY <2>3, <1>2 DEF IInv, CallsInv
  <2> QED
    BY <2>1, <2>2, <2>3
<1>5. ChildInv'
  <2> SUFFICES ASSUME NEW q \in Proc, doing'[q] = "spawn"
               PROVE  /\ child'[q] \in Proc /\ life'[child'[q]] = "stopped"
                      /\ \A r \in Proc \ {q} :
                            doing'[r] = "spawn" => child'[r] # child'[q]
                      /\ Cardinality(Used(child'[q])) + Cardinality(todo'[q])
                            <= MaxFds
    BY <1>1 DEF ChildInv, Used, Room
  <2>1. \A r \in Proc \ {p} : doing'[r] = "spawn" =>
            child[r] \in Proc /\ life[child[r]] = "stopped" /\ child[r] # c
    BY <1>1, <1>2 DEF IInv, ChildInv
  <2>2. CASE q = p
    <3>1. Used(c) = {}
      BY <1>1 DEF IInv, CallsInv, Used, Room, Empty
    <3>2. Cardinality(Used(c)) = 0
      BY <3>1, FS_EmptySet
    <3>3. Cardinality(give) <= MaxFds /\ Cardinality(give) \in Nat
      BY <1>1, Bounds, FS_Subset, FS_CardinalityType
    <3> QED
      BY <2>1, <2>2, <3>2, <3>3, <1>2
  <2>3. CASE q # p
    <3>1. doing[q] = "spawn" /\ child'[q] = child[q] /\ todo'[q] = todo[q]
      BY <2>3, <1>2
    <3>2. /\ child[q] \in Proc /\ life[child[q]] = "stopped"
          /\ Cardinality(Used(child[q])) + Cardinality(todo[q]) <= MaxFds
          /\ \A r \in Proc \ {q} : doing[r] = "spawn" => child[r] # child[q]
      BY <3>1 DEF IInv, ChildInv
    <3>3. child[q] # c
      BY <2>1, <2>3
    <3>4. ASSUME NEW r \in Proc \ {q}, doing'[r] = "spawn"
          PROVE  child'[r] # child[q]
      <4>1. CASE r = p
        BY <4>1, <3>3, <1>2
      <4>2. CASE r # p
        BY <4>2, <3>2, <3>4, <1>2
      <4> QED
        BY <4>1, <4>2
    <3> QED
      BY <3>1, <3>2, <3>3, <3>4, <1>2
  <2> QED
    BY <2>2, <2>3
<1>6. CountsInv' /\ ExactInv'
  BY <1>1, FilesSame
<1> QED
  BY <1>3, <1>4, <1>5, <1>6 DEF IInv

(* A child that its parent continues.                                       *)
LEMMA StartedKeeps ==
    ASSUME IInv, NEW p \in Proc, Started(p)
    PROVE  IInv'
<1> DEFINE c == child[p]
<1>1. /\ Good /\ life[p] = "live" /\ doing[p] = "spawn" /\ TypeOK
      /\ todo[p] = {}
      /\ life' = [life EXCEPT ![c] = "live"]
      /\ child' = [child EXCEPT ![p] = NoProc]
      /\ doing' = [doing EXCEPT ![p] = "user"]
      /\ UNCHANGED <<refcount, free, fds, lock, parent, todo, was, mishap>>
  BY DEF Started, Runs, Good, IInv
<1>2. c \in Proc /\ life[c] = "stopped" /\ c # p /\ ~Holds(p)
  BY <1>1 DEF IInv, ChildInv, CallsInv
<1> HIDE DEF c
<1>3. /\ doing'[p] = "user" /\ life'[c] = "live"
      /\ \A q \in Proc \ {p} : doing'[q] = doing[q] /\ child'[q] = child[q]
      /\ \A q \in Proc \ {c} : life'[q] = life[q]
  BY <1>1, <1>2 DEF TypeOK
<1>4. TypeOK'
  <2>1. /\ life' \in [Proc -> {"none", "stopped", "live", "zombie", "gone"}]
        /\ doing' \in [Proc -> {"user", "dup", "close", "spawn", "reap"}]
        /\ child' \in [Proc -> Proc \cup {NoProc}]
    BY <1>1 DEF TypeOK
  <2> QED
    BY <2>1, <1>1 DEF TypeOK
<1>5. CallsInv'
  <2> SUFFICES ASSUME NEW q \in Proc
               PROVE  /\ doing'[q] = "user" => todo[q] = {} /\ ~Holds(q)
                      /\ life'[q] # "live" => doing'[q] = "user"
                      /\ life'[q] = "none" => fds[q] = Empty
                      /\ doing'[q] = "dup" => \E e \in Fd : todo[q] = {e}
                      /\ todo[q] \subseteq Used(q)
                      /\ Holds(q) => /\ todo[q] # {}
                                     /\ was[q].slot = fds[q][Lowest(todo[q])]
    BY <1>1 DEF CallsInv, Holds, Used, Room
  <2>1. CASE q = p
    BY <2>1, <1>1, <1>2, <1>3 DEF IInv, CallsInv
  <2>2. CASE q # p
    BY <2>2, <1>3 DEF IInv, CallsInv
  <2> QED
    BY <2>1, <2>2
<1>6. ChildInv'
  <2> SUFFICES ASSUME NEW q \in Proc, doing'[q] = "spawn"
               PROVE  /\ child'[q] \in Proc /\ life'[child'[q]] = "stopped"
                      /\ \A r \in Proc \ {q} :
                            doing'[r] = "spawn" => child'[r] # child'[q]
                      /\ Cardinality(Used(child'[q])) + Cardinality(todo[q])
                            <= MaxFds
    BY <1>1 DEF ChildInv, Used, Room
  <2>1. q # p /\ doing[q] = "spawn" /\ child'[q] = child[q]
    BY <1>3
  <2>2. child[q] \in Proc /\ child[q] # c
    BY <2>1, <1>1 DEF IInv, ChildInv, c
  <2> QED
    BY <2>1, <2>2, <1>3 DEF IInv, ChildInv
<1>7. CountsInv' /\ ExactInv'
  BY <1>1, FilesSame
<1> QED
  BY <1>4, <1>5, <1>6, <1>7 DEF IInv

(* A process that exits.                                                    *)
LEMMA ExitKeeps ==
    ASSUME IInv, NEW p \in Proc, Exit(p)
    PROVE  IInv'
<1>1. /\ Good /\ life[p] = "live" /\ doing[p] = "user" /\ TypeOK
      /\ life' = [life EXCEPT ![p] = "zombie"]
      /\ parent' = [q \in Proc |-> IF parent[q] = p THEN First ELSE parent[q]]
      /\ UNCHANGED <<refcount, free, fds, lock, doing, todo, was, child, mishap>>
  BY DEF Exit, Calls, Runs, Good, IInv
<1>2. life'[p] = "zombie" /\ \A q \in Proc \ {p} : life'[q] = life[q]
  BY <1>1 DEF TypeOK
<1>3. TypeOK'
  <2>1. /\ life' \in [Proc -> {"none", "stopped", "live", "zombie", "gone"}]
        /\ parent' \in [Proc -> Proc]
    BY <1>1, FilesAssumption DEF TypeOK
  <2> QED
    BY <2>1, <1>1 DEF TypeOK
<1>4. CallsInv'
  BY <1>1, <1>2 DEF IInv, CallsInv, Holds, Used, Room
<1>5. ChildInv'
  BY <1>1, <1>2 DEF IInv, ChildInv, Used, Room
<1>6. CountsInv' /\ ExactInv'
  BY <1>1, FilesSame
<1> QED
  BY <1>3, <1>4, <1>5, <1>6 DEF IInv

(* A process that is reaped.                                                *)
LEMMA ReapKeeps ==
    ASSUME IInv, NEW p \in Proc, NEW c \in Proc, Reap(p, c)
    PROVE  IInv'
<1>1. /\ Good /\ life[p] = "live" /\ doing[p] = "user" /\ TypeOK
      /\ life[c] = "zombie" /\ c # p
      /\ life' = [life EXCEPT ![c] = "gone"]
      /\ fds' = [fds EXCEPT ![c] = Empty]
      /\ todo' = [todo EXCEPT ![p] = Used(p)]
      /\ doing' = [doing EXCEPT ![p] = IF Used(p) = {} THEN "user" ELSE "reap"]
      /\ mishap' = mishap \cup (IF Room(c) # Fd THEN {"reaped"} ELSE {})
      /\ UNCHANGED <<refcount, free, lock, parent, was, child>>
  BY DEF Reap, Calls, Runs, Good, IInv, Used
<1>2. /\ doing'[p] \in {"user", "reap"} /\ todo'[p] = Used(p)
      /\ doing'[p] = "user" => Used(p) = {}
      /\ life'[c] = "gone"
      /\ \A q \in Proc \ {p} : doing'[q] = doing[q] /\ todo'[q] = todo[q]
      /\ \A q \in Proc \ {c} : life'[q] = life[q] /\ fds'[q] = fds[q]
      /\ doing[c] = "user" /\ todo[c] = {} /\ ~Holds(c) /\ ~Holds(p)
      /\ Used(p) \subseteq Fd /\ Used(p)' = Used(p)
  <2>1. /\ doing'[p] \in {"user", "reap"} /\ todo'[p] = Used(p)
        /\ doing'[p] = "user" => Used(p) = {}
        /\ life'[c] = "gone"
    BY <1>1 DEF TypeOK
  <2>2. /\ \A q \in Proc \ {p} : doing'[q] = doing[q] /\ todo'[q] = todo[q]
        /\ \A q \in Proc \ {c} : life'[q] = life[q] /\ fds'[q] = fds[q]
    BY <1>1 DEF TypeOK
  <2>3. doing[c] = "user" /\ todo[c] = {} /\ ~Holds(c) /\ ~Holds(p)
    BY <1>1 DEF IInv, CallsInv
  <2> QED
    BY <2>1, <2>2, <2>3, <1>1 DEF Used, Room
<1>3. Empty \in [Fd -> Slot \cup {NoFile}]
  BY DEF Empty
<1>4. TypeOK'
  <2>1. /\ life' \in [Proc -> {"none", "stopped", "live", "zombie", "gone"}]
        /\ doing' \in [Proc -> {"user", "dup", "close", "spawn", "reap"}]
        /\ todo' \in [Proc -> SUBSET Fd]
    BY <1>1, <1>2 DEF TypeOK
  <2>2. fds' \in [Proc -> [Fd -> Slot \cup {NoFile}]]
    BY <1>1, <1>3 DEF TypeOK
  <2>3. mishap' \subseteq Mishap
    BY <1>1 DEF TypeOK, Mishap
  <2> QED
    BY <2>1, <2>2, <2>3, <1>1 DEF TypeOK
<1>5. CallsInv'
  <2> SUFFICES ASSUME NEW q \in Proc
               PROVE  /\ doing'[q] = "user" => todo'[q] = {} /\ ~Holds(q)
                      /\ life'[q] # "live" => doing'[q] = "user"
                      /\ life'[q] = "none" => fds'[q] = Empty
                      /\ doing'[q] = "dup" => \E e \in Fd : todo'[q] = {e}
                      /\ todo'[q] \subseteq Used(q)'
                      /\ Holds(q) => /\ todo'[q] # {}
                                     /\ was[q].slot = fds'[q][Lowest(todo'[q])]
    BY <1>1 DEF CallsInv, Holds
  <2>1. CASE q = p
    BY <2>1, <1>1, <1>2
  <2>2. CASE q = c
    BY <2>2, <1>1, <1>2
  <2>3. CASE q # p /\ q # c
    BY <2>3, <1>1, <1>2 DEF IInv, CallsInv, Used, Room
  <2> QED
    BY <2>1, <2>2, <2>3
<1>6. ChildInv'
  <2> SUFFICES ASSUME NEW q \in Proc, doing'[q] = "spawn"
               PROVE  /\ child[q] \in Proc /\ life'[child[q]] = "stopped"
                      /\ \A r \in Proc \ {q} :
                            doing'[r] = "spawn" => child[r] # child[q]
                      /\ Cardinality(Used(child[q])') + Cardinality(todo'[q])
                            <= MaxFds
    BY <1>1 DEF ChildInv
  <2>1. q # p /\ doing[q] = "spawn" /\ todo'[q] = todo[q]
    BY <1>2
  <2>2. child[q] \in Proc /\ child[q] # c
    BY <2>1, <1>1 DEF IInv, ChildInv
  <2>3. Used(child[q])' = Used(child[q])
    BY <2>2, <1>1, <1>2 DEF Used, Room
  <2> QED
    BY <2>1, <2>2, <2>3, <1>2 DEF IInv, ChildInv
<1>7. CountsInv'
  <2>1. \A t \in Slot : Refs(t)' <= Refs(t)
    <3>1. \A q \in Proc, e \in Fd : fds'[q][e] \in {fds[q][e], NoFile}
      BY <1>1 DEF TypeOK, Empty
    <3>2. fds \in Tables
      BY <1>1 DEF TypeOK, Tables
    <3> QED
      BY <3>1, <3>2, RefsForgotten, RefsAre
  <2>2. \A t \in Slot : /\ Refs(t) <= refcount[t] /\ refcount[t] \in Nat
                        /\ Refs(t) \in Nat /\ Refs(t)' \in Nat
    BY <1>1, Bounds, RefsAre DEF IInv, CountsInv, TypeOK
  <2>3. \A t \in Slot : Refs(t)' <= refcount[t]
    BY <2>1, <2>2
  <2> QED
    BY <2>3, <1>1 DEF IInv, CountsInv, Holds
<1>8. ExactInv'
  <2> SUFFICES ASSUME mishap' = {}
               PROVE  ExactInv'
    BY DEF ExactInv
  <2>1. mishap = {} /\ Room(c) = Fd
    BY <1>1
  <2>2. fds[c] \in [Fd -> Slot \cup {NoFile}] /\ \A e \in Fd : fds[c][e] = NoFile
    BY <2>1, <1>1 DEF TypeOK, Room
  <2>3. fds[c] = Empty
    BY <2>2 DEF Empty
  <2>4. fds' = fds
    BY <2>3, <1>1 DEF TypeOK
  <2>5. \A s : Refs(s)' = Refs(s)
    BY <2>4, RefsAre
  <2> QED
    BY <2>1, <2>5, <1>1 DEF IInv, ExactInv
<1> QED
  BY <1>4, <1>5, <1>6, <1>7, <1>8 DEF IInv

-----------------------------------------------------------------------------

(* vfs_init leaves no file open and every slot on the stack.                *)
LEMMA InitHolds == Init => IInv
<1> SUFFICES ASSUME Init PROVE IInv
  OBVIOUS
<1>1. TypeOK
  <2>1. 0 \in 0..(Wrap - 1)
    BY Bounds
  <2>2. refcount \in [Slot -> 0..(Wrap - 1)]
    BY <2>1 DEF Init
  <2>3. free \in Seq(Slot)
    <3>1. \A i \in 1..MaxFiles : MaxFiles + 1 - i \in Slot
      BY Bounds DEF Slot
    <3>2. free \in [1..MaxFiles -> Slot]
      BY <3>1 DEF Init
    <3> QED
      BY <3>2, Bounds
  <2>4. fds \in [Proc -> [Fd -> Slot \cup {NoFile}]]
    BY DEF Init, Empty
  <2>5. was \in [Proc -> [slot : Slot \cup {NoFile}, count : 0..(Wrap - 1)]]
    BY <2>1 DEF Init, Nothing
  <2>6. life \in [Proc -> {"none", "stopped", "live", "zombie", "gone"}]
        /\ parent \in [Proc -> Proc]
        /\ doing \in [Proc -> {"user", "dup", "close", "spawn", "reap"}]
        /\ todo \in [Proc -> SUBSET Fd]
        /\ child \in [Proc -> Proc \cup {NoProc}]
    BY FilesAssumption DEF Init
  <2> QED
    BY <2>2, <2>3, <2>4, <2>5, <2>6 DEF Init, TypeOK, Mishap
<1>2. CallsInv
  BY DEF Init, CallsInv, Holds, Nothing, Used
<1>3. ChildInv
  BY DEF Init, ChildInv
<1>4. \A s \in Slot : Refs(s) = 0
  <2> TAKE s \in Slot
  <2>1. RefSet(fds, s) = {}
    BY Bounds DEF Init, Empty, RefSet
  <2> QED
    BY <2>1, RefsAre, FS_EmptySet
<1>5. /\ DOMAIN free = 1..MaxFiles
      /\ \A i \in DOMAIN free : free[i] = MaxFiles + 1 - i /\ free[i] \in Slot
      /\ MaxFiles \in Nat
  BY Bounds DEF Init, Slot
<1>6. \A i, j \in DOMAIN free : free[i] = free[j] => i = j
  BY <1>5
<1>7. \A s \in Slot : \E i \in DOMAIN free : free[i] = s
  <2> TAKE s \in Slot
  <2>1. MaxFiles + 1 - s \in DOMAIN free
    BY <1>5 DEF Slot
  <2>2. free[MaxFiles + 1 - s] = s
    BY <2>1, <1>5 DEF Slot
  <2> QED
    BY <2>1, <2>2
<1>8. CountsInv
  BY <1>4, <1>5, <1>6 DEF Init, CountsInv, Holds, Nothing
<1>9. ExactInv
  BY <1>4, <1>7 DEF Init, ExactInv
<1> QED
  BY <1>1, <1>2, <1>3, <1>8, <1>9 DEF IInv

(* Every step preserves the invariant.                                      *)
LEMMA StepKeeps == IInv /\ [Next]_vars => IInv'
<1> SUFFICES ASSUME IInv, [Next]_vars PROVE IInv'
  OBVIOUS
<1>1. CASE UNCHANGED vars
  <2>1. UNCHANGED <<refcount, free, fds, was, mishap>>
        /\ \A s : Refs(s)' = Refs(s)
    BY <1>1, RefsAre DEF vars
  <2>2. TypeOK'
    BY <1>1 DEF IInv, TypeOK, vars
  <2>3. CallsInv' /\ ChildInv'
    <3>1. \A p : Used(p)' = Used(p) /\ Holds(p)' = Holds(p)
      BY <1>1 DEF Used, Room, Holds, vars
    <3>2. CallsInv'
      BY <1>1, <3>1 DEF IInv, CallsInv, vars
    <3>3. ChildInv'
      BY <1>1, <3>1 DEF IInv, ChildInv, vars
    <3> QED
      BY <3>2, <3>3
  <2>4. CountsInv' /\ ExactInv'
    BY <2>1 DEF IInv, CountsInv, ExactInv, Good, Holds
  <2> QED
    BY <2>2, <2>3, <2>4 DEF IInv
<1>2. CASE Next
  <2>1. PICK p \in Proc :
            \/ Open(p) \/ OpenFails(p)
            \/ \E fd \in Fd, op \in {"dup", "close"} : Call(p, op, fd)
            \/ ReadNext(p) \/ Dup(p) \/ Close(p) \/ Inherit(p)
            \/ \E c \in Proc : Spawn(p, c, Fd \ Room(p)) \/ Spawn(p, c, {})
            \/ Started(p) \/ Exit(p)
            \/ \E c \in Proc : Reap(p, c)
    BY <1>2 DEF Next
  <2>2. CASE Open(p)
    BY <2>2, OpenKeeps
  <2>3. CASE OpenFails(p)
    BY <2>3, OpenFailsKeeps
  <2>4. CASE \E fd \in Fd, op \in {"dup", "close"} : Call(p, op, fd)
    BY <2>4, CallKeeps
  <2>5. CASE ReadNext(p)
    BY <2>5, ReadNextKeeps
  <2>6. CASE Dup(p)
    BY <2>6, DupKeeps
  <2>7. CASE Close(p)
    BY <2>7, CloseKeeps
  <2>8. CASE Inherit(p)
    BY <2>8, InheritKeeps
  <2>9. CASE \E c \in Proc : Spawn(p, c, Fd \ Room(p)) \/ Spawn(p, c, {})
    BY <2>9, SpawnKeeps
  <2>10. CASE Started(p)
    BY <2>10, StartedKeeps
  <2>11. CASE Exit(p)
    BY <2>11, ExitKeeps
  <2>12. CASE \E c \in Proc : Reap(p, c)
    BY <2>12, ReapKeeps
  <2> QED
    BY <2>1, <2>2, <2>3, <2>4, <2>5, <2>6, <2>7, <2>8, <2>9, <2>10, <2>11,
       <2>12
<1> QED
  BY <1>1, <1>2

(* What the theorems rest on.                                               *)
THEOREM Invariance == Spec => []IInv
<1> QED
  BY InitHolds, StepKeeps, PTL DEF Spec

(* Every count fits its field, every descriptor names a slot or nothing,    *)
(* and every process in a system call has something to do it to.            *)
THEOREM TypeCorrect == Spec => []TypeOK
<1>1. IInv => TypeOK
  BY DEF IInv
<1> QED
  BY <1>1, Invariance, PTL

(* No open, close, dup, spawn or reap of any number of processes, in any    *)
(* order, frees a file that a descriptor still names or counts fewer        *)
(* references than there are, but for the two mishaps: a count updated by   *)
(* two at once, and one that wraps.                                         *)
THEOREM Covered == Spec => []FilesCovered
<1>1. IInv => FilesCovered
  <2> SUFFICES ASSUME IInv, Good, NEW s \in Slot
               PROVE  /\ Refs(s) <= refcount[s]
                      /\ Refs(s) > 0 => \A i \in DOMAIN free : free[i] # s
    BY DEF FilesCovered, Good
  <2>1. Refs(s) <= refcount[s] /\ \A i \in DOMAIN free : refcount[free[i]] = 0
    BY DEF IInv, CountsInv
  <2>2. refcount[s] \in Nat /\ Refs(s) \in Nat
    BY Bounds, RefsAre DEF IInv, TypeOK
  <2> QED
    BY <2>1, <2>2
<1> QED
  BY <1>1, Invariance, PTL

(* While nothing has gone wrong the counts are exact and the stack holds    *)
(* every unused slot once: no slot is lost, and the stack cannot overflow.  *)
THEOREM Exact == Spec => []FilesExact
<1>1. IInv => FilesExact
  <2> SUFFICES ASSUME IInv, mishap = {}, NEW s \in Slot
               PROVE  /\ Refs(s) = refcount[s]
                      /\ Cardinality({i \in DOMAIN free : free[i] = s})
                            = IF refcount[s] = 0 THEN 1 ELSE 0
    BY DEF FilesExact
  <2> DEFINE Places == {i \in DOMAIN free : free[i] = s}
  <2>1. Refs(s) = refcount[s]
        /\ (refcount[s] = 0 => \E i \in DOMAIN free : free[i] = s)
    BY DEF IInv, ExactInv
  <2>2. /\ \A i \in DOMAIN free : refcount[free[i]] = 0
        /\ \A i, j \in DOMAIN free : free[i] = free[j] => i = j
    BY DEF IInv, CountsInv, Good
  <2>3. CASE refcount[s] = 0
    <3>1. PICK i \in DOMAIN free : free[i] = s
      BY <2>1, <2>3
    <3>2. Places = {i}
      BY <3>1, <2>2
    <3> QED
      BY <3>2, <2>1, <2>3, FS_Singleton
  <2>4. CASE refcount[s] # 0
    <3>1. Places = {}
      BY <2>2, <2>4
    <3> QED
      BY <3>1, <2>1, <2>4, FS_EmptySet
  <2> QED
    BY <2>3, <2>4
<1> QED
  BY <1>1, Invariance, PTL

-----------------------------------------------------------------------------
(* The walks and the reads. *)

Walking == {"name", "lookup", "scan", "put", "putparent", "putname", "inode",
            "miss", "number", "type", "fill", "store"}
Missing == {"miss", "number", "type", "fill", "store"}
Numbering == {"number", "type", "store"}
Storing == {"putparent", "putname"}
Reading == {"blocks", "first", "firstcopy", "whole", "restcopy", "return"}

(* The root, the directory devfs is mounted on and the root of devfs are   *)
(* the first in the cache, the last two are in it only once, and they are  *)
(* never missed; no walk stays at the directory.                           *)
CacheInv ==
    /\ Len(cache) >= 3
    /\ cache[TheRoot] = Root /\ cache[TheMountpoint] = MountDir
    /\ cache[TheDevRoot] = DevRoot
    /\ \A i \in DOMAIN cache : /\ cache[i] = MountDir => i = TheMountpoint
                               /\ cache[i] = DevRoot => i = TheDevRoot
MountsOf(p) ==
    /\ start[p] \in {TheRoot, TheDevRoot}
    /\ base[p] # TheMountpoint /\ cache[base[p]] \in Ino
    /\ pc[p] \in Missing => found[p] \notin {Root, MountDir, DevRoot}

(* An inode on the list has no number only while the process that has put  *)
(* it there is about to store one, and nobody else does.                   *)
Numberless == {"number", "store"}
SlotOf(p) ==
    /\ pc[p] \in Numbering => slot[p] \in DOMAIN cache
    /\ pc[p] \in Numberless => cache[slot[p]] = Nil
    /\ pc[p] = "type" => cache[slot[p]] = found[p]
FillInv ==
    /\ \A p \in Process : SlotOf(p)
    /\ \A p, q \in Process :
          pc[p] \in Numberless /\ pc[q] \in Numberless /\ slot[p] = slot[q]
              => p = q

(* What is still to be walked is the end of the path.                      *)
PathsOf(p) ==
    /\ Len(rest[p]) <= Len(path[p])
    /\ \A k \in 1..Len(rest[p]) :
          rest[p][k] = path[p][Len(path[p]) - Len(rest[p]) + k]
    /\ pc[p] \in Walking \cup {"failed"} => rest[p] # <<>>
    /\ pc[p] \in {"user", "open"} \cup Reading => rest[p] = <<>>
    /\ pc[p] \in {"user"} \cup Reading => path[p] = <<>>

(* The number that is put into a dentry is that of its name, and one       *)
(* process at a time has a dentry that is not whole.                       *)
StoresOf(p) ==
    /\ pc[p] \in {"put"} \cup Storing =>
          found[p] \in Ino /\ found[p] = Lookup(Where(p), Head(rest[p]))
    /\ pc[p] \in Storing =>
          slot[p] \in 1..NDentry /\ dentries[slot[p]].ino = found[p]
    /\ pc[p] = "putname" => dentries[slot[p]].parent = Where(p)
OneStores == \A p, q \in Process : pc[p] \in Storing /\ pc[q] \in Storing => p = q

(* What the next name leads to: its number comes from a true dentry.       *)
Following(p) == IF Head(rest[p]) = "." THEN cache[base[p]]
                                       ELSE Lookup(Where(p), Head(rest[p]))
FoundOf(p) ==
    /\ pc[p] \in {"lookup", "scan", "put"} \cup Missing \cup Storing =>
          Head(rest[p]) # "."
    /\ pc[p] \in {"inode"} \cup Missing =>
          /\ found[p] \in Ino
          /\ Head(rest[p]) = "." => found[p] = cache[base[p]]
          /\ damage = {} => found[p] = Following(p)

(* A walk is where the names it has left behind lead.                      *)
OnTrail(p) ==
    cache[base[p]] =
        Trail(cache[start[p]], path[p])[Len(path[p]) - Len(rest[p])]
TrailOf(p) ==
    damage = {} =>
        /\ pc[p] \in Walking => OnTrail(p)
        /\ pc[p] = "open" => path[p] = <<>> \/ OnTrail(p)
        /\ pc[p] = "failed" => Resolve(cache[start[p]], path[p]) = NoEnt

(* A read stays within the file.                                           *)
OffsetsOf(p) ==
    /\ pc[p] \in Walking \cup {"user", "failed"} => offset[p] = 0
    /\ pc[p] = "open" /\ "overrun" \notin damage /\ File(p) \in DOMAIN Size
          => offset[p] <= Size[File(p)]
    /\ pc[p] \in Reading =>
          File(p) \in DOMAIN Size /\ offset[p] + count[p] <= Size[File(p)]

(* What has been read is in order and without a gap, and it ends where the *)
(* next block begins, or all of it is there; or it is too much already.    *)
Continues(o, c, m, bytes, k) ==
    /\ bytes = Bytes(o, o + Len(bytes))
    /\ \/ o + Len(bytes) = k * BlockSize
       \/ m = 0 /\ Len(bytes) = c
    /\ o % BlockSize = 0 => Len(bytes) + m * BlockSize <= c
Ends(o, c, bytes, k) ==
    /\ bytes = Bytes(o, o + Len(bytes)) /\ Len(bytes) < c
    /\ o + Len(bytes) = k * BlockSize
Returned(o, c, bytes) ==
    bytes = Bytes(o, o + c) \/ (Len(bytes) > c /\ o % BlockSize # 0)
BytesOf(p) ==
    /\ pc[p] \in {"first", "firstcopy"} =>
          /\ offset[p] % BlockSize # 0
          /\ left[p] = count[p] \div BlockSize
    /\ pc[p] = "whole" =>
          Continues(offset[p], count[p], left[p], got[p], block[p])
    /\ pc[p] = "restcopy" =>
          Ends(offset[p], count[p], got[p], block[p]) \/ Overlong(p)
    /\ pc[p] = "return" => Returned(offset[p], count[p], got[p])

WalkOf(p) == MountsOf(p) /\ PathsOf(p) /\ FoundOf(p) /\ TrailOf(p)
ReadOf(p) == OffsetsOf(p) /\ BytesOf(p)

VfsInv ==
    /\ VfsTypeOK /\ CacheInv /\ FillInv /\ DentriesTrue /\ OneStores
    /\ \A p \in Process : WalkOf(p) /\ StoresOf(p) /\ ReadOf(p)

-----------------------------------------------------------------------------

(* The constants, as the proofs need them.                                  *)
LEMMA Kinds ==
    /\ Root \in Ino /\ MountDir \in Ino /\ DevRoot \in Ino
    /\ Root # MountDir /\ Root # DevRoot /\ MountDir # DevRoot
    /\ NoEnt \notin Ino /\ Nil \notin Ino /\ Nil \notin Name
    /\ \A i \in Ino : i \in Ucfs <=> i \notin Devfs
    /\ Entry[DevRoot]["tty"] \in Devfs
    /\ Entry[DevRoot]["tty"] # DevRoot
    /\ BlockSize \in Nat /\ BlockSize > 0
    /\ NDentry \in Nat /\ NDentry >= 2
BY VfsAssumption, EntryAssumption DEF Ino

(* A lookup fails, or it finds a number of the file system it is made in.  *)
LEMMA LookupStays ==
    ASSUME NEW i \in Ino, NEW n, Lookup(i, n) # NoEnt
    PROVE  /\ Lookup(i, n) \in Ino
           /\ Lookup(i, n) \in Devfs <=> i \in Devfs
<1>1. CASE i \in Devfs
  BY <1>1, EntryAssumption, VfsAssumption DEF Lookup, Ino
<1>2. CASE i \notin Devfs
  BY <1>2, EntryAssumption, VfsAssumption DEF Lookup, Ino
<1> QED BY <1>1, <1>2

(* The ".." of the mounted root, and what is mounted on it.                 *)
LEMMA ParentOfMount == Lookup(MountDir, "..") = Root
BY EntryAssumption, VfsAssumption DEF Lookup

-----------------------------------------------------------------------------
(* Types. *)

(* The cache is as it was, or has one inode more, or one more has its      *)
(* number.                                                                 *)
Grown ==
    \/ cache' = cache
    \/ cache' = Append(cache, Nil)
    \/ \E i \in DOMAIN cache, x \in Ino :
          cache[i] = Nil /\ cache' = [cache EXCEPT ![i] = x]

(* An inode keeps its position in the cache, and its number, for ever.     *)
LEMMA GrownKeeps ==
    ASSUME cache \in Seq(Ino \cup {Nil}), Grown
    PROVE  /\ cache' \in Seq(Ino \cup {Nil})
           /\ Len(cache') >= Len(cache)
           /\ DOMAIN cache \subseteq DOMAIN cache'
           /\ \A i \in DOMAIN cache : cache[i] \in Ino => cache'[i] = cache[i]
<1>0. Nil \notin Ino
  BY Kinds
<1>1. CASE cache' = cache
  BY <1>1
<1>2. CASE cache' = Append(cache, Nil)
  BY <1>2
<1>3. CASE \E i \in DOMAIN cache, x \in Ino :
               cache[i] = Nil /\ cache' = [cache EXCEPT ![i] = x]
  <2>1. PICK i \in DOMAIN cache, x \in Ino :
                cache[i] = Nil /\ cache' = [cache EXCEPT ![i] = x]
    BY <1>3
  <2>2. cache' \in Seq(Ino \cup {Nil}) /\ Len(cache') = Len(cache)
    BY <2>1
  <2> QED BY <1>0, <2>1, <2>2
<1> QED BY <1>1, <1>2, <1>3 DEF Grown

(* The walk of a process, and its read.                                     *)
WalkTyped ==
    /\ start \in [Process -> DOMAIN cache]
    /\ base \in [Process -> DOMAIN cache]
    /\ path \in [Process -> Seq(Name)] /\ rest \in [Process -> Seq(Name)]
    /\ found \in [Process -> Ino \cup {NoEnt}]
    /\ slot \in [Process -> Nat]
FileReadTyped ==
    /\ offset \in [Process -> Nat] /\ count \in [Process -> Nat]
    /\ got \in [Process -> Seq(Nat)]
    /\ block \in [Process -> Nat] /\ left \in [Process -> Nat]
SharedTyped ==
    /\ cache \in Seq(Ino \cup {Nil})
    /\ dentries \in [1..NDentry -> Dentry]
    /\ next \in 1..NDentry
    /\ indirect \in Ino \cup {Nil}
    /\ damage \subseteq Damage
(* The type invariant, by who writes the variables.                        *)
LEMMA TypedIs == VfsTypeOK <=> /\ SharedTyped /\ WalkTyped /\ FileReadTyped
                               /\ pc \in [Process -> Labels]
BY DEF VfsTypeOK, SharedTyped, WalkTyped, FileReadTyped

(* A longer cache holds every position there was.                          *)
LEMMA WalkTypedStays ==
    ASSUME WalkTyped, cache \in Seq(Ino \cup {Nil}), Grown, UNCHANGED walkVars
    PROVE  WalkTyped'
<1>1. DOMAIN cache \subseteq DOMAIN cache'
  BY GrownKeeps
<1> QED BY <1>1 DEF WalkTyped, walkVars

LEMMA ReadTypedStays ==
    ASSUME FileReadTyped, UNCHANGED readVars
    PROVE  FileReadTyped'
BY DEF FileReadTyped, readVars

(* A process that goes on to label l, alone.                               *)
LEMMA MoveTyped ==
    ASSUME NEW p \in Process, NEW l \in Labels, pc \in [Process -> Labels],
           Goto(p, l)
    PROVE  /\ pc' \in [Process -> Labels]
           /\ pc'[p] = l
           /\ \A q \in Process \ {p} : pc'[q] = pc[q]
BY DEF Goto

(* What belongs to process q. *)
SameWalk(q) ==
    /\ start'[q] = start[q] /\ path'[q] = path[q]
    /\ base'[q] = base[q] /\ rest'[q] = rest[q]
    /\ found'[q] = found[q] /\ slot'[q] = slot[q]
SameRead(q) ==
    /\ offset'[q] = offset[q] /\ count'[q] = count[q] /\ got'[q] = got[q]
    /\ block'[q] = block[q] /\ left'[q] = left[q]
Same(q) == pc'[q] = pc[q] /\ SameWalk(q) /\ SameRead(q)

(* What every step does with the types, the cache, and the others.          *)
Framed(p) ==
    /\ VfsTypeOK' /\ Grown /\ damage \subseteq damage'
    /\ \A q \in Process \ {p} : Same(q)

(* A step that leaves the walks, or the reads, of everybody alone.         *)
LEMMA UnchangedWalk ==
    UNCHANGED walkVars => \A q \in Process : SameWalk(q)
BY DEF walkVars, SameWalk
LEMMA UnchangedRead ==
    UNCHANGED readVars => \A q \in Process : SameRead(q)
BY DEF readVars, SameRead

(* A step that only moves on, reads into a buffer or reports damage.        *)
LEMMA MoveFramed ==
    ASSUME NEW p \in Process, NEW l \in Labels, VfsTypeOK,
           Goto(p, l), UNCHANGED <<cache, dentries, next, walkVars, readVars>>,
           indirect' \in Ino \cup {Nil}, damage \subseteq damage',
           damage' \subseteq Damage
    PROVE  Framed(p)
<1>1. Grown
  BY DEF Grown
<1>2. WalkTyped' /\ FileReadTyped'
  BY <1>1, TypedIs, WalkTypedStays, ReadTypedStays DEF SharedTyped
<1>3. SharedTyped'
  BY TypedIs DEF SharedTyped
<1>4. pc' \in [Process -> Labels] /\ \A q \in Process \ {p} : pc'[q] = pc[q]
  BY TypedIs, MoveTyped
<1>5. VfsTypeOK'
  BY <1>2, <1>3, <1>4 DEF VfsTypeOK, SharedTyped, WalkTyped, FileReadTyped
<1> QED BY <1>1, <1>4, <1>5, UnchangedWalk, UnchangedRead DEF Framed, Same

(* Damage is found, and nothing moves. *)
LEMMA DamagedFramed ==
    ASSUME NEW p \in Process, VfsTypeOK,
           UNCHANGED <<cache, dentries, next, buffers, pc, walkVars, readVars>>,
           damage \subseteq damage', damage' \subseteq Damage
    PROVE  Framed(p)
<1>1. Grown
  BY DEF Grown
<1>2. WalkTyped' /\ FileReadTyped'
  BY <1>1, TypedIs, WalkTypedStays, ReadTypedStays DEF SharedTyped
<1>3. SharedTyped'
  BY TypedIs DEF SharedTyped, buffers
<1>4. VfsTypeOK'
  BY <1>2, <1>3 DEF VfsTypeOK, SharedTyped, WalkTyped, FileReadTyped
<1> QED BY <1>1, <1>4, UnchangedWalk, UnchangedRead DEF Framed, Same

(* The walk comes to inode i. *)
LEMMA EnterFramed ==
    ASSUME NEW p \in Process, NEW i \in DOMAIN cache', VfsTypeOK,
           Len(cache) >= 3, rest[p] # <<>>, Grown, Enter(p, i),
           UNCHANGED <<dentries, next, buffers, readVars, damage>>
    PROVE  Framed(p)
<1>1. /\ cache' \in Seq(Ino \cup {Nil}) /\ Len(cache') >= 3
      /\ DOMAIN cache \subseteq DOMAIN cache'
  BY GrownKeeps DEF VfsTypeOK
<1>2. Cross(i) \in DOMAIN cache'
  BY <1>1 DEF Cross, TheDevRoot
<1>3. rest[p] \in Seq(Name) /\ Tail(rest[p]) \in Seq(Name)
  BY DEF VfsTypeOK
<1>4. WalkTyped'
  BY <1>1, <1>2, <1>3 DEF VfsTypeOK, WalkTyped, Enter
<1>5. FileReadTyped'
  BY TypedIs, ReadTypedStays
<1>6. SharedTyped'
  BY <1>1 DEF VfsTypeOK, SharedTyped, buffers
<1>7. pc' \in [Process -> Labels] /\ \A q \in Process \ {p} : pc'[q] = pc[q]
  <2> DEFINE l == IF Len(rest[p]) = 1 THEN "open" ELSE "name"
  <2>1. l \in Labels
    BY DEF Labels
  <2>2. Goto(p, l)
    BY DEF Enter
  <2> QED BY <2>1, <2>2, TypedIs, MoveTyped
<1>8. VfsTypeOK'
  BY <1>4, <1>5, <1>6, <1>7 DEF VfsTypeOK, SharedTyped, WalkTyped, FileReadTyped
<1>9. \A q \in Process \ {p} : SameWalk(q)
  BY DEF Enter, SameWalk, VfsTypeOK
<1> QED BY <1>7, <1>8, <1>9, UnchangedRead DEF Framed, Same

-----------------------------------------------------------------------------
(* Blocks and bytes. *)

(* Offsets and blocks, for any block size.                                 *)
LEMMA BlockBounds == BlockSize \in Nat /\ BlockSize > 0
BY VfsAssumption

LEMMA Division ==
    ASSUME NEW o \in Nat
    PROVE  /\ o \div BlockSize \in Nat /\ o % BlockSize \in Nat
           /\ o % BlockSize < BlockSize
           /\ o = (o \div BlockSize) * BlockSize + (o % BlockSize)
BY BlockBounds

LEMMA Products ==
    ASSUME NEW k \in Nat
    PROVE  /\ k * BlockSize \in Nat
           /\ (k + 1) * BlockSize = k * BlockSize + BlockSize
           /\ k > 0 => k * BlockSize >= BlockSize
BY BlockBounds

(* An aligned position is the beginning of a block.                         *)
LEMMA Aligned ==
    ASSUME NEW k \in Nat
    PROVE  (k * BlockSize) % BlockSize = 0
BY BlockBounds

(* The bytes from b to e are as many as e - b, each its own position,      *)
LEMMA BytesAre ==
    ASSUME NEW b \in Nat, NEW e \in Nat, b <= e
    PROVE  /\ Bytes(b, e) \in Seq(Nat)
           /\ Len(Bytes(b, e)) = e - b
           /\ \A i \in 1..(e - b) : Bytes(b, e)[i] = b + i - 1
<1>1. Bytes(b, e) \in [1..(e - b) -> Nat]
  BY DEF Bytes
<1>2. e - b \in Nat
  OBVIOUS
<1>3. Bytes(b, e) \in Seq(Nat)
  BY <1>1, <1>2
<1>4. Len(Bytes(b, e)) = e - b
  BY <1>1, <1>2, <1>3
<1> QED BY <1>3, <1>4 DEF Bytes

(* and those from b to m and from m to e are those from b to e.            *)
LEMMA BytesJoin ==
    ASSUME NEW b \in Nat, NEW m \in Nat, NEW e \in Nat, b <= m, m <= e
    PROVE  Bytes(b, m) \o Bytes(m, e) = Bytes(b, e)
<1> DEFINE s == Bytes(b, m)
           t == Bytes(m, e)
           u == Bytes(b, e)
<1>1. /\ s \in Seq(Nat) /\ Len(s) = m - b
      /\ \A i \in 1..(m - b) : s[i] = b + i - 1
  BY BytesAre
<1>2. /\ t \in Seq(Nat) /\ Len(t) = e - m
      /\ \A i \in 1..(e - m) : t[i] = m + i - 1
  BY BytesAre
<1>3. /\ u \in Seq(Nat) /\ Len(u) = e - b
      /\ \A i \in 1..(e - b) : u[i] = b + i - 1
  BY BytesAre
<1> HIDE DEF s, t, u
<1> DEFINE v == s \o t
<1>4. /\ v \in Seq(Nat) /\ Len(v) = e - b
      /\ \A i \in 1..(e - b) :
            v[i] = IF i <= m - b THEN s[i] ELSE t[i - (m - b)]
  <2>1. Len(s) + Len(t) = e - b
    BY <1>1, <1>2
  <2>2. /\ v \in Seq(Nat) /\ Len(v) = Len(s) + Len(t)
        /\ \A i \in 1..(Len(s) + Len(t)) :
              v[i] = IF i <= Len(s) THEN s[i] ELSE t[i - Len(s)]
    BY <1>1, <1>2, ConcatProperties
  <2> HIDE DEF v
  <2> QED BY <1>1, <1>2, <2>1, <2>2
<1> HIDE DEF v
<1>5. \A i \in 1..(e - b) : v[i] = u[i]
  <2> SUFFICES ASSUME NEW i \in 1..(e - b)
               PROVE  v[i] = u[i]
    OBVIOUS
  <2>1. u[i] = b + i - 1
    BY <1>3
  <2>2. CASE i <= m - b
    BY <1>1, <1>4, <2>1, <2>2
  <2>3. CASE i > m - b
    <3>1. i - (m - b) \in 1..(e - m)
      BY <2>3
    <3>2. t[i - (m - b)] = m + (i - (m - b)) - 1
      BY <1>2, <3>1
    <3> QED BY <1>4, <2>1, <2>3, <3>2
  <2> QED BY <2>2, <2>3
<1>6. v = u
  BY <1>3, <1>4, <1>5
<1> QED BY <1>6 DEF s, t, u, v

-----------------------------------------------------------------------------
(* The other processes. *)

(* The inodes a walk looks at are cached.                                  *)
LEMMA Located ==
    ASSUME VfsTypeOK, CacheInv, NEW q \in Process, MountsOf(q)
    PROVE  /\ base[q] \in DOMAIN cache /\ start[q] \in DOMAIN cache
           /\ Parent(q) \in DOMAIN cache
           /\ File(q) \in Ino /\ Where(q) \in Ino /\ cache[start[q]] \in Ino
           /\ Root \in Ino /\ NoEnt \notin Ino
<1>1. /\ base[q] \in DOMAIN cache /\ start[q] \in DOMAIN cache
      /\ cache \in Seq(Ino \cup {Nil})
  BY DEF VfsTypeOK
<1>2. Parent(q) \in DOMAIN cache
  BY <1>1 DEF Parent, TheMountpoint, CacheInv
<1>3. Where(q) \in Ino /\ cache[start[q]] \in Ino
  BY Kinds DEF Where, Parent, MountsOf, CacheInv
<1> QED BY <1>1, <1>2, <1>3, Kinds DEF File, MountsOf

(* What a walk looks at changes only with the walk, however the cache      *)
(* grows,                                                                  *)
LEMMA WhereStays ==
    ASSUME VfsTypeOK, CacheInv, NEW q \in Process, MountsOf(q), Grown,
           base'[q] = base[q], rest'[q] = rest[q]
    PROVE  Where(q)' = Where(q) /\ File(q)' = File(q)
<1>1. /\ Parent(q) \in DOMAIN cache /\ base[q] \in DOMAIN cache
      /\ cache[Parent(q)] \in Ino /\ cache[base[q]] \in Ino
      /\ \A i \in DOMAIN cache : cache[i] \in Ino => cache'[i] = cache[i]
  BY Located, GrownKeeps DEF VfsTypeOK, Where, File
<1>2. Parent(q)' = Parent(q)
  BY DEF Parent
<1> QED BY <1>1, <1>2 DEF Where, File

(* and so does what its next name leads to,                                *)
LEMMA FollowingStays ==
    ASSUME VfsTypeOK, CacheInv, NEW q \in Process, MountsOf(q), Grown,
           base'[q] = base[q], rest'[q] = rest[q]
    PROVE  Following(q)' = Following(q)
<1>1. Where(q)' = Where(q) /\ File(q)' = File(q)
  BY WhereStays
<1> QED BY <1>1 DEF Following, File

(* and the trail it is on.                                                 *)
LEMMA OnTrailStays ==
    ASSUME VfsTypeOK, CacheInv, NEW q \in Process, MountsOf(q), Grown, SameWalk(q)
    PROVE  /\ OnTrail(q)' <=> OnTrail(q)
           /\ Resolve(cache[start[q]], path[q])' =
                 Resolve(cache[start[q]], path[q])
           /\ cache'[start'[q]] = cache[start[q]]
<1>1. /\ start[q] \in DOMAIN cache /\ base[q] \in DOMAIN cache
      /\ cache[start[q]] \in Ino /\ cache[base[q]] \in Ino
      /\ \A i \in DOMAIN cache : cache[i] \in Ino => cache'[i] = cache[i]
  BY Located, GrownKeeps DEF VfsTypeOK, File
<1>2. cache'[start'[q]] = cache[start[q]] /\ cache'[base'[q]] = cache[base[q]]
  BY <1>1 DEF SameWalk
<1>3. path'[q] = path[q] /\ rest'[q] = rest[q]
  BY DEF SameWalk
<1>4. Trail(cache[start[q]], path[q])' = Trail(cache[start[q]], path[q])
  BY <1>2, <1>3
<1> QED BY <1>2, <1>3, <1>4 DEF OnTrail, Resolve

(* A walk that does not move is right as long as nothing is damaged.        *)
LEMMA WalkStays ==
    ASSUME VfsTypeOK, CacheInv, NEW q \in Process, WalkOf(q), Grown,
           damage \subseteq damage', SameWalk(q), pc'[q] = pc[q]
    PROVE  WalkOf(q)'
<1>0. MountsOf(q)
  BY DEF WalkOf
<1>1. MountsOf(q)'
  <2>1. File(q)' = File(q)
    BY <1>0, WhereStays DEF SameWalk
  <2> QED BY <1>0, <2>1 DEF MountsOf, SameWalk, File
<1>2. PathsOf(q)'
  BY DEF WalkOf, PathsOf, SameWalk
<1>3. damage' = {} => damage = {}
  OBVIOUS
<1>4. FoundOf(q)'
  <2>1. Following(q)' = Following(q) /\ File(q)' = File(q)
    BY <1>0, FollowingStays, WhereStays DEF SameWalk
  <2> QED BY <1>3, <2>1 DEF WalkOf, FoundOf, SameWalk, File
<1>5. TrailOf(q)'
  BY <1>0, <1>3, OnTrailStays DEF WalkOf, TrailOf, SameWalk
<1> QED BY <1>1, <1>2, <1>4, <1>5 DEF WalkOf

(* A read says nothing of the cache but which file it is of.               *)
LEMMA ReadStays ==
    ASSUME VfsTypeOK, CacheInv, NEW q \in Process, MountsOf(q), ReadOf(q),
           Grown, damage \subseteq damage', Same(q)
    PROVE  ReadOf(q)'
<1>1. File(q)' = File(q)
  BY WhereStays DEF Same, SameWalk
<1>2. OffsetsOf(q)'
  BY <1>1 DEF ReadOf, OffsetsOf, Same, SameRead
<1>3. BytesOf(q)'
  BY DEF ReadOf, BytesOf, Overlong, Same, SameRead
<1> QED BY <1>2, <1>3 DEF ReadOf

(* What a step does for one process takes nothing from the others.         *)
LEMMA OthersStay ==
    ASSUME VfsInv, NEW p \in Process, Framed(p), NEW q \in Process \ {p}
    PROVE  WalkOf(q)' /\ ReadOf(q)'
BY WalkStays, ReadStays DEF VfsInv, Framed, Same, WalkOf

(* No dentry is written.                                                    *)
LEMMA StoresStay ==
    ASSUME VfsInv, NEW p \in Process, Framed(p), UNCHANGED dentries,
           pc[p] \notin Storing, pc'[p] \notin Storing,
           pc'[p] = "put" =>
               /\ found'[p] \in Ino
               /\ found'[p] = Lookup(Where(p), Head(rest[p]))
               /\ base'[p] = base[p] /\ rest'[p] = rest[p]
    PROVE  /\ \A q \in Process : StoresOf(q)'
           /\ OneStores' /\ DentriesTrue'
<1>1. Grown /\ VfsTypeOK /\ CacheInv /\ \A q \in Process : MountsOf(q)
  BY DEF VfsInv, WalkOf, Framed
<1>2. \A q \in Process \ {p} : slot'[q] = slot[q]
  BY DEF Framed, Same, SameWalk
<1>3. \A q \in Process : pc'[q] \in Storing <=> pc[q] \in Storing
  BY DEF Framed, Same
<1>4. ASSUME NEW q \in Process
      PROVE  StoresOf(q)'
  <2>1. CASE q = p
    <3>1. pc'[p] = "put" => Where(p)' = Where(p)
      BY <1>1, WhereStays
    <3> QED BY <2>1, <3>1, <1>2, <1>3 DEF StoresOf, VfsInv, Storing
  <2>2. CASE q # p
    <3>1. Same(q)
      BY <2>2 DEF Framed
    <3>2. Where(q)' = Where(q)
      BY <1>1, <3>1, WhereStays DEF Same, SameWalk
    <3> QED BY <3>1, <3>2 DEF StoresOf, VfsInv, Same, SameWalk
  <2> QED BY <2>1, <2>2
<1>5. OneStores'
  BY <1>3 DEF OneStores, VfsInv
<1>6. DentriesTrue'
  <2>1. \A q \in Process : pc'[q] \in {"putparent", "putname"}
                              <=> pc[q] \in {"putparent", "putname"}
    BY <1>3 DEF Storing
  <2>2. pc[p] \notin {"putparent", "putname"}
    BY DEF Storing
  <2> QED BY <1>2, <2>1, <2>2 DEF DentriesTrue, VfsInv, Lookup
<1> QED BY <1>4, <1>5, <1>6

(* No process but p stores a number or waits for one to be stored.         *)
LEMMA FillsStay ==
    ASSUME VfsInv, NEW p \in Process, Framed(p),
           \/ UNCHANGED cache
           \/ cache' = Append(cache, Nil)
           \/ /\ pc[p] \in Numberless /\ pc'[p] \notin Numberless
              /\ cache' = [cache EXCEPT ![slot[p]] = found[p]],
           SlotOf(p)', pc'[p] \in Numberless => slot'[p] \notin DOMAIN cache
    PROVE  FillInv'
<1>1. /\ FillInv /\ cache \in Seq(Ino \cup {Nil})
      /\ \A q \in Process \ {p} : Same(q)
  BY DEF VfsInv, VfsTypeOK, Framed
<1>2. \A q \in Process : pc[q] \in Numberless => pc[q] \in Numbering
  BY DEF Numberless, Numbering
<1>3. ASSUME NEW q \in Process \ {p}, pc[q] \in Numbering
      PROVE  slot[q] \in DOMAIN cache' /\ cache'[slot[q]] = cache[slot[q]]
  <2>1. slot[q] \in DOMAIN cache /\ (pc[q] = "type" => cache[slot[q]] = found[q])
    BY <1>1, <1>3 DEF FillInv, SlotOf
  <2>2. CASE UNCHANGED cache
    BY <2>1, <2>2
  <2>3. CASE cache' = Append(cache, Nil)
    BY <1>1, <2>1, <2>3
  <2>4. CASE /\ pc[p] \in Numberless
             /\ cache' = [cache EXCEPT ![slot[p]] = found[p]]
    <3>1. slot[p] \in DOMAIN cache /\ cache[slot[p]] = Nil
      BY <1>1, <1>2, <2>4 DEF FillInv, SlotOf
    <3>2. slot[q] # slot[p]
      <4>1. CASE pc[q] \in Numberless
        BY <1>1, <1>3, <2>4, <4>1 DEF FillInv
      <4>2. CASE pc[q] = "type"
        <5>1. found[q] \in Ino
          BY <4>2 DEF VfsInv, WalkOf, FoundOf, Missing
        <5> QED BY <2>1, <3>1, <4>2, <5>1, Kinds
      <4> QED BY <1>3, <4>1, <4>2 DEF Numbering, Numberless
    <3> QED BY <1>1, <2>1, <2>4, <3>1, <3>2
  <2> QED BY <2>2, <2>3, <2>4
<1>4. ASSUME NEW q \in Process
      PROVE  SlotOf(q)'
  <2>1. CASE q = p
    BY <2>1
  <2>2. CASE q # p
    <3>1. pc'[q] = pc[q] /\ slot'[q] = slot[q] /\ found'[q] = found[q]
      BY <1>1, <2>2 DEF Same, SameWalk
    <3>2. pc[q] \in Numbering =>
              slot[q] \in DOMAIN cache' /\ cache'[slot[q]] = cache[slot[q]]
      BY <1>3, <2>2
    <3>3. SlotOf(q)
      BY <1>1 DEF FillInv
    <3> QED BY <3>1, <3>2, <3>3 DEF SlotOf, Numbering, Numberless
  <2> QED BY <2>1, <2>2
<1>5. ASSUME NEW q \in Process, NEW r \in Process, q # r,
             pc'[q] \in Numberless, pc'[r] \in Numberless
      PROVE  slot'[q] # slot'[r]
  <2>1. \A s \in Process \ {p} : /\ pc'[s] = pc[s] /\ slot'[s] = slot[s]
    BY <1>1 DEF Same, SameWalk
  <2>2. \A s \in Process \ {p} :
            pc'[s] \in Numberless => slot'[s] \in DOMAIN cache
    BY <1>1, <1>2, <2>1 DEF FillInv, SlotOf
  <2>3. CASE q = p \/ r = p
    BY <1>5, <2>2, <2>3
  <2>4. CASE q # p /\ r # p
    BY <1>1, <1>5, <2>1, <2>4 DEF FillInv
  <2> QED BY <2>3, <2>4
<1> QED BY <1>4, <1>5 DEF FillInv

(* Nobody has anything to do with the numbers.                              *)
LEMMA FillsUntouched ==
    ASSUME VfsInv, NEW p \in Process, Framed(p), UNCHANGED cache,
           pc'[p] \notin Numbering
    PROVE  FillInv'
<1>1. SlotOf(p)' /\ pc'[p] \notin Numberless
  BY DEF SlotOf, Numbering, Numberless
<1> QED BY <1>1, FillsStay

-----------------------------------------------------------------------------
(* Steps of a read. *)

(* What is left to show of a step of process p.                            *)
LEMMA Together ==
    ASSUME VfsInv, NEW p \in Process, Framed(p), WalkOf(p)', ReadOf(p)',
           CacheInv', FillInv', DentriesTrue', OneStores',
           \A q \in Process : StoresOf(q)'
    PROVE  VfsInv'
<1>1. \A q \in Process : WalkOf(q)' /\ ReadOf(q)'
  BY OthersStay
<1>2. VfsTypeOK'
  BY DEF Framed
<1> QED BY <1>1, <1>2 DEF VfsInv

(* Nothing moves: a stutter, or damage that is found.                       *)
LEMMA UnmovedKeeps ==
    ASSUME VfsInv, NEW p \in Process, Framed(p), Same(p),
           UNCHANGED <<cache, dentries>>
    PROVE  VfsInv'
<1>1. WalkOf(p) /\ ReadOf(p) /\ VfsTypeOK /\ CacheInv
  BY DEF VfsInv
<1>2. WalkOf(p)' /\ ReadOf(p)'
  BY <1>1, WalkStays, ReadStays DEF Framed, Same, WalkOf
<1>3. CacheInv'
  BY <1>1 DEF CacheInv
<1>4. \A q \in Process : Same(q)
  BY DEF Framed
<1>5. \A q \in Process : StoresOf(q)'
  <2> SUFFICES ASSUME NEW q \in Process PROVE StoresOf(q)'
    OBVIOUS
  <2>1. Where(q)' = Where(q)
    BY <1>1, <1>4, WhereStays DEF VfsInv, WalkOf, Framed, Same, SameWalk
  <2> QED BY <1>4, <2>1 DEF VfsInv, StoresOf, Same, SameWalk
<1>6. OneStores'
  BY <1>4 DEF VfsInv, OneStores, Same
<1>7. DentriesTrue'
  BY <1>4 DEF VfsInv, DentriesTrue, Lookup, Same, SameWalk
<1>8. FillInv'
  BY <1>4 DEF VfsInv, FillInv, SlotOf, Same, SameWalk
<1> QED BY <1>2, <1>3, <1>5, <1>6, <1>7, <1>8, Together

LEMMA DamagedKeeps ==
    ASSUME VfsInv, NEW p \in Process,
           UNCHANGED <<cache, dentries, next, buffers, pc, walkVars, readVars>>,
           damage \subseteq damage', damage' \subseteq Damage
    PROVE  VfsInv'
<1>1. Framed(p)
  BY DamagedFramed DEF VfsInv
<1>2. Same(p)
  BY UnchangedWalk, UnchangedRead DEF Same
<1> QED BY <1>1, <1>2, UnmovedKeeps

(* A process that finds another block in the buffer reports it and stays.  *)
LEMMA OverwrittenKeeps ==
    ASSUME VfsInv, NEW p \in Process, NEW b, NEW e, Overwritten(b, e)
    PROVE  VfsInv'
<1>1. damage \subseteq damage' /\ damage' \subseteq Damage
  BY DEF VfsInv, VfsTypeOK, Overwritten, Damage
<1> QED BY <1>1, DamagedKeeps DEF Overwritten

(* A read leaves the walk where it is, whose path is forgotten.             *)
LEMMA ReadStepKeeps ==
    ASSUME VfsInv, NEW p \in Process, Framed(p), UNCHANGED <<cache, dentries>>,
           pc[p] \in Reading \cup {"open"}, pc'[p] \in Reading \cup {"open"},
           base'[p] = base[p], rest'[p] = rest[p], path'[p] = <<>>,
           start'[p] \in {TheRoot, TheDevRoot}, ReadOf(p)'
    PROVE  VfsInv'
<1>1. /\ pc'[p] \notin Walking \cup {"failed", "user"} /\ pc'[p] \notin Storing
      /\ pc[p] \notin Storing /\ pc[p] # "put" /\ pc'[p] # "put"
      /\ pc'[p] \notin Missing /\ pc'[p] \notin Numbering
  BY DEF Reading, Walking, Storing, Missing, Numbering
<1>2. MountsOf(p) /\ PathsOf(p) /\ CacheInv
  BY DEF VfsInv, WalkOf
<1>3. rest[p] = <<>>
  BY <1>2 DEF PathsOf
<1>4. PathsOf(p)'
  BY <1>1, <1>3 DEF PathsOf
<1>5. MountsOf(p)' /\ FoundOf(p)' /\ TrailOf(p)'
  BY <1>1, <1>2 DEF MountsOf, FoundOf, TrailOf, Walking
<1>6. CacheInv' /\ FillInv'
  BY <1>1, <1>2, FillsUntouched DEF CacheInv
<1> QED BY <1>1, <1>4, <1>5, <1>6, StoresStay, Together DEF WalkOf

(* A step of a read that writes nothing shared but the buffers.            *)
LEMMA ReadFramed ==
    ASSUME NEW p \in Process, NEW l \in Labels, VfsTypeOK, Goto(p, l),
           UNCHANGED <<cache, dentries, next, walkVars>>,
           indirect' \in Ino \cup {Nil}, damage \subseteq damage',
           damage' \subseteq Damage, FileReadTyped',
           \A q \in Process \ {p} : SameRead(q)
    PROVE  Framed(p)
<1>1. Grown
  BY DEF Grown
<1>2. WalkTyped' /\ SharedTyped'
  BY <1>1, TypedIs, WalkTypedStays DEF SharedTyped
<1>3. pc' \in [Process -> Labels] /\ \A q \in Process \ {p} : pc'[q] = pc[q]
  BY TypedIs, MoveTyped
<1>4. VfsTypeOK'
  BY <1>2, <1>3 DEF VfsTypeOK, SharedTyped, WalkTyped, FileReadTyped
<1> QED BY <1>1, <1>3, <1>4, UnchangedWalk DEF Framed, Same

(* Where a process that reads is. *)
LEMMA ReaderAt ==
    ASSUME VfsInv, NEW p \in Process, pc[p] \in Reading
    PROVE  /\ File(p) \in DOMAIN Size /\ Size[File(p)] \in Nat /\ File(p) \in Ino
           /\ offset[p] \in Nat /\ count[p] \in Nat /\ left[p] \in Nat
           /\ block[p] \in Nat /\ got[p] \in Seq(Nat)
           /\ offset[p] + count[p] <= Size[File(p)]
           /\ path[p] = <<>> /\ rest[p] = <<>>
<1>1. VfsTypeOK /\ OffsetsOf(p) /\ PathsOf(p) /\ CacheInv /\ MountsOf(p)
  BY DEF VfsInv, WalkOf, ReadOf
<1> QED BY <1>1, Located, VfsAssumption DEF VfsTypeOK, OffsetsOf, PathsOf

(* vfs_read, and the first part of ucfs_read.                              *)
LEMMA ReadFileKeeps ==
    ASSUME VfsInv, NEW p \in Process, NEW n \in Counts, ReadFile(p, n)
    PROVE  VfsInv'
<1> DEFINE f == File(p)
           c == Clipped(p, n)
<1>1. /\ pc[p] = "open" /\ f \in DOMAIN Size /\ "overrun" \notin damage
      /\ Goto(p, "blocks")
  BY DEF ReadFile, At
<1>2. VfsTypeOK /\ OffsetsOf(p) /\ PathsOf(p)
  BY DEF VfsInv, WalkOf, ReadOf
<1>3. offset[p] \in Nat /\ Size[f] \in Nat /\ offset[p] <= Size[f] /\ n \in Nat
  BY <1>1, <1>2, VfsAssumption DEF VfsTypeOK, OffsetsOf
<1>4. c \in Nat /\ offset[p] + c <= Size[f]
  BY <1>3 DEF Clipped
<1>5. /\ pc' \in [Process -> Labels] /\ pc'[p] = "blocks"
      /\ \A q \in Process \ {p} : pc'[q] = pc[q]
  BY <1>1, <1>2, MoveTyped DEF Labels, VfsTypeOK
<1>6. Grown
  BY DEF Grown, ReadFile
<1>7. VfsTypeOK'
  <2>1. TheRoot \in DOMAIN cache /\ <<>> \in Seq(Name)
    BY DEF VfsInv, VfsTypeOK, CacheInv, TheRoot
  <2>2. SharedTyped'
    BY <1>2 DEF VfsTypeOK, SharedTyped, ReadFile
  <2>3. WalkTyped'
    BY <1>2, <2>1 DEF VfsTypeOK, WalkTyped, ReadFile
  <2>4. FileReadTyped'
    BY <1>2, <1>4 DEF VfsTypeOK, FileReadTyped, ReadFile
  <2> QED BY <1>5, <2>2, <2>3, <2>4
          DEF VfsTypeOK, SharedTyped, WalkTyped, FileReadTyped
<1>8. \A q \in Process \ {p} : SameWalk(q) /\ SameRead(q)
  BY <1>2 DEF VfsTypeOK, ReadFile, SameWalk, SameRead
<1>9. Framed(p)
  BY <1>5, <1>6, <1>7, <1>8 DEF Framed, Same, ReadFile
<1>10. /\ base'[p] = base[p] /\ rest'[p] = rest[p] /\ start'[p] = TheRoot
       /\ path'[p] = <<>> /\ offset'[p] = offset[p] /\ count'[p] = c
       /\ UNCHANGED <<cache, dentries>>
  BY <1>2 DEF VfsTypeOK, ReadFile
<1>11. File(p)' = f
  BY <1>10 DEF File
<1> HIDE DEF c, f
<1>12. ReadOf(p)'
  BY <1>1, <1>4, <1>5, <1>10, <1>11 DEF ReadOf, OffsetsOf, BytesOf, Walking
<1> QED BY <1>1, <1>5, <1>9, <1>10, <1>12, ReadStepKeeps DEF Reading

(* A step of a read that leaves the walk alone. *)
LEMMA ReaderKeeps ==
    ASSUME VfsInv, NEW p \in Process, pc[p] \in Reading,
           NEW l \in Reading \cup {"open"}, Goto(p, l),
           UNCHANGED <<cache, dentries, next, walkVars>>,
           indirect' \in Ino \cup {Nil}, damage \subseteq damage',
           damage' \subseteq Damage, FileReadTyped',
           \A q \in Process \ {p} : SameRead(q),
           pc'[p] = l => ReadOf(p)'
    PROVE  VfsInv'
<1>1. l \in Labels /\ VfsTypeOK
  BY DEF Labels, Reading, VfsInv
<1>2. Framed(p)
  BY <1>1, ReadFramed
<1>3. pc'[p] = l
  BY <1>1, MoveTyped DEF VfsTypeOK
<1>4. path[p] = <<>>
  BY ReaderAt
<1>5. /\ base'[p] = base[p] /\ rest'[p] = rest[p] /\ path'[p] = <<>>
      /\ start'[p] \in {TheRoot, TheDevRoot}
  BY <1>4, UnchangedWalk DEF VfsInv, WalkOf, MountsOf, SameWalk
<1> QED BY <1>2, <1>3, <1>5, ReadStepKeeps

LEMMA FileStays ==
    ASSUME UNCHANGED <<cache, walkVars>>, NEW p
    PROVE  File(p)' = File(p)
BY DEF walkVars, File

(* What has been read up to block k is enough to go on, or to return at    *)
(* the end of the file.                                                    *)
LEMMA ContinueKeeps ==
    ASSUME VfsInv, NEW p \in Process, pc[p] \in Reading,
           NEW bytes \in Seq(Nat), NEW k \in Nat, NEW m \in Nat,
           Continue(p, bytes, k), left' = [left EXCEPT ![p] = m],
           UNCHANGED <<cache, dentries, next, walkVars, offset, count, damage>>,
           indirect' \in Ino \cup {Nil},
           Continues(offset[p], count[p], m, bytes, k)
    PROVE  VfsInv'
<1> DEFINE l == IF AtEnd(p, k) THEN "return" ELSE "whole"
           o == offset[p]
           c == count[p]
           g == Len(bytes)
           z == Size[File(p)]
<1>1. VfsTypeOK
  BY DEF VfsInv
<1>2. l \in Reading /\ Goto(p, l)
  BY DEF Reading, Continue
<1>3. /\ got' = [got EXCEPT ![p] = bytes] /\ block' = [block EXCEPT ![p] = k]
      /\ got'[p] = bytes /\ block'[p] = k /\ left'[p] = m
      /\ offset'[p] = o /\ count'[p] = c
  BY <1>1 DEF Continue, VfsTypeOK
<1>4. FileReadTyped'
  BY <1>1, <1>3 DEF VfsTypeOK, FileReadTyped
<1>5. \A q \in Process \ {p} : SameRead(q)
  BY <1>1, <1>3 DEF VfsTypeOK, SameRead
<1>6. damage \subseteq damage' /\ damage' \subseteq Damage
  BY <1>1 DEF VfsTypeOK
<1>7. ASSUME pc'[p] = l
      PROVE  ReadOf(p)'
  <2>1. /\ File(p) \in DOMAIN Size /\ z \in Nat /\ o \in Nat /\ c \in Nat
        /\ o + c <= z /\ g \in Nat
    BY ReaderAt
  <2>2. File(p)' = File(p)
    BY FileStays
  <2>3. OffsetsOf(p)'
    BY <1>2, <1>3, <1>7, <2>1, <2>2 DEF OffsetsOf, Reading, Walking
  <2>4. k * BlockSize \in Nat /\ m * BlockSize \in Nat
    BY Products
  <2>5. CASE ~AtEnd(p, k)
    <3>1. pc'[p] = "whole"
      BY <1>7, <2>5
    <3> QED BY <1>3, <2>3, <3>1 DEF BytesOf, ReadOf
  <2>6. CASE AtEnd(p, k)
    <3>1. pc'[p] = "return"
      BY <1>7, <2>6
    <3>2. k * BlockSize >= z
      BY <2>6 DEF AtEnd
    <3>3. Returned(o, c, bytes)
      <4> DEFINE d == k * BlockSize
                 e == m * BlockSize
      <4>1. /\ bytes = Bytes(o, o + g)
            /\ o + g = d \/ (m = 0 /\ g = c)
            /\ o % BlockSize = 0 => g + e <= c
        BY DEF Continues
      <4>2. d \in Nat /\ e \in Nat /\ d >= z
        BY <2>4, <3>2
      <4>3. SUFFICES bytes = Bytes(o, o + c) \/ (g > c /\ o % BlockSize # 0)
        BY DEF Returned
      <4> HIDE DEF d, e, o, g, c, z
      <4>6. g = c \/ g > c
        BY <2>1, <4>1, <4>2
      <4>4. CASE g = c
        BY <4>1, <4>4
      <4>5. CASE g > c
        BY <2>1, <4>1, <4>2, <4>5
      <4> QED BY <4>6, <4>4, <4>5
    <3> QED BY <1>3, <2>3, <3>1, <3>3 DEF BytesOf, ReadOf
  <2> QED BY <2>5, <2>6
<1> QED BY <1>2, <1>4, <1>5, <1>6, <1>7, ReaderKeeps

(* The steps of ucfs_read. The list of blocks is there: the read begins    *)
(* with the rest of a block or with a whole one.                           *)
LEMMA BlocksCopyKeeps ==
    ASSUME VfsInv, NEW p \in Process, BlocksCopy(p)
    PROVE  VfsInv'
<1> DEFINE k == offset[p] \div BlockSize
           o == offset[p]
           c == count[p]
           m == count[p] \div BlockSize
<1>1. pc[p] = "blocks" /\ pc[p] \in Reading /\ VfsTypeOK
  BY DEF BlocksCopy, At, Reading, VfsInv
<1>2. CASE Overwritten(scratch, Blocks(File(p)))
  BY <1>2, OverwrittenKeeps
<1>3. CASE ~Overwritten(scratch, Blocks(File(p)))
  <2>1. /\ File(p) \in DOMAIN Size /\ Size[File(p)] \in Nat /\ o \in Nat
        /\ c \in Nat /\ o + c <= Size[File(p)] /\ File(p) \in Ino
    BY <1>1, ReaderAt
  <2>2. /\ k \in Nat /\ o % BlockSize \in Nat /\ m \in Nat /\ c % BlockSize \in Nat
        /\ o = k * BlockSize + (o % BlockSize)
        /\ c = m * BlockSize + (c % BlockSize)
        /\ k * BlockSize \in Nat /\ m * BlockSize \in Nat
    BY <2>1, Division, Products
  <2>3. /\ indirect' = File(p) /\ left' = [left EXCEPT ![p] = m]
        /\ UNCHANGED <<cache, dentries, next, scratch, walkVars, offset, count,
                       damage>>
    BY <1>3 DEF BlocksCopy
  <2>4. CASE o % BlockSize = 0 \/ AtEnd(p, k)
    <3>1. Continue(p, <<>>, k)
      BY <1>3, <2>4 DEF BlocksCopy
    <3>2. <<>> \in Seq(Nat) /\ Len(<<>>) = 0
      OBVIOUS
    <3>3. Bytes(o, o + Len(<<>>)) = <<>>
      <4>1. o + 0 = o
        BY <2>1
      <4>2. Bytes(o, o) \in Seq(Nat) /\ Len(Bytes(o, o)) = 0
        BY <2>1, BytesAre
      <4> QED BY <3>2, <4>1, <4>2
    <3>4. CASE o % BlockSize = 0
      <4>1. o + 0 = k * BlockSize /\ 0 + m * BlockSize <= c
        BY <2>1, <2>2, <3>4
      <4>2. Continues(o, c, m, <<>>, k)
        BY <3>2, <3>3, <4>1 DEF Continues
      <4> QED BY <1>1, <2>1, <2>2, <2>3, <3>1, <3>2, <4>2, ContinueKeeps
    <3>5. CASE o % BlockSize # 0
      <4>1. k * BlockSize >= Size[File(p)]
        BY <2>4, <3>5 DEF AtEnd
      <4>2. c = 0 /\ m * BlockSize = 0
        BY <2>1, <2>2, <4>1
      <4>3. m = 0
        <5>1. m > 0 => m * BlockSize >= BlockSize
          BY <2>2, Products
        <5> QED BY <2>2, <4>2, <5>1, BlockBounds
      <4>4. Continues(o, c, m, <<>>, k)
        BY <3>2, <3>3, <3>5, <4>2, <4>3 DEF Continues
      <4> QED BY <1>1, <2>1, <2>2, <2>3, <3>1, <3>2, <4>4, ContinueKeeps
    <3> QED BY <3>4, <3>5
  <2>5. CASE ~(o % BlockSize = 0 \/ AtEnd(p, k))
    <3>1. Goto(p, "first") /\ UNCHANGED <<got, block>>
      BY <1>3, <2>5 DEF BlocksCopy
    <3>2. FileReadTyped' /\ \A q \in Process \ {p} : SameRead(q)
      BY <1>1, <2>2, <2>3, <3>1 DEF VfsTypeOK, FileReadTyped, SameRead
    <3>3. left'[p] = m
      BY <1>1, <2>3 DEF VfsTypeOK
    <3>4. File(p)' = File(p)
      BY <2>3, FileStays
    <3>5. ASSUME pc'[p] = "first"
          PROVE  ReadOf(p)'
      BY <2>1, <2>3, <2>5, <3>3, <3>4, <3>5
         DEF ReadOf, OffsetsOf, BytesOf, Reading, Walking
    <3>6. damage \subseteq damage' /\ damage' \subseteq Damage
      BY <1>1, <2>3 DEF VfsTypeOK
    <3> QED BY <1>1, <2>1, <2>3, <3>1, <3>2, <3>5, <3>6, ReaderKeeps DEF Reading
  <2> QED BY <2>4, <2>5
<1> QED BY <1>2, <1>3

(* A read moves on without a change to what it has read.                    *)
LEMMA ReaderMoves ==
    ASSUME VfsInv, NEW p \in Process, pc[p] \in Reading,
           NEW l \in Reading \ {"blocks"}, Goto(p, l),
           UNCHANGED <<cache, dentries, next, walkVars, readVars, indirect,
                       damage>>,
           l \in {"first", "firstcopy"} => pc[p] \in {"first", "firstcopy"},
           l = "whole" =>
               Continues(offset[p], count[p], left[p], got[p], block[p]),
           l = "restcopy" =>
               Ends(offset[p], count[p], got[p], block[p]) \/ Overlong(p),
           l = "return" => Returned(offset[p], count[p], got[p])
    PROVE  VfsInv'
<1>1. VfsTypeOK /\ OffsetsOf(p) /\ BytesOf(p)
  BY DEF VfsInv, ReadOf
<1>2. FileReadTyped' /\ \A q \in Process : SameRead(q)
  BY <1>1, TypedIs, ReadTypedStays, UnchangedRead
<1>3. File(p)' = File(p)
  BY FileStays
<1>4. ASSUME pc'[p] = l
      PROVE  ReadOf(p)'
  <2>1. OffsetsOf(p)'
    BY <1>1, <1>2, <1>3, <1>4 DEF OffsetsOf, SameRead, Reading, Walking
  <2>2. BytesOf(p)'
    BY <1>1, <1>2, <1>4 DEF BytesOf, SameRead, Reading, Overlong
  <2> QED BY <2>1, <2>2 DEF ReadOf
<1>5. /\ damage \subseteq damage' /\ damage' \subseteq Damage
      /\ indirect' \in Ino \cup {Nil}
  BY <1>1 DEF VfsTypeOK
<1> QED BY <1>2, <1>4, <1>5, ReaderKeeps

LEMMA FirstReadKeeps ==
    ASSUME VfsInv, NEW p \in Process, FirstRead(p)
    PROVE  VfsInv'
<1>1. pc[p] = "first"
  BY DEF FirstRead, At
<1>2. CASE Overwritten(indirect, File(p))
  BY <1>2, OverwrittenKeeps
<1>3. CASE ~Overwritten(indirect, File(p))
  <2>1. /\ Goto(p, "firstcopy")
        /\ UNCHANGED <<cache, dentries, next, walkVars, readVars, indirect,
                       damage>>
    BY <1>3 DEF FirstRead
  <2> QED BY <1>1, <2>1, ReaderMoves DEF Reading
<1> QED BY <1>2, <1>3

(* The rest of the first block: up to its end, or all that was asked for.  *)
LEMMA FirstCopyKeeps ==
    ASSUME VfsInv, NEW p \in Process, FirstCopy(p)
    PROVE  VfsInv'
<1> DEFINE k == offset[p] \div BlockSize
           o == offset[p]
           c == count[p]
           room == BlockSize - (offset[p] % BlockSize)
           n == IF room > count[p] THEN count[p] ELSE room
           bytes == Bytes(o, o + n)
<1>1. pc[p] = "firstcopy" /\ pc[p] \in Reading /\ VfsTypeOK /\ BytesOf(p)
  BY DEF FirstCopy, At, Reading, VfsInv, ReadOf
<1>2. CASE Overwritten(scratch, Data(File(p), k)) \/ Overwritten(indirect, File(p))
  BY <1>2, OverwrittenKeeps
<1>3. CASE ~(Overwritten(scratch, Data(File(p), k))
             \/ Overwritten(indirect, File(p)))
  <2>1. o \in Nat /\ c \in Nat /\ left[p] \in Nat /\ left[p] = c \div BlockSize
        /\ o % BlockSize # 0
    BY <1>1, ReaderAt DEF BytesOf
  <2>2. /\ k \in Nat /\ o % BlockSize \in Nat /\ o % BlockSize < BlockSize
        /\ o = k * BlockSize + (o % BlockSize)
        /\ c \div BlockSize \in Nat
        /\ c % BlockSize \in Nat
        /\ c = (c \div BlockSize) * BlockSize + (c % BlockSize)
        /\ k * BlockSize \in Nat /\ (k + 1) * BlockSize = k * BlockSize + BlockSize
    BY <2>1, Division, Products
  <2>3. /\ UNCHANGED <<cache, dentries, next, walkVars, offset, count, left,
                       damage, indirect>>
        /\ Continue(p, bytes, k + 1)
    BY <1>3 DEF FirstCopy, buffers
  <2>4. /\ room \in Nat /\ room > 0 /\ room <= BlockSize /\ n \in Nat
        /\ o + room = (k + 1) * BlockSize
    <3> DEFINE r == o % BlockSize
               b == k * BlockSize
               e == (k + 1) * BlockSize
    <3>1. /\ r \in Nat /\ r < BlockSize /\ o = b + r /\ b \in Nat
          /\ e = b + BlockSize
      BY <2>2
    <3>2. room = BlockSize - r
      OBVIOUS
    <3> HIDE DEF r, b, e, room
    <3>3. room \in Nat /\ room > 0 /\ room <= BlockSize /\ o + room = e
      BY <2>1, <3>1, <3>2, BlockBounds
    <3> QED BY <2>1, <3>3 DEF e
  <2>5. bytes \in Seq(Nat) /\ Len(bytes) = n
    <3> HIDE DEF n
    <3>1. o + n \in Nat /\ o <= o + n /\ (o + n) - o = n
      BY <2>1, <2>4
    <3> QED BY <2>1, <3>1, BytesAre
  <2>6. o + n = (k + 1) * BlockSize \/ (left[p] = 0 /\ n = c)
    <3>1. CASE room > c
      <4>1. n = c
        BY <3>1
      <4>2. c \div BlockSize = 0
        <5> DEFINE d == c \div BlockSize
                   e == d * BlockSize
        <5>1. /\ d \in Nat /\ e \in Nat /\ c >= e
              /\ d > 0 => e >= BlockSize
          BY <2>1, <2>2, Products
        <5> HIDE DEF d, e, room
        <5>2. d = 0
          BY <2>1, <2>4, <3>1, <5>1, BlockBounds
        <5> QED BY <5>2 DEF d
      <4> QED BY <2>1, <4>1, <4>2
    <3>2. CASE ~(room > c)
      <4>1. n = room
        BY <3>2
      <4> QED BY <2>4, <4>1
    <3> QED BY <3>1, <3>2
  <2>7. Continues(o, c, left[p], bytes, k + 1)
    BY <2>1, <2>5, <2>6 DEF Continues
  <2>8. left' = [left EXCEPT ![p] = left[p]]
    BY <1>1, <2>3 DEF VfsTypeOK
  <2>9. indirect' \in Ino \cup {Nil} /\ k + 1 \in Nat
    <3> HIDE DEF k
    <3>1. indirect' \in Ino \cup {Nil}
      BY <1>1, <2>3 DEF VfsTypeOK
    <3> QED BY <2>2, <3>1
  <2> HIDE DEF n, bytes, k
  <2> QED BY <1>1, <2>1, <2>3, <2>5, <2>7, <2>8, <2>9, ContinueKeeps
<1> QED BY <1>2, <1>3

(* A whole block goes straight to the caller.                              *)
LEMMA WholeReadKeeps ==
    ASSUME VfsInv, NEW p \in Process, WholeRead(p)
    PROVE  VfsInv'
<1> DEFINE k == block[p]
           o == offset[p]
           c == count[p]
           g == Len(got[p])
           m == left[p]
           more == Bytes(block[p] * BlockSize, (block[p] + 1) * BlockSize)
           bytes == got[p] \o more
<1>1. /\ pc[p] = "whole" /\ pc[p] \in Reading /\ VfsTypeOK /\ BytesOf(p)
      /\ m > 0
  BY DEF WholeRead, At, Reading, VfsInv, ReadOf
<1>2. CASE Overwritten(indirect, File(p))
  BY <1>2, OverwrittenKeeps
<1>3. CASE ~Overwritten(indirect, File(p))
  <2>1. /\ o \in Nat /\ c \in Nat /\ m \in Nat /\ k \in Nat /\ got[p] \in Seq(Nat)
        /\ g \in Nat /\ Continues(o, c, m, got[p], k)
    BY <1>1, ReaderAt DEF BytesOf
  <2>2. /\ k * BlockSize \in Nat /\ (k + 1) * BlockSize = k * BlockSize + BlockSize
        /\ m - 1 \in Nat /\ m = (m - 1) + 1
        /\ m * BlockSize = (m - 1) * BlockSize + BlockSize
        /\ (m - 1) * BlockSize \in Nat
    BY <1>1, <2>1, Products
  <2>3. /\ UNCHANGED <<cache, dentries, next, walkVars, offset, count,
                       damage, indirect>>
        /\ left' = [left EXCEPT ![p] = m - 1]
        /\ Continue(p, bytes, k + 1)
    BY <1>3 DEF WholeRead, buffers
  <2>4. /\ got[p] = Bytes(o, o + g) /\ o + g = k * BlockSize
        /\ o % BlockSize = 0 => g + m * BlockSize <= c
    BY <1>1, <2>1 DEF Continues
  <2>5. /\ more \in Seq(Nat) /\ Len(more) = BlockSize
        /\ bytes = Bytes(o, (k + 1) * BlockSize)
    <3> DEFINE b == k * BlockSize
               e == (k + 1) * BlockSize
    <3>1. b \in Nat /\ e \in Nat /\ o <= b /\ b <= e /\ e - b = BlockSize
      <4>1. b \in Nat /\ e = b + BlockSize /\ o + g = b
        BY <2>2, <2>4
      <4>2. o \in Nat /\ g \in Nat
        BY <2>1
      <4> HIDE DEF b, e, g, o
      <4>3. o <= b /\ b <= e /\ e - b = BlockSize /\ e \in Nat
        BY <4>1, <4>2, BlockBounds
      <4> QED BY <4>1, <4>3
    <3>2. more = Bytes(b, e) /\ got[p] = Bytes(o, b)
      BY <2>4
    <3> HIDE DEF b, e, more
    <3>3. Bytes(b, e) \in Seq(Nat) /\ Len(Bytes(b, e)) = BlockSize
      BY <3>1, BytesAre
    <3>4. Bytes(o, b) \o Bytes(b, e) = Bytes(o, e)
      BY <2>1, <3>1, BytesJoin
    <3> QED BY <3>2, <3>3, <3>4 DEF e
  <2>6. bytes \in Seq(Nat) /\ Len(bytes) = g + BlockSize
        /\ o + (g + BlockSize) = (k + 1) * BlockSize
    <3>1. o + (g + BlockSize) = (k + 1) * BlockSize
      <4> DEFINE b == k * BlockSize
                 e == (k + 1) * BlockSize
      <4>1. b \in Nat /\ e = b + BlockSize /\ o + g = b
        BY <2>2, <2>4
      <4> HIDE DEF b, e, g, o
      <4>2. o + (g + BlockSize) = e
        BY <2>1, <4>1, BlockBounds
      <4> QED BY <4>2 DEF e
    <3> HIDE DEF more
    <3>2. bytes \in Seq(Nat) /\ Len(bytes) = Len(got[p]) + Len(more)
      BY <2>1, <2>5, ConcatProperties
    <3> QED BY <2>5, <3>1, <3>2
  <2>7. o % BlockSize = 0 => (g + BlockSize) + (m - 1) * BlockSize <= c
    <3> DEFINE x == m * BlockSize
               y == (m - 1) * BlockSize
    <3>1. x = y + BlockSize /\ y \in Nat
      BY <2>2
    <3>2. o % BlockSize = 0 => g + x <= c
      BY <2>4
    <3> HIDE DEF x, y, g, c
    <3>3. o % BlockSize = 0 => (g + BlockSize) + y <= c
      BY <2>1, <3>1, <3>2, BlockBounds
    <3> QED BY <3>3 DEF y
  <2>8. Continues(o, c, m - 1, bytes, k + 1)
    <3> HIDE DEF bytes
    <3> QED BY <2>5, <2>6, <2>7 DEF Continues
  <2>9. indirect' \in Ino \cup {Nil} /\ k + 1 \in Nat
    BY <1>1, <2>1, <2>3 DEF VfsTypeOK
  <2> HIDE DEF bytes, k, m
  <2> QED BY <1>1, <2>2, <2>3, <2>6, <2>8, <2>9, ContinueKeeps
<1> QED BY <1>2, <1>3

LEMMA RestReadKeeps ==
    ASSUME VfsInv, NEW p \in Process, RestRead(p)
    PROVE  VfsInv'
<1> DEFINE k == block[p]
           o == offset[p]
           c == count[p]
           g == Len(got[p])
<1>1. /\ pc[p] = "whole" /\ pc[p] \in Reading /\ VfsTypeOK /\ BytesOf(p)
      /\ left[p] = 0
  BY DEF RestRead, At, Reading, VfsInv, ReadOf
<1>2. /\ o \in Nat /\ c \in Nat /\ k \in Nat /\ g \in Nat
      /\ Continues(o, c, 0, got[p], k)
  BY <1>1, ReaderAt DEF BytesOf
<1>3. CASE Overwritten(indirect, File(p))
  BY <1>3, OverwrittenKeeps
<1>4. CASE ~Overwritten(indirect, File(p)) /\ g < c
  <2>1. /\ Goto(p, "restcopy")
        /\ UNCHANGED <<cache, dentries, next, walkVars, readVars, indirect,
                       damage>>
    BY <1>2, <1>4 DEF RestRead
  <2>2. Ends(o, c, got[p], k)
    BY <1>2, <1>4 DEF Continues, Ends
  <2> QED BY <1>1, <2>1, <2>2, ReaderMoves DEF Reading
<1>5. CASE ~Overwritten(indirect, File(p)) /\ g > c
  <2>1. /\ Goto(p, "restcopy")
        /\ UNCHANGED <<cache, dentries, next, walkVars, readVars, indirect,
                       damage>>
    BY <1>2, <1>5 DEF RestRead
  <2>2. Overlong(p)
    <3>1. o % BlockSize = 0 => g + 0 * BlockSize <= c
      BY <1>2, Zenon DEF Continues
    <3>2. ~(g + 0 * BlockSize <= c)
      <4>1. 0 * BlockSize = 0
        BY BlockBounds
      <4> HIDE DEF g, c
      <4> QED BY <1>2, <1>5, <4>1
    <3>3. o % BlockSize # 0
      BY <3>1, <3>2, Zenon
    <3> QED BY <1>5, <3>3, Zenon DEF Overlong
  <2> QED BY <1>1, <2>1, <2>2, ReaderMoves DEF Reading
<1>6. CASE ~Overwritten(indirect, File(p)) /\ g = c
  <2>1. /\ Goto(p, "return")
        /\ UNCHANGED <<cache, dentries, next, walkVars, readVars, indirect,
                       damage>>
    BY <1>2, <1>6 DEF RestRead, buffers
  <2>2. Returned(o, c, got[p])
    BY <1>2, <1>6 DEF Continues, Returned
  <2> QED BY <1>1, <2>1, <2>2, ReaderMoves DEF Reading
<1> QED BY <1>2, <1>3, <1>4, <1>5, <1>6

(* The beginning of the last block.                                        *)
LEMMA RestCopyKeeps ==
    ASSUME VfsInv, NEW p \in Process, RestCopy(p)
    PROVE  VfsInv'
<1> DEFINE k == block[p]
           o == offset[p]
           c == count[p]
           g == Len(got[p])
           b == block[p] * BlockSize
           n == count[p] - Len(got[p])
           bytes == got[p] \o Bytes(b, b + n)
<1>1. pc[p] = "restcopy" /\ pc[p] \in Reading /\ VfsTypeOK /\ BytesOf(p)
  BY DEF RestCopy, At, Reading, VfsInv, ReadOf
<1>2. CASE Overwritten(scratch, Data(File(p), k))
  BY <1>2, OverwrittenKeeps
<1>4. CASE n < 0 /\ damage' = damage \cup {"overrun"}
              /\ UNCHANGED <<cache, dentries, next, buffers, pc, walkVars,
                             readVars>>
  <2>1. damage \subseteq damage' /\ damage' \subseteq Damage
    BY <1>1, <1>4 DEF VfsTypeOK, Damage
  <2> QED BY <1>4, <2>1, DamagedKeeps
<1>3. CASE n > 0 /\ ~Overwritten(scratch, Data(File(p), k)) /\ ~(n < 0)
  <2>0. c \in Nat /\ g \in Nat /\ ~Overlong(p)
    BY <1>1, <1>3, ReaderAt DEF Overlong
  <2>1. /\ o \in Nat /\ c \in Nat /\ k \in Nat /\ g \in Nat /\ got[p] \in Seq(Nat)
        /\ File(p) \in DOMAIN Size /\ o + c <= Size[File(p)]
        /\ got[p] = Bytes(o, o + g) /\ g < c /\ o + g = b
    BY <1>1, <2>0, ReaderAt DEF BytesOf, Ends
  <2>2. /\ got' = [got EXCEPT ![p] = bytes] /\ Goto(p, "return")
        /\ UNCHANGED <<cache, dentries, next, buffers, walkVars, offset, count,
                       block, left, damage>>
    BY <1>3 DEF RestCopy
  <2>3. b \in Nat
    BY <2>1, Products
  <2>4. /\ n \in Nat /\ b + n \in Nat /\ o <= b /\ b <= b + n
        /\ b + n = o + c
    <3>1. n = c - g
      OBVIOUS
    <3> HIDE DEF b, n, c, g, o
    <3> QED BY <2>1, <2>3, <3>1
  <2>5. bytes = Bytes(o, o + c) /\ bytes \in Seq(Nat)
    <3> HIDE DEF b, n, o
    <3>0. o \in Nat /\ b \in Nat /\ b + n \in Nat /\ o <= b /\ b <= b + n
      BY <2>1, <2>3, <2>4
    <3>1. Bytes(o, b) \o Bytes(b, b + n) = Bytes(o, b + n)
      BY <3>0, BytesJoin
    <3> USE DEF o
    <3>2. Bytes(b, b + n) \in Seq(Nat)
      BY <2>3, <2>4, BytesAre
    <3>3. bytes \in Seq(Nat)
      BY <2>1, <3>2, ConcatProperties
    <3> QED BY <2>1, <2>4, <3>1, <3>3
  <2> HIDE DEF bytes
  <2>6. FileReadTyped' /\ \A q \in Process \ {p} : SameRead(q)
    BY <1>1, <2>2, <2>5 DEF VfsTypeOK, FileReadTyped, SameRead
  <2>7. File(p)' = File(p)
    BY <2>2, FileStays
  <2>8. got'[p] = bytes
    BY <1>1, <2>2 DEF VfsTypeOK
  <2>9. ASSUME pc'[p] = "return"
        PROVE  ReadOf(p)'
    <3>1. Returned(offset'[p], count'[p], got'[p])
      BY <2>2, <2>5, <2>8 DEF Returned
    <3>2. OffsetsOf(p)'
      BY <2>1, <2>2, <2>7, <2>9 DEF OffsetsOf, Reading, Walking
    <3> QED BY <2>9, <3>1, <3>2 DEF ReadOf, BytesOf
  <2>10. /\ damage \subseteq damage' /\ damage' \subseteq Damage
         /\ indirect' \in Ino \cup {Nil}
    BY <1>1, <2>2 DEF VfsTypeOK, buffers
  <2> QED BY <1>1, <2>2, <2>6, <2>9, <2>10, ReaderKeeps DEF Reading
<1>5. n \in Int
  BY <1>1, ReaderAt
<1>6. n > 0 => ~(n < 0)
  BY <1>5
<1> HIDE DEF n
<1>7. \/ Overwritten(scratch, Data(File(p), k))
      \/ n < 0 /\ damage' = damage \cup {"overrun"}
         /\ UNCHANGED <<cache, dentries, next, buffers, pc, walkVars, readVars>>
      \/ n > 0
  BY DEF RestCopy, n
<1> QED BY <1>2, <1>3, <1>4, <1>6, <1>7

(* vfs_read moves the file offset by what was read.                        *)
LEMMA ReturnKeeps ==
    ASSUME VfsInv, NEW p \in Process, Return(p)
    PROVE  VfsInv'
<1> DEFINE o == offset[p]
           c == count[p]
           g == Len(got[p])
<1>1. pc[p] = "return" /\ pc[p] \in Reading /\ VfsTypeOK
  BY DEF Return, At, Reading, VfsInv
<1>2. /\ o \in Nat /\ c \in Nat /\ g \in Nat /\ File(p) \in DOMAIN Size
      /\ Size[File(p)] \in Nat /\ o + c <= Size[File(p)]
  BY <1>1, ReaderAt
<1>3. /\ Goto(p, "open")
      /\ UNCHANGED <<cache, dentries, next, buffers, walkVars>>
      /\ damage' = damage \cup (IF g > c THEN {"overrun"} ELSE {})
  BY DEF Return
<1>4. FileReadTyped' /\ \A q \in Process \ {p} : SameRead(q)
  <2>1. o + g \in Nat /\ <<>> \in Seq(Nat)
    BY <1>2
  <2>2. offset' \in [Process -> Nat] /\ \A q \in Process \ {p} : offset'[q] = offset[q]
    BY <1>1, <2>1 DEF Return, VfsTypeOK
  <2>3. got' \in [Process -> Seq(Nat)] /\ \A q \in Process \ {p} : got'[q] = got[q]
    BY <1>1, <2>1 DEF Return, VfsTypeOK
  <2>4. /\ count' \in [Process -> Nat] /\ block' \in [Process -> Nat]
        /\ left' \in [Process -> Nat]
        /\ \A q \in Process \ {p} : /\ count'[q] = count[q] /\ block'[q] = block[q]
                                    /\ left'[q] = left[q]
    BY <1>1 DEF Return, VfsTypeOK
  <2> QED BY <2>2, <2>3, <2>4 DEF FileReadTyped, SameRead
<1>5. /\ damage \subseteq damage' /\ damage' \subseteq Damage
      /\ indirect' \in Ino \cup {Nil}
  BY <1>1, <1>3 DEF VfsTypeOK, buffers, Damage
<1>6. offset'[p] = o + g
  BY <1>1 DEF Return, VfsTypeOK
<1>7. ASSUME pc'[p] = "open"
      PROVE  ReadOf(p)'
  <2>1. File(p)' = File(p)
    BY <1>3, FileStays
  <2>2. "overrun" \notin damage' => o + g <= Size[File(p)]
    BY <1>2, <1>3
  <2> QED BY <1>6, <1>7, <2>1, <2>2
          DEF ReadOf, OffsetsOf, BytesOf, Reading, Walking
<1> QED BY <1>1, <1>3, <1>4, <1>5, <1>7, ReaderKeeps

-----------------------------------------------------------------------------
(* Where the names of a path lead. *)

(* A set of numbers has a smallest element: what the proofs use in place of *)
(* an induction.                                                            *)
LEMMA SmallestOf ==
    ASSUME NEW S, S \subseteq Nat, S # {}
    PROVE  \E x \in S : \A y \in S : x <= y
<1> DEFINE Up == {1..x : x \in S}
<1>1. Up \subseteq FiniteSubsetsOf(Nat)
  <2>1. \A x \in Nat : 1..x \subseteq Nat
    OBVIOUS
  <2>2. \A x \in Nat : IsFiniteSet(1..x)
    BY FS_Interval
  <2>3. \A x \in Nat : 1..x \in FiniteSubsetsOf(Nat)
    BY <2>1, <2>2, Zenon DEF FiniteSubsetsOf
  <2> QED
    BY <2>3, Zenon
<1>2. IsWellFoundedOn(StrictSubsetOrdering(Nat), FiniteSubsetsOf(Nat))
  BY FS_StrictSubsetOrderingWellFounded
<1>3. Up # {}
  OBVIOUS
<1> HIDE DEF Up
<1>4. PICK U \in Up : \A V \in Up : ~ (<<V, U>> \in StrictSubsetOrdering(Nat))
  BY <1>1, <1>2, <1>3, WFMin
<1>5. PICK x \in S : U = 1..x
  BY <1>4 DEF Up
<1>6. ASSUME NEW y \in S, ~ (x <= y)
      PROVE  FALSE
  <2>1. x \in Nat /\ y \in Nat /\ y < x
    BY <1>6
  <2>2. 1..y \in Up
    BY DEF Up
  <2>3. 1..y \subseteq 1..x /\ 1..y # 1..x /\ 1..x \subseteq Nat
    <3>1. x \in 1..x /\ x \notin 1..y
      BY <2>1
    <3> QED
      BY <2>1, <3>1
  <2>4. <<1..y, 1..x>> \in StrictSubsetOrdering(Nat)
    BY <2>3, <2>1, FS_Interval DEF StrictSubsetOrdering, FiniteSubsetsOf
  <2> QED
    BY <2>2, <2>4, <1>4, <1>5
<1> QED
  BY <1>6

(* And one with a bound has a largest.                                      *)
LEMMA LargestOf ==
    ASSUME NEW n \in Nat, NEW S, S \subseteq 1..n, S # {}
    PROVE  \E x \in S : \A y \in S : x >= y
<1> DEFINE T == {n - x : x \in S}
<1>1. T \subseteq Nat /\ T # {}
  <2>1. \A x \in 1..n : n - x \in Nat
    OBVIOUS
  <2> QED BY <2>1
<1>2. PICK t \in T : \A u \in T : t <= u
  BY <1>1, SmallestOf
<1>3. PICK x \in S : t = n - x
  BY <1>2
<1>4. ASSUME NEW y \in S
      PROVE  x >= y
  <2>1. t <= n - y
    BY <1>2
  <2> QED BY <1>3, <2>1
<1> QED BY <1>4

(* One name further.                                                        *)
Onward(i, name) == IF i = NoEnt THEN NoEnt ELSE Meaning(i, name)
Trails(from, names, n) ==
    {t \in [0..n -> Ino \cup {NoEnt}] :
        t = [k \in 0..n |-> IF k = 0 THEN from
                            ELSE Onward(t[k - 1], names[k])]}

(* A step of a trail leads to an inode or nowhere.                         *)
LEMMA OnwardTyped ==
    ASSUME NEW i \in Ino \cup {NoEnt}, NEW name
    PROVE  Onward(i, name) \in Ino \cup {NoEnt}
<1>1. CASE i = NoEnt
  BY <1>1 DEF Onward
<1>2. CASE i # NoEnt
  <2> DEFINE d == IF i = DevRoot /\ name = ".." THEN MountDir ELSE i
  <2>1. d \in Ino /\ i \in Ino /\ DevRoot \in Ino
    BY <1>2, Kinds
  <2>2. Lookup(d, name) \in Ino \cup {NoEnt}
    <3> HIDE DEF d
    <3> QED BY <2>1, LookupStays
  <2> QED BY <1>2, <2>1, <2>2 DEF Onward, Meaning
<1> QED BY <1>1, <1>2

(* A trail of n names goes on for one more,                                *)
LEMMA TrailsGrow ==
    ASSUME NEW from \in Ino, NEW names, NEW n \in Nat, n > 0,
           Trails(from, names, n - 1) # {}
    PROVE  Trails(from, names, n) # {}
<1>1. PICK t : t \in Trails(from, names, n - 1)
  OBVIOUS
<1>2. /\ t \in [0..(n - 1) -> Ino \cup {NoEnt}]
      /\ \A k \in 0..(n - 1) : t[k] = IF k = 0 THEN from
                                      ELSE Onward(t[k - 1], names[k])
  BY <1>1 DEF Trails
<1> DEFINE u == [k \in 0..n |-> IF k < n THEN t[k]
                                ELSE Onward(t[n - 1], names[n])]
<1>3. n - 1 \in 0..(n - 1) /\ t[n - 1] \in Ino \cup {NoEnt}
  BY <1>2
<1>4. u \in [0..n -> Ino \cup {NoEnt}]
  <2>1. Onward(t[n - 1], names[n]) \in Ino \cup {NoEnt}
    BY <1>3, OnwardTyped
  <2>2. \A k \in 0..n : k < n => k \in 0..(n - 1)
    OBVIOUS
  <2> QED BY <1>2, <2>1, <2>2
<1>5. ASSUME NEW k \in 0..n
      PROVE  u[k] = IF k = 0 THEN from ELSE Onward(u[k - 1], names[k])
  <2>1. CASE k = 0
    BY <1>2, <2>1
  <2>2. CASE k # 0 /\ k < n
    <3>1. k \in 0..(n - 1) /\ k - 1 \in 0..n /\ k - 1 < n
      BY <2>2
    <3>2. u[k] = t[k] /\ u[k - 1] = t[k - 1]
      BY <2>2, <3>1
    <3> QED BY <1>2, <2>2, <3>1, <3>2
  <2>3. CASE k = n
    <3>1. k - 1 \in 0..n /\ k - 1 < n /\ k # 0 /\ ~(k < n)
      BY <2>3
    <3>2. u[k - 1] = t[n - 1] /\ u[k] = Onward(t[n - 1], names[n])
      BY <2>3, <3>1
    <3> QED BY <2>3, <3>1, <3>2
  <2> QED BY <2>1, <2>2, <2>3
<1>6. u = [k \in 0..n |-> IF k = 0 THEN from ELSE Onward(u[k - 1], names[k])]
  <2> DEFINE w == [k \in 0..n |-> IF k = 0 THEN from
                                  ELSE Onward(u[k - 1], names[k])]
  <2>1. \A k \in 0..n : u[k] = w[k]
    BY <1>5
  <2>2. u \in [0..n -> Ino \cup {NoEnt}] /\ DOMAIN w = 0..n
    BY <1>4
  <2> HIDE DEF u
  <2> QED BY <2>1, <2>2
<1> HIDE DEF u
<1>7. u \in Trails(from, names, n)
  BY <1>4, <1>6 DEF Trails
<1> QED BY <1>7

(* so there is one of every length: of the lengths without a trail none is *)
(* the smallest.                                                           *)
LEMMA TrailsExist ==
    ASSUME NEW from \in Ino, NEW names, NEW n \in Nat
    PROVE  Trails(from, names, n) # {}
<1> DEFINE S == {m \in Nat : Trails(from, names, m) = {}}
<1>1. ASSUME S # {}
      PROVE  FALSE
  <2>1. PICK m \in S : \A k \in S : m <= k
    BY <1>1, SmallestOf
  <2>2. m # 0
    <3> DEFINE t == [k \in 0..0 |-> from]
    <3>1. t \in Trails(from, names, 0)
      BY DEF Trails
    <3> QED BY <3>1, <2>1
  <2>3. m \in Nat /\ m - 1 \in Nat /\ ~(m <= m - 1) /\ m > 0
    BY <2>1, <2>2
  <2>4. Trails(from, names, m - 1) # {}
    BY <2>1, <2>3
  <2> QED BY <2>1, <2>3, <2>4, TrailsGrow
<1> QED BY <1>1

(* Therefore the recursive Trail is a function, and its equation holds.    *)
LEMMA TrailIs ==
    ASSUME NEW from \in Ino, NEW names \in Seq(Name)
    PROVE  /\ Trail(from, names) \in [0..Len(names) -> Ino \cup {NoEnt}]
           /\ Trail(from, names)[0] = from
           /\ \A k \in 1..Len(names) :
                 Trail(from, names)[k] =
                     Onward(Trail(from, names)[k - 1], names[k])
<1> DEFINE n == Len(names)
           Body(f) == [k \in 0..n |->
               IF k = 0 THEN from
               ELSE IF f[k - 1] = NoEnt THEN NoEnt
               ELSE Meaning(f[k - 1], names[k])]
           g == Trail(from, names)
<1>1. n \in Nat
  OBVIOUS
<1>2. PICK t \in Trails(from, names, n) : TRUE
  BY <1>1, TrailsExist
<1>3. t = Body(t)
  BY <1>2 DEF Trails, Onward
<1>4. g = Body(g)
  BY <1>3 DEF Trail
<1>5. \A k \in 0..n : g[k] = IF k = 0 THEN from ELSE Onward(g[k - 1], names[k])
  BY <1>4 DEF Onward
<1>6. DOMAIN g = 0..n /\ g = [k \in 0..n |-> g[k]]
  BY <1>4
<1> HIDE DEF g, n
<1>7. \A k \in 0..n : g[k] \in Ino \cup {NoEnt}
  <2> DEFINE S == {k \in 0..n : g[k] \notin Ino \cup {NoEnt}}
  <2>1. ASSUME S # {}
        PROVE  FALSE
    <3>1. S \subseteq Nat
      BY <1>1
    <3>2. PICK k \in S : \A j \in S : k <= j
      BY <2>1, <3>1, SmallestOf
    <3>3. k # 0
      BY <1>5, <3>2
    <3>4. k \in 0..n /\ k - 1 \in 0..n /\ ~(k <= k - 1)
      BY <1>1, <3>2, <3>3
    <3>5. g[k - 1] \in Ino \cup {NoEnt}
      BY <3>2, <3>4
    <3>6. g[k] = Onward(g[k - 1], names[k])
      BY <1>5, <3>3, <3>4
    <3> QED BY <3>2, <3>5, <3>6, OnwardTyped
  <2> QED BY <2>1
<1>8. g \in [0..n -> Ino \cup {NoEnt}]
  BY <1>6, <1>7
<1>9. g[0] = from /\ \A k \in 1..n : g[k] = Onward(g[k - 1], names[k])
  BY <1>1, <1>5
<1> QED BY <1>8, <1>9 DEF g, n

(* What leads nowhere stays there.                                          *)
LEMMA TrailLost ==
    ASSUME NEW from \in Ino, NEW names \in Seq(Name),
           NEW k \in 0..Len(names), Trail(from, names)[k] = NoEnt
    PROVE  Resolve(from, names) = NoEnt
<1> DEFINE n == Len(names)
           g == Trail(from, names)
           S == {j \in k..n : g[j] # NoEnt}
<1>1. n \in Nat /\ k \in Nat /\ k <= n /\ g[k] = NoEnt
  OBVIOUS
<1>2. \A j \in 1..n : g[j] = Onward(g[j - 1], names[j])
  BY TrailIs
<1> HIDE DEF g, n
<1>3. ASSUME S # {}
      PROVE  FALSE
  <2>1. S \subseteq Nat
    BY <1>1
  <2>2. PICK j \in S : \A i \in S : j <= i
    BY <1>3, <2>1, SmallestOf
  <2>3. j # k
    BY <1>1, <2>2
  <2>4. j \in 1..n /\ j - 1 \in k..n /\ ~(j <= j - 1)
    BY <1>1, <2>2, <2>3
  <2>5. g[j - 1] = NoEnt
    BY <2>2, <2>4
  <2> QED BY <1>2, <2>2, <2>4, <2>5 DEF Onward
<1>4. n \in k..n
  BY <1>1
<1>5. g[n] = NoEnt
  BY <1>3, <1>4
<1> QED BY <1>5 DEF Resolve, g, n

-----------------------------------------------------------------------------
(* Steps of a walk. *)

(* A sequence without its head.                                             *)
LEMMA TailIs ==
    ASSUME NEW S, NEW s \in Seq(S), s # <<>>
    PROVE  /\ Tail(s) \in Seq(S) /\ Len(Tail(s)) = Len(s) - 1
           /\ Len(s) \in Nat /\ Len(s) > 0
           /\ Head(s) = s[1] /\ Head(s) \in S
           /\ \A i \in 1..(Len(s) - 1) : Tail(s)[i] = s[i + 1]
<1>1. Len(s) \in Nat /\ Len(s) > 0
  BY EmptySeq
<1>2. /\ Tail(s) \in Seq(S) /\ Len(Tail(s)) = Len(s) - 1
      /\ Head(s) = s[1] /\ Head(s) \in S
      /\ \A i \in 1..Len(Tail(s)) : Tail(s)[i] = s[i + 1]
  BY <1>1, HeadTailProperties
<1> QED BY <1>1, <1>2

(* Where a process that walks is on its path.                               *)
LEMMA WalkerAt ==
    ASSUME VfsInv, NEW p \in Process, pc[p] \in Walking \cup {"failed"}
    PROVE  /\ path[p] \in Seq(Name) /\ rest[p] \in Seq(Name) /\ rest[p] # <<>>
           /\ Len(path[p]) \in Nat /\ Len(rest[p]) \in Nat /\ Len(rest[p]) > 0
           /\ Len(rest[p]) <= Len(path[p])
           /\ Head(rest[p]) \in Name
           /\ Head(rest[p]) = path[p][Len(path[p]) - Len(rest[p]) + 1]
<1>1. /\ path[p] \in Seq(Name) /\ rest[p] \in Seq(Name) /\ rest[p] # <<>>
      /\ Len(path[p]) \in Nat /\ Len(rest[p]) <= Len(path[p])
      /\ \A k \in 1..Len(rest[p]) :
            rest[p][k] = path[p][Len(path[p]) - Len(rest[p]) + k]
  BY DEF VfsInv, VfsTypeOK, WalkOf, PathsOf
<1>2. /\ Len(rest[p]) \in Nat /\ Len(rest[p]) > 0 /\ Head(rest[p]) = rest[p][1]
      /\ Head(rest[p]) \in Name
  BY <1>1, TailIs
<1>3. 1 \in 1..Len(rest[p])
  BY <1>2
<1> QED BY <1>1, <1>2, <1>3

(* The inode of a walk is the one the reference goes on from.               *)
LEMMA OnwardIs ==
    ASSUME VfsInv, NEW p \in Process
    PROVE  /\ File(p) \in Ino
           /\ Onward(File(p), Head(rest[p])) =
                 IF Following(p) = MountDir THEN DevRoot ELSE Following(p)
<1> DEFINE name == Head(rest[p])
<1>0. VfsTypeOK /\ CacheInv /\ MountsOf(p)
  BY DEF VfsInv, WalkOf
<1>1. /\ base[p] \in DOMAIN cache /\ base[p] # TheMountpoint /\ File(p) \in Ino
      /\ CacheInv /\ NoEnt \notin Ino
  BY <1>0, Located DEF MountsOf
<1>2. base[p] = TheDevRoot <=> File(p) = DevRoot
  BY <1>1 DEF CacheInv, File
<1>3. Where(p) = IF File(p) = DevRoot /\ name = ".." THEN MountDir ELSE File(p)
  BY <1>1, <1>2 DEF Where, Parent, File, CacheInv
<1>4. Following(p) = IF name = "." THEN File(p) ELSE Lookup(Where(p), name)
  BY DEF Following, File
<1> QED BY <1>1, <1>3, <1>4 DEF Onward, Meaning

(* The next position of the trail is what the next name leads to, or the   *)
(* root of what is mounted there.                                          *)
LEMMA TrailGoesOn ==
    ASSUME VfsInv, NEW p \in Process, pc[p] \in Walking, damage = {}
    PROVE  /\ cache[start[p]] \in Ino
           /\ Len(path[p]) - Len(rest[p]) + 1 \in 1..Len(path[p])
           /\ Trail(cache[start[p]], path[p])[Len(path[p]) - Len(rest[p]) + 1] =
                 IF Following(p) = MountDir THEN DevRoot ELSE Following(p)
<1> DEFINE n == Len(path[p])
           r == Len(rest[p])
           t == Trail(cache[start[p]], path[p])
<1>1. /\ path[p] \in Seq(Name) /\ n \in Nat /\ r \in Nat /\ r > 0 /\ r <= n
      /\ Head(rest[p]) = path[p][n - r + 1]
  BY WalkerAt
<1>2. cache[start[p]] \in Ino
  BY Located DEF VfsInv, WalkOf
<1>3. n - r + 1 \in 1..n /\ (n - r + 1) - 1 = n - r
  <2>1. n \in Nat /\ r \in Nat /\ r > 0 /\ r <= n
    BY <1>1
  <2> HIDE DEF n, r
  <2> QED BY <2>1
<1>4. t[n - r + 1] = Onward(t[(n - r + 1) - 1], path[p][n - r + 1])
  <2>1. \A k \in 1..n : t[k] = Onward(t[k - 1], path[p][k])
    BY <1>1, <1>2, TrailIs
  <2> HIDE DEF t, n, r
  <2> QED BY <1>3, <2>1
<1>5. t[n - r] = File(p)
  BY DEF VfsInv, WalkOf, TrailOf, OnTrail, File
<1> HIDE DEF t, n, r
<1>6. t[n - r + 1] = Onward(File(p), Head(rest[p]))
  BY <1>1, <1>3, <1>4, <1>5
<1>7. t[n - r + 1] = IF Following(p) = MountDir THEN DevRoot ELSE Following(p)
  BY <1>6, OnwardIs
<1> QED BY <1>2, <1>3, <1>7 DEF t, n, r

Idle == {"user", "open", "failed"}

(* A process that is not reading owes nothing.                             *)
LEMMA ReadIdle ==
    ASSUME VfsInv, NEW p \in Process, Framed(p), offset'[p] = 0,
           pc'[p] \in Walking \cup Idle
    PROVE  ReadOf(p)'
<1>1. \A f \in DOMAIN Size : Size[f] \in Nat
  BY VfsAssumption
<1>2. \A f \in DOMAIN Size : 0 <= Size[f]
  BY <1>1
<1>3. OffsetsOf(p)'
  BY <1>2 DEF OffsetsOf, Reading, Walking, Idle
<1>4. BytesOf(p)'
  BY DEF BytesOf, Walking, Idle
<1> QED BY <1>3, <1>4 DEF ReadOf

(* A step of a walk that writes no dentry and caches nothing.               *)
LEMMA WalkStepKeeps ==
    ASSUME VfsInv, NEW p \in Process, Framed(p), UNCHANGED <<cache, dentries>>,
           pc[p] \notin Storing,
           pc'[p] \in (Walking \cup Idle) \ (Storing \cup Numbering),
           offset'[p] = 0, WalkOf(p)',
           pc'[p] = "put" =>
               /\ found'[p] \in Ino
               /\ found'[p] = Lookup(Where(p), Head(rest[p]))
               /\ base'[p] = base[p] /\ rest'[p] = rest[p]
    PROVE  VfsInv'
<1>1. ReadOf(p)'
  BY ReadIdle
<1>2. CacheInv' /\ FillInv'
  BY FillsUntouched DEF VfsInv, CacheInv
<1>3. (\A q \in Process : StoresOf(q)') /\ OneStores' /\ DentriesTrue'
  BY StoresStay
<1> QED BY <1>1, <1>2, <1>3, Together

(* A walk that does not come to another inode.                              *)
LEMMA WalkOn ==
    ASSUME VfsInv, NEW p \in Process, Grown, damage \subseteq damage',
           start'[p] = start[p], path'[p] = path[p], base'[p] = base[p],
           rest'[p] = rest[p], pc[p] \in Walking, pc'[p] \in Walking,
           pc'[p] \in Missing => found'[p] \notin {Root, MountDir, DevRoot},
           FoundOf(p)'
    PROVE  WalkOf(p)'
<1>1. WalkOf(p) /\ VfsTypeOK /\ CacheInv /\ MountsOf(p)
  BY DEF VfsInv, WalkOf
<1>2. MountsOf(p)'
  <2>1. File(p)' = File(p)
    BY <1>1, WhereStays
  <2> QED BY <1>1, <2>1 DEF MountsOf, File
<1>3. PathsOf(p)'
  BY <1>1 DEF WalkOf, PathsOf, Walking, Reading
<1>4. TrailOf(p)'
  <2>1. /\ start[p] \in DOMAIN cache /\ base[p] \in DOMAIN cache
        /\ cache[start[p]] \in Ino /\ cache[base[p]] \in Ino
        /\ \A i \in DOMAIN cache : cache[i] \in Ino => cache'[i] = cache[i]
    BY <1>1, Located, GrownKeeps DEF VfsTypeOK, File
  <2>2. cache'[start'[p]] = cache[start[p]] /\ cache'[base'[p]] = cache[base[p]]
    BY <2>1
  <2>3. damage = {} => OnTrail(p)
    BY <1>1 DEF WalkOf, TrailOf
  <2>4. OnTrail(p)' <=> OnTrail(p)
    <3>1. Trail(cache[start[p]], path[p])' = Trail(cache[start[p]], path[p])
      BY <2>2
    <3> QED BY <2>2, <3>1 DEF OnTrail
  <2> QED BY <2>3, <2>4 DEF TrailOf, Walking
<1> QED BY <1>2, <1>3, <1>4 DEF WalkOf

(* A step that only finds a number for the next name.                      *)
LEMMA FoundFramed ==
    ASSUME NEW p \in Process, NEW l \in Labels, NEW x \in Ino \cup {NoEnt},
           VfsTypeOK, Goto(p, l), found' = [found EXCEPT ![p] = x],
           UNCHANGED <<cache, dentries, next, indirect, start, path, base, rest,
                       slot, readVars>>,
           damage \subseteq damage', damage' \subseteq Damage
    PROVE  Framed(p) /\ found'[p] = x /\ pc'[p] = l
<1>1. Grown
  BY DEF Grown
<1>2. found' \in [Process -> Ino \cup {NoEnt}] /\ found'[p] = x
  BY DEF VfsTypeOK
<1>3. FileReadTyped'
  BY TypedIs, ReadTypedStays
<1>4. /\ pc' \in [Process -> Labels] /\ pc'[p] = l
      /\ \A q \in Process \ {p} : pc'[q] = pc[q]
  BY TypedIs, MoveTyped
<1>5. VfsTypeOK'
  BY <1>2, <1>3, <1>4 DEF VfsTypeOK, FileReadTyped
<1>6. \A q \in Process \ {p} : SameWalk(q)
  BY DEF VfsTypeOK, SameWalk
<1> QED BY <1>1, <1>2, <1>4, <1>5, <1>6, UnchangedRead DEF Framed, Same

(* What the read part of a walking process is. *)
LEMMA WalkerIdle ==
    ASSUME VfsInv, NEW p \in Process, pc[p] \in Walking \cup {"user", "failed"}
    PROVE  offset[p] = 0
BY DEF VfsInv, ReadOf, OffsetsOf

(* A walk begins at a root, with the whole path before it.                 *)
LEMMA WalkKeeps ==
    ASSUME VfsInv, NEW p \in Process, NEW from \in {TheRoot, TheDevRoot},
           NEW names \in Paths, Walk(p, from, names)
    PROVE  VfsInv'
<1>1. /\ pc[p] = "user" /\ Goto(p, "name") /\ VfsTypeOK /\ CacheInv
      /\ WalkOf(p)
  BY DEF Walk, At, VfsInv
<1>2. /\ names \in Seq(Name) /\ names # <<>>
      /\ from \in DOMAIN cache /\ from # TheMountpoint
  <2>1. names \in Seq(Name) /\ names # <<>>
    BY VfsAssumption
  <2>2. from \in 1..3 /\ from # TheMountpoint
    BY DEF TheRoot, TheDevRoot, TheMountpoint
  <2>3. cache \in Seq(Ino \cup {Nil}) /\ Len(cache) >= 3
    BY <1>1 DEF CacheInv, VfsTypeOK
  <2> QED BY <2>1, <2>2, <2>3
<1>3. Grown
  BY DEF Walk, Grown
<1>4. /\ pc' \in [Process -> Labels] /\ pc'[p] = "name"
      /\ \A q \in Process \ {p} : pc'[q] = pc[q]
  BY <1>1, MoveTyped DEF VfsTypeOK, Labels
<1>5. WalkTyped'
  BY <1>1, <1>2 DEF Walk, VfsTypeOK, WalkTyped
<1>6. FileReadTyped' /\ SharedTyped'
  BY <1>1, TypedIs, ReadTypedStays DEF Walk, SharedTyped, buffers
<1>7. VfsTypeOK'
  BY <1>4, <1>5, <1>6 DEF VfsTypeOK, WalkTyped, FileReadTyped, SharedTyped
<1>8. \A q \in Process \ {p} : SameWalk(q)
  BY <1>1 DEF Walk, VfsTypeOK, SameWalk
<1>9. Framed(p)
  BY <1>3, <1>4, <1>7, <1>8, UnchangedRead DEF Walk, Framed, Same
<1>10. /\ start'[p] = from /\ base'[p] = from /\ path'[p] = names
       /\ rest'[p] = names /\ cache' = cache
       /\ offset'[p] = 0 /\ UNCHANGED dentries
  BY <1>1, WalkerIdle DEF Walk, VfsTypeOK, readVars
<1>11. WalkOf(p)'
  <2>1. MountsOf(p)' /\ FoundOf(p)'
    BY <1>1, <1>2, <1>4, <1>10, Kinds DEF MountsOf, FoundOf, Storing, Missing,
                                          CacheInv
  <2>2. PathsOf(p)'
    <3>1. Len(names) \in Nat /\ \A k \in 1..Len(names) :
              names[k] = names[Len(names) - Len(names) + k]
      BY <1>2
    <3> QED BY <1>2, <1>4, <1>10, <3>1 DEF PathsOf, Reading
  <2>3. OnTrail(p)'
    <3>1. cache[from] \in Ino /\ Len(names) - Len(names) = 0
      BY <1>1, <1>2, Kinds DEF CacheInv
    <3>2. Trail(cache[from], names)[0] = cache[from]
      BY <1>2, <3>1, TrailIs
    <3>3. Trail(cache[start[p]], path[p])' = Trail(cache[from], names)
      BY <1>10
    <3> QED BY <1>10, <3>1, <3>2, <3>3 DEF OnTrail
  <2>4. TrailOf(p)'
    BY <1>4, <2>3 DEF TrailOf
  <2> QED BY <2>1, <2>2, <2>4 DEF WalkOf
<1> QED BY <1>1, <1>4, <1>9, <1>10, <1>11, WalkStepKeeps
        DEF Walking, Storing, Numbering

LEMMA ForgetKeeps ==
    ASSUME VfsInv, NEW p \in Process, Forget(p)
    PROVE  VfsInv'
<1>1. /\ pc[p] \in {"failed", "open"} /\ Goto(p, "user") /\ VfsTypeOK
      /\ CacheInv
  BY DEF Forget, VfsInv
<1>2. TheRoot \in DOMAIN cache /\ TheRoot # TheMountpoint /\ <<>> \in Seq(Name)
  BY <1>1 DEF CacheInv, VfsTypeOK, TheRoot, TheMountpoint
<1>3. Grown
  BY DEF Forget, Grown
<1>4. /\ pc' \in [Process -> Labels] /\ pc'[p] = "user"
      /\ \A q \in Process \ {p} : pc'[q] = pc[q]
  BY <1>1, MoveTyped DEF VfsTypeOK, Labels
<1>5. WalkTyped'
  BY <1>1, <1>2 DEF Forget, VfsTypeOK, WalkTyped
<1>6. FileReadTyped' /\ SharedTyped'
  BY <1>1 DEF Forget, VfsTypeOK, FileReadTyped, SharedTyped, buffers
<1>7. VfsTypeOK'
  BY <1>4, <1>5, <1>6 DEF VfsTypeOK, WalkTyped, FileReadTyped, SharedTyped
<1>8. \A q \in Process \ {p} : SameWalk(q) /\ SameRead(q)
  BY <1>1 DEF Forget, VfsTypeOK, SameWalk, SameRead
<1>9. Framed(p)
  BY <1>3, <1>4, <1>7, <1>8 DEF Forget, Framed, Same
<1>10. /\ base'[p] = TheRoot /\ path'[p] = <<>> /\ rest'[p] = <<>>
       /\ start'[p] = TheRoot /\ cache' = cache /\ offset'[p] = 0
       /\ UNCHANGED dentries
  BY <1>1 DEF Forget, VfsTypeOK
<1>11. WalkOf(p)'
  <2>1. Len(<<>>) = 0
    OBVIOUS
  <2>2. MountsOf(p)'
    BY <1>1, <1>2, <1>4, <1>10, Kinds DEF MountsOf, CacheInv, Missing
  <2> QED BY <1>2, <1>4, <1>10, <2>1, <2>2
          DEF WalkOf, PathsOf, FoundOf, TrailOf, Walking, Storing, Missing
<1> QED BY <1>1, <1>4, <1>9, <1>10, <1>11, WalkStepKeeps
        DEF Walking, Storing, Idle, Numbering

(* A dentry that answers is true, or half written, which is damage.        *)
LEMMA FindDentryKeeps ==
    ASSUME VfsInv, NEW p \in Process, FindDentry(p)
    PROVE  VfsInv'
<1> DEFINE name == Head(rest[p])
           hits == {d \in DOMAIN dentries : /\ dentries[d].name = name
                                            /\ dentries[d].parent = Where(p)}
           hit == CHOOSE d \in hits : \A e \in hits : d <= e
           written == {slot[q] : q \in {r \in Process : pc[r] \in
                                           {"putparent", "putname"}}}
<1>1. /\ pc[p] = "name" /\ pc[p] \in Walking /\ VfsTypeOK /\ CacheInv
      /\ offset[p] = 0 /\ MountsOf(p)
  BY WalkerIdle DEF FindDentry, At, VfsInv, Walking, WalkOf
<1>2. name \in Name /\ name # Nil
  BY <1>1, WalkerAt, Kinds
<1>3. UNCHANGED <<cache, dentries, next, buffers, start, path, base, rest, slot,
                  readVars>>
  BY DEF FindDentry
<1>4. /\ start'[p] = start[p] /\ path'[p] = path[p] /\ base'[p] = base[p]
      /\ rest'[p] = rest[p] /\ slot'[p] = slot[p] /\ Grown /\ cache' = cache
      /\ offset'[p] = 0 /\ UNCHANGED <<dentries, indirect>>
  BY <1>1, <1>3 DEF Grown, readVars, buffers
<1>5. Following(p)' = Following(p)
  BY <1>1, <1>4, FollowingStays
<1>6. ASSUME NEW x \in Ino, found' = [found EXCEPT ![p] = x], Goto(p, "inode"),
             damage \subseteq damage', damage' \subseteq Damage,
             name = "." => x = cache[base[p]],
             damage' = {} => x = Following(p)
      PROVE  VfsInv'
  <2>1. Framed(p) /\ found'[p] = x /\ pc'[p] = "inode"
    BY <1>1, <1>3, <1>4, <1>6, FoundFramed DEF Labels
  <2>2. FoundOf(p)'
    BY <1>4, <1>5, <1>6, <2>1 DEF FoundOf, Storing, Missing
  <2>3. WalkOf(p)'
    BY <1>1, <1>4, <1>6, <2>1, <2>2, WalkOn DEF Walking, Missing
  <2> QED BY <1>1, <1>4, <2>1, <2>3, WalkStepKeeps DEF Walking, Storing, Numbering
<1>7. CASE name = "."
  <2>1. /\ found' = [found EXCEPT ![p] = cache[base[p]]] /\ Goto(p, "inode")
        /\ UNCHANGED damage
    BY <1>7 DEF FindDentry
  <2>2. cache[base[p]] \in Ino /\ damage \subseteq Damage
    BY <1>1, Located DEF File, VfsTypeOK
  <2> QED BY <1>6, <1>7, <2>1, <2>2 DEF Following
<1>8. CASE name # "." /\ hits # {}
  <2>1. /\ found' = [found EXCEPT ![p] = dentries[hit].ino] /\ Goto(p, "inode")
        /\ damage' = damage \cup (IF hit \in written THEN {"torn"} ELSE {})
    BY <1>8 DEF FindDentry
  <2>2. /\ hit \in hits
    <3>1. hits \subseteq Nat
      BY <1>1 DEF VfsTypeOK
    <3>2. \E d \in hits : \A e \in hits : d <= e
      <4> HIDE DEF hits
      <4> QED BY <1>8, <3>1, SmallestOf
    <3> HIDE DEF hits
    <3> QED BY <3>2
  <2>3. /\ hit \in DOMAIN dentries /\ dentries[hit].name = name
        /\ dentries[hit].parent = Where(p)
    BY <2>2
  <2> HIDE DEF hit, hits
  <2>4. dentries[hit] \in Dentry
    BY <1>1, <2>3 DEF VfsTypeOK
  <2>5. dentries[hit].ino \in Ino
    BY <2>4 DEF Dentry
  <2>6. damage \subseteq damage' /\ damage' \subseteq Damage
    BY <1>1, <2>1 DEF VfsTypeOK, Damage
  <2>7. ASSUME damage' = {}
        PROVE  dentries[hit].ino = Following(p)
    <3>1. hit \notin written
      BY <2>1, <2>7
    <3>2. Lookup(dentries[hit].parent, dentries[hit].name) = dentries[hit].ino
      BY <1>2, <2>3, <3>1 DEF VfsInv, DentriesTrue
    <3> QED BY <1>8, <2>3, <3>2 DEF Following
  <2> QED BY <1>6, <1>8, <2>1, <2>5, <2>6, <2>7
<1>9. CASE name # "." /\ hits = {}
  <2>1. Goto(p, "lookup") /\ UNCHANGED <<found, damage>>
    BY <1>9 DEF FindDentry
  <2>2. Framed(p)
    <3>1. UNCHANGED walkVars /\ damage \subseteq Damage
      BY <1>1, <1>3, <2>1 DEF walkVars, VfsTypeOK
    <3>2. indirect' \in Ino \cup {Nil}
      BY <1>1, <1>4 DEF VfsTypeOK
    <3> QED BY <1>1, <1>3, <2>1, <3>1, <3>2, MoveFramed DEF Labels
  <2>3. pc'[p] = "lookup"
    BY <1>1, <2>1, MoveTyped DEF VfsTypeOK, Labels
  <2>4. FoundOf(p)'
    BY <1>4, <1>9, <2>3 DEF FoundOf, Missing
  <2>5. WalkOf(p)'
    BY <1>1, <1>4, <2>1, <2>3, <2>4, WalkOn DEF Walking, Missing
  <2> QED BY <1>1, <1>4, <2>2, <2>3, <2>5, WalkStepKeeps
          DEF Walking, Storing, Numbering
<1> QED BY <1>7, <1>8, <1>9

(* The answer of a file system is that of the reference.                    *)
LEMMA LookedUpKeeps ==
    ASSUME VfsInv, NEW p \in Process, pc[p] \in {"lookup", "scan"},
           LookedUp(p, Lookup(Where(p), Head(rest[p]))),
           UNCHANGED <<cache, dentries, next, buffers, start, path, base, rest,
                       slot, readVars, damage>>
    PROVE  VfsInv'
<1> DEFINE x == Lookup(Where(p), Head(rest[p]))
           l == IF x = NoEnt THEN "failed" ELSE "put"
<1>1. /\ pc[p] \in Walking /\ VfsTypeOK /\ CacheInv /\ offset[p] = 0
      /\ pc[p] \notin Storing /\ FoundOf(p) /\ PathsOf(p) /\ MountsOf(p)
  BY WalkerIdle DEF VfsInv, WalkOf, Walking, Storing
<1>2. Where(p) \in Ino
  BY <1>1, Located
<1>3. x \in Ino \cup {NoEnt}
  BY <1>2, LookupStays
<1>4. l \in Labels /\ Goto(p, l) /\ found' = [found EXCEPT ![p] = x]
  BY DEF LookedUp, Labels
<1>5. /\ indirect' \in Ino \cup {Nil} /\ UNCHANGED indirect
      /\ damage \subseteq damage' /\ damage' \subseteq Damage
  BY <1>1 DEF VfsTypeOK, buffers
<1>6. Framed(p) /\ found'[p] = x /\ pc'[p] = l
  <2> HIDE DEF x, l
  <2> QED BY <1>1, <1>3, <1>4, <1>5, FoundFramed
<1>7. /\ start'[p] = start[p] /\ path'[p] = path[p] /\ base'[p] = base[p]
      /\ rest'[p] = rest[p] /\ slot'[p] = slot[p] /\ Grown /\ cache' = cache
      /\ offset'[p] = 0 /\ UNCHANGED <<cache, dentries>>
  BY <1>1 DEF Grown, readVars
<1>8. Head(rest[p]) # "." /\ Following(p) = x
  BY <1>1 DEF FoundOf, Following
<1> HIDE DEF x
<1>9. CASE x # NoEnt
  <2>1. pc'[p] = "put"
    BY <1>6, <1>9
  <2>2. FoundOf(p)'
    BY <1>7, <1>8, <2>1 DEF FoundOf, Missing
  <2>3. WalkOf(p)'
    BY <1>1, <1>5, <1>7, <2>1, <2>2, WalkOn DEF Walking, Missing
  <2>4. found'[p] \in Ino /\ found'[p] = Lookup(Where(p), Head(rest[p]))
    BY <1>3, <1>6, <1>9 DEF x
  <2> QED BY <1>1, <1>6, <1>7, <2>1, <2>3, <2>4, WalkStepKeeps
          DEF Walking, Storing, Numbering
<1>10. CASE x = NoEnt
  <2>1. pc'[p] = "failed"
    BY <1>6, <1>10
  <2>2. MountsOf(p)' /\ FoundOf(p)' /\ PathsOf(p)'
    BY <1>1, <1>7, <2>1
       DEF MountsOf, FoundOf, PathsOf, Walking, Storing, Reading, Missing
  <2>3. ASSUME damage' = {}
        PROVE  Resolve(cache[start[p]], path[p])' = NoEnt
    <3>1. damage = {} /\ MountDir # NoEnt
      BY <1>5, <2>3, Kinds
    <3> DEFINE k == Len(path[p]) - Len(rest[p]) + 1
    <3>2. /\ cache[start[p]] \in Ino /\ k \in 1..Len(path[p])
          /\ Trail(cache[start[p]], path[p])[k] = NoEnt
      BY <1>1, <1>8, <1>10, <3>1, TrailGoesOn
    <3>3. path[p] \in Seq(Name) /\ Len(path[p]) \in Nat
      BY <1>1, WalkerAt
    <3> HIDE DEF k
    <3>4. k \in 0..Len(path[p])
      BY <3>2, <3>3
    <3>5. Resolve(cache[start[p]], path[p]) = NoEnt
      BY <3>2, <3>3, <3>4, TrailLost
    <3> QED BY <1>7, <3>5
  <2>4. TrailOf(p)'
    BY <2>1, <2>3 DEF TrailOf, Walking
  <2> QED BY <1>1, <1>6, <1>7, <2>1, <2>2, <2>4, WalkStepKeeps
          DEF WalkOf, Idle, Walking, Storing, Numbering
<1> QED BY <1>9, <1>10

LEMMA DevLookupKeeps ==
    ASSUME VfsInv, NEW p \in Process, DevLookup(p)
    PROVE  VfsInv'
BY LookedUpKeeps DEF DevLookup, At

(* The scan of the block that was read answers for the directory it was    *)
(* read for, unless it finds another block in the buffer.                  *)
LEMMA DirScanKeeps ==
    ASSUME VfsInv, NEW p \in Process, DirScan(p)
    PROVE  VfsInv'
<1>1. CASE Overwritten(scratch, Dir(Where(p)))
  BY <1>1, OverwrittenKeeps
<1>2. CASE ~Overwritten(scratch, Dir(Where(p)))
  BY <1>2, LookedUpKeeps DEF DirScan, At
<1> QED BY <1>1, <1>2

(* A walk moves on without coming to anything.                              *)
LEMMA WalkMoves ==
    ASSUME VfsInv, NEW p \in Process, pc[p] \in Walking \ Storing,
           NEW l \in {"scan", "miss", "fill"}, Goto(p, l),
           UNCHANGED <<cache, dentries, next, indirect, walkVars, readVars,
                       damage>>,
           Head(rest[p]) # ".",
           l \in {"miss", "fill"} =>
               /\ found[p] \notin {Root, MountDir, DevRoot}
               /\ pc[p] \in {"inode", "miss"}
    PROVE  VfsInv'
<1>1. /\ VfsTypeOK /\ CacheInv /\ offset[p] = 0 /\ FoundOf(p) /\ MountsOf(p)
      /\ l \in Labels
  BY WalkerIdle DEF VfsInv, WalkOf, Labels, Walking
<1>2. pc'[p] = l
  BY <1>1, MoveTyped DEF VfsTypeOK
<1>3. Framed(p)
  BY <1>1, MoveFramed DEF VfsTypeOK
<1>4. /\ start'[p] = start[p] /\ path'[p] = path[p] /\ base'[p] = base[p]
      /\ rest'[p] = rest[p] /\ slot'[p] = slot[p] /\ Grown /\ cache' = cache
      /\ offset'[p] = 0 /\ found'[p] = found[p] /\ UNCHANGED <<cache, dentries>>
  BY <1>1 DEF Grown, readVars, walkVars
<1>5. Following(p)' = Following(p)
  BY <1>1, <1>4, FollowingStays
<1>6. FoundOf(p)'
  BY <1>1, <1>2, <1>4, <1>5 DEF FoundOf, Missing, Storing
<1>7. WalkOf(p)'
  BY <1>2, <1>4, <1>6, WalkOn DEF Walking, Missing
<1> QED BY <1>2, <1>3, <1>4, <1>7, WalkStepKeeps
        DEF Walking, Storing, Numbering

LEMMA DirReadKeeps ==
    ASSUME VfsInv, NEW p \in Process, DirRead(p)
    PROVE  VfsInv'
<1>1. /\ pc[p] = "lookup" /\ Goto(p, "scan")
      /\ UNCHANGED <<cache, dentries, next, indirect, walkVars, readVars, damage>>
  BY DEF DirRead, At
<1>2. Head(rest[p]) # "."
  BY <1>1 DEF VfsInv, WalkOf, FoundOf
<1> QED BY <1>1, <1>2, WalkMoves DEF Walking, Storing

LEMMA InodesReadKeeps ==
    ASSUME VfsInv, NEW p \in Process, InodesRead(p)
    PROVE  VfsInv'
<1>1. /\ pc[p] = "miss" /\ Goto(p, "fill")
      /\ UNCHANGED <<cache, dentries, next, indirect, walkVars, readVars, damage>>
  BY DEF InodesRead, At
<1>2. Head(rest[p]) # "." /\ found[p] \notin {Root, MountDir, DevRoot}
  BY <1>1 DEF VfsInv, WalkOf, FoundOf, MountsOf, Missing
<1> QED BY <1>1, <1>2, WalkMoves DEF Walking, Storing

(* A walk comes to an inode of the number it has found. *)
LEMMA EnterKeeps ==
    ASSUME VfsInv, NEW p \in Process, pc[p] \in {"inode", "type", "store"},
           \/ UNCHANGED cache
           \/ pc[p] = "store" /\ cache' = [cache EXCEPT ![slot[p]] = found[p]],
           Grown, CacheInv', NEW i \in DOMAIN cache', cache'[i] = found[p],
           Enter(p, i), UNCHANGED <<dentries, next, buffers, readVars, damage>>
    PROVE  VfsInv'
<1> DEFINE n == Len(path[p])
           r == Len(rest[p])
           l == IF Len(rest[p]) = 1 THEN "open" ELSE "name"
<1>1. /\ pc[p] \in Walking /\ VfsTypeOK /\ CacheInv /\ offset[p] = 0
      /\ FoundOf(p) /\ PathsOf(p) /\ MountsOf(p) /\ pc[p] \notin Storing
      /\ found[p] \in Ino
  BY WalkerIdle DEF VfsInv, WalkOf, Walking, Storing, FoundOf, Missing
<1>2. /\ rest[p] # <<>> /\ rest[p] \in Seq(Name) /\ path[p] \in Seq(Name)
      /\ n \in Nat /\ r \in Nat /\ r > 0 /\ r <= n
  BY <1>1, WalkerAt
<1>3. /\ Tail(rest[p]) \in Seq(Name) /\ Len(Tail(rest[p])) = r - 1
      /\ \A k \in 1..(r - 1) : Tail(rest[p])[k] = rest[p][k + 1]
  BY <1>2, TailIs
<1>4. Framed(p)
  BY <1>1, <1>2, EnterFramed DEF CacheInv
<1>5. pc'[p] = l
  BY <1>1, MoveTyped DEF Enter, VfsTypeOK, Labels
<1>6. /\ base'[p] = Cross(i) /\ rest'[p] = Tail(rest[p])
      /\ start'[p] = start[p] /\ path'[p] = path[p]
      /\ UNCHANGED dentries /\ offset'[p] = 0
  BY <1>1 DEF Enter, VfsTypeOK, readVars
<1>7. /\ Cross(i) # TheMountpoint /\ Cross(i) \in DOMAIN cache'
      /\ cache'[Cross(i)] = IF found[p] = MountDir THEN DevRoot ELSE found[p]
  <2>1. /\ cache'[TheMountpoint] = MountDir /\ cache'[TheDevRoot] = DevRoot
        /\ TheDevRoot \in DOMAIN cache'
        /\ cache'[i] = MountDir => i = TheMountpoint
    <3>1. cache' \in Seq(Ino \cup {Nil})
      BY <1>4 DEF Framed, VfsTypeOK
    <3> QED BY <3>1 DEF CacheInv, TheDevRoot
  <2> QED BY <2>1 DEF Cross, TheDevRoot, TheMountpoint
<1>8. MountsOf(p)' /\ FoundOf(p)'
  BY <1>1, <1>5, <1>6, <1>7, Kinds DEF MountsOf, FoundOf, Storing, Missing
<1>9. PathsOf(p)'
  <2>1. /\ Len(rest'[p]) = r - 1 /\ r - 1 <= n
        /\ rest'[p] = <<>> <=> r = 1
    <3>1. Len(rest'[p]) = r - 1 /\ rest'[p] \in Seq(Name)
      BY <1>3, <1>6
    <3>2. rest'[p] = <<>> <=> Len(rest'[p]) = 0
      BY <3>1, EmptySeq
    <3>3. n \in Nat /\ r \in Nat /\ r > 0 /\ r <= n
      BY <1>2
    <3> HIDE DEF n, r
    <3> QED BY <3>1, <3>2, <3>3
  <2>2. ASSUME NEW k \in 1..(r - 1)
        PROVE  rest'[p][k] = path[p][n - (r - 1) + k]
    <3>1. /\ k + 1 \in 1..r /\ n - r + (k + 1) = n - (r - 1) + k
      <4>1. n \in Nat /\ r \in Nat /\ r > 0
        BY <1>2
      <4> HIDE DEF n, r
      <4> QED BY <2>2, <4>1
    <3>2. rest'[p][k] = rest[p][k + 1]
      BY <1>3, <1>6
    <3>3. rest[p][k + 1] = path[p][n - r + (k + 1)]
      BY <1>1, <3>1 DEF PathsOf
    <3> QED BY <3>1, <3>2, <3>3
  <2>3. pc'[p] = "open" <=> r = 1
    BY <1>5
  <2>4. pc'[p] \in {"open", "name"}
    BY <1>5
  <2> HIDE DEF n, r, l
  <2>5. Len(rest'[p]) <= Len(path'[p])
    BY <1>6, <2>1 DEF n
  <2>6. \A k \in 1..Len(rest'[p]) :
            rest'[p][k] = path'[p][Len(path'[p]) - Len(rest'[p]) + k]
    BY <1>6, <2>1, <2>2 DEF n
  <2> QED BY <2>1, <2>3, <2>4, <2>5, <2>6 DEF PathsOf, Walking, Reading
<1>10. ASSUME damage' = {}
       PROVE  OnTrail(p)'
  <2>1. damage = {} /\ found[p] = Following(p)
    BY <1>1, <1>10 DEF FoundOf, Missing
  <2>2. Trail(cache[start[p]], path[p])[n - r + 1] =
            IF found[p] = MountDir THEN DevRoot ELSE found[p]
    BY <1>1, <2>1, TrailGoesOn
  <2>3. cache'[start'[p]] = cache[start[p]]
    <3>1. start[p] \in DOMAIN cache /\ cache[start[p]] \in Ino
      BY <1>1, Located
    <3> QED BY <1>1, <1>6, <3>1, GrownKeeps DEF VfsTypeOK
  <2>4. Trail(cache[start[p]], path[p])' = Trail(cache[start[p]], path[p])
    BY <1>6, <2>3
  <2>5. Len(path'[p]) - Len(rest'[p]) = n - r + 1
    <3>1. Len(path'[p]) = n /\ Len(rest'[p]) = r - 1
      BY <1>3, <1>6
    <3> HIDE DEF n, r
    <3> QED BY <1>2, <3>1
  <2> QED BY <1>6, <1>7, <2>2, <2>4, <2>5 DEF OnTrail
<1>11. TrailOf(p)'
  BY <1>5, <1>10 DEF TrailOf
<1>12. WalkOf(p)'
  BY <1>8, <1>9, <1>11 DEF WalkOf
<1>13. ReadOf(p)'
  BY <1>4, <1>5, <1>6, ReadIdle DEF Walking, Idle
<1>14. (\A q \in Process : StoresOf(q)') /\ OneStores' /\ DentriesTrue'
  BY <1>1, <1>4, <1>5, <1>6, StoresStay DEF Storing
<1>15. FillInv'
  <2>1. pc'[p] \notin Numbering /\ pc'[p] \notin Numberless
    BY <1>5 DEF Numbering, Numberless
  <2>2. SlotOf(p)' /\ (pc[p] = "store" => pc[p] \in Numberless)
    BY <2>1 DEF SlotOf, Numbering, Numberless
  <2> QED BY <1>4, <2>1, <2>2, FillsStay
<1> QED BY <1>4, <1>12, <1>13, <1>14, <1>15, Together

(* A number that is cached leads to the inode of that number; one that is  *)
(* not is none of the three that are always there.                         *)
LEMMA FindInodeKeeps ==
    ASSUME VfsInv, NEW p \in Process, FindInode(p)
    PROVE  VfsInv'
<1> DEFINE hits == {i \in DOMAIN cache : cache[i] = found[p]}
<1>1. /\ pc[p] = "inode" /\ VfsTypeOK /\ CacheInv /\ FoundOf(p)
      /\ UNCHANGED <<cache, dentries, next, buffers, readVars>>
      /\ MeetsUnfilled(p, hits) \/ Finds(p, hits)
  BY DEF FindInode, At, VfsInv, WalkOf
<1>2. CASE MeetsUnfilled(p, hits)
  <2>1. damage \subseteq damage' /\ damage' \subseteq Damage
    BY <1>1, <1>2 DEF MeetsUnfilled, VfsTypeOK, Damage
  <2> QED BY <1>1, <1>2, <2>1, DamagedKeeps DEF MeetsUnfilled
<1>3. CASE Finds(p, hits) /\ hits = {}
  <2>1. Goto(p, "miss") /\ UNCHANGED <<walkVars, indirect, damage>>
    BY <1>1, <1>3 DEF Finds, buffers
  <2>2. Head(rest[p]) # "."
    <3>1. Head(rest[p]) = "." => base[p] \in hits
      BY <1>1 DEF FoundOf, VfsTypeOK
    <3> QED BY <1>3, <3>1
  <2>3. found[p] \notin {Root, MountDir, DevRoot}
    <3>1. {TheRoot, TheMountpoint, TheDevRoot} \subseteq DOMAIN cache
      BY <1>1 DEF CacheInv, VfsTypeOK, TheRoot, TheMountpoint, TheDevRoot
    <3> QED BY <1>1, <1>3, <3>1 DEF CacheInv
  <2> QED BY <1>1, <2>1, <2>2, <2>3, WalkMoves DEF Walking, Storing
<1>4. CASE Finds(p, hits) /\ hits # {}
  <2>1. PICK i \in hits : Enter(p, i)
    BY <1>4 DEF Finds
  <2>2. i \in DOMAIN cache' /\ cache'[i] = found[p] /\ UNCHANGED damage
    BY <1>1, <1>4 DEF Finds
  <2>3. Grown /\ CacheInv'
    BY <1>1 DEF Grown, CacheInv
  <2> QED BY <1>1, <2>1, <2>2, <2>3, EnterKeeps
<1> QED BY <1>1, <1>2, <1>3, <1>4

(* A step that puts an inode on the list, or gives it its number.           *)
LEMMA CacheStepKeeps ==
    ASSUME VfsInv, NEW p \in Process, pc[p] \in Missing,
           NEW l \in Numbering, NEW s \in Nat,
           \/ cache' = Append(cache, Nil)
           \/ /\ pc[p] \in Numberless /\ l \notin Numberless
              /\ cache' = [cache EXCEPT ![slot[p]] = found[p]],
           Grown, CacheInv', Goto(p, l), slot' = [slot EXCEPT ![p] = s],
           UNCHANGED <<dentries, next, buffers, start, path, base, rest, found,
                       readVars, damage>>,
           s \in DOMAIN cache', l \in Numberless => cache'[s] = Nil,
           l = "type" => cache'[s] = found[p],
           l \in Numberless => s \notin DOMAIN cache
    PROVE  VfsInv'
<1>1. /\ VfsTypeOK /\ CacheInv /\ offset[p] = 0 /\ FoundOf(p) /\ MountsOf(p)
      /\ l \in Labels /\ l \in Missing /\ l \in Walking \ Storing
      /\ pc[p] \in Walking \ Storing
  BY WalkerIdle
     DEF VfsInv, WalkOf, Labels, Walking, Missing, Numbering, Storing
<1>2. /\ pc' \in [Process -> Labels] /\ pc'[p] = l
      /\ \A q \in Process \ {p} : pc'[q] = pc[q]
  BY <1>1, MoveTyped DEF VfsTypeOK
<1>3. Framed(p) /\ slot'[p] = s
  <2>1. /\ cache' \in Seq(Ino \cup {Nil}) /\ DOMAIN cache \subseteq DOMAIN cache'
    BY <1>1, GrownKeeps DEF VfsTypeOK
  <2>2. /\ slot' \in [Process -> Nat] /\ slot'[p] = s
        /\ \A q \in Process \ {p} : slot'[q] = slot[q]
    BY <1>1 DEF VfsTypeOK
  <2>3. WalkTyped' /\ SharedTyped' /\ FileReadTyped'
    BY <1>1, <2>1, <2>2, TypedIs, ReadTypedStays
       DEF WalkTyped, SharedTyped, buffers
  <2>4. VfsTypeOK'
    BY <1>2, <2>3 DEF VfsTypeOK, WalkTyped, FileReadTyped, SharedTyped
  <2> QED BY <1>2, <2>2, <2>4, UnchangedRead DEF Framed, Same, SameWalk
<1>4. /\ start'[p] = start[p] /\ path'[p] = path[p] /\ base'[p] = base[p]
      /\ rest'[p] = rest[p] /\ offset'[p] = 0 /\ found'[p] = found[p]
  BY <1>1 DEF readVars
<1>5. FoundOf(p)'
  <2>1. Following(p)' = Following(p) /\ File(p)' = File(p)
    BY <1>1, <1>4, FollowingStays, WhereStays
  <2> QED BY <1>1, <1>2, <1>4, <2>1 DEF FoundOf, Missing, Storing, File
<1>6. WalkOf(p)'
  BY <1>1, <1>2, <1>4, <1>5, WalkOn DEF MountsOf
<1>7. ReadOf(p)'
  BY <1>1, <1>2, <1>3, <1>4, ReadIdle
<1>8. (\A q \in Process : StoresOf(q)') /\ OneStores' /\ DentriesTrue'
  BY <1>1, <1>2, <1>3, StoresStay DEF Missing
<1>9. FillInv'
  <2>1. SlotOf(p)'
    BY <1>2, <1>3, <1>4 DEF SlotOf
  <2> QED BY <1>2, <1>3, <2>1, FillsStay
<1> QED BY <1>3, <1>6, <1>7, <1>8, <1>9, Together

(* A new inode goes to the end of the cache, without a number.              *)
LEMMA NewInodeKeeps ==
    ASSUME VfsInv, NEW p \in Process, pc[p] \in {"miss", "fill"},
           NEW l \in Numberless, NewInode(p, l)
    PROVE  VfsInv'
<1> DEFINE i == Len(cache) + 1
<1>1. VfsTypeOK /\ CacheInv /\ l \in Numbering /\ pc[p] \in Missing /\ l # "type"
  BY DEF VfsInv, Numberless, Numbering, Missing
<1>2. /\ cache' = Append(cache, Nil) /\ slot' = [slot EXCEPT ![p] = i]
      /\ Goto(p, l)
      /\ UNCHANGED <<dentries, next, buffers, start, path, base, rest, found,
                     readVars, damage>>
  BY DEF NewInode
<1>3. Grown
  BY <1>2 DEF Grown
<1>4. /\ i \in Nat /\ i \notin DOMAIN cache
      /\ Len(cache') = i /\ i \in DOMAIN cache' /\ cache'[i] = Nil
      /\ \A j \in DOMAIN cache : j \in DOMAIN cache' /\ cache'[j] = cache[j]
      /\ \A j \in DOMAIN cache' : j = i \/ j \in DOMAIN cache
  BY <1>1, <1>2 DEF VfsTypeOK
<1>5. CacheInv'
  <2>1. /\ Len(cache) \in Nat /\ Len(cache) >= 3
        /\ {TheRoot, TheMountpoint, TheDevRoot} \subseteq DOMAIN cache
    BY <1>1 DEF CacheInv, VfsTypeOK, TheRoot, TheMountpoint, TheDevRoot
  <2>2. Len(cache') >= 3
    BY <1>4, <2>1
  <2>3. Nil # MountDir /\ Nil # DevRoot
    BY Kinds
  <2> HIDE DEF i
  <2> QED BY <1>1, <1>4, <2>1, <2>2, <2>3 DEF CacheInv
<1> HIDE DEF i
<1> QED BY <1>1, <1>2, <1>3, <1>4, <1>5, CacheStepKeeps

LEMMA DevReadInodeKeeps ==
    ASSUME VfsInv, NEW p \in Process, DevReadInode(p)
    PROVE  VfsInv'
BY NewInodeKeeps DEF DevReadInode, At, Numberless

LEMMA InodeAllocKeeps ==
    ASSUME VfsInv, NEW p \in Process, InodeAlloc(p)
    PROVE  VfsInv'
BY NewInodeKeeps DEF InodeAlloc, At, Numberless

(* The process that has put it there gives it its number.                   *)
LEMMA Numbered ==
    ASSUME VfsInv, NEW p \in Process, pc[p] \in Numberless,
           cache' = [cache EXCEPT ![slot[p]] = found[p]]
    PROVE  /\ Grown /\ CacheInv' /\ slot[p] \in Nat
           /\ slot[p] \in DOMAIN cache' /\ cache'[slot[p]] = found[p]
<1>1. /\ VfsTypeOK /\ CacheInv /\ found[p] \in Ino
      /\ found[p] \notin {Root, MountDir, DevRoot}
      /\ slot[p] \in DOMAIN cache /\ cache[slot[p]] = Nil
  BY DEF VfsInv, WalkOf, FoundOf, MountsOf, FillInv, SlotOf, Missing, Numberless,
         Numbering
<1>2. Grown
  BY <1>1 DEF Grown
<1>3. /\ cache \in Seq(Ino \cup {Nil}) /\ Len(cache') = Len(cache)
      /\ DOMAIN cache' = DOMAIN cache /\ cache'[slot[p]] = found[p]
      /\ \A j \in DOMAIN cache : j # slot[p] => cache'[j] = cache[j]
  BY <1>1 DEF VfsTypeOK
<1>4. slot[p] \notin {TheRoot, TheMountpoint, TheDevRoot}
  BY <1>1, Kinds DEF CacheInv
<1>5. {TheRoot, TheMountpoint, TheDevRoot} \subseteq DOMAIN cache
  BY <1>1, <1>3 DEF CacheInv, TheRoot, TheMountpoint, TheDevRoot
<1>6. CacheInv'
  BY <1>1, <1>3, <1>4, <1>5 DEF CacheInv
<1>7. slot[p] \in Nat
  BY <1>1 DEF VfsTypeOK
<1> QED BY <1>1, <1>2, <1>3, <1>6, <1>7

LEMMA DevNumberKeeps ==
    ASSUME VfsInv, NEW p \in Process, DevNumber(p)
    PROVE  VfsInv'
<1>1. /\ pc[p] = "number" /\ Goto(p, "type") /\ slot \in [Process -> Nat]
      /\ cache' = [cache EXCEPT ![slot[p]] = found[p]]
      /\ UNCHANGED <<dentries, next, buffers, walkVars, readVars, damage>>
  BY DEF DevNumber, At, VfsInv, VfsTypeOK
<1>2. /\ pc[p] \in Numberless /\ pc[p] \in Missing
      /\ "type" \in Numbering /\ "type" \notin Numberless
  BY <1>1 DEF Numberless, Missing, Numbering
<1>3. /\ slot' = [slot EXCEPT ![p] = slot[p]]
      /\ UNCHANGED <<start, path, base, rest, found>>
  BY <1>1 DEF walkVars
<1>4. /\ Grown /\ CacheInv' /\ slot[p] \in Nat
      /\ slot[p] \in DOMAIN cache' /\ cache'[slot[p]] = found[p]
  BY <1>1, <1>2, Numbered
<1> QED BY <1>1, <1>2, <1>3, <1>4, CacheStepKeeps

LEMMA DevFillKeeps ==
    ASSUME VfsInv, NEW p \in Process, DevFill(p)
    PROVE  VfsInv'
<1>1. /\ pc[p] = "type" /\ Enter(p, slot[p]) /\ CacheInv /\ FillInv
      /\ UNCHANGED <<cache, dentries, next, buffers, readVars, damage>>
  BY DEF DevFill, At, VfsInv
<1>2. slot[p] \in DOMAIN cache' /\ cache'[slot[p]] = found[p]
  BY <1>1 DEF FillInv, SlotOf, Numbering
<1>3. Grown /\ CacheInv'
  BY <1>1 DEF Grown, CacheInv
<1> QED BY <1>1, <1>2, <1>3, EnterKeeps

LEMMA InodeFillKeeps ==
    ASSUME VfsInv, NEW p \in Process, InodeFill(p)
    PROVE  VfsInv'
<1>1. CASE Overwritten(scratch, Inodes)
  BY <1>1, OverwrittenKeeps
<1>2. CASE ~Overwritten(scratch, Inodes)
  <2>1. /\ pc[p] = "store" /\ pc[p] \in Numberless /\ Enter(p, slot[p])
        /\ cache' = [cache EXCEPT ![slot[p]] = found[p]]
        /\ UNCHANGED <<dentries, next, buffers, readVars, damage>>
    BY <1>2 DEF InodeFill, At, Numberless
  <2>2. /\ Grown /\ CacheInv' /\ slot[p] \in DOMAIN cache'
        /\ cache'[slot[p]] = found[p]
    BY <2>1, Numbered
  <2> QED BY <2>1, <2>2, EnterKeeps
<1> QED BY <1>1, <1>2

(* The three stores into a dentry. *)
LEMMA PutFramed ==
    ASSUME NEW p \in Process, NEW l \in Labels, NEW d \in 1..NDentry,
           NEW x \in Dentry, NEW s \in Nat, VfsTypeOK,
           dentries' = [dentries EXCEPT ![d] = x], next' \in 1..NDentry,
           slot' = [slot EXCEPT ![p] = s], Goto(p, l),
           UNCHANGED <<cache, indirect, start, path, base, rest, found, readVars,
                       damage>>
    PROVE  /\ Framed(p) /\ pc'[p] = l /\ slot'[p] = s /\ dentries'[d] = x
           /\ \A e \in 1..NDentry \ {d} : dentries'[e] = dentries[e]
<1>1. Grown /\ damage \subseteq damage'
  BY DEF Grown
<1>2. /\ pc' \in [Process -> Labels] /\ pc'[p] = l
      /\ \A q \in Process \ {p} : pc'[q] = pc[q]
  BY TypedIs, MoveTyped
<1>3. /\ slot' \in [Process -> Nat] /\ slot'[p] = s
      /\ \A q \in Process \ {p} : slot'[q] = slot[q]
  BY DEF VfsTypeOK
<1>4. /\ dentries' \in [1..NDentry -> Dentry] /\ dentries'[d] = x
      /\ \A e \in 1..NDentry \ {d} : dentries'[e] = dentries[e]
  BY DEF VfsTypeOK
<1>5. FileReadTyped'
  BY TypedIs, ReadTypedStays
<1>6. VfsTypeOK'
  BY <1>2, <1>3, <1>4, <1>5 DEF VfsTypeOK, FileReadTyped
<1>7. \A q \in Process \ {p} : SameWalk(q)
  BY <1>3 DEF SameWalk
<1> QED BY <1>1, <1>2, <1>3, <1>4, <1>6, <1>7, UnchangedRead DEF Framed, Same

(* Only one process has begun a dentry and not finished it.                 *)
LEMMA StoreKeeps ==
    ASSUME VfsInv, NEW p \in Process, Framed(p),
           pc[p] \in {"put"} \cup Storing,
           pc'[p] \in {"putparent", "putname", "inode"},
           \A q \in Process \ {p} : pc[q] \notin Storing,
           NEW d \in 1..NDentry,
           \A e \in 1..NDentry \ {d} : dentries'[e] = dentries[e],
           pc[p] \in Storing => slot[p] = d,
           pc'[p] \in Storing => slot'[p] = d,
           pc'[p] \notin Storing =>
               Lookup(dentries'[d].parent, dentries'[d].name) = dentries'[d].ino,
           StoresOf(p)',
           UNCHANGED <<cache, start, path, base, rest, found, readVars>>
    PROVE  VfsInv'
<1>1. /\ VfsTypeOK /\ CacheInv /\ WalkOf(p) /\ StoresOf(p) /\ offset[p] = 0
      /\ pc[p] \in Walking /\ pc'[p] \in Walking /\ MountsOf(p)
  BY WalkerIdle DEF VfsInv, Walking, Storing, WalkOf
<1>2. ReadOf(p)'
  BY <1>1, ReadIdle DEF readVars
<1>3. CacheInv' /\ FillInv'
  BY <1>1, FillsUntouched DEF CacheInv, Numbering
<1>4. \A q \in Process \ {p} : Same(q)
  BY DEF Framed
<1>5. ASSUME NEW q \in Process \ {p}
      PROVE  StoresOf(q)'
  <2>1. Where(q)' = Where(q)
    BY <1>1, WhereStays DEF VfsInv, WalkOf, Framed
  <2>2. pc'[q] = pc[q] /\ slot'[q] = slot[q] /\ pc[q] \notin Storing
    BY <1>4 DEF Same, SameWalk
  <2> QED BY <2>1, <2>2 DEF VfsInv, StoresOf, Storing
<1>6. OneStores'
  BY <1>4 DEF OneStores, Same
<1>7. DentriesTrue'
  <2>1. DOMAIN dentries = 1..NDentry /\ DOMAIN dentries' = 1..NDentry
    BY <1>1 DEF VfsTypeOK, Framed
  <2>2. SUFFICES ASSUME NEW e \in 1..NDentry
                 PROVE  \/ \E q \in Process : /\ pc'[q] \in Storing
                                              /\ slot'[q] = e
                        \/ dentries'[e].name = Nil
                        \/ Lookup(dentries'[e].parent, dentries'[e].name)
                              = dentries'[e].ino
    BY <2>1 DEF DentriesTrue, Storing, Lookup
  <2>3. CASE e = d
    BY <2>3
  <2>4. CASE e # d
    <3>1. dentries'[e] = dentries[e]
      BY <2>4
    <3>2. ~ \E q \in Process : pc[q] \in {"putparent", "putname"} /\ slot[q] = e
      BY <2>4 DEF Storing
    <3>3. dentries[e].name = Nil
          \/ Lookup(dentries[e].parent, dentries[e].name) = dentries[e].ino
      BY <2>1, <3>2 DEF VfsInv, DentriesTrue
    <3> QED BY <3>1, <3>3
  <2> QED BY <2>3, <2>4
<1>8. FoundOf(p)'
  <2>1. /\ Head(rest[p]) # "." /\ found[p] \in Ino
        /\ found[p] = Lookup(Where(p), Head(rest[p]))
    BY <1>1 DEF WalkOf, FoundOf, StoresOf
  <2>2. Following(p)' = Following(p)
    BY <1>1, FollowingStays DEF Framed
  <2>3. Following(p) = found[p]
    BY <2>1 DEF Following
  <2> QED BY <2>1, <2>2, <2>3 DEF FoundOf, Missing
<1>9. WalkOf(p)'
  BY <1>1, <1>8, WalkOn DEF Framed, Missing
<1> QED BY <1>2, <1>3, <1>5, <1>6, <1>7, <1>9, Together

(* The three stores into a dentry: its number,                             *)
LEMMA PutInoKeeps ==
    ASSUME VfsInv, NEW p \in Process, PutIno(p)
    PROVE  VfsInv'
<1> DEFINE x == [dentries[next] EXCEPT !.ino = found[p]]
<1>1. /\ VfsTypeOK /\ CacheInv /\ StoresOf(p) /\ pc[p] = "put"
      /\ next \in 1..NDentry /\ dentries[next] \in Dentry
      /\ found[p] \in Ino /\ found[p] = Lookup(Where(p), Head(rest[p]))
  BY DEF PutIno, At, VfsInv, VfsTypeOK, StoresOf
<1>2. /\ slot' = [slot EXCEPT ![p] = next]
      /\ dentries' = [dentries EXCEPT ![next] = x] /\ Goto(p, "putparent")
      /\ UNCHANGED <<cache, indirect, start, path, base, rest, found, readVars,
                     damage>>
  BY DEF PutIno, buffers
<1>3. next' \in 1..NDentry
  <2>1. \A n, m \in Nat : n >= 2 => (m % n) + 1 \in 1..n
    OBVIOUS
  <2>2. next \in Nat /\ NDentry \in Nat /\ NDentry >= 2
    BY <1>1, Kinds
  <2>3. next' = (next % NDentry) + 1
    BY DEF PutIno
  <2> QED BY <2>1, <2>2, <2>3
<1>4. x \in Dentry /\ x.ino = found[p]
  BY <1>1 DEF Dentry
<1> DEFINE d == next
<1>5. d \in 1..NDentry /\ d \in Nat
  BY <1>1, Kinds
<1>6. slot' = [slot EXCEPT ![p] = d] /\ dentries' = [dentries EXCEPT ![d] = x]
  BY <1>2
<1> HIDE DEF x, d
<1>7. /\ Framed(p) /\ pc'[p] = "putparent" /\ slot'[p] = d
      /\ dentries'[d] = x
      /\ \A e \in 1..NDentry \ {d} : dentries'[e] = dentries[e]
  <2>1. "putparent" \in Labels
    BY DEF Labels
  <2>2. /\ VfsTypeOK /\ Goto(p, "putparent") /\ x \in Dentry
        /\ UNCHANGED <<cache, indirect, start, path, base, rest, found, readVars,
                       damage>>
    BY <1>1, <1>2, <1>4
  <2> QED BY <1>3, <1>5, <1>6, <2>1, <2>2, PutFramed
<1>8. Where(p)' = Where(p)
  BY <1>1, <1>2, <1>7, WhereStays DEF VfsInv, WalkOf, Framed
<1>9. StoresOf(p)'
  BY <1>1, <1>2, <1>4, <1>5, <1>7, <1>8 DEF StoresOf, Storing
<1>10. \A q \in Process \ {p} : pc[q] \notin Storing
  BY DEF PutIno, Storing
<1> QED BY <1>1, <1>2, <1>5, <1>7, <1>9, <1>10, StoreKeeps DEF Storing

(* its parent,                                                             *)
LEMMA PutParentKeeps ==
    ASSUME VfsInv, NEW p \in Process, PutParent(p)
    PROVE  VfsInv'
<1> DEFINE d == slot[p]
           x == [dentries[slot[p]] EXCEPT !.parent = Where(p)]
<1>1. /\ VfsTypeOK /\ CacheInv /\ StoresOf(p) /\ pc[p] = "putparent"
      /\ OneStores /\ pc[p] \in Storing /\ Where(p) \in Ino
  BY Located DEF PutParent, At, VfsInv, WalkOf, Storing
<1>2. /\ d \in 1..NDentry /\ dentries[d].ino = found[p] /\ found[p] \in Ino
      /\ found[p] = Lookup(Where(p), Head(rest[p]))
  BY <1>1 DEF StoresOf, Storing
<1>3. dentries[d] \in Dentry
  BY <1>1, <1>2 DEF VfsTypeOK
<1>4. /\ dentries' = [dentries EXCEPT ![d] = x] /\ Goto(p, "putname")
      /\ slot' = [slot EXCEPT ![p] = d] /\ next' \in 1..NDentry
      /\ UNCHANGED <<cache, indirect, start, path, base, rest, found, readVars,
                     damage>>
  BY <1>1 DEF PutParent, walkVars, buffers, VfsTypeOK
<1>5. x \in Dentry /\ x.ino = found[p] /\ x.parent = Where(p)
  BY <1>1, <1>2, <1>3 DEF Dentry
<1> HIDE DEF x, d
<1>6. /\ Framed(p) /\ pc'[p] = "putname" /\ slot'[p] = d /\ dentries'[d] = x
      /\ \A e \in 1..NDentry \ {d} : dentries'[e] = dentries[e]
  <2>1. "putname" \in Labels /\ d \in Nat
    BY <1>2, Kinds DEF Labels
  <2> QED BY <1>1, <1>2, <1>4, <1>5, <2>1, PutFramed
<1>7. Where(p)' = Where(p)
  BY <1>1, <1>4, <1>6, WhereStays DEF VfsInv, WalkOf, Framed
<1>8. StoresOf(p)'
  BY <1>2, <1>4, <1>5, <1>6, <1>7 DEF StoresOf, Storing
<1>9. \A q \in Process \ {p} : pc[q] \notin Storing
  BY <1>1 DEF OneStores
<1>10. slot[p] = d
  BY DEF d
<1> QED BY <1>1, <1>2, <1>4, <1>6, <1>8, <1>9, <1>10, StoreKeeps DEF Storing

(* and its name, which makes it whole and true.                            *)
LEMMA PutNameKeeps ==
    ASSUME VfsInv, NEW p \in Process, PutName(p)
    PROVE  VfsInv'
<1> DEFINE d == slot[p]
           x == [dentries[slot[p]] EXCEPT !.name = Head(rest[p])]
<1>1. /\ VfsTypeOK /\ CacheInv /\ StoresOf(p) /\ pc[p] = "putname"
      /\ OneStores /\ pc[p] \in Storing /\ Head(rest[p]) \in Name
  BY WalkerAt DEF PutName, At, VfsInv, Storing, Walking
<1>2. /\ d \in 1..NDentry /\ dentries[d].ino = found[p]
      /\ dentries[d].parent = Where(p)
      /\ found[p] = Lookup(Where(p), Head(rest[p]))
  BY <1>1 DEF StoresOf, Storing
<1>3. dentries[d] \in Dentry
  BY <1>1, <1>2 DEF VfsTypeOK
<1>4. /\ dentries' = [dentries EXCEPT ![d] = x] /\ Goto(p, "inode")
      /\ slot' = [slot EXCEPT ![p] = 0] /\ next' \in 1..NDentry
      /\ UNCHANGED <<cache, indirect, start, path, base, rest, found, readVars,
                     damage>>
  BY <1>1 DEF PutName, buffers, VfsTypeOK
<1>5. /\ x \in Dentry /\ x.ino = found[p] /\ x.parent = Where(p)
      /\ x.name = Head(rest[p])
  BY <1>1, <1>2, <1>3 DEF Dentry
<1> HIDE DEF x, d
<1>6. /\ Framed(p) /\ pc'[p] = "inode" /\ slot'[p] = 0 /\ dentries'[d] = x
      /\ \A e \in 1..NDentry \ {d} : dentries'[e] = dentries[e]
  <2>1. "inode" \in Labels /\ 0 \in Nat
    BY DEF Labels
  <2> QED BY <1>1, <1>2, <1>4, <1>5, <2>1, PutFramed
<1>7. StoresOf(p)'
  BY <1>6 DEF StoresOf, Storing
<1>8. \A q \in Process \ {p} : pc[q] \notin Storing
  BY <1>1 DEF OneStores
<1>9. slot[p] = d
  BY DEF d
<1>10. Lookup(dentries'[d].parent, dentries'[d].name) = dentries'[d].ino
  BY <1>2, <1>5, <1>6
<1> QED BY <1>1, <1>2, <1>4, <1>6, <1>7, <1>8, <1>9, <1>10, StoreKeeps DEF Storing

-----------------------------------------------------------------------------
(* The invariant holds.                                                     *)

(* The boot leaves the three fixed inodes and two true dentries.           *)
LEMMA VfsInitHolds == VfsInit => VfsInv
<1> SUFFICES ASSUME VfsInit PROVE VfsInv
  OBVIOUS
<1> DEFINE tty == Entry[DevRoot]["tty"]
<1>1. /\ tty \in Devfs /\ tty \in Ino /\ tty # DevRoot /\ tty # MountDir
      /\ Root \in Ino /\ MountDir \in Ino /\ DevRoot \in Ino
      /\ Root # MountDir /\ Root # DevRoot /\ MountDir # DevRoot
      /\ {"dev", "tty"} \subseteq Name /\ NDentry \in Nat /\ NDentry >= 2
  BY Kinds, VfsAssumption, EntryAssumption DEF Ino
<1>2. /\ cache = <<Root, MountDir, DevRoot, tty>> /\ cache \in Seq(Ino \cup {Nil})
      /\ Len(cache) = 4 /\ DOMAIN cache = 1..4
      /\ cache[1] = Root /\ cache[2] = MountDir /\ cache[3] = DevRoot
      /\ cache[4] = tty
  BY <1>1 DEF VfsInit
<1>3. CacheInv
  <2>1. \A i \in 1..4 : i = 1 \/ i = 2 \/ i = 3 \/ i = 4
    OBVIOUS
  <2> QED BY <1>1, <1>2, <2>1 DEF CacheInv, TheRoot, TheMountpoint, TheDevRoot
<1>4. /\ dentries \in [1..NDentry -> Dentry]
      /\ \A d \in 1..NDentry :
            \/ dentries[d].name = Nil
            \/ Lookup(dentries[d].parent, dentries[d].name) = dentries[d].ino
  <2> DEFINE one == [parent |-> Root, name |-> "dev", ino |-> MountDir]
             two == [parent |-> DevRoot, name |-> "tty", ino |-> tty]
             none == [parent |-> Root, name |-> Nil, ino |-> Root]
  <2>1. one \in Dentry /\ two \in Dentry /\ none \in Dentry
    BY <1>1 DEF Dentry
  <2>2. /\ Lookup(one.parent, one.name) = one.ino
        /\ Lookup(two.parent, two.name) = two.ino
        /\ none.name = Nil
    BY VfsAssumption, EntryAssumption DEF Lookup
  <2> HIDE DEF one, two, none
  <2>3. dentries = [d \in 1..NDentry |-> CASE d = 1 -> one
                                           [] d = 2 -> two
                                           [] OTHER -> none]
    BY DEF VfsInit, one, two, none
  <2>4. \A d \in 1..NDentry : dentries[d] \in {one, two, none}
    BY <2>3
  <2> QED BY <2>1, <2>2, <2>3, <2>4
<1>5. next \in 1..NDentry
  <2>1. \A n \in Nat : n >= 2 => (2 % n) + 1 \in 1..n
    OBVIOUS
  <2> QED BY <1>1, <2>1 DEF VfsInit
<1>6. VfsTypeOK
  <2>1. SharedTyped
    BY <1>2, <1>4, <1>5 DEF SharedTyped, VfsInit, Damage
  <2>2. TheRoot \in DOMAIN cache /\ <<>> \in Seq(Name) /\ <<>> \in Seq(Nat)
        /\ 0 \in Nat
    BY <1>1, <1>2 DEF TheRoot
  <2>3. WalkTyped
    BY <2>2 DEF WalkTyped, VfsInit
  <2>4. FileReadTyped
    BY <2>2 DEF FileReadTyped, VfsInit
  <2>5. pc \in [Process -> Labels]
    BY DEF VfsInit, Labels
  <2> QED BY <2>1, <2>3, <2>4, <2>5, TypedIs
<1>7. DentriesTrue
  BY <1>4 DEF DentriesTrue
<1>8. /\ \A p \in Process : /\ pc[p] = "user" /\ slot[p] = 0 /\ offset[p] = 0
                            /\ base[p] = TheRoot /\ start[p] = TheRoot
                            /\ path[p] = <<>> /\ rest[p] = <<>>
      /\ Len(<<>>) = 0
  BY DEF VfsInit
<1>9. OneStores
  BY <1>8 DEF OneStores, Storing
<1>10. ASSUME NEW p \in Process
       PROVE  WalkOf(p) /\ StoresOf(p) /\ ReadOf(p)
  <2>1. TheRoot # TheMountpoint
    BY DEF TheRoot, TheMountpoint
  <2>0. cache[base[p]] = Root
    BY <1>2, <1>8 DEF TheRoot
  <2>2. MountsOf(p) /\ FoundOf(p) /\ TrailOf(p)
    BY <1>1, <1>8, <2>0, <2>1 DEF MountsOf, FoundOf, TrailOf, Walking, Storing,
                                  Missing
  <2>3. PathsOf(p)
    <3>1. pc[p] \notin Walking \cup {"failed"}
      BY <1>8 DEF Walking
    <3>2. path[p] = <<>> /\ rest[p] = <<>> /\ Len(<<>>) = 0
      BY <1>8
    <3> QED BY <3>1, <3>2 DEF PathsOf
  <2>4. StoresOf(p) /\ ReadOf(p)
    BY <1>8 DEF StoresOf, ReadOf, OffsetsOf, BytesOf, Storing, Reading
  <2> QED BY <2>2, <2>3, <2>4 DEF WalkOf
<1>11. FillInv
  BY <1>8 DEF FillInv, SlotOf, Numbering, Numberless
<1> QED BY <1>3, <1>6, <1>7, <1>9, <1>10, <1>11 DEF VfsInv

(* Every step preserves the invariant.                                     *)
LEMMA VfsStepKeeps == VfsInv /\ [VfsNext]_vfsVars => VfsInv'
<1> SUFFICES ASSUME VfsInv, [VfsNext]_vfsVars PROVE VfsInv'
  OBVIOUS
<1>1. CASE VfsNext
  <2>1. PICK p \in Process :
            \/ \E from \in {TheRoot, TheDevRoot}, names \in Paths :
                  Walk(p, from, names)
            \/ FindDentry(p) \/ DevLookup(p) \/ DirRead(p) \/ DirScan(p)
            \/ PutIno(p) \/ PutParent(p) \/ PutName(p)
            \/ FindInode(p) \/ DevReadInode(p) \/ DevNumber(p) \/ DevFill(p)
            \/ InodesRead(p) \/ InodeAlloc(p) \/ InodeFill(p)
            \/ Forget(p)
            \/ \E n \in Counts : ReadFile(p, n)
            \/ BlocksCopy(p) \/ FirstRead(p) \/ FirstCopy(p) \/ WholeRead(p)
            \/ RestRead(p) \/ RestCopy(p) \/ Return(p)
    BY <1>1 DEF VfsNext
  <2>2. CASE \E from \in {TheRoot, TheDevRoot}, names \in Paths :
                Walk(p, from, names)
    BY <2>2, WalkKeeps
  <2>3. CASE FindDentry(p) \/ DevLookup(p) \/ DirRead(p) \/ DirScan(p)
    BY <2>3, FindDentryKeeps, DevLookupKeeps, DirReadKeeps, DirScanKeeps
  <2>4. CASE PutIno(p) \/ PutParent(p) \/ PutName(p)
    BY <2>4, PutInoKeeps, PutParentKeeps, PutNameKeeps
  <2>5. CASE FindInode(p) \/ InodesRead(p) \/ InodeAlloc(p) \/ InodeFill(p)
    BY <2>5, FindInodeKeeps, InodesReadKeeps, InodeAllocKeeps, InodeFillKeeps
  <2>9. CASE DevReadInode(p) \/ DevNumber(p) \/ DevFill(p)
    BY <2>9, DevReadInodeKeeps, DevNumberKeeps, DevFillKeeps
  <2>6. CASE Forget(p) \/ \E n \in Counts : ReadFile(p, n)
    BY <2>6, ForgetKeeps, ReadFileKeeps
  <2>7. CASE BlocksCopy(p) \/ FirstRead(p) \/ FirstCopy(p) \/ WholeRead(p)
    BY <2>7, BlocksCopyKeeps, FirstReadKeeps, FirstCopyKeeps, WholeReadKeeps
  <2>8. CASE RestRead(p) \/ RestCopy(p) \/ Return(p)
    BY <2>8, RestReadKeeps, RestCopyKeeps, ReturnKeeps
  <2> QED BY <2>1, <2>2, <2>3, <2>4, <2>5, <2>6, <2>7, <2>8, <2>9
<1>2. CASE UNCHANGED vfsVars
  <2>1. /\ UNCHANGED <<cache, dentries, next, buffers, pc, walkVars, readVars,
                       damage>>
    BY <1>2 DEF vfsVars
  <2>2. ASSUME NEW p \in Process
        PROVE  VfsInv'
    <3>1. VfsTypeOK' /\ Grown
      BY <2>1 DEF VfsInv, VfsTypeOK, Grown, walkVars, readVars, buffers
    <3>2. \A q \in Process : Same(q)
      BY <2>1, UnchangedWalk, UnchangedRead DEF Same
    <3> QED BY <2>1, <3>1, <3>2, UnmovedKeeps DEF Framed
  <2>3. CASE Process = {}
    BY <2>1, <2>3 DEF VfsInv, VfsTypeOK, CacheInv, FillInv, DentriesTrue,
                      OneStores, Lookup, walkVars, readVars, buffers
  <2> QED BY <2>2, <2>3
<1> QED BY <1>1, <1>2

THEOREM VfsInvariance == VfsSpec => []VfsInv
<1>1. VfsInit => VfsInv
  BY VfsInitHolds
<1>2. VfsInv /\ [VfsNext]_vfsVars => VfsInv'
  BY VfsStepKeeps
<1> QED BY <1>1, <1>2, PTL DEF VfsSpec

(* The walks and the reads, and the caches they share, keep their types:   *)
(* every inode a process is at is one of the cache.                         *)
THEOREM VfsTypes == VfsSpec => []VfsTypeOK
<1>1. VfsInv => VfsTypeOK
  BY DEF VfsInv
<1> QED BY <1>1, VfsInvariance, PTL

(* vfs_walk_rel ends where its path leads, or fails where there is nothing, *)
(* for any tree, any paths and any number of processes that share the       *)
(* caches.                                                                  *)
THEOREM WalksEndRight == VfsSpec => []WalkRight
<1>1. VfsInv => WalkRight
  <2> SUFFICES ASSUME VfsInv, damage = {}, NEW p \in Process
               PROVE  LET end == Resolve(cache[start[p]], path[p])
                      IN  /\ pc[p] = "open" /\ path[p] # <<>> => File(p) = end
                          /\ pc[p] = "failed" => end = NoEnt
    BY DEF WalkRight
  <2>1. TrailOf(p) /\ PathsOf(p) /\ path[p] \in Seq(Name)
    BY DEF VfsInv, WalkOf, VfsTypeOK
  <2>2. ASSUME pc[p] = "open", path[p] # <<>>
        PROVE  File(p) = Resolve(cache[start[p]], path[p])
    <3>1. OnTrail(p) /\ rest[p] = <<>>
      BY <2>1, <2>2 DEF TrailOf, PathsOf
    <3>2. Len(path[p]) - Len(rest[p]) = Len(path[p])
      BY <2>1, <3>1
    <3> QED BY <3>1, <3>2 DEF OnTrail, Resolve, File
  <2> QED BY <2>1, <2>2 DEF TrailOf
<1> QED BY <1>1, VfsInvariance, PTL

(* No entry of dentry_cache ever lies about a directory.                    *)
THEOREM DentriesStayTrue == VfsSpec => []DentriesTrue
<1>1. VfsInv => DentriesTrue
  BY DEF VfsInv
<1> QED BY <1>1, VfsInvariance, PTL

(* vfs_read_inode asks the file system of base for an inode that is its    *)
(* own.                                                                     *)
THEOREM MissesAreHome == VfsSpec => []MissIsHome
<1>1. VfsInv => MissIsHome
  <2> SUFFICES ASSUME VfsInv, damage = {}, NEW p \in Process, pc[p] = "miss"
               PROVE  found[p] \in Devfs <=> File(p) \in Devfs
    BY DEF MissIsHome
  <2> DEFINE name == Head(rest[p])
  <2>1. /\ VfsTypeOK /\ CacheInv /\ found[p] \in Ino /\ name # "."
        /\ found[p] = Following(p) /\ found[p] # Root /\ NoEnt \notin Ino
        /\ MountsOf(p)
    BY Kinds DEF VfsInv, WalkOf, FoundOf, MountsOf, Missing
  <2>2. found[p] = Lookup(Where(p), name) /\ Where(p) \in Ino
    BY <2>1, Located DEF Following
  <2>3. found[p] \in Devfs <=> Where(p) \in Devfs
    BY <2>1, <2>2, LookupStays
  <2>4. ~(name = ".." /\ base[p] = TheDevRoot)
    <3>1. ASSUME name = "..", base[p] = TheDevRoot
          PROVE  FALSE
      <4>1. Where(p) = MountDir
        BY <2>1, <3>1 DEF Where, Parent, CacheInv
      <4> QED BY <2>1, <2>2, <3>1, <4>1, ParentOfMount
    <3> QED BY <3>1
  <2> QED BY <2>3, <2>4 DEF Where, Parent, File
<1> QED BY <1>1, VfsInvariance, PTL

(* ucfs_read returns the bytes from the file offset on in their order and   *)
(* without a gap, and no fewer than were asked for or are left, whatever    *)
(* the block size; more, only if it began inside of a block, and only then  *)
(* does it copy a rest of less than nothing.                                *)
THEOREM ReadsAreRight == VfsSpec => []ReadRight
<1>1. VfsInv => ReadRight
  BY DEF VfsInv, ReadRight, ReadOf, BytesOf, Returned, Ends, Overlong
<1> QED BY <1>1, VfsInvariance, PTL
=============================================================================
