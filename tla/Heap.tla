------------------------------- MODULE Heap -------------------------------
(***************************************************************************)
(* The allocator of kernel/alloc.c: a doubly linked list of block          *)
(* descriptors that tile the memory of the heap in address order, and a    *)
(* stack of unused descriptors.  kmalloc and page_alloc are two instances. *)
(* Each call runs under alloc_mut from end to end and is one step.         *)
(* Pointers are offsets from block_base in units of 2^blk_shift bytes.     *)
(***************************************************************************)
EXTENDS Integers, Sequences, FiniteSets, SequencesExt

CONSTANTS
    BlkCount,   \* heap->blk_count, the number of descriptors
    BlkShift,   \* heap->blk_shift
    Size,       \* the size of the heap in bytes
    Requests    \* the sizes in bytes that callers ask for

BLOCK_NIL == 255
NULL == -1

Unit     == 2^BlkShift
Total    == Size \div Unit      \* the size of the heap in units
MaxUnits == 32767               \* the size of a block has 15 bits

(* That a unit is a positive number of bytes follows from BlkShift \in Nat; *)
(* it is stated because the provers have no theory of powers.              *)
ASSUME HeapAssumption ==
    /\ BlkCount \in 1..BLOCK_NIL
    /\ BlkShift \in Nat /\ Unit \in Nat \ {0}
    /\ Size \in Nat /\ Total \in 1..MaxUnits
    /\ Requests \subseteq Nat \ {0}

VARIABLES
    blk,        \* heap->blk, the descriptors
    unused,     \* heap->unused_blocks up to unused_blocks_top
    live,       \* what the callers hold: the pointers heap_alloc returned
                \* and heap_free did not get, with their size in units
    result      \* what the last heap_alloc returned

vars == <<blk, unused, live, result>>

Index == 0..(BlkCount - 1)
Block == [size : 0..MaxUnits, occupied : BOOLEAN,
          prev : Index \cup {BLOCK_NIL}, next : Index \cup {BLOCK_NIL}]

(* A request in units, rounded up. *)
Units(bytes) == (bytes + Unit - 1) \div Unit

(* A mutated Init: the size in bytes taken for units. *)
InitUnshifted ==
    /\ blk = [i \in Index |->
                [size |-> IF i = 0 THEN Size ELSE 0, occupied |-> FALSE,
                 prev |-> IF i = 0 THEN BLOCK_NIL ELSE 0,
                 next |-> IF i = 0 THEN BLOCK_NIL ELSE 0]]
    /\ unused = [k \in 1..(BlkCount - 1) |-> k]
    /\ live = {}
    /\ result = NULL

(* heap_init.  Descriptors that are not in use hold what they last held;   *)
(* at boot that is zero.                                                   *)
Init ==
    /\ blk = [i \in Index |->
                [size |-> IF i = 0 THEN Total ELSE 0,
                 occupied |-> FALSE,
                 prev |-> IF i = 0 THEN BLOCK_NIL ELSE 0,
                 next |-> IF i = 0 THEN BLOCK_NIL ELSE 0]]
    /\ unused = [k \in 1..(BlkCount - 1) |-> k]
    /\ live = {}
    /\ result = NULL

-----------------------------------------------------------------------------

(* The descriptors the loops of alloc.c meet, step by step, and the list   *)
(* of them.  A cycle would show as a list longer than their number.        *)
Walk ==
    LET at[i \in Nat] == IF i = 0 THEN 0
                         ELSE IF at[i - 1] = BLOCK_NIL THEN BLOCK_NIL
                         ELSE blk[at[i - 1]].next
    IN  at

Chain ==
    LET met == {i \in 0..BlkCount : Walk[i] # BLOCK_NIL}
    IN  [k \in 1..Cardinality(met) |-> Walk[k - 1]]

(* base, when the loop stands at the k-th descriptor of the chain. *)
Base(k) ==
    LET base[i \in 1..Len(Chain)] ==
            IF i = 1 THEN 0 ELSE base[i - 1] + blk[Chain[i - 1]].size
    IN  base[k]

(* A mutated FirstFit: the loop goes on and remembers the last block.      *)
LastFit(n, k) ==
    LET fits(j) == ~blk[Chain[j]].occupied /\ blk[Chain[j]].size >= n
    IN  /\ k \in DOMAIN Chain /\ fits(k)
        /\ \A j \in (k + 1)..Len(Chain) : ~fits(j)

(* The loop of heap_alloc stops at the k-th descriptor: the first free one *)
(* that is large enough.                                                   *)
FirstFit(n, k) ==
    LET fits(j) == ~blk[Chain[j]].occupied /\ blk[Chain[j]].size >= n
    IN  k \in DOMAIN Chain /\ fits(k) /\ \A j \in 1..(k - 1) : ~fits(j)

Granted(n, k) ==
    /\ live' = live \cup {[addr |-> Base(k), size |-> n]}
    /\ result' = Base(k)

(* heap_alloc, exact fit *)
AllocExact(n, k) ==
    /\ FirstFit(n, k)
    /\ blk[Chain[k]].size = n
    /\ blk' = [blk EXCEPT ![Chain[k]].occupied = TRUE]
    /\ Granted(n, k)
    /\ UNCHANGED unused

(* heap_alloc, larger block and a spare descriptor: the rest of the block  *)
(* gets a descriptor of its own, linked in behind it.                      *)
AllocSplit(n, k) ==
    LET cur  == Chain[k]
        new  == Last(unused)
        rest == blk[cur].next
        split == [blk EXCEPT
            ![new] = [size |-> blk[cur].size - n, occupied |-> FALSE,
                      prev |-> cur, next |-> rest],
            ![cur] = [size |-> n, occupied |-> TRUE,
                      prev |-> blk[cur].prev, next |-> new]]
    IN  /\ FirstFit(n, k)
        /\ blk[cur].size > n /\ unused # <<>>
        /\ unused' = Front(unused)
        /\ blk' = IF rest = BLOCK_NIL THEN split
                  ELSE [split EXCEPT ![rest].prev = new]
        /\ Granted(n, k)

(* heap_alloc returns NULL: nothing fits, or the first fit needs a split   *)
(* and there is no spare descriptor, whatever fits further on.             *)
AllocRefused(n) ==
    /\ \A k \in DOMAIN Chain :
          FirstFit(n, k) => blk[Chain[k]].size > n /\ unused = <<>>
    /\ result' = NULL
    /\ UNCHANGED <<blk, unused, live>>

Alloc(bytes) ==
    LET n == Units(bytes)
    IN  \/ \E k \in DOMAIN Chain : AllocExact(n, k) \/ AllocSplit(n, k)
        \/ AllocRefused(n)

-----------------------------------------------------------------------------

(* Two mutated forms of Absorb: the back link of the block behind is left  *)
(* pointing at the descriptor that goes, and the size is not added.        *)
AbsorbNoBackLink(b, i) ==
    [b EXCEPT ![i].size = @ + b[b[i].next].size, ![i].next = b[b[i].next].next]

AbsorbNoSize(b, i) ==
    LET after == b[b[i].next].next
        shorter == [b EXCEPT ![i].next = after]
    IN  IF after = BLOCK_NIL THEN shorter
        ELSE [shorter EXCEPT ![after].prev = i]

(* One half of try_coalesce: b[i] takes over the block that follows it.    *)
(* The descriptor of that block is left as it is.                          *)
Absorb(b, i) ==
    LET gone  == b[i].next
        after == b[gone].next
        grown == [b EXCEPT ![i].size = @ + b[gone].size, ![i].next = after]
    IN  IF after = BLOCK_NIL THEN grown ELSE [grown EXCEPT ![after].prev = i]

IsFree(b, i) == i # BLOCK_NIL /\ ~b[i].occupied

(* heap_free on a pointer that heap_alloc returned: the loop stops at the  *)
(* first descriptor with that address, which try_coalesce then merges with *)
(* the block behind it and with the block before it.                       *)
Free(obj) ==
    \E k \in DOMAIN Chain :
        /\ Base(k) = obj.addr /\ \A j \in 1..(k - 1) : Base(j) # obj.addr
        /\ LET i  == Chain[k]
               b0 == [blk EXCEPT ![i].occupied = FALSE]
               right == IsFree(b0, b0[i].next)
               b1 == IF right THEN Absorb(b0, i) ELSE b0
               left == IsFree(b1, b1[i].prev)
               b2 == IF left THEN Absorb(b1, b1[i].prev) ELSE b1
           IN  /\ blk' = b2
               /\ unused' = unused \o (IF right THEN <<b0[i].next>> ELSE <<>>)
                                   \o (IF left THEN <<i>> ELSE <<>>)
        /\ live' = live \ {obj}
        /\ UNCHANGED result

Next ==
    \/ \E bytes \in Requests : Alloc(bytes)
    \/ \E obj \in live : Free(obj)

Spec == Init /\ [][Next]_vars

-----------------------------------------------------------------------------

TypeOK ==
    /\ blk \in [Index -> Block]
    /\ unused \in Seq(Index)
    /\ result \in {NULL} \cup 0..(Total - 1)

(* The list is a doubly linked chain without cycles, and every descriptor  *)
(* is either on it or on the stack of unused ones, once.                   *)
DescriptorsAccounted ==
    LET all == Chain \o unused
    IN  /\ \A k \in 1..Len(Chain) :
              blk[Chain[k]].prev = IF k = 1 THEN BLOCK_NIL ELSE Chain[k - 1]
        /\ Len(all) = BlkCount /\ ToSet(all) = Index

(* The blocks tile the heap, no two free blocks are neighbours, and the    *)
(* occupied blocks are exactly what the callers hold.                      *)
BlocksTile ==
    /\ Base(Len(Chain)) + blk[Last(Chain)].size = Total
    /\ \A k \in 1..(Len(Chain) - 1) :
          blk[Chain[k]].occupied \/ blk[Chain[k + 1]].occupied
    /\ live = {[addr |-> Base(k), size |-> blk[Chain[k]].size] :
                  k \in {j \in DOMAIN Chain : blk[Chain[j]].occupied}}

(* kernel/alloc.c is a first-fit allocator of disjoint intervals. *)
Abs == INSTANCE HeapAbs WITH HeapSize <- Total,
                             Needs <- {Units(bytes) : bytes \in Requests}

ImplementsAllocator == Abs!Spec
=============================================================================
