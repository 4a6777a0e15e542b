------------------------------ MODULE HeapAbs ------------------------------
(***************************************************************************)
(* What an allocator with first fit promises: the objects its callers hold *)
(* are disjoint pieces of the heap, a new one lies as low as possible, and *)
(* a request is refused only when there is no room for it, or when objects *)
(* and gaps together use up the block descriptors.                         *)
(***************************************************************************)
EXTENDS Integers, FiniteSets

CONSTANTS
    HeapSize,   \* the size of the heap
    Needs,      \* the sizes that are asked for
    BlkCount    \* the number of descriptors

VARIABLES live, result

absVars == <<live, result>>

Cells(o) == o.addr..(o.addr + o.size - 1)
Taken == UNION {Cells(o) : o \in live}

Fits(a, n) == a + n <= HeapSize /\ a..(a + n - 1) \cap Taken = {}

(* Where the maximal runs of free cells begin. *)
Gaps == {a \in 0..(HeapSize - 1) : a \notin Taken /\ (a = 0 \/ a - 1 \in Taken)}

Init == live = {} /\ result = -1

Alloc(n) ==
    \E a \in 0..(HeapSize - 1) :
        /\ Fits(a, n) /\ \A b \in 0..(a - 1) : ~Fits(b, n)
        /\ live' = live \cup {[addr |-> a, size |-> n]}
        /\ result' = a

Refuse(n) ==
    /\ \/ \A a \in 0..(HeapSize - 1) : ~Fits(a, n)
       \/ Cardinality(live) + Cardinality(Gaps) = BlkCount
    /\ result' = -1
    /\ UNCHANGED live

Free(o) == live' = live \ {o} /\ UNCHANGED result

Next == (\E n \in Needs : Alloc(n) \/ Refuse(n)) \/ \E o \in live : Free(o)

Spec == Init /\ [][Next]_absVars
=============================================================================
