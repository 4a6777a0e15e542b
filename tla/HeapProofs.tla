----------------------------- MODULE HeapProofs -----------------------------
(***************************************************************************)
(* The allocator for every heap and every number of block descriptors: the *)
(* blocks tile the heap, no descriptor is lost, and it is a first-fit      *)
(* allocator of disjoint objects.                                          *)
(***************************************************************************)
EXTENDS Heap, FiniteSetTheorems, FunctionTheorems, SequenceTheorems,
        WellFoundedInduction, TLAPS

(* The blocks of b whose descriptors are in L lie at the addresses adr and *)
(* tile the heap.                                                          *)
Tiled(b, L, adr) ==
    LET end(i) == adr[i] + b[i].size
    IN  /\ L \subseteq Index /\ 0 \in L /\ adr \in [Index -> Nat] /\ adr[0] = 0
        /\ \A i \in L : b[i].size >= 1 /\ end(i) <= Total
        /\ \A i, j \in L : i = j \/ end(i) <= adr[j] \/ end(j) <= adr[i]
        /\ \A x \in 0..(Total - 1) : \E i \in L : adr[i] <= x /\ x < end(i)

(* They are linked both ways in the order of their addresses. *)
Linked(b, L, adr) ==
    /\ b[0].prev = BLOCK_NIL
    /\ \A i \in L : LET end == adr[i] + b[i].size
                        after == b[i].next
                    IN  IF end = Total THEN after = BLOCK_NIL
                        ELSE after \in L /\ adr[after] = end /\ b[after].prev = i
    /\ \A i \in L \ {0} : b[i].prev \in L /\ b[b[i].prev].next = i

(* No two free blocks are neighbours. *)
Apart(b, L) ==
    \A i \in L : b[i].next \in L => b[i].occupied \/ b[b[i].next].occupied

Held(b, L, adr) ==
    {[addr |-> adr[i], size |-> b[i].size] : i \in {j \in L : b[j].occupied}}

(* u holds the descriptors that are not in L, each once. *)
Spare(L, u) ==
    /\ u \in Seq(Index)
    /\ \A j, k \in 1..Len(u) : u[j] = u[k] => j = k
    /\ \A j \in 1..Len(u) : u[j] \notin L
    /\ \A i \in Index \ L : \E j \in 1..Len(u) : u[j] = i
    /\ Cardinality(L) + Len(u) = BlkCount

Layout(L, adr) ==
    /\ Tiled(blk, L, adr) /\ Linked(blk, L, adr) /\ Apart(blk, L)
    /\ live = Held(blk, L, adr) /\ Spare(L, unused)

IInv == TypeOK /\ \E L, adr : Layout(L, adr)

(* c lists the blocks of L as they are linked. *)
Ordered(b, L, adr, c) ==
    /\ c \in Seq(L) /\ Len(c) = Cardinality(L) /\ Len(c) >= 1 /\ c[1] = 0
    /\ \A i \in L : \E k \in 1..Len(c) : c[k] = i
    /\ \A j, k \in 1..Len(c) : j < k => adr[c[j]] < adr[c[k]]
    /\ \A k \in 1..Len(c) :
          b[c[k]].next = IF k = Len(c) THEN BLOCK_NIL ELSE c[k + 1]

-----------------------------------------------------------------------------
(* Numbers.                                                                 *)

(* The constants, as the arithmetic needs them.                             *)
LEMMA Constants ==
    /\ BlkCount \in Nat /\ BlkCount >= 1 /\ BlkCount <= BLOCK_NIL
    /\ BLOCK_NIL = 255 /\ NULL = -1 /\ BLOCK_NIL \notin Index
    /\ Unit \in Nat /\ Unit >= 1
    /\ Total \in Nat /\ Total >= 1 /\ Total <= MaxUnits /\ MaxUnits = 32767
    /\ \A bytes \in Requests : bytes \in Nat /\ bytes >= 1
    /\ Index \subseteq Nat /\ 0 \in Index
<1>1. BLOCK_NIL = 255 /\ NULL = -1 /\ MaxUnits = 32767
  BY DEF BLOCK_NIL, NULL, MaxUnits
<1>2. /\ BlkCount \in Nat /\ BlkCount >= 1 /\ BlkCount <= BLOCK_NIL
      /\ Unit \in Nat /\ Unit >= 1
      /\ Total \in Nat /\ Total >= 1 /\ Total <= MaxUnits
      /\ \A bytes \in Requests : bytes \in Nat /\ bytes >= 1
  BY <1>1, HeapAssumption
<1> QED
  BY <1>1, <1>2 DEF Index

(* The fields of a descriptor.                                              *)
LEMMA BlockFields ==
    ASSUME NEW r \in Block
    PROVE  /\ r.size \in Nat /\ r.size <= MaxUnits /\ r.occupied \in BOOLEAN
           /\ r.prev \in Index \cup {BLOCK_NIL} /\ r.next \in Index \cup {BLOCK_NIL}
<1>1. r.size \in 0..MaxUnits
  BY DEF Block
<1>2. r.size \in Nat /\ r.size <= MaxUnits
  <2>1. \A s \in 0..MaxUnits : s \in Nat /\ s <= MaxUnits
    BY Constants
  <2> QED
    BY <1>1, <2>1, Zenon
<1>3. /\ r.occupied \in BOOLEAN /\ r.prev \in Index \cup {BLOCK_NIL}
      /\ r.next \in Index \cup {BLOCK_NIL}
  BY SMT DEF Block
<1> HIDE DEF Block
<1> QED
  BY <1>2, <1>3, Zenon

(* Rounding up a positive number of bytes gives a positive number of units. *)
LEMMA RoundedUp ==
    ASSUME NEW u \in Nat, u >= 1, NEW n \in Nat, n >= 1
    PROVE  (n + u - 1) \div u \in Nat /\ (n + u - 1) \div u >= 1
OBVIOUS

(* Every request is of one unit at least.                                   *)
LEMMA UnitsType ==
    ASSUME NEW bytes \in Requests
    PROVE  Units(bytes) \in Nat /\ Units(bytes) >= 1
BY Constants, RoundedUp DEF Units

(* The sizes of the intervals that are counted with.                        *)
LEMMA Counted ==
    ASSUME NEW n \in Nat
    PROVE  IsFiniteSet(1..n) /\ Cardinality(1..n) = n
           /\ IsFiniteSet(0..n) /\ Cardinality(0..n) = n + 1
<1>1. 1 \in Int /\ n \in Int /\ 0 \in Int
  OBVIOUS
<1> QED
  BY <1>1, FS_Interval

(* A set of numbers has a smallest element: what the proofs use in place of *)
(* an induction.                                                            *)
LEMMA SmallestOf ==
    ASSUME NEW S, S \subseteq Nat, S # {}
    PROVE  \E x \in S : \A y \in S : x <= y
<1> DEFINE Up == {1..x : x \in S}
<1>1. Up \subseteq FiniteSubsetsOf(Nat)
  <2>1. \A x \in Nat : 1..x \subseteq Nat
    OBVIOUS
  <2>2. \A x \in Nat : IsFiniteSet(1..x)
    BY Counted
  <2>3. \A x \in Nat : 1..x \in FiniteSubsetsOf(Nat)
    BY <2>1, <2>2, Zenon DEF FiniteSubsetsOf
  <2> QED
    BY <2>3, Zenon
<1>2. IsWellFoundedOn(StrictSubsetOrdering(Nat), FiniteSubsetsOf(Nat))
  BY FS_StrictSubsetOrderingWellFounded
<1>3. Up # {}
  OBVIOUS
<1> HIDE DEF Up
<1>4. PICK U \in Up : \A V \in Up : ~ (<<V, U>> \in StrictSubsetOrdering(Nat))
  BY <1>1, <1>2, <1>3, WFMin
<1>5. PICK x \in S : U = 1..x
  BY <1>4 DEF Up
<1>6. ASSUME NEW y \in S, ~ (x <= y)
      PROVE  FALSE
  <2>1. x \in Nat /\ y \in Nat /\ y < x
    BY <1>6
  <2>2. 1..y \in Up
    BY DEF Up
  <2>3. 1..y \subseteq 1..x /\ 1..y # 1..x /\ 1..x \subseteq Nat
    <3>1. x \in 1..x /\ x \notin 1..y
      BY <2>1
    <3> QED
      BY <2>1, <3>1
  <2>4. <<1..y, 1..x>> \in StrictSubsetOrdering(Nat)
    BY <2>3, <2>1, Counted DEF StrictSubsetOrdering, FiniteSubsetsOf
  <2> QED
    BY <2>2, <2>4, <1>4, <1>5
<1> QED
  BY <1>6

-----------------------------------------------------------------------------
(* The order of the addresses is the order of the links: the rank of a      *)
(* block is the number of blocks below it.                                  *)

(* The listed descriptors can be counted.                                   *)
LEMMA FinitelyMany ==
    ASSUME NEW L, L \subseteq Index
    PROVE  IsFiniteSet(L) /\ Cardinality(L) \in Nat /\ Cardinality(L) <= BlkCount
<1>1. BlkCount - 1 \in Nat /\ Index = 0..(BlkCount - 1)
  BY Constants DEF Index
<1>2. IsFiniteSet(Index) /\ Cardinality(Index) = BlkCount
  BY <1>1, Counted, Constants
<1> QED
  BY <1>2, FS_Subset, FS_CardinalityType

(* The blocks of a layout can be listed in the order of their addresses,    *)
(* and this is the order of the links.                                      *)
LEMMA Enumerated ==
    ASSUME NEW b, NEW L, NEW adr, b \in [Index -> Block],
           Tiled(b, L, adr), Linked(b, L, adr)
    PROVE  \E c : Ordered(b, L, adr, c)
<1> DEFINE Below(i) == {j \in L : adr[j] < adr[i]}
           rank == [i \in L |-> Cardinality(Below(i))]
           m == Cardinality(L)
           c == [k \in 1..m |-> CHOOSE i \in L : rank[i] = k - 1]
<1>1. /\ L \subseteq Index /\ 0 \in L /\ adr[0] = 0
      /\ \A i \in L : /\ adr[i] \in Nat /\ b[i].size \in Nat /\ b[i].size >= 1
                      /\ adr[i] + b[i].size <= Total
      /\ \A i, j \in L : \/ i = j \/ adr[i] + b[i].size <= adr[j]
                         \/ adr[j] + b[j].size <= adr[i]
  <2>1. \A i \in Index : b[i] \in Block
    OBVIOUS
  <2> QED
    BY <2>1, BlockFields DEF Tiled
<1>2. \A i \in L : IF adr[i] + b[i].size = Total THEN b[i].next = BLOCK_NIL
                  ELSE b[i].next \in L /\ adr[b[i].next] = adr[i] + b[i].size
  BY DEF Linked
<1>3. IsFiniteSet(L) /\ m \in Nat
  BY <1>1, FinitelyMany
<1>4. \A i \in L : /\ IsFiniteSet(Below(i)) /\ rank[i] \in Nat /\ i \notin Below(i)
                  /\ rank[i] = Cardinality(Below(i)) /\ Below(i) \subseteq L
  <2> TAKE i \in L
  <2>1. Below(i) \in SUBSET L /\ i \notin Below(i)
    BY <1>1
  <2>2. rank[i] = Cardinality(Below(i))
    OBVIOUS
  <2> HIDE DEF Below, rank
  <2>3. IsFiniteSet(Below(i)) /\ Cardinality(Below(i)) \in Nat
    BY <2>1, <1>3, FS_Subset, FS_CardinalityType
  <2> QED
    BY <2>1, <2>2, <2>3
<1>5. \A i, j \in L : j \in Below(i) <=> adr[j] < adr[i]
  OBVIOUS
<1>6. DOMAIN rank = L /\ m >= 1
  <2>1. m # 0
    <3> HIDE DEF m
    <3>1. Cardinality(L) # 0
      BY <1>1, <1>3, FS_EmptySet
    <3> QED
      BY <3>1 DEF m
  <2> QED
    BY <2>1, <1>3
<1>7. rank = [i \in L |-> rank[i]]
  OBVIOUS
<1> HIDE DEF Below, rank, m
<1>8. \A i, j \in L : adr[i] = adr[j] => i = j
  BY <1>1
<1>9. ASSUME NEW i \in L
      PROVE  Cardinality(Below(i) \cup {i}) = rank[i] + 1
             /\ IsFiniteSet(Below(i) \cup {i})
  BY <1>4, FS_AddElement
<1>10. ASSUME NEW i \in L, NEW j \in L, adr[i] < adr[j]
       PROVE  rank[i] + 1 <= rank[j]
  <2>1. Below(i) \cup {i} \subseteq Below(j)
    BY <1>1, <1>4, <1>5, <1>10
  <2> QED
    BY <2>1, <1>4, <1>9, FS_Subset
<1>11. ASSUME NEW i \in L
       PROVE  rank[i] + 1 <= m
  <2>1. Below(i) \cup {i} \subseteq L
    BY <1>4
  <2>2. Cardinality(Below(i) \cup {i}) <= Cardinality(L)
    BY <2>1, <1>3, FS_Subset
  <2> QED
    BY <2>2, <1>9 DEF m
<1>12. rank[0] = 0
  <2>1. Below(0) = {}
    BY <1>1, <1>4, <1>5
  <2> QED
    BY <2>1, <1>1, <1>4, FS_EmptySet
<1>13. ASSUME NEW i \in L, adr[i] + b[i].size # Total
       PROVE  b[i].next \in L /\ rank[b[i].next] = rank[i] + 1
  <2> DEFINE after == b[i].next
  <2>1. after \in L /\ adr[after] = adr[i] + b[i].size
    BY <1>2, <1>13
  <2> HIDE DEF after
  <2>2. \A j \in L : adr[j] < adr[after] <=> adr[j] < adr[i] \/ j = i
    <3> TAKE j \in L
    <3>1. /\ adr[j] \in Nat /\ b[j].size \in Nat /\ b[j].size >= 1
          /\ adr[i] \in Nat /\ b[i].size \in Nat /\ b[i].size >= 1
      BY <1>1
    <3>2. j = i \/ adr[j] + b[j].size <= adr[i] \/ adr[i] + b[i].size <= adr[j]
      BY <1>1
    <3> QED
      BY <3>1, <3>2, <2>1
  <2>3. Below(after) = Below(i) \cup {i}
    BY <2>1, <2>2, <1>4, <1>5
  <2> QED
    BY <2>1, <2>3, <1>4, <1>9 DEF after
<1>14. ASSUME NEW i \in L, adr[i] + b[i].size = Total
       PROVE  rank[i] + 1 = m
  <2>1. \A j \in L : adr[j] < adr[i] \/ j = i
    <3> TAKE j \in L
    <3>1. /\ adr[j] \in Nat /\ b[j].size \in Nat /\ b[j].size >= 1
          /\ adr[i] \in Nat /\ b[i].size \in Nat /\ b[i].size >= 1
          /\ adr[j] + b[j].size <= Total /\ Total \in Nat
      BY <1>1, Constants
    <3>2. j = i \/ adr[j] + b[j].size <= adr[i] \/ adr[i] + b[i].size <= adr[j]
      BY <1>1
    <3> QED
      BY <3>1, <3>2, <1>14
  <2>2. Below(i) \cup {i} = L
    BY <2>1, <1>4, <1>5
  <2> QED
    BY <2>2, <1>9 DEF m
<1>15. \A i, j \in L : rank[i] = rank[j] => i = j
  BY <1>1, <1>4, <1>8, <1>10
<1>16. \A r \in 0..(m - 1) : \E i \in L : rank[i] = r
  <2>1. rank \in Injection(L, 0..(m - 1))
    <3>1. \A i \in L : rank[i] \in 0..(m - 1)
      BY <1>3, <1>4, <1>11
    <3> QED
      BY <3>1, <1>6, <1>7, <1>15 DEF Injection, IsInjective
  <2>2. IsFiniteSet(0..(m - 1)) /\ Cardinality(0..(m - 1)) = m
    <3>1. m - 1 \in Nat /\ (m - 1) + 1 = m
      BY <1>3, <1>6
    <3> QED
      BY <3>1, Counted
  <2>3. rank \in Surjection(L, 0..(m - 1))
    BY <2>1, <2>2, <1>3, FS_Injection DEF m
  <2> QED
    BY <2>3 DEF Surjection
<1>17. \A k \in 1..m : c[k] \in L /\ rank[c[k]] = k - 1
  <2> TAKE k \in 1..m
  <2>1. k - 1 \in 0..(m - 1)
    BY <1>3
  <2> QED
    BY <2>1, <1>16
<1>18. c \in Seq(L) /\ Len(c) = m
  <2>1. \A k \in 1..m : c[k] \in L
    BY <1>17
  <2>2. c \in [1..m -> L]
    BY <2>1
  <2> HIDE DEF c
  <2> QED
    BY <2>2, <1>3
<1> HIDE DEF c
<1>19. c[1] = 0
  BY <1>1, <1>3, <1>6, <1>12, <1>15, <1>17
<1>20. ASSUME NEW i \in L
       PROVE  \E k \in 1..m : c[k] = i
  <2>1. rank[i] + 1 \in 1..m /\ (rank[i] + 1) - 1 = rank[i]
    BY <1>3, <1>4, <1>11
  <2> QED
    BY <2>1, <1>15, <1>17
<1>21. ASSUME NEW j \in 1..m, NEW k \in 1..m, j < k
       PROVE  adr[c[j]] < adr[c[k]]
  <2>1. c[j] \in L /\ c[k] \in L /\ rank[c[j]] = j - 1 /\ rank[c[k]] = k - 1
    BY <1>17
  <2>2. ~ (adr[c[k]] < adr[c[j]]) /\ c[j] # c[k]
    BY <2>1, <1>3, <1>10, <1>21
  <2> QED
    BY <2>1, <2>2, <1>1, <1>8
<1>22. ASSUME NEW k \in 1..m
       PROVE  b[c[k]].next = IF k = m THEN BLOCK_NIL ELSE c[k + 1]
  <2>1. c[k] \in L /\ rank[c[k]] = k - 1
    BY <1>17
  <2>2. CASE adr[c[k]] + b[c[k]].size = Total
    BY <2>1, <2>2, <1>2, <1>3, <1>14
  <2>3. CASE adr[c[k]] + b[c[k]].size # Total
    <3>1. b[c[k]].next \in L /\ rank[b[c[k]].next] = k
      BY <2>1, <2>3, <1>3, <1>13
    <3>2. k + 1 <= m
      BY <3>1, <1>11
    <3>3. k + 1 \in 1..m /\ rank[c[k + 1]] = k /\ c[k + 1] \in L
      BY <3>2, <1>3, <1>17
    <3> QED
      BY <3>1, <3>3, <1>3, <1>15
  <2> QED
    BY <2>2, <2>3
<1>23. Len(c) = m /\ m = Cardinality(L) /\ m >= 1
  <2>1. m = Cardinality(L)
    BY DEF m
  <2> QED
    BY <2>1, <1>6, <1>18
<1>24. /\ Len(c) = Cardinality(L) /\ Len(c) >= 1
       /\ \A i \in L : \E k \in 1..Len(c) : c[k] = i
       /\ \A j, k \in 1..Len(c) : j < k => adr[c[j]] < adr[c[k]]
       /\ \A k \in 1..Len(c) :
             b[c[k]].next = IF k = Len(c) THEN BLOCK_NIL ELSE c[k + 1]
  BY <1>20, <1>21, <1>22, <1>23, Zenon
<1> QED
  BY <1>18, <1>19, <1>24, Zenon DEF Ordered

-----------------------------------------------------------------------------
(* The loops of alloc.c meet the blocks in that order, at their addresses.  *)

(* A loop along the links meets the blocks in that order, and then          *)
(* BLOCK_NIL.                                                               *)
LEMMA WalkIs ==
    ASSUME NEW L, NEW adr, NEW c, L \subseteq Index, Ordered(blk, L, adr, c)
    PROVE  \A i \in Nat : Walk[i] = IF i < Len(c) THEN c[i + 1] ELSE BLOCK_NIL
<1> DEFINE Body(f) == [i \in Nat |-> IF i = 0 THEN 0
                                     ELSE IF f[i - 1] = BLOCK_NIL THEN BLOCK_NIL
                                     ELSE blk[f[i - 1]].next]
           n == Len(c)
           met == [i \in Nat |-> IF i < n THEN c[i + 1] ELSE BLOCK_NIL]
           g == Walk
<1>1. /\ n \in Nat /\ n >= 1 /\ c[1] = 0
      /\ \A k \in 1..n : c[k] \in L /\ c[k] # BLOCK_NIL
      /\ \A k \in 1..n :
            blk[c[k]].next = IF k = n THEN BLOCK_NIL ELSE c[k + 1]
  BY Constants DEF Ordered
<1> HIDE DEF n
<1>2. met = Body(met)
  <2>1. ASSUME NEW i \in Nat
        PROVE  met[i] = Body(met)[i]
    <3>1. CASE i = 0
      BY <3>1, <1>1
    <3>2. CASE i # 0 /\ i - 1 < n
      <4>1. i - 1 \in Nat /\ i \in 1..n /\ met[i - 1] = c[i]
        BY <3>2, <1>1
      <4>2. met[i] = IF i = n THEN BLOCK_NIL ELSE c[i + 1]
        BY <4>1, <1>1
      <4> HIDE DEF met
      <4> QED
        BY <4>1, <4>2, <3>2, <1>1
    <3>3. CASE i # 0 /\ ~ (i - 1 < n)
      <4>1. i - 1 \in Nat /\ met[i - 1] = BLOCK_NIL /\ met[i] = BLOCK_NIL
        BY <3>3, <1>1
      <4> HIDE DEF met
      <4> QED
        BY <4>1, <3>3
    <3> QED
      BY <3>1, <3>2, <3>3
  <2> QED
    BY <2>1
<1>3. g = Body(g)
  BY <1>2 DEF Walk
<1>4. ASSUME {i \in Nat : g[i] # met[i]} # {}
      PROVE  FALSE
  <2> HIDE DEF g, met
  <2>1. PICK i \in Nat : /\ g[i] # met[i]
                         /\ \A j \in Nat : g[j] # met[j] => i <= j
    BY <1>4, SmallestOf
  <2>2. g[i] = Body(g)[i] /\ met[i] = Body(met)[i]
    BY <1>2, <1>3
  <2>3. i # 0
    BY <2>1, <2>2
  <2>4. i - 1 \in Nat /\ g[i - 1] = met[i - 1]
    BY <2>1, <2>3
  <2> QED
    BY <2>1, <2>2, <2>4
<1> QED
  BY <1>4 DEF n

(* Chain lists the blocks in the order of their addresses.                  *)
LEMMA ChainOrdered ==
    ASSUME NEW L, NEW adr, NEW c, L \subseteq Index, Ordered(blk, L, adr, c)
    PROVE  Chain = c
<1> DEFINE n == Len(c)
           met == {i \in 0..BlkCount : Walk[i] # BLOCK_NIL}
<1>1. /\ n \in Nat /\ n >= 1 /\ n = Cardinality(L)
      /\ \A k \in 1..n : c[k] \in Index /\ c[k] # BLOCK_NIL
  <2>1. BLOCK_NIL \notin L
    BY Constants
  <2> QED
    BY <2>1 DEF Ordered
<1>2. c = [k \in 1..n |-> c[k]]
  BY DEF Ordered
<1>3. \A i \in Nat : Walk[i] = IF i < n THEN c[i + 1] ELSE BLOCK_NIL
  BY WalkIs
<1> HIDE DEF n
<1>4. n <= BlkCount
  BY <1>1, FinitelyMany
<1>5. met = 0..(n - 1)
  <2>1. \A i \in Nat : Walk[i] # BLOCK_NIL <=> i < n
    <3> TAKE i \in Nat
    <3>1. CASE i < n
      <4>1. i + 1 \in 1..n
        BY <3>1, <1>1
      <4> QED
        BY <4>1, <3>1, <1>1, <1>3
    <3>2. CASE ~ (i < n)
      BY <3>2, <1>3
    <3> QED
      BY <3>1, <3>2
  <2>2. BlkCount \in Nat
    BY Constants
  <2>3. \A i : i \in met <=> i \in 0..BlkCount /\ i < n
    BY <2>1, <2>2
  <2> HIDE DEF met
  <2>4. \A i : i \in met <=> i \in 0..(n - 1)
    BY <2>2, <2>3, <1>1, <1>4
  <2> QED
    BY <2>4
<1>6. Cardinality(met) = n
  <2> HIDE DEF met
  <2>1. n - 1 \in Nat /\ (n - 1) + 1 = n
    BY <1>1
  <2> QED
    BY <2>1, <1>5, Counted
<1>7. Chain = [k \in 1..n |-> Walk[k - 1]]
  BY <1>6 DEF Chain
<1>8. \A k \in 1..n : Walk[k - 1] = c[k]
  BY <1>1, <1>3
<1> QED
  BY <1>2, <1>7, <1>8

(* The sizes block_base adds up on the way are the address of the block.    *)
LEMMA BaseOrdered ==
    ASSUME NEW L, NEW adr, blk \in [Index -> Block],
           Tiled(blk, L, adr), Linked(blk, L, adr), Ordered(blk, L, adr, Chain)
    PROVE  \A k \in 1..Len(Chain) : Base(k) = adr[Chain[k]]
<1> DEFINE c == Chain
           n == Len(c)
           size(k) == blk[c[k]].size
           Body(f) == [i \in 1..n |-> IF i = 1 THEN 0 ELSE f[i - 1] + size(i - 1)]
           a == [k \in 1..n |-> adr[c[k]]]
           g == CHOOSE f : f = Body(f)
<1>1. /\ n \in Nat /\ n >= 1 /\ c[1] = 0
      /\ \A k \in 1..n : c[k] \in L
      /\ \A k \in 1..n :
            blk[c[k]].next = IF k = n THEN BLOCK_NIL ELSE c[k + 1]
  BY DEF Ordered
<1>2. adr[0] = 0 /\ BLOCK_NIL \notin L
  BY Constants DEF Tiled
<1>3. \A k \in 1..n : Base(k) = g[k]
  BY DEF Base
<1> HIDE DEF n, c
<1>4. \A k \in 1..n : k # n => adr[c[k + 1]] = adr[c[k]] + size(k)
  <2> TAKE k \in 1..n
  <2> HAVE k # n
  <2>1. k + 1 \in 1..n /\ blk[c[k]].next = c[k + 1]
    BY <1>1
  <2> QED
    BY <2>1, <1>1, <1>2 DEF Linked
<1> HIDE DEF size
<1>5. a = Body(a)
  <2>1. \A i \in 1..n : a[i] = Body(a)[i]
    <3> TAKE i \in 1..n
    <3>1. CASE i = 1
      BY <3>1, <1>1, <1>2
    <3>2. CASE i # 1
      <4>1. i - 1 \in 1..n /\ i - 1 # n /\ (i - 1) + 1 = i
        BY <3>2, <1>1
      <4> QED
        BY <4>1, <3>2, <1>4
    <3> QED
      BY <3>1, <3>2
  <2> QED
    BY <2>1
<1>6. g = Body(g)
  <2> HIDE DEF a, Body
  <2> QED
    BY <1>5
<1>7. ASSUME {i \in 1..n : g[i] # a[i]} # {}
      PROVE  FALSE
  <2> HIDE DEF g, a
  <2>1. PICK i \in 1..n : /\ g[i] # a[i]
                          /\ \A j \in 1..n : g[j] # a[j] => i <= j
    <3>1. {i \in 1..n : g[i] # a[i]} \subseteq Nat
      BY <1>1
    <3> QED
      BY <3>1, <1>7, SmallestOf
  <2>2. g[i] = Body(g)[i] /\ a[i] = Body(a)[i]
    BY <1>5, <1>6
  <2>3. i # 1
    BY <2>1, <2>2
  <2>4. i - 1 \in 1..n /\ g[i - 1] = a[i - 1]
    BY <2>1, <2>3, <1>1
  <2> QED
    BY <2>1, <2>2, <2>4
<1>8. \A k \in 1..n : g[k] = adr[c[k]]
  <2> HIDE DEF g
  <2> QED
    BY <1>7
<1> HIDE DEF g
<1> QED
  BY <1>3, <1>8 DEF n, c

(* The loops over the list meet the blocks of a layout in order, at their   *)
(* addresses.                                                               *)
LEMMA ChainIs ==
    ASSUME NEW L, NEW adr, blk \in [Index -> Block],
           Tiled(blk, L, adr), Linked(blk, L, adr)
    PROVE  /\ Ordered(blk, L, adr, Chain)
           /\ \A k \in 1..Len(Chain) : Base(k) = adr[Chain[k]]
<1>1. PICK c : Ordered(blk, L, adr, c)
  BY Enumerated
<1>2. L \subseteq Index
  BY DEF Tiled
<1>3. Chain = c
  BY <1>1, <1>2, ChainOrdered
<1> QED
  BY <1>1, <1>3, BaseOrdered

-----------------------------------------------------------------------------
(* A block takes over the one behind it.                                    *)

(* What the merge of try_coalesce does to every field.                      *)
LEMMA AbsorbIs ==
    ASSUME NEW b \in [Index -> Block], NEW i \in Index, NEW gone \in Index,
           b[i].next = gone, b[i].size + b[gone].size <= MaxUnits
    PROVE  /\ Absorb(b, i) \in [Index -> Block]
           /\ \A x \in Index :
                 LET d == Absorb(b, i)[x]
                 IN  /\ d.occupied = b[x].occupied
                     /\ d.size = b[x].size + (IF x = i THEN b[gone].size ELSE 0)
                     /\ d.next = IF x = i THEN b[gone].next ELSE b[x].next
                     /\ d.prev = IF x = b[gone].next THEN i ELSE b[x].prev
<1> DEFINE after == b[gone].next
           grown == [b EXCEPT ![i].size = @ + b[gone].size, ![i].next = after]
           d == Absorb(b, i)
<1>1. /\ \A x \in Index : b[x] \in Block
      /\ after \in Index \cup {BLOCK_NIL}
  BY DEF Block
<1>2. d = IF after = BLOCK_NIL THEN grown ELSE [grown EXCEPT ![after].prev = i]
  BY DEF Absorb
<1>3. \A x \in Index : /\ b[x].size \in Nat /\ b[x].size <= MaxUnits
                       /\ b[x].occupied \in BOOLEAN
                       /\ b[x].prev \in Index \cup {BLOCK_NIL}
                       /\ b[x].next \in Index \cup {BLOCK_NIL}
  BY <1>1, BlockFields
<1>4. b[i].size + b[gone].size \in 0..MaxUnits
  <2>1. \A m, s, t \in Nat : s + t <= m => s + t \in 0..m
    OBVIOUS
  <2>2. MaxUnits \in Nat /\ b[i].size \in Nat /\ b[gone].size \in Nat
    BY <1>3, Constants
  <2> QED
    BY <2>1, <2>2, Zenon
<1> HIDE DEF after
<1>5. /\ grown \in [Index -> Block]
      /\ \A x \in Index :
            /\ grown[x].occupied = b[x].occupied
            /\ grown[x].size = b[x].size + (IF x = i THEN b[gone].size ELSE 0)
            /\ grown[x].next = IF x = i THEN after ELSE b[x].next
            /\ grown[x].prev = b[x].prev
  <2>1. \A x \in Index : grown[x] =
           IF x = i THEN [b[i] EXCEPT !.size = b[i].size + b[gone].size,
                                      !.next = after]
                    ELSE b[x]
    BY <1>1
  <2>2. \A x \in Index : grown[x] \in Block
    <3> TAKE x \in Index
    <3>1. CASE x # i
      BY <3>1, <2>1, <1>1
    <3>2. CASE x = i
      <4>1. grown[i] = [size |-> b[i].size + b[gone].size,
                        occupied |-> b[i].occupied,
                        prev |-> b[i].prev, next |-> after]
        BY <2>1, <1>1 DEF Block
      <4>2. after \in Index \cup {BLOCK_NIL}
        BY <1>1
      <4> HIDE DEF grown
      <4> QED
        BY <3>2, <4>1, <4>2, <1>3, <1>4 DEF Block
    <3> QED
      BY <3>1, <3>2
  <2>3. \A x \in Index :
            /\ grown[x].occupied = b[x].occupied
            /\ grown[x].size = b[x].size + (IF x = i THEN b[gone].size ELSE 0)
            /\ grown[x].next = IF x = i THEN after ELSE b[x].next
            /\ grown[x].prev = b[x].prev
    BY <2>1, <1>1, <1>3 DEF Block
  <2> QED
    BY <2>2, <2>3
<1> HIDE DEF grown, d
<1>6. CASE after = BLOCK_NIL
  <2>1. d = grown /\ \A x \in Index : x # after
    BY <1>2, <1>6, Constants
  <2> QED
    BY <2>1, <1>5 DEF d, after
<1>7. CASE after # BLOCK_NIL
  <2>1. d = [grown EXCEPT ![after].prev = i] /\ after \in Index
    BY <1>1, <1>2, <1>7
  <2>2. \A x \in Index : /\ grown[x] \in Block
                         /\ d[x] = IF x = after THEN [grown[x] EXCEPT !.prev = i]
                                                ELSE grown[x]
    BY <2>1, <1>5
  <2>3. \A x \in Index : d[x] \in Block
    BY <2>2 DEF Block
  <2>4. \A x \in Index :
            /\ d[x].occupied = grown[x].occupied
            /\ d[x].size = grown[x].size
            /\ d[x].next = grown[x].next
            /\ d[x].prev = IF x = after THEN i ELSE grown[x].prev
    BY <2>2 DEF Block
  <2>5. d \in [Index -> Block]
    BY <2>1, <2>3, <1>5
  <2> QED
    BY <2>4, <2>5, <1>5 DEF d, after
<1> QED
  BY <1>6, <1>7

(* What every block of a heap has. *)
LEMMA TileFacts ==
    ASSUME NEW b, NEW L, NEW adr, b \in [Index -> Block], Tiled(b, L, adr)
    PROVE  /\ L \subseteq Index /\ 0 \in L /\ adr \in [Index -> Nat] /\ adr[0] = 0
           /\ \A i \in L : /\ i \in Index /\ adr[i] \in Nat /\ b[i].size \in Nat
                           /\ b[i].size >= 1 /\ adr[i] + b[i].size <= Total
                           /\ b[i].size <= MaxUnits
                           /\ b[i].occupied \in BOOLEAN
           /\ \A i, j \in L : \/ i = j \/ adr[i] + b[i].size <= adr[j]
                              \/ adr[j] + b[j].size <= adr[i]
           /\ \A x \in 0..(Total - 1) :
                 \E i \in L : adr[i] <= x /\ x < adr[i] + b[i].size
<1>1. \A i \in Index : b[i] \in Block
  OBVIOUS
<1> QED
  BY <1>1, BlockFields DEF Tiled

(* The links of a layout, one neighbour at a time.                          *)
LEMMA LinkFacts ==
    ASSUME NEW b, NEW L, NEW adr, Tiled(b, L, adr), Linked(b, L, adr),
           b \in [Index -> Block]
    PROVE  /\ b[0].prev = BLOCK_NIL /\ BLOCK_NIL \notin L
           /\ \A i \in L : /\ b[i].next \in L \cup {BLOCK_NIL}
                           /\ b[i].next = BLOCK_NIL <=> adr[i] + b[i].size = Total
                           /\ b[i].next \in L => /\ adr[b[i].next] = adr[i] + b[i].size
                                                 /\ b[b[i].next].prev = i
           /\ \A i \in L \ {0} : b[i].prev \in L /\ b[b[i].prev].next = i
<1>1. BLOCK_NIL \notin L
  BY Constants DEF Tiled
<1>2. \A i \in L : IF adr[i] + b[i].size = Total THEN b[i].next = BLOCK_NIL
                   ELSE /\ b[i].next \in L /\ adr[b[i].next] = adr[i] + b[i].size
                        /\ b[b[i].next].prev = i
  BY DEF Linked
<1>3. /\ b[0].prev = BLOCK_NIL
      /\ \A i \in L \ {0} : b[i].prev \in L /\ b[b[i].prev].next = i
  BY DEF Linked
<1> QED
  BY <1>1, <1>2, <1>3

(* What comes of it, when both were free. *)
MergeOf(b, L, adr, u, i, gone, d) ==
    /\ d \in [Index -> Block]
    /\ Tiled(d, L \ {gone}, adr) /\ Linked(d, L \ {gone}, adr)
    /\ Spare(L \ {gone}, Append(u, gone))
    /\ Held(d, L \ {gone}, adr) = Held(b, L, adr)
    /\ i # gone /\ b[gone].next # gone /\ b[gone].next # i
    /\ \A x \in Index : /\ d[x].occupied = b[x].occupied
                        /\ d[x].next = IF x = i THEN b[gone].next ELSE b[x].next

(* A block that absorbs the free one behind it leaves a layout of one block *)
(* less.                                                                    *)
LEMMA MergeKeeps ==
    ASSUME NEW b \in [Index -> Block], NEW L, NEW adr, NEW u,
           Tiled(b, L, adr), Linked(b, L, adr), Spare(L, u),
           NEW i \in L, NEW gone \in L, b[i].next = gone,
           ~ b[i].occupied, ~ b[gone].occupied,
           NEW d, d = Absorb(b, i)
    PROVE  MergeOf(b, L, adr, u, i, gone, d)
<1> DEFINE M == L \ {gone}
           after == b[gone].next
<1>1. /\ L \subseteq Index /\ 0 \in L /\ adr \in [Index -> Nat] /\ adr[0] = 0
      /\ \A x \in L : /\ x \in Index /\ adr[x] \in Nat /\ b[x].size \in Nat
                      /\ b[x].size >= 1 /\ adr[x] + b[x].size <= Total
                      /\ b[x].occupied \in BOOLEAN
      /\ \A x, y \in L : \/ x = y \/ adr[x] + b[x].size <= adr[y]
                         \/ adr[y] + b[y].size <= adr[x]
  BY TileFacts
<1>2. /\ b[0].prev = BLOCK_NIL /\ BLOCK_NIL \notin L
      /\ \A x \in L : /\ b[x].next \in L \cup {BLOCK_NIL}
                      /\ b[x].next = BLOCK_NIL <=> adr[x] + b[x].size = Total
                      /\ b[x].next \in L => /\ adr[b[x].next] = adr[x] + b[x].size
                                            /\ b[b[x].next].prev = x
      /\ \A x \in L \ {0} : b[x].prev \in L /\ b[b[x].prev].next = x
  BY LinkFacts
<1>3. /\ adr[gone] = adr[i] + b[i].size /\ b[gone].prev = i
      /\ after \in L => /\ adr[after] = adr[gone] + b[gone].size
                        /\ b[after].prev = gone
      /\ after \in L \cup {BLOCK_NIL}
      /\ after = BLOCK_NIL <=> adr[gone] + b[gone].size = Total
  BY <1>2
<1>4. /\ i # gone /\ gone # 0 /\ after # gone /\ after # i /\ after # 0
      /\ b[i].size + b[gone].size <= MaxUnits
  <2>1. /\ adr[i] \in Nat /\ b[i].size \in Nat /\ b[i].size >= 1
        /\ adr[gone] \in Nat /\ b[gone].size \in Nat /\ b[gone].size >= 1
        /\ adr[gone] + b[gone].size <= Total
    BY <1>1
  <2>2. Total \in Nat /\ MaxUnits \in Nat /\ Total <= MaxUnits
    BY Constants
  <2>3. i # gone /\ gone # 0 /\ b[i].size + b[gone].size <= MaxUnits
    BY <2>1, <2>2, <1>1, <1>3
  <2>4. after # gone /\ after # i /\ after # 0
    BY <2>1, <1>1, <1>2, <1>3
  <2> QED
    BY <2>3, <2>4
<1>5. /\ d \in [Index -> Block]
      /\ \A x \in Index :
            /\ d[x].occupied = b[x].occupied
            /\ d[x].size = b[x].size + (IF x = i THEN b[gone].size ELSE 0)
            /\ d[x].next = IF x = i THEN after ELSE b[x].next
            /\ d[x].prev = IF x = after THEN i ELSE b[x].prev
  BY <1>1, <1>4, AbsorbIs
<1>6. \A x \in M : d[x].size = IF x = i THEN b[i].size + b[gone].size ELSE b[x].size
  BY <1>1, <1>5
<1> HIDE DEF after
<1>7. Tiled(d, M, adr)
  <2>1. M \subseteq Index /\ 0 \in M
    BY <1>1, <1>4
  <2>2. \A x \in M : d[x].size >= 1 /\ adr[x] + d[x].size <= Total
    BY <1>1, <1>3, <1>4, <1>6
  <2>3. \A x, y \in M : \/ x = y \/ adr[x] + d[x].size <= adr[y]
                        \/ adr[y] + d[y].size <= adr[x]
    <3> TAKE x, y \in M
    <3>1. /\ adr[x] \in Nat /\ b[x].size \in Nat /\ b[x].size >= 1
          /\ adr[y] \in Nat /\ b[y].size \in Nat /\ b[y].size >= 1
          /\ adr[i] \in Nat /\ b[i].size \in Nat /\ b[i].size >= 1
          /\ adr[gone] \in Nat /\ b[gone].size \in Nat /\ b[gone].size >= 1
      BY <1>1
    <3>2. \/ x = y \/ adr[x] + b[x].size <= adr[y] \/ adr[y] + b[y].size <= adr[x]
      BY <1>1
    <3>3. /\ adr[x] + b[x].size <= adr[gone] \/ adr[gone] + b[gone].size <= adr[x]
          /\ adr[y] + b[y].size <= adr[gone] \/ adr[gone] + b[gone].size <= adr[y]
      BY <1>1
    <3>4. /\ d[x].size = IF x = i THEN b[i].size + b[gone].size ELSE b[x].size
          /\ d[y].size = IF y = i THEN b[i].size + b[gone].size ELSE b[y].size
      BY <1>6
    <3> QED
      BY <3>1, <3>2, <3>3, <3>4, <1>3
  <2>4. ASSUME NEW z \in 0..(Total - 1)
        PROVE  \E x \in M : adr[x] <= z /\ z < adr[x] + d[x].size
    <3>1. PICK x \in L : adr[x] <= z /\ z < adr[x] + b[x].size
      BY TileFacts
    <3>2. z \in Nat /\ i \in M
      BY Constants, <1>4
    <3>3. CASE x = gone
      BY <3>1, <3>2, <3>3, <1>1, <1>3, <1>6
    <3>4. CASE x # gone
      <4>1. adr[x] + b[x].size <= adr[x] + d[x].size
        BY <3>4, <1>1, <1>6
      <4> QED
        BY <3>1, <3>2, <3>4, <4>1, <1>1, <1>6
    <3> QED
      BY <3>3, <3>4
  <2> QED
    BY <2>1, <2>2, <2>3, <2>4, <1>1 DEF Tiled
<1>8. Linked(d, M, adr)
  <2>1. d[0].prev = BLOCK_NIL
    BY <1>1, <1>2, <1>4, <1>5
  <2>2. ASSUME NEW x \in M
        PROVE  IF adr[x] + d[x].size = Total THEN d[x].next = BLOCK_NIL
               ELSE /\ d[x].next \in M /\ adr[d[x].next] = adr[x] + d[x].size
                    /\ d[d[x].next].prev = x
    <3>1. CASE x = i
      <4>1. d[x].next = after /\ adr[x] + d[x].size = adr[gone] + b[gone].size
        BY <3>1, <1>1, <1>3, <1>5, <1>6
      <4>2. after \in L => d[after].prev = i
        BY <1>1, <1>5
      <4> QED
        BY <3>1, <4>1, <4>2, <1>3, <1>4
    <3>2. CASE x # i
      <4>1. d[x].next = b[x].next /\ d[x].size = b[x].size
        BY <3>2, <1>1, <1>5, <1>6
      <4>2. b[x].next \in L => /\ b[x].next \in M /\ b[x].next # after
                               /\ d[b[x].next].prev = x
        BY <3>2, <1>1, <1>2, <1>3, <1>5
      <4> QED
        BY <4>1, <4>2, <1>2
    <3> QED
      BY <3>1, <3>2
  <2>3. ASSUME NEW x \in M \ {0}
        PROVE  d[x].prev \in M /\ d[d[x].prev].next = x
    <3>1. CASE x = after
      BY <3>1, <1>1, <1>4, <1>5
    <3>2. CASE x # after
      <4>1. d[x].prev = b[x].prev /\ b[x].prev \in L /\ b[b[x].prev].next = x
        BY <3>2, <1>1, <1>2, <1>5
      <4>2. b[x].prev # gone /\ b[x].prev # i
        BY <3>2, <4>1 DEF after
      <4> QED
        BY <4>1, <4>2, <1>1, <1>5
    <3> QED
      BY <3>1, <3>2
  <2> QED
    BY <2>1, <2>2, <2>3 DEF Linked
<1>9. Held(d, M, adr) = Held(b, L, adr)
  <2>1. {x \in M : d[x].occupied} = {x \in L : b[x].occupied}
    BY <1>1, <1>5
  <2>2. \A x \in {y \in L : b[y].occupied} : d[x].size = b[x].size
    BY <1>5, <1>6
  <2> QED
    BY <2>1, <2>2 DEF Held
<1>10. Spare(M, Append(u, gone))
  <2> DEFINE v == Append(u, gone)
             m == Len(u)
  <2>1. /\ u \in Seq(Index) /\ m \in Nat /\ Cardinality(L) + m = BlkCount
        /\ \A j, l \in 1..m : u[j] = u[l] => j = l
        /\ \A l \in 1..m : u[l] \notin L
        /\ \A x \in Index \ L : \E l \in 1..m : u[l] = x
    BY DEF Spare
  <2>2. /\ v \in Seq(Index) /\ Len(v) = m + 1 /\ v[m + 1] = gone
        /\ \A l \in 1..m : v[l] = u[l]
    BY <2>1, <1>1
  <2> HIDE DEF v, m
  <2>3. \A l \in 1..(m + 1) : l \in 1..m \/ l = m + 1
    BY <2>1
  <2>4. \A j, l \in 1..(m + 1) : v[j] = v[l] => j = l
    BY <2>1, <2>2, <2>3
  <2>5. \A l \in 1..(m + 1) : v[l] \notin M
    BY <2>1, <2>2, <2>3
  <2>6. \A x \in Index \ M : \E l \in 1..(m + 1) : v[l] = x
    <3> TAKE x \in Index \ M
    <3>1. m + 1 \in 1..(m + 1) /\ \A l \in 1..m : l \in 1..(m + 1)
      BY <2>1
    <3> QED
      BY <3>1, <2>1, <2>2
  <2>7. Cardinality(M) + (m + 1) = BlkCount
    <3>1. Cardinality(M) = Cardinality(L) - 1 /\ Cardinality(L) \in Nat
      BY <1>1, FinitelyMany, FS_RemoveElement
    <3> QED
      BY <3>1, <2>1
  <2> QED
    BY <2>2, <2>4, <2>5, <2>6, <2>7 DEF Spare, v
<1> QED
  BY <1>4, <1>5, <1>7, <1>8, <1>9, <1>10 DEF MergeOf, after

-----------------------------------------------------------------------------
(* A block is cut in two: the first part is occupied, the rest gets the     *)
(* descriptor on top of the stack.                                          *)

Cut(b, cur, new, n) ==
    LET split == [b EXCEPT
            ![new] = [size |-> b[cur].size - n, occupied |-> FALSE,
                      prev |-> cur, next |-> b[cur].next],
            ![cur] = [size |-> n, occupied |-> TRUE,
                      prev |-> b[cur].prev, next |-> new]]
    IN  IF b[cur].next = BLOCK_NIL THEN split
        ELSE [split EXCEPT ![b[cur].next].prev = new]

(* What the split of heap_alloc does to every field.                        *)
LEMMA CutIs ==
    ASSUME NEW b \in [Index -> Block], NEW cur \in Index, NEW new \in Index,
           NEW n \in Nat, cur # new, n <= b[cur].size, b[cur].next # new
    PROVE  /\ Cut(b, cur, new, n) \in [Index -> Block]
           /\ \A x \in Index :
                 LET d == Cut(b, cur, new, n)[x]
                 IN  /\ d.occupied = IF x = new THEN FALSE
                                     ELSE IF x = cur THEN TRUE ELSE b[x].occupied
                     /\ d.size = IF x = new THEN b[cur].size - n
                                 ELSE IF x = cur THEN n ELSE b[x].size
                     /\ d.next = IF x = new THEN b[cur].next
                                 ELSE IF x = cur THEN new ELSE b[x].next
                     /\ d.prev = IF x = new THEN cur
                                 ELSE IF x = b[cur].next THEN new ELSE b[x].prev
<1> DEFINE rest == b[cur].next
           upper == [size |-> b[cur].size - n, occupied |-> FALSE,
                     prev |-> cur, next |-> rest]
           lower == [size |-> n, occupied |-> TRUE,
                     prev |-> b[cur].prev, next |-> new]
           split == [b EXCEPT ![new] = upper, ![cur] = lower]
           d == Cut(b, cur, new, n)
<1>1. \A x \in Index : b[x] \in Block
  OBVIOUS
<1>2. \A x \in Index : /\ b[x].size \in Nat /\ b[x].size <= MaxUnits
                       /\ b[x].occupied \in BOOLEAN
                       /\ b[x].prev \in Index \cup {BLOCK_NIL}
                       /\ b[x].next \in Index \cup {BLOCK_NIL}
  BY <1>1, BlockFields
<1>3. d = IF rest = BLOCK_NIL THEN split ELSE [split EXCEPT ![rest].prev = new]
  BY DEF Cut
<1>4. b[cur].size - n \in 0..MaxUnits /\ n \in 0..MaxUnits
  <2>1. \A m, s \in Nat : s <= m /\ n <= s => s - n \in 0..m /\ n \in 0..m
    OBVIOUS
  <2>2. MaxUnits \in Nat /\ b[cur].size \in Nat /\ b[cur].size <= MaxUnits
    BY <1>2, Constants
  <2>3. n <= b[cur].size
    OBVIOUS
  <2> QED
    BY <2>1, <2>2, <2>3, Zenon
<1>5. upper \in Block /\ lower \in Block
  BY <1>2, <1>4 DEF Block
<1> HIDE DEF upper, lower
<1>6. /\ split \in [Index -> Block]
      /\ \A x \in Index : split[x] = IF x = cur THEN lower
                                     ELSE IF x = new THEN upper ELSE b[x]
  <2>1. \A x \in Index : split[x] = IF x = cur THEN lower
                                    ELSE IF x = new THEN upper ELSE b[x]
    BY <1>1
  <2>2. \A x \in Index : split[x] \in Block
    BY <2>1, <1>1, <1>5
  <2> QED
    BY <2>1, <2>2
<1> HIDE DEF split, d
<1>7. \A x \in Index :
         /\ split[x].occupied = IF x = new THEN FALSE
                                ELSE IF x = cur THEN TRUE ELSE b[x].occupied
         /\ split[x].size = IF x = new THEN b[cur].size - n
                            ELSE IF x = cur THEN n ELSE b[x].size
         /\ split[x].next = IF x = new THEN rest
                            ELSE IF x = cur THEN new ELSE b[x].next
         /\ split[x].prev = IF x = new THEN cur ELSE b[x].prev
  <2>1. /\ upper.occupied = FALSE /\ upper.size = b[cur].size - n
        /\ upper.prev = cur /\ upper.next = rest
        /\ lower.occupied = TRUE /\ lower.size = n
        /\ lower.prev = b[cur].prev /\ lower.next = new
    BY DEF upper, lower
  <2> QED
    BY <2>1, <1>6
<1>8. CASE rest = BLOCK_NIL
  <2>1. d = split /\ \A x \in Index : x # rest
    BY <1>3, <1>8, Constants
  <2> QED
    BY <2>1, <1>6, <1>7 DEF d
<1>9. CASE rest # BLOCK_NIL
  <2>1. d = [split EXCEPT ![rest].prev = new] /\ rest \in Index /\ rest # new
    BY <1>2, <1>3, <1>9
  <2>2. \A x \in Index : /\ split[x] \in Block
                         /\ d[x] = IF x = rest THEN [split[x] EXCEPT !.prev = new]
                                               ELSE split[x]
    BY <2>1, <1>6
  <2>3. \A x \in Index : d[x] \in Block
    BY <2>2 DEF Block
  <2>4. \A x \in Index :
            /\ d[x].occupied = split[x].occupied
            /\ d[x].size = split[x].size
            /\ d[x].next = split[x].next
            /\ d[x].prev = IF x = rest THEN new ELSE split[x].prev
    <3>1. \A r \in Block :
             /\ [r EXCEPT !.prev = new].occupied = r.occupied
             /\ [r EXCEPT !.prev = new].size = r.size
             /\ [r EXCEPT !.prev = new].next = r.next
             /\ [r EXCEPT !.prev = new].prev = new
      BY DEF Block
    <3> TAKE x \in Index
    <3>2. d[x] = IF x = rest THEN [split[x] EXCEPT !.prev = new] ELSE split[x]
      BY <2>2
    <3>3. split[x] \in Block
      BY <2>2
    <3> HIDE DEF rest, Block
    <3> QED
      BY <3>1, <3>2, <3>3
  <2>5. d \in [Index -> Block]
    BY <2>1, <2>3, <1>6
  <2>6. \A x \in Index :
            /\ d[x].occupied = IF x = new THEN FALSE
                               ELSE IF x = cur THEN TRUE ELSE b[x].occupied
            /\ d[x].size = IF x = new THEN b[cur].size - n
                           ELSE IF x = cur THEN n ELSE b[x].size
            /\ d[x].next = IF x = new THEN rest
                           ELSE IF x = cur THEN new ELSE b[x].next
            /\ d[x].prev = IF x = new THEN cur
                           ELSE IF x = rest THEN new ELSE b[x].prev
    <3> TAKE x \in Index
    <3> HIDE DEF rest
    <3>1. d[x].occupied = split[x].occupied /\ d[x].size = split[x].size
          /\ d[x].next = split[x].next
          /\ d[x].prev = IF x = rest THEN new ELSE split[x].prev
      BY <2>4, Zenon
    <3>2. d[x].prev = IF x = new THEN cur
                      ELSE IF x = rest THEN new ELSE b[x].prev
      BY <2>1, <3>1, <1>7
    <3> QED
      BY <3>1, <3>2, <1>7
  <2> QED
    BY <2>5, <2>6 DEF d
<1> QED
  BY <1>8, <1>9

CutOf(b, L, adr, u, cur, n, d, M, e) ==
    /\ d \in [Index -> Block] /\ Tiled(d, M, e) /\ Linked(d, M, e)
    /\ Apart(d, M) /\ Spare(M, Front(u))
    /\ Held(d, M, e) = Held(b, L, adr) \cup {[addr |-> adr[cur], size |-> n]}

(* A block that is split leaves a layout of one block more.                 *)
LEMMA CutKeeps ==
    ASSUME NEW b \in [Index -> Block], NEW L, NEW adr, NEW u,
           Tiled(b, L, adr), Linked(b, L, adr), Apart(b, L), Spare(L, u),
           NEW cur \in L, ~ b[cur].occupied, NEW new, u # <<>>, new = Last(u),
           NEW n \in Nat, n >= 1, n < b[cur].size,
           NEW d, d = Cut(b, cur, new, n),
           NEW M, M = L \cup {new},
           NEW e, e = [adr EXCEPT ![new] = adr[cur] + n]
    PROVE  CutOf(b, L, adr, u, cur, n, d, M, e)
<1> DEFINE rest == b[cur].next
<1>1. /\ L \subseteq Index /\ 0 \in L /\ adr \in [Index -> Nat] /\ adr[0] = 0
      /\ \A x \in L : /\ x \in Index /\ adr[x] \in Nat /\ b[x].size \in Nat
                      /\ b[x].size >= 1 /\ adr[x] + b[x].size <= Total
                      /\ b[x].occupied \in BOOLEAN
      /\ \A x, y \in L : \/ x = y \/ adr[x] + b[x].size <= adr[y]
                         \/ adr[y] + b[y].size <= adr[x]
  BY TileFacts
<1>2. /\ b[0].prev = BLOCK_NIL /\ BLOCK_NIL \notin L
      /\ \A x \in L : /\ b[x].next \in L \cup {BLOCK_NIL}
                      /\ b[x].next = BLOCK_NIL <=> adr[x] + b[x].size = Total
                      /\ b[x].next \in L => /\ adr[b[x].next] = adr[x] + b[x].size
                                            /\ b[b[x].next].prev = x
      /\ \A x \in L \ {0} : b[x].prev \in L /\ b[b[x].prev].next = x
  BY LinkFacts
<1> DEFINE m == Len(u)
<1>3. /\ u \in Seq(Index) /\ m \in Nat /\ m >= 1 /\ Cardinality(L) + m = BlkCount
      /\ \A j, l \in 1..m : u[j] = u[l] => j = l
      /\ \A l \in 1..m : u[l] \in Index /\ u[l] \notin L
      /\ \A x \in Index \ L : \E l \in 1..m : u[l] = x
      /\ new = u[m] /\ m \in 1..m
  BY DEF Spare, Last
<1>4. new \in Index /\ new \notin L /\ new # cur /\ rest # new /\ new # BLOCK_NIL
  BY <1>2, <1>3, Constants
<1>5. /\ d \in [Index -> Block]
      /\ \A x \in Index :
            /\ d[x].occupied = IF x = new THEN FALSE
                               ELSE IF x = cur THEN TRUE ELSE b[x].occupied
            /\ d[x].size = IF x = new THEN b[cur].size - n
                           ELSE IF x = cur THEN n ELSE b[x].size
            /\ d[x].next = IF x = new THEN rest
                           ELSE IF x = cur THEN new ELSE b[x].next
            /\ d[x].prev = IF x = new THEN cur
                           ELSE IF x = rest THEN new ELSE b[x].prev
  BY <1>1, <1>4, CutIs
<1>6. /\ rest \in L \cup {BLOCK_NIL} /\ rest # cur /\ rest # 0
      /\ rest = BLOCK_NIL <=> adr[cur] + b[cur].size = Total
      /\ rest \in L => adr[rest] = adr[cur] + b[cur].size /\ b[rest].prev = cur
  BY <1>1, <1>2
<1>7. /\ e \in [Index -> Nat] /\ e[new] = adr[cur] + n
      /\ \A x \in L : e[x] = adr[x]
      /\ new \in M /\ cur \in M /\ \A x \in M : x \in L \/ x = new
  BY <1>1, <1>4
<1> HIDE DEF rest, m
<1>8. /\ \A x \in L : d[x].size = IF x = cur THEN n ELSE b[x].size
      /\ d[new].size = b[cur].size - n /\ d[new].occupied = FALSE
      /\ d[new].next = rest /\ d[new].prev = cur
      /\ d[cur].occupied = TRUE /\ d[cur].next = new
      /\ \A x \in L : x # cur => d[x].occupied = b[x].occupied
                                 /\ d[x].next = b[x].next
      /\ \A x \in L : d[x].prev = IF x = rest THEN new ELSE b[x].prev
  BY <1>1, <1>4, <1>5
<1>9. Tiled(d, M, e)
  <2>1. M \subseteq Index /\ 0 \in M /\ e[0] = 0
    BY <1>1, <1>4, <1>7
  <2>2. \A x \in M : d[x].size >= 1 /\ e[x] + d[x].size <= Total
    <3>1. /\ adr[cur] \in Nat /\ b[cur].size \in Nat
          /\ adr[cur] + b[cur].size <= Total
      BY <1>1
    <3>2. d[new].size >= 1 /\ e[new] + d[new].size <= Total
      <4>1. d[new].size = b[cur].size - n /\ e[new] = adr[cur] + n
        BY <1>7, <1>8
      <4> QED
        BY <4>1, <3>1
    <3>3. d[cur].size >= 1 /\ e[cur] + d[cur].size <= Total
      BY <3>1, <1>7, <1>8, Constants
    <3>4. ASSUME NEW x \in L, x # cur
          PROVE  d[x].size >= 1 /\ e[x] + d[x].size <= Total
      <4>1. d[x].size = b[x].size /\ e[x] = adr[x]
        BY <3>4, <1>7, <1>8
      <4> QED
        BY <4>1, <1>1
    <3> QED
      BY <3>2, <3>3, <3>4, <1>7
  <2>3. \A x, y \in M : \/ x = y \/ e[x] + d[x].size <= e[y]
                        \/ e[y] + d[y].size <= e[x]
    <3>1. ASSUME NEW x \in L, NEW y \in L
          PROVE  \/ x = y \/ e[x] + d[x].size <= e[y] \/ e[y] + d[y].size <= e[x]
      <4>1. /\ adr[x] \in Nat /\ b[x].size \in Nat
            /\ adr[y] \in Nat /\ b[y].size \in Nat
            /\ \/ x = y \/ adr[x] + b[x].size <= adr[y]
               \/ adr[y] + b[y].size <= adr[x]
        BY <1>1
      <4>2. /\ e[x] = adr[x] /\ d[x].size = IF x = cur THEN n ELSE b[x].size
            /\ e[y] = adr[y] /\ d[y].size = IF y = cur THEN n ELSE b[y].size
        BY <1>7, <1>8
      <4> QED
        BY <4>1, <4>2
    <3>2. ASSUME NEW x \in L
          PROVE  e[x] + d[x].size <= e[new] \/ e[new] + d[new].size <= e[x]
      <4>1. /\ adr[x] \in Nat /\ b[x].size \in Nat /\ b[x].size >= 1
            /\ adr[cur] \in Nat /\ b[cur].size \in Nat
            /\ \/ x = cur \/ adr[x] + b[x].size <= adr[cur]
               \/ adr[cur] + b[cur].size <= adr[x]
        BY <1>1
      <4>2. /\ e[x] = adr[x] /\ d[x].size = IF x = cur THEN n ELSE b[x].size
            /\ e[new] = adr[cur] + n /\ d[new].size = b[cur].size - n
        BY <1>7, <1>8
      <4> QED
        BY <4>1, <4>2
    <3> QED
      BY <3>1, <3>2, <1>7
  <2>4. ASSUME NEW z \in 0..(Total - 1)
        PROVE  \E x \in M : e[x] <= z /\ z < e[x] + d[x].size
    <3>1. PICK x \in L : adr[x] <= z /\ z < adr[x] + b[x].size
      BY TileFacts
    <3>2. z \in Nat /\ x \in M
      BY Constants, <1>7
    <3>3. CASE x # cur
      BY <3>1, <3>2, <3>3, <1>7, <1>8
    <3>4. CASE x = cur
      <4>1. adr[cur] \in Nat /\ b[cur].size \in Nat
        BY <1>1
      <4>2. \/ e[cur] <= z /\ z < e[cur] + d[cur].size
            \/ e[new] <= z /\ z < e[new] + d[new].size
        BY <3>1, <3>2, <3>4, <4>1, <1>7, <1>8
      <4> QED
        BY <4>2, <1>7
    <3> QED
      BY <3>3, <3>4
  <2> QED
    BY <2>1, <2>2, <2>3, <2>4, <1>7 DEF Tiled
<1>10. Linked(d, M, e)
  <2>1. d[0].prev = BLOCK_NIL
    BY <1>1, <1>2, <1>6, <1>8
  <2>2. ASSUME NEW x \in M
        PROVE  IF e[x] + d[x].size = Total THEN d[x].next = BLOCK_NIL
               ELSE /\ d[x].next \in M /\ e[d[x].next] = e[x] + d[x].size
                    /\ d[d[x].next].prev = x
    <3>1. CASE x = new
      <4>1. e[x] + d[x].size = adr[cur] + b[cur].size /\ d[x].next = rest
        BY <3>1, <1>1, <1>7, <1>8
      <4>2. rest \in L => /\ rest \in M /\ e[rest] = adr[cur] + b[cur].size
                          /\ d[rest].prev = new
        BY <1>6, <1>7, <1>8
      <4> QED
        BY <3>1, <4>1, <4>2, <1>6
    <3>2. CASE x = cur
      <4>1. /\ e[x] + d[x].size = e[new] /\ e[x] + d[x].size # Total
            /\ d[x].next = new /\ d[new].prev = cur
        BY <3>2, <1>1, <1>7, <1>8, Constants
      <4> QED
        BY <3>2, <4>1, <1>7
    <3>3. CASE x \in L /\ x # cur
      <4>1. d[x].next = b[x].next /\ e[x] + d[x].size = adr[x] + b[x].size
        BY <3>3, <1>7, <1>8
      <4>2. b[x].next \in L => /\ b[x].next \in M /\ b[x].next # rest
                               /\ e[b[x].next] = adr[b[x].next]
                               /\ d[b[x].next].prev = x
        BY <3>3, <1>2, <1>6, <1>7, <1>8
      <4> QED
        BY <3>3, <4>1, <4>2, <1>2
    <3> QED
      BY <3>1, <3>2, <3>3, <1>7
  <2>3. ASSUME NEW x \in M \ {0}
        PROVE  d[x].prev \in M /\ d[d[x].prev].next = x
    <3>1. CASE x = new
      BY <3>1, <1>7, <1>8
    <3>2. CASE x = rest /\ x # new
      BY <3>2, <1>7, <1>8
    <3>3. CASE x # rest /\ x # new
      <4>1. x \in L /\ d[x].prev = b[x].prev /\ b[x].prev \in L
            /\ b[b[x].prev].next = x
        BY <3>3, <1>2, <1>7, <1>8
      <4>2. b[x].prev # cur
        BY <3>3, <4>1 DEF rest
      <4> QED
        BY <4>1, <4>2, <1>7, <1>8
    <3> QED
      BY <3>1, <3>2, <3>3
  <2> QED
    BY <2>1, <2>2, <2>3 DEF Linked
<1>11. Apart(d, M)
  <2> SUFFICES ASSUME NEW x \in M, d[x].next \in M
               PROVE  d[x].occupied \/ d[d[x].next].occupied
    BY DEF Apart
  <2>1. CASE x = cur
    BY <2>1, <1>8
  <2>2. CASE x = new
    <3>1. rest \in L /\ b[rest].occupied
      <4>1. rest \in L
        BY <2>2, <1>4, <1>7, <1>8
      <4> QED
        BY <4>1 DEF Apart, rest
    <3> QED
      BY <2>2, <3>1, <1>6, <1>8
  <2>3. CASE x \in L /\ x # cur
    <3>1. d[x].next = b[x].next /\ b[x].next \in L
      BY <2>3, <1>2, <1>4, <1>7, <1>8
    <3>2. b[x].occupied \/ b[b[x].next].occupied
      BY <2>3, <3>1 DEF Apart
    <3>3. CASE b[x].occupied
      BY <2>3, <3>3, <1>8
    <3>4. CASE b[b[x].next].occupied
      BY <2>3, <3>1, <3>4, <1>8
    <3> QED
      BY <3>2, <3>3, <3>4
  <2> QED
    BY <2>1, <2>2, <2>3, <1>7
<1>12. Held(d, M, e) = Held(b, L, adr) \cup {[addr |-> adr[cur], size |-> n]}
  <2>1. \A x : x \in M /\ d[x].occupied <=> x = cur \/ (x \in L /\ b[x].occupied)
    BY <1>1, <1>7, <1>8
  <2>2. /\ e[cur] = adr[cur] /\ d[cur].size = n
        /\ \A x \in L : x # cur => e[x] = adr[x] /\ d[x].size = b[x].size
    BY <1>7, <1>8
  <2>3. \A o : o \in Held(d, M, e) <=>
               \E x \in M : d[x].occupied /\ o = [addr |-> e[x], size |-> d[x].size]
    BY DEF Held
  <2>4. \A o : o \in Held(b, L, adr) <=>
               \E x \in L : b[x].occupied /\ o = [addr |-> adr[x], size |-> b[x].size]
    BY DEF Held
  <2>5. ASSUME NEW o
        PROVE  o \in Held(d, M, e)
               <=> o \in Held(b, L, adr) \/ o = [addr |-> adr[cur], size |-> n]
    <3>1. CASE o = [addr |-> adr[cur], size |-> n]
      <4>1. cur \in M /\ d[cur].occupied
        BY <2>1
      <4> QED
        BY <3>1, <4>1, <2>2, <2>3
    <3>2. CASE o # [addr |-> adr[cur], size |-> n]
      <4>1. ASSUME NEW x \in M, d[x].occupied,
                   o = [addr |-> e[x], size |-> d[x].size]
            PROVE  o \in Held(b, L, adr)
        <5>1. x # cur
          BY <4>1, <3>2, <2>2
        <5> QED
          BY <4>1, <5>1, <2>1, <2>2, <2>4
      <4>2. ASSUME NEW x \in L, b[x].occupied,
                   o = [addr |-> adr[x], size |-> b[x].size]
            PROVE  o \in Held(d, M, e)
        <5>1. x # cur /\ x \in M /\ d[x].occupied
          BY <4>2, <2>1
        <5> QED
          BY <4>2, <5>1, <2>2, <2>3
      <4> QED
        BY <3>2, <4>1, <4>2, <2>3, <2>4
    <3> QED
      BY <3>1, <3>2
  <2> QED
    BY <2>5
<1>13. Spare(M, Front(u))
  <2> DEFINE v == Front(u)
  <2>1. v \in Seq(Index) /\ Len(v) = m - 1 /\ \A l \in 1..(m - 1) : v[l] = u[l]
    <3>1. v = [l \in 1..(m - 1) |-> u[l]]
      BY DEF Front, m
    <3>2. \A l \in 1..(m - 1) : u[l] \in Index
      BY <1>3
    <3>3. v \in [1..(m - 1) -> Index] /\ m - 1 \in Nat
      BY <3>1, <3>2, <1>3
    <3> HIDE DEF v
    <3>4. v \in Seq(Index) /\ Len(v) = m - 1
      BY <3>3
    <3> QED
      BY <3>1, <3>4
  <2> HIDE DEF v
  <2>2. \A j, l \in 1..(m - 1) : v[j] = v[l] => j = l
    BY <2>1, <1>3
  <2>3. \A l \in 1..(m - 1) : v[l] \notin M
    <3> TAKE l \in 1..(m - 1)
    <3>1. l \in 1..m /\ l # m /\ v[l] = u[l]
      BY <2>1, <1>3
    <3> QED
      BY <3>1, <1>3, <1>7
  <2>4. \A x \in Index \ M : \E l \in 1..(m - 1) : v[l] = x
    <3> TAKE x \in Index \ M
    <3>1. PICK l \in 1..m : u[l] = x
      BY <1>3
    <3>2. l # m /\ l \in 1..(m - 1)
      BY <3>1, <1>3
    <3> QED
      BY <3>1, <3>2, <2>1
  <2>5. Cardinality(M) + (m - 1) = BlkCount
    <3>1. Cardinality(M) = Cardinality(L) + 1 /\ Cardinality(L) \in Nat
      BY <1>1, <1>4, FinitelyMany, FS_AddElement
    <3> QED
      BY <3>1, <1>3
  <2> QED
    BY <2>1, <2>2, <2>3, <2>4, <2>5 DEF Spare, v
<1> QED
  BY <1>5, <1>9, <1>10, <1>11, <1>12, <1>13 DEF CutOf

-----------------------------------------------------------------------------
(* A block is marked as occupied or as free.                                *)

MarkOf(b, L, adr, i, v, d) ==
    /\ d \in [Index -> Block] /\ Tiled(d, L, adr) /\ Linked(d, L, adr)
    /\ \A x \in Index : /\ d[x].size = b[x].size /\ d[x].next = b[x].next
                        /\ d[x].prev = b[x].prev
                        /\ d[x].occupied = IF x = i THEN v ELSE b[x].occupied

(* A block that changes hands stays where it is.                            *)
LEMMA Marked ==
    ASSUME NEW b \in [Index -> Block], NEW L, NEW adr,
           Tiled(b, L, adr), Linked(b, L, adr), NEW i \in L, NEW v \in BOOLEAN,
           NEW d, d = [b EXCEPT ![i].occupied = v]
    PROVE  MarkOf(b, L, adr, i, v, d)
<1>1. i \in Index /\ L \subseteq Index
  BY DEF Tiled
<1>2. \A x \in Index : b[x] \in Block
  OBVIOUS
<1>3. \A x \in Index : d[x] = IF x = i THEN [b[i] EXCEPT !.occupied = v] ELSE b[x]
  BY <1>1, <1>2
<1>4. \A x \in Index : d[x] \in Block
  BY <1>1, <1>2, <1>3 DEF Block
<1>5. \A x \in Index : /\ d[x].size = b[x].size /\ d[x].next = b[x].next
                       /\ d[x].prev = b[x].prev
                       /\ d[x].occupied = IF x = i THEN v ELSE b[x].occupied
  BY <1>1, <1>2, <1>3 DEF Block
<1>6. d \in [Index -> Block]
  BY <1>4
<1>7. Tiled(d, L, adr)
  BY <1>1, <1>5 DEF Tiled
<1>8. Linked(d, L, adr)
  <2>1. 0 \in Index
    BY Constants
  <2>2. \A x \in L : b[x].next \in L => d[b[x].next].prev = b[b[x].next].prev
    BY <1>1, <1>5
  <2>3. \A x \in L : b[x].prev \in L => d[b[x].prev].next = b[b[x].prev].next
    BY <1>1, <1>5
  <2> QED
    BY <1>1, <1>5, <2>1, <2>2, <2>3 DEF Linked
<1> QED
  BY <1>5, <1>6, <1>7, <1>8 DEF MarkOf

-----------------------------------------------------------------------------
(* try_coalesce, one half after the other, on a block that was just freed.  *)

(* Two free blocks are neighbours only where one of them is i. *)
ApartBut(b, L, i) ==
    \A x \in L : b[x].next \in L =>
        b[x].occupied \/ b[b[x].next].occupied \/ x = i \/ b[x].next = i

(* The stack of unused descriptors with none or one more.                   *)
LEMMA Longer ==
    ASSUME NEW u \in Seq(Index), NEW x \in Index
    PROVE  u \o <<>> = u /\ u \o <<x>> = Append(u, x)
OBVIOUS

RightOf(b, L, adr, i, d, w) ==
    \E M : /\ d \in [Index -> Block]
           /\ Tiled(d, M, adr) /\ Linked(d, M, adr) /\ Spare(M, w)
           /\ Held(d, M, adr) = Held(b, L, adr)
           /\ i \in M /\ ~ d[i].occupied /\ ApartBut(d, M, i)
           /\ d[i].next \in M => d[d[i].next].occupied

LeftOf(b, L, adr, d, w) ==
    \E M : /\ d \in [Index -> Block]
           /\ Tiled(d, M, adr) /\ Linked(d, M, adr) /\ Spare(M, w)
           /\ Held(d, M, adr) = Held(b, L, adr) /\ Apart(d, M)

(* The first half of try_coalesce: afterwards no two free blocks touch, but  *)
(* perhaps the freed one and the one before it.                             *)
LEMMA MergeRight ==
    ASSUME NEW b \in [Index -> Block], NEW L, NEW adr, NEW u,
           Tiled(b, L, adr), Linked(b, L, adr), Spare(L, u),
           NEW i \in L, ~ b[i].occupied, ApartBut(b, L, i),
           NEW d, d = IF IsFree(b, b[i].next) THEN Absorb(b, i) ELSE b,
           NEW w, w = u \o (IF IsFree(b, b[i].next) THEN <<b[i].next>> ELSE <<>>)
    PROVE  RightOf(b, L, adr, i, d, w)
<1> DEFINE gone == b[i].next
<1>1. L \subseteq Index /\ u \in Seq(Index) /\ i \in Index
  BY TileFacts DEF Spare
<1>2. gone \in L \cup {BLOCK_NIL} /\ BLOCK_NIL \notin L
  BY LinkFacts
<1> HIDE DEF gone
<1>3. CASE IsFree(b, gone)
  <2>1. gone \in L /\ ~ b[gone].occupied
    BY <1>2, <1>3 DEF IsFree
  <2>2. d = Absorb(b, i) /\ w = Append(u, gone)
    BY <1>1, <1>3, <2>1, Longer DEF gone
  <2> DEFINE M == L \ {gone}
  <2>3. /\ d \in [Index -> Block]
        /\ Tiled(d, M, adr) /\ Linked(d, M, adr) /\ Spare(M, Append(u, gone))
        /\ Held(d, M, adr) = Held(b, L, adr)
        /\ i # gone /\ b[gone].next # gone /\ b[gone].next # i
        /\ \A x \in Index : /\ d[x].occupied = b[x].occupied
                            /\ d[x].next = IF x = i THEN b[gone].next ELSE b[x].next
    <3>1. b[i].next = gone
      BY DEF gone
    <3> HIDE DEF M
    <3>2. MergeOf(b, L, adr, u, i, gone, d)
      BY <2>1, <2>2, <3>1, MergeKeeps
    <3> QED
      BY <3>2 DEF MergeOf, M
  <2>4. i \in M /\ ~ d[i].occupied
    BY <1>1, <2>3
  <2>5. ApartBut(d, M, i)
    BY <1>1, <2>3 DEF ApartBut
  <2>6. d[i].next \in M => d[d[i].next].occupied
    <3>1. d[i].next = b[gone].next
      BY <1>1, <2>3
    <3>2. b[gone].next \in L => b[b[gone].next].occupied
      BY <2>1, <2>3 DEF ApartBut
    <3> QED
      BY <3>1, <3>2, <1>1, <2>3
  <2> QED
    BY <2>2, <2>3, <2>4, <2>5, <2>6 DEF RightOf
<1>4. CASE ~ IsFree(b, gone)
  <2>1. d = b /\ w = u
    BY <1>1, <1>4, Longer DEF gone
  <2>2. gone \in L => b[gone].occupied
    BY <1>2, <1>4 DEF IsFree
  <2> QED
    BY <2>1, <2>2 DEF gone, RightOf
<1> QED
  BY <1>3, <1>4

(* The second half: no two free blocks touch.                               *)
LEMMA MergeLeft ==
    ASSUME NEW b \in [Index -> Block], NEW L, NEW adr, NEW u,
           Tiled(b, L, adr), Linked(b, L, adr), Spare(L, u),
           NEW i \in L, ~ b[i].occupied, ApartBut(b, L, i),
           b[i].next \in L => b[b[i].next].occupied,
           NEW d, d = IF IsFree(b, b[i].prev) THEN Absorb(b, b[i].prev) ELSE b,
           NEW w, w = u \o (IF IsFree(b, b[i].prev) THEN <<i>> ELSE <<>>)
    PROVE  LeftOf(b, L, adr, d, w)
<1> DEFINE low == b[i].prev
<1>1. L \subseteq Index /\ u \in Seq(Index) /\ i \in Index
  BY TileFacts DEF Spare
<1>2. /\ i = 0 => low = BLOCK_NIL
      /\ i # 0 => low \in L /\ b[low].next = i
      /\ BLOCK_NIL \notin L
      /\ \A x \in L : b[x].next \in L => b[b[x].next].prev = x
  BY LinkFacts
<1> HIDE DEF low
<1>3. CASE IsFree(b, low)
  <2>1. low \in L /\ b[low].next = i /\ ~ b[low].occupied
    BY <1>2, <1>3 DEF IsFree
  <2>2. d = Absorb(b, low) /\ w = Append(u, i)
    BY <1>1, <1>3, Longer DEF low
  <2> DEFINE M == L \ {i}
  <2>3. /\ d \in [Index -> Block]
        /\ Tiled(d, M, adr) /\ Linked(d, M, adr) /\ Spare(M, Append(u, i))
        /\ Held(d, M, adr) = Held(b, L, adr) /\ b[i].next # i /\ low # i
        /\ \A x \in Index : /\ d[x].occupied = b[x].occupied
                            /\ d[x].next = IF x = low THEN b[i].next ELSE b[x].next
    <3> HIDE DEF M
    <3>1. MergeOf(b, L, adr, u, low, i, d)
      BY <2>1, <2>2, MergeKeeps
    <3> QED
      BY <3>1 DEF MergeOf, M
  <2>4. Apart(d, M)
    <3> SUFFICES ASSUME NEW x \in M, d[x].next \in M
                 PROVE  d[x].occupied \/ d[d[x].next].occupied
      BY DEF Apart
    <3>1. CASE x = low
      BY <3>1, <1>1, <2>1, <2>3
    <3>2. CASE x # low
      <4>1. d[x].next = b[x].next /\ b[x].next \in L /\ b[x].next # i
        BY <3>2, <1>1, <2>3
      <4>2. b[x].occupied \/ b[b[x].next].occupied
        BY <4>1 DEF ApartBut
      <4> QED
        BY <4>1, <4>2, <1>1, <2>3
    <3> QED
      BY <3>1, <3>2
  <2> QED
    BY <2>2, <2>3, <2>4 DEF LeftOf
<1>4. CASE ~ IsFree(b, low)
  <2>1. d = b /\ w = u
    BY <1>1, <1>4, Longer DEF low
  <2>2. low \in L => b[low].occupied
    BY <1>2, <1>4 DEF IsFree
  <2>3. Apart(b, L)
    <3> SUFFICES ASSUME NEW x \in L, b[x].next \in L
                 PROVE  b[x].occupied \/ b[b[x].next].occupied
      BY DEF Apart
    <3>1. CASE b[x].next = i
      BY <3>1, <1>2, <2>2 DEF low
    <3>2. CASE x = i
      BY <3>2
    <3>3. CASE x # i /\ b[x].next # i
      BY <3>3 DEF ApartBut
    <3> QED
      BY <3>1, <3>2, <3>3
  <2> QED
    BY <2>1, <2>3 DEF LeftOf
<1> QED
  BY <1>3, <1>4

-----------------------------------------------------------------------------
(* The invariant.                                                           *)

(* heap_init makes one free block of the whole heap.                        *)
LEMMA InitLayout == Init => IInv
<1> SUFFICES ASSUME Init PROVE IInv
  OBVIOUS
<1> DEFINE adr == [i \in Index |-> 0]
           L == {0}
           first == [size |-> Total, occupied |-> FALSE,
                     prev |-> BLOCK_NIL, next |-> BLOCK_NIL]
           zero == [size |-> 0, occupied |-> FALSE, prev |-> 0, next |-> 0]
<1>1. 0 \in Index /\ Total \in Nat /\ Total >= 1 /\ BLOCK_NIL \notin Index
  BY Constants
<1>2. first \in Block /\ zero \in Block
  <2>1. Total \in 0..MaxUnits /\ 0 \in 0..MaxUnits
    <3>1. Total \in Nat /\ Total <= MaxUnits /\ MaxUnits \in Nat
      BY Constants
    <3> QED
      BY <3>1
  <2>2. \A s \in 0..MaxUnits, p \in Index \cup {BLOCK_NIL} :
           [size |-> s, occupied |-> FALSE, prev |-> p, next |-> p] \in Block
    BY DEF Block
  <2> QED
    BY <1>1, <2>1, <2>2
<1>3. \A i \in Index : blk[i] = IF i = 0 THEN first ELSE zero
  BY DEF Init
<1>4. blk \in [Index -> Block] /\ blk[0] = first
  <2>1. \A i \in Index : (IF i = 0 THEN first ELSE zero) \in Block
    BY <1>2
  <2>2. blk = [i \in Index |-> blk[i]]
    BY DEF Init
  <2> HIDE DEF first, zero
  <2> QED
    BY <1>1, <1>3, <2>1, <2>2
<1>5. /\ blk[0].size = Total /\ blk[0].occupied = FALSE
      /\ blk[0].prev = BLOCK_NIL /\ blk[0].next = BLOCK_NIL
  BY <1>4
<1>6. /\ adr \in [Index -> Nat] /\ adr[0] = 0 /\ L \subseteq Index
      /\ \A i \in L : i = 0
  BY <1>1
<1> HIDE DEF adr, first, zero
<1>7. Tiled(blk, L, adr)
  BY <1>1, <1>5, <1>6 DEF Tiled
<1>8. Linked(blk, L, adr)
  BY <1>1, <1>5, <1>6 DEF Linked
<1>9. Apart(blk, L)
  BY <1>1, <1>5, <1>6 DEF Apart
<1>10. live = Held(blk, L, adr)
  <2>1. {i \in L : blk[i].occupied} = {}
    BY <1>5, <1>6
  <2>2. Held(blk, L, adr) = {}
    BY <2>1 DEF Held
  <2> QED
    BY <2>2 DEF Init
<1>11. Spare(L, unused)
  <2> DEFINE m == BlkCount - 1
  <2>1. m \in Nat /\ Index = 0..m /\ unused = [k \in 1..m |-> k] /\ m + 1 = BlkCount
    BY Constants DEF Index, Init
  <2> HIDE DEF m
  <2>2. \A k \in 1..m : k \in Index
    BY <2>1
  <2>3. unused \in [1..m -> Index]
    BY <2>1, <2>2
  <2>4. unused \in Seq(Index) /\ Len(unused) = m
    BY <2>1, <2>3
  <2>5. \A k \in 1..m : unused[k] = k
    BY <2>1
  <2>6. \A k \in 1..m : unused[k] \notin L
    BY <2>1, <2>5
  <2>7. \A i \in Index \ L : i \in 1..m
    BY <2>1
  <2>8. Cardinality(L) = 1
    BY FS_Singleton
  <2> QED
    BY <2>1, <2>4, <2>5, <2>6, <2>7, <2>8 DEF Spare
<1>12. Layout(L, adr)
  BY <1>7, <1>8, <1>9, <1>10, <1>11 DEF Layout
<1>13. TypeOK
  BY <1>4, <1>11 DEF TypeOK, Spare, Init
<1> QED
  BY <1>12, <1>13 DEF IInv

(* The descriptor at an address, and what is there when it is occupied.    *)
LEMMA HeldFacts ==
    ASSUME NEW b, NEW L, NEW adr, b \in [Index -> Block], Tiled(b, L, adr)
    PROVE  /\ \A i, j \in L : adr[i] = adr[j] => i = j
           /\ \A o : o \in Held(b, L, adr) <=>
                  \E i \in L : b[i].occupied /\ o = [addr |-> adr[i], size |-> b[i].size]
<1>1. \A i, j \in L : adr[i] = adr[j] => i = j
  BY TileFacts
<1>2. \A o : o \in Held(b, L, adr) <=>
             \E i \in L : b[i].occupied /\ o = [addr |-> adr[i], size |-> b[i].size]
  BY DEF Held
<1> QED
  BY <1>1, <1>2

(* heap_free keeps the layout.                                              *)
LEMMA FreeStep ==
    ASSUME TypeOK, NEW L, NEW adr, Layout(L, adr), NEW obj \in live, Free(obj)
    PROVE  IInv'
<1>1. /\ blk \in [Index -> Block]
      /\ Tiled(blk, L, adr) /\ Linked(blk, L, adr) /\ Apart(blk, L)
      /\ live = Held(blk, L, adr) /\ Spare(L, unused)
  BY DEF TypeOK, Layout
<1>2. /\ Ordered(blk, L, adr, Chain)
      /\ \A k \in 1..Len(Chain) : Base(k) = adr[Chain[k]]
  BY <1>1, ChainIs
<1> DEFINE b0(i) == [blk EXCEPT ![i].occupied = FALSE]
           b1(i) == IF IsFree(b0(i), b0(i)[i].next) THEN Absorb(b0(i), i) ELSE b0(i)
           u1(i) == unused \o (IF IsFree(b0(i), b0(i)[i].next)
                               THEN <<b0(i)[i].next>> ELSE <<>>)
           b2(i) == IF IsFree(b1(i), b1(i)[i].prev) THEN Absorb(b1(i), b1(i)[i].prev)
                    ELSE b1(i)
           u2(i) == u1(i) \o (IF IsFree(b1(i), b1(i)[i].prev) THEN <<i>> ELSE <<>>)
<1>3. PICK i \in L : /\ adr[i] = obj.addr
                     /\ blk' = b2(i) /\ unused' = u2(i)
                     /\ live' = live \ {obj} /\ result' = result
  <2>1. PICK k \in DOMAIN Chain :
              /\ Base(k) = obj.addr
              /\ blk' = b2(Chain[k]) /\ unused' = u2(Chain[k])
              /\ live' = live \ {obj} /\ result' = result
    BY DEF Free
  <2> HIDE DEF b2, u2
  <2>2. Chain[k] \in L /\ k \in 1..Len(Chain)
    BY <1>2 DEF Ordered
  <2> QED
    BY <2>1, <2>2, <1>2
<1>4. blk[i].occupied /\ obj = [addr |-> adr[i], size |-> blk[i].size]
  <2>1. PICK j \in L : blk[j].occupied /\ obj = [addr |-> adr[j], size |-> blk[j].size]
    BY <1>1, HeldFacts
  <2>2. adr[j] = adr[i]
    BY <2>1, <1>3
  <2> QED
    BY <2>1, <2>2, <1>1, HeldFacts
<1> DEFINE a0 == b0(i)
           a1 == b1(i)
           v1 == u1(i)
<1>5. /\ a0 \in [Index -> Block] /\ Tiled(a0, L, adr) /\ Linked(a0, L, adr)
      /\ \A x \in Index : /\ a0[x].size = blk[x].size /\ a0[x].next = blk[x].next
                          /\ a0[x].prev = blk[x].prev
                          /\ a0[x].occupied = IF x = i THEN FALSE ELSE blk[x].occupied
  <2>1. a0 = [blk EXCEPT ![i].occupied = FALSE] /\ FALSE \in BOOLEAN
    OBVIOUS
  <2> HIDE DEF a0
  <2>2. MarkOf(blk, L, adr, i, FALSE, a0)
    BY <1>1, <2>1, Marked
  <2> QED
    BY <2>2 DEF MarkOf
<1>6. a1 = IF IsFree(a0, a0[i].next) THEN Absorb(a0, i) ELSE a0
  OBVIOUS
<1>7. v1 = unused \o (IF IsFree(a0, a0[i].next) THEN <<a0[i].next>> ELSE <<>>)
  OBVIOUS
<1>8. blk' = IF IsFree(a1, a1[i].prev) THEN Absorb(a1, a1[i].prev) ELSE a1
  BY <1>3
<1>9. unused' = v1 \o (IF IsFree(a1, a1[i].prev) THEN <<i>> ELSE <<>>)
  BY <1>3
<1> HIDE DEF a0, a1, v1
<1>10. L \subseteq Index
  BY <1>1, TileFacts
<1>11. ~ a0[i].occupied /\ ApartBut(a0, L, i)
  BY <1>1, <1>5, <1>10 DEF Apart, ApartBut
<1>12. Held(a0, L, adr) = live \ {obj}
  <2>1. \A o : o \in Held(a0, L, adr) <=>
           \E j \in L : a0[j].occupied /\ o = [addr |-> adr[j], size |-> a0[j].size]
    BY <1>5, HeldFacts
  <2>2. \A o : o \in live <=>
           \E j \in L : blk[j].occupied /\ o = [addr |-> adr[j], size |-> blk[j].size]
    BY <1>1, HeldFacts
  <2>3. ASSUME NEW o
        PROVE  o \in Held(a0, L, adr) <=> o \in live /\ o # obj
    <3>1. ASSUME NEW j \in L, a0[j].occupied,
                 o = [addr |-> adr[j], size |-> a0[j].size]
          PROVE  o \in live /\ o # obj
      <4>1. j # i /\ blk[j].occupied /\ a0[j].size = blk[j].size
        BY <3>1, <1>5, <1>10
      <4>2. adr[j] # adr[i]
        BY <4>1, <1>1, HeldFacts
      <4> QED
        BY <3>1, <4>1, <4>2, <2>2, <1>4
    <3>2. ASSUME NEW j \in L, blk[j].occupied, o # obj,
                 o = [addr |-> adr[j], size |-> blk[j].size]
          PROVE  o \in Held(a0, L, adr)
      <4>1. j # i
        BY <3>2, <1>4
      <4>2. a0[j].occupied /\ a0[j].size = blk[j].size
        BY <3>2, <4>1, <1>5, <1>10
      <4> QED
        BY <3>2, <4>2, <2>1
    <3> QED
      BY <3>1, <3>2, <2>1, <2>2
  <2> QED
    BY <2>3
<1>13. PICK M : /\ a1 \in [Index -> Block]
                /\ Tiled(a1, M, adr) /\ Linked(a1, M, adr) /\ Spare(M, v1)
                /\ Held(a1, M, adr) = Held(a0, L, adr)
                /\ i \in M /\ ~ a1[i].occupied /\ ApartBut(a1, M, i)
                /\ a1[i].next \in M => a1[a1[i].next].occupied
  <2>1. RightOf(a0, L, adr, i, a1, v1)
    BY <1>1, <1>5, <1>6, <1>7, <1>11, MergeRight
  <2> QED
    BY <2>1 DEF RightOf
<1>14. PICK N : /\ blk' \in [Index -> Block]
                /\ Tiled(blk', N, adr) /\ Linked(blk', N, adr) /\ Spare(N, unused')
                /\ Held(blk', N, adr) = Held(a1, M, adr) /\ Apart(blk', N)
  <2>1. LeftOf(a1, M, adr, blk', unused')
    BY <1>8, <1>9, <1>13, MergeLeft
  <2> QED
    BY <2>1 DEF LeftOf
<1>15. live' = Held(blk', N, adr)
  BY <1>3, <1>12, <1>13, <1>14
<1>16. Layout(N, adr)'
  BY <1>14, <1>15 DEF Layout
<1>17. TypeOK'
  BY <1>3, <1>14 DEF TypeOK, Spare
<1> QED
  BY <1>16, <1>17 DEF IInv

(* Where heap_alloc stops: the lowest block that is free and large enough. *)
LEMMA FitFacts ==
    ASSUME TypeOK, NEW L, NEW adr, Layout(L, adr), NEW n,
           NEW k \in DOMAIN Chain, FirstFit(n, k)
    PROVE  /\ Chain[k] \in L /\ Base(k) = adr[Chain[k]]
           /\ ~ blk[Chain[k]].occupied /\ blk[Chain[k]].size >= n
           /\ \A x \in L : adr[x] < adr[Chain[k]] =>
                 ~ (~ blk[x].occupied /\ blk[x].size >= n)
<1>1. /\ blk \in [Index -> Block] /\ Tiled(blk, L, adr) /\ Linked(blk, L, adr)
  BY DEF TypeOK, Layout
<1>2. /\ Ordered(blk, L, adr, Chain)
      /\ \A j \in 1..Len(Chain) : Base(j) = adr[Chain[j]]
  BY <1>1, ChainIs
<1>3. k \in 1..Len(Chain) /\ Chain[k] \in L /\ Len(Chain) \in Nat
  BY <1>2 DEF Ordered
<1>4. /\ ~ blk[Chain[k]].occupied /\ blk[Chain[k]].size >= n
      /\ \A j \in 1..(k - 1) : ~ (~ blk[Chain[j]].occupied /\ blk[Chain[j]].size >= n)
  BY DEF FirstFit
<1>5. ASSUME NEW x \in L, adr[x] < adr[Chain[k]]
      PROVE  ~ (~ blk[x].occupied /\ blk[x].size >= n)
  <2>1. PICK j \in 1..Len(Chain) : Chain[j] = x
    BY <1>2 DEF Ordered
  <2>2. adr[x] \in Nat /\ adr[Chain[k]] \in Nat
    BY <1>1, <1>3, TileFacts
  <2>3. ~ (k < j) /\ j # k
    BY <2>1, <2>2, <1>2, <1>3, <1>5 DEF Ordered
  <2>4. j \in 1..(k - 1)
    BY <2>3, <1>3
  <2> QED
    BY <2>1, <2>4, <1>4
<1> QED
  BY <1>2, <1>3, <1>4, <1>5

(* An allocation that fits exactly keeps the layout.                        *)
LEMMA ExactStep ==
    ASSUME TypeOK, NEW L, NEW adr, Layout(L, adr),
           NEW n \in Nat, n >= 1, NEW k \in DOMAIN Chain, AllocExact(n, k)
    PROVE  IInv'
<1> DEFINE i == Chain[k]
<1>1. /\ blk \in [Index -> Block]
      /\ Tiled(blk, L, adr) /\ Linked(blk, L, adr) /\ Apart(blk, L)
      /\ live = Held(blk, L, adr) /\ Spare(L, unused)
  BY DEF TypeOK, Layout
<1>2. i \in L /\ Base(k) = adr[i] /\ ~ blk[i].occupied
  BY FitFacts DEF AllocExact
<1>3. /\ blk[i].size = n /\ blk' = [blk EXCEPT ![i].occupied = TRUE]
      /\ live' = live \cup {[addr |-> adr[i], size |-> n]} /\ result' = adr[i]
      /\ unused' = unused
  BY <1>2 DEF AllocExact, Granted
<1> HIDE DEF i
<1>4. MarkOf(blk, L, adr, i, TRUE, blk')
  <2>1. TRUE \in BOOLEAN
    OBVIOUS
  <2> QED
    BY <2>1, <1>1, <1>2, <1>3, Marked
<1>5. L \subseteq Index
  BY <1>1, TileFacts
<1>6. Apart(blk', L)
  BY <1>1, <1>4, <1>5 DEF Apart, MarkOf
<1>7. live' = Held(blk', L, adr)
  <2>1. \A o : o \in Held(blk', L, adr) <=>
           \E j \in L : blk'[j].occupied /\ o = [addr |-> adr[j], size |-> blk'[j].size]
    BY <1>4, HeldFacts DEF MarkOf
  <2>2. \A o : o \in live <=>
           \E j \in L : blk[j].occupied /\ o = [addr |-> adr[j], size |-> blk[j].size]
    BY <1>1, HeldFacts
  <2>3. \A j \in L : /\ blk'[j].size = blk[j].size
                     /\ blk'[j].occupied <=> j = i \/ blk[j].occupied
    BY <1>4, <1>5 DEF MarkOf
  <2>4. ASSUME NEW o
        PROVE  o \in Held(blk', L, adr)
               <=> o \in live \/ o = [addr |-> adr[i], size |-> n]
    <3>1. CASE o = [addr |-> adr[i], size |-> n]
      BY <3>1, <2>1, <2>3, <1>2, <1>3
    <3>2. CASE o # [addr |-> adr[i], size |-> n]
      <4>1. ASSUME NEW j \in L, blk'[j].occupied,
                   o = [addr |-> adr[j], size |-> blk'[j].size]
            PROVE  o \in live
        <5>1. j # i /\ blk[j].occupied
          BY <4>1, <3>2, <2>3, <1>3
        <5> QED
          BY <4>1, <5>1, <2>2, <2>3
      <4>2. ASSUME NEW j \in L, blk[j].occupied,
                   o = [addr |-> adr[j], size |-> blk[j].size]
            PROVE  o \in Held(blk', L, adr)
        BY <4>2, <2>1, <2>3
      <4> QED
        BY <3>2, <4>1, <4>2, <2>1, <2>2
    <3> QED
      BY <3>1, <3>2
  <2> QED
    BY <2>4, <1>3
<1>8. adr[i] \in 0..(Total - 1)
  BY <1>1, <1>2, TileFacts, Constants
<1>9. Layout(L, adr)'
  BY <1>1, <1>3, <1>4, <1>6, <1>7 DEF Layout, MarkOf
<1>10. TypeOK'
  BY <1>3, <1>4, <1>8 DEF TypeOK, MarkOf
<1> QED
  BY <1>9, <1>10 DEF IInv

(* An allocation that splits a block keeps the layout.                      *)
LEMMA SplitStep ==
    ASSUME TypeOK, NEW L, NEW adr, Layout(L, adr),
           NEW n \in Nat, n >= 1, NEW k \in DOMAIN Chain, AllocSplit(n, k)
    PROVE  IInv'
<1>1. PICK cur, new : cur = Chain[k] /\ new = Last(unused)
  OBVIOUS
<1>2. PICK M, e : M = L \cup {new} /\ e = [adr EXCEPT ![new] = adr[cur] + n]
  OBVIOUS
<1>3. /\ blk \in [Index -> Block]
      /\ Tiled(blk, L, adr) /\ Linked(blk, L, adr) /\ Apart(blk, L)
      /\ live = Held(blk, L, adr) /\ Spare(L, unused)
  BY DEF TypeOK, Layout
<1>4. cur \in L /\ Base(k) = adr[cur] /\ ~ blk[cur].occupied
  BY <1>1, FitFacts DEF AllocSplit
<1>5. /\ n < blk[cur].size /\ unused # <<>>
      /\ live' = live \cup {[addr |-> adr[cur], size |-> n]} /\ result' = adr[cur]
      /\ unused' = Front(unused)
  <2>1. blk[cur].size > n /\ blk[cur].size \in Nat
    BY <1>1, <1>3, <1>4, TileFacts DEF AllocSplit
  <2> QED
    BY <2>1, <1>4, <1>1 DEF AllocSplit, Granted
<1>6. blk' = Cut(blk, cur, new, n)
  BY <1>1 DEF AllocSplit, Cut
<1>8. CutOf(blk, L, adr, unused, cur, n, blk', M, e)
  BY <1>1, <1>2, <1>3, <1>4, <1>5, <1>6, CutKeeps
<1>9. adr[cur] \in 0..(Total - 1)
  BY <1>3, <1>4, TileFacts, Constants
<1>10. Layout(M, e)'
  BY <1>3, <1>5, <1>8 DEF Layout, CutOf
<1>11. TypeOK'
  BY <1>5, <1>8, <1>9 DEF TypeOK, CutOf, Spare
<1> QED
  BY <1>10, <1>11 DEF IInv

(* Every step keeps the layout. *)
LEMMA Inductive == IInv /\ [Next]_vars => IInv'
<1> SUFFICES ASSUME IInv, [Next]_vars PROVE IInv'
  OBVIOUS
<1>1. PICK L, adr : Layout(L, adr)
  BY DEF IInv
<1>2. TypeOK
  BY DEF IInv
<1>3. CASE UNCHANGED vars
  <2>1. Layout(L, adr)'
    BY <1>1, <1>3 DEF vars, Layout
  <2>2. TypeOK'
    BY <1>2, <1>3 DEF vars, TypeOK
  <2> QED
    BY <2>1, <2>2 DEF IInv
<1>4. ASSUME NEW bytes \in Requests, Alloc(bytes)
      PROVE  IInv'
  <2> DEFINE n == Units(bytes)
  <2>1. n \in Nat /\ n >= 1
    BY UnitsType
  <2>2. ASSUME NEW k \in DOMAIN Chain, AllocExact(n, k)
        PROVE  IInv'
    <3> HIDE DEF n
    <3> QED
      BY <2>1, <2>2, <1>1, <1>2, ExactStep
  <2>3. ASSUME NEW k \in DOMAIN Chain, AllocSplit(n, k)
        PROVE  IInv'
    <3> HIDE DEF n
    <3> QED
      BY <2>1, <2>3, <1>1, <1>2, SplitStep
  <2>4. CASE AllocRefused(n)
    <3>1. Layout(L, adr)'
      BY <1>1, <2>4 DEF AllocRefused, Layout
    <3>2. TypeOK'
      BY <1>2, <2>4 DEF AllocRefused, TypeOK
    <3> QED
      BY <3>1, <3>2 DEF IInv
  <2> QED
    BY <2>2, <2>3, <2>4, <1>4 DEF Alloc
<1>5. ASSUME NEW obj \in live, Free(obj)
      PROVE  IInv'
  BY <1>1, <1>2, <1>5, FreeStep
<1> QED
  BY <1>3, <1>4, <1>5 DEF Next

-----------------------------------------------------------------------------
(* What it says of the list as alloc.c walks it.                            *)

(* A layout leaves no descriptor over.                                      *)
LEMMA AccountedFor == IInv => DescriptorsAccounted
<1> SUFFICES ASSUME IInv PROVE DescriptorsAccounted
  OBVIOUS
<1>1. PICK L, adr : Layout(L, adr)
  BY DEF IInv
<1>2. /\ blk \in [Index -> Block] /\ Tiled(blk, L, adr) /\ Linked(blk, L, adr)
      /\ Spare(L, unused)
  BY <1>1 DEF IInv, TypeOK, Layout
<1>3. Ordered(blk, L, adr, Chain)
  BY <1>2, ChainIs
<1> DEFINE n == Len(Chain)
           m == Len(unused)
           all == Chain \o unused
<1>4. /\ n \in Nat /\ n >= 1 /\ Chain \in Seq(L) /\ Chain[1] = 0
      /\ n = Cardinality(L)
      /\ \A k \in 1..n : Chain[k] \in L
      /\ \A i \in L : \E k \in 1..n : Chain[k] = i
      /\ \A k \in 1..n :
            blk[Chain[k]].next = IF k = n THEN BLOCK_NIL ELSE Chain[k + 1]
  BY <1>3 DEF Ordered
<1>5. /\ unused \in Seq(Index) /\ m \in Nat /\ n + m = BlkCount
      /\ \A j \in 1..m : unused[j] \in Index
      /\ \A i \in Index \ L : \E j \in 1..m : unused[j] = i
  <2>1. unused \in Seq(Index) /\ Cardinality(L) + Len(unused) = BlkCount
    BY <1>2 DEF Spare
  <2>2. \A i \in Index \ L : \E j \in 1..m : unused[j] = i
    BY <1>2 DEF Spare
  <2>3. m \in Nat /\ \A j \in 1..m : unused[j] \in Index
    BY <2>1
  <2>4. n + m = BlkCount
    BY <2>1, <1>4
  <2> QED
    BY <2>1, <2>2, <2>3, <2>4
<1>6. /\ L \subseteq Index /\ BLOCK_NIL \notin L /\ blk[0].prev = BLOCK_NIL
      /\ \A i \in L : blk[i].next \in L => blk[blk[i].next].prev = i
  BY <1>2, TileFacts, LinkFacts
<1>7. Chain \in Seq(Index)
  BY <1>4, <1>6
<1>8. /\ Len(all) = n + m /\ DOMAIN all = 1..(n + m)
      /\ \A k \in 1..(n + m) : all[k] = IF k <= n THEN Chain[k] ELSE unused[k - n]
  <2>1. \A s, t \in Seq(Index) :
           /\ Len(s \o t) = Len(s) + Len(t)
           /\ DOMAIN (s \o t) = 1..(Len(s) + Len(t))
           /\ \A k \in 1..(Len(s) + Len(t)) :
                 (s \o t)[k] = IF k <= Len(s) THEN s[k] ELSE t[k - Len(s)]
    OBVIOUS
  <2> QED
    BY <2>1, <1>5, <1>7
<1> HIDE DEF n, m, all
<1>9. \A k \in 1..n : blk[Chain[k]].prev = IF k = 1 THEN BLOCK_NIL ELSE Chain[k - 1]
  <2> TAKE k \in 1..n
  <2>1. CASE k = 1
    BY <2>1, <1>4, <1>6
  <2>2. CASE k # 1
    <3>1. k - 1 \in 1..n /\ k - 1 # n /\ (k - 1) + 1 = k
      BY <2>2, <1>4
    <3>2. blk[Chain[k - 1]].next = Chain[k] /\ Chain[k - 1] \in L /\ Chain[k] \in L
      BY <3>1, <1>4
    <3> QED
      BY <2>2, <3>2, <1>6
  <2> QED
    BY <2>1, <2>2
<1>10. \A i : i \in Index <=> \E k \in 1..(n + m) : all[k] = i
  <2>1. ASSUME NEW k \in 1..(n + m)
        PROVE  all[k] \in Index
    <3>1. CASE k <= n
      BY <3>1, <1>4, <1>6, <1>8
    <3>2. CASE ~ (k <= n)
      <4>1. k - n \in 1..m
        BY <3>2, <1>4, <1>5
      <4> QED
        BY <4>1, <3>2, <1>5, <1>8
    <3> QED
      BY <3>1, <3>2
  <2>2. ASSUME NEW i \in Index
        PROVE  \E k \in 1..(n + m) : all[k] = i
    <3>1. CASE i \in L
      <4>1. PICK k \in 1..n : Chain[k] = i
        BY <3>1, <1>4
      <4>2. k \in 1..(n + m) /\ k <= n
        BY <1>4, <1>5
      <4> QED
        BY <4>1, <4>2, <1>8
    <3>2. CASE i \notin L
      <4>1. PICK j \in 1..m : unused[j] = i
        BY <3>2, <1>5
      <4>2. n + j \in 1..(n + m) /\ ~ (n + j <= n) /\ (n + j) - n = j
        BY <1>4, <1>5
      <4> QED
        BY <4>1, <4>2, <1>8
    <3> QED
      BY <3>1, <3>2
  <2> QED
    BY <2>1, <2>2
<1>11. ToSet(all) = Index
  BY <1>8, <1>10 DEF ToSet
<1>12. Len(all) = BlkCount
  BY <1>5, <1>8
<1> QED
  BY <1>9, <1>11, <1>12 DEF DescriptorsAccounted, n, all

(* A layout leaves no byte of the heap over, and none twice.                *)
LEMMA TilesHeap == IInv => BlocksTile
<1> SUFFICES ASSUME IInv PROVE BlocksTile
  OBVIOUS
<1>1. PICK L, adr : Layout(L, adr)
  BY DEF IInv
<1>2. /\ blk \in [Index -> Block] /\ Tiled(blk, L, adr) /\ Linked(blk, L, adr)
      /\ Apart(blk, L) /\ live = Held(blk, L, adr)
  BY <1>1 DEF IInv, TypeOK, Layout
<1>3. Ordered(blk, L, adr, Chain) /\ \A k \in 1..Len(Chain) : Base(k) = adr[Chain[k]]
  BY <1>2, ChainIs
<1> DEFINE n == Len(Chain)
<1>4. /\ n \in Nat /\ n >= 1 /\ Last(Chain) = Chain[n] /\ DOMAIN Chain = 1..n
      /\ \A k \in 1..n : Chain[k] \in L
      /\ \A i \in L : \E k \in 1..n : Chain[k] = i
      /\ \A k \in 1..n :
            blk[Chain[k]].next = IF k = n THEN BLOCK_NIL ELSE Chain[k + 1]
  BY <1>3 DEF Ordered, Last
<1>5. \A k \in 1..n : Base(k) = adr[Chain[k]]
  BY <1>3
<1> HIDE DEF n
<1>6. Base(n) + blk[Last(Chain)].size = Total
  <2>1. n \in 1..n
    BY <1>4
  <2>2. Chain[n] \in L /\ blk[Chain[n]].next = BLOCK_NIL
    BY <2>1, <1>4
  <2> QED
    BY <2>1, <2>2, <1>2, <1>4, <1>5, LinkFacts
<1>7. \A k \in 1..(n - 1) : blk[Chain[k]].occupied \/ blk[Chain[k + 1]].occupied
  <2> TAKE k \in 1..(n - 1)
  <2>1. k \in 1..n /\ k # n /\ k + 1 \in 1..n
    BY <1>4
  <2>2. Chain[k] \in L /\ blk[Chain[k]].next = Chain[k + 1] /\ Chain[k + 1] \in L
    BY <2>1, <1>4
  <2>3. blk[Chain[k]].next \in L
    BY <2>2
  <2>4. blk[Chain[k]].occupied \/ blk[blk[Chain[k]].next].occupied
    BY <2>2, <2>3, <1>2 DEF Apart
  <2> QED
    BY <2>2, <2>4
<1>8. live = {[addr |-> Base(k), size |-> blk[Chain[k]].size] :
                 k \in {j \in DOMAIN Chain : blk[Chain[j]].occupied}}
  <2>1. \A o : o \in live <=>
           \E i \in L : blk[i].occupied /\ o = [addr |-> adr[i], size |-> blk[i].size]
    BY <1>2, HeldFacts
  <2>2. ASSUME NEW o
        PROVE  o \in live <=>
               \E k \in 1..n : /\ blk[Chain[k]].occupied
                               /\ o = [addr |-> Base(k), size |-> blk[Chain[k]].size]
    <3>1. ASSUME NEW i \in L, blk[i].occupied,
                 o = [addr |-> adr[i], size |-> blk[i].size]
          PROVE  \E k \in 1..n : /\ blk[Chain[k]].occupied
                                 /\ o = [addr |-> Base(k), size |-> blk[Chain[k]].size]
      <4>1. PICK k \in 1..n : Chain[k] = i
        BY <1>4
      <4> QED
        BY <3>1, <4>1, <1>5
    <3>2. ASSUME NEW k \in 1..n, blk[Chain[k]].occupied,
                 o = [addr |-> Base(k), size |-> blk[Chain[k]].size]
          PROVE  o \in live
      BY <3>2, <2>1, <1>4, <1>5
    <3> QED
      BY <3>1, <3>2, <2>1
  <2>3. \A k : k \in {j \in DOMAIN Chain : blk[Chain[j]].occupied}
                 <=> k \in 1..n /\ blk[Chain[k]].occupied
    BY <1>4
  <2> QED
    BY <2>2, <2>3, Zenon
<1> QED
  BY <1>6, <1>7, <1>8 DEF BlocksTile, n

-----------------------------------------------------------------------------

(* The descriptors stay in range and the stack of unused ones holds        *)
(* descriptors, whatever is allocated and freed.                           *)
THEOREM TypeCorrect == Spec => []TypeOK
<1>1. IInv => TypeOK
  BY DEF IInv
<1> QED
  BY <1>1, InitLayout, Inductive, PTL DEF Spec

(* Splitting and merging never lose a descriptor, never use one twice and  *)
(* never leave a link the wrong way: alloc.c counts on it, because         *)
(* try_coalesce pushes on the stack without looking at its height.         *)
THEOREM NoDescriptorLost == Spec => []DescriptorsAccounted
BY AccountedFor, InitLayout, Inductive, PTL DEF Spec

(* The blocks tile the heap, freed neighbours are always merged, and what  *)
(* is occupied is what the callers hold, at the address they were given.   *)
THEOREM HeapIsTiled == Spec => []BlocksTile
BY TilesHeap, InitLayout, Inductive, PTL DEF Spec

-----------------------------------------------------------------------------
(* The allocator implements HeapAbs.                                        *)

(* An address is taken exactly when it is inside of a block in use.         *)
LEMMA TakenIs ==
    ASSUME TypeOK, NEW L, NEW adr, Layout(L, adr)
    PROVE  \A x \in Int : x \in Abs!Taken <=>
              \E i \in L : blk[i].occupied /\ adr[i] <= x /\ x < adr[i] + blk[i].size
<1>1. blk \in [Index -> Block] /\ Tiled(blk, L, adr) /\ live = Held(blk, L, adr)
  BY DEF TypeOK, Layout
<1>2. \A o : o \in live <=>
         \E i \in L : blk[i].occupied /\ o = [addr |-> adr[i], size |-> blk[i].size]
  BY <1>1, HeldFacts
<1>3. \A i \in L : adr[i] \in Nat /\ blk[i].size \in Nat
  BY <1>1, TileFacts
<1>4. \A x : x \in Abs!Taken <=> \E o \in live : x \in o.addr..(o.addr + o.size - 1)
  BY DEF Abs!Taken, Abs!Cells
<1>5. \A a, s \in Nat : \A x \in Int : x \in a..(a + s - 1) <=> a <= x /\ x < a + s
  OBVIOUS
<1> SUFFICES ASSUME NEW x \in Int
             PROVE  x \in Abs!Taken <=>
                    \E i \in L : blk[i].occupied /\ adr[i] <= x /\ x < adr[i] + blk[i].size
  OBVIOUS
<1>6. ASSUME NEW o \in live, x \in o.addr..(o.addr + o.size - 1)
      PROVE  \E i \in L : blk[i].occupied /\ adr[i] <= x /\ x < adr[i] + blk[i].size
  <2>1. PICK i \in L : blk[i].occupied /\ o = [addr |-> adr[i], size |-> blk[i].size]
    BY <1>2
  <2>2. x \in adr[i]..(adr[i] + blk[i].size - 1)
    BY <2>1, <1>6
  <2> QED
    BY <2>1, <2>2, <1>3, <1>5
<1>7. ASSUME NEW i \in L, blk[i].occupied, adr[i] <= x, x < adr[i] + blk[i].size
      PROVE  \E o \in live : x \in o.addr..(o.addr + o.size - 1)
  <2>1. PICK o : o = [addr |-> adr[i], size |-> blk[i].size]
    OBVIOUS
  <2>2. o \in live /\ o.addr = adr[i] /\ o.size = blk[i].size
    BY <2>1, <1>2, <1>7
  <2>3. x \in adr[i]..(adr[i] + blk[i].size - 1)
    BY <1>3, <1>5, <1>7
  <2> QED
    BY <2>2, <2>3
<1> QED
  BY <1>4, <1>6, <1>7

(* A cell belongs to one block only. *)
LEMMA OneBlock ==
    ASSUME NEW b, NEW L, NEW adr, b \in [Index -> Block], Tiled(b, L, adr),
           NEW i \in L, NEW j \in L, NEW x \in Int,
           adr[i] <= x, x < adr[i] + b[i].size,
           adr[j] <= x, x < adr[j] + b[j].size
    PROVE  i = j
<1>1. /\ adr[i] \in Nat /\ b[i].size \in Nat /\ adr[j] \in Nat /\ b[j].size \in Nat
      /\ i = j \/ adr[i] + b[i].size <= adr[j] \/ adr[j] + b[j].size <= adr[i]
  BY TileFacts
<1> QED
  BY <1>1

(* There is room for n units at a exactly where a free block has them.     *)
LEMMA FitsIs ==
    ASSUME TypeOK, NEW L, NEW adr, Layout(L, adr),
           NEW a \in 0..(Total - 1), NEW n \in Nat, n >= 1
    PROVE  Abs!Fits(a, n) <=>
           \E i \in L : ~ blk[i].occupied /\ adr[i] <= a /\ a + n <= adr[i] + blk[i].size
<1>1. /\ blk \in [Index -> Block] /\ Tiled(blk, L, adr) /\ Linked(blk, L, adr)
      /\ Apart(blk, L)
  BY DEF TypeOK, Layout
<1>2. \A x \in Int : x \in Abs!Taken <=>
         \E i \in L : blk[i].occupied /\ adr[i] <= x /\ x < adr[i] + blk[i].size
  BY TakenIs
<1>3. a \in Nat /\ Total \in Nat /\ a < Total
  BY Constants
<1>4. Abs!Fits(a, n) <=>
         a + n <= Total /\ \A x \in Int : a <= x /\ x < a + n => x \notin Abs!Taken
  <2>1. \A x : x \in a..(a + n - 1) <=> x \in Int /\ a <= x /\ x < a + n
    BY <1>3
  <2> QED
    BY <2>1 DEF Abs!Fits
<1>5. \A i \in L : /\ adr[i] \in Nat /\ blk[i].size \in Nat /\ blk[i].size >= 1
                   /\ adr[i] + blk[i].size <= Total
  BY <1>1, TileFacts
<1>6. ASSUME NEW i \in L, ~ blk[i].occupied, adr[i] <= a,
             a + n <= adr[i] + blk[i].size
      PROVE  Abs!Fits(a, n)
  <2>1. a + n <= Total
    BY <1>3, <1>5, <1>6
  <2>2. ASSUME NEW x \in Int, a <= x, x < a + n, x \in Abs!Taken
        PROVE  FALSE
    <3>1. PICK j \in L : blk[j].occupied /\ adr[j] <= x /\ x < adr[j] + blk[j].size
      BY <2>2, <1>2
    <3>2. adr[i] <= x /\ x < adr[i] + blk[i].size
      BY <2>2, <1>3, <1>5, <1>6
    <3>3. i = j
      BY <3>1, <3>2, <1>1, OneBlock
    <3> QED
      BY <3>1, <3>3, <1>6
  <2> QED
    BY <2>1, <2>2, <1>4
<1>7. ASSUME Abs!Fits(a, n)
      PROVE  \E i \in L : /\ ~ blk[i].occupied /\ adr[i] <= a
                          /\ a + n <= adr[i] + blk[i].size
  <2>1. PICK i \in L : adr[i] <= a /\ a < adr[i] + blk[i].size
    BY <1>1, TileFacts
  <2>2. ~ blk[i].occupied
    BY <2>1, <1>2, <1>3, <1>4, <1>7
  <2>3. ASSUME ~ (a + n <= adr[i] + blk[i].size)
        PROVE  FALSE
    <3> DEFINE end == adr[i] + blk[i].size
    <3>1. end \in Nat /\ a <= end /\ end < a + n /\ end < Total
      BY <2>1, <2>3, <1>3, <1>4, <1>5, <1>7
    <3>2. blk[i].next \in L /\ adr[blk[i].next] = end
      BY <3>1, <1>1, LinkFacts
    <3>3. blk[blk[i].next].occupied
      BY <3>2, <2>2, <1>1 DEF Apart
    <3>4. end < adr[blk[i].next] + blk[blk[i].next].size
      BY <3>1, <3>2, <1>5
    <3>5. end \in Abs!Taken
      BY <3>1, <3>2, <3>3, <3>4, <1>2
    <3> QED
      BY <3>1, <3>5, <1>4, <1>7
  <2> QED
    BY <2>1, <2>2, <2>3
<1> QED
  BY <1>6, <1>7

(* The runs of free cells begin where the free blocks do.                  *)
LEMMA GapsAre ==
    ASSUME TypeOK, NEW L, NEW adr, Layout(L, adr)
    PROVE  \A x : x \in Abs!Gaps <=> \E i \in L : ~ blk[i].occupied /\ x = adr[i]
<1>1. /\ blk \in [Index -> Block] /\ Tiled(blk, L, adr) /\ Linked(blk, L, adr)
      /\ Apart(blk, L)
  BY DEF TypeOK, Layout
<1>2. \A x \in Int : x \in Abs!Taken <=>
         \E i \in L : blk[i].occupied /\ adr[i] <= x /\ x < adr[i] + blk[i].size
  BY TakenIs
<1>3. \A i \in L : /\ adr[i] \in Nat /\ blk[i].size \in Nat /\ blk[i].size >= 1
                   /\ adr[i] + blk[i].size <= Total
  BY <1>1, TileFacts
<1>4. Total \in Nat /\ adr[0] = 0 /\ 0 \in L
  BY <1>1, TileFacts, Constants
<1>5. ASSUME NEW i \in L, ~ blk[i].occupied, NEW x \in Int,
             adr[i] <= x, x < adr[i] + blk[i].size
      PROVE  x \notin Abs!Taken
  <2>1. SUFFICES ASSUME NEW j \in L, blk[j].occupied,
                        adr[j] <= x, x < adr[j] + blk[j].size
                 PROVE  FALSE
    BY <1>2
  <2>2. i = j
    BY <2>1, <1>1, <1>5, OneBlock
  <2> QED
    BY <2>1, <2>2, <1>5
<1>6. ASSUME NEW x \in Abs!Gaps
      PROVE  \E i \in L : ~ blk[i].occupied /\ x = adr[i]
  <2>1. /\ x \in 0..(Total - 1) /\ x \in Int /\ x >= 0 /\ x \notin Abs!Taken
        /\ x = 0 \/ x - 1 \in Abs!Taken
    BY <1>4 DEF Abs!Gaps
  <2>2. PICK i \in L : adr[i] <= x /\ x < adr[i] + blk[i].size
    BY <2>1, <1>1, TileFacts
  <2>3. ~ blk[i].occupied
    BY <2>1, <2>2, <1>2
  <2>4. x = adr[i]
    <3>1. CASE x = 0
      BY <3>1, <2>2, <1>3
    <3>2. CASE x - 1 \in Abs!Taken /\ x # adr[i]
      <4>1. x - 1 \in Int /\ adr[i] <= x - 1 /\ x - 1 < adr[i] + blk[i].size
        BY <3>2, <2>1, <2>2, <1>3
      <4>2. x - 1 \notin Abs!Taken
        BY <4>1, <2>3, <1>5
      <4> QED
        BY <4>2, <3>2
    <3> QED
      BY <3>1, <3>2, <2>1
  <2> QED
    BY <2>3, <2>4
<1>7. ASSUME NEW i \in L, ~ blk[i].occupied
      PROVE  adr[i] \in Abs!Gaps
  <2>1. adr[i] \in 0..(Total - 1) /\ adr[i] \in Int /\ adr[i] < adr[i] + blk[i].size
        /\ adr[i] <= adr[i]
    BY <1>3, <1>4
  <2>2. adr[i] \notin Abs!Taken
    BY <2>1, <1>5, <1>7
  <2>3. adr[i] = 0 \/ adr[i] - 1 \in Abs!Taken
    <3>1. CASE i = 0
      BY <3>1, <1>4
    <3>2. CASE i # 0
      <4> DEFINE p == blk[i].prev
      <4>1. p \in L /\ blk[p].next = i
        BY <3>2, <1>1, LinkFacts
      <4>2. adr[i] = adr[p] + blk[p].size
        BY <4>1, <1>1, LinkFacts
      <4>3. blk[p].occupied
        BY <4>1, <1>1, <1>7 DEF Apart
      <4> HIDE DEF p
      <4>4. adr[i] - 1 \in Int /\ adr[p] <= adr[i] - 1
            /\ adr[i] - 1 < adr[p] + blk[p].size
        BY <4>1, <4>2, <1>3
      <4> QED
        BY <4>1, <4>3, <4>4, <1>2
    <3> QED
      BY <3>1, <3>2
  <2> QED
    BY <2>1, <2>2, <2>3 DEF Abs!Gaps
<1> QED
  BY <1>6, <1>7

(* Every block is an object or a gap. *)
LEMMA BlocksCounted ==
    ASSUME TypeOK, NEW L, NEW adr, Layout(L, adr)
    PROVE  Cardinality(live) + Cardinality(Abs!Gaps) = Cardinality(L)
<1>1. /\ blk \in [Index -> Block] /\ Tiled(blk, L, adr) /\ live = Held(blk, L, adr)
  BY DEF TypeOK, Layout
<1> DEFINE full == {i \in L : blk[i].occupied}
           free == {i \in L : ~ blk[i].occupied}
           obj == [i \in full |-> [addr |-> adr[i], size |-> blk[i].size]]
           gap == [i \in free |-> adr[i]]
<1>2. IsFiniteSet(L) /\ Cardinality(L) \in Nat
  BY <1>1, TileFacts, FinitelyMany
<1>3. /\ IsFiniteSet(full) /\ Cardinality(full) \in Nat
      /\ IsFiniteSet(free) /\ Cardinality(free) \in Nat
  <2>1. full \in SUBSET L /\ free \in SUBSET L
    OBVIOUS
  <2> HIDE DEF full, free
  <2> QED
    BY <2>1, <1>2, FS_Subset, FS_CardinalityType
<1>4. Cardinality(full) + Cardinality(free) = Cardinality(L)
  <2>1. full \cup free = L /\ full \cap free = {}
    OBVIOUS
  <2> HIDE DEF full, free
  <2>2. Cardinality(full \cup free)
           = Cardinality(full) + Cardinality(free) - Cardinality(full \cap free)
    BY <1>3, FS_Union
  <2>3. Cardinality(full \cap free) = 0
    BY <2>1, FS_EmptySet
  <2>4. Cardinality(L)
           = Cardinality(full) + Cardinality(free) - Cardinality(full \cap free)
    BY <2>1, <2>2, Zenon
  <2> QED
    BY <2>3, <2>4, <1>3
<1>5. \A i, j \in L : adr[i] = adr[j] => i = j
  BY <1>1, HeldFacts
<1>6. Cardinality(live) = Cardinality(full)
  <2>1. \A o : o \in live <=>
           \E i \in full : o = [addr |-> adr[i], size |-> blk[i].size]
    BY <1>1, HeldFacts
  <2>2. \A i, j \in full : obj[i] = obj[j] => i = j
    <3> TAKE i, j \in full
    <3> HAVE obj[i] = obj[j]
    <3>1. obj[i].addr = adr[i] /\ obj[j].addr = adr[j]
      OBVIOUS
    <3> QED
      BY <3>1, <1>5
  <2>3. /\ obj = [i \in full |-> obj[i]]
        /\ \A i \in full : obj[i] = [addr |-> adr[i], size |-> blk[i].size]
    OBVIOUS
  <2> HIDE DEF obj, full
  <2>4. obj \in Bijection(full, live)
    <3>1. obj \in [full -> live]
      BY <2>1, <2>3
    <3>2. obj \in Injection(full, live)
      BY <3>1, <2>2 DEF Injection, IsInjective
    <3>3. obj \in Surjection(full, live)
      <4>1. \A o \in live : \E i \in full : obj[i] = o
        BY <2>1, <2>3
      <4> QED
        BY <3>1, <4>1, Zenon DEF Surjection
    <3> QED
      BY <3>2, <3>3 DEF Bijection
  <2>5. ExistsBijection(full, live)
    BY <2>4, Fun_ExistsBij
  <2> QED
    BY <2>5, <1>3, FS_Bijection
<1>7. Cardinality(Abs!Gaps) = Cardinality(free)
  <2>1. \A x : x \in Abs!Gaps <=> \E i \in free : x = adr[i]
    BY GapsAre
  <2>2. /\ gap = [i \in free |-> gap[i]] /\ \A i \in free : gap[i] = adr[i]
        /\ \A i, j \in free : gap[i] = gap[j] => i = j
    BY <1>5
  <2> HIDE DEF gap, free
  <2>3. gap \in Bijection(free, Abs!Gaps)
    <3>1. gap \in [free -> Abs!Gaps]
      BY <2>1, <2>2
    <3>2. gap \in Injection(free, Abs!Gaps)
      BY <3>1, <2>2 DEF Injection, IsInjective
    <3>3. gap \in Surjection(free, Abs!Gaps)
      BY <3>1, <2>1, <2>2 DEF Surjection
    <3> QED
      BY <3>2, <3>3 DEF Bijection
  <2>4. ExistsBijection(free, Abs!Gaps)
    BY <2>3, Fun_ExistsBij
  <2> QED
    BY <2>4, <1>3, FS_Bijection
<1> HIDE DEF full, free
<1> QED
  BY <1>4, <1>6, <1>7

(* The first block that fits is the lowest address that fits.               *)
LEMMA AllocMaps ==
    ASSUME TypeOK, NEW L, NEW adr, Layout(L, adr),
           NEW n \in Nat, n >= 1, NEW k \in DOMAIN Chain,
           FirstFit(n, k), Granted(n, k)
    PROVE  Abs!Alloc(n)
<1> DEFINE i == Chain[k]
           a == adr[i]
<1>1. /\ i \in L /\ Base(k) = a /\ ~ blk[i].occupied /\ blk[i].size >= n
      /\ \A x \in L : adr[x] < a => ~ (~ blk[x].occupied /\ blk[x].size >= n)
  BY FitFacts
<1>2. \A x \in L : /\ adr[x] \in Nat /\ blk[x].size \in Nat /\ blk[x].size >= 1
                   /\ adr[x] + blk[x].size <= Total
  BY TileFacts DEF TypeOK, Layout
<1>3. live' = live \cup {[addr |-> a, size |-> n]} /\ result' = a
  BY <1>1 DEF Granted
<1> HIDE DEF i
<1>4. a \in Nat /\ a <= a /\ a + n <= a + blk[i].size /\ a \in 0..(Total - 1)
  BY <1>1, <1>2, Constants
<1>5. Abs!Fits(a, n)
  BY <1>1, <1>4, FitsIs
<1>6. ASSUME NEW y \in 0..(a - 1), Abs!Fits(y, n)
      PROVE  FALSE
  <2>1. y \in 0..(Total - 1) /\ y \in Nat /\ y < a
    BY <1>4, Constants
  <2>2. PICK x \in L : /\ ~ blk[x].occupied /\ adr[x] <= y
                       /\ y + n <= adr[x] + blk[x].size
    BY <2>1, <1>6, FitsIs
  <2>3. adr[x] < a /\ blk[x].size >= n
    BY <2>1, <2>2, <1>2, <1>4
  <2> QED
    BY <2>2, <2>3, <1>1
<1> HIDE DEF a
<1> QED
  BY <1>3, <1>4, <1>5, <1>6 DEF Abs!Alloc

(* HeapAbs counts as this module does. *)
LEMMA SameCount ==
    ASSUME NEW S
    PROVE  Abs!Cardinality(S) = Cardinality(S)
BY DEF Abs!Cardinality, Cardinality

(* heap_alloc gives up only when nothing fits or the descriptors are used   *)
(* up.                                                                      *)
LEMMA RefuseMaps ==
    ASSUME TypeOK, NEW L, NEW adr, Layout(L, adr),
           NEW n \in Nat, n >= 1, AllocRefused(n)
    PROVE  Abs!Refuse(n)
<1>1. /\ blk \in [Index -> Block] /\ Tiled(blk, L, adr) /\ Linked(blk, L, adr)
      /\ Spare(L, unused)
  BY DEF TypeOK, Layout
<1>2. Ordered(blk, L, adr, Chain)
  BY <1>1, ChainIs
<1>3. result' = -1 /\ live' = live
  BY DEF AllocRefused, NULL
<1>4. CASE unused = <<>>
  <2>1. Cardinality(L) + Len(unused) = BlkCount /\ Len(unused) = 0
    BY <1>1, <1>4 DEF Spare
  <2>2. Cardinality(L) \in Nat
    BY <1>1, TileFacts, FinitelyMany
  <2>3. Cardinality(L) = BlkCount
    BY <2>1, <2>2
  <2>4. Cardinality(live) + Cardinality(Abs!Gaps) = BlkCount
    BY <2>3, BlocksCounted
  <2>5. Abs!Cardinality(live) + Abs!Cardinality(Abs!Gaps) = BlkCount
    BY <2>4, SameCount
  <2> QED
    BY <2>5, <1>3 DEF Abs!Refuse
<1>5. CASE unused # <<>>
  <2> DEFINE fits(j) == ~ blk[Chain[j]].occupied /\ blk[Chain[j]].size >= n
             S == {j \in DOMAIN Chain : fits(j)}
  <2>1. \A k \in DOMAIN Chain : ~ FirstFit(n, k)
    BY <1>5 DEF AllocRefused
  <2>2. DOMAIN Chain = 1..Len(Chain) /\ Len(Chain) \in Nat
    BY <1>2 DEF Ordered
  <2>3. S = {}
    <3> SUFFICES ASSUME S # {} PROVE FALSE
      OBVIOUS
    <3>1. S \subseteq Nat
      BY <2>2
    <3> HIDE DEF S, fits
    <3>2. PICK k \in S : \A j \in S : k <= j
      BY <3>1, SmallestOf
    <3>3. k \in DOMAIN Chain /\ fits(k)
      BY <3>2 DEF S
    <3>4. \A j \in 1..(k - 1) : j \in DOMAIN Chain /\ j \notin S
      BY <3>2, <3>3, <2>2
    <3>5. \A j \in 1..(k - 1) : ~ fits(j)
      BY <3>4 DEF S
    <3>6. FirstFit(n, k)
      BY <3>3, <3>5 DEF FirstFit, fits
    <3> QED
      BY <3>3, <3>6, <2>1
  <2>4. ASSUME NEW a \in 0..(Total - 1), Abs!Fits(a, n)
        PROVE  FALSE
    <3>1. PICK i \in L : /\ ~ blk[i].occupied /\ adr[i] <= a
                         /\ a + n <= adr[i] + blk[i].size
      BY <2>4, FitsIs
    <3>2. blk[i].size >= n
      <4>1. adr[i] \in Nat /\ blk[i].size \in Nat /\ a \in Nat
        BY <1>1, TileFacts, Constants
      <4> QED
        BY <3>1, <4>1
    <3>3. PICK j \in DOMAIN Chain : Chain[j] = i
      BY <1>2 DEF Ordered
    <3>4. j \in S
      BY <3>1, <3>2, <3>3
    <3> QED
      BY <3>4, <2>3
  <2> QED
    BY <2>4, <1>3 DEF Abs!Refuse
<1> QED
  BY <1>4, <1>5

(* Every step of the allocator is one of HeapAbs or leaves it alone. *)
LEMMA StepsMap == IInv /\ [Next]_vars => [Abs!Next]_(Abs!absVars)
<1> SUFFICES ASSUME IInv, [Next]_vars PROVE [Abs!Next]_(Abs!absVars)
  OBVIOUS
<1>1. PICK L, adr : Layout(L, adr)
  BY DEF IInv
<1>2. TypeOK
  BY DEF IInv
<1>3. CASE UNCHANGED vars
  BY <1>3 DEF vars, Abs!absVars
<1>4. ASSUME NEW bytes \in Requests, Alloc(bytes)
      PROVE  Abs!Next
  <2> DEFINE n == Units(bytes)
  <2>1. n \in Nat /\ n >= 1 /\ n \in {Units(x) : x \in Requests}
    BY UnitsType
  <2>2. \/ \E k \in DOMAIN Chain : AllocExact(n, k) \/ AllocSplit(n, k)
        \/ AllocRefused(n)
    BY <1>4 DEF Alloc
  <2> HIDE DEF n
  <2>3. ASSUME NEW k \in DOMAIN Chain, AllocExact(n, k) \/ AllocSplit(n, k)
        PROVE  Abs!Alloc(n)
    <3>1. FirstFit(n, k) /\ Granted(n, k)
      BY <2>3 DEF AllocExact, AllocSplit
    <3> QED
      BY <3>1, <2>1, <1>1, <1>2, AllocMaps
  <2>4. ASSUME AllocRefused(n)
        PROVE  Abs!Refuse(n)
    BY <2>1, <2>4, <1>1, <1>2, RefuseMaps
  <2> QED
    BY <2>1, <2>2, <2>3, <2>4 DEF Abs!Next
<1>5. ASSUME NEW obj \in live, Free(obj)
      PROVE  Abs!Next
  BY <1>5 DEF Free, Abs!Free, Abs!Next
<1> QED
  BY <1>3, <1>4, <1>5 DEF Next

(* heap_alloc and heap_free are a first-fit allocator of disjoint objects: *)
(* a request gets the lowest address with room for it, and is refused only *)
(* when there is none or every descriptor is a block.                      *)
THEOREM HeapRefines == Spec => ImplementsAllocator
<1>1. Init => Abs!Init
  BY DEF Init, Abs!Init, NULL
<1> QED
  BY <1>1, InitLayout, Inductive, StepsMap, PTL
     DEF Spec, ImplementsAllocator, Abs!Spec
=============================================================================
