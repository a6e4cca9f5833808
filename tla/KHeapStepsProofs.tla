-------------------------- MODULE KHeapStepsProofs --------------------------
(***************************************************************************)
(* Proofs about KHeapSteps for every heap size, every width of size_t and  *)
(* every set of request sizes.                                             *)
(*                                                                         *)
(* The inductive invariant is StepsInv.  Of the set L of blocks the walk   *)
(* meets it says that L is a chain upwards along next (Chain), that every  *)
(* block ends where the next begins once the stores of the call in         *)
(* progress are allowed for (Whole), that callers hold exactly what is in  *)
(* use (HeldBy), and what the call has already stored (Call).  Each store  *)
(* is shown to keep it, for L, for L with the new block or for L without   *)
(* the absorbed one; from it follow the properties of the walk, and that   *)
(* a call is one step of KHeap, taken at its last store.                   *)
(***************************************************************************)
EXTENDS KHeapSteps, FiniteSums

(* L is what the walk meets: a chain along next from 0, upwards, without   *)
(* leaving out any block of it. *)
Chain(m, L) ==
  /\ 0 \in L
  /\ L \subseteq DOMAIN m
  /\ \A a \in L :
       /\ a \in Nat /\ a + HEADER <= HEAP_SIZE
       /\ \/ m[a].next = NULL /\ \A b \in L : b <= a
          \/ /\ m[a].next \in L
             /\ a + HEADER <= m[a].next
             /\ \A b \in L : b <= a \/ m[a].next <= b

(* The pointer followed by the walk at its n-th block. *)
Follow(v, m, n) ==
  IF n = 0 THEN 0
  ELSE LET a == v[n - 1] IN IF a \in DOMAIN m THEN m[a].next ELSE a

IsWalk(v, m) == v = [n \in 0 .. MaxBlocks + 1 |-> Follow(v, m, n)]

(* MaxBlocks is more blocks than fit in the heap.                          *)
LEMMA BlocksNat ==
  /\ MaxBlocks \in Nat
  /\ HEAP_SIZE < HEADER * (MaxBlocks + 1)
  BY StepsAssumption DEF MaxBlocks, HEADER

(* The walk is defined for every memory, whatever next holds there.        *)
LEMMA WalkExists == ASSUME NEW m PROVE \E v : IsWalk(v, m)
<1> DEFINE Upto(k) == \E v : v = [n \in 0 .. k |-> Follow(v, m, n)]
           T == {k \in Nat : Upto(k)}
<1>1. 0 \in T
  <2>1. [n \in 0 .. 0 |-> 0] = [n \in 0 .. 0 |-> Follow([k \in 0 .. 0 |-> 0], m, n)]
    BY DEF Follow
  <2> QED
    BY <2>1
<1>2. ASSUME NEW k \in Nat, k \in T PROVE k + 1 \in T
  <2>1. PICK v : v = [n \in 0 .. k |-> Follow(v, m, n)]
    BY <1>2
  <2> DEFINE w == [n \in 0 .. (k + 1) |-> IF n = k + 1 THEN Follow(v, m, k + 1) ELSE v[n]]
  <2>2. ASSUME NEW n \in 0 .. (k + 1) PROVE w[n] = Follow(w, m, n)
    <3>1. n # 0 => n - 1 \in 0 .. k /\ n - 1 # k + 1 /\ w[n - 1] = v[n - 1]
      OBVIOUS
    <3>2. w[n] = Follow(v, m, n)
      BY <2>1
    <3> HIDE DEF w
    <3> QED
      BY <3>1, <3>2 DEF Follow
  <2>3. w = [n \in 0 .. (k + 1) |-> Follow(w, m, n)]
    BY <2>2
  <2> HIDE DEF w
  <2> QED
    BY <2>3
<1>3. MaxBlocks + 1 \in T
  <2> HIDE DEF T
  <2> QED
    BY <1>1, <1>2, Inductive, BlocksNat
<1> QED
  BY <1>3 DEF IsWalk

(* A walk along a chain ends within MaxBlocks blocks, and has met them all. *)
LEMMA WalkMeets ==
  ASSUME NEW m, DOMAIN m \subseteq Nat, NEW L, Chain(m, L), NEW v, IsWalk(v, m)
  PROVE  /\ {v[n] : n \in 0 .. MaxBlocks} \ {NULL} = L
         /\ v[MaxBlocks + 1] = NULL
<1> USE DEF HEADER, NULL
<1> DEFINE Met(n) == \/ v[n] = NULL /\ \A b \in L : \E k \in 0 .. (n - 1) : v[k] = b
                     \/ /\ v[n] \in L /\ v[n] >= HEADER * n
                        /\ \A b \in L : b < v[n] => \E k \in 0 .. (n - 1) : v[k] = b
           T == {n \in Nat : n <= MaxBlocks + 1 => Met(n)}
<1>1. /\ v[0] = 0
      /\ \A n \in 0 .. MaxBlocks : v[n + 1] = IF v[n] \in DOMAIN m THEN m[v[n]].next ELSE v[n]
  <2>1. \A n \in 0 .. MaxBlocks + 1 : v[n] = Follow(v, m, n)
    BY DEF IsWalk
  <2>2. \A n \in 0 .. MaxBlocks : n + 1 \in 0 .. MaxBlocks + 1 /\ n + 1 # 0 /\ (n + 1) - 1 = n
    BY BlocksNat
  <2>3. 0 \in 0 .. MaxBlocks + 1
    BY BlocksNat
  <2> QED
    BY <2>1, <2>2, <2>3 DEF Follow
<1>2. 0 \in T
  BY <1>1 DEF Chain
<1>3. ASSUME NEW n \in Nat, n \in T PROVE n + 1 \in T
  <2> SUFFICES ASSUME n + 1 <= MaxBlocks + 1 PROVE Met(n + 1)
    OBVIOUS
  <2>1. Met(n) /\ n \in 0 .. MaxBlocks
    BY <1>3, BlocksNat
  <2>2. CASE v[n] = NULL
    <3>1. v[n + 1] = NULL
      BY <1>1, <2>1, <2>2
    <3>2. \A b \in L : \E k \in 0 .. (n - 1) : v[k] = b
      BY <2>1, <2>2 DEF Chain
    <3> QED
      BY <3>1, <3>2
  <2>3. CASE v[n] # NULL
    <3>1. /\ v[n] \in L /\ v[n] >= HEADER * n
          /\ \A b \in L : b < v[n] => \E k \in 0 .. (n - 1) : v[k] = b
      BY <2>1, <2>3
    <3>2. v[n] \in Nat /\ v[n + 1] = m[v[n]].next
      BY <1>1, <2>1, <3>1 DEF Chain
    <3>3. \A b \in L : b <= v[n] => \E k \in 0 .. n : v[k] = b
      BY <3>1, <3>2 DEF Chain
    <3> DEFINE a == v[n]
    <3>4. \/ v[n + 1] = NULL /\ \A b \in L : b <= a
          \/ /\ v[n + 1] \in L /\ a + HEADER <= v[n + 1]
             /\ \A b \in L : b <= a \/ v[n + 1] <= b
      BY <3>1, <3>2 DEF Chain
    <3>5. v[n + 1] \in L => v[n + 1] \in Nat
      BY DEF Chain
    <3>6. \A b \in L : b \in Nat
      BY DEF Chain
    <3> QED
      BY <3>1, <3>2, <3>3, <3>4, <3>5, <3>6
  <2> QED
    BY <2>2, <2>3
<1>4. \A n \in 0 .. MaxBlocks + 1 : Met(n)
  <2>1. Nat \subseteq T
    <3> HIDE DEF T
    <3> QED
      BY <1>2, <1>3, Inductive
  <2> QED
    BY <2>1, BlocksNat
<1>5. v[MaxBlocks] = NULL
  <2>1. Met(MaxBlocks)
    BY <1>4, BlocksNat
  <2>2. v[MaxBlocks] \in L => v[MaxBlocks] \in Nat /\ v[MaxBlocks] + HEADER <= HEAP_SIZE
    BY DEF Chain
  <2> QED
    BY <2>1, <2>2, BlocksNat, StepsAssumption
<1>6. \A b \in L : \E k \in 0 .. (MaxBlocks - 1) : v[k] = b
  BY <1>4, <1>5, BlocksNat DEF Chain
<1>7. \A n \in 0 .. MaxBlocks : v[n] = NULL \/ v[n] \in L
  BY <1>4, BlocksNat
<1>8. v[MaxBlocks + 1] = NULL
  BY <1>1, <1>5, BlocksNat
<1>9. NULL \notin L
  BY DEF Chain
<1> HIDE DEF NULL
<1> QED
  BY <1>6, <1>7, <1>8, <1>9, BlocksNat

(* So the blocks that a timer interrupt would meet are those of the chain. *)
LEMMA VisitedNow ==
  ASSUME NEW L, Chain(mem, L), DOMAIN mem \subseteq Nat
  PROVE  Visited = L /\ Visit[MaxBlocks + 1] = NULL
<1>1. Visit = CHOOSE v : IsWalk(v, mem)
  BY DEF Visit, IsWalk, Follow
<1>2. IsWalk(Visit, mem)
  BY <1>1, WalkExists
<1> QED
  BY <1>2, WalkMeets DEF Visited

(* The same of the memory a step leaves.                                   *)
LEMMA VisitedThen ==
  ASSUME NEW L, Chain(mem', L), DOMAIN mem' \subseteq Nat
  PROVE  Visited' = L
<1>1. Visit' = CHOOSE v : IsWalk(v, mem')
  BY DEF Visit, IsWalk, Follow
<1>2. IsWalk(Visit', mem')
  BY <1>1, WalkExists
<1> QED
  BY <1>2, WalkMeets DEF Visited
-----------------------------------------------------------------------------
(* Where the block after a begins. *)
EndOf(a) == IF mem[a].next = NULL THEN HEAP_SIZE ELSE mem[a].next

(* The payload a had, or will have, outside the two stores that shrink it   *)
(* before its next is set, or let it grow before it is. *)
FullSize(a) ==
  IF a # cur THEN mem[a].size
  ELSE IF pc = "cur.next" THEN mem[a].size + HEADER + mem[new].size
  ELSE IF pc = "merge.next" THEN mem[a].size - mem[mem[a].next].size - HEADER
  ELSE mem[a].size

Whole(L) ==
  \A a \in L : /\ mem[a].size \in Nat /\ mem[a].free \in {0, 1}
               /\ a + HEADER + FullSize(a) = EndOf(a)

(* The blocks whose payload some caller holds, until kfree has returned. *)
InUse(L) == {a \in L : mem[a].free = 0 \/ (a = cur /\ Releasing)}
HeldBy(L) == DOMAIN asked = {a + HEADER : a \in InUse(L)}

(* Where a call stands: no block before current could have been taken, and *)
(* the header under construction holds what has been stored of it. *)
Splitting == {"new.size", "new.next", "new.free", "cur.size"}
Allocating == Splitting \cup {"search", "cur.next", "take", "take.cut"}

Call(L) ==
  /\ pc \in Allocating =>
       /\ req \in Requests
       /\ \A b \in L : cur = NULL \/ b < cur => mem[b].free = 0 \/ mem[b].size < size
  /\ pc = "search" => cur \in L \cup {NULL}
  /\ pc \notin {"idle", "search"} => cur \in L /\ mem[cur].free = 1
  /\ pc = "take" => mem[cur].size \in size .. (size + HEADER)
  /\ pc \in Splitting => mem[cur].size > size + HEADER
  /\ pc \in Splitting \ {"new.size"} =>
       new \in DOMAIN mem /\ mem[new].size = mem[cur].size - size - HEADER
  /\ pc \in {"new.free", "cur.size"} => mem[new].next = mem[cur].next
  /\ pc = "cur.size" => mem[new].free = 1
  /\ pc \in {"cur.next", "take.cut"} =>
       /\ new \in DOMAIN mem
       /\ mem[cur].size = size
       /\ mem[new].size \in Nat \ {0} /\ mem[new].free = 1
  /\ pc = "cur.next" => mem[new].next = mem[cur].next
  /\ pc = "take.cut" => mem[cur].next = new
  /\ pc \in {"merge.size", "merge.next"} =>
       mem[cur].next # NULL /\ mem[mem[cur].next].free = 1

Safe(L) == Chain(mem, L) /\ Whole(L) /\ HeldBy(L) /\ Call(L)
StepsInv == TypeOK /\ \E L : L = Visited /\ Safe(L)

(* RoundUp8 never goes below zero. *)
LEMMA SizeNat == ASSUME req \in Requests PROVE size \in Nat
<1>1. req \in Nat
  BY StepsAssumption
<1> DEFINE t == (req + 7) % SIZE_MOD
<1>2. t \in Nat
  BY <1>1, StepsAssumption
<1>3. t - (t % 8) \in Nat
  BY <1>2
<1> QED
  BY <1>3 DEF size, RoundUp8

Numbers == 0 .. HEAP_SIZE

HeaderOK(h) ==
  /\ h.size \in {Junk} \cup Numbers
  /\ h.next \in {Junk, NULL} \cup Numbers
  /\ h.free \in {Junk, 0, 1}

MemOK(m) == DOMAIN m \subseteq Numbers /\ \A a \in DOMAIN m : HeaderOK(m[a])

CallOK ==
  /\ asked \in [DOMAIN asked -> Requests]
  /\ pc \in Labels
  /\ cur \in {NULL} \cup 0 .. HEAP_SIZE
  /\ req \in Requests \cup {0}
  /\ shown \in Nat

(* TypeOK, told apart into memory and the rest.                            *)
LEMMA TypeParts == TypeOK <=> MemOK(mem) /\ CallOK
  BY DEF TypeOK, MemOK, HeaderOK, CallOK, Numbers

(* The same of the state a step leaves.                                    *)
LEMMA TypePartsThen == TypeOK' <=> MemOK(mem') /\ CallOK'
  BY DEF TypeOK, MemOK, HeaderOK, CallOK, Numbers

(* What a store changes, and that it keeps to the types. *)
LEMMA StoreIs ==
  ASSUME NEW a, NEW h, Store(a, h)
  PROVE  /\ DOMAIN mem' = DOMAIN mem \cup {a}
         /\ mem'[a] = h
         /\ \A b \in DOMAIN mem \ {a} : mem'[b] = mem[b]
  BY DEF Store

(* A store of a header within its types keeps memory within them.          *)
LEMMA StoreOK ==
  ASSUME NEW a \in Numbers, NEW h, HeaderOK(h), Store(a, h), MemOK(mem)
  PROVE  MemOK(mem')
<1>1. /\ DOMAIN mem' = DOMAIN mem \cup {a}
      /\ mem'[a] = h
      /\ \A b \in DOMAIN mem \ {a} : mem'[b] = mem[b]
  BY StoreIs
<1>2. ASSUME NEW b \in DOMAIN mem' PROVE HeaderOK(mem'[b])
  <2>1. CASE b = a
    BY <1>1, <2>1
  <2>2. CASE b # a
    BY <1>1, <2>2 DEF MemOK
  <2> QED
    BY <2>1, <2>2
<1> QED
  BY <1>1, <1>2 DEF MemOK

(* What is read at an offset is within the types, written or not.          *)
LEMMA AtOK == ASSUME NEW a, MemOK(mem) PROVE HeaderOK(At(a))
  BY DEF MemOK, HeaderOK, At, Header

(* So is what is stored there field by field.                              *)
LEMMA WithOK ==
  ASSUME NEW a, MemOK(mem)
  PROVE  /\ \A v \in Numbers : HeaderOK(WithSize(a, v))
         /\ \A v \in {NULL} \cup Numbers : HeaderOK(WithNext(a, v))
         /\ \A v \in {0, 1} : HeaderOK(WithFree(a, v))
  BY AtOK DEF HeaderOK, WithSize, WithNext, WithFree, Header

(* A store of one field leaves the two others.                             *)
LEMMA WithIs ==
  ASSUME NEW a
  PROVE  /\ \A v : /\ WithSize(a, v).size = v
                   /\ WithSize(a, v).next = At(a).next
                   /\ WithSize(a, v).free = At(a).free
         /\ \A v : /\ WithNext(a, v).size = At(a).size
                   /\ WithNext(a, v).next = v
                   /\ WithNext(a, v).free = At(a).free
         /\ \A v : /\ WithFree(a, v).size = At(a).size
                   /\ WithFree(a, v).next = At(a).next
                   /\ WithFree(a, v).free = v
         /\ a \in DOMAIN mem => At(a) = mem[a]
  BY DEF WithSize, WithNext, WithFree, Header, At
-----------------------------------------------------------------------------
(* A chain is a matter of its next fields only. *)
LEMMA ChainKept ==
  ASSUME NEW m, NEW w, NEW L, Chain(m, L), L \subseteq DOMAIN w,
         \A a \in L : w[a].next = m[a].next
  PROVE  Chain(w, L)
  BY DEF Chain

(* Where a block of the chain ends, and what lies around it. *)
LEMMA ChainOrder ==
  ASSUME NEW L, Chain(mem, L), NEW a \in L
  PROVE  /\ a \in Nat /\ EndOf(a) \in Nat
         /\ a + HEADER <= EndOf(a) /\ EndOf(a) <= HEAP_SIZE
         /\ \A b \in L : b <= a \/ EndOf(a) <= b
         /\ mem[a].next # NULL => mem[a].next \in L /\ mem[a].next = EndOf(a)
         /\ \A b \in L : b < a => EndOf(b) <= a
<1>1. ASSUME NEW b \in L
      PROVE  /\ b \in Nat /\ EndOf(b) \in Nat
             /\ b + HEADER <= EndOf(b) /\ EndOf(b) <= HEAP_SIZE
             /\ \A c \in L : c <= b \/ EndOf(b) <= c
             /\ mem[b].next # NULL => mem[b].next \in L /\ mem[b].next = EndOf(b)
  <2>1. PICK n : n = mem[b].next
    OBVIOUS
  <2>2. /\ b \in Nat /\ b + HEADER <= HEAP_SIZE
        /\ \/ n = NULL /\ \A c \in L : c <= b
           \/ n \in L /\ b + HEADER <= n /\ \A c \in L : c <= b \/ n <= c
    BY <2>1 DEF Chain
  <2>3. \A c \in L : c \in Nat /\ c + HEADER <= HEAP_SIZE
    BY DEF Chain
  <2>4. EndOf(b) = IF n = NULL THEN HEAP_SIZE ELSE n
    BY <2>1 DEF EndOf
  <2>5. CASE n = NULL
    <3>1. EndOf(b) = HEAP_SIZE /\ \A c \in L : c <= b
      BY <2>2, <2>3, <2>4, <2>5 DEF NULL
    <3> QED
      BY <2>1, <2>2, <2>5, <3>1, StepsAssumption DEF HEADER
  <2>6. CASE n # NULL
    <3>1. EndOf(b) = n /\ n \in L /\ n \in Nat /\ n + HEADER <= HEAP_SIZE
      BY <2>2, <2>3, <2>4, <2>6
    <3>2. b + HEADER <= n /\ \A c \in L : c <= b \/ n <= c
      BY <2>2, <2>6
    <3> QED
      BY <2>1, <2>2, <3>1, <3>2, StepsAssumption DEF HEADER
  <2> QED
    BY <2>5, <2>6
<1>2. \A b \in L : b < a => EndOf(b) <= a
  BY <1>1
<1> QED
  BY <1>1, <1>2

(* Nothing that the chain and its blocks depend on has changed. *)
LEMMA ListKept ==
  ASSUME NEW L, Chain(mem, L), Whole(L), L \subseteq DOMAIN mem',
         \A a \in L : mem'[a] = mem[a],
         pc \notin {"cur.next", "merge.next"}, pc' \notin {"cur.next", "merge.next"}
  PROVE  Chain(mem', L) /\ Whole(L)'
<1>1. Chain(mem', L)
  BY ChainKept
<1>2. \A a \in L : FullSize(a)' = FullSize(a) /\ EndOf(a)' = EndOf(a)
  BY DEF FullSize, EndOf
<1> QED
  BY <1>1, <1>2 DEF Whole

(* Where a block of the list starts and ends, and what surrounds it: the   *)
(* place for the header of the remainder is inside the free block, and no  *)
(* header of the list is there. *)
LEMMA NewBlock ==
  ASSUME NEW L, Safe(L), pc \in Splitting
  PROVE  /\ size \in Nat
         /\ cur \in L /\ cur \in Nat /\ mem[cur].size \in Nat
         /\ new \in Nat /\ cur < new
         /\ mem[cur].size - size - HEADER \in Nat \ {0}
         /\ new + HEADER + (mem[cur].size - size - HEADER) = EndOf(cur)
         /\ EndOf(cur) <= HEAP_SIZE
         /\ new \notin L
<1>1. /\ cur \in L /\ req \in Requests
      /\ mem[cur].size > size + HEADER
  BY DEF Safe, Call, Splitting, Allocating
<1>2. size \in Nat
  BY <1>1, SizeNat
<1>3. mem[cur].size \in Nat /\ cur + HEADER + mem[cur].size = EndOf(cur)
  BY <1>1 DEF Safe, Whole, FullSize, Splitting
<1>4. /\ cur \in Nat /\ EndOf(cur) \in Nat /\ EndOf(cur) <= HEAP_SIZE
      /\ \A b \in L : b <= cur \/ EndOf(cur) <= b
  BY <1>1, ChainOrder DEF Safe
<1>5. /\ new \in Nat /\ cur < new
      /\ mem[cur].size - size - HEADER \in Nat \ {0}
      /\ new + HEADER + (mem[cur].size - size - HEADER) = EndOf(cur)
      /\ new < EndOf(cur)
  BY <1>1, <1>2, <1>3, <1>4, StepsAssumption DEF new, HEADER
<1>6. new \notin L
  BY <1>4, <1>5
<1> QED
  BY <1>1, <1>2, <1>3, <1>4, <1>5, <1>6

(* kmalloc begins, and steps along the list: what it has passed is of no   *)
(* use to it. *)
LEMMA KmallocCallStep ==
  ASSUME TypeOK, NEW L, Safe(L), KmallocCall
  PROVE  TypeOK' /\ Safe(L)'
<1>1. /\ pc = "idle" /\ req' \in Requests /\ cur' = 0 /\ pc' = "search"
      /\ mem' = mem /\ asked' = asked /\ shown' = shown
  BY DEF KmallocCall, Goto
<1>2. TypeOK'
  BY <1>1, TypeParts, TypePartsThen, StepsAssumption DEF CallOK, Labels
<1>3. Chain(mem', L) /\ Whole(L)'
  BY <1>1, ListKept DEF Safe, Chain
<1>4. HeldBy(L)'
  BY <1>1 DEF Safe, HeldBy, InUse, Releasing
<1>5. Call(L)'
  <2>1. 0 \in L /\ \A b \in L : ~(b < 0) /\ 0 # NULL
    BY DEF Safe, Chain, NULL
  <2> QED
    BY <1>1, <2>1 DEF Call, Allocating, Splitting
<1> QED
  BY <1>2, <1>3, <1>4, <1>5 DEF Safe

(* current = current->next: on to the next block of the list or to its     *)
(* end.                                                                    *)
LEMMA SearchOnStep ==
  ASSUME TypeOK, NEW L, Safe(L), SearchOn
  PROVE  TypeOK' /\ Safe(L)'
<1>1. /\ pc = "search" /\ cur # NULL /\ ~Usable /\ cur' = mem[cur].next /\ pc' = pc
      /\ mem' = mem /\ asked' = asked /\ shown' = shown /\ req' = req
  BY DEF SearchOn
<1>2. cur \in L /\ req \in Requests
      /\ \A b \in L : b < cur => mem[b].free = 0 \/ mem[b].size < size
  BY <1>1 DEF Safe, Call, Allocating
<1>3. \/ mem[cur].next = NULL /\ \A b \in L : b <= cur
      \/ mem[cur].next \in L /\ \A b \in L : b <= cur \/ mem[cur].next <= b
  BY <1>2 DEF Safe, Chain
<1>4. cur' \in {NULL} \cup L
  BY <1>1, <1>3
<1>5. L \subseteq Numbers
  BY TypeParts DEF Safe, Chain, MemOK
<1>6. TypeOK'
  BY <1>1, <1>4, <1>5, TypeParts, TypePartsThen DEF CallOK, Numbers
<1>7. Chain(mem', L) /\ Whole(L)'
  BY <1>1, ListKept DEF Safe, Chain
<1>8. HeldBy(L)'
  BY <1>1 DEF Safe, HeldBy, InUse, Releasing
<1>9. Call(L)'
  <2>1. size' = size
    BY <1>1 DEF size
  <2>2. mem[cur].free = 0 \/ mem[cur].size < size
    <3>1. mem[cur].free \in {0, 1} /\ mem[cur].size \in Nat
      BY <1>2 DEF Safe, Whole
    <3> QED
      BY <1>1, <1>2, <3>1, SizeNat DEF Usable
  <2>3. \A b \in L : cur' = NULL \/ b < cur' => mem[b].free = 0 \/ mem[b].size < size
    <3> TAKE b \in L
    <3>1. b \in Nat /\ cur \in Nat
      BY <1>2 DEF Safe, Chain
    <3>2. cur' \in L => cur' \in Nat
      BY DEF Safe, Chain
    <3>3. cur' = NULL \/ b < cur' => b <= cur
      BY <1>1, <1>3, <3>1, <3>2, <1>4 DEF NULL
    <3> QED
      BY <3>1, <3>3, <1>2, <2>2
  <2> QED
    BY <1>1, <1>2, <1>4, <2>1, <2>3 DEF Call, Allocating, Splitting
<1> QED
  BY <1>6, <1>7, <1>8, <1>9 DEF Safe

(* The list is exhausted, and nothing was changed.                         *)
LEMMA SearchFailStep ==
  ASSUME TypeOK, NEW L, Safe(L), SearchFail
  PROVE  TypeOK' /\ Safe(L)'
<1>1. /\ pc = "search" /\ pc' = "idle" /\ req' = 0
      /\ mem' = mem /\ asked' = asked /\ cur' = cur /\ shown' = shown
  BY DEF SearchFail, Goto
<1>2. TypeOK'
  BY <1>1, TypeParts, TypePartsThen DEF CallOK, Labels
<1>3. Chain(mem', L) /\ Whole(L)'
  BY <1>1, ListKept DEF Safe, Chain
<1>4. HeldBy(L)'
  BY <1>1 DEF Safe, HeldBy, InUse, Releasing
<1>5. Call(L)'
  BY <1>1 DEF Call, Allocating, Splitting
<1> QED
  BY <1>2, <1>3, <1>4, <1>5 DEF Safe

(* The block found is split only if there is room for a header.            *)
LEMMA SearchHitStep ==
  ASSUME TypeOK, NEW L, Safe(L), SearchHit
  PROVE  TypeOK' /\ Safe(L)'
<1>1. /\ pc = "search" /\ cur # NULL /\ Usable
      /\ pc' = IF mem[cur].size > size + HEADER THEN "new.size" ELSE "take"
      /\ mem' = mem /\ asked' = asked /\ shown' = shown /\ req' = req /\ cur' = cur
  BY DEF SearchHit, Goto
<1>2. cur \in L /\ req \in Requests
      /\ \A b \in L : b < cur => mem[b].free = 0 \/ mem[b].size < size
  BY <1>1 DEF Safe, Call, Allocating
<1>3. TypeOK'
  BY <1>1, TypeParts, TypePartsThen DEF CallOK, Labels
<1>4. Chain(mem', L) /\ Whole(L)'
  BY <1>1, ListKept DEF Safe, Chain
<1>5. HeldBy(L)'
  BY <1>1 DEF Safe, HeldBy, InUse, Releasing
<1>6. Call(L)'
  <2>1. size' = size
    BY <1>1 DEF size
  <2>2. mem[cur].free = 1 /\ mem[cur].size \in Nat /\ mem[cur].size >= size
    BY <1>1, <1>2 DEF Safe, Whole, Usable
  <2>3. CASE mem[cur].size > size + HEADER
    BY <1>1, <1>2, <2>1, <2>2, <2>3 DEF Call, Allocating, Splitting
  <2>4. CASE ~(mem[cur].size > size + HEADER)
    <3>1. mem[cur].size \in size .. (size + HEADER)
      BY <1>2, <2>2, <2>4, SizeNat DEF HEADER
    <3> QED
      BY <1>1, <1>2, <2>1, <2>2, <2>4, <3>1 DEF Call, Allocating, Splitting
  <2> QED
    BY <2>3, <2>4
<1> QED
  BY <1>3, <1>4, <1>5, <1>6 DEF Safe

(* A store of kmalloc into the header of the remainder: no block of the    *)
(* list is there. *)
LEMMA SplitStep ==
  ASSUME TypeOK, NEW L, Safe(L), pc \in Splitting,
         NEW h, HeaderOK(h), Store(new, h),
         pc' \in Splitting, UNCHANGED <<asked, cur, req, shown>>
  PROVE  /\ TypeOK' /\ Chain(mem', L) /\ Whole(L)' /\ HeldBy(L)'
         /\ new' = new /\ size' = size
         /\ \A b \in L : mem'[b] = mem[b]
         /\ new \in DOMAIN mem' /\ mem'[new] = h
<1>1. /\ new \in Nat /\ new <= HEAP_SIZE /\ new \notin L
  BY NewBlock, StepsAssumption DEF HEADER
<1>2. /\ DOMAIN mem' = DOMAIN mem \cup {new}
      /\ mem'[new] = h
      /\ \A b \in DOMAIN mem \ {new} : mem'[b] = mem[b]
  BY StoreIs
<1>3. \A b \in L : b \in DOMAIN mem /\ mem'[b] = mem[b]
  BY <1>1, <1>2 DEF Safe, Chain
<1>4. TypeOK'
  <2>1. new \in Numbers
    BY <1>1, StepsAssumption DEF Numbers
  <2>2. MemOK(mem')
    BY <2>1, StoreOK, TypeParts
  <2> QED
    BY <2>2, TypeParts, TypePartsThen DEF CallOK, Labels, Splitting
<1>5. Chain(mem', L) /\ Whole(L)'
  BY <1>2, <1>3, ListKept DEF Safe, Splitting
<1>6. HeldBy(L)'
  BY <1>3 DEF Safe, HeldBy, InUse, Releasing, Splitting
<1> QED
  BY <1>2, <1>3, <1>4, <1>5, <1>6 DEF new, size

(* new_block->size: what the block keeps beyond size and a header.         *)
LEMMA SplitSizeStep ==
  ASSUME TypeOK, NEW L, Safe(L), SplitSize
  PROVE  TypeOK' /\ Safe(L)'
<1> DEFINE rest == mem[cur].size - size - HEADER
           h == WithSize(new, rest)
<1>1. pc = "new.size" /\ pc' = "new.next" /\ Store(new, h)
      /\ UNCHANGED <<asked, cur, req, shown>>
  BY DEF SplitSize, Step, Goto
<1>2. pc \in Splitting /\ pc' \in Splitting
  BY <1>1 DEF Splitting
<1>3. rest \in Numbers
  <2>1. /\ rest \in Nat /\ new \in Nat
        /\ new + HEADER + rest = EndOf(cur) /\ EndOf(cur) <= HEAP_SIZE
    BY <1>2, NewBlock
  <2> HIDE DEF rest
  <2> QED
    BY <2>1, StepsAssumption DEF Numbers, HEADER
<1> HIDE DEF rest
<1>4. HeaderOK(h) /\ h.size = rest
  <2>1. \A v \in Numbers : HeaderOK(WithSize(new, v))
    BY WithOK, TypeParts
  <2>2. \A v : WithSize(new, v).size = v
    BY DEF WithSize, Header
  <2> QED
    BY <1>3, <2>1, <2>2
<1> HIDE DEF h
<1>5. /\ TypeOK' /\ Chain(mem', L) /\ Whole(L)' /\ HeldBy(L)'
      /\ new' = new /\ size' = size
      /\ \A b \in L : mem'[b] = mem[b]
      /\ new \in DOMAIN mem' /\ mem'[new] = h
  BY <1>1, <1>2, <1>4, SplitStep
<1>6. Call(L)'
  <2>1. cur \in L /\ mem'[cur] = mem[cur]
    BY <1>2, <1>5, NewBlock
  <2> QED
    BY <1>1, <1>4, <1>5, <2>1 DEF Safe, Call, Allocating, Splitting, rest
<1> QED
  BY <1>5, <1>6 DEF Safe

(* new_block->next: the block after the one that is cut.                   *)
LEMMA SplitNextStep ==
  ASSUME TypeOK, NEW L, Safe(L), SplitNext
  PROVE  TypeOK' /\ Safe(L)'
<1> DEFINE h == WithNext(new, mem[cur].next)
<1>1. pc = "new.next" /\ pc' = "new.free" /\ Store(new, h)
      /\ UNCHANGED <<asked, cur, req, shown>>
  BY DEF SplitNext, Step, Goto
<1>2. pc \in Splitting /\ pc' \in Splitting
  BY <1>1 DEF Splitting
<1>3. cur \in L /\ new \in DOMAIN mem /\ mem[new].size = mem[cur].size - size - HEADER
  BY <1>1, <1>2, NewBlock DEF Safe, Call, Splitting
<1>4. mem[cur].next \in {NULL} \cup Numbers
  <2>1. mem[cur].next = NULL \/ mem[cur].next \in L
    BY <1>3 DEF Safe, Chain
  <2> QED
    BY <2>1, TypeParts DEF Safe, Chain, MemOK
<1>5. HeaderOK(h) /\ h.size = mem[new].size /\ h.next = mem[cur].next
  BY <1>3, <1>4, WithOK, WithIs, TypeParts
<1> HIDE DEF h
<1>6. /\ TypeOK' /\ Chain(mem', L) /\ Whole(L)' /\ HeldBy(L)'
      /\ new' = new /\ size' = size
      /\ \A b \in L : mem'[b] = mem[b]
      /\ new \in DOMAIN mem' /\ mem'[new] = h
  BY <1>1, <1>2, <1>5, SplitStep
<1>7. Call(L)'
  <2>1. mem'[cur] = mem[cur]
    BY <1>3, <1>6
  <2> QED
    BY <1>1, <1>3, <1>5, <1>6, <2>1 DEF Safe, Call, Allocating, Splitting
<1> QED
  BY <1>6, <1>7 DEF Safe

(* new_block->free: the header under construction is complete.             *)
LEMMA SplitFreeStep ==
  ASSUME TypeOK, NEW L, Safe(L), SplitFree
  PROVE  TypeOK' /\ Safe(L)'
<1> DEFINE h == WithFree(new, 1)
<1>1. pc = "new.free" /\ pc' = "cur.size" /\ Store(new, h)
      /\ UNCHANGED <<asked, cur, req, shown>>
  BY DEF SplitFree, Step, Goto
<1>2. pc \in Splitting /\ pc' \in Splitting
  BY <1>1 DEF Splitting
<1>3. /\ cur \in L /\ new \in DOMAIN mem
      /\ mem[new].size = mem[cur].size - size - HEADER
      /\ mem[new].next = mem[cur].next
  BY <1>1, <1>2, NewBlock DEF Safe, Call, Splitting
<1>4. HeaderOK(h) /\ h.size = mem[new].size /\ h.next = mem[new].next /\ h.free = 1
  BY <1>3, WithOK, WithIs, TypeParts
<1> HIDE DEF h
<1>5. /\ TypeOK' /\ Chain(mem', L) /\ Whole(L)' /\ HeldBy(L)'
      /\ new' = new /\ size' = size
      /\ \A b \in L : mem'[b] = mem[b]
      /\ new \in DOMAIN mem' /\ mem'[new] = h
  BY <1>1, <1>2, <1>4, SplitStep
<1>6. Call(L)'
  <2>1. mem'[cur] = mem[cur]
    BY <1>3, <1>5
  <2> QED
    BY <1>1, <1>3, <1>4, <1>5, <2>1 DEF Safe, Call, Allocating, Splitting
<1> QED
  BY <1>5, <1>6 DEF Safe

(* The size is cut before the link: the block ends early for one store,    *)
(* and the chain skips the remainder. *)
LEMMA CutSizeStep ==
  ASSUME TypeOK, NEW L, Safe(L), CutSize
  PROVE  TypeOK' /\ Safe(L)'
<1> DEFINE h == WithSize(cur, size)
           rest == mem[cur].size - size - HEADER
<1>1. pc = "cur.size" /\ pc' = "cur.next" /\ Store(cur, h)
      /\ UNCHANGED <<asked, cur, req, shown>>
  BY DEF CutSize, Step, Goto
<1>2. pc \in Splitting
  BY <1>1 DEF Splitting
<1>3. /\ cur \in L /\ cur \in DOMAIN mem /\ new \in DOMAIN mem
      /\ mem[new].size = rest
      /\ mem[new].next = mem[cur].next
      /\ mem[new].free = 1 /\ mem[cur].free = 1
      /\ req \in Requests
      /\ \A b \in L : b < cur => mem[b].free = 0 \/ mem[b].size < size
  BY <1>1, <1>2, NewBlock DEF Safe, Call, Splitting, Allocating, Chain
<1>4. /\ size \in Nat /\ cur \in Nat /\ new \notin L /\ cur # new /\ size \in Numbers
      /\ rest \in Nat \ {0}
      /\ new + HEADER + rest = EndOf(cur)
      /\ new = cur + HEADER + size
  BY <1>2, <1>3, NewBlock, StepsAssumption DEF Numbers, HEADER, new
<1>5. HeaderOK(h) /\ h.size = size /\ h.next = mem[cur].next /\ h.free = 1
  BY <1>3, <1>4, WithOK, WithIs, TypeParts
<1> HIDE DEF h
<1>6. /\ DOMAIN mem' = DOMAIN mem
      /\ mem'[cur] = h
      /\ \A b \in DOMAIN mem \ {cur} : mem'[b] = mem[b]
  BY <1>1, <1>3, StoreIs
<1>7. TypeOK'
  <2>1. MemOK(mem')
    BY <1>1, <1>3, <1>5, TypeParts, StoreOK DEF MemOK
  <2> QED
    BY <1>1, <2>1, TypeParts, TypePartsThen DEF CallOK, Labels
<1>8. new' = new /\ size' = size /\ cur' = cur
  BY <1>1 DEF new, size
<1>9. L \subseteq DOMAIN mem /\ mem'[new] = mem[new]
  BY <1>3, <1>4, <1>6 DEF Safe, Chain
<1>10. Chain(mem', L)
  BY <1>5, <1>6, <1>9, ChainKept DEF Safe
<1>11. Whole(L)'
  <2>1. ASSUME NEW a \in L
        PROVE  mem'[a].size \in Nat /\ mem'[a].free \in {0, 1}
               /\ a + HEADER + FullSize(a)' = EndOf(a)'
    <3>1. CASE a = cur
      <4>1. FullSize(a)' = size + HEADER + rest
        BY <1>1, <1>3, <1>5, <1>6, <1>8, <1>9, <3>1 DEF FullSize
      <4>2. EndOf(a)' = EndOf(a)
        BY <1>5, <1>6, <3>1 DEF EndOf
      <4>3. a + HEADER + (size + HEADER + rest) = new + HEADER + rest
        BY <1>4, <3>1 DEF HEADER
      <4>4. mem'[a].size = size /\ mem'[a].free = 1
        BY <1>5, <1>6, <3>1
      <4>5. EndOf(a) = EndOf(cur)
        BY <3>1
      <4> QED
        BY <1>4, <4>1, <4>2, <4>3, <4>4, <4>5
    <3>2. CASE a # cur
      <4>1. mem'[a] = mem[a]
        BY <1>6, <1>9, <3>2
      <4>2. FullSize(a)' = FullSize(a) /\ EndOf(a)' = EndOf(a)
        BY <1>8, <3>2, <4>1 DEF FullSize, EndOf
      <4> QED
        BY <4>1, <4>2 DEF Safe, Whole
    <3> QED
      BY <3>1, <3>2
  <2> QED
    BY <2>1 DEF Whole
<1>12. \A b \in L : mem'[b].free = mem[b].free
  BY <1>3, <1>5, <1>6, <1>9
<1>13. HeldBy(L)'
  BY <1>1, <1>12 DEF Safe, HeldBy, InUse, Releasing
<1>14. Call(L)'
  <2>1. \A b \in L : cur = NULL \/ b < cur => mem'[b].free = 0 \/ mem'[b].size < size
    BY <1>3, <1>4, <1>6, <1>9 DEF NULL
  <2> QED
    BY <1>1, <1>3, <1>4, <1>5, <1>6, <1>8, <1>9, <2>1 DEF Call, Allocating, Splitting
<1> QED
  BY <1>7, <1>10, <1>11, <1>13, <1>14 DEF Safe

(* What is known of the two parts while the block is cut, before and after *)
(* it is linked to the remainder. *)
LEMMA CutNextStep ==
  ASSUME TypeOK, NEW L, Safe(L), CutNext
  PROVE  TypeOK' /\ new \notin L /\ \E M : M = L \cup {new} /\ Safe(M)'
<1> DEFINE h == WithNext(cur, new)
<1>0. PICK M : M = L \cup {new}
  OBVIOUS
<1>1. pc = "cur.next" /\ pc' = "take.cut" /\ Store(cur, h)
      /\ UNCHANGED <<asked, cur, req, shown>>
  BY DEF CutNext, Step, Goto
<1>2. /\ cur \in L /\ cur \in DOMAIN mem /\ new \in DOMAIN mem
      /\ mem[cur].size = size /\ mem[cur].free = 1
      /\ mem[new].size \in Nat \ {0} /\ mem[new].free = 1
      /\ mem[new].next = mem[cur].next
      /\ req \in Requests
      /\ \A b \in L : b < cur => mem[b].free = 0 \/ mem[b].size < size
  BY <1>1 DEF Safe, Call, Allocating, Chain
<1>3. size \in Nat
  BY <1>2, SizeNat
<1>4. PICK rest \in Nat \ {0} : rest = mem[new].size
  BY <1>2
<1>5. PICK end : end = EndOf(cur)
  OBVIOUS
<1>6. /\ cur \in Nat /\ end \in Nat /\ end <= HEAP_SIZE
      /\ \A b \in L : b \in Nat
      /\ \A b \in L : b <= cur \/ end <= b
      /\ \A b \in L : b < cur => EndOf(b) <= cur
      /\ mem[cur].next # NULL => mem[cur].next \in L /\ mem[cur].next = end
  BY <1>2, <1>5, ChainOrder DEF Safe, Chain
<1>7. cur + HEADER + (size + HEADER + rest) = end
  <2>1. FullSize(cur) = size + HEADER + rest
    BY <1>1, <1>2, <1>4 DEF FullSize
  <2> QED
    BY <1>2, <1>5, <2>1 DEF Safe, Whole
<1>8. /\ new \in Nat /\ new = cur + HEADER + size /\ cur < new /\ new + HEADER + rest = end
      /\ new < end /\ new + HEADER <= HEAP_SIZE
  BY <1>3, <1>4, <1>6, <1>7, StepsAssumption DEF HEADER, new
<1>9. new \notin L
  BY <1>6, <1>8
<1>10. HeaderOK(h) /\ h.size = size /\ h.next = new /\ h.free = 1
  <2>1. new \in Numbers
    BY <1>8, StepsAssumption DEF Numbers, HEADER
  <2> QED
    BY <1>2, <2>1, WithOK, WithIs, TypeParts
<1> HIDE DEF h
<1>11. /\ DOMAIN mem' = DOMAIN mem
       /\ mem'[cur] = h
       /\ \A b \in DOMAIN mem \ {cur} : mem'[b] = mem[b]
  <2>1. cur \in DOMAIN mem /\ Store(cur, h)
    BY <1>1, <1>2
  <2> QED
    BY <2>1, StoreIs
<1>12. TypeOK'
  <2>1. MemOK(mem')
    BY <1>1, <1>2, <1>10, TypeParts, StoreOK DEF MemOK
  <2> QED
    BY <1>1, <2>1, TypeParts, TypePartsThen DEF CallOK, Labels
<1>13. new' = new /\ size' = size /\ cur' = cur
  BY <1>1 DEF new, size
<1>14. M \subseteq DOMAIN mem /\ mem'[new] = mem[new] /\ cur # new
  BY <1>0, <1>2, <1>8, <1>11 DEF Safe, Chain
<1>15. \A b \in L \ {cur} : mem'[b] = mem[b]
  BY <1>0, <1>11, <1>14
<1>16. ASSUME NEW a \in L, a # cur
       PROVE  /\ \/ mem[a].next = NULL /\ \A b \in M : b <= a
                 \/ /\ mem[a].next \in M
                    /\ a + HEADER <= mem[a].next
                    /\ \A b \in M : b <= a \/ mem[a].next <= b
  <2>1. PICK n : n = mem[a].next
    OBVIOUS
  <2>2. /\ a \in Nat
        /\ \/ n = NULL /\ \A b \in L : b <= a
           \/ n \in L /\ a + HEADER <= n /\ \A b \in L : b <= a \/ n <= b
    BY <2>1 DEF Safe, Chain
  <2>3. a < cur \/ end <= a
    BY <1>2, <1>6, <1>16
  <2>4. CASE n = NULL
    <3>1. end <= a
      BY <1>2, <1>6, <1>16, <2>1, <2>3, <2>4, <2>2 DEF NULL
    <3>2. \A b \in L : b <= a
      BY <1>6, <2>2, <2>4 DEF NULL
    <3> QED
      BY <1>0, <1>8, <1>6, <2>1, <2>2, <2>4, <3>1, <3>2
  <2>5. CASE n # NULL
    <3>1. n \in L /\ a + HEADER <= n /\ \A b \in L : b <= a \/ n <= b
      BY <2>2, <2>5
    <3>2. new <= a \/ n <= new
      <4>1. CASE end <= a
        BY <1>6, <1>8, <2>2, <4>1
      <4>2. CASE a < cur
        <5>1. n \in Nat /\ n <= cur
          BY <1>2, <1>6, <2>2, <3>1, <4>2
        <5> QED
          BY <1>6, <1>8, <5>1
      <4> QED
        BY <2>3, <4>1, <4>2
    <3> QED
      BY <1>0, <2>1, <3>1, <3>2
  <2> QED
    BY <2>4, <2>5
<1>17. \/ mem[new].next = NULL /\ \A b \in M : b <= new
       \/ /\ mem[new].next \in M
          /\ new + HEADER <= mem[new].next
          /\ \A b \in M : b <= new \/ mem[new].next <= b
  <2>1. CASE mem[cur].next = NULL
    <3>1. end = HEAP_SIZE
      BY <1>5, <2>1 DEF EndOf
    <3>2. \A b \in L : b + HEADER <= HEAP_SIZE /\ b <= cur
      BY <1>2, <2>1, <1>6, <3>1, StepsAssumption DEF Safe, Chain, HEADER
    <3>3. \A b \in M : b <= new
      BY <1>0, <1>6, <1>8, <3>2
    <3> QED
      BY <1>2, <2>1, <3>3
  <2>2. CASE mem[cur].next # NULL
    <3>1. mem[new].next \in L /\ mem[new].next = end
      BY <1>2, <1>6, <2>2
    <3>2. \A b \in M : b <= new \/ end <= b
      BY <1>0, <1>6, <1>8
    <3>3. new + HEADER <= end
      BY <1>8 DEF HEADER
    <3> QED
      BY <1>0, <3>1, <3>2, <3>3
  <2> QED
    BY <2>1, <2>2
<1>18. Chain(mem', M)
  <2>1. ASSUME NEW a \in M
        PROVE  /\ a \in Nat /\ a + HEADER <= HEAP_SIZE
               /\ \/ mem'[a].next = NULL /\ \A b \in M : b <= a
                  \/ /\ mem'[a].next \in M
                     /\ a + HEADER <= mem'[a].next
                     /\ \A b \in M : b <= a \/ mem'[a].next <= b
    <3>1. a \in Nat /\ a + HEADER <= HEAP_SIZE
      BY <1>0, <1>8 DEF Safe, Chain
    <3>2. CASE a = cur
      <4>1. mem'[a].next = new
        BY <1>10, <1>11, <3>2
      <4>2. \A b \in M : b <= cur \/ new <= b
        BY <1>0, <1>6, <1>8
      <4>3. cur + HEADER <= new
        BY <1>3, <1>6, <1>8 DEF HEADER
      <4> QED
        BY <1>0, <3>1, <3>2, <4>1, <4>2, <4>3
    <3>3. CASE a = new
      BY <3>1, <3>3, <1>14, <1>17
    <3>4. CASE a \in L \ {cur}
      BY <3>1, <3>4, <1>15, <1>16
    <3> QED
      BY <1>0, <3>2, <3>3, <3>4
  <2>2. 0 \in M /\ M \subseteq DOMAIN mem'
    BY <1>0, <1>11, <1>14 DEF Safe, Chain
  <2> QED
    BY <2>1, <2>2 DEF Chain
<1>19. Whole(M)'
  <2>1. \A a : FullSize(a)' = mem'[a].size
    BY <1>1 DEF FullSize
  <2>2. ASSUME NEW a \in M
        PROVE  mem'[a].size \in Nat /\ mem'[a].free \in {0, 1}
               /\ a + HEADER + mem'[a].size = EndOf(a)'
    <3>1. CASE a = cur
      <4>1. mem'[a].size = size /\ mem'[a].free = 1 /\ mem'[a].next = new
        BY <1>10, <1>11, <3>1
      <4>2. EndOf(a)' = new
        BY <1>8, <4>1 DEF EndOf, NULL
      <4> QED
        BY <1>3, <1>8, <3>1, <4>1, <4>2
    <3>2. CASE a = new
      <4>1. EndOf(a)' = end
        BY <1>2, <1>5, <1>14, <3>2 DEF EndOf
      <4> QED
        BY <1>2, <1>4, <1>8, <1>14, <3>2, <4>1
    <3>3. CASE a \in L \ {cur}
      <4>1. FullSize(a) = mem[a].size /\ EndOf(a)' = EndOf(a)
        BY <1>15, <3>3 DEF FullSize, EndOf
      <4> QED
        BY <1>15, <3>3, <4>1 DEF Safe, Whole
    <3> QED
      BY <1>0, <3>1, <3>2, <3>3
  <2> QED
    BY <2>1, <2>2 DEF Whole
<1>20. HeldBy(M)'
  <2>1. InUse(M)' = InUse(L)
    BY <1>0, <1>1, <1>2, <1>9, <1>10, <1>11, <1>14, <1>15 DEF InUse, Releasing
  <2> QED
    BY <1>1, <2>1 DEF Safe, HeldBy
<1>21. Call(M)'
  <2>1. \A b \in M : b < cur => mem'[b].free = 0 \/ mem'[b].size < size
    BY <1>0, <1>2, <1>6, <1>8, <1>15
  <2>2. cur # NULL
    BY <1>6 DEF NULL
  <2>3. cur \in M /\ new \in M
    BY <1>0, <1>2
  <2> QED
    BY <1>1, <1>2, <1>10, <1>11, <1>13, <1>14, <2>1, <2>2, <2>3 DEF Call, Allocating, Splitting
<1>22. Safe(M)'
  BY <1>18, <1>19, <1>20, <1>21 DEF Safe
<1> QED
  BY <1>0, <1>9, <1>12, <1>22

(* current->free = 0: the block is the caller's, and every header left in  *)
(* its payload is gone; none of them was on the list. *)
LEMMA TakeStep ==
  ASSUME TypeOK, NEW L, Safe(L), Take
  PROVE  /\ TypeOK' /\ Safe(L)'
         /\ \A b \in L \ {cur} : mem'[b] = mem[b]
         /\ cur \in L /\ mem'[cur] = Header(mem[cur].size, mem[cur].next, 0)
<1> DEFINE inside == {b \in DOMAIN mem : cur < b /\ b < cur + HEADER + mem[cur].size}
           h == WithFree(cur, 0)
<1>1. /\ pc \in {"take", "take.cut"} /\ pc' = "idle" /\ cur' = NULL /\ req' = 0
      /\ mem' = [b \in DOMAIN mem \ inside |-> IF b = cur THEN h ELSE mem[b]]
      /\ asked' = [p \in DOMAIN asked \cup {cur + HEADER} |->
                     IF p = cur + HEADER THEN req ELSE asked[p]]
      /\ shown' = shown
  BY DEF Take, Goto
<1>2. /\ cur \in L /\ cur \in DOMAIN mem /\ mem[cur].free = 1 /\ req \in Requests
  BY <1>1 DEF Safe, Call, Allocating, Splitting, Chain
<1>3. PICK end : end = EndOf(cur)
  OBVIOUS
<1>4. /\ cur \in Nat /\ end \in Nat
      /\ \A b \in L : b \in Nat
      /\ \A b \in L : b <= cur \/ end <= b
  BY <1>2, <1>3, ChainOrder DEF Safe, Chain
<1>5. cur + HEADER + mem[cur].size = end
  BY <1>1, <1>2, <1>3 DEF Safe, Whole, FullSize
<1>6. \A b \in L : b \in DOMAIN mem /\ b \notin inside
  BY <1>4, <1>5 DEF Safe, Chain
<1>7. cur \notin inside
  BY <1>4
<1>8. /\ h = Header(mem[cur].size, mem[cur].next, 0)
      /\ h.size = mem[cur].size /\ h.next = mem[cur].next /\ h.free = 0
      /\ HeaderOK(h)
  BY <1>2, WithOK, WithIs, TypeParts DEF WithFree, Header
<1> HIDE DEF h, inside
<1>9. /\ DOMAIN mem' = DOMAIN mem \ inside
      /\ mem'[cur] = h
      /\ \A b \in DOMAIN mem' \ {cur} : mem'[b] = mem[b]
  BY <1>1, <1>2, <1>7
<1>10. /\ L \subseteq DOMAIN mem'
       /\ \A b \in L \ {cur} : mem'[b] = mem[b]
       /\ \A b \in L : mem'[b].size = mem[b].size /\ mem'[b].next = mem[b].next
  BY <1>6, <1>8, <1>9
<1>11. TypeOK'
  <2>1. ASSUME NEW a \in DOMAIN mem' PROVE HeaderOK(mem'[a])
    <3>1. CASE a = cur
      BY <3>1, <1>8, <1>9
    <3>2. CASE a # cur
      BY <3>2, <1>9, TypeParts DEF MemOK
    <3> QED
      BY <3>1, <3>2
  <2>2. MemOK(mem')
    BY <1>9, <2>1, TypeParts DEF MemOK
  <2>3. asked' \in [DOMAIN asked' -> Requests]
    BY <1>1, <1>2, TypeParts DEF CallOK
  <2> QED
    BY <1>1, <2>2, <2>3, TypeParts, TypePartsThen DEF CallOK, Labels
<1>12. Chain(mem', L)
  BY <1>10, ChainKept DEF Safe
<1>13. Whole(L)'
  <2>1. ASSUME NEW a \in L
        PROVE  mem'[a].size \in Nat /\ mem'[a].free \in {0, 1}
               /\ a + HEADER + FullSize(a)' = EndOf(a)'
    <3>1. FullSize(a)' = FullSize(a) /\ EndOf(a)' = EndOf(a)
      BY <1>1, <1>10 DEF FullSize, EndOf
    <3>2. mem'[a].free \in {0, 1}
      BY <1>8, <1>9, <1>10 DEF Safe, Whole
    <3> QED
      BY <3>1, <3>2, <1>10 DEF Safe, Whole
  <2> QED
    BY <2>1 DEF Whole
<1>14. HeldBy(L)'
  <2>1. InUse(L)' = InUse(L) \cup {cur}
    BY <1>1, <1>2, <1>8, <1>9, <1>10 DEF InUse, Releasing
  <2>2. DOMAIN asked' = DOMAIN asked \cup {cur + HEADER}
    BY <1>1
  <2> QED
    BY <2>1, <2>2 DEF Safe, HeldBy
<1>15. Call(L)'
  BY <1>1 DEF Call, Allocating, Splitting
<1> QED
  BY <1>2, <1>8, <1>9, <1>10, <1>11, <1>12, <1>13, <1>14, <1>15 DEF Safe
-----------------------------------------------------------------------------
(* A held pointer is the payload of a block of the list that is in use. *)
LEMMA HeldBlock ==
  ASSUME NEW L, Safe(L), pc = "idle", NEW p \in DOMAIN asked
  PROVE  p - HEADER \in L /\ (p - HEADER) + HEADER = p /\ mem[p - HEADER].free = 0
<1>1. PICK a \in InUse(L) : p = a + HEADER
  BY DEF Safe, HeldBy
<1>2. a \in L /\ mem[a].free = 0 /\ a \in Nat
  BY <1>1 DEF InUse, Releasing, Safe, Chain
<1>3. p - HEADER = a
  BY <1>1, <1>2 DEF HEADER
<1> QED
  BY <1>1, <1>2, <1>3

(* block->free = 1: the caller's pointer is given up when kfree returns. *)
LEMMA KfreeCallStep ==
  ASSUME TypeOK, NEW L, Safe(L), KfreeCall
  PROVE  /\ TypeOK' /\ Safe(L)'
         /\ cur' \in L /\ mem[cur'].free = 0
         /\ mem'[cur'] = Header(mem[cur'].size, mem[cur'].next, 1)
         /\ \A b \in L \ {cur'} : mem'[b] = mem[b]
<1>1. PICK p \in DOMAIN asked : cur' = p - HEADER /\ Store(p - HEADER, WithFree(p - HEADER, 1))
  BY DEF KfreeCall
<1>2. pc = "idle" /\ pc' = "merge?" /\ asked' = asked /\ req' = req /\ shown' = shown
  BY DEF KfreeCall, Goto
<1>3. PICK a : a = p - HEADER
  OBVIOUS
<1> DEFINE h == WithFree(a, 1)
<1>4. a \in L /\ mem[a].free = 0 /\ cur' = a /\ Store(a, h)
  BY <1>1, <1>2, <1>3, HeldBlock
<1>5. a \in DOMAIN mem /\ a \in Numbers
  BY <1>4, TypeParts DEF Safe, Chain, MemOK
<1>6. /\ h = Header(mem[a].size, mem[a].next, 1)
      /\ h.size = mem[a].size /\ h.next = mem[a].next /\ h.free = 1
      /\ HeaderOK(h)
  BY <1>5, WithOK, WithIs, TypeParts DEF WithFree, Header
<1> HIDE DEF h
<1>7. /\ DOMAIN mem' = DOMAIN mem
      /\ mem'[a] = h
      /\ \A b \in DOMAIN mem \ {a} : mem'[b] = mem[b]
  BY <1>4, <1>5, StoreIs
<1>8. /\ L \subseteq DOMAIN mem'
      /\ \A b \in L \ {a} : mem'[b] = mem[b]
      /\ \A b \in L : mem'[b].size = mem[b].size /\ mem'[b].next = mem[b].next
  BY <1>6, <1>7 DEF Safe, Chain
<1>9. TypeOK'
  <2>1. MemOK(mem')
    BY <1>4, <1>5, <1>6, TypeParts, StoreOK
  <2> QED
    BY <1>2, <1>4, <1>5, <2>1, TypeParts, TypePartsThen DEF CallOK, Labels, Numbers
<1>10. Chain(mem', L)
  BY <1>8, ChainKept DEF Safe
<1>11. Whole(L)'
  <2>1. ASSUME NEW b \in L
        PROVE  mem'[b].size \in Nat /\ mem'[b].free \in {0, 1}
               /\ b + HEADER + FullSize(b)' = EndOf(b)'
    <3>1. FullSize(b)' = FullSize(b) /\ EndOf(b)' = EndOf(b)
      BY <1>2, <1>8 DEF FullSize, EndOf
    <3>2. mem'[b].free \in {0, 1}
      BY <1>6, <1>7, <1>8 DEF Safe, Whole
    <3> QED
      BY <3>1, <3>2, <1>8 DEF Safe, Whole
  <2> QED
    BY <2>1 DEF Whole
<1>12. HeldBy(L)'
  <2>1. InUse(L)' = InUse(L)
    BY <1>2, <1>4, <1>6, <1>7, <1>8 DEF InUse, Releasing
  <2> QED
    BY <1>2, <2>1 DEF Safe, HeldBy
<1>13. Call(L)'
  BY <1>2, <1>4, <1>6, <1>7 DEF Call, Allocating, Splitting
<1> QED
  BY <1>4, <1>6, <1>7, <1>8, <1>9, <1>10, <1>11, <1>12, <1>13 DEF Safe

(* kfree returns: the block it has freed is nobody's any more. *)
LEMMA ReleasedHeld ==
  ASSUME NEW L, Safe(L), MemOK(mem), Releasing, Released, NEW M,
         M \subseteq L, cur \in M, \A b \in L \ M : mem[b].free = 1,
         \A b \in M : mem'[b].free = mem[b].free
  PROVE  HeldBy(M)'
<1>1. pc' = "idle" /\ asked' = [q \in DOMAIN asked \ {cur + HEADER} |-> asked[q]]
  BY DEF Released, Goto
<1>2. \A b \in L : b \in Nat
  BY DEF Safe, Chain
<1>3. cur \in L /\ mem[cur].free = 1
  BY DEF Safe, Call, Releasing
<1>4. InUse(M)' = InUse(L) \ {cur}
  BY <1>1, <1>3 DEF InUse, Releasing
<1>5. DOMAIN asked' = DOMAIN asked \ {cur + HEADER}
  BY <1>1
<1>6. \A b \in InUse(L) : b + HEADER = cur + HEADER <=> b = cur
  BY <1>2, <1>3 DEF InUse, HEADER
<1> QED
  BY <1>4, <1>5, <1>6 DEF Safe, HeldBy

(* What kfree leaves when it returns is within the types.                  *)
LEMMA ReleasedTyped ==
  ASSUME CallOK, Released
  PROVE  CallOK'
<1>1. /\ pc' = "idle" /\ asked' = [q \in DOMAIN asked \ {cur + HEADER} |-> asked[q]]
      /\ cur' = NULL /\ req' = req /\ shown' = shown
  BY DEF Released, Goto
<1>2. asked' \in [DOMAIN asked' -> Requests]
  BY <1>1 DEF CallOK
<1> QED
  BY <1>1, <1>2 DEF CallOK, Labels

(* kfree returns without a merge.                                          *)
LEMMA NoMergeStep ==
  ASSUME TypeOK, NEW L, Safe(L), NoMerge
  PROVE  TypeOK' /\ Safe(L)'
<1>1. pc = "merge?" /\ mem' = mem /\ Released /\ pc' = "idle"
  BY DEF NoMerge, Released, Goto
<1>2. TypeOK'
  BY <1>1, ReleasedTyped, TypeParts, TypePartsThen
<1>3. Chain(mem', L) /\ Whole(L)'
  BY <1>1, ListKept DEF Safe, Chain
<1>4. HeldBy(L)'
  <2>1. cur \in L /\ Releasing
    BY <1>1 DEF Safe, Call, Releasing
  <2> QED
    BY <1>1, <2>1, ReleasedHeld, TypeParts
<1>5. Call(L)'
  BY <1>1 DEF Call, Allocating, Splitting
<1> QED
  BY <1>2, <1>3, <1>4, <1>5 DEF Safe

(* kfree finds the next block free.                                        *)
LEMMA MergeStep ==
  ASSUME TypeOK, NEW L, Safe(L), Merge
  PROVE  TypeOK' /\ Safe(L)'
<1>1. /\ pc = "merge?" /\ pc' = "merge.size" /\ NextIsFree
      /\ mem' = mem /\ asked' = asked /\ cur' = cur /\ req' = req /\ shown' = shown
  BY DEF Merge, Goto
<1>2. cur \in L /\ mem[cur].free = 1
  BY <1>1 DEF Safe, Call
<1>3. mem[cur].next # NULL /\ mem[mem[cur].next].free = 1
  <2>1. mem[cur].next # NULL /\ mem[mem[cur].next].free # 0
    BY <1>1 DEF NextIsFree
  <2>2. mem[cur].next \in L
    BY <1>2, <2>1, ChainOrder DEF Safe
  <2> QED
    BY <2>1, <2>2 DEF Safe, Whole
<1>4. TypeOK'
  BY <1>1, TypeParts, TypePartsThen DEF CallOK, Labels
<1>5. Chain(mem', L) /\ Whole(L)'
  BY <1>1, ListKept DEF Safe, Chain
<1>6. HeldBy(L)'
  BY <1>1 DEF Safe, HeldBy, InUse, Releasing
<1>7. Call(L)'
  BY <1>1, <1>2, <1>3 DEF Call, Allocating, Splitting
<1> QED
  BY <1>4, <1>5, <1>6, <1>7 DEF Safe

(* The two blocks of a merge: neighbours, the first ending where the       *)
(* second begins. *)
LEMMA Neighbours ==
  ASSUME NEW L, Safe(L), pc \in {"merge.size", "merge.next"}, NEW n, n = mem[cur].next
  PROVE  /\ cur \in L /\ n \in L /\ cur \in Nat /\ n \in Nat /\ n # NULL
         /\ mem[cur].free = 1 /\ mem[n].free = 1
         /\ cur < n /\ cur # n
         /\ n = EndOf(cur)
         /\ mem[n].size \in Nat /\ mem[cur].size \in Nat
         /\ n + HEADER + mem[n].size = EndOf(n)
         /\ EndOf(n) \in Nat /\ EndOf(n) <= HEAP_SIZE
<1>1. cur \in L /\ mem[cur].free = 1 /\ n # NULL /\ mem[n].free = 1
  BY DEF Safe, Call
<1>2. n \in L /\ n = EndOf(cur) /\ cur \in Nat /\ n \in Nat /\ cur + HEADER <= n
  BY <1>1, ChainOrder DEF Safe
<1>3. EndOf(n) \in Nat /\ EndOf(n) <= HEAP_SIZE
  BY <1>2, ChainOrder DEF Safe
<1>4. cur < n /\ cur # n
  BY <1>2 DEF HEADER
<1>5. mem[n].size \in Nat /\ mem[cur].size \in Nat /\ n + HEADER + mem[n].size = EndOf(n)
  BY <1>1, <1>2, <1>4 DEF Safe, Whole, FullSize
<1> QED
  BY <1>1, <1>2, <1>3, <1>4, <1>5

(* Between the two stores of a merge the freed block covers the next one,  *)
(* which is still on the list. *)
LEMMA MergeSizeStep ==
  ASSUME TypeOK, NEW L, Safe(L), MergeSize
  PROVE  TypeOK' /\ Safe(L)'
<1> DEFINE sum == mem[cur].size + mem[mem[cur].next].size + HEADER
           h == WithSize(cur, sum)
<1>1. pc = "merge.size" /\ pc' = "merge.next" /\ Store(cur, h)
      /\ UNCHANGED <<asked, cur, req, shown>>
  BY DEF MergeSize, Step, Goto
<1>2. PICK n : n = mem[cur].next
  OBVIOUS
<1>3. /\ cur \in L /\ n \in L /\ cur \in Nat /\ n \in Nat /\ n # NULL
      /\ mem[cur].free = 1 /\ mem[n].free = 1
      /\ cur < n /\ cur # n
      /\ n = EndOf(cur)
      /\ mem[n].size \in Nat /\ mem[cur].size \in Nat
      /\ n + HEADER + mem[n].size = EndOf(n)
      /\ EndOf(n) \in Nat /\ EndOf(n) <= HEAP_SIZE
  BY <1>1, <1>2, Neighbours
<1>4. cur + HEADER + mem[cur].size = n
  BY <1>1, <1>3 DEF Safe, Whole, FullSize
<1>5. sum \in Nat /\ sum \in Numbers /\ sum - mem[n].size - HEADER = mem[cur].size
  BY <1>2, <1>3, <1>4, StepsAssumption DEF Numbers, HEADER
<1> HIDE DEF sum
<1>6. cur \in DOMAIN mem
  BY <1>3 DEF Safe, Chain
<1>7. h.size = sum /\ h.next = n /\ h.free = 1 /\ HeaderOK(h)
  <2>1. \A v \in Numbers : HeaderOK(WithSize(cur, v))
    BY WithOK, TypeParts
  <2>2. h.size = sum /\ h.next = At(cur).next /\ h.free = At(cur).free
    BY DEF WithSize, Header
  <2>3. At(cur) = mem[cur]
    BY <1>6 DEF At
  <2> QED
    BY <1>2, <1>3, <1>5, <2>1, <2>2, <2>3
<1> HIDE DEF h
<1>8. /\ DOMAIN mem' = DOMAIN mem
      /\ mem'[cur] = h
      /\ \A b \in DOMAIN mem \ {cur} : mem'[b] = mem[b]
  <2>1. cur \in DOMAIN mem /\ Store(cur, h)
    BY <1>1, <1>6
  <2> QED
    BY <2>1, StoreIs
<1>9. /\ L \subseteq DOMAIN mem'
      /\ \A b \in L \ {cur} : mem'[b] = mem[b]
      /\ \A b \in L : mem'[b].free = mem[b].free /\ mem'[b].next = mem[b].next
  BY <1>2, <1>3, <1>7, <1>8 DEF Safe, Chain
<1>10. TypeOK'
  <2>1. cur \in Numbers
    BY <1>6, TypeParts DEF MemOK
  <2>2. MemOK(mem')
    BY <1>1, <1>7, <2>1, TypeParts, StoreOK
  <2> QED
    BY <1>1, <2>2, TypeParts, TypePartsThen DEF CallOK, Labels
<1>11. Chain(mem', L)
  BY <1>9, ChainKept DEF Safe
<1>12. Whole(L)'
  <2>1. ASSUME NEW b \in L
        PROVE  mem'[b].size \in Nat /\ mem'[b].free \in {0, 1}
               /\ b + HEADER + FullSize(b)' = EndOf(b)'
    <3>1. EndOf(b)' = EndOf(b)
      BY <1>9 DEF EndOf
    <3>2. CASE b = cur
      <4>1. cur' = cur /\ mem'[cur].size = sum /\ mem'[cur].next = n /\ mem'[n] = mem[n]
        BY <1>1, <1>3, <1>7, <1>8, <1>9
      <4>2. FullSize(b)' = sum - mem[n].size - HEADER
        BY <1>1, <3>2, <4>1 DEF FullSize
      <4>3. mem'[b].size = sum /\ mem'[b].free = 1
        BY <1>7, <1>8, <3>2
      <4> QED
        BY <1>3, <1>4, <1>5, <3>1, <3>2, <4>2, <4>3
    <3>3. CASE b # cur
      <4>1. FullSize(b)' = FullSize(b) /\ mem'[b] = mem[b]
        BY <1>1, <1>9, <3>3 DEF FullSize
      <4> QED
        BY <3>1, <4>1 DEF Safe, Whole
    <3> QED
      BY <3>2, <3>3
  <2> QED
    BY <2>1 DEF Whole
<1>13. HeldBy(L)'
  BY <1>1, <1>9 DEF Safe, HeldBy, InUse, Releasing
<1>14. Call(L)'
  <2>1. mem'[cur].next = n /\ mem'[n].free = 1 /\ mem'[cur].free = 1
    BY <1>2, <1>3, <1>9
  <2> QED
    BY <1>1, <1>3, <2>1 DEF Call, Allocating, Splitting
<1> QED
  BY <1>10, <1>11, <1>12, <1>13, <1>14 DEF Safe

(* The second store of a merge takes the next block off the list. *)
LEMMA MergeLinkStep ==
  ASSUME TypeOK, NEW L, Safe(L), MergeLink
  PROVE  TypeOK' /\ \E M : M = L \ {mem[cur].next} /\ Safe(M)'
<1>1. pc = "merge.next" /\ pc' = "idle" /\ Released
  BY DEF MergeLink, Released, Goto
<1>2. PICK n : n = mem[cur].next
  OBVIOUS
<1>3. /\ cur \in L /\ n \in L /\ cur \in Nat /\ n \in Nat /\ n # NULL
      /\ mem[cur].free = 1 /\ mem[n].free = 1
      /\ cur < n /\ cur # n
      /\ n = EndOf(cur)
      /\ mem[n].size \in Nat /\ mem[cur].size \in Nat
      /\ n + HEADER + mem[n].size = EndOf(n)
      /\ EndOf(n) \in Nat /\ EndOf(n) <= HEAP_SIZE
  BY <1>1, <1>2, Neighbours
<1> DEFINE h == WithNext(cur, mem[n].next)
<1>4. Store(cur, h)
  BY <1>2 DEF MergeLink
<1>5. cur \in DOMAIN mem /\ cur \in Numbers
  BY <1>3, TypeParts DEF Safe, Chain, MemOK
<1>6. mem[n].next \in {NULL} \cup Numbers
  <2>1. mem[n].next = NULL \/ mem[n].next \in L
    BY <1>3 DEF Safe, Chain
  <2> QED
    BY <2>1, TypeParts DEF Safe, Chain, MemOK
<1>7. h.size = mem[cur].size /\ h.next = mem[n].next /\ h.free = 1 /\ HeaderOK(h)
  <2>1. \A v \in {NULL} \cup Numbers : HeaderOK(WithNext(cur, v))
    BY WithOK, TypeParts
  <2>2. h.size = At(cur).size /\ h.next = mem[n].next /\ h.free = At(cur).free
    BY DEF WithNext, Header
  <2>3. At(cur) = mem[cur]
    BY <1>5 DEF At
  <2> QED
    BY <1>3, <1>6, <2>1, <2>2, <2>3
<1> HIDE DEF h
<1>8. /\ DOMAIN mem' = DOMAIN mem
      /\ mem'[cur] = h
      /\ \A b \in DOMAIN mem \ {cur} : mem'[b] = mem[b]
  <2>1. cur \in DOMAIN mem /\ Store(cur, h)
    BY <1>4, <1>5
  <2> QED
    BY <2>1, StoreIs
<1>9. PICK M : M = L \ {n}
  OBVIOUS
<1>10. /\ M \subseteq DOMAIN mem' /\ M \subseteq L /\ cur \in M
       /\ \A b \in M \ {cur} : mem'[b] = mem[b]
       /\ \A b \in M : mem'[b].free = mem[b].free /\ mem'[b].size = mem[b].size
  BY <1>3, <1>7, <1>8, <1>9 DEF Safe, Chain
<1>11. TypeOK'
  <2>1. MemOK(mem')
    BY <1>4, <1>5, <1>7, TypeParts, StoreOK
  <2> QED
    BY <1>1, <2>1, ReleasedTyped, TypeParts, TypePartsThen
<1>12. ASSUME NEW a \in L PROVE /\ a \in Nat /\ EndOf(a) \in Nat /\ EndOf(a) <= HEAP_SIZE
                                /\ a + HEADER <= EndOf(a)
                                /\ \A b \in L : b <= a \/ EndOf(a) <= b
                                /\ mem[a].next # NULL => mem[a].next \in L /\ mem[a].next = EndOf(a)
                                /\ mem[a].next = NULL => EndOf(a) = HEAP_SIZE
  BY ChainOrder DEF Safe, EndOf
<1>13. ASSUME NEW a \in M, a # cur
       PROVE  EndOf(a) # n /\ mem[a].next # n
  <2>1. a \in L /\ a # n
    BY <1>9
  <2>2. a <= cur \/ n <= a
    BY <1>3, <1>12, <2>1
  <2>3. cur <= a \/ EndOf(a) <= cur
    BY <1>3, <1>12, <2>1
  <2>4. a \in Nat /\ EndOf(a) \in Nat /\ a + HEADER <= EndOf(a)
    BY <1>12, <2>1
  <2>5. EndOf(a) # n
    BY <1>3, <1>13, <2>1, <2>2, <2>3, <2>4 DEF HEADER
  <2> QED
    BY <1>3, <1>12, <2>1, <2>5
<1>14. ASSUME NEW a \in M
       PROVE  /\ EndOf(a)' = (IF a = cur THEN EndOf(n) ELSE EndOf(a))
              /\ mem'[a].next # NULL => mem'[a].next \in M /\ mem'[a].next = EndOf(a)'
              /\ mem'[a].next = NULL => EndOf(a)' = HEAP_SIZE
  <2>1. CASE a = cur
    <3>1. mem'[a].next = mem[n].next
      BY <1>7, <1>8, <2>1
    <3>2. EndOf(a)' = EndOf(n)
      BY <3>1 DEF EndOf
    <3>3. mem[n].next # n
      BY <1>3, <1>12 DEF HEADER
    <3> QED
      BY <1>3, <1>9, <1>12, <2>1, <3>1, <3>2, <3>3
  <2>2. CASE a # cur
    <3>1. mem'[a].next = mem[a].next /\ EndOf(a)' = EndOf(a)
      BY <1>10, <2>2 DEF EndOf
    <3> QED
      BY <1>9, <1>12, <1>13, <2>2, <3>1
  <2> QED
    BY <2>1, <2>2
<1>15. Chain(mem', M)
  <2>1. ASSUME NEW a \in M
        PROVE  /\ a \in Nat /\ a + HEADER <= HEAP_SIZE
               /\ \/ mem'[a].next = NULL /\ \A b \in M : b <= a
                  \/ /\ mem'[a].next \in M
                     /\ a + HEADER <= mem'[a].next
                     /\ \A b \in M : b <= a \/ mem'[a].next <= b
    <3>1. PICK e : e = EndOf(a)'
      OBVIOUS
    <3>2. /\ a \in Nat /\ a + HEADER <= HEAP_SIZE /\ e \in Nat /\ e <= HEAP_SIZE
          /\ a + HEADER <= e /\ \A b \in M : b <= a \/ e <= b
      <4>1. CASE a = cur
        <5>1. e = EndOf(n)
          BY <1>14, <3>1, <4>1
        <5>2. \A b \in L : (b <= n \/ EndOf(n) <= b) /\ (b <= cur \/ n <= b) /\ b \in Nat
          BY <1>3, <1>12
        <5>3. \A b \in M : b <= cur \/ e <= b
          BY <1>3, <1>9, <5>1, <5>2
        <5>4. n + HEADER <= EndOf(n)
          BY <1>3, <1>12
        <5> QED
          BY <1>3, <4>1, <5>1, <5>3, <5>4, StepsAssumption DEF HEADER
      <4>2. CASE a # cur
        <5>1. e = EndOf(a)
          BY <1>14, <3>1, <4>2
        <5> QED
          BY <1>9, <1>12, <5>1, StepsAssumption DEF HEADER
      <4> QED
        BY <4>1, <4>2
    <3>3. CASE mem'[a].next = NULL
      <4>1. e = HEAP_SIZE
        BY <1>14, <3>1, <3>3
      <4>2. \A b \in M : b \in Nat /\ b + HEADER <= HEAP_SIZE
        BY <1>9 DEF Safe, Chain
      <4>3. \A b \in M : b <= a
        BY <3>2, <4>1, <4>2, StepsAssumption DEF HEADER
      <4> QED
        BY <3>2, <3>3, <4>3
    <3>4. CASE mem'[a].next # NULL
      BY <1>14, <3>1, <3>2, <3>4
    <3> QED
      BY <3>3, <3>4
  <2>2. 0 \in M
    BY <1>3, <1>9 DEF Safe, Chain
  <2> QED
    BY <1>10, <2>1, <2>2 DEF Chain
<1>16. Whole(M)'
  <2>1. ASSUME NEW a \in M
        PROVE  mem'[a].size \in Nat /\ mem'[a].free \in {0, 1}
               /\ a + HEADER + FullSize(a)' = EndOf(a)'
    <3>1. FullSize(a)' = mem'[a].size
      BY <1>1 DEF FullSize
    <3>2. mem'[a].size \in Nat /\ mem'[a].free \in {0, 1} /\ mem'[a].size = mem[a].size
      BY <1>9, <1>10 DEF Safe, Whole
    <3>3. CASE a = cur
      <4>1. FullSize(cur) = mem[cur].size - mem[n].size - HEADER
        BY <1>1, <1>2 DEF FullSize
      <4>2. cur + HEADER + FullSize(cur) = n
        BY <1>3 DEF Safe, Whole
      <4>3. cur + HEADER + mem[cur].size = EndOf(n)
        <5>1. PICK x \in Nat, y \in Nat : x = mem[cur].size /\ y = mem[n].size
          BY <1>3
        <5>2. cur + HEADER + (x - y - HEADER) = n /\ n + HEADER + y = EndOf(n)
          BY <1>3, <4>1, <4>2, <5>1
        <5> QED
          BY <1>3, <5>1, <5>2 DEF HEADER
      <4> QED
        BY <1>14, <3>1, <3>2, <3>3, <4>3
    <3>4. CASE a # cur
      <4>1. FullSize(a) = mem[a].size
        BY <3>4 DEF FullSize
      <4>2. a + HEADER + FullSize(a) = EndOf(a)
        BY <1>9 DEF Safe, Whole
      <4> QED
        BY <1>14, <3>1, <3>2, <3>4, <4>1, <4>2
    <3> QED
      BY <3>3, <3>4
  <2> QED
    BY <2>1 DEF Whole
<1>17. HeldBy(M)'
  <2>1. Releasing /\ \A b \in L \ M : mem[b].free = 1
    BY <1>1, <1>3, <1>9 DEF Releasing
  <2> QED
    BY <1>1, <1>10, <2>1, ReleasedHeld, TypeParts
<1>18. Call(M)'
  BY <1>1 DEF Call, Allocating, Splitting
<1> QED
  BY <1>2, <1>9, <1>11, <1>15, <1>16, <1>17, <1>18 DEF Safe
-----------------------------------------------------------------------------
(* Offsets of headers are numbers.                                         *)
LEMMA OffsetsNat == MemOK(mem) => DOMAIN mem \subseteq Nat
  BY StepsAssumption DEF MemOK, Numbers

(* The walk meets a list that a step has left safe. *)
LEMMA Reached ==
  ASSUME TypeOK', NEW M, Safe(M)'
  PROVE  Visited' = M /\ StepsInv'
<1>1. Chain(mem', M)
  BY DEF Safe
<1>2. DOMAIN mem' \subseteq Nat
  BY TypePartsThen, StepsAssumption DEF MemOK, Numbers
<1>3. Visited' = M
  BY <1>1, <1>2, VisitedThen
<1> QED
  BY <1>3 DEF StepsInv

(* memory_init leaves one free block, and no call has begun. *)
LEMMA InitSafe == Init => StepsInv
<1> SUFFICES ASSUME Init PROVE StepsInv
  OBVIOUS
<1>1. /\ DOMAIN mem = {0}
      /\ mem[0] = Header(HEAP_SIZE - HEADER, NULL, 1)
      /\ DOMAIN asked = {}
      /\ pc = "idle"
  BY DEF Init
<1>2. /\ mem[0].size = HEAP_SIZE - HEADER
      /\ mem[0].next = NULL
      /\ mem[0].free = 1
  BY <1>1 DEF Header
<1>3. TypeOK
  <2>1. asked \in [DOMAIN asked -> Requests]
    BY DEF Init
  <2> QED
    BY <1>1, <1>2, <2>1, StepsAssumption DEF Init, TypeOK, Labels, HEADER, NULL
<1>4. PICK L : L = {0}
  OBVIOUS
<1>5. Chain(mem, L)
  BY <1>1, <1>2, <1>4, StepsAssumption DEF Chain, HEADER
<1>6. Whole(L)
  BY <1>1, <1>2, <1>4, StepsAssumption DEF Whole, FullSize, EndOf, HEADER
<1>7. HeldBy(L)
  BY <1>1, <1>2, <1>4 DEF HeldBy, InUse, Releasing
<1>8. Call(L)
  BY <1>1 DEF Call, Allocating, Splitting
<1>9. Visited = L
  BY <1>1, <1>5, VisitedNow
<1> QED
  BY <1>3, <1>5, <1>6, <1>7, <1>8, <1>9 DEF StepsInv, Safe

(* A timer tick in between touches nothing that kmalloc and kfree use, and *)
(* a step that changes nothing keeps everything. *)
LEMMA MainKept ==
  ASSUME TypeOK, NEW L, Safe(L), UNCHANGED main, shown' \in Nat
  PROVE  TypeOK' /\ Safe(L)'
<1>1. /\ mem' = mem /\ asked' = asked /\ pc' = pc /\ cur' = cur /\ req' = req
  BY DEF main
<1>2. TypeOK'
  BY <1>1 DEF TypeOK
<1>3. Safe(L)'
  BY <1>1 DEF Safe, Chain, Whole, FullSize, EndOf, HeldBy, InUse, Releasing,
              Call, new, size
<1> QED
  BY <1>2, <1>3

(* The sizes of blocks of the list add up to a number. *)
LEMMA SizesNat ==
  ASSUME TypeOK, NEW L, Safe(L), NEW A \in SUBSET L
  PROVE  /\ A \in SUBSET Nat /\ IsFiniteSet(A)
         /\ \A a \in A : mem[a].size \in Nat
         /\ SizesOf(A) = SumFunctionOnSet([a \in L |-> mem[a].size], A)
         /\ SizesOf(A) \in Nat
<1> DEFINE f == [a \in L |-> mem[a].size]
           g == [a \in A |-> mem[a].size]
<1>1. A \subseteq 0 .. HEAP_SIZE /\ A \subseteq Nat
  BY StepsAssumption DEF TypeOK, Safe, Chain
<1>2. IsFiniteSet(A)
  <2>1. IsFiniteSet(0 .. HEAP_SIZE)
    BY StepsAssumption, FS_Interval
  <2> QED
    BY <1>1, <2>1, FS_Subset
<1>3. \A a \in A : mem[a].size \in Nat
  BY DEF Safe, Whole
<1>4. \A a \in A : f[a] = g[a] /\ g[a] \in Nat
  BY <1>3
<1>5. SizesOf(A) = SumFunctionOnSet(g, A)
  BY DEF SizesOf, SumFunction
<1>6. SumFunctionOnSet(f, A) = SumFunctionOnSet(g, A) /\ SumFunctionOnSet(g, A) \in Nat
  <2> HIDE DEF f, g
  <2> QED
    BY <1>2, <1>4, SumSame, SumNat
<1> QED
  BY <1>1, <1>2, <1>3, <1>5, <1>6

(* A tick that redraws shows a sum of sizes of the list.                   *)
LEMMA TimerStep ==
  ASSUME TypeOK, NEW L, Safe(L), L = Visited, TimerRedraw
  PROVE  TypeOK' /\ Safe(L)'
<1>1. {a \in Visited : mem[a].free # 0} \in SUBSET L
  OBVIOUS
<1>2. shown' \in Nat /\ UNCHANGED main
  BY <1>1, SizesNat DEF TimerRedraw, WalkFree
<1> QED
  BY <1>2, MainKept

(* Every store, every step along the list and every tick keeps the         *)
(* invariant. *)
LEMMA NextSafe == ASSUME StepsInv, [Next]_vars PROVE StepsInv'
<1>1. PICK L : L = Visited /\ Safe(L)
  BY DEF StepsInv
<1>2. TypeOK
  BY DEF StepsInv
<1>3. CASE KmallocCall
  BY <1>1, <1>2, <1>3, KmallocCallStep, Reached
<1>4. CASE SearchOn
  BY <1>1, <1>2, <1>4, SearchOnStep, Reached
<1>5. CASE SearchFail
  BY <1>1, <1>2, <1>5, SearchFailStep, Reached
<1>6. CASE SearchHit
  BY <1>1, <1>2, <1>6, SearchHitStep, Reached
<1>7. CASE SplitSize
  BY <1>1, <1>2, <1>7, SplitSizeStep, Reached
<1>8. CASE SplitNext
  BY <1>1, <1>2, <1>8, SplitNextStep, Reached
<1>9. CASE SplitFree
  BY <1>1, <1>2, <1>9, SplitFreeStep, Reached
<1>10. CASE CutSize
  BY <1>1, <1>2, <1>10, CutSizeStep, Reached
<1>11. CASE CutNext
  <2>1. TypeOK' /\ \E M : Safe(M)'
    BY <1>1, <1>2, <1>11, CutNextStep
  <2> QED
    BY <2>1, Reached
<1>12. CASE Take
  BY <1>1, <1>2, <1>12, TakeStep, Reached
<1>13. CASE KfreeCall
  BY <1>1, <1>2, <1>13, KfreeCallStep, Reached
<1>14. CASE NoMerge
  BY <1>1, <1>2, <1>14, NoMergeStep, Reached
<1>15. CASE Merge
  BY <1>1, <1>2, <1>15, MergeStep, Reached
<1>16. CASE MergeSize
  BY <1>1, <1>2, <1>16, MergeSizeStep, Reached
<1>17. CASE MergeLink
  <2>1. TypeOK' /\ \E M : Safe(M)'
    BY <1>1, <1>2, <1>17, MergeLinkStep
  <2> QED
    BY <2>1, Reached
<1>18. CASE TimerRedraw
  BY <1>1, <1>2, <1>18, TimerStep, Reached
<1>19. CASE UNCHANGED vars
  <2>1. UNCHANGED main /\ shown' \in Nat
    BY <1>2, <1>19 DEF vars, main, TypeOK
  <2> QED
    BY <1>1, <1>2, <2>1, MainKept, Reached
<1> QED
  BY <1>3, <1>4, <1>5, <1>6, <1>7, <1>8, <1>9, <1>10, <1>11, <1>12, <1>13,
     <1>14, <1>15, <1>16, <1>17, <1>18, <1>19 DEF Next, Kmalloc, Kfree

(* Whatever is allocated and freed, and wherever the timer interrupts, the *)
(* list that its walk meets is whole.                                      *)
THEOREM StepsSafe == Spec => []StepsInv
<1> QED
  BY InitSafe, NextSafe, PTL DEF Spec

(* The headers, the pointers and the registers of the calls of memory.c    *)
(* keep to their ranges.                                                   *)
THEOREM StepsTypeOK == Spec => []TypeOK
<1>1. StepsInv => TypeOK
  BY DEF StepsInv
<1> QED
  BY <1>1, StepsSafe, PTL

(* A walk that starts at any instant ends, and reads no field that has not *)
(* been written.                                                           *)
THEOREM StepsWalkSafe == Spec => []WalkSafe
<1>1. ASSUME StepsInv PROVE WalkSafe
  <2>1. PICK L : L = Visited /\ Safe(L)
    BY <1>1 DEF StepsInv
  <2>2. DOMAIN mem \subseteq Nat
    BY <1>1, TypeParts, OffsetsNat DEF StepsInv
  <2>3. Visit[MaxBlocks + 1] = NULL /\ MaxBlocks + 1 \in 0 .. MaxBlocks + 1
    BY <2>1, <2>2, VisitedNow, BlocksNat DEF Safe
  <2>4. ASSUME NEW a \in Visited
        PROVE  /\ a \in DOMAIN mem
               /\ mem[a].size # Junk /\ mem[a].next # Junk /\ mem[a].free # Junk
    <3>1. a \in L /\ a \in DOMAIN mem
      BY <2>1 DEF Safe, Chain
    <3>2. mem[a].size \in Nat /\ mem[a].free \in {0, 1}
      BY <2>1, <3>1 DEF Safe, Whole
    <3>3. mem[a].next = NULL \/ mem[a].next \in Nat
      BY <2>1, <3>1 DEF Safe, Chain
    <3> QED
      BY <3>1, <3>2, <3>3 DEF Junk, NULL
  <2> QED
    BY <2>3, <2>4 DEF WalkSafe
<1> QED
  BY <1>1, StepsSafe, PTL

(* At every instant the blocks the walk counts as used are those that      *)
(* callers hold, and their sizes are what it shows.                        *)
THEOREM StepsUsedExact == Spec => []UsedExact
<1>1. ASSUME StepsInv PROVE UsedExact
  <2>1. PICK L : L = Visited /\ Safe(L)
    BY <1>1 DEF StepsInv
  <2>2. \A a \in L : a \in Nat
    BY <2>1 DEF Safe, Chain
  <2>3. {p - HEADER : p \in DOMAIN asked} = InUse(L)
    <3>1. DOMAIN asked = {a + HEADER : a \in InUse(L)}
      BY <2>1 DEF Safe, HeldBy
    <3>2. \A a \in InUse(L) : (a + HEADER) - HEADER = a
      BY <2>2 DEF InUse, HEADER
    <3> QED
      BY <3>1, <3>2
  <2>4. Releasing => mem[cur].free = 1
    BY <2>1 DEF Safe, Call, Releasing
  <2>5. HeldBlocks = {a \in L : mem[a].free = 0}
    BY <2>3, <2>4 DEF HeldBlocks, InUse
  <2> QED
    BY <2>1, <2>5 DEF UsedExact, WalkUsed
<1> QED
  BY <1>1, StepsSafe, PTL

(* What the memory line shows as free and as used never overlaps, outside  *)
(* the one window of a merge.                                              *)
THEOREM StepsNoByteTwice == Spec => []NoByteTwice
<1>1. ASSUME StepsInv, pc # "merge.next"
      PROVE  WalkFree + WalkUsed + HEADER * Cardinality(Visited) <= HEAP_SIZE
  <2>1. PICK L : L = Visited /\ Safe(L)
    BY <1>1 DEF StepsInv
  <2>2. TypeOK
    BY <1>1 DEF StepsInv
  <2> DEFINE f == [a \in L |-> mem[a].size]
             A == {a \in L : mem[a].free # 0}
             B == {a \in L : mem[a].free = 0}
  <2>3. /\ L \in SUBSET Nat /\ IsFiniteSet(L)
        /\ \A a \in L : f[a] \in Nat
    BY <2>1, <2>2, SizesNat
  <2>4. A \in SUBSET L /\ B \in SUBSET L /\ L \ A = B
    OBVIOUS
  <2>5. /\ WalkFree = SumFunctionOnSet(f, A) /\ WalkFree \in Nat
        /\ WalkUsed = SumFunctionOnSet(f, B) /\ WalkUsed \in Nat
    <3>1. WalkFree = SizesOf(A) /\ WalkUsed = SizesOf(B)
      BY <2>1 DEF WalkFree, WalkUsed
    <3> HIDE DEF A, B
    <3> QED
      BY <2>1, <2>2, <2>4, <3>1, SizesNat
  <2>6. ASSUME NEW a \in L PROVE a + HEADER + f[a] <= EndOf(a)
    <3>1. a + HEADER + FullSize(a) = EndOf(a) /\ mem[a].size \in Nat
      BY <2>1 DEF Safe, Whole
    <3>2. CASE a = cur /\ pc = "cur.next"
      <4>1. PICK x, y : x = mem[a].size /\ y = mem[new].size
        OBVIOUS
      <4>2. FullSize(a) = x + HEADER + y
        BY <3>2, <4>1 DEF FullSize
      <4>3. y \in Nat /\ x \in Nat
        BY <2>1, <3>1, <3>2, <4>1 DEF Safe, Call
      <4>4. a \in Nat /\ f[a] = x
        BY <2>3, <4>1
      <4>5. a + HEADER + (x + HEADER + y) = EndOf(a)
        BY <3>1, <4>2
      <4> HIDE DEF f
      <4> QED
        BY <4>3, <4>4, <4>5 DEF HEADER
    <3>3. CASE ~(a = cur /\ pc = "cur.next")
      <4>1. FullSize(a) = mem[a].size
        BY <1>1, <3>3 DEF FullSize
      <4>2. a \in Nat
        BY <2>3
      <4> QED
        BY <3>1, <4>1, <4>2 DEF HEADER
    <3> QED
      BY <3>2, <3>3
  <2>7. \A a \in L : a + HEADER + f[a] <= HEAP_SIZE
    <3> SUFFICES ASSUME NEW a \in L PROVE a + HEADER + f[a] <= HEAP_SIZE
      OBVIOUS
    <3>1. EndOf(a) \in Nat /\ EndOf(a) <= HEAP_SIZE
      BY <2>1, ChainOrder DEF Safe
    <3>2. a \in Nat /\ f[a] \in Nat
      BY <2>3
    <3> HIDE DEF f
    <3> QED
      BY <2>6, <3>1, <3>2, StepsAssumption DEF HEADER
  <2>8. \A a, b \in L : a < b => a + HEADER + f[a] <= b
    <3> SUFFICES ASSUME NEW a \in L, NEW b \in L, a < b PROVE a + HEADER + f[a] <= b
      OBVIOUS
    <3>1. EndOf(a) \in Nat /\ EndOf(a) <= b
      BY <2>1, <2>3, ChainOrder DEF Safe
    <3>2. a \in Nat /\ b \in Nat /\ f[a] \in Nat
      BY <2>3
    <3> HIDE DEF f
    <3> QED
      BY <2>6, <3>1, <3>2 DEF HEADER
  <2>9. SumFunctionOnSet(f, L) + HEADER * Cardinality(L) <= HEAP_SIZE
    <3>1. HEADER \in Nat /\ HEAP_SIZE \in Nat
      BY StepsAssumption DEF HEADER
    <3> HIDE DEF f
    <3> QED
      BY <2>3, <2>7, <2>8, <3>1, Packed
  <2>10. SumFunctionOnSet(f, L) = SumFunctionOnSet(f, A) + SumFunctionOnSet(f, L \ A)
    <3> HIDE DEF f, A
    <3> QED
      BY <2>3, <2>4, SumParts
  <2>11. Cardinality(L) \in Nat
    BY <2>3, FS_CardinalityType
  <2> HIDE DEF f, A, B
  <2> QED
    BY <2>1, <2>4, <2>5, <2>9, <2>10, <2>11, StepsAssumption DEF HEADER
<1>2. StepsInv => NoByteTwice
  BY <1>1 DEF NoByteTwice
<1> QED
  BY <1>2, StepsSafe, PTL
-----------------------------------------------------------------------------
(* The blocks of KHeap behind the list: a call in progress has not begun   *)
(* for them, whatever it has stored so far. *)
Blocks(L) == IF pc = "take.cut" THEN L \ {new} ELSE L

Before(a) == [size |-> SizeBefore(a), next |-> NextBefore(a), free |-> FreeBefore(a)]

(* The mapped list, over the blocks the walk meets now.                    *)
LEMMA UndoneIs ==
  ASSUME NEW L, L = Visited
  PROVE  Undone = [a \in Blocks(L) |-> Before(a)]
  BY DEF Undone, Blocks, Before

(* The same of the state a step leaves.                                    *)
LEMMA UndoneThen ==
  ASSUME NEW M, M = Visited'
  PROVE  Undone' = [a \in Blocks(M)' |-> Before(a)']
  BY DEF Undone, Blocks, Before

(* The mapped list is the same if each of its headers is.                  *)
LEMMA UndoneKept ==
  ASSUME NEW L, L = Visited, NEW M, M = Visited', Blocks(M)' = Blocks(L),
         \A a \in Blocks(L) : /\ SizeBefore(a)' = SizeBefore(a)
                              /\ NextBefore(a)' = NextBefore(a)
                              /\ FreeBefore(a)' = FreeBefore(a)
  PROVE  Undone' = Undone
<1>1. \A a \in Blocks(L) : Before(a)' = Before(a)
  BY DEF Before
<1> QED
  BY <1>1, UndoneIs, UndoneThen

(* What most steps do: nothing to a header of the list. *)
Halfway == {"cur.next", "take.cut", "merge.next"}

(* So it is when no header on the list was stored to.                      *)
LEMMA ListUntouched ==
  ASSUME NEW L, L = Visited, L = Visited', \A a \in L : mem'[a] = mem[a],
         pc \notin Halfway, pc' \notin Halfway,
         Releasing' <=> Releasing, Releasing => cur' = cur
  PROVE  Undone' = Undone
<1>1. Blocks(L)' = L /\ Blocks(L) = L
  BY DEF Blocks, Halfway
<1>2. ASSUME NEW a \in L
      PROVE  /\ SizeBefore(a)' = SizeBefore(a)
             /\ NextBefore(a)' = NextBefore(a)
             /\ FreeBefore(a)' = FreeBefore(a)
  <2>1. mem'[a] = mem[a]
    OBVIOUS
  <2>2. SizeBefore(a)' = mem'[a].size /\ SizeBefore(a) = mem[a].size
    BY DEF SizeBefore, Halfway
  <2>3. NextBefore(a)' = mem'[a].next /\ NextBefore(a) = mem[a].next
    BY DEF NextBefore, Halfway
  <2>4. FreeBefore(a)' = FreeBefore(a)
    BY <2>1 DEF FreeBefore
  <2> QED
    BY <2>1, <2>2, <2>3, <2>4
<1> QED
  BY <1>1, <1>2, UndoneKept

(* The calls, the search and the decision to merge change no header.       *)
LEMMA SearchStutters ==
  ASSUME TypeOK, NEW L, L = Visited, Safe(L),
         KmallocCall \/ SearchOn \/ SearchFail \/ SearchHit \/ Merge
  PROVE  Undone' = Undone /\ asked' = asked
<1>1. TypeOK' /\ Safe(L)'
  BY KmallocCallStep, SearchOnStep, SearchFailStep, SearchHitStep, MergeStep
<1>2. L = Visited'
  BY <1>1, Reached
<1>3. mem' = mem /\ asked' = asked
  BY DEF KmallocCall, SearchOn, SearchFail, SearchHit, Merge
<1>4. /\ pc \notin Halfway /\ pc' \notin Halfway
      /\ Releasing' <=> Releasing
      /\ Releasing => cur' = cur
  BY DEF KmallocCall, SearchOn, SearchFail, SearchHit, Merge, Goto, Halfway, Releasing
<1> QED
  BY <1>2, <1>3, <1>4, ListUntouched

(* The header of the remainder is written where the list has none.         *)
LEMMA SplitStutters ==
  ASSUME TypeOK, NEW L, L = Visited, Safe(L), SplitSize \/ SplitNext \/ SplitFree
  PROVE  Undone' = Undone /\ asked' = asked
<1>1. TypeOK' /\ Safe(L)'
  BY SplitSizeStep, SplitNextStep, SplitFreeStep
<1>2. L = Visited'
  BY <1>1, Reached
<1>3. /\ \E h : Store(new, h)
      /\ pc \in {"new.size", "new.next", "new.free"}
      /\ pc' \in {"new.next", "new.free", "cur.size"}
      /\ asked' = asked
  BY DEF SplitSize, SplitNext, SplitFree, Step, Goto
<1>4. new \notin L
  BY <1>3, NewBlock DEF Splitting
<1>5. \A a \in L : mem'[a] = mem[a]
  BY <1>3, <1>4, StoreIs DEF Safe, Chain
<1>6. /\ pc \notin Halfway /\ pc' \notin Halfway
      /\ ~Releasing' /\ ~Releasing
  BY <1>3 DEF Halfway, Releasing
<1> QED
  BY <1>2, <1>3, <1>5, <1>6, ListUntouched

(* A block that is cut and its remainder are the block it was.             *)
LEMMA CutSizeStutters ==
  ASSUME TypeOK, NEW L, L = Visited, Safe(L), CutSize
  PROVE  Undone' = Undone /\ asked' = asked
<1>1. TypeOK' /\ Safe(L)'
  BY CutSizeStep
<1>2. L = Visited'
  BY <1>1, Reached
<1>3. /\ Store(cur, WithSize(cur, size)) /\ pc = "cur.size" /\ pc' = "cur.next"
      /\ asked' = asked /\ cur' = cur /\ req' = req
  BY DEF CutSize, Step, Goto
<1>4. /\ size \in Nat /\ cur \in L /\ mem[cur].size \in Nat
      /\ new \notin L /\ cur # new
  BY <1>3, NewBlock DEF Splitting
<1>5. /\ new' = new /\ size' = size
  BY <1>3 DEF new, size
<1>6. /\ cur \in DOMAIN mem
      /\ new \in DOMAIN mem /\ mem[new].size = mem[cur].size - size - HEADER
  BY <1>3, <1>4 DEF Safe, Chain, Call, Splitting
<1>7. /\ mem'[cur] = WithSize(cur, size)
      /\ mem'[new] = mem[new]
      /\ \A a \in L \ {cur} : mem'[a] = mem[a]
  BY <1>3, <1>4, <1>6, StoreIs DEF Safe, Chain
<1>8. mem'[cur].size = size /\ mem'[cur].next = mem[cur].next /\ mem'[cur].free = mem[cur].free
  BY <1>6, <1>7, WithIs
<1>9. Blocks(L)' = L /\ Blocks(L) = L
  BY <1>3 DEF Blocks
<1>10. SizeBefore(cur)' = SizeBefore(cur)
  <2>1. SizeBefore(cur)' = size + HEADER + mem[new].size
    BY <1>3, <1>5, <1>7, <1>8 DEF SizeBefore
  <2>2. SizeBefore(cur) = mem[cur].size
    BY <1>3 DEF SizeBefore
  <2>3. size + HEADER + (mem[cur].size - size - HEADER) = mem[cur].size
    BY <1>4 DEF HEADER
  <2> QED
    BY <1>6, <2>1, <2>2, <2>3
<1>11. ASSUME NEW a \in L
       PROVE  /\ SizeBefore(a)' = SizeBefore(a)
              /\ NextBefore(a)' = NextBefore(a)
              /\ FreeBefore(a)' = FreeBefore(a)
  <2>1. SizeBefore(a)' = SizeBefore(a)
    BY <1>3, <1>7, <1>10 DEF SizeBefore
  <2>2. mem'[a].next = mem[a].next /\ mem'[a].free = mem[a].free
    BY <1>7, <1>8
  <2> QED
    BY <1>3, <2>1, <2>2 DEF NextBefore, FreeBefore, Releasing
<1> QED
  BY <1>2, <1>3, <1>9, <1>11, UndoneKept

(* Linked into the list, the remainder is still part of the block.         *)
LEMMA CutNextStutters ==
  ASSUME TypeOK, NEW L, L = Visited, Safe(L), CutNext
  PROVE  Undone' = Undone /\ asked' = asked
<1>1. /\ Store(cur, WithNext(cur, new)) /\ pc = "cur.next" /\ pc' = "take.cut"
      /\ asked' = asked /\ cur' = cur /\ req' = req
  BY DEF CutNext, Step, Goto
<1>2. PICK M : M = L \cup {new} /\ Safe(M)' /\ TypeOK' /\ new \notin L
  BY CutNextStep
<1>3. M = Visited'
  BY <1>2, Reached
<1>4. new' = new /\ size' = size
  BY <1>1 DEF new, size
<1>5. Blocks(M)' = L /\ Blocks(L) = L
  BY <1>1, <1>2, <1>4 DEF Blocks
<1>6. /\ cur \in L /\ cur \in DOMAIN mem /\ new \in DOMAIN mem
      /\ mem[new].next = mem[cur].next /\ cur # new
  BY <1>1, <1>2 DEF Safe, Chain, Call
<1>7. /\ mem'[cur] = WithNext(cur, new)
      /\ mem'[new] = mem[new]
      /\ \A a \in L \ {cur} : mem'[a] = mem[a]
  <2>1. /\ mem'[cur] = WithNext(cur, new)
        /\ \A b \in DOMAIN mem \ {cur} : mem'[b] = mem[b]
    BY <1>1, StoreIs
  <2>2. L \subseteq DOMAIN mem
    BY DEF Safe, Chain
  <2> QED
    BY <1>6, <2>1, <2>2
<1>8. mem'[cur].size = mem[cur].size /\ mem'[cur].free = mem[cur].free
  BY <1>6, <1>7, WithIs
<1>9. ASSUME NEW a \in L
      PROVE  /\ SizeBefore(a)' = SizeBefore(a)
             /\ NextBefore(a)' = NextBefore(a)
             /\ FreeBefore(a)' = FreeBefore(a)
  <2>1. CASE a = cur
    <3>1. SizeBefore(a)' = SizeBefore(a)
      BY <1>1, <1>4, <1>7, <1>8, <2>1 DEF SizeBefore
    <3>2. NextBefore(a)' = mem'[new].next /\ NextBefore(a) = mem[a].next
      BY <1>1, <1>4, <2>1 DEF NextBefore
    <3>3. FreeBefore(a)' = FreeBefore(a)
      BY <1>1, <1>8, <2>1 DEF FreeBefore, Releasing
    <3> QED
      BY <1>6, <1>7, <2>1, <3>1, <3>2, <3>3
  <2>2. CASE a # cur
    <3>1. mem'[a] = mem[a]
      BY <1>7, <2>2
    <3> QED
      BY <1>1, <2>2, <3>1 DEF SizeBefore, NextBefore, FreeBefore, Releasing
  <2> QED
    BY <2>1, <2>2
<1> QED
  BY <1>1, <1>3, <1>5, <1>9, UndoneKept

(* kfree's free flag is not out until kfree is done.                       *)
LEMMA KfreeCallStutters ==
  ASSUME TypeOK, NEW L, L = Visited, Safe(L), KfreeCall
  PROVE  Undone' = Undone /\ asked' = asked
<1>1. /\ TypeOK' /\ Safe(L)'
      /\ cur' \in L /\ mem[cur'].free = 0
      /\ mem'[cur'] = Header(mem[cur'].size, mem[cur'].next, 1)
      /\ \A a \in L \ {cur'} : mem'[a] = mem[a]
  BY KfreeCallStep
<1>2. L = Visited'
  BY <1>1, Reached
<1>3. pc = "idle" /\ pc' = "merge?" /\ asked' = asked
  BY DEF KfreeCall, Goto
<1>4. Blocks(L)' = L /\ Blocks(L) = L
  BY <1>3 DEF Blocks
<1>5. ASSUME NEW a \in L
      PROVE  /\ SizeBefore(a)' = SizeBefore(a)
             /\ NextBefore(a)' = NextBefore(a)
             /\ FreeBefore(a)' = FreeBefore(a)
  <2>1. SizeBefore(a)' = mem'[a].size /\ SizeBefore(a) = mem[a].size
    BY <1>3 DEF SizeBefore
  <2>2. NextBefore(a)' = mem'[a].next /\ NextBefore(a) = mem[a].next
    BY <1>3 DEF NextBefore
  <2>3. CASE a = cur'
    <3>1. mem'[a].size = mem[a].size /\ mem'[a].next = mem[a].next
      BY <1>1, <2>3 DEF Header
    <3>2. FreeBefore(a)' = FALSE /\ FreeBefore(a) = FALSE
      BY <1>1, <1>3, <2>3 DEF FreeBefore, Releasing
    <3> QED
      BY <2>1, <2>2, <3>1, <3>2
  <2>4. CASE a # cur'
    <3>1. mem'[a] = mem[a]
      BY <1>1, <2>4
    <3>2. FreeBefore(a)' = FreeBefore(a)
      BY <1>3, <2>4, <3>1 DEF FreeBefore, Releasing
    <3> QED
      BY <2>1, <2>2, <3>1, <3>2
  <2> QED
    BY <2>3, <2>4
<1> QED
  BY <1>2, <1>3, <1>4, <1>5, UndoneKept

(* The grown size is not out until the absorbed block is off the list.     *)
LEMMA MergeSizeStutters ==
  ASSUME TypeOK, NEW L, L = Visited, Safe(L), MergeSize
  PROVE  Undone' = Undone /\ asked' = asked
<1> DEFINE sum == mem[cur].size + mem[mem[cur].next].size + HEADER
<1>1. /\ Store(cur, WithSize(cur, sum)) /\ pc = "merge.size" /\ pc' = "merge.next"
      /\ asked' = asked /\ cur' = cur
  BY DEF MergeSize, Step, Goto
<1>2. TypeOK' /\ Safe(L)'
  BY MergeSizeStep
<1>3. L = Visited'
  BY <1>2, Reached
<1>4. PICK n : n = mem[cur].next
  OBVIOUS
<1>5. /\ cur \in L /\ n \in L /\ cur # n
      /\ mem[cur].size \in Nat /\ mem[n].size \in Nat
  BY <1>1, <1>4, Neighbours
<1>6. /\ mem'[cur] = WithSize(cur, sum)
      /\ \A a \in L \ {cur} : mem'[a] = mem[a]
      /\ cur \in DOMAIN mem
  BY <1>1, <1>5, StoreIs DEF Safe, Chain
<1>7. mem'[cur].size = sum /\ mem'[cur].next = n /\ mem'[cur].free = mem[cur].free
  BY <1>4, <1>6, WithIs
<1>8. Blocks(L)' = L /\ Blocks(L) = L
  BY <1>1 DEF Blocks
<1>9. SizeBefore(cur)' = SizeBefore(cur)
  <2>1. PICK x \in Nat, y \in Nat : x = mem[cur].size /\ y = mem[n].size
    BY <1>5
  <2>2. SizeBefore(cur)' = sum - mem'[n].size - HEADER
    BY <1>1, <1>7 DEF SizeBefore
  <2>3. mem'[n].size = y /\ sum = x + y + HEADER
    BY <1>4, <1>5, <1>6, <2>1
  <2>4. SizeBefore(cur) = x
    BY <1>1, <2>1 DEF SizeBefore
  <2>5. (x + y + HEADER) - y - HEADER = x
    BY DEF HEADER
  <2> HIDE DEF sum
  <2> QED
    BY <2>2, <2>3, <2>4, <2>5
<1>10. ASSUME NEW a \in L
       PROVE  /\ SizeBefore(a)' = SizeBefore(a)
              /\ NextBefore(a)' = NextBefore(a)
              /\ FreeBefore(a)' = FreeBefore(a)
  <2>1. SizeBefore(a)' = SizeBefore(a)
    BY <1>1, <1>6, <1>9 DEF SizeBefore
  <2>2. mem'[a].next = mem[a].next /\ mem'[a].free = mem[a].free
    BY <1>4, <1>6, <1>7
  <2> QED
    BY <1>1, <2>1, <2>2 DEF NextBefore, FreeBefore, Releasing
<1> QED
  BY <1>1, <1>3, <1>8, <1>10, UndoneKept

(* Nor does a tick change anything of the list.                            *)
LEMMA MainStutters ==
  ASSUME NEW L, L = Visited, L = Visited', UNCHANGED main
  PROVE  Undone' = Undone /\ asked' = asked
<1>1. mem' = mem /\ pc' = pc /\ cur' = cur /\ req' = req /\ asked' = asked
  BY DEF main
<1>2. new' = new
  BY <1>1 DEF new, size
<1>3. Blocks(L)' = Blocks(L)
  BY <1>1, <1>2 DEF Blocks
<1>4. ASSUME NEW a
      PROVE  /\ SizeBefore(a)' = SizeBefore(a)
             /\ NextBefore(a)' = NextBefore(a)
             /\ FreeBefore(a)' = FreeBefore(a)
  BY <1>1, <1>2 DEF SizeBefore, NextBefore, FreeBefore, Releasing
<1> QED
  BY <1>1, <1>3, <1>4, UndoneKept
-----------------------------------------------------------------------------
(* The blocks KHeap sees when a call takes effect. *)
LEMMA BlockIs ==
  ASSUME NEW L, L = Visited, NEW a \in Blocks(L)
  PROVE  /\ DOMAIN Undone = Blocks(L)
         /\ Undone[a] = Before(a)
         /\ Undone[a].size = SizeBefore(a)
         /\ Undone[a].next = NextBefore(a)
         /\ Undone[a].free = FreeBefore(a)
  BY UndoneIs DEF Before

(* Between calls the blocks are what memory says. *)
LEMMA IdleThen ==
  ASSUME NEW M, M = Visited', pc' = "idle"
  PROVE  Undone' = [a \in M |-> [size |-> mem'[a].size, next |-> mem'[a].next,
                                 free |-> mem'[a].free # 0]]
<1>1. Blocks(M)' = M
  BY DEF Blocks
<1>2. ASSUME NEW a
      PROVE  Before(a)' = [size |-> mem'[a].size, next |-> mem'[a].next,
                           free |-> mem'[a].free # 0]
  <2>1. SizeBefore(a)' = mem'[a].size
    BY DEF SizeBefore
  <2>2. NextBefore(a)' = mem'[a].next
    BY DEF NextBefore
  <2>3. FreeBefore(a)' = (mem'[a].free # 0)
    BY DEF FreeBefore, Releasing
  <2> QED
    BY <2>1, <2>2, <2>3 DEF Before
<1> QED
  BY <1>1, <1>2, UndoneThen

(* A header of which the free flag alone is set.                           *)
LEMMA FlagSet ==
  ASSUME NEW s, NEW n, NEW f, NEW q, NEW h, h = [size |-> s, next |-> n, free |-> f]
  PROVE  [h EXCEPT !.free = q] = [size |-> s, next |-> n, free |-> q]
  OBVIOUS

(* A block that fits, none that fits before it: kmalloc's first fit.       *)
LEMMA TakeFits ==
  ASSUME NEW L, L = Visited, Safe(L), pc \in {"take", "take.cut"},
         cur \in Blocks(L), SizeBefore(cur) >= size
  PROVE  Atomic!FirstFit(cur, size)
<1>1. /\ cur \in L /\ mem[cur].free = 1
      /\ \A b \in L : b < cur => mem[b].free = 0 \/ mem[b].size < size
      /\ \A b \in L : b \in Nat /\ mem[b].size \in Nat
      /\ size \in Nat
  <2>1. cur \in L /\ mem[cur].free = 1 /\ req \in Requests
    BY DEF Safe, Call, Allocating
  <2>2. cur # NULL
    BY <2>1 DEF Safe, Chain, NULL
  <2> QED
    BY <2>1, <2>2, SizeNat DEF Safe, Call, Chain, Whole, Allocating
<1>2. FreeBefore(cur)
  BY <1>1 DEF FreeBefore, Releasing
<1>3. ASSUME NEW b \in Blocks(L), b < cur
      PROVE  ~(FreeBefore(b) /\ SizeBefore(b) >= size)
  <2>1. b \in L /\ b # cur
    BY <1>1, <1>3 DEF Blocks
  <2>2. SizeBefore(b) = mem[b].size
    BY <2>1 DEF SizeBefore
  <2> QED
    BY <1>1, <1>3, <2>1, <2>2 DEF FreeBefore
<1>4. /\ cur \in DOMAIN Undone
      /\ Undone[cur].free /\ Undone[cur].size >= size
      /\ \A b \in DOMAIN Undone : b < cur => ~(Undone[b].free /\ Undone[b].size >= size)
  BY <1>2, <1>3, BlockIs
<1> QED
  BY <1>4 DEF Atomic!FirstFit, Atomic!Fits

(* kmalloc takes effect when it clears the free flag: on a block it uses   *)
(* whole, *)
LEMMA TakeWholeMaps ==
  ASSUME TypeOK, NEW L, L = Visited, Safe(L), Take, pc = "take"
  PROVE  req \in Requests /\ Atomic!Kmalloc(req)
<1>1. /\ TypeOK' /\ Safe(L)'
      /\ \A b \in L \ {cur} : mem'[b] = mem[b]
      /\ cur \in L /\ mem'[cur] = Header(mem[cur].size, mem[cur].next, 0)
  BY TakeStep
<1>2. L = Visited' /\ pc' = "idle"
  BY <1>1, Reached DEF Take, Goto
<1>3. /\ req \in Requests /\ size \in Nat
      /\ mem[cur].size \in size .. (size + HEADER)
  BY SizeNat DEF Safe, Call, Allocating
<1>4. Blocks(L) = L
  BY DEF Blocks
<1>5. \A a \in L : SizeBefore(a) = mem[a].size /\ NextBefore(a) = mem[a].next
                   /\ FreeBefore(a) = (mem[a].free # 0)
  BY DEF SizeBefore, NextBefore, FreeBefore, Releasing
<1>6. Undone = [a \in L |-> [size |-> mem[a].size, next |-> mem[a].next,
                             free |-> mem[a].free # 0]]
  BY <1>4, <1>5, UndoneIs DEF Before
<1>7. Undone' = [a \in L |-> [size |-> mem'[a].size, next |-> mem'[a].next,
                              free |-> mem'[a].free # 0]]
  BY <1>2, IdleThen
<1>8. Atomic!FirstFit(cur, size)
  BY <1>1, <1>3, <1>4, <1>5, TakeFits DEF HEADER
<1>9. ~Atomic!CanSplit(cur, size)
  BY <1>1, <1>3, <1>6 DEF Atomic!CanSplit, Atomic!HEADER, HEADER
<1>10. Atomic!TakeWhole(cur)
  <2>1. ASSUME NEW b \in L
        PROVE  Undone'[b] = IF b = cur THEN [Undone[cur] EXCEPT !.free = FALSE] ELSE Undone[b]
    <3>1. CASE b = cur
      <4>1. Undone[cur] = [size |-> mem[cur].size, next |-> mem[cur].next,
                           free |-> mem[cur].free # 0]
        BY <1>1, <1>6
      <4>2. Undone'[cur] = [size |-> mem'[cur].size, next |-> mem'[cur].next,
                            free |-> mem'[cur].free # 0]
        BY <1>1, <1>7
      <4>3. /\ mem'[cur].size = mem[cur].size /\ mem'[cur].next = mem[cur].next
            /\ (mem'[cur].free # 0) = FALSE
        BY <1>1 DEF Header
      <4>4. Undone'[cur] = [size |-> mem[cur].size, next |-> mem[cur].next, free |-> FALSE]
        BY <4>2, <4>3, Zenon
      <4>5. [Undone[cur] EXCEPT !.free = FALSE]
              = [size |-> mem[cur].size, next |-> mem[cur].next, free |-> FALSE]
        <5>1. PICK h, q : h = Undone[cur] /\ q = FALSE
          OBVIOUS
        <5>2. [h EXCEPT !.free = q]
                = [size |-> mem[cur].size, next |-> mem[cur].next, free |-> q]
          <6>1. h = [size |-> mem[cur].size, next |-> mem[cur].next,
                     free |-> mem[cur].free # 0]
            BY <4>1, <5>1
          <6> QED
            BY <6>1, FlagSet
        <5> QED
          BY <5>1, <5>2, Zenon
      <4> QED
        BY <3>1, <4>4, <4>5, Zenon
    <3>2. CASE b # cur
      BY <1>1, <1>6, <1>7, <3>2
    <3> QED
      BY <3>1, <3>2
  <2>2. DOMAIN Undone = L /\ Undone' = [b \in L |-> Undone'[b]]
    BY <1>6, <1>7
  <2> QED
    BY <2>1, <2>2 DEF Atomic!TakeWhole
<1>11. asked' = [p \in DOMAIN asked \cup {Atomic!Payload(cur)} |->
                   IF p = Atomic!Payload(cur) THEN req ELSE asked[p]]
  BY DEF Take, Atomic!Payload, Atomic!HEADER, HEADER
<1>12. size = Atomic!RoundUp8(req)
  BY DEF size, RoundUp8, Atomic!RoundUp8
<1>13. cur \in DOMAIN Undone
  BY <1>1, <1>6
<1> HIDE DEF size
<1> QED
  BY <1>3, <1>8, <1>9, <1>10, <1>11, <1>12, <1>13 DEF Atomic!Kmalloc

(* and on one it has cut in two.                                           *)
LEMMA TakeSplitMaps ==
  ASSUME TypeOK, NEW L, L = Visited, Safe(L), Take, pc = "take.cut"
  PROVE  req \in Requests /\ Atomic!Kmalloc(req)
<1>1. /\ TypeOK' /\ Safe(L)'
      /\ \A b \in L \ {cur} : mem'[b] = mem[b]
      /\ cur \in L /\ mem'[cur] = Header(mem[cur].size, mem[cur].next, 0)
  BY TakeStep
<1>2. L = Visited' /\ pc' = "idle"
  BY <1>1, Reached DEF Take, Goto
<1>3. /\ req \in Requests /\ size \in Nat /\ cur \in Nat
      /\ mem[cur].size = size /\ mem[cur].next = new
      /\ mem[new].size \in Nat \ {0} /\ mem[new].free = 1
  BY <1>1, SizeNat DEF Safe, Call, Chain, Allocating
<1>4. new \in L /\ cur # new /\ new \in Nat
  <2>1. new \in Nat /\ cur < new
    BY <1>3 DEF new, HEADER
  <2> QED
    BY <1>1, <1>3, <2>1 DEF Safe, Chain, NULL
<1>5. PICK m \in Nat \ {0} : m = mem[new].size
  BY <1>3
<1>6. /\ Blocks(L) = L \ {new} /\ cur \in Blocks(L)
      /\ SizeBefore(cur) = size + HEADER + m
      /\ NextBefore(cur) = mem[new].next
      /\ FreeBefore(cur)
  <2>1. FreeBefore(cur)
    BY <1>1 DEF Safe, Call, FreeBefore, Releasing
  <2> QED
    BY <1>1, <1>3, <1>4, <1>5, <2>1 DEF Blocks, SizeBefore, NextBefore
<1>7. \A a \in L \ {cur} : /\ SizeBefore(a) = mem[a].size
                           /\ NextBefore(a) = mem[a].next
                           /\ FreeBefore(a) = (mem[a].free # 0)
  BY DEF SizeBefore, NextBefore, FreeBefore, Releasing
<1>8. /\ DOMAIN Undone = L \ {new}
      /\ Undone[cur].size = size + HEADER + m
      /\ Undone[cur].next = mem[new].next
      /\ \A a \in L \ {cur, new} :
           Undone[a] = [size |-> mem[a].size, next |-> mem[a].next, free |-> mem[a].free # 0]
  <2>1. \A a \in L \ {cur, new} : Undone[a] = Before(a)
    BY <1>6, BlockIs
  <2>2. \A a \in L \ {cur, new} :
          Before(a) = [size |-> mem[a].size, next |-> mem[a].next, free |-> mem[a].free # 0]
    BY <1>7 DEF Before
  <2> QED
    BY <1>6, <2>1, <2>2, BlockIs
<1>9. Undone' = [a \in L |-> [size |-> mem'[a].size, next |-> mem'[a].next,
                              free |-> mem'[a].free # 0]]
  BY <1>2, IdleThen
<1>10. Atomic!FirstFit(cur, size)
  BY <1>3, <1>6, TakeFits DEF HEADER
<1>11. Atomic!CanSplit(cur, size)
  BY <1>3, <1>8 DEF Atomic!CanSplit, Atomic!HEADER, HEADER
<1>12. Atomic!Payload(cur) + size = new /\ Atomic!Payload(cur) = cur + HEADER
  BY DEF Atomic!Payload, Atomic!HEADER, HEADER, new
<1>13. Atomic!Remainder(cur, size) = m
  BY <1>3, <1>8 DEF Atomic!Remainder, Atomic!HEADER, HEADER
<1>14. Atomic!TakeSplit(cur, size)
  <2> DEFINE R(b) == IF b = cur THEN [size |-> size, next |-> new, free |-> FALSE]
                     ELSE IF b = new
                          THEN [size |-> m, next |-> mem[new].next, free |-> TRUE]
                          ELSE Undone[b]
  <2>1. ASSUME NEW b \in L PROVE Undone'[b] = R(b)
    <3>0. Undone'[b] = [size |-> mem'[b].size, next |-> mem'[b].next,
                        free |-> mem'[b].free # 0]
      BY <1>9
    <3>1. CASE b = cur
      <4>1. /\ mem'[b].size = size /\ mem'[b].next = new
            /\ (mem'[b].free # 0) = FALSE
        BY <1>1, <1>3, <3>1 DEF Header
      <4> QED
        BY <3>0, <3>1, <4>1, Zenon
    <3>2. CASE b = new
      <4>1. /\ mem'[b].size = m /\ mem'[b].next = mem[new].next
            /\ (mem'[b].free # 0) = TRUE
        BY <1>1, <1>3, <1>4, <1>5, <3>2
      <4> QED
        BY <1>4, <3>0, <3>2, <4>1, Zenon
    <3>3. CASE b # cur /\ b # new
      BY <1>1, <1>8, <1>9, <3>3
    <3> QED
      BY <3>1, <3>2, <3>3
  <2>2. Undone' = [b \in DOMAIN Undone \cup {new} |-> R(b)]
    <3>1. DOMAIN Undone \cup {new} = L
      BY <1>4, <1>8
    <3> HIDE DEF R
    <3> QED
      BY <1>9, <2>1, <3>1
  <2> QED
    BY <1>8, <1>12, <1>13, <2>2 DEF Atomic!TakeSplit
<1>15. asked' = [p \in DOMAIN asked \cup {Atomic!Payload(cur)} |->
                   IF p = Atomic!Payload(cur) THEN req ELSE asked[p]]
  BY DEF Take, Atomic!Payload, Atomic!HEADER, HEADER
<1>16. size = Atomic!RoundUp8(req)
  BY DEF size, RoundUp8, Atomic!RoundUp8
<1>17. cur \in DOMAIN Undone
  BY <1>1, <1>4, <1>8
<1> HIDE DEF size
<1> QED
  BY <1>3, <1>10, <1>11, <1>14, <1>15, <1>16, <1>17 DEF Atomic!Kmalloc

(* kfree takes effect when it returns: without a merge,                    *)
LEMMA NoMergeMaps ==
  ASSUME TypeOK, NEW L, L = Visited, Safe(L), NoMerge
  PROVE  \E p \in DOMAIN asked : Atomic!Kfree(p)
<1>1. /\ pc = "merge?" /\ pc' = "idle" /\ mem' = mem /\ ~NextIsFree
      /\ asked' = [q \in DOMAIN asked \ {cur + HEADER} |-> asked[q]]
  BY DEF NoMerge, Released, Goto
<1>2. TypeOK' /\ Safe(L)'
  BY NoMergeStep
<1>3. L = Visited'
  BY <1>2, Reached
<1>4. /\ cur \in L /\ cur \in Nat /\ mem[cur].free = 1
      /\ mem[cur].next = NULL \/ mem[cur].next \in L
  BY <1>1 DEF Safe, Call, Chain
<1>5. cur + HEADER \in DOMAIN asked
  BY <1>1, <1>4 DEF Safe, HeldBy, InUse, Releasing
<1>6. Blocks(L) = L
  BY <1>1 DEF Blocks
<1>7. \A a \in L : /\ SizeBefore(a) = mem[a].size
                   /\ NextBefore(a) = mem[a].next
                   /\ FreeBefore(a) = (mem[a].free # 0 /\ a # cur)
  BY <1>1 DEF SizeBefore, NextBefore, FreeBefore, Releasing
<1>8. Undone = [a \in L |-> [size |-> mem[a].size, next |-> mem[a].next,
                             free |-> mem[a].free # 0 /\ a # cur]]
  BY <1>6, <1>7, UndoneIs DEF Before
<1>9. Undone' = [a \in L |-> [size |-> mem[a].size, next |-> mem[a].next,
                              free |-> mem[a].free # 0]]
  BY <1>1, <1>3, IdleThen
<1>10. ~Atomic!CanMerge(cur)
  <2>1. Undone[cur].next = mem[cur].next
    BY <1>4, <1>8
  <2>2. CASE mem[cur].next = NULL
    BY <2>1, <2>2 DEF Atomic!CanMerge, Atomic!NULL, NULL
  <2>3. CASE mem[cur].next # NULL
    <3>1. PICK n \in L : n = mem[cur].next
      BY <1>4, <2>3
    <3>2. mem[n].free = 0
      BY <1>1, <2>3, <3>1 DEF NextIsFree
    <3>3. Undone[n].free = (mem[n].free # 0 /\ n # cur)
      BY <1>8
    <3>4. ~Undone[n].free
      BY <3>2, <3>3
    <3> QED
      BY <2>1, <3>1, <3>4 DEF Atomic!CanMerge
  <2> QED
    BY <2>2, <2>3
<1>11. Atomic!JustFree(cur)
  <2>1. ASSUME NEW b \in L
        PROVE  Undone'[b] = IF b = cur THEN [Undone[cur] EXCEPT !.free = TRUE] ELSE Undone[b]
    <3>0. Undone'[b] = [size |-> mem[b].size, next |-> mem[b].next, free |-> mem[b].free # 0]
      BY <1>9
    <3>1. CASE b = cur
      <4>1. (mem[b].free # 0) = TRUE
        BY <1>4, <3>1
      <4>2. Undone'[b] = [size |-> mem[b].size, next |-> mem[b].next, free |-> TRUE]
        BY <3>0, <4>1, Zenon
      <4>3. PICK h, q : h = Undone[cur] /\ q = TRUE
        OBVIOUS
      <4>4. [h EXCEPT !.free = q] = [size |-> mem[cur].size, next |-> mem[cur].next, free |-> q]
        <5>1. h = [size |-> mem[cur].size, next |-> mem[cur].next,
                   free |-> mem[cur].free # 0 /\ cur # cur]
          BY <1>4, <1>8, <4>3
        <5> QED
          BY <5>1, FlagSet
      <4> QED
        BY <3>1, <4>2, <4>3, <4>4, Zenon
    <3>2. CASE b # cur
      <4>1. Undone[b] = [size |-> mem[b].size, next |-> mem[b].next,
                         free |-> mem[b].free # 0 /\ b # cur]
        BY <1>8
      <4>2. (mem[b].free # 0 /\ b # cur) = (mem[b].free # 0)
        BY <3>2
      <4> QED
        BY <3>0, <3>2, <4>1, <4>2, Zenon
    <3> QED
      BY <3>1, <3>2
  <2>2. DOMAIN Undone = L /\ Undone' = [b \in L |-> Undone'[b]]
    BY <1>8, <1>9
  <2> QED
    BY <2>1, <2>2 DEF Atomic!JustFree
<1>12. (cur + HEADER) - Atomic!HEADER = cur
  BY <1>4 DEF HEADER, Atomic!HEADER
<1> QED
  BY <1>1, <1>5, <1>10, <1>11, <1>12 DEF Atomic!Kfree

(* and when it has taken the next block off the list.                      *)
LEMMA MergeLinkMaps ==
  ASSUME TypeOK, NEW L, L = Visited, Safe(L), MergeLink
  PROVE  \E p \in DOMAIN asked : Atomic!Kfree(p)
<1>0. PICK n : n = mem[cur].next
  OBVIOUS
<1>1. /\ pc = "merge.next" /\ pc' = "idle"
      /\ Store(cur, WithNext(cur, mem[n].next))
      /\ asked' = [q \in DOMAIN asked \ {cur + HEADER} |-> asked[q]]
  BY <1>0 DEF MergeLink, Released, Goto
<1>2. PICK M : M = L \ {n} /\ TypeOK' /\ Safe(M)'
  BY <1>0, MergeLinkStep
<1>3. M = Visited'
  BY <1>2, Reached
<1>4. /\ cur \in L /\ cur \in Nat /\ mem[cur].free = 1
      /\ n \in L /\ n # NULL /\ mem[n].free = 1 /\ cur # n
      /\ mem[cur].size \in Nat /\ mem[n].size \in Nat
  BY <1>0, <1>1, Neighbours
<1>5. cur + HEADER \in DOMAIN asked
  BY <1>1, <1>4 DEF Safe, HeldBy, InUse, Releasing
<1>6. Blocks(L) = L
  BY <1>1 DEF Blocks
<1>7. /\ \A a \in L \ {cur} : /\ SizeBefore(a) = mem[a].size
                              /\ NextBefore(a) = mem[a].next
                              /\ FreeBefore(a) = (mem[a].free # 0)
      /\ SizeBefore(cur) = mem[cur].size - mem[n].size - HEADER
      /\ NextBefore(cur) = n
  BY <1>0, <1>1 DEF SizeBefore, NextBefore, FreeBefore, Releasing
<1>8. /\ DOMAIN Undone = L
      /\ Undone[cur].size = mem[cur].size - mem[n].size - HEADER
      /\ Undone[cur].next = n
      /\ \A a \in L \ {cur} :
           Undone[a] = [size |-> mem[a].size, next |-> mem[a].next, free |-> mem[a].free # 0]
  <2>1. \A a \in L \ {cur} : Undone[a] = Before(a)
    BY <1>6, BlockIs
  <2>2. \A a \in L \ {cur} :
          Before(a) = [size |-> mem[a].size, next |-> mem[a].next, free |-> mem[a].free # 0]
    BY <1>7 DEF Before
  <2> QED
    BY <1>4, <1>6, <1>7, <2>1, <2>2, BlockIs
<1>9. Undone' = [a \in M |-> [size |-> mem'[a].size, next |-> mem'[a].next,
                              free |-> mem'[a].free # 0]]
  BY <1>1, <1>3, IdleThen
<1>10. /\ mem'[cur].size = mem[cur].size
       /\ mem'[cur].next = mem[n].next
       /\ mem'[cur].free = 1
       /\ \A a \in L \ {cur} : mem'[a] = mem[a]
  <2>1. L \subseteq DOMAIN mem
    BY DEF Safe, Chain
  <2>2. mem'[cur] = WithNext(cur, mem[n].next)
    BY <1>1, StoreIs
  <2>3. \A a \in DOMAIN mem \ {cur} : mem'[a] = mem[a]
    BY <1>1, StoreIs
  <2> QED
    BY <1>4, <2>1, <2>2, <2>3, WithIs
<1>11. Atomic!CanMerge(cur)
  <2>1. Undone[n].free = (mem[n].free # 0)
    BY <1>4, <1>8
  <2>2. Undone[n].free
    <3>1. mem[n].free # 0
      BY <1>4
    <3> QED
      BY <2>1, <3>1, Zenon
  <2> QED
    BY <1>4, <1>8, <2>2 DEF Atomic!CanMerge, Atomic!NULL, NULL
<1>12. Atomic!MergedSize(cur) = mem[cur].size
  <2>1. PICK x \in Nat, y \in Nat : x = mem[cur].size /\ y = mem[n].size
    BY <1>4
  <2>2. Undone[cur].size = x - y - HEADER /\ Undone[n].size = y
    BY <1>4, <1>8, <2>1
  <2>3. Atomic!MergedSize(cur) = (x - y - HEADER) + y + HEADER
    BY <1>8, <2>2 DEF Atomic!MergedSize, Atomic!HEADER, HEADER
  <2> QED
    BY <2>1, <2>3 DEF HEADER
<1>13. Atomic!MergeNext(cur)
  <2> DEFINE R(b) == IF b = cur
                     THEN [size |-> mem[cur].size, next |-> mem[n].next, free |-> TRUE]
                     ELSE Undone[b]
  <2>1. ASSUME NEW b \in M PROVE Undone'[b] = R(b)
    <3>0. Undone'[b] = [size |-> mem'[b].size, next |-> mem'[b].next,
                        free |-> mem'[b].free # 0]
      BY <1>9
    <3>1. CASE b = cur
      <4>1. (mem'[b].free # 0) = TRUE
        BY <1>10, <3>1
      <4> QED
        BY <1>10, <3>0, <3>1, <4>1, Zenon
    <3>2. CASE b # cur
      BY <1>2, <1>8, <1>10, <3>0, <3>2
    <3> QED
      BY <3>1, <3>2
  <2>2. Undone' = [b \in DOMAIN Undone \ {n} |-> R(b)]
    <3>1. DOMAIN Undone \ {n} = M
      BY <1>2, <1>8
    <3> HIDE DEF R
    <3> QED
      BY <1>9, <2>1, <3>1
  <2>3. Undone[n].next = mem[n].next
    BY <1>4, <1>8
  <2> QED
    BY <1>8, <1>12, <2>2, <2>3 DEF Atomic!MergeNext
<1>14. (cur + HEADER) - Atomic!HEADER = cur
  BY <1>4 DEF HEADER, Atomic!HEADER
<1> QED
  BY <1>1, <1>5, <1>11, <1>13, <1>14 DEF Atomic!Kfree
-----------------------------------------------------------------------------
(* memory_init makes the heap KHeap starts from.                           *)
LEMMA InitMaps == Init => Atomic!Init
<1> SUFFICES ASSUME Init PROVE Atomic!Init
  OBVIOUS
<1>1. /\ DOMAIN mem = {0}
      /\ mem[0] = Header(HEAP_SIZE - HEADER, NULL, 1)
      /\ pc = "idle"
  BY DEF Init
<1>2. PICK L : L = Visited /\ Safe(L)
  BY InitSafe DEF StepsInv
<1>3. L = {0}
  BY <1>1, <1>2 DEF Safe, Chain
<1>4. Blocks(L) = {0}
  BY <1>1, <1>3 DEF Blocks
<1>5. Before(0) = [size |-> HEAP_SIZE - HEADER, next |-> NULL, free |-> TRUE]
  <2>1. SizeBefore(0) = HEAP_SIZE - HEADER
    BY <1>1 DEF SizeBefore, Header
  <2>2. NextBefore(0) = NULL
    BY <1>1 DEF NextBefore, Header
  <2>3. FreeBefore(0) = TRUE
    BY <1>1 DEF FreeBefore, Releasing, Header
  <2> QED
    BY <2>1, <2>2, <2>3, Zenon DEF Before
<1>6. Undone = [a \in {0} |-> [size |-> HEAP_SIZE - HEADER, next |-> NULL, free |-> TRUE]]
  <2>1. Undone = [a \in {0} |-> Before(a)]
    BY <1>2, <1>4, UndoneIs
  <2> QED
    BY <1>5, <2>1
<1>7. asked = [p \in {} |-> 0]
  BY DEF Init
<1> QED
  BY <1>6, <1>7 DEF Atomic!Init, Atomic!HEADER, Atomic!NULL, HEADER, NULL

(* Of the stores of a call, exactly one is the call of KHeap; the others,  *)
(* the search and the timer's ticks change nothing it can see.             *)
LEMMA StepMaps ==
  ASSUME StepsInv, [Next]_vars
  PROVE  [Atomic!Next]_<<Undone, asked>>
<1>1. PICK L : L = Visited /\ Safe(L)
  BY DEF StepsInv
<1>2. TypeOK
  BY DEF StepsInv
<1>3. CASE KmallocCall \/ SearchOn \/ SearchFail \/ SearchHit \/ Merge
  BY <1>1, <1>2, <1>3, SearchStutters
<1>4. CASE SplitSize \/ SplitNext \/ SplitFree
  BY <1>1, <1>2, <1>4, SplitStutters
<1>5. CASE CutSize
  BY <1>1, <1>2, <1>5, CutSizeStutters
<1>6. CASE CutNext
  BY <1>1, <1>2, <1>6, CutNextStutters
<1>7. CASE KfreeCall
  BY <1>1, <1>2, <1>7, KfreeCallStutters
<1>8. CASE MergeSize
  BY <1>1, <1>2, <1>8, MergeSizeStutters
<1>9. CASE Take
  <2>1. pc = "take" \/ pc = "take.cut"
    BY <1>9 DEF Take
  <2>2. \E r \in Requests : Atomic!Kmalloc(r)
    BY <1>1, <1>2, <1>9, <2>1, TakeWholeMaps, TakeSplitMaps
  <2> QED
    BY <2>2 DEF Atomic!Next
<1>10. CASE NoMerge
  BY <1>1, <1>2, <1>10, NoMergeMaps DEF Atomic!Next
<1>11. CASE MergeLink
  BY <1>1, <1>2, <1>11, MergeLinkMaps DEF Atomic!Next
<1>12. CASE TimerRedraw \/ UNCHANGED vars
  <2>1. UNCHANGED main
    BY <1>12 DEF TimerRedraw, vars, main
  <2>2. TypeOK' /\ Safe(L)'
    BY <1>1, <1>2, <1>12, <2>1, TimerStep, MainKept DEF vars, TypeOK
  <2>3. L = Visited'
    BY <2>2, Reached
  <2> QED
    BY <1>1, <2>1, <2>3, MainStutters
<1> QED
  BY <1>3, <1>4, <1>5, <1>6, <1>7, <1>8, <1>9, <1>10, <1>11, <1>12
     DEF Next, Kmalloc, Kfree

(* Taken apart store by store and interrupted anywhere, kmalloc and kfree  *)
(* are the atomic operations of KHeap, on a heap of any size.              *)
THEOREM StepsRefineHeap == Spec => StepsImplementAtomic
<1> QED
  BY InitMaps, StepMaps, StepsSafe, PTL
     DEF Spec, StepsImplementAtomic, Atomic!Spec, Atomic!vars
=============================================================================
