---------------------------- MODULE KHeapProofs ----------------------------
(***************************************************************************)
(* Proofs about KHeap for every heap size, every width of size_t and every *)
(* set of request sizes.  The inductive invariant is IInv: types, the      *)
(* tiling of the heap by the list, and the agreement of the list with the  *)
(* pointers callers hold.  None of the three is inductive alone: a merge   *)
(* keeps the tiling only because next points at the adjacent block, and    *)
(* kfree finds a header at p - 12 only because p is a held payload.        *)
(*                                                                         *)
(* From it follow the sums that the shell shows (Accounting), and, as long *)
(* as no request wraps when it is rounded up (NoWrap), that callers have   *)
(* the room they asked for and that KHeap refines Allocator.               *)
(***************************************************************************)
EXTENDS KHeap, FiniteSums

IInv == TypeOK /\ Tiling /\ Held

(* RoundUp8 never goes below zero, and never below the request when the    *)
(* request does not wrap: the arithmetic of memory.c:30.                   *)
LEMMA RoundUp8Nat == ASSUME NEW s \in Nat PROVE RoundUp8(s) \in Nat
<1> DEFINE t == (s + 7) % SIZE_MOD
<1>1. t \in Nat
  BY HeapAssumption
<1>2. t - (t % 8) \in Nat
  BY <1>1
<1> QED
  BY <1>2 DEF RoundUp8

(* A request that does not wrap is rounded up, never down.                 *)
LEMMA RoundUp8Enough ==
  ASSUME NEW s \in Nat, s + 7 < SIZE_MOD
  PROVE  RoundUp8(s) >= s
<1>1. (s + 7) % SIZE_MOD = s + 7
  BY HeapAssumption
<1>2. (s + 7) - ((s + 7) % 8) >= s
  OBVIOUS
<1> QED
  BY <1>1, <1>2 DEF RoundUp8

(* memory_init's one free block satisfies the invariant.                   *)
LEMMA InitIInv == Init => IInv
<1> SUFFICES ASSUME Init PROVE IInv
  OBVIOUS
<1>1. TypeOK
  BY HeapAssumption DEF Init, TypeOK, Header, HEADER, NULL
<1>2. Tiling
  BY HeapAssumption DEF Init, Tiling, End, HEADER, NULL
<1>3. Held
  BY DEF Init, Held, Payload, HEADER
<1> QED
  BY <1>1, <1>2, <1>3 DEF IInv
-----------------------------------------------------------------------------
(* kmalloc that cuts a block in two keeps the invariant: the new block     *)
(* starts past the one it is cut from and before the next, so it is no     *)
(* header already on the list.                                             *)
LEMMA SplitStep ==
  ASSUME IInv, NEW req \in Requests, NEW a \in DOMAIN blocks,
         blocks[a].free, CanSplit(a, RoundUp8(req)), TakeSplit(a, RoundUp8(req)),
         asked' = [p \in DOMAIN asked \cup {Payload(a)} |->
                     IF p = Payload(a) THEN req ELSE asked[p]]
  PROVE  IInv'
<1> DEFINE size == RoundUp8(req)
           new  == Payload(a) + size
<1>1. size \in Nat
  <2>1. req \in Nat
    BY HeapAssumption
  <2> QED
    BY <2>1, RoundUp8Nat
<1> HIDE DEF size
<1> USE DEF HEADER, NULL
<1>2. /\ blocks[a].size > size + HEADER
      /\ DOMAIN blocks' = DOMAIN blocks \cup {new}
      /\ blocks'[a] = [size |-> size, next |-> new, free |-> FALSE]
      /\ new # a => blocks'[new] = [size |-> Remainder(a, size),
                                    next |-> blocks[a].next, free |-> TRUE]
      /\ \A b \in DOMAIN blocks \ {a, new} : blocks'[b] = blocks[b]
  BY DEF CanSplit, TakeSplit, size
<1>3. /\ DOMAIN blocks \subseteq Nat
      /\ \A b \in DOMAIN blocks :
           /\ b \in Nat
           /\ blocks[b] \in Header
           /\ blocks[b].size \in Nat
           /\ blocks[b].next \in Int
           /\ blocks[b].free \in BOOLEAN
  BY HeapAssumption DEF IInv, TypeOK, Header
<1>4. /\ new \in Nat
      /\ a < new
      /\ new + HEADER + Remainder(a, size) = End(a)
      /\ Remainder(a, size) \in Nat
      /\ End(a) <= HEAP_SIZE
  BY <1>1, <1>2, <1>3 DEF Payload, Remainder, End, IInv, Tiling
<1>5. \A b \in DOMAIN blocks : b < a \/ b = a \/ End(a) <= b
  BY <1>3 DEF IInv, Tiling
<1>6. new \notin DOMAIN blocks
  BY <1>3, <1>4, <1>5
<1>7. /\ End(a)' = new
      /\ End(new)' = End(a)
      /\ \A b \in DOMAIN blocks \ {a} : End(b)' = End(b)
  BY <1>1, <1>2, <1>3, <1>4, <1>6 DEF End, Payload
<1>8. TypeOK'
  <2>1. blocks' \in [DOMAIN blocks' -> Header]
    BY <1>1, <1>2, <1>3, <1>4 DEF TakeSplit, Header, size
  <2>2. DOMAIN blocks' \subseteq 0 .. HEAP_SIZE
    BY <1>2, <1>3, <1>4, HeapAssumption DEF IInv, TypeOK
  <2>3. asked' \in [DOMAIN asked' -> Requests]
    BY DEF IInv, TypeOK
  <2> QED
    BY <2>1, <2>2, <2>3 DEF TypeOK
<1>9. Tiling'
  <2>1. 0 \in DOMAIN blocks'
    BY <1>2 DEF IInv, Tiling
  <2>2. ASSUME NEW b \in DOMAIN blocks'
        PROVE  /\ End(b)' <= HEAP_SIZE
               /\ blocks'[b].next = IF End(b)' = HEAP_SIZE THEN NULL ELSE End(b)'
               /\ blocks'[b].next # NULL => blocks'[b].next \in DOMAIN blocks'
    <3>1. CASE b = a
      BY <3>1, <1>2, <1>3, <1>4, <1>7, HeapAssumption
    <3>2. CASE b = new
      BY <3>2, <1>2, <1>3, <1>4, <1>6, <1>7 DEF IInv, Tiling
    <3>3. CASE b \in DOMAIN blocks \ {a}
      BY <3>3, <1>2, <1>3, <1>6, <1>7 DEF IInv, Tiling
    <3> QED
      BY <3>1, <3>2, <3>3, <1>2
  <2>3. ASSUME NEW b \in DOMAIN blocks', NEW c \in DOMAIN blocks', b < c
        PROVE  End(b)' <= c
    <3>1. \A x, y \in DOMAIN blocks : x < y => End(x) <= y
      BY DEF IInv, Tiling
    <3>2. CASE b = a
      BY <3>2, <3>1, <2>3, <1>2, <1>3, <1>4, <1>5, <1>7
    <3>3. CASE b = new
      BY <3>3, <3>1, <2>3, <1>2, <1>3, <1>4, <1>5, <1>7
    <3>4. CASE b \in DOMAIN blocks \ {a} /\ c = new
      <4>1. b < a
        BY <3>4, <2>3, <1>3, <1>4, <1>5
      <4> QED
        BY <4>1, <3>1, <3>4, <1>3, <1>4, <1>7 DEF End
    <3>5. CASE b \in DOMAIN blocks \ {a} /\ c \in DOMAIN blocks
      BY <3>5, <3>1, <2>3, <1>7
    <3> QED
      BY <3>2, <3>3, <3>4, <3>5, <1>2
  <2> QED
    BY <2>1, <2>2, <2>3 DEF Tiling
<1>10. Held'
  <2>1. DOMAIN asked' = DOMAIN asked \cup {Payload(a)}
    OBVIOUS
  <2>2. {b \in DOMAIN blocks' : ~blocks'[b].free}
          = {b \in DOMAIN blocks : ~blocks[b].free} \cup {a}
    BY <1>2, <1>4, <1>6
  <2> QED
    BY <2>1, <2>2 DEF Held, IInv, Payload
<1> QED
  BY <1>8, <1>9, <1>10 DEF IInv

(* kmalloc that takes a block whole only flips its free flag. *)
LEMMA WholeStep ==
  ASSUME IInv, NEW req \in Requests, NEW a \in DOMAIN blocks,
         blocks[a].free, TakeWhole(a),
         asked' = [p \in DOMAIN asked \cup {Payload(a)} |->
                     IF p = Payload(a) THEN req ELSE asked[p]]
  PROVE  IInv'
<1> USE DEF HEADER
<1>1. /\ DOMAIN blocks \subseteq Nat
      /\ \A b \in DOMAIN blocks : blocks[b] \in Header
  BY HeapAssumption DEF IInv, TypeOK
<1>2. /\ DOMAIN blocks' = DOMAIN blocks
      /\ \A b \in DOMAIN blocks : /\ blocks'[b].size = blocks[b].size
                                 /\ blocks'[b].next = blocks[b].next
                                 /\ blocks'[b] \in Header
      /\ ~blocks'[a].free
      /\ \A b \in DOMAIN blocks \ {a} : blocks'[b].free = blocks[b].free
  BY <1>1 DEF TakeWhole, Header
<1>3. \A b \in DOMAIN blocks : End(b)' = End(b)
  BY <1>2 DEF End
<1>4. TypeOK'
  <2>1. blocks' \in [DOMAIN blocks' -> Header]
    BY <1>2 DEF TakeWhole
  <2> QED
    BY <2>1, <1>2 DEF IInv, TypeOK
<1>5. Tiling'
  BY <1>2, <1>3 DEF IInv, Tiling
<1>6. Held'
  <2>1. {b \in DOMAIN blocks' : ~blocks'[b].free}
          = {b \in DOMAIN blocks : ~blocks[b].free} \cup {a}
    BY <1>2
  <2> QED
    BY <2>1 DEF Held, IInv, Payload
<1> QED
  BY <1>4, <1>5, <1>6 DEF IInv

(* What a held pointer says of the list: its header is there, and in use. *)
LEMMA HeldBlock ==
  ASSUME IInv, NEW p \in DOMAIN asked
  PROVE  /\ p - HEADER \in DOMAIN blocks
         /\ ~blocks[p - HEADER].free
         /\ Payload(p - HEADER) = p
         /\ p \in Nat
<1>1. PICK a \in DOMAIN blocks : ~blocks[a].free /\ p = Payload(a)
  BY DEF IInv, Held
<1>2. a \in Nat /\ p - HEADER = a
  BY <1>1, HeapAssumption DEF IInv, TypeOK, Payload, HEADER
<1> QED
  BY <1>1, <1>2 DEF Payload, HEADER

(* Two held pointers lie a whole header apart, so taking p out of the held  *)
(* ones takes exactly its block out of the blocks in use.                   *)
LEMMA HeldWithout ==
  ASSUME IInv, NEW p \in DOMAIN asked
  PROVE  DOMAIN asked \ {p}
           = {Payload(b) : b \in {c \in DOMAIN blocks : ~blocks[c].free}
                                  \ {p - HEADER}}
<1>1. \A b \in DOMAIN blocks : b \in Nat
  BY HeapAssumption DEF IInv, TypeOK
<1>2. \A b \in DOMAIN blocks : Payload(b) = p <=> b = p - HEADER
  BY <1>1, HeldBlock DEF Payload, HEADER
<1> QED
  BY <1>1, <1>2 DEF IInv, Held

(* kfree without a free block behind it only flips the flag back. *)
LEMMA JustFreeStep ==
  ASSUME IInv, NEW p \in DOMAIN asked, JustFree(p - HEADER),
         asked' = [q \in DOMAIN asked \ {p} |-> asked[q]]
  PROVE  IInv'
<1> DEFINE a == p - HEADER
<1> USE DEF HEADER
<1>1. /\ a \in DOMAIN blocks
      /\ \A b \in DOMAIN blocks : blocks[b] \in Header
  BY HeldBlock DEF IInv, TypeOK
<1> HIDE DEF a
<1>2. /\ DOMAIN blocks' = DOMAIN blocks
      /\ \A b \in DOMAIN blocks : /\ blocks'[b].size = blocks[b].size
                                 /\ blocks'[b].next = blocks[b].next
                                 /\ blocks'[b] \in Header
      /\ blocks'[a].free
      /\ \A b \in DOMAIN blocks \ {a} : blocks'[b].free = blocks[b].free
  BY <1>1 DEF JustFree, Header, a
<1>3. \A b \in DOMAIN blocks : End(b)' = End(b)
  BY <1>2 DEF End
<1>4. TypeOK'
  <2>1. blocks' \in [DOMAIN blocks' -> Header]
    BY <1>2 DEF JustFree
  <2>2. asked' \in [DOMAIN asked' -> Requests]
    BY DEF IInv, TypeOK
  <2> QED
    BY <2>1, <2>2, <1>2 DEF IInv, TypeOK
<1>5. Tiling'
  BY <1>2, <1>3 DEF IInv, Tiling
<1>6. Held'
  <2>1. {b \in DOMAIN blocks' : ~blocks'[b].free}
          = {b \in DOMAIN blocks : ~blocks[b].free} \ {a}
    BY <1>2
  <2>2. DOMAIN asked' = DOMAIN asked \ {p}
    OBVIOUS
  <2> QED
    BY <2>1, <2>2, HeldWithout DEF Held, Payload, a
<1> QED
  BY <1>4, <1>5, <1>6 DEF IInv

(* kfree that merges: the block behind disappears from the list, and the   *)
(* freed one ends where that one ended.  This is where the tiling is       *)
(* needed: the sum of two sizes and a header is only right for neighbours. *)
LEMMA MergeStep ==
  ASSUME IInv, NEW p \in DOMAIN asked, CanMerge(p - HEADER),
         MergeNext(p - HEADER),
         asked' = [q \in DOMAIN asked \ {p} |-> asked[q]]
  PROVE  IInv'
<1> DEFINE a == p - HEADER
           n == blocks[a].next
<1> USE DEF HEADER, NULL
<1>1. /\ \A b \in DOMAIN blocks : /\ b \in Nat
                                 /\ blocks[b] \in Header
                                 /\ blocks[b].size \in Nat
                                 /\ blocks[b].next \in Int
                                 /\ blocks[b].free \in BOOLEAN
                                 /\ End(b) <= HEAP_SIZE
                                 /\ End(b) \in Nat
      /\ \A b, c \in DOMAIN blocks : b < c => End(b) <= c
  BY HeapAssumption DEF IInv, TypeOK, Header, Tiling, End
<1>2. a \in DOMAIN blocks /\ ~blocks[a].free
  BY HeldBlock
<1>3. n \in DOMAIN blocks /\ n # NULL /\ n = End(a) /\ blocks[n].free
  BY <1>2 DEF CanMerge, IInv, Tiling
<1>4. MergeNext(a)
  OBVIOUS
<1> HIDE DEF a
<1>5. a < n
  BY <1>1, <1>2, <1>3 DEF End
<1>6. /\ DOMAIN blocks' = DOMAIN blocks \ {n}
      /\ a \in DOMAIN blocks'
      /\ blocks'[a] = [size |-> MergedSize(a), next |-> blocks[n].next,
                       free |-> TRUE]
      /\ \A b \in DOMAIN blocks \ {a, n} : blocks'[b] = blocks[b]
  BY <1>1, <1>2, <1>3, <1>4, <1>5 DEF MergeNext
<1>7. /\ MergedSize(a) \in Nat
      /\ a + HEADER + MergedSize(a) = End(n)
  BY <1>1, <1>2, <1>3 DEF MergedSize, End
<1>8. /\ End(a)' = End(n)
      /\ \A b \in DOMAIN blocks \ {a, n} : End(b)' = End(b)
  BY <1>6, <1>7 DEF End
<1>9. \A b \in DOMAIN blocks : b < a \/ b = a \/ b = n \/ n < b
  BY <1>1, <1>2, <1>3
<1>10. TypeOK'
  <2>1. blocks' \in [DOMAIN blocks' -> Header]
    BY <1>1, <1>3, <1>4, <1>6, <1>7 DEF MergeNext, Header
  <2>2. asked' \in [DOMAIN asked' -> Requests]
    BY DEF IInv, TypeOK
  <2> QED
    BY <2>1, <2>2, <1>6 DEF IInv, TypeOK
<1>11. Tiling'
  <2>1. 0 \in DOMAIN blocks'
    BY <1>1, <1>2, <1>5, <1>6 DEF IInv, Tiling
  <2>2. ASSUME NEW b \in DOMAIN blocks'
        PROVE  /\ End(b)' <= HEAP_SIZE
               /\ blocks'[b].next = IF End(b)' = HEAP_SIZE THEN NULL ELSE End(b)'
               /\ blocks'[b].next # NULL => blocks'[b].next \in DOMAIN blocks'
    <3>1. CASE b = a
      <4>1. blocks[n].next # n
        BY <1>1, <1>3 DEF IInv, Tiling, End
      <4> QED
        BY <3>1, <4>1, <1>1, <1>3, <1>6, <1>8 DEF IInv, Tiling
    <3>2. CASE b # a
      <4>1. b \in DOMAIN blocks /\ b # n /\ blocks'[b] = blocks[b] /\ End(b)' = End(b)
        BY <3>2, <1>6, <1>8
      <4>2. blocks[b].next # n
        \* only a ends at n: a block before a ends at or before a
        BY <4>1, <3>2, <1>1, <1>2, <1>3, <1>5, <1>9 DEF IInv, Tiling, End
      <4> QED
        BY <4>1, <4>2, <1>6 DEF IInv, Tiling
    <3> QED
      BY <3>1, <3>2
  <2>3. ASSUME NEW b \in DOMAIN blocks', NEW c \in DOMAIN blocks', b < c
        PROVE  End(b)' <= c
    <3>1. b \in DOMAIN blocks /\ c \in DOMAIN blocks /\ c # n
      BY <1>6
    <3>2. CASE b = a
      BY <3>1, <3>2, <2>3, <1>1, <1>3, <1>8, <1>9
    <3>3. CASE b # a
      BY <3>1, <3>3, <2>3, <1>1, <1>6, <1>8
    <3> QED
      BY <3>2, <3>3
  <2> QED
    BY <2>1, <2>2, <2>3 DEF Tiling
<1>12. Held'
  <2>1. {b \in DOMAIN blocks' : ~blocks'[b].free}
          = {b \in DOMAIN blocks : ~blocks[b].free} \ {a}
    BY <1>3, <1>5, <1>6
  <2>2. DOMAIN asked' = DOMAIN asked \ {p}
    OBVIOUS
  <2> QED
    BY <2>1, <2>2, HeldWithout DEF Held, Payload, a
<1> QED
  BY <1>10, <1>11, <1>12 DEF IInv
-----------------------------------------------------------------------------
(* Each way kmalloc succeeds is one of the two block updates above. *)
LEMMA KmallocStep ==
  ASSUME IInv, NEW req \in Requests, Kmalloc(req)
  PROVE  IInv'
<1>1. PICK a \in DOMAIN blocks :
        /\ FirstFit(a, RoundUp8(req))
        /\ IF CanSplit(a, RoundUp8(req)) THEN TakeSplit(a, RoundUp8(req))
                                         ELSE TakeWhole(a)
        /\ asked' = [p \in DOMAIN asked \cup {Payload(a)} |->
                       IF p = Payload(a) THEN req ELSE asked[p]]
  BY DEF Kmalloc
<1>2. blocks[a].free
  BY <1>1 DEF FirstFit, Fits
<1>3. CASE CanSplit(a, RoundUp8(req))
  BY <1>1, <1>2, <1>3, SplitStep
<1>4. CASE ~CanSplit(a, RoundUp8(req))
  BY <1>1, <1>2, <1>4, WholeStep
<1> QED
  BY <1>3, <1>4

(* kfree, with or without a merge, keeps the invariant.                    *)
LEMMA KfreeStep ==
  ASSUME IInv, NEW p \in DOMAIN asked, Kfree(p)
  PROVE  IInv'
<1>1. CASE CanMerge(p - HEADER)
  BY <1>1, MergeStep DEF Kfree
<1>2. CASE ~CanMerge(p - HEADER)
  BY <1>2, JustFreeStep DEF Kfree
<1> QED
  BY <1>1, <1>2

(* A step that changes nothing keeps it.                                   *)
LEMMA StutterStep == ASSUME IInv, UNCHANGED vars PROVE IInv'
  BY DEF IInv, TypeOK, Tiling, Held, End, Payload, vars

(* Every kmalloc, granted or refused, and every kfree keeps it.            *)
LEMMA NextIInv == ASSUME IInv, [Next]_vars PROVE IInv'
<1>1. ASSUME NEW req \in Requests, Kmalloc(req) PROVE IInv'
  BY <1>1, KmallocStep
<1>2. ASSUME NEW req \in Requests, KmallocNull(req) PROVE IInv'
  BY <1>2, StutterStep DEF KmallocNull
<1>3. ASSUME NEW p \in DOMAIN asked, Kfree(p) PROVE IInv'
  BY <1>3, KfreeStep
<1>4. CASE UNCHANGED vars
  BY <1>4, StutterStep
<1> QED
  BY <1>1, <1>2, <1>3, <1>4 DEF Next

(* The invariant holds of every heap, whatever its size and whatever is    *)
(* asked of kmalloc.                                                       *)
THEOREM HeapInvariant == Spec => []IInv
<1> QED
  BY InitIInv, NextIInv, PTL DEF Spec

(* memory.c keeps offsets, sizes and flags in their types.                 *)
THEOREM HeapTypeOK == Spec => []TypeOK
<1>1. IInv => TypeOK
  BY DEF IInv
<1> QED
  BY <1>1, HeapInvariant, PTL

(* The list kmalloc and kfree edit always tiles the heap exactly.          *)
THEOREM HeapTiling == Spec => []Tiling
<1>1. IInv => Tiling
  BY DEF IInv
<1> QED
  BY <1>1, HeapInvariant, PTL

(* The blocks in use are always exactly those some caller holds.           *)
THEOREM HeapHeld == Spec => []Held
<1>1. IInv => Held
  BY DEF IInv
<1> QED
  BY <1>1, HeapInvariant, PTL
-----------------------------------------------------------------------------
(* The shell's and the GUI's two figures add up to the heap, headers       *)
(* aside, on every list that tiles it.                                     *)
LEMMA TilingAccounts == ASSUME IInv PROVE Accounting
<1> DEFINE S == DOMAIN blocks
           f == [a \in S |-> blocks[a].size]
           A == {a \in S : blocks[a].free}
<1>1. /\ S \in SUBSET Nat
      /\ IsFiniteSet(S)
      /\ \A a \in S : f[a] \in Nat
  <2>1. S \subseteq 0 .. HEAP_SIZE
    BY DEF IInv, TypeOK
  <2>2. IsFiniteSet(0 .. HEAP_SIZE)
    BY HeapAssumption, FS_Interval
  <2> QED
    BY <2>1, <2>2, FS_Subset, HeapAssumption DEF IInv, TypeOK, Header
<1>2. SumFunctionOnSet(f, S) + HEADER * Cardinality(S) = HEAP_SIZE
  <2>1. \A a \in S : a + HEADER + f[a] = End(a)
    BY DEF End
  <2>2. \A a \in S : a \in Nat /\ f[a] \in Nat /\ End(a) <= HEAP_SIZE
    BY <1>1 DEF IInv, Tiling
  <2>3. \A a \in S : End(a) = HEAP_SIZE \/ End(a) \in S
    <3>1. \A a \in S : End(a) # NULL
      BY <2>1, <2>2 DEF HEADER, NULL
    <3> QED
      BY <3>1 DEF IInv, Tiling
  <2>4. \A a, b \in S : a < b => End(a) <= b
    BY DEF IInv, Tiling
  <2>5. \A a \in S : a < HEAP_SIZE
    BY <2>1, <2>2, HeapAssumption DEF HEADER
  <2>6. 0 \in S /\ HEADER \in Nat \ {0} /\ HEAP_SIZE \in Nat
    BY HeapAssumption DEF IInv, Tiling, HEADER
  <2>7. /\ \A a \in S : a + HEADER + f[a] = HEAP_SIZE \/ a + HEADER + f[a] \in S
        /\ \A a, b \in S : a < b => a + HEADER + f[a] <= b
    BY <2>1, <2>3, <2>4, Zenon
  <2> HIDE DEF f, S
  <2> QED
    BY <1>1, <2>5, <2>6, <2>7, Tiled
<1>3. SumFunctionOnSet(f, S) = SumFunctionOnSet(f, A) + SumFunctionOnSet(f, S \ A)
  <2> HIDE DEF f
  <2> QED
    BY <1>1, SumParts
<1>4. SumFunctionOnSet(f, A) = FreeMemory
  <2> DEFINE g == [a \in A |-> blocks[a].size]
  <2>1. FreeMemory = SumFunctionOnSet(g, A)
    BY DEF FreeMemory, SizesOf, SumFunction
  <2>2. IsFiniteSet(A) /\ \A a \in A : f[a] = g[a]
    BY <1>1, FS_Subset
  <2> HIDE DEF f, g, A
  <2> QED
    BY <2>1, <2>2, SumSame
<1>5. SumFunctionOnSet(f, S \ A) = UsedMemory
  <2> DEFINE B == {a \in S : ~blocks[a].free}
             g == [a \in B |-> blocks[a].size]
  <2>1. UsedMemory = SumFunctionOnSet(g, B)
    BY DEF UsedMemory, SizesOf, SumFunction
  <2>2. S \ A = B /\ IsFiniteSet(B) /\ \A a \in B : f[a] = g[a]
    BY <1>1, FS_Subset
  <2> HIDE DEF f, g, A, B
  <2> QED
    BY <2>1, <2>2, SumSame
<1>6. /\ SumFunctionOnSet(f, A) \in Nat
      /\ SumFunctionOnSet(f, S \ A) \in Nat
      /\ Cardinality(S) \in Nat
  <2>1. A \subseteq S /\ S \ A \subseteq S
    OBVIOUS
  <2>2. IsFiniteSet(A) /\ IsFiniteSet(S \ A)
    BY <1>1, <2>1, FS_Subset
  <2> HIDE DEF f, A
  <2> QED
    BY <1>1, <2>1, <2>2, SumNat, FS_CardinalityType
<1> HIDE DEF f, A
<1> QED
  BY <1>2, <1>3, <1>4, <1>5, <1>6 DEF Accounting, HEADER

(* get_free_memory and get_used_memory together forget no byte of the heap *)
(* and count none twice.                                                   *)
THEOREM HeapAccounting == Spec => []Accounting
<1> QED
  BY TilingAccounts, HeapInvariant, PTL
-----------------------------------------------------------------------------
(* What kmalloc changes for its callers: one pointer is added, with enough *)
(* room inside the free block it came from; nobody else's room changes.    *)
LEMMA KmallocEffect ==
  ASSUME IInv, NoWrap, NEW req \in Requests, Kmalloc(req)
  PROVE  \E a \in DOMAIN blocks :
           /\ blocks[a].free
           /\ asked' = [p \in DOMAIN asked \cup {Payload(a)} |->
                          IF p = Payload(a) THEN req ELSE asked[p]]
           /\ blocks'[a].size \in Nat
           /\ blocks'[a].size >= req
           /\ blocks'[a].size <= blocks[a].size
           /\ \A q \in DOMAIN asked :
                blocks'[q - HEADER].size = blocks[q - HEADER].size
<1> DEFINE size == RoundUp8(req)
<1>1. PICK a \in DOMAIN blocks :
        /\ FirstFit(a, size)
        /\ IF CanSplit(a, size) THEN TakeSplit(a, size) ELSE TakeWhole(a)
        /\ asked' = [p \in DOMAIN asked \cup {Payload(a)} |->
                       IF p = Payload(a) THEN req ELSE asked[p]]
  BY DEF Kmalloc
<1>2. size \in Nat /\ size >= req /\ req \in Nat
  BY HeapAssumption, RoundUp8Nat, RoundUp8Enough DEF NoWrap
<1> HIDE DEF size
<1>3. blocks[a].free /\ blocks[a].size >= size
  BY <1>1 DEF FirstFit, Fits
<1>4. /\ \A b \in DOMAIN blocks : b \in Nat /\ blocks[b].size \in Nat
                                 /\ blocks[b] \in Header
  BY HeapAssumption DEF IInv, TypeOK, Header
<1>5. \A q \in DOMAIN asked : q - HEADER \in DOMAIN blocks /\ q - HEADER # a
  BY <1>3, HeldBlock
<1>6. CASE CanSplit(a, size)
  <2>1. /\ blocks'[a].size = size
        /\ \A b \in DOMAIN blocks \ {a, Payload(a) + size} : blocks'[b] = blocks[b]
    BY <1>1, <1>6 DEF TakeSplit
  <2>2. blocks[a].size > size + HEADER
    BY <1>6 DEF CanSplit
  <2>3. Payload(a) + size \notin DOMAIN blocks
    BY <2>2, <1>2, <1>4 DEF IInv, Tiling, End, Payload, HEADER
  <2>4. \A q \in DOMAIN asked :
          blocks'[q - HEADER].size = blocks[q - HEADER].size
    BY <2>1, <2>3, <1>5
  <2>5. size <= blocks[a].size
    BY <1>2, <1>3, <1>4
  <2> QED
    BY <2>1, <2>4, <2>5, <1>1, <1>2, <1>3
<1>7. CASE ~CanSplit(a, size)
  <2>1. \A b \in DOMAIN blocks : blocks'[b].size = blocks[b].size
    BY <1>1, <1>4, <1>7 DEF TakeWhole, Header
  <2>2. \A q \in DOMAIN asked :
          blocks'[q - HEADER].size = blocks[q - HEADER].size
    BY <2>1, <1>5
  <2>3. blocks'[a].size \in Nat /\ blocks'[a].size >= req
          /\ blocks'[a].size <= blocks[a].size
    BY <2>1, <1>2, <1>3, <1>4
  <2> QED
    BY <2>2, <2>3, <1>1, <1>3
<1> QED
  BY <1>6, <1>7

(* What kfree changes for its callers: its pointer is gone, and the merge  *)
(* moves nobody else's bytes.                                              *)
LEMMA KfreeEffect ==
  ASSUME IInv, NEW p \in DOMAIN asked, Kfree(p)
  PROVE  /\ asked' = [q \in DOMAIN asked \ {p} |-> asked[q]]
         /\ \A q \in DOMAIN asked \ {p} :
              blocks'[q - HEADER].size = blocks[q - HEADER].size
<1> DEFINE a == p - HEADER
<1>1. asked' = [q \in DOMAIN asked \ {p} |-> asked[q]]
  BY DEF Kfree
<1>2. \A q \in DOMAIN asked \ {p} :
        /\ q - HEADER \in DOMAIN blocks
        /\ q - HEADER # a
        /\ ~blocks[q - HEADER].free
  BY HeldBlock DEF HEADER
<1>3. CASE CanMerge(a)
  <2>1. blocks[blocks[a].next].free
    BY <1>3 DEF CanMerge
  <2>2. MergeNext(a)
    BY <1>3 DEF Kfree
  <2>3. \A b \in DOMAIN blocks \ {a, blocks[a].next} : blocks'[b] = blocks[b]
    BY <2>2 DEF MergeNext
  <2> QED
    BY <2>1, <2>3, <1>1, <1>2
<1>4. CASE ~CanMerge(a)
  <2>1. \A b \in DOMAIN blocks \ {a} : blocks'[b] = blocks[b]
    BY <1>4 DEF Kfree, JustFree
  <2> QED
    BY <2>1, <1>1, <1>2
<1> QED
  BY <1>3, <1>4
-----------------------------------------------------------------------------
(* Nobody ever has fewer bytes than it asked for, provided no request      *)
(* wraps in the rounding of memory.c:30.                                   *)
THEOREM HeapEnoughRoom == ASSUME NoWrap PROVE Spec => []EnoughRoom
<1>1. Init => EnoughRoom
  BY DEF Init, EnoughRoom
<1>2. ASSUME IInv, EnoughRoom, [Next]_vars PROVE EnoughRoom'
  <2>1. ASSUME NEW req \in Requests, Kmalloc(req) PROVE EnoughRoom'
    <3>1. PICK a \in DOMAIN blocks :
            /\ asked' = [p \in DOMAIN asked \cup {Payload(a)} |->
                           IF p = Payload(a) THEN req ELSE asked[p]]
            /\ blocks'[a].size >= req
            /\ \A q \in DOMAIN asked :
                 blocks'[q - HEADER].size = blocks[q - HEADER].size
      BY <1>2, <2>1, KmallocEffect
    <3>2. Payload(a) - HEADER = a
      BY <1>2, HeapAssumption DEF IInv, TypeOK, Payload, HEADER
    <3> QED
      BY <1>2, <3>1, <3>2 DEF EnoughRoom
  <2>2. ASSUME NEW p \in DOMAIN asked, Kfree(p) PROVE EnoughRoom'
    BY <1>2, <2>2, KfreeEffect DEF EnoughRoom
  <2>3. CASE UNCHANGED vars
    BY <1>2, <2>3 DEF EnoughRoom, vars
  <2> QED
    BY <1>2, <2>1, <2>2, <2>3 DEF Next, KmallocNull
<1> QED
  BY <1>1, <1>2, HeapInvariant, PTL DEF Spec
-----------------------------------------------------------------------------
(* A successful kmalloc is a Malloc of the abstract allocator.             *)
LEMMA KmallocMaps ==
  ASSUME IInv, NoWrap, NEW req \in Requests, Kmalloc(req)
  PROVE  Caller!Malloc(req)
<1> DEFINE room(q) == blocks[q - HEADER].size
           live == [p \in DOMAIN asked |-> [asked |-> asked[p], room |-> room(p)]]
<1>1. PICK a \in DOMAIN blocks :
           /\ blocks[a].free
           /\ asked' = [p \in DOMAIN asked \cup {Payload(a)} |->
                          IF p = Payload(a) THEN req ELSE asked[p]]
           /\ blocks'[a].size \in Nat
           /\ blocks'[a].size >= req
           /\ blocks'[a].size <= blocks[a].size
           /\ \A q \in DOMAIN asked :
                blocks'[q - HEADER].size = blocks[q - HEADER].size
  BY KmallocEffect
<1> DEFINE ptr == Payload(a)
           new == blocks'[a].size
<1>2. /\ \A b \in DOMAIN blocks : /\ b \in Nat
                                 /\ blocks[b].size \in Nat
                                 /\ End(b) <= HEAP_SIZE
      /\ \A b, c \in DOMAIN blocks : b < c => End(b) <= c
  BY HeapAssumption DEF IInv, TypeOK, Header, Tiling
<1>3. /\ ptr - HEADER = a
      /\ ptr \in 0 .. HEAP_SIZE
      /\ ptr + new <= End(a)
      /\ new \in req .. (HEAP_SIZE - ptr)
  BY <1>1, <1>2, HeapAssumption DEF Payload, End, HEADER
<1>4. ptr \notin DOMAIN asked
  BY <1>1, <1>3, HeldBlock
<1>5. \A q \in DOMAIN asked : Caller!Apart(ptr, new, q, room(q))
  <2> TAKE q \in DOMAIN asked
  <2>1. PICK b \in DOMAIN blocks : b = q - HEADER /\ ~blocks[b].free /\ q \in Nat
    BY HeldBlock
  <2>2. b # a /\ q = b + HEADER
    BY <1>1, <2>1 DEF HEADER
  <2>3. CASE a < b
    BY <2>1, <2>2, <2>3, <1>2, <1>3, <1>1 DEF Caller!Apart, End, Payload, HEADER
  <2>4. CASE b < a
    BY <2>1, <2>2, <2>4, <1>2, <1>3, <1>1 DEF Caller!Apart, End, Payload, HEADER
  <2> QED
    BY <2>2, <2>3, <2>4, <1>2
<1>6. live' = [q \in DOMAIN live \cup {ptr} |->
                 IF q = ptr THEN [asked |-> req, room |-> new] ELSE live[q]]
  <2>1. DOMAIN asked' = DOMAIN asked \cup {ptr}
    BY <1>1
  <2>2. \A q \in DOMAIN asked' :
          [asked |-> asked'[q], room |-> blocks'[q - HEADER].size]
            = IF q = ptr THEN [asked |-> req, room |-> new] ELSE live[q]
    BY <1>1, <1>3, <1>4
  <2> QED
    BY <2>1, <2>2
<1> HIDE DEF new, ptr, room
<1>7. /\ \A q \in DOMAIN live : Caller!Apart(ptr, new, q, live[q].room)
      /\ DOMAIN live' = DOMAIN live \cup {ptr}
      /\ ptr \notin DOMAIN live
  BY <1>4, <1>5, <1>6
<1> HIDE DEF live
<1>8. /\ \E m \in req .. (HEAP_SIZE - ptr) :
           /\ \A q \in DOMAIN live : Caller!Apart(ptr, m, q, live[q].room)
           /\ live' = [q \in DOMAIN live \cup {ptr} |->
                         IF q = ptr THEN [asked |-> req, room |-> m] ELSE live[q]]
  BY <1>3, <1>6, <1>7
<1>9. /\ \E p \in 0 .. HEAP_SIZE :
         /\ p \notin DOMAIN live
         /\ DOMAIN live' = DOMAIN live \cup {p}
         /\ \E m \in req .. (HEAP_SIZE - p) :
           /\ \A q \in DOMAIN live : Caller!Apart(p, m, q, live[q].room)
           /\ live' = [q \in DOMAIN live \cup {p} |->
                         IF q = p THEN [asked |-> req, room |-> m] ELSE live[q]]
  BY <1>3, <1>7, <1>8
<1> QED
  BY <1>9 DEF Caller!Malloc, live, room

(* kfree is a Free of the abstract allocator.                              *)
LEMMA KfreeMaps ==
  ASSUME IInv, NEW p \in DOMAIN asked, Kfree(p)
  PROVE  Caller!Free(p)
  BY KfreeEffect DEF Caller!Free

(* Every behaviour of the heap is, to its callers, one of Allocator:       *)
(* regions given out are large enough, disjoint, and stay put until freed. *)
THEOREM HeapKeepsPromise == ASSUME NoWrap PROVE Spec => KeepsPromise
<1>1. Init => Caller!LiveInit
  BY DEF Init, Caller!LiveInit
<1> DEFINE live == [p \in DOMAIN asked |->
             [asked |-> asked[p], room |-> blocks[p - HEADER].size]]
<1>2. ASSUME IInv, [Next]_vars PROVE [Caller!LiveNext]_live
  <2>1. ASSUME NEW req \in Requests, Kmalloc(req) PROVE Caller!LiveNext
    BY <1>2, <2>1, KmallocMaps DEF Caller!LiveNext
  <2>2. ASSUME NEW p \in DOMAIN asked, Kfree(p) PROVE Caller!LiveNext
    BY <1>2, <2>2, KfreeMaps DEF Caller!LiveNext
  <2>3. CASE UNCHANGED vars
    BY <2>3 DEF vars
  <2> QED
    BY <1>2, <2>1, <2>2, <2>3 DEF Next, KmallocNull
<1> QED
  BY <1>1, <1>2, HeapInvariant, PTL DEF Spec, KeepsPromise, Caller!LiveSpec
=============================================================================
