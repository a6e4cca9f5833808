------------------------------- MODULE KHeap -------------------------------
(***************************************************************************)
(* The kernel heap of kernel/memory.c: one singly linked list of blocks,   *)
(* each a 12-byte header followed by its payload, carved out of a single   *)
(* region by first fit.  kmalloc splits the block it takes when something  *)
(* is left for a block of its own; kfree merges the freed block with the   *)
(* block after it, and only with that one.                                 *)
(*                                                                         *)
(* Addresses are offsets from HEAP_START.  kmalloc and kfree are atomic    *)
(* here; KHeapSteps takes them apart, store by store.                      *)
(***************************************************************************)
EXTENDS Integers, FiniteSets, Functions

CONSTANTS
  HEAP_SIZE,  (* bytes of heap, headers included (0x10000 in the code)     *)
  SIZE_MOD,   (* 2^32: a size_t holds 0 .. SIZE_MOD - 1                    *)
  Requests    (* the sizes passed to kmalloc                               *)

HEADER == 12  (* sizeof(mem_block_t) on i386 *)
NULL   == -1  (* no offset of the heap       *)

ASSUME HeapAssumption ==
  /\ HEAP_SIZE \in Nat /\ HEAP_SIZE > HEADER
  /\ SIZE_MOD \in Nat /\ SIZE_MOD > 0
  /\ Requests \subseteq 0 .. (SIZE_MOD - 1)

VARIABLES
  blocks,  (* offset of a header on the list -> that header                *)
  asked    (* payload pointer its caller holds -> the size it asked for    *)

vars == <<blocks, asked>>

Header == [size : Nat, next : Int, free : BOOLEAN]

(* The offset just past the payload of block a, where the next one begins. *)
End(a) == a + HEADER + blocks[a].size

Payload(a) == a + HEADER
-----------------------------------------------------------------------------
(* memory_init: the whole region is one free block. *)
Init ==
  /\ blocks = [a \in {0} |-> [size |-> HEAP_SIZE - HEADER, next |-> NULL,
                              free |-> TRUE]]
  /\ asked = [p \in {} |-> 0]

(* size = (size + 7) & ~7, computed in a size_t. *)
RoundUp8_Down(s) == s - (s % 8)
RoundUp8(s) == LET t == (s + 7) % SIZE_MOD IN t - (t % 8)

Fits(a, size) == blocks[a].free /\ blocks[a].size >= size

(* The block at which the walk along next stops.  The list is in address   *)
(* order (Tiling below, and KHeapSteps, which walks it pointer by          *)
(* pointer), so the first block it meets is the one of lowest address.     *)
FirstFit(a, size) ==
  /\ a \in DOMAIN blocks
  /\ Fits(a, size)
  /\ \A b \in DOMAIN blocks : b < a => ~Fits(b, size)

CanSplit_NoRoom(a, size) == blocks[a].size >= size
CanSplit(a, size) == blocks[a].size > size + HEADER

(* What the new block gets when block a is cut down to size bytes. *)
Remainder_NoHeader(a, size) == blocks[a].size - size
Remainder(a, size) == blocks[a].size - size - HEADER

TakeSplit(a, size) ==
  LET new == Payload(a) + size
  IN  blocks' = [b \in DOMAIN blocks \cup {new} |->
        IF b = a THEN [size |-> size, next |-> new, free |-> FALSE]
        ELSE IF b = new
             THEN [size |-> Remainder(a, size), next |-> blocks[a].next,
                   free |-> TRUE]
             ELSE blocks[b]]

TakeWhole_StillFree(a) == UNCHANGED blocks
TakeWhole(a) ==
  blocks' = [b \in DOMAIN blocks |->
               IF b = a THEN [blocks[a] EXCEPT !.free = FALSE] ELSE blocks[b]]

Kmalloc(req) ==
  LET size == RoundUp8(req)
  IN  \E a \in DOMAIN blocks :
        /\ FirstFit(a, size)
        /\ IF CanSplit(a, size) THEN TakeSplit(a, size) ELSE TakeWhole(a)
        /\ asked' = [p \in DOMAIN asked \cup {Payload(a)} |->
                       IF p = Payload(a) THEN req ELSE asked[p]]

(* No free block is large enough: kmalloc returns NULL and changes nothing. *)
KmallocNull(req) ==
  /\ \A a \in DOMAIN blocks : ~Fits(a, RoundUp8(req))
  /\ UNCHANGED vars
-----------------------------------------------------------------------------
(* "Merge with next block if it's free". *)
CanMerge(a) == blocks[a].next # NULL /\ blocks[blocks[a].next].free

MergedSize_NoHeader(a) == blocks[a].size + blocks[blocks[a].next].size
MergedSize(a) == blocks[a].size + blocks[blocks[a].next].size + HEADER

MergeNext(a) ==
  blocks' = [b \in DOMAIN blocks \ {blocks[a].next} |->
    IF b = a THEN [size |-> MergedSize(a), next |-> blocks[blocks[a].next].next,
                   free |-> TRUE]
    ELSE blocks[b]]

JustFree(a) ==
  blocks' = [b \in DOMAIN blocks |->
               IF b = a THEN [blocks[a] EXCEPT !.free = TRUE] ELSE blocks[b]]

(* kfree of a pointer that its caller holds.  kfree(NULL) does nothing. *)
Kfree(p) ==
  LET a == p - HEADER
  IN  /\ IF CanMerge(a) THEN MergeNext(a) ELSE JustFree(a)
      /\ asked' = [q \in DOMAIN asked \ {p} |-> asked[q]]
-----------------------------------------------------------------------------
Next ==
  \/ \E req \in Requests : Kmalloc(req)
  \/ \E req \in Requests : KmallocNull(req)
  \/ \E p \in DOMAIN asked : Kfree(p)

Spec == Init /\ [][Next]_vars
-----------------------------------------------------------------------------
(* get_free_memory and get_used_memory. *)
SizesOf(S) == SumFunction([a \in S |-> blocks[a].size])

FreeMemory == SizesOf({a \in DOMAIN blocks : blocks[a].free})
UsedMemory == SizesOf({a \in DOMAIN blocks : ~blocks[a].free})
-----------------------------------------------------------------------------
TypeOK ==
  /\ DOMAIN blocks \subseteq 0 .. HEAP_SIZE
  /\ blocks \in [DOMAIN blocks -> Header]
  /\ asked \in [DOMAIN asked -> Requests]

(* The list tiles the heap: it starts at HEAP_START, every block ends where *)
(* its next begins, the last one ends with the heap, and blocks lie one     *)
(* after the other.  Splits, merges and reuse in any order must keep this,  *)
(* or two callers end up with the same bytes.                               *)
Tiling ==
  /\ 0 \in DOMAIN blocks
  /\ \A a \in DOMAIN blocks :
       /\ End(a) <= HEAP_SIZE
       /\ blocks[a].next = IF End(a) = HEAP_SIZE THEN NULL ELSE End(a)
       /\ blocks[a].next # NULL => blocks[a].next \in DOMAIN blocks
  /\ \A a, b \in DOMAIN blocks : a < b => End(a) <= b

(* The pointers callers hold are exactly the payloads of the blocks that    *)
(* are not free: no block is lost, none is both held and on offer.          *)
Held ==
  DOMAIN asked = {Payload(a) : a \in {b \in DOMAIN blocks : ~blocks[b].free}}

(* No request is so large that rounding it up leaves size_t. *)
NoWrap == \A req \in Requests : req + 7 < SIZE_MOD

(* Every caller has at least the bytes it asked for. *)
EnoughRoom == \A p \in DOMAIN asked : blocks[p - HEADER].size >= asked[p]

(* What the shell and the GUI show as free and used, with the headers they  *)
(* do not count, is the whole heap: no byte is counted twice or forgotten.  *)
Accounting ==
  FreeMemory + UsedMemory + HEADER * Cardinality(DOMAIN blocks) = HEAP_SIZE

(* The allocator a caller sees: each held pointer with its block's size.    *)
Caller == INSTANCE Allocator WITH
  live <- [p \in DOMAIN asked |->
             [asked |-> asked[p], room |-> blocks[p - HEADER].size]]

(* Whatever the sequence of kmalloc and kfree, the heap keeps the promise   *)
(* of Allocator: disjoint regions, large enough, that stay put until freed. *)
KeepsPromise == Caller!LiveSpec
=============================================================================
