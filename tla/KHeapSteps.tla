---------------------------- MODULE KHeapSteps ----------------------------
(***************************************************************************)
(* kmalloc and kfree of kernel/memory.c one store at a time, as the timer  *)
(* interrupt sees them: about once a second its handler redraws the memory *)
(* line of the GUI, which walks the heap list from get_free_memory and     *)
(* get_used_memory, wherever the interrupted code happens to be.  Handlers *)
(* run with interrupts off, so a walk is atomic to the interrupted code.   *)
(* Nothing else runs: kmalloc and kfree are never interrupted by another   *)
(* kmalloc or kfree.                                                       *)
(*                                                                         *)
(* Memory is modelled by the headers that can be read back from it.  A     *)
(* block that is handed out is its owner's to overwrite, headers left over *)
(* from earlier blocks included; a merge leaves the absorbed header where  *)
(* it was.                                                                 *)
(***************************************************************************)
EXTENDS Integers, FiniteSets, Functions

CONSTANTS HEAP_SIZE, SIZE_MOD, Requests  (* as in KHeap *)

HEADER == 12
NULL   == -1
Junk   == -2  (* a field nobody has written since its bytes were payload *)

ASSUME StepsAssumption ==
  /\ HEAP_SIZE \in Nat /\ HEAP_SIZE > HEADER
  /\ SIZE_MOD \in Nat /\ SIZE_MOD > 0
  /\ Requests \subseteq 0 .. (SIZE_MOD - 1)

Header(s, n, f) == [size |-> s, next |-> n, free |-> f]

VARIABLES
  mem,    (* offset -> [size, next, free] read back at that offset         *)
  asked,  (* payload pointer its caller holds -> the size it asked for     *)
  pc,     (* the next store, or "idle" between calls                       *)
  cur,    (* kmalloc's current, kfree's block                              *)
  req,    (* the size kmalloc was called with                              *)
  shown   (* the free bytes the timer last wrote on the memory line        *)

vars == <<mem, asked, pc, cur, req, shown>>
main == <<mem, asked, pc, cur, req>>

RoundUp8(s) == LET t == (s + 7) % SIZE_MOD IN t - (t % 8)

size == RoundUp8(req)

(* new_block of kmalloc: where the header of the remainder goes. *)
new == cur + HEADER + size

Init ==
  /\ mem = [a \in {0} |-> Header(HEAP_SIZE - HEADER, NULL, 1)]
  /\ asked = [p \in {} |-> 0]
  /\ pc = "idle" /\ cur = NULL /\ req = 0
  /\ shown = HEAP_SIZE - HEADER
-----------------------------------------------------------------------------
(* What can be read at a, and the header there with one field stored.      *)
At(a) == IF a \in DOMAIN mem THEN mem[a] ELSE Header(Junk, Junk, Junk)

WithSize(a, v) == Header(v, At(a).next, At(a).free)
WithNext(a, v) == Header(At(a).size, v, At(a).free)
WithFree(a, v) == Header(At(a).size, At(a).next, v)

Store(a, h) ==
  mem' = [b \in DOMAIN mem \cup {a} |-> IF b = a THEN h ELSE mem[b]]

Goto(l) == pc' = l

(* One store of kmalloc or kfree, and on to the next. *)
Step(from, a, h, to) ==
  /\ pc = from
  /\ Store(a, h)
  /\ Goto(to)
  /\ UNCHANGED <<asked, cur, req, shown>>
-----------------------------------------------------------------------------
KmallocCall ==
  /\ pc = "idle"
  /\ req' \in Requests
  /\ cur' = 0
  /\ Goto("search")
  /\ UNCHANGED <<mem, asked, shown>>

Usable == mem[cur].free # 0 /\ mem[cur].size >= size

(* current = current->next *)
SearchOn_Stay == pc = "search" /\ cur # NULL /\ ~Usable /\ UNCHANGED vars
SearchOn ==
  /\ pc = "search" /\ cur # NULL
  /\ ~Usable
  /\ cur' = mem[cur].next
  /\ UNCHANGED <<mem, asked, pc, req, shown>>

(* "No suitable block found" *)
SearchFail ==
  /\ pc = "search" /\ cur = NULL
  /\ Goto("idle")
  /\ req' = 0
  /\ UNCHANGED <<mem, asked, cur, shown>>

SearchHit_NoRoom ==
  /\ pc = "search" /\ cur # NULL
  /\ Usable
  /\ Goto(IF mem[cur].size > size THEN "new.size" ELSE "take")
  /\ UNCHANGED <<mem, asked, cur, req, shown>>
SearchHit ==
  /\ pc = "search" /\ cur # NULL
  /\ Usable
  /\ Goto(IF mem[cur].size > size + HEADER THEN "new.size" ELSE "take")
  /\ UNCHANGED <<mem, asked, cur, req, shown>>

(* The order of these five stores is what a walk in between depends on. *)
SplitSize == Step("new.size", new, WithSize(new, mem[cur].size - size - HEADER), "new.next")
SplitNext_Missing ==
  pc = "new.next" /\ Goto("new.free") /\ UNCHANGED <<mem, asked, cur, req, shown>>
SplitNext == Step("new.next", new, WithNext(new, mem[cur].next), "new.free")
SplitFree == Step("new.free", new, WithFree(new, 1), "cur.size")

CutSize_LinkFirst == Step("cur.size", cur, WithNext(cur, new), "cur.next")
CutSize == Step("cur.size", cur, WithSize(cur, size), "cur.next")
CutNext == Step("cur.next", cur, WithNext(cur, new), "take.cut")

(* current->free = 0 and return: from here on the payload is the caller's, *)
(* and with it every header that is still readable inside it.              *)
Take ==
  /\ pc \in {"take", "take.cut"}
  /\ LET inside == {b \in DOMAIN mem : cur < b /\ b < cur + HEADER + mem[cur].size}
     IN  mem' = [b \in DOMAIN mem \ inside |->
                   IF b = cur THEN WithFree(cur, 0) ELSE mem[b]]
  /\ asked' = [p \in DOMAIN asked \cup {cur + HEADER} |->
                 IF p = cur + HEADER THEN req ELSE asked[p]]
  /\ Goto("idle") /\ cur' = NULL /\ req' = 0
  /\ UNCHANGED shown
-----------------------------------------------------------------------------
(* block->free = 1 *)
KfreeCall_NoStore ==
  /\ pc = "idle"
  /\ \E p \in DOMAIN asked : cur' = p - HEADER
  /\ Goto("merge?")
  /\ UNCHANGED <<mem, asked, req, shown>>
KfreeCall ==
  /\ pc = "idle"
  /\ \E p \in DOMAIN asked :
       /\ cur' = p - HEADER
       /\ Store(p - HEADER, WithFree(p - HEADER, 1))
  /\ Goto("merge?")
  /\ UNCHANGED <<asked, req, shown>>

NextIsFree == mem[cur].next # NULL /\ mem[mem[cur].next].free # 0

(* kfree returns: its caller no longer holds the pointer. *)
Released ==
  /\ asked' = [q \in DOMAIN asked \ {cur + HEADER} |-> asked[q]]
  /\ Goto("idle") /\ cur' = NULL
  /\ UNCHANGED <<req, shown>>

NoMerge == pc = "merge?" /\ ~NextIsFree /\ Released /\ UNCHANGED mem

Merge == pc = "merge?" /\ NextIsFree /\ Goto("merge.size")
         /\ UNCHANGED <<mem, asked, cur, req, shown>>

MergeSize ==
  Step("merge.size", cur,
       WithSize(cur, mem[cur].size + mem[mem[cur].next].size + HEADER), "merge.next")

MergeLink_ToNext == pc = "merge.next" /\ Released /\ UNCHANGED mem
MergeLink ==
  /\ pc = "merge.next"
  /\ Store(cur, WithNext(cur, mem[mem[cur].next].next))
  /\ Released
-----------------------------------------------------------------------------
(* The walk of get_free_memory and get_used_memory: the blocks it meets.   *)
(* A list on the heap has at most MaxBlocks of them.                       *)
MaxBlocks == HEAP_SIZE \div HEADER

Visit[n \in 0 .. MaxBlocks + 1] ==
  IF n = 0 THEN 0
  ELSE LET a == Visit[n - 1]
       IN  IF a \in DOMAIN mem THEN mem[a].next ELSE a

Visited == {Visit[n] : n \in 0 .. MaxBlocks} \ {NULL}

SizesOf(S) == SumFunction([a \in S |-> mem[a].size])

WalkFree == SizesOf({a \in Visited : mem[a].free # 0})
WalkUsed == SizesOf({a \in Visited : mem[a].free = 0})

(* timer_handler, on a tick that redraws. *)
TimerRedraw ==
  /\ shown' = WalkFree
  /\ UNCHANGED main
-----------------------------------------------------------------------------
Kmalloc ==
  \/ KmallocCall \/ SearchOn \/ SearchFail \/ SearchHit
  \/ SplitSize \/ SplitNext \/ SplitFree \/ CutSize \/ CutNext \/ Take

Kfree == KfreeCall \/ NoMerge \/ Merge \/ MergeSize \/ MergeLink

Next == Kmalloc \/ Kfree \/ TimerRedraw

(* A handler always returns to the code it interrupted, and calls are made *)
(* forever: a call that was begun goes on.                                 *)
Continue == pc # "idle" /\ (Kmalloc \/ Kfree)

Spec == Init /\ [][Next]_vars /\ WF_vars(Continue)
-----------------------------------------------------------------------------
Labels == {"idle", "search", "new.size", "new.next", "new.free", "cur.size",
           "cur.next", "take", "take.cut", "merge?", "merge.size", "merge.next"}

TypeOK ==
  /\ DOMAIN mem \subseteq 0 .. HEAP_SIZE
  /\ \A a \in DOMAIN mem : /\ mem[a].size \in {Junk} \cup 0 .. HEAP_SIZE
                           /\ mem[a].next \in {Junk, NULL} \cup 0 .. HEAP_SIZE
                           /\ mem[a].free \in {Junk, 0, 1}
  /\ asked \in [DOMAIN asked -> Requests]
  /\ pc \in Labels
  /\ cur \in {NULL} \cup 0 .. HEAP_SIZE
  /\ req \in Requests \cup {0}
  /\ shown \in Nat

(* Wherever the timer interrupts, its walk ends, and every header on the   *)
(* way has been written in full: no field of a block still being carved    *)
(* out is read, and no left-over header.                                   *)
WalkSafe ==
  /\ \E n \in 0 .. MaxBlocks + 1 : Visit[n] = NULL
  /\ \A a \in Visited :
       /\ a \in DOMAIN mem
       /\ mem[a].size # Junk /\ mem[a].next # Junk /\ mem[a].free # Junk

(* kfree has stored its free flag, and is not done. *)
Releasing == pc \in {"merge?", "merge.size", "merge.next"}

(* The used figure is exact at every instant: the sizes of the blocks held *)
(* by callers, the one a call in progress is about to release excluded.    *)
HeldBlocks ==
  {p - HEADER : p \in DOMAIN asked} \
    (IF Releasing THEN {cur} ELSE {})
UsedExact == WalkUsed = SizesOf(HeldBlocks)

(* The walk claims no byte twice, except between the two stores of a merge *)
(* (see FreeWithinPool): what it shows as free plus what it shows as used  *)
(* fits in the heap along with the headers it met.                         *)
NoByteTwice ==
  pc # "merge.next" =>
    WalkFree + WalkUsed + HEADER * Cardinality(Visited) <= HEAP_SIZE

(* "Get the total free memory in bytes" (memory.c:76) of a pool of         *)
(* "the total memory pool size" (memory.c:91): what the memory line shows  *)
(* as free is no more than the pool.                                       *)
FreeWithinPool == shown <= HEAP_SIZE

(* Every call returns, however often it is interrupted. *)
CallsReturn == (pc # "idle") ~> (pc = "idle")
-----------------------------------------------------------------------------
(* The list with the call in progress undone: a call takes effect at its   *)
(* last store.                                                             *)
SizeBefore(a) ==
  CASE a = cur /\ pc \in {"cur.next", "take.cut"} -> mem[a].size + HEADER + mem[new].size
    [] a = cur /\ pc = "merge.next" -> mem[a].size - mem[mem[a].next].size - HEADER
    [] OTHER -> mem[a].size

NextBefore(a) == mem[IF a = cur /\ pc = "take.cut" THEN new ELSE a].next

FreeBefore(a) == mem[a].free # 0 /\ ~(a = cur /\ Releasing)

Undone ==
  [a \in IF pc = "take.cut" THEN Visited \ {new} ELSE Visited |->
     [size |-> SizeBefore(a), next |-> NextBefore(a), free |-> FreeBefore(a)]]

Atomic == INSTANCE KHeap WITH blocks <- Undone

(* Taken apart store by store, walked pointer by pointer and interrupted   *)
(* anywhere, kmalloc and kfree are still the atomic operations of KHeap.   *)
StepsImplementAtomic == Atomic!Spec
=============================================================================
