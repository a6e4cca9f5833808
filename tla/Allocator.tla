----------------------------- MODULE Allocator -----------------------------
(***************************************************************************)
(* What a kernel allocator promises its callers, whatever data structure   *)
(* it keeps: every live pointer owns a region of the heap at least as      *)
(* large as was asked for, no two regions overlap, and a region neither    *)
(* moves nor changes size until its owner frees it.  A request may always  *)
(* be refused.                                                             *)
(***************************************************************************)
EXTENDS Integers

CONSTANTS
  HEAP_SIZE,  (* bytes managed by the allocator      *)
  Requests    (* the sizes its callers may ask for   *)

VARIABLE live (* pointer -> [asked, room]: what was requested, what was given *)

(* n bytes at p and m bytes at q have no byte in common. *)
Apart(p, n, q, m) == p + n <= q \/ q + m <= p

LiveInit == live = [p \in {} |-> [asked |-> 0, room |-> 0]]

Malloc(n) ==
  \E p \in 0 .. HEAP_SIZE :
    /\ p \notin DOMAIN live
    /\ DOMAIN live' = DOMAIN live \cup {p}
    /\ \E room \in n .. (HEAP_SIZE - p) :
         /\ \A q \in DOMAIN live : Apart(p, room, q, live[q].room)
         /\ live' = [q \in DOMAIN live \cup {p} |->
                       IF q = p THEN [asked |-> n, room |-> room] ELSE live[q]]

Free(p) ==
  /\ p \in DOMAIN live
  /\ live' = [q \in DOMAIN live \ {p} |-> live[q]]

LiveNext ==
  \/ \E n \in Requests : Malloc(n)
  \/ \E p \in DOMAIN live : Free(p)

LiveSpec == LiveInit /\ [][LiveNext]_live
=============================================================================
