---------------------------- MODULE BoundedFifo ----------------------------
(***************************************************************************)
(* A queue of bounded length between two parties: what is put while there  *)
(* is room is got once, in order; what is put while it is full is dropped. *)
(***************************************************************************)
EXTENDS Naturals, Sequences

CONSTANTS
  Capacity, (* the most the queue holds  *)
  Items     (* what can be put into it   *)

VARIABLES
  queue,    (* what was put and not yet got, oldest first *)
  taken     (* what the last Get returned                 *)

FifoInit == queue = <<>> /\ taken \notin Items

Put(x) ==
  /\ Len(queue) < Capacity
  /\ queue' = Append(queue, x)
  /\ UNCHANGED taken

Get ==
  /\ queue # <<>>
  /\ taken' = Head(queue)
  /\ queue' = Tail(queue)

FifoNext == (\E x \in Items : Put(x)) \/ Get

FifoSpec == FifoInit /\ [][FifoNext]_<<queue, taken>>
=============================================================================
