------------------------------ MODULE MCKHeap ------------------------------
(* Small heaps for TLC.  A block costs 12 bytes of header, so 88 bytes hold  *)
(* up to seven blocks of no payload: enough to split, to leave a remainder   *)
(* too small to split, to merge, and to leave two free neighbours unmerged.  *)
EXTENDS KHeap

MCRequests == {0, 5, 13, 24}
=============================================================================
