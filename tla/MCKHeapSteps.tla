---------------------------- MODULE MCKHeapSteps ----------------------------
(* 76 bytes: three blocks that hold 5 bytes each and a fourth of 4 bytes    *)
(* that holds nothing; a block is split, taken whole and merged, and cut     *)
(* again where an old header was left behind.                                *)
EXTENDS KHeapSteps

MCRequests == {5, 13}
=============================================================================
