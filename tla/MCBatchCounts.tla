--------------------------- MODULE MCBatchCounts ---------------------------
(***************************************************************************)
(* BatchCounts for TLC; liveness is checked without symmetry.              *)
(***************************************************************************)
EXTENDS BatchCounts, TLC
=============================================================================
