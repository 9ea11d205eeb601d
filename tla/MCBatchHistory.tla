--------------------------- MODULE MCBatchHistory --------------------------
(***************************************************************************)
(* BatchHistory for TLC.                                                   *)
(***************************************************************************)
EXTENDS BatchHistory, TLC

BatchSymmetry == Permutations(Users) \cup Permutations(Items) \cup Permutations(Batches)
=============================================================================
