--------------------------- MODULE MCLikeService ---------------------------
(***************************************************************************)
(* LikeService for TLC.  Users are interchangeable, and so are the requests *)
(* of one kind: the safety runs check one state of each orbit.             *)
(***************************************************************************)
EXTENDS LikeService, TLC

Symmetry == Permutations(Users) \cup Permutations(Writers) \cup Permutations(Readers)
=============================================================================
