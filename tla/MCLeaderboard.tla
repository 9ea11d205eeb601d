--------------------------- MODULE MCLeaderboard ---------------------------
(***************************************************************************)
(* Leaderboard for TLC.                                                    *)
(***************************************************************************)
EXTENDS Leaderboard
=============================================================================
