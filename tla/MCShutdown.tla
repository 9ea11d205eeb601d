----------------------------- MODULE MCShutdown -----------------------------
(***************************************************************************)
(* Shutdown, and with it SseHub, for TLC.                                  *)
(***************************************************************************)
EXTENDS Shutdown
=============================================================================
