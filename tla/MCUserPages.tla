---------------------------- MODULE MCUserPages ----------------------------
(***************************************************************************)
(* UserPages, and with it RateLimit, for TLC: a bucket of three tokens is  *)
(* refilled in two seconds, so a token takes a fraction of a second and a  *)
(* reset time has to be rounded; the key can expire and clocks go back.    *)
(***************************************************************************)
EXTENDS UserPages
=============================================================================
