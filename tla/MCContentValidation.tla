------------------------ MODULE MCContentValidation ------------------------
(***************************************************************************)
(* ContentValidation for TLC.                                              *)
(***************************************************************************)
EXTENDS ContentValidation
=============================================================================
