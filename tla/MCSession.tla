----------------------------- MODULE MCSession ------------------------------
(* TFSession for TLC. *)
EXTENDS TFSession

IdSet == 0 .. IdMod - 1
Numbers == 1 .. MaxQueries
=============================================================================
