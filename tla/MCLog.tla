-------------------------------- MODULE MCLog --------------------------------
(* LibLog for TLC. *)
EXTENDS LibLog
=============================================================================
