---------------------------- MODULE MCListeners ----------------------------
(* Instances of TFListeners for TLC. *)
EXTENDS TFListeners
=============================================================================
