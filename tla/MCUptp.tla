------------------------------- MODULE MCUptp -------------------------------
(* Instances of Uptp for TLC. *)
EXTENDS Uptp
=============================================================================
