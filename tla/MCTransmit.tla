----------------------------- MODULE MCTransmit -----------------------------
(* Instances of TFTransmit for TLC. *)
EXTENDS TFTransmit
=============================================================================
