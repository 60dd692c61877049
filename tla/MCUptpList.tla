----------------------------- MODULE MCUptpList -----------------------------
(* Instances of UptpList for TLC. *)
EXTENDS UptpList
=============================================================================
