------------------------------- MODULE MCMbuf -------------------------------
(* Mbuf for TLC: buffers and addresses are interchangeable. *)
EXTENDS Mbuf, TLC

Symmetry == Permutations(Bufs) \cup Permutations(Blocks)
=============================================================================
