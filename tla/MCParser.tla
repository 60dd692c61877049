------------------------------ MODULE MCParser ------------------------------
(* TFParser with the XOR checksum on bytes of one bit. *)
EXTENDS TFParser, Bitwise

XorAdd(cksum, byte) == cksum ^^ byte
XorEnd(cksum) == Base - 1 - cksum

\* One byte that is different shows.
ASSUME XorAssumption == DetectsChange

\* Frames without a payload, of every length up to MaxPayload, and longer.
FramesOf(datas) ==
  {[id |-> i, type |-> t, data |-> d] : i \in {0, 1}, t \in {1}, d \in datas}
BitFrames == FramesOf({<<>>, <<0>>, <<1>>, <<1, 0>>, <<1, 1>>, <<1, 0, 1>>})
=============================================================================
