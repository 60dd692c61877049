----------------------------- MODULE ByteString -----------------------------
(***************************************************************************)
(* What an mbuf promises (the comments of common_utils/mbuf.h): a string   *)
(* of bytes that can be inserted into, cut at the front, emptied and       *)
(* handed on, and calls that report how much they have added. Memory,      *)
(* growth and allocation failures do not show, except that an insertion    *)
(* may fail as a whole and then reports 0.                                 *)
(***************************************************************************)
EXTENDS Integers, Sequences

CONSTANTS Bufs,     \* the strings
          Byte,     \* the bytes they are made of
          MaxInput  \* bound: bytes added by one call

VARIABLES content,  \* the string of each buffer
          ret       \* what the last adding call returned, -1 for an error

bsVars == <<content, ret>>

Input == UNION {[1 .. n -> Byte] : n \in 0 .. MaxInput}

Inserted(s, off, d) == SubSeq(s, 1, off) \o d \o SubSeq(s, off + 1, Len(s))

BSInit == content = [m \in Bufs |-> <<>>] /\ ret = 0

\* d goes in at off and is counted, or nothing happens and 0 is returned.
Insert(m, off, d) ==
  /\ off \in 0 .. Len(content[m])
  /\ \/ content' = [content EXCEPT ![m] = Inserted(@, off, d)] /\ ret' = Len(d)
     \/ UNCHANGED content /\ ret' = 0

\* The number of bytes printed is returned also when they were not added; -1
\* means that the text could not be formatted.
PrintTo(m, d) ==
  \/ content' = [content EXCEPT ![m] = @ \o d] /\ ret' = Len(d)
  \/ UNCHANGED content /\ ret' \in {Len(d), -1}

Cut(m, n) ==
  /\ n \in 0 .. Len(content[m])
  /\ content' = [content EXCEPT ![m] = SubSeq(@, n + 1, Len(@))]
  /\ UNCHANGED ret

\* b gets a's string, and a is left empty.
HandOn(a, b) ==
  /\ a # b
  /\ content' = [content EXCEPT ![b] = content[a], ![a] = <<>>]
  /\ UNCHANGED ret

BSNext ==
  \/ \E m \in Bufs, d \in Input :
       \/ \E off \in 0 .. Len(content[m]) : Insert(m, off, d)
       \/ PrintTo(m, d)
  \/ \E m \in Bufs : \E n \in 0 .. Len(content[m]) : Cut(m, n)
  \/ \E a, b \in Bufs : HandOn(a, b)

BSSpec == BSInit /\ [][BSNext]_bsVars
=============================================================================
