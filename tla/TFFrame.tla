------------------------------ MODULE TFFrame ------------------------------
(***************************************************************************)
(* The frame format of TinyFrame (TF_Config.h, TinyFrame.c):               *)
(*    SOF | ID | LEN | TYPE | HEAD_CKSUM | DATA | DATA_CKSUM               *)
(* with big-endian fields, a one-byte checksum, and no DATA_CKSUM when the *)
(* payload is empty. A byte has Base values; the checksum is a parameter   *)
(* (XOR in this build), so the format does not depend on it.               *)
(***************************************************************************)
EXTENDS Integers, Sequences

CONSTANTS
  Base,                           \* values of a byte
  SOF,                            \* TF_SOF_BYTE
  IdBytes, LenBytes, TypeBytes,   \* TF_ID_BYTES, TF_LEN_BYTES, TF_TYPE_BYTES
  MaxPayload,                     \* TF_MAX_PAYLOAD_RX
  TimeoutTicks,                   \* TF_PARSER_TIMEOUT_TICKS
  TF_CksumAdd(_, _), TF_CksumEnd(_)

Byte == 0 .. Base - 1

\* How many numbers w bytes can hold.
Pow(w) == LET pow[k \in 0 .. w] == IF k = 0 THEN 1 ELSE pow[k - 1] * Base
          IN  pow[w]

\* The parser counts the bytes of every field in a number of LenBytes bytes.
ASSUME FormatAssumption ==
  /\ Base \in Nat \ {0, 1} /\ SOF \in Byte
  /\ IdBytes \in Nat \ {0} /\ LenBytes \in Nat \ {0} /\ TypeBytes \in Nat \ {0}
  /\ IdBytes <= Pow(LenBytes) /\ TypeBytes <= Pow(LenBytes)
  /\ MaxPayload \in Nat /\ TimeoutTicks \in Nat \ {0}

\* A checksum is one byte.
ASSUME CksumAssumption ==
  \A x \in Byte : TF_CksumEnd(x) \in Byte /\ \A c \in Byte : TF_CksumAdd(x, c) \in Byte

\* The checksum shows that one byte is different.
DetectsChange ==
  \A x, y \in Byte :
    /\ TF_CksumEnd(x) = TF_CksumEnd(y) => x = y
    /\ \A c \in Byte : TF_CksumAdd(x, c) = TF_CksumAdd(y, c) => x = y
    /\ \A c \in Byte : TF_CksumAdd(c, x) = TF_CksumAdd(c, y) => x = y

\* What the checksum functions make of the bytes s.
TF_CksumStart == 0
CksumAdded(s) ==
  LET sum[k \in 0 .. Len(s)] == IF k = 0 THEN TF_CksumStart ELSE TF_CksumAdd(sum[k - 1], s[k])
  IN  sum[Len(s)]
Cksum(s) == TF_CksumEnd(CksumAdded(s))

\* WRITENUM_BASE: the w bytes of num, most significant first.
WriteNum(num, w) == [k \in 1 .. w |-> (num \div Pow(w - k)) % Base]

\* TF_ComposeHead.
ComposeHead(id, len, type) ==
  LET head == <<SOF>> \o WriteNum(id, IdBytes) \o WriteNum(len, LenBytes)
                \o WriteNum(type, TypeBytes)
  IN Append(head, Cksum(head))

\* The frame of a message, as TF_SendFrame writes it.
Compose(m) ==
  ComposeHead(m.id, Len(m.data), m.type) \o m.data
    \o (IF m.data = <<>> THEN <<>> ELSE <<Cksum(m.data)>>)

HeadLen == 1 + IdBytes + LenBytes + TypeBytes + 1

\* COLLECT_NUMBER: c is shifted into a field of w bytes.
Collect(dest, c, w) == (dest * Base + c) % Pow(w)
=============================================================================
