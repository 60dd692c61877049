----------------------------- MODULE TFTransmit -----------------------------
(***************************************************************************)
(* The transmit side of TinyFrame (tf_demo/TinyFrame.c): the Tx lock, the  *)
(* composition of a frame in sendbuf, its flushing in pieces and the       *)
(* multipart interface, for several execution contexts that share one      *)
(* TinyFrame.                                                              *)
(*                                                                         *)
(* A context is a thread, or (Nested) an interrupt level: then a context   *)
(* runs only while no higher one is active.  Without a user supplied mutex *)
(* (Mutex = FALSE) TF_ClaimTx tests soft_lock and sets it in two steps.    *)
(*                                                                         *)
(* Abstractions: a byte is a record that says what it is and to which      *)
(* frame it belongs; the payload checksum is the sequence of the bytes     *)
(* that went into it, so two payloads never share one.                     *)
(***************************************************************************)
EXTENDS Naturals, Sequences

CONSTANTS
  NumCtx,       \* number of contexts sharing the TinyFrame
  Mutex,        \* TF_USE_MUTEX: the user supplies an atomic TF_ClaimTx
  Nested,       \* contexts are interrupt levels, not threads
  UncheckedRespond,  \* TF_Respond_Multipart, which reports no failure, is used
  SendBufLen,   \* TF_SENDBUF_LEN
  HeadLen,      \* bytes of SOF, ID, LEN, TYPE and HEAD_CKSUM
  CksumLen,     \* sizeof(TF_CKSUM)
  Lens,         \* the payload lengths that are sent
  MultiLens,    \* the payload lengths of multipart frames
  IdMod,        \* TF_ID_MASK + 1
  MaxFrames     \* bound: frames a run begins

ASSUME ModeAssumption == /\ Mutex \in BOOLEAN
                         /\ Nested \in BOOLEAN
                         /\ UncheckedRespond \in BOOLEAN
ASSUME SizeAssumption == /\ NumCtx \in Nat
                         /\ HeadLen \in Nat \ {0}
                         /\ CksumLen \in Nat \ {0}
                         /\ SendBufLen \in Nat
                         /\ HeadLen <= SendBufLen
                         /\ CksumLen <= SendBufLen
                         /\ Lens \subseteq Nat
                         /\ MultiLens \subseteq Nat
                         /\ IdMod \in Nat \ {0}
                         /\ MaxFrames \in Nat

Ctx == 1 .. NumCtx

\* The functions of the API that send. A multipart frame is opened by one of
\* them; a query comes with an ID listener; a response has its ID from the
\* message it answers.
MultiKinds == {"TF_Send_Multipart", "TF_Query_Multipart", "TF_Respond_Multipart"}
QueryKinds == {"TF_Query", "TF_Query_Multipart"}
ResponseKinds == {"TF_Respond", "TF_Respond_Multipart"}
Kinds == {"TF_Send", "TF_Query", "TF_Respond", "TF_Send_Multipart", "TF_Query_Multipart"}
           \cup (IF UncheckedRespond THEN {"TF_Respond_Multipart"} ELSE {})

VARIABLES
  lock,      \* soft_lock, or the user's mutex
  sendbuf,   \* sendbuf[0 .. tx_pos-1]
  tx_len,    \* tx_len
  tx_cksum,  \* tx_cksum
  next_id,   \* next_id, a TF_ID
  pc,        \* where each context is
  job,       \* the frame each context sends
  left,      \* payload bytes it has still to hand over
  wire,      \* every byte passed to TF_WriteImpl
  begun,     \* history: frames begun
  sent       \* history: the bytes of the frames that were completed, in order

vars == <<lock, sendbuf, tx_len, tx_cksum, next_id, pc, job, left, wire,
          begun, sent>>

NoJob == [f |-> 0, kind |-> "TF_Send", len |-> 0, id |-> 0]

Init ==
  /\ lock = FALSE /\ sendbuf = <<>> /\ tx_len = 0 /\ tx_cksum = <<>>
  /\ next_id = 0
  /\ pc = [c \in Ctx |-> "idle"] /\ job = [c \in Ctx |-> NoJob]
  /\ left = [c \in Ctx |-> 0]
  /\ wire = <<>> /\ begun = 0 /\ sent = <<>>

-----------------------------------------------------------------------------
\* The pieces of a frame, as TF_ComposeHead, TF_ComposeBody and
\* TF_ComposeTail write them. The head holds the frame's ID and length.
TF_ComposeHead(f, id, len) ==
  [k \in 1 .. HeadLen |-> [f |-> f, part |-> "head", k |-> k, v |-> <<id, len>>]]
TF_ComposeBody(f, from, n) ==
  [k \in 1 .. n |-> [f |-> f, part |-> "body", k |-> from + k, v |-> <<>>]]
TF_ComposeTail(cksum) ==
  [k \in 1 .. CksumLen |-> [f |-> 0, part |-> "tail", k |-> k, v |-> cksum]]

\* The whole frame a peer expects to find on the line.
FrameBytes(f, id, len) ==
  LET body == TF_ComposeBody(f, 0, len)
  IN TF_ComposeHead(f, id, len) \o body
       \o (IF len > 0 THEN TF_ComposeTail(body) ELSE <<>>)

MinOf(a, b) == IF a < b THEN a ELSE b

\* c has the processor: with interrupt levels, nothing above it is active.
Runs(c) == Nested => \A d \in Ctx : d > c => pc[d] = "idle"

\* Between TF_SendFrame_Begin and TF_SendFrame_End.
Sending == {"body", "open", "end"}

-----------------------------------------------------------------------------
\* Mutant: the frame is begun whether or not the lock is taken.
ClaimUntested(c, kind, len) ==
  /\ pc[c] = "idle" /\ Runs(c) /\ begun < MaxFrames
  /\ begun' = begun + 1
  /\ job' = [job EXCEPT ![c] = [f |-> begun + 1, kind |-> kind, len |-> len, id |-> 0]]
  /\ left' = [left EXCEPT ![c] = len]
  /\ pc' = [pc EXCEPT ![c] = "begin"]
  /\ lock' = TRUE
  /\ UNCHANGED <<sendbuf, tx_len, tx_cksum, next_id, wire, sent>>

\* The first half of TF_ClaimTx for a new frame: the test. A frame that finds
\* the lock taken is not sent. TF_Respond_Multipart returns void: its caller
\* goes on to the payload as if the frame had been opened.
ClaimTest(c, kind, len) ==
  /\ pc[c] = "idle" /\ Runs(c) /\ begun < MaxFrames
  /\ begun' = begun + 1
  /\ job' = [job EXCEPT ![c] = [f |-> begun + 1, kind |-> kind, len |-> len, id |-> 0]]
  /\ left' = [left EXCEPT ![c] = len]
  /\ IF lock
     THEN /\ pc' = [pc EXCEPT ![c] = IF kind = "TF_Respond_Multipart" THEN "open" ELSE "idle"]
          /\ UNCHANGED lock
     ELSE /\ pc' = [pc EXCEPT ![c] = IF Mutex THEN "begin" ELSE "claim"]
          /\ lock' = Mutex
  /\ UNCHANGED <<sendbuf, tx_len, tx_cksum, next_id, wire, sent>>

\* The second half: soft_lock = true.
ClaimSet(c) ==
  /\ pc[c] = "claim" /\ Runs(c)
  /\ lock' = TRUE
  /\ pc' = [pc EXCEPT ![c] = "begin"]
  /\ UNCHANGED <<sendbuf, tx_len, tx_cksum, next_id, job, left, wire, begun, sent>>

\* Mutant: the flag is left as it is.
ReleaseForgotten == lock

\* TF_ReleaseTx: the new value of soft_lock.
TF_ReleaseTx == FALSE

\* The ID of a frame: a response keeps the one it answers (0 stands for it).
GenId(kind) == IF kind \in ResponseKinds THEN 0 ELSE next_id % IdMod

NextId(kind) == IF kind \in ResponseKinds THEN next_id ELSE (next_id + 1) % (2 * IdMod)

\* TF_SendFrame_Begin after the claim. added: TF_AddIdListener found a slot.
TF_SendFrame_Begin(c, added) ==
  LET j == job[c]
      id == GenId(j.kind)
  IN /\ pc[c] = "begin" /\ Runs(c)
     /\ added \/ j.kind \in QueryKinds
     /\ sendbuf' = TF_ComposeHead(j.f, id, j.len)
     /\ next_id' = NextId(j.kind)
     /\ tx_len' = j.len
     /\ IF added
        THEN /\ pc' = [pc EXCEPT ![c] =
                         CASE j.len = 0 -> "end"
                           [] j.len > 0 /\ j.kind \in MultiKinds -> "open"
                           [] OTHER -> "body"]
             /\ job' = [job EXCEPT ![c].id = id]
             /\ tx_cksum' = <<>>
             /\ UNCHANGED lock
        ELSE /\ pc' = [pc EXCEPT ![c] = "idle"]
             /\ lock' = TF_ReleaseTx
             /\ UNCHANGED <<job, tx_cksum>>
  /\ UNCHANGED <<left, wire, begun, sent>>

\* "Flush if the buffer is full"
MustFlush(buf) == Len(buf) = SendBufLen

\* One turn of the loop of TF_SendFrame_Chunk for n more payload bytes.
Chunk(c, n) ==
  LET j == job[c]
      chunk == MinOf(SendBufLen - Len(sendbuf), n)
      part == TF_ComposeBody(j.f, j.len - left[c], chunk)
      buf == sendbuf \o part
  IN /\ tx_cksum' = tx_cksum \o part
     /\ left' = [left EXCEPT ![c] = left[c] - chunk]
     /\ IF MustFlush(buf)
        THEN wire' = wire \o buf /\ sendbuf' = <<>>
        ELSE sendbuf' = buf /\ UNCHANGED wire

\* TF_SendFrame: the payload is handed over at once.
TF_SendFrame_Chunk(c) ==
  /\ pc[c] = "body" /\ Runs(c)
  /\ Chunk(c, left[c])
  /\ pc' = [pc EXCEPT ![c] = IF left'[c] = 0 THEN "end" ELSE "body"]
  /\ UNCHANGED <<lock, tx_len, next_id, job, begun, sent>>

\* The user of a multipart frame hands over n more bytes of the payload. A
\* call that does not fit goes on as the next one.
TF_Multipart_Payload(c, n) ==
  /\ pc[c] = "open" /\ Runs(c)
  /\ n \in 1 .. left[c]
  /\ Chunk(c, n)
  /\ UNCHANGED <<lock, tx_len, next_id, pc, job, begun, sent>>

\* Mutant: the room left for the checksum is not looked at.
CksumNeverFlushes(buf) == FALSE

\* "Flush if checksum wouldn't fit in the buffer"
CksumNeedsFlush(buf) == SendBufLen - Len(buf) < CksumLen

\* What TF_SendFrame_End passes to TF_WriteImpl, and leaves in sendbuf:
\* tx_pos is only reset by the next TF_ComposeHead.
End ==
  LET flush == tx_len > 0 /\ CksumNeedsFlush(sendbuf)
      rest == (IF flush THEN <<>> ELSE sendbuf)
                \o (IF tx_len > 0 THEN TF_ComposeTail(tx_cksum) ELSE <<>>)
  IN /\ wire' = wire \o (IF flush THEN sendbuf ELSE <<>>) \o rest
     /\ sendbuf' = rest
     /\ lock' = TF_ReleaseTx

\* TF_SendFrame_End, called by TF_SendFrame, and by TF_Multipart_Close once the
\* payload is handed over. An empty multipart frame has been sent by
\* TF_SendFrame already when its user closes it ("close").
TF_SendFrame_End(c) ==
  /\ pc[c] \in {"end", "close"} \/ (pc[c] = "open" /\ left[c] = 0)
  /\ Runs(c)
  /\ End
  /\ sent' = IF pc[c] = "close" THEN sent
             ELSE sent \o FrameBytes(job[c].f, job[c].id, job[c].len)
  /\ pc' = [pc EXCEPT ![c] = IF job[c].kind \in MultiKinds /\ pc[c] = "end"
                             THEN "close" ELSE "idle"]
  /\ UNCHANGED <<tx_len, tx_cksum, next_id, job, left, begun>>

-----------------------------------------------------------------------------
Step(c) ==
  \/ ClaimSet(c)
  \/ \E added \in BOOLEAN : TF_SendFrame_Begin(c, added)
  \/ TF_SendFrame_Chunk(c)
  \/ \E n \in 1 .. left[c] : TF_Multipart_Payload(c, n)
  \/ TF_SendFrame_End(c)

Next == \E c \in Ctx :
          \/ \E kind \in Kinds :
               \E len \in (IF kind \in MultiKinds THEN MultiLens ELSE Lens) :
                 ClaimTest(c, kind, len)
          \/ Step(c)

Spec == Init /\ [][Next]_vars

\* A context that has begun a frame goes on with it (with interrupt levels:
\* when those above it are done).
FairSpec == Spec /\ \A c \in Ctx : SF_vars(Step(c))

-----------------------------------------------------------------------------
\* The contexts between TF_ClaimTx and TF_ReleaseTx.
Holders == {c \in Ctx : pc[c] \in {"begin"} \cup Sending}

\* One context at a time is between TF_ClaimTx and TF_ReleaseTx, although the
\* soft lock is tested and set in two steps: an interrupt level that sends in
\* between is done with its frame before the interrupted one goes on.
OneSender == \A c, d \in Holders : c = d

\* The frame of context c as far as it has been composed.
Composed(c) == SubSeq(FrameBytes(job[c].f, job[c].id, job[c].len),
                      1, HeadLen + job[c].len - left[c])

\* Whenever no frame is being sent, the bytes passed to TF_WriteImpl are the
\* completed frames one after the other: "Claim the TX interface before
\* composing and sending a frame".
WireIsFrames == (\A c \in Ctx : pc[c] \notin Sending) => wire = sent

\* The same, and inside a frame: the bytes passed to TF_WriteImpl are whole
\* frames one after the other, then the beginning of the one being sent; with
\* what waits in sendbuf they make up exactly what was composed. No frame is
\* torn, mixed with another's bytes, repeated or sent with a checksum of
\* anything but its payload, and sendbuf never runs over.
FramesIntact ==
  /\ WireIsFrames /\ Len(sendbuf) <= SendBufLen
  /\ \A c \in Ctx : pc[c] \in Sending => wire \o sendbuf = sent \o Composed(c)

\* The Tx lock is held only on behalf of a frame that is being sent: no exit
\* of the sending functions, that of a listener table that is full included,
\* leaves it claimed with nobody to release it.
LockHasOwner == lock => Holders # {}

\* The lock is always released again, so that sending stays possible.
LockReleased == []<>(~lock)
=============================================================================
