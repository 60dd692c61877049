-------------------------- MODULE TFTransmitProofs --------------------------
(***************************************************************************)
(* The Tx lock of TFTransmit works for any number of contexts, any buffer  *)
(* and frame sizes and any number of frames: one context sends at a time,  *)
(* the lock is held exactly as long as somebody sends, and what reaches    *)
(* the line is whole frames, one after the other.                          *)
(***************************************************************************)
EXTENDS TFTransmit, SequenceTheorems, TLAPS

\* What the callers must keep to: threads bring a mutex (contexts that only
\* have the soft lock are nested interrupt levels), TF_Respond_Multipart, whose
\* failure nobody sees, is not used, and no multipart frame is empty.
Discipline == /\ Mutex \/ Nested
              /\ ~UncheckedRespond
              /\ 0 \notin MultiLens

Job == [f : Nat, kind : Kinds, len : Nat, id : Nat]

\* The parts of the state the lock depends on.
LockTypes ==
  /\ lock \in BOOLEAN
  /\ pc \in [Ctx -> {"idle", "claim", "begin", "body", "open", "end"}]
  /\ job \in [Ctx -> Job]
  /\ next_id \in Nat /\ begun \in Nat

\* An open multipart frame has a payload, so TF_SendFrame does not end it.
MultiHasPayload ==
  \A c \in Ctx :
    /\ pc[c] \in {"claim", "begin"} /\ job[c].kind \in MultiKinds => job[c].len # 0
    /\ pc[c] \in {"body", "end"} => job[c].kind \notin MultiKinds

\* A context that has found soft_lock clear and has not set it yet has
\* interrupted nobody who sends.
ClaimIsSafe ==
  \A c \in Ctx : pc[c] = "claim" => /\ ~Mutex /\ Nested
                                    /\ \A b \in Ctx : b < c => b \notin Holders

LockMeansHolder == lock <=> Holders # {}

LockInv == /\ LockTypes
           /\ MultiHasPayload
           /\ ClaimIsSafe
           /\ LockMeansHolder
           /\ OneSender

\* In the initial state the lock is free and every context idle.
LEMMA InitLockInv == Init => LockInv
<1> SUFFICES ASSUME Init PROVE LockInv
  OBVIOUS
<1>1. LockTypes
  BY DEF Init, LockTypes, Job, NoJob, Kinds
<1>2. Holders = {}
  BY DEF Init, Holders, Sending
<1>3. MultiHasPayload /\ ClaimIsSafe
  BY DEF Init, MultiHasPayload, ClaimIsSafe
<1>4. LockMeansHolder /\ OneSender
  BY <1>2 DEF Init, LockMeansHolder, OneSender
<1> QED BY <1>1, <1>3, <1>4 DEF LockInv

\* A step that ends context c's frame, or ends it before it began, and
\* releases the lock.
LEMMA ReleaseKeepsLockInv ==
  ASSUME LockInv, LockTypes', NEW c \in Ctx, c \in Holders,
         pc' = [pc EXCEPT ![c] = "idle"], job' = job, lock' = FALSE
  PROVE  LockInv'
<1>1. Holders' = {}
  <2> SUFFICES ASSUME NEW d \in Ctx, d \in Holders' PROVE FALSE
    BY DEF Holders
  <2>1. d # c
    BY DEF LockInv, LockTypes, Holders, Sending
  <2>2. d \in Holders
    BY <2>1 DEF LockInv, LockTypes, Holders
  <2> QED BY <2>1, <2>2 DEF LockInv, OneSender
<1>2. MultiHasPayload'
  BY DEF LockInv, LockTypes, MultiHasPayload
<1>3. ClaimIsSafe'
  BY <1>1 DEF LockInv, LockTypes, ClaimIsSafe
<1>4. LockMeansHolder' /\ OneSender'
  BY <1>1 DEF LockMeansHolder, OneSender
<1> QED BY <1>2, <1>3, <1>4 DEF LockInv

\* A step in which the holder of the lock goes on and stays the holder.
LEMMA HolderGoesOn ==
  ASSUME LockInv, LockTypes', NEW c \in Ctx, c \in Holders, c \in Holders',
         \A d \in Ctx : d # c => pc'[d] = pc[d] /\ job'[d] = job[d],
         pc'[c] \in {"body", "end"} => job'[c].kind \notin MultiKinds,
         pc'[c] # "begin", lock' = lock
  PROVE  LockInv'
<1>1. Holders' = Holders
  <2>1. \A d \in Ctx : d \in Holders' <=> d \in Holders
    BY DEF Holders
  <2> QED BY <2>1 DEF Holders
<1>2. MultiHasPayload'
  BY DEF LockInv, MultiHasPayload, Holders, Sending
<1>3. ClaimIsSafe'
  BY <1>1 DEF LockInv, ClaimIsSafe, Holders, Sending
<1>4. LockMeansHolder' /\ OneSender'
  BY <1>1 DEF LockInv, LockMeansHolder, OneSender
<1> QED BY <1>2, <1>3, <1>4 DEF LockInv

-----------------------------------------------------------------------------
\* The lock is found free, and claimed or about to be; or it is found taken,
\* and the context gives up.
LEMMA ClaimTestLockInv ==
  ASSUME LockInv, Discipline, NEW c \in Ctx, NEW kind \in Kinds,
         NEW len \in (IF kind \in MultiKinds THEN MultiLens ELSE Lens),
         ClaimTest(c, kind, len)
  PROVE  LockInv'
<1>1. /\ len \in Nat
      /\ kind \in MultiKinds => len # 0
      /\ kind # "TF_Respond_Multipart"
  BY SizeAssumption DEF Discipline, Kinds, MultiKinds
<1>2. LockTypes'
  BY <1>1, ModeAssumption DEF LockInv, LockTypes, ClaimTest, Job
<1>3. /\ pc[c] = "idle"
      /\ \A d \in Ctx : d # c => pc'[d] = pc[d] /\ job'[d] = job[d]
      /\ job'[c].kind = kind /\ job'[c].len = len
  BY DEF LockInv, LockTypes, ClaimTest
<1>4. CASE lock
  <2>1. lock' = lock /\ pc'[c] = "idle"
    BY <1>1, <1>4 DEF LockInv, LockTypes, ClaimTest
  <2>2. Holders' = Holders
    <3>1. \A d \in Ctx : pc'[d] = pc[d]
      BY <1>3, <2>1
    <3> QED BY <3>1 DEF Holders
  <2>3. MultiHasPayload'
    BY <1>3, <2>1 DEF LockInv, MultiHasPayload
  <2>4. ClaimIsSafe'
    BY <1>3, <2>1, <2>2 DEF LockInv, ClaimIsSafe
  <2> QED BY <1>2, <2>1, <2>2, <2>3, <2>4 DEF LockInv, LockMeansHolder, OneSender
<1>5. CASE ~lock
  <2>1. Holders = {}
    BY <1>5 DEF LockInv, LockMeansHolder
  <2>2. /\ Mutex => lock' = TRUE /\ pc'[c] = "begin"
        /\ ~Mutex => lock' = FALSE /\ pc'[c] = "claim"
    BY <1>5, ModeAssumption DEF LockInv, LockTypes, ClaimTest
  <2>3. MultiHasPayload'
    BY <1>1, <1>3, <2>2 DEF LockInv, MultiHasPayload
  <2>4. \A d \in Ctx : d # c => d \notin Holders'
    BY <1>3, <2>1 DEF Holders
  <2>5. CASE Mutex
    <3>1. c \in Holders'
      BY <2>2, <2>5 DEF Holders
    <3>2. ClaimIsSafe'
      BY <1>3, <2>2, <2>4, <2>5 DEF LockInv, ClaimIsSafe
    <3>3. LockMeansHolder' /\ OneSender'
      BY <2>2, <2>4, <2>5, <3>1 DEF LockMeansHolder, OneSender, Holders
    <3> QED BY <1>2, <2>3, <3>2, <3>3 DEF LockInv
  <2>6. CASE ~Mutex
    <3>1. Holders' = {}
      BY <2>2, <2>4, <2>6 DEF Holders, Sending
    <3>2. ClaimIsSafe'
      BY <2>6, <3>1 DEF Discipline, ClaimIsSafe
    <3>3. LockMeansHolder' /\ OneSender'
      BY <2>2, <2>6, <3>1 DEF LockMeansHolder, OneSender
    <3> QED BY <1>2, <2>3, <3>2, <3>3 DEF LockInv
  <2> QED BY <2>5, <2>6
<1> QED BY <1>4, <1>5

\* The soft lock is set: whoever sent meanwhile is a higher interrupt level
\* and is done.
LEMMA ClaimSetLockInv ==
  ASSUME LockInv, Discipline, NEW c \in Ctx, ClaimSet(c)
  PROVE  LockInv'
<1>1. LockTypes'
  BY DEF LockInv, LockTypes, ClaimSet
<1>2. /\ pc[c] = "claim" /\ pc'[c] = "begin" /\ lock' = TRUE /\ job' = job
      /\ \A d \in Ctx : d # c => pc'[d] = pc[d]
  BY DEF LockInv, LockTypes, ClaimSet
<1>3. \A d \in Ctx : d > c => pc[d] = "idle"
  BY <1>2 DEF LockInv, ClaimIsSafe, ClaimSet, Runs
<1>4. \A d \in Ctx : d # c => d \notin Holders
  <2> SUFFICES ASSUME NEW d \in Ctx, d # c PROVE d \notin Holders
    OBVIOUS
  <2>1. CASE d < c
    BY <1>2, <2>1 DEF LockInv, ClaimIsSafe
  <2>2. CASE d > c
    BY <1>3, <2>2 DEF Holders, Sending
  <2> QED BY <2>1, <2>2, SizeAssumption DEF Ctx
<1>5. Holders' = {c}
  <2>1. \A d \in Ctx : d \in Holders' <=> d = c
    BY <1>2, <1>4 DEF Holders
  <2> QED BY <2>1 DEF Holders
<1>6. MultiHasPayload'
  BY <1>2 DEF LockInv, MultiHasPayload
<1>7. ClaimIsSafe'
  <2> SUFFICES ASSUME NEW d \in Ctx, pc'[d] = "claim"
               PROVE  ~Mutex /\ Nested /\ \A b \in Ctx : b < d => b # c
    BY <1>5 DEF ClaimIsSafe
  <2>1. d # c /\ pc[d] = "claim"
    BY <1>2
  <2>2. ~(c < d)
    BY <1>3, <2>1, SizeAssumption DEF Ctx
  <2> QED BY <2>1, <2>2 DEF LockInv, ClaimIsSafe
<1>8. LockMeansHolder' /\ OneSender'
  BY <1>2, <1>5 DEF LockMeansHolder, OneSender
<1> QED BY <1>1, <1>6, <1>7, <1>8 DEF LockInv

\* TF_SendFrame_Begin goes on to the payload or the end, or, with no listener
\* slot left, releases the lock again.
LEMMA BeginLockInv ==
  ASSUME LockInv, Discipline, NEW c \in Ctx, NEW added \in BOOLEAN,
         TF_SendFrame_Begin(c, added)
  PROVE  LockInv'
<1>1. c \in Holders
  BY DEF TF_SendFrame_Begin, Holders
<1>2. GenId(job[c].kind) \in Nat /\ NextId(job[c].kind) \in Nat
  BY SizeAssumption DEF LockInv, LockTypes, GenId, NextId
<1>3. CASE added
  <2>1. /\ pc' = [pc EXCEPT ![c] =
                    CASE job[c].len = 0 -> "end"
                      [] job[c].len > 0 /\ job[c].kind \in MultiKinds -> "open"
                      [] OTHER -> "body"]
        /\ job' = [job EXCEPT ![c].id = GenId(job[c].kind)]
        /\ lock' = lock /\ next_id' = NextId(job[c].kind) /\ begun' = begun
    BY <1>3 DEF TF_SendFrame_Begin
  <2>2. LockTypes'
    BY <1>2, <2>1 DEF LockInv, LockTypes, Job
  <2>3. pc'[c] \in {"body", "open", "end"}
    BY <2>1 DEF LockInv, LockTypes
  <2>4. c \in Holders'
    BY <2>3 DEF Holders, Sending
  <2>5. pc'[c] \in {"body", "end"} => job'[c].kind \notin MultiKinds
    BY <2>1 DEF LockInv, LockTypes, Job, MultiHasPayload, TF_SendFrame_Begin
  <2>6. \A d \in Ctx : d # c => pc'[d] = pc[d] /\ job'[d] = job[d]
    BY <2>1 DEF LockInv, LockTypes
  <2> QED BY <1>1, <2>1, <2>2, <2>3, <2>4, <2>5, <2>6, HolderGoesOn
<1>4. CASE ~added
  <2>1. /\ pc' = [pc EXCEPT ![c] = "idle"] /\ job' = job /\ lock' = FALSE
        /\ next_id' = NextId(job[c].kind) /\ begun' = begun
    BY <1>4 DEF TF_SendFrame_Begin, TF_ReleaseTx
  <2>2. LockTypes'
    BY <1>2, <2>1 DEF LockInv, LockTypes
  <2> QED BY <1>1, <2>1, <2>2, ReleaseKeepsLockInv
<1> QED BY <1>3, <1>4

\* The payload is composed and flushed under the lock.
LEMMA PayloadLockInv ==
  ASSUME LockInv, NEW c \in Ctx,
         \/ TF_SendFrame_Chunk(c)
         \/ \E n \in 1 .. left[c] : TF_Multipart_Payload(c, n)
  PROVE  LockInv'
<1>1. CASE TF_SendFrame_Chunk(c)
  <2>1. /\ pc[c] = "body" /\ pc'[c] \in {"end", "body"}
        /\ pc' = [pc EXCEPT ![c] = pc'[c]]
        /\ job' = job /\ lock' = lock /\ next_id' = next_id /\ begun' = begun
    BY <1>1 DEF LockInv, LockTypes, TF_SendFrame_Chunk
  <2>2. LockTypes'
    BY <2>1 DEF LockInv, LockTypes
  <2>3. c \in Holders /\ c \in Holders'
    BY <2>1 DEF Holders, Sending
  <2>4. job[c].kind \notin MultiKinds
    BY <2>1 DEF LockInv, MultiHasPayload
  <2>5. \A d \in Ctx : d # c => pc'[d] = pc[d] /\ job'[d] = job[d]
    BY <2>1 DEF LockInv, LockTypes
  <2> QED BY <2>1, <2>2, <2>3, <2>4, <2>5, HolderGoesOn
<1>2. ASSUME NEW n \in 1 .. left[c], TF_Multipart_Payload(c, n) PROVE LockInv'
  <2>1. UNCHANGED <<lock, pc, job, next_id, begun>>
    BY <1>2 DEF TF_Multipart_Payload
  <2> QED BY <2>1 DEF LockInv, LockTypes, MultiHasPayload, ClaimIsSafe,
               LockMeansHolder, OneSender, Holders
<1> QED BY <1>1, <1>2

\* TF_SendFrame_End releases the lock.
LEMMA EndLockInv ==
  ASSUME LockInv, NEW c \in Ctx, TF_SendFrame_End(c)
  PROVE  LockInv'
<1>1. c \in Holders
  BY DEF LockInv, LockTypes, TF_SendFrame_End, Holders, Sending
<1>2. pc' = [pc EXCEPT ![c] = "idle"]
  BY DEF LockInv, MultiHasPayload, TF_SendFrame_End
<1>3. job' = job /\ lock' = FALSE /\ UNCHANGED <<next_id, begun>>
  BY DEF TF_SendFrame_End, End, TF_ReleaseTx
<1>4. LockTypes'
  BY <1>2, <1>3 DEF LockInv, LockTypes
<1> QED BY <1>1, <1>2, <1>3, <1>4, ReleaseKeepsLockInv

\* Every step keeps LockInv.
LEMMA NextLockInv == Discipline /\ LockInv /\ [Next]_vars => LockInv'
<1> SUFFICES ASSUME Discipline, LockInv, [Next]_vars PROVE LockInv'
  OBVIOUS
<1>1. CASE Next
  <2> PICK c \in Ctx :
        \/ \E kind \in Kinds :
             \E len \in (IF kind \in MultiKinds THEN MultiLens ELSE Lens) :
               ClaimTest(c, kind, len)
        \/ Step(c)
    BY <1>1 DEF Next
  <2>1. CASE \E kind \in Kinds :
               \E len \in (IF kind \in MultiKinds THEN MultiLens ELSE Lens) :
                 ClaimTest(c, kind, len)
    BY <2>1, ClaimTestLockInv
  <2>2. CASE Step(c)
    BY <2>2, ClaimSetLockInv, BeginLockInv, PayloadLockInv, EndLockInv DEF Step
  <2> QED BY <2>1, <2>2
<1>2. CASE UNCHANGED vars
  BY <1>2 DEF vars, LockInv, LockTypes, MultiHasPayload, ClaimIsSafe,
          LockMeansHolder, OneSender, Holders
<1> QED BY <1>1, <1>2

-----------------------------------------------------------------------------
\* Two contexts never send at the same time: TF_ClaimTx is a mutual exclusion
\* protocol for nested interrupt levels, and with the user's mutex for threads.
THEOREM MutualExclusion == ASSUME Discipline PROVE Spec => []OneSender
<1>1. Spec => []LockInv
  BY InitLockInv, NextLockInv, PTL DEF Spec
<1>2. LockInv => OneSender
  BY DEF LockInv
<1> QED BY <1>1, <1>2, PTL

\* No exit of the sending functions leaves soft_lock set behind it.
THEOREM LockNeverLeaks == ASSUME Discipline PROVE Spec => []LockHasOwner
<1>1. Spec => []LockInv
  BY InitLockInv, NextLockInv, PTL DEF Spec
<1>2. LockInv => LockHasOwner
  BY DEF LockInv, LockMeansHolder, LockHasOwner
<1> QED BY <1>1, <1>2, PTL

-----------------------------------------------------------------------------
\* The bytes of a frame: those of the payload, and all of them.
BodyByte == [f : Nat, part : {"body"}, k : Nat, v : {<<>>}]
Byte == BodyByte \cup [f : Nat, part : {"head"}, k : Nat, v : Nat \X Nat]
                 \cup [f : Nat, part : {"tail"}, k : Nat, v : Seq(BodyByte)]

\* A function on 1 .. n is a sequence of length n.
LEMMA TupleIsSeq ==
  ASSUME NEW S, NEW n \in Nat, NEW t \in [1 .. n -> S]
  PROVE  t \in Seq(S) /\ Len(t) = n
OBVIOUS

LEMMA HeadBytes ==
  ASSUME NEW f \in Nat, NEW id \in Nat, NEW len \in Nat
  PROVE  /\ TF_ComposeHead(f, id, len) \in Seq(Byte)
         /\ Len(TF_ComposeHead(f, id, len)) = HeadLen
<1>1. TF_ComposeHead(f, id, len) \in [1 .. HeadLen -> Byte]
  BY SizeAssumption DEF TF_ComposeHead, Byte
<1> QED BY <1>1, SizeAssumption, TupleIsSeq

LEMMA BodyBytes ==
  ASSUME NEW f \in Nat, NEW from \in Nat, NEW n \in Nat
  PROVE  /\ TF_ComposeBody(f, from, n) \in Seq(BodyByte)
         /\ TF_ComposeBody(f, from, n) \in Seq(Byte)
         /\ Len(TF_ComposeBody(f, from, n)) = n
<1>1. TF_ComposeBody(f, from, n) \in [1 .. n -> BodyByte]
  BY DEF TF_ComposeBody, BodyByte
<1>2. TF_ComposeBody(f, from, n) \in [1 .. n -> Byte]
  BY <1>1 DEF Byte
<1> QED BY <1>1, <1>2, TupleIsSeq

LEMMA TailBytes ==
  ASSUME NEW cksum \in Seq(BodyByte)
  PROVE  /\ TF_ComposeTail(cksum) \in Seq(Byte)
         /\ Len(TF_ComposeTail(cksum)) = CksumLen
<1>1. TF_ComposeTail(cksum) \in [1 .. CksumLen -> Byte]
  BY SizeAssumption DEF TF_ComposeTail, Byte
<1> QED BY <1>1, SizeAssumption, TupleIsSeq

LEMMA BytesAssociative ==
  \A s, t, u \in Seq(Byte) : (s \o t) \o u = s \o (t \o u)
BY ConcatAssociative

LEMMA BytesConcat ==
  \A s, t \in Seq(Byte) : /\ s \o t \in Seq(Byte)
                         /\ Len(s \o t) = Len(s) + Len(t)
BY ConcatProperties

\* A payload that is handed over in two pieces is the payload.
LEMMA BodyInPieces ==
  ASSUME NEW f \in Nat, NEW a \in Nat, NEW n \in Nat
  PROVE  TF_ComposeBody(f, 0, a) \o TF_ComposeBody(f, a, n) = TF_ComposeBody(f, 0, a + n)
<1> DEFINE s == TF_ComposeBody(f, 0, a)
           t == TF_ComposeBody(f, a, n)
           u == TF_ComposeBody(f, 0, a + n)
<1>1. /\ s \in Seq(Byte) /\ t \in Seq(Byte) /\ u \in Seq(Byte)
      /\ Len(s) = a /\ Len(t) = n /\ Len(u) = a + n
  <2>1. 0 \in Nat /\ a + n \in Nat
    OBVIOUS
  <2> QED BY <2>1, BodyBytes, Zenon
<1>2. \A i \in 1 .. a + n : (s \o t)[i] = IF i <= a THEN s[i] ELSE t[i - a]
  BY <1>1, ConcatProperties
<1>3. \A i \in 1 .. a + n : (s \o t)[i] = u[i]
  BY <1>2 DEF TF_ComposeBody
<1>4. s \o t \in Seq(Byte) /\ Len(s \o t) = a + n
  BY <1>1, ConcatProperties
<1> HIDE DEF s, t, u
<1>5. s \o t = u
  BY <1>1, <1>3, <1>4, SeqEqual
<1> QED BY <1>5 DEF s, t, u

\* What has been composed of a frame when a bytes of its payload are.
LEMMA FramePrefix ==
  ASSUME NEW f \in Nat, NEW id \in Nat, NEW len \in Nat, NEW a \in 0 .. len
  PROVE  SubSeq(FrameBytes(f, id, len), 1, HeadLen + a)
           = TF_ComposeHead(f, id, len) \o TF_ComposeBody(f, 0, a)
<1> DEFINE h == TF_ComposeHead(f, id, len)
           b == TF_ComposeBody(f, 0, a)
           c == TF_ComposeBody(f, a, len - a)
           t == IF len > 0 THEN TF_ComposeTail(TF_ComposeBody(f, 0, len)) ELSE <<>>
<1>1. /\ h \in Seq(Byte) /\ b \in Seq(Byte) /\ c \in Seq(Byte) /\ t \in Seq(Byte)
      /\ Len(h) = HeadLen /\ Len(b) = a
  <2>1. 0 \in Nat /\ a \in Nat /\ len - a \in Nat
    OBVIOUS
  <2>2. h \in Seq(Byte) /\ Len(h) = HeadLen
    BY HeadBytes
  <2>3. b \in Seq(Byte) /\ c \in Seq(Byte) /\ Len(b) = a
    BY <2>1, BodyBytes, Zenon
  <2>4. t \in Seq(Byte)
    <3>1. TF_ComposeTail(TF_ComposeBody(f, 0, len)) \in Seq(Byte)
      BY <2>1, BodyBytes, TailBytes, Zenon
    <3> QED BY <3>1
  <2> QED BY <2>2, <2>3, <2>4
<1>2. TF_ComposeBody(f, 0, len) = b \o c
  <2>1. a \in Nat /\ len - a \in Nat /\ a + (len - a) = len
    OBVIOUS
  <2>2. b \o c = TF_ComposeBody(f, 0, a + (len - a))
    BY <2>1, BodyInPieces, Zenon
  <2> QED BY <2>1, <2>2
<1>3. FrameBytes(f, id, len) = (h \o (b \o c)) \o t
  BY <1>2 DEF FrameBytes
<1> HIDE DEF h, b, c, t
<1>4. FrameBytes(f, id, len) = (h \o b) \o (c \o t)
  <2>1. (h \o b) \o c = h \o (b \o c)
    BY <1>1, BytesAssociative, Zenon
  <2>2. h \o b \in Seq(Byte)
    BY <1>1, BytesConcat, Zenon
  <2>3. ((h \o b) \o c) \o t = (h \o b) \o (c \o t)
    BY <1>1, <2>2, BytesAssociative, Zenon
  <2> QED BY <1>3, <2>1, <2>3
<1>5. /\ h \o b \in Seq(Byte) /\ c \o t \in Seq(Byte) /\ Len(h \o b) = HeadLen + a
  BY <1>1, ConcatProperties
<1>6. HeadLen + a \in 1 .. Len(h \o b) /\ 1 \in 1 .. Len(h \o b)
  BY <1>5, SizeAssumption
<1>7. SubSeq((h \o b) \o (c \o t), 1, HeadLen + a) = SubSeq(h \o b, 1, HeadLen + a)
  BY <1>5, <1>6, SubSeqOfConcat1
<1>8. SubSeq(h \o b, 1, HeadLen + a) = h \o b
  BY <1>5, SubSeqFull
<1> QED BY <1>4, <1>7, <1>8 DEF h, b

-----------------------------------------------------------------------------
\* The frame of context c has been composed up to here: its length and the
\* checksum of the payload so far are in tx_len and tx_cksum, its bytes are on
\* the wire or in sendbuf, after all the frames before it.
FrameUnderWay(c) ==
  /\ tx_len = job[c].len
  /\ tx_cksum = TF_ComposeBody(job[c].f, 0, job[c].len - left[c])
  /\ wire \o sendbuf = sent \o (TF_ComposeHead(job[c].f, job[c].id, job[c].len)
                                 \o TF_ComposeBody(job[c].f, 0, job[c].len - left[c]))

BufTypes ==
  /\ wire \in Seq(Byte) /\ sent \in Seq(Byte) /\ sendbuf \in Seq(Byte)
  /\ Len(sendbuf) <= SendBufLen
  /\ left \in [Ctx -> Nat]

\* No context is asked for more than its payload, all of which is there before
\* the frame is begun and none when it is ended.
PayloadLeft ==
  \A c \in Ctx : /\ left[c] <= job[c].len
                 /\ pc[c] \in {"claim", "begin"} => left[c] = job[c].len
                 /\ pc[c] = "end" => left[c] = 0

TxInv == /\ LockInv /\ BufTypes /\ PayloadLeft
         /\ WireIsFrames
         /\ \A c \in Ctx : pc[c] \in Sending => FrameUnderWay(c)

LEMMA InitTxInv == Init => TxInv
<1> SUFFICES ASSUME Init PROVE TxInv
  OBVIOUS
<1>1. LockInv
  BY InitLockInv
<1>2. BufTypes
  BY SizeAssumption DEF Init, BufTypes
<1>3. PayloadLeft
  BY DEF Init, PayloadLeft, NoJob
<1> QED BY <1>1, <1>2, <1>3 DEF TxInv, Init, WireIsFrames, Sending

\* While c sends, nobody else does.
LEMMA OnlyOneSends ==
  ASSUME LockInv, NEW c \in Holders, NEW d \in Ctx, d # c
  PROVE  pc[d] \notin Sending
BY DEF LockInv, OneSender, Holders

\* A step of a context that sends neither before nor after it, and of nobody
\* else, when it leaves the buffers alone.
LEMMA OthersGoOn ==
  ASSUME TxInv, NEW c \in Ctx, pc[c] \notin Sending, pc'[c] \notin Sending,
         \A d \in Ctx : d # c => pc'[d] = pc[d] /\ job'[d] = job[d] /\ left'[d] = left[d],
         UNCHANGED <<wire, sent, sendbuf, tx_len, tx_cksum>>
  PROVE  WireIsFrames' /\ \A d \in Ctx : pc'[d] \in Sending => FrameUnderWay(d)'
<1>1. \A d \in Ctx : pc'[d] \in Sending <=> pc[d] \in Sending
  OBVIOUS
<1>2. WireIsFrames'
  BY <1>1 DEF TxInv, WireIsFrames
<1>3. ASSUME NEW d \in Ctx, pc'[d] \in Sending PROVE FrameUnderWay(d)'
  <2>1. d # c /\ pc[d] \in Sending
    BY <1>3
  <2>2. FrameUnderWay(d)
    BY <2>1 DEF TxInv
  <2>3. job'[d] = job[d] /\ left'[d] = left[d]
    BY <2>1
  <2> QED BY <2>2, <2>3 DEF FrameUnderWay
<1> QED BY <1>2, <1>3

\* After a step of the context that sends, its frame is all there is to look at.
LEMMA SenderGoesOn ==
  ASSUME LockInv', NEW c \in Ctx, pc'[c] \in Sending, FrameUnderWay(c)'
  PROVE  WireIsFrames' /\ \A d \in Ctx : pc'[d] \in Sending => FrameUnderWay(d)'
<1>1. \A d \in Ctx : pc'[d] \in Sending => d = c
  BY DEF LockInv, OneSender, Holders
<1> QED BY <1>1 DEF WireIsFrames

\* After a step that ends the frame of c nobody sends.
LEMMA NobodyGoesOn ==
  ASSUME LockInv, NEW c \in Holders, pc' = [pc EXCEPT ![c] = "idle"], wire' = sent'
  PROVE  WireIsFrames' /\ \A d \in Ctx : pc'[d] \in Sending => FrameUnderWay(d)'
<1>1. \A d \in Ctx : pc'[d] \notin Sending
  <2> SUFFICES ASSUME NEW d \in Ctx PROVE pc'[d] \notin Sending
    OBVIOUS
  <2>1. CASE d = c
    BY <2>1 DEF LockInv, LockTypes, Sending
  <2>2. CASE d # c
    BY <2>2, OnlyOneSends DEF LockInv, LockTypes
  <2> QED BY <2>1, <2>2
<1> QED BY <1>1 DEF WireIsFrames

-----------------------------------------------------------------------------
LEMMA ClaimTestTxInv ==
  ASSUME TxInv, Discipline, NEW c \in Ctx, NEW kind \in Kinds,
         NEW len \in (IF kind \in MultiKinds THEN MultiLens ELSE Lens),
         ClaimTest(c, kind, len)
  PROVE  TxInv'
<1>1. LockInv'
  BY ClaimTestLockInv DEF TxInv
<1>2. len \in Nat /\ kind # "TF_Respond_Multipart"
  BY SizeAssumption DEF Discipline, Kinds, MultiKinds
<1>3. /\ pc[c] = "idle" /\ pc'[c] \in {"idle", "begin", "claim"}
      /\ job'[c].len = len /\ left'[c] = len
      /\ \A d \in Ctx : d # c => pc'[d] = pc[d] /\ job'[d] = job[d] /\ left'[d] = left[d]
      /\ left' \in [Ctx -> Nat]
      /\ UNCHANGED <<wire, sent, sendbuf, tx_len, tx_cksum>>
  BY <1>2 DEF TxInv, LockInv, LockTypes, BufTypes, ClaimTest
<1>4. BufTypes'
  BY <1>3 DEF TxInv, BufTypes
<1>5. PayloadLeft'
  BY <1>2, <1>3 DEF TxInv, PayloadLeft
<1>6. WireIsFrames' /\ \A d \in Ctx : pc'[d] \in Sending => FrameUnderWay(d)'
  <2>1. pc[c] \notin Sending /\ pc'[c] \notin Sending
    BY <1>3 DEF Sending
  <2> QED BY <1>3, <2>1, OthersGoOn
<1> QED BY <1>1, <1>4, <1>5, <1>6 DEF TxInv

LEMMA ClaimSetTxInv ==
  ASSUME TxInv, Discipline, NEW c \in Ctx, ClaimSet(c)
  PROVE  TxInv'
<1>1. LockInv'
  BY ClaimSetLockInv DEF TxInv
<1>2. /\ pc[c] = "claim" /\ pc'[c] = "begin"
      /\ \A d \in Ctx : d # c => pc'[d] = pc[d]
      /\ UNCHANGED <<job, left, wire, sent, sendbuf, tx_len, tx_cksum>>
  BY DEF TxInv, LockInv, LockTypes, ClaimSet
<1>3. BufTypes' /\ PayloadLeft'
  BY <1>2 DEF TxInv, BufTypes, PayloadLeft
<1>4. WireIsFrames' /\ \A d \in Ctx : pc'[d] \in Sending => FrameUnderWay(d)'
  <2>1. pc[c] \notin Sending /\ pc'[c] \notin Sending
    BY <1>2 DEF Sending
  <2> QED BY <1>2, <2>1, OthersGoOn
<1> QED BY <1>1, <1>3, <1>4 DEF TxInv

\* The head is composed: the frame starts where the last one ended.
LEMMA BeginTxInv ==
  ASSUME TxInv, Discipline, NEW c \in Ctx, NEW added \in BOOLEAN,
         TF_SendFrame_Begin(c, added)
  PROVE  TxInv'
<1> DEFINE id == GenId(job[c].kind)
           head == TF_ComposeHead(job[c].f, id, job[c].len)
<1>1. LockInv'
  BY BeginLockInv DEF TxInv
<1>2. c \in Holders /\ pc[c] = "begin" /\ left[c] = job[c].len
  BY DEF TF_SendFrame_Begin, Holders, TxInv, PayloadLeft
<1>3. job[c] \in Job /\ id \in Nat
  BY SizeAssumption DEF TxInv, LockInv, LockTypes, GenId
<1>4. head \in Seq(Byte) /\ Len(head) = HeadLen
  BY <1>3, HeadBytes DEF Job
<1>5. wire = sent
  <2>1. \A d \in Ctx : pc[d] \notin Sending
    BY <1>2, OnlyOneSends DEF TxInv, Sending
  <2> QED BY <2>1 DEF TxInv, WireIsFrames
<1>6. sendbuf' = head /\ tx_len' = job[c].len /\ UNCHANGED <<left, wire, sent>>
  BY DEF TF_SendFrame_Begin
<1>7. BufTypes'
  BY <1>4, <1>6, SizeAssumption DEF TxInv, BufTypes
<1>8. CASE added
  <2>1. /\ pc' = [pc EXCEPT ![c] =
                    CASE job[c].len = 0 -> "end"
                      [] job[c].len > 0 /\ job[c].kind \in MultiKinds -> "open"
                      [] OTHER -> "body"]
        /\ job' = [job EXCEPT ![c].id = id] /\ tx_cksum' = <<>>
    BY <1>8 DEF TF_SendFrame_Begin
  <2>2. /\ pc'[c] \in Sending /\ (pc'[c] = "end" => job[c].len = 0)
        /\ \A d \in Ctx : d # c => pc'[d] = pc[d] /\ job'[d] = job[d]
    BY <2>1 DEF TxInv, LockInv, LockTypes, Sending
  <2>3. job'[c].f = job[c].f /\ job'[c].len = job[c].len /\ job'[c].id = id
    BY <1>3, <2>1 DEF TxInv, LockInv, LockTypes, Job
  <2>4. PayloadLeft'
    BY <1>2, <1>6, <2>2, <2>3 DEF TxInv, PayloadLeft, Sending
  <2>5. FrameUnderWay(c)'
    <3>1. job[c].len - left[c] = 0
      BY <1>2, <1>3 DEF Job
    <3>2. TF_ComposeBody(job[c].f, 0, 0) = <<>>
      BY DEF TF_ComposeBody
    <3>3. head \o <<>> = head
      BY <1>4, ConcatEmptySeq
    <3>4. wire' \o sendbuf' = sent' \o (head \o <<>>)
      BY <1>5, <1>6, <3>3
    <3> QED BY <1>6, <2>1, <2>3, <3>1, <3>2, <3>4 DEF FrameUnderWay
  <2> QED BY <1>1, <1>7, <2>2, <2>4, <2>5, SenderGoesOn DEF TxInv
<1>9. CASE ~added
  <2>1. pc' = [pc EXCEPT ![c] = "idle"] /\ job' = job
    BY <1>9 DEF TF_SendFrame_Begin
  <2>2. PayloadLeft'
    BY <1>6, <2>1 DEF TxInv, PayloadLeft, LockInv, LockTypes
  <2>3. wire' = sent'
    BY <1>5, <1>6
  <2> QED BY <1>1, <1>2, <1>7, <2>1, <2>2, <2>3, NobodyGoesOn DEF TxInv
<1> QED BY <1>8, <1>9

\* A piece of the payload goes to sendbuf, and sendbuf to the wire when it is full.
LEMMA ChunkGoesOn ==
  ASSUME TxInv, NEW c \in Ctx, pc[c] \in Sending, NEW n \in 0 .. left[c], Chunk(c, n),
         UNCHANGED <<job, sent, tx_len>>
  PROVE  /\ BufTypes' /\ FrameUnderWay(c)'
         /\ left'[c] \in 0 .. left[c]
         /\ \A d \in Ctx : d # c => left'[d] = left[d]
<1> DEFINE j == job[c]
           chunk == MinOf(SendBufLen - Len(sendbuf), n)
           done == j.len - left[c]
           head == TF_ComposeHead(j.f, j.id, j.len)
           body == TF_ComposeBody(j.f, 0, done)
           part == TF_ComposeBody(j.f, done, chunk)
           buf == sendbuf \o part
<1>1. /\ job[c] \in Job /\ left[c] \in Nat /\ left[c] <= j.len /\ left \in [Ctx -> Nat]
      /\ wire \in Seq(Byte) /\ sent \in Seq(Byte) /\ sendbuf \in Seq(Byte)
      /\ Len(sendbuf) \in Nat /\ Len(sendbuf) <= SendBufLen
  BY DEF TxInv, LockInv, LockTypes, BufTypes, PayloadLeft
<1>2. /\ chunk \in Nat /\ chunk <= left[c] /\ Len(sendbuf) + chunk <= SendBufLen
      /\ done \in Nat /\ j.f \in Nat /\ j.id \in Nat /\ j.len \in Nat
  BY <1>1, SizeAssumption DEF MinOf, Job
<1>3. /\ tx_cksum' = tx_cksum \o part
      /\ left' = [left EXCEPT ![c] = left[c] - chunk]
      /\ IF MustFlush(buf)
         THEN wire' = wire \o buf /\ sendbuf' = <<>>
         ELSE sendbuf' = buf /\ wire' = wire
  BY DEF Chunk
<1>4. FrameUnderWay(c)
  BY DEF TxInv
<1>5. /\ tx_len = j.len /\ tx_cksum = body
      /\ wire \o sendbuf = sent \o (head \o body)
  BY <1>4 DEF FrameUnderWay
<1>6. /\ part \in Seq(Byte) /\ Len(part) = chunk /\ body \in Seq(Byte) /\ head \in Seq(Byte)
  <2>1. 0 \in Nat
    OBVIOUS
  <2> QED BY <1>2, <2>1, BodyBytes, HeadBytes, Zenon
<1>7. body \o part = TF_ComposeBody(j.f, 0, done + chunk)
  BY <1>2, BodyInPieces, Zenon
<1> HIDE DEF chunk
<1>8. /\ left'[c] = left[c] - chunk /\ j.len - left'[c] = done + chunk
      /\ \A d \in Ctx : d # c => left'[d] = left[d]
      /\ left' \in [Ctx -> Nat]
  <2>1. left[c] \in Nat /\ j.len \in Nat /\ chunk \in Nat /\ chunk <= left[c]
    BY <1>1, <1>2, Zenon
  <2>2. left[c] - chunk \in Nat /\ j.len - (left[c] - chunk) = done + chunk
    BY <2>1
  <2> QED BY <1>1, <1>3, <2>2
<1> HIDE DEF head, body, part, done
<1>9. buf \in Seq(Byte) /\ Len(buf) = Len(sendbuf) + chunk
  BY <1>1, <1>6, BytesConcat
<1>10. wire' \o sendbuf' = wire \o buf /\ BufTypes'
  <2>1. CASE MustFlush(buf)
    <3>1. wire' = wire \o buf /\ sendbuf' = <<>> /\ wire' \in Seq(Byte)
      BY <1>1, <1>3, <1>9, <2>1, BytesConcat
    <3>2. wire' \o <<>> = wire'
      BY <3>1, ConcatEmptySeq
    <3>3. <<>> \in Seq(Byte) /\ Len(<<>>) <= SendBufLen
      BY SizeAssumption
    <3> QED BY <1>1, <1>8, <3>1, <3>2, <3>3 DEF BufTypes
  <2>2. CASE ~MustFlush(buf)
    BY <1>1, <1>2, <1>3, <1>8, <1>9, <2>2 DEF BufTypes
  <2> QED BY <2>1, <2>2
<1>11. wire \o buf = sent \o (head \o (body \o part))
  <2> DEFINE hb == head \o body
  <2>0. wire \in Seq(Byte) /\ sendbuf \in Seq(Byte) /\ part \in Seq(Byte) /\ sent \in Seq(Byte)
    BY <1>1, <1>6
  <2>1. wire \o buf = (wire \o sendbuf) \o part
    BY <2>0, BytesAssociative, Zenon
  <2>2. hb \in Seq(Byte)
    BY <1>6, BytesConcat, Zenon
  <2>3. hb \o part = head \o (body \o part)
    BY <1>6, BytesAssociative, Zenon
  <2>4. wire \o sendbuf = sent \o hb
    BY <1>5
  <2> HIDE DEF hb
  <2>5. (sent \o hb) \o part = sent \o (hb \o part)
    BY <2>0, <2>2, BytesAssociative, Zenon
  <2> QED BY <2>1, <2>3, <2>4, <2>5
<1>12. FrameUnderWay(c)'
  <2>1. tx_cksum' = TF_ComposeBody(j.f, 0, j.len - left'[c])
    BY <1>3, <1>5, <1>7, <1>8
  <2>2. wire' \o sendbuf' = sent \o (head \o TF_ComposeBody(j.f, 0, j.len - left'[c]))
    BY <1>7, <1>8, <1>10, <1>11
  <2> QED BY <1>5, <2>1, <2>2 DEF FrameUnderWay, head
<1> QED BY <1>1, <1>2, <1>8, <1>10, <1>12

LEMMA PayloadTxInv ==
  ASSUME TxInv, NEW c \in Ctx,
         \/ TF_SendFrame_Chunk(c)
         \/ \E n \in 1 .. left[c] : TF_Multipart_Payload(c, n)
  PROVE  TxInv'
<1>1. LockInv'
  BY PayloadLockInv DEF TxInv
<1>2. PICK n \in 0 .. left[c] :
        /\ pc[c] \in {"body", "open"} /\ Chunk(c, n) /\ UNCHANGED <<job, sent, tx_len>>
        /\ pc' = [pc EXCEPT ![c] = pc'[c]] /\ pc'[c] \in {"body", "open", "end"}
        /\ pc'[c] = "end" => left'[c] = 0
  <2>1. CASE TF_SendFrame_Chunk(c)
    <3>1. left[c] \in 0 .. left[c]
      BY DEF TxInv, BufTypes
    <3> QED BY <2>1, <3>1 DEF TF_SendFrame_Chunk, TxInv, LockInv, LockTypes
  <2>2. ASSUME NEW n \in 1 .. left[c], TF_Multipart_Payload(c, n)
        PROVE  /\ n \in 0 .. left[c]
               /\ pc[c] = "open" /\ Chunk(c, n) /\ UNCHANGED <<job, sent, tx_len, pc>>
    BY <2>2 DEF TF_Multipart_Payload
  <2>3. pc = [pc EXCEPT ![c] = pc[c]]
    BY DEF TxInv, LockInv, LockTypes
  <2> QED BY <2>1, <2>2, <2>3
<1>3. /\ BufTypes' /\ FrameUnderWay(c)' /\ left'[c] \in 0 .. left[c]
      /\ \A d \in Ctx : d # c => left'[d] = left[d]
  BY <1>2, ChunkGoesOn DEF Sending
<1>4. PayloadLeft'
  <2>1. left[c] \in Nat /\ left[c] <= job[c].len /\ job[c].len \in Nat
    BY DEF TxInv, LockInv, LockTypes, Job, BufTypes, PayloadLeft
  <2>2. left'[c] <= job'[c].len
    BY <1>2, <1>3, <2>1
  <2>3. \A d \in Ctx : d # c => pc'[d] = pc[d] /\ job'[d] = job[d]
    BY <1>2 DEF TxInv, LockInv, LockTypes
  <2> QED BY <1>2, <1>3, <2>2, <2>3 DEF TxInv, PayloadLeft
<1>5. pc'[c] \in Sending
  BY <1>2 DEF Sending
<1> QED BY <1>1, <1>3, <1>4, <1>5, SenderGoesOn DEF TxInv

\* The last bytes of the frame and its checksum follow what is on the wire.
LEMMA EndTxInv ==
  ASSUME TxInv, NEW c \in Ctx, TF_SendFrame_End(c)
  PROVE  TxInv'
<1> DEFINE j == job[c]
           head == TF_ComposeHead(j.f, j.id, j.len)
           body == TF_ComposeBody(j.f, 0, j.len)
           tail == IF tx_len > 0 THEN TF_ComposeTail(tx_cksum) ELSE <<>>
           flush == tx_len > 0 /\ CksumNeedsFlush(sendbuf)
           rest == (IF flush THEN <<>> ELSE sendbuf) \o tail
<1>1. LockInv'
  BY EndLockInv DEF TxInv
<1>2. c \in Holders /\ pc[c] \in Sending /\ left[c] = 0 /\ pc[c] # "close"
  BY DEF TxInv, LockInv, LockTypes, PayloadLeft, TF_SendFrame_End, Holders, Sending
<1>3. pc' = [pc EXCEPT ![c] = "idle"] /\ UNCHANGED <<job, left>>
  BY DEF TxInv, LockInv, MultiHasPayload, TF_SendFrame_End
<1>4. /\ wire' = (wire \o (IF flush THEN sendbuf ELSE <<>>)) \o rest
      /\ sendbuf' = rest
      /\ sent' = sent \o FrameBytes(j.f, j.id, j.len)
  BY <1>2 DEF TF_SendFrame_End, End
<1>5. /\ job[c] \in Job /\ left \in [Ctx -> Nat]
      /\ wire \in Seq(Byte) /\ sent \in Seq(Byte) /\ sendbuf \in Seq(Byte)
      /\ Len(sendbuf) \in Nat /\ Len(sendbuf) <= SendBufLen
  BY DEF TxInv, LockInv, LockTypes, BufTypes
<1>6. j.f \in Nat /\ j.id \in Nat /\ j.len \in Nat /\ j.len - left[c] = j.len
  BY <1>2, <1>5 DEF Job
<1>7. tx_len = j.len /\ tx_cksum = body /\ wire \o sendbuf = sent \o (head \o body)
  BY <1>2, <1>6 DEF TxInv, FrameUnderWay
<1>8. /\ head \in Seq(Byte) /\ body \in Seq(Byte) /\ tail \in Seq(Byte)
      /\ Len(tail) = IF tx_len > 0 THEN CksumLen ELSE 0
  <2>1. head \in Seq(Byte)
    BY <1>6, HeadBytes, Zenon
  <2>2. body \in Seq(Byte) /\ body \in Seq(BodyByte)
    <3>1. 0 \in Nat
      OBVIOUS
    <3> QED BY <1>6, <3>1, BodyBytes, Zenon
  <2>3. TF_ComposeTail(tx_cksum) \in Seq(Byte) /\ Len(TF_ComposeTail(tx_cksum)) = CksumLen
    BY <1>7, <2>2, TailBytes
  <2> QED BY <2>1, <2>2, <2>3
<1>9. FrameBytes(j.f, j.id, j.len) = (head \o body) \o tail
  BY <1>7 DEF FrameBytes
<1> HIDE DEF head, body, tail
<1>10. rest \in Seq(Byte) /\ Len(rest) <= SendBufLen
  <2>1. CASE flush
    <3>1. <<>> \in Seq(Byte) /\ Len(<<>>) = 0
      OBVIOUS
    <3>2. rest \in Seq(Byte) /\ Len(rest) = 0 + Len(tail)
      BY <1>8, <2>1, <3>1, BytesConcat
    <3> QED BY <1>8, <2>1, <3>2, SizeAssumption
  <2>2. CASE ~flush
    <3>1. rest \in Seq(Byte) /\ Len(rest) = Len(sendbuf) + Len(tail)
      BY <1>5, <1>8, <2>2, BytesConcat
    <3>2. tx_len \in Nat /\ (tx_len > 0 => Len(sendbuf) + CksumLen <= SendBufLen)
      BY <1>5, <1>6, <1>7, <2>2, SizeAssumption DEF CksumNeedsFlush
    <3> QED BY <1>5, <1>8, <3>1, <3>2, SizeAssumption
  <2> QED BY <2>1, <2>2
<1>11. wire' = (wire \o sendbuf) \o tail
  <2>1. CASE flush
    <3>1. <<>> \o tail = tail
      BY <1>8, ConcatEmptySeq
    <3> QED BY <1>4, <2>1, <3>1
  <2>2. CASE ~flush
    <3>1. wire \o <<>> = wire
      BY <1>5, ConcatEmptySeq
    <3>2. (wire \o sendbuf) \o tail = wire \o (sendbuf \o tail)
      <4>1. wire \in Seq(Byte) /\ sendbuf \in Seq(Byte) /\ tail \in Seq(Byte)
        BY <1>5, <1>8
      <4> QED BY <4>1, BytesAssociative, Zenon
    <3> QED BY <1>4, <2>2, <3>1, <3>2
  <2> QED BY <2>1, <2>2
<1>12. wire' = sent' /\ wire' \in Seq(Byte)
  <2> DEFINE hb == head \o body
  <2>1. hb \in Seq(Byte) /\ wire \o sendbuf \in Seq(Byte)
    BY <1>5, <1>8, BytesConcat, Zenon
  <2>2. wire \o sendbuf = sent \o hb /\ sent' = sent \o (hb \o tail)
    BY <1>4, <1>7, <1>9
  <2> HIDE DEF hb
  <2>3. (sent \o hb) \o tail = sent \o (hb \o tail)
    <3>1. sent \in Seq(Byte) /\ hb \in Seq(Byte) /\ tail \in Seq(Byte)
      BY <1>5, <1>8, <2>1
    <3> QED BY <3>1, BytesAssociative, Zenon
  <2>4. wire' \in Seq(Byte)
    BY <1>8, <1>11, <2>1, BytesConcat, Zenon
  <2> QED BY <1>11, <2>2, <2>3, <2>4
<1>13. BufTypes'
  BY <1>3, <1>4, <1>5, <1>10, <1>12 DEF BufTypes
<1>14. PayloadLeft'
  BY <1>3 DEF TxInv, LockInv, LockTypes, PayloadLeft
<1> QED BY <1>1, <1>2, <1>3, <1>12, <1>13, <1>14, NobodyGoesOn DEF TxInv

LEMMA NextTxInv == Discipline /\ TxInv /\ [Next]_vars => TxInv'
<1> SUFFICES ASSUME Discipline, TxInv, [Next]_vars PROVE TxInv'
  OBVIOUS
<1>1. CASE Next
  <2> PICK c \in Ctx :
        \/ \E kind \in Kinds :
             \E len \in (IF kind \in MultiKinds THEN MultiLens ELSE Lens) :
               ClaimTest(c, kind, len)
        \/ Step(c)
    BY <1>1 DEF Next
  <2>1. CASE \E kind \in Kinds :
               \E len \in (IF kind \in MultiKinds THEN MultiLens ELSE Lens) :
                 ClaimTest(c, kind, len)
    BY <2>1, ClaimTestTxInv
  <2>2. CASE Step(c)
    BY <2>2, ClaimSetTxInv, BeginTxInv, PayloadTxInv, EndTxInv DEF Step
  <2> QED BY <2>1, <2>2
<1>2. CASE UNCHANGED vars
  <2>1. LockInv'
    BY <1>2, NextLockInv DEF TxInv
  <2> QED BY <1>2, <2>1 DEF vars, TxInv, BufTypes, PayloadLeft, WireIsFrames, FrameUnderWay
<1> QED BY <1>1, <1>2

\* What is on the wire and in sendbuf is the completed frames and then exactly
\* the composed part of the one being sent, whatever the sizes of buffer, head,
\* checksum and payloads, and whoever interrupts whom.
THEOREM OnlyWholeFrames == ASSUME Discipline PROVE Spec => []FramesIntact
<1>1. Spec => []TxInv
  BY InitTxInv, NextTxInv, PTL DEF Spec
<1>2. TxInv => FramesIntact
  <2> SUFFICES ASSUME TxInv, NEW c \in Ctx, pc[c] \in Sending
               PROVE  wire \o sendbuf = sent \o Composed(c)
    BY DEF TxInv, BufTypes, FramesIntact
  <2> DEFINE a == job[c].len - left[c]
  <2>1. /\ job[c].f \in Nat /\ job[c].id \in Nat /\ job[c].len \in Nat
        /\ left[c] \in Nat /\ left[c] <= job[c].len
    BY DEF TxInv, LockInv, LockTypes, Job, BufTypes, PayloadLeft
  <2>2. a \in 0 .. job[c].len /\ HeadLen + job[c].len - left[c] = HeadLen + a
    BY <2>1, SizeAssumption
  <2>3. FrameUnderWay(c)
    BY DEF TxInv
  <2>4. wire \o sendbuf = sent \o (TF_ComposeHead(job[c].f, job[c].id, job[c].len)
                                    \o TF_ComposeBody(job[c].f, 0, a))
    BY <2>3 DEF FrameUnderWay
  <2> HIDE DEF a
  <2>5. SubSeq(FrameBytes(job[c].f, job[c].id, job[c].len), 1, HeadLen + a)
          = TF_ComposeHead(job[c].f, job[c].id, job[c].len) \o TF_ComposeBody(job[c].f, 0, a)
    BY <2>1, <2>2, FramePrefix, Zenon
  <2> QED BY <2>2, <2>4, <2>5 DEF Composed
<1> QED BY <1>1, <1>2, PTL
=============================================================================
