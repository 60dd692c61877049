----------------------------- MODULE MbufProofs -----------------------------
(***************************************************************************)
(* The memory discipline of Mbuf, for any buffers, block sizes, inputs and *)
(* headroom, and however realloc() behaves: sizes are those of the blocks, *)
(* and every block has one owner. From that discipline, the refinement: an *)
(* mbuf is a string of bytes, wherever its bytes are.                      *)
(***************************************************************************)
EXTENDS Mbuf, SequenceTheorems, TLAPS

MemInv == TypeOK /\ SizeIsBlock /\ BlocksOwned

\* A function on 1 .. n is a sequence of length n.
LEMMA TupleIsSeq ==
  ASSUME NEW S, NEW n \in Nat, NEW f \in [1 .. n -> S]
  PROVE  f \in Seq(S) /\ Len(f) = n
OBVIOUS

\* What the calls pass to memcpy.
LEMMA InputIsSeq == \A d \in Input : d \in Seq(Byte) /\ Len(d) \in Nat
<1> SUFFICES ASSUME NEW d \in Input PROVE d \in Seq(Byte) /\ Len(d) \in Nat
  OBVIOUS
<1>1. PICK n \in 0 .. MaxInput : d \in [1 .. n -> Byte]
  BY DEF Input
<1> QED BY <1>1, SizeAssumption, TupleIsSeq

\* realloc, memmove and memcpy yield blocks of the length they should have, as
\* long as what is read is there.
LEMMA ReallocedType ==
  ASSUME TypeOK, NEW p \in Blocks \cup {NULL}, NEW n \in Nat
  PROVE  Realloced(p, n) \in Seq(Byte) /\ Len(Realloced(p, n)) = n
<1>1. Bytes(p) \in Seq(Byte)
  BY DEF TypeOK, Bytes
<1>2. Realloced(p, n) \in [1 .. n -> Byte]
  BY <1>1, JunkAssumption DEF Realloced
<1> QED BY <1>2, TupleIsSeq

LEMMA MemmoveType ==
  ASSUME NEW blk \in Seq(Byte), NEW dst \in Nat, NEW src \in Nat, NEW n \in Nat,
         src + n <= Len(blk)
  PROVE  /\ memmove(blk, dst, src, n) \in Seq(Byte)
         /\ Len(memmove(blk, dst, src, n)) = Len(blk)
<1>1. memmove(blk, dst, src, n) \in [1 .. Len(blk) -> Byte]
  <2> SUFFICES ASSUME NEW k \in 1 .. Len(blk), k \in dst + 1 .. dst + n
               PROVE  k - dst + src \in 1 .. Len(blk)
    BY DEF memmove
  <2> QED OBVIOUS
<1> QED BY <1>1, TupleIsSeq

LEMMA MemcpyType ==
  ASSUME NEW blk \in Seq(Byte), NEW dst \in Nat, NEW d \in Seq(Byte)
  PROVE  /\ memcpy(blk, dst, d) \in Seq(Byte)
         /\ Len(memcpy(blk, dst, d)) = Len(blk)
<1>1. memcpy(blk, dst, d) \in [1 .. Len(blk) -> Byte]
  <2> SUFFICES ASSUME NEW k \in 1 .. Len(blk), k \in dst + 1 .. dst + Len(d)
               PROVE  k - dst \in 1 .. Len(d)
    BY DEF memcpy
  <2> QED OBVIOUS
<1> QED BY <1>1, TupleIsSeq

-----------------------------------------------------------------------------
\* m gives up its block, if it has one, for the block r with the bytes blk.
LEMMA ReplaceMemInv ==
  ASSUME MemInv, NEW m \in Bufs, NEW r \in ReallocTo(mb[m].buf),
         NEW blk \in Seq(Byte), NEW len \in 0 .. Len(blk),
         live' = (live \ {mb[m].buf}) \cup {r},
         heap' = Stored(mb[m].buf, r, blk),
         mb' = [mb EXCEPT ![m] = [buf |-> r, len |-> len, size |-> Len(blk)]],
         ret' \in Nat \cup {-1}
  PROVE  MemInv'
<1> USE DEF MemInv
<1>1. r \in Blocks /\ r # NULL /\ (r \in live => r = mb[m].buf)
  BY NullAssumption DEF ReallocTo, TypeOK
<1>2. TypeOK'
  <2>1. mb' \in [Bufs -> [buf : Blocks \cup {NULL}, len : Nat, size : Nat]]
    <3>1. [buf |-> r, len |-> len, size |-> Len(blk)]
            \in [buf : Blocks \cup {NULL}, len : Nat, size : Nat]
      BY <1>1
    <3> QED BY <3>1 DEF TypeOK
  <2>2. heap' \in [Blocks -> Seq(Byte)]
    BY <1>1 DEF TypeOK, Stored
  <2> QED BY <1>1, <2>1, <2>2 DEF TypeOK
<1>3. \A k \in Bufs : k # m => mb'[k] = mb[k]
  BY DEF TypeOK
<1>4. mb'[m] = [buf |-> r, len |-> len, size |-> Len(blk)]
  BY DEF TypeOK
<1>5. \A k \in Bufs : k # m => mb[k].buf = NULL \/ (mb[k].buf # mb[m].buf /\ mb[k].buf # r)
  BY <1>1 DEF BlocksOwned
<1>6. SizeIsBlock'
  <2> SUFFICES ASSUME NEW k \in Bufs
               PROVE  /\ mb'[k].len <= mb'[k].size
                      /\ mb'[k].size = Len(Bytes(mb[k].buf)')
    BY <1>3 DEF SizeIsBlock, Bytes
  <2>1. CASE k # m
    <3>1. Bytes(mb[k].buf)' = Bytes(mb[k].buf)
      BY <1>3, <1>5, <2>1 DEF Bytes, Stored, TypeOK
    <3> QED BY <1>3, <2>1, <3>1 DEF SizeIsBlock
  <2>2. CASE k = m
    <3>1. Bytes(mb[m].buf)' = blk
      BY <1>1, <1>4 DEF Bytes, Stored
    <3> QED BY <1>4, <2>2, <3>1
  <2> QED BY <2>1, <2>2
<1>7. BlocksOwned'
  <2>1. \A k \in Bufs : mb'[k].buf \in live' \cup {NULL}
    BY <1>3, <1>4, <1>5 DEF BlocksOwned
  <2>2. \A k, j \in Bufs : k # j /\ mb'[k].buf = mb'[j].buf => mb'[k].buf = NULL
    BY <1>1, <1>3, <1>4, <1>5 DEF BlocksOwned
  <2>3. \A b \in live' : \E k \in Bufs : mb'[k].buf = b
    <3> SUFFICES ASSUME NEW b \in live' PROVE \E k \in Bufs : mb'[k].buf = b
      OBVIOUS
    <3>1. CASE b = r
      BY <1>4, <3>1
    <3>2. CASE b # r
      <4>1. PICK k \in Bufs : mb[k].buf = b
        BY <3>2 DEF BlocksOwned
      <4>2. k # m
        BY <3>2, <4>1
      <4> QED BY <1>3, <4>1, <4>2
    <3> QED BY <3>1, <3>2
  <2> QED BY <2>1, <2>2, <2>3 DEF BlocksOwned
<1> QED BY <1>2, <1>6, <1>7

\* m gives up its block, if it has one, and is empty afterwards.
LEMMA ReleaseMemInv ==
  ASSUME MemInv, NEW m \in Bufs,
         live' = live \ {mb[m].buf},
         heap' = Stored(mb[m].buf, NULL, <<>>),
         mb' = [mb EXCEPT ![m] = Empty],
         ret' = ret
  PROVE  MemInv'
<1> USE DEF MemInv
<1>1. TypeOK'
  <2>1. mb' \in [Bufs -> [buf : Blocks \cup {NULL}, len : Nat, size : Nat]]
    BY DEF TypeOK, Empty
  <2>2. heap' \in [Blocks -> Seq(Byte)]
    BY DEF TypeOK, Stored
  <2> QED BY <2>1, <2>2 DEF TypeOK
<1>2. \A k \in Bufs : k # m => mb'[k] = mb[k]
  BY DEF TypeOK
<1>3. mb'[m] = Empty
  BY DEF TypeOK
<1>4. \A k \in Bufs : k # m => mb[k].buf = NULL \/ mb[k].buf # mb[m].buf
  BY DEF BlocksOwned
<1>5. SizeIsBlock'
  <2> SUFFICES ASSUME NEW k \in Bufs
               PROVE  /\ mb'[k].len <= mb'[k].size
                      /\ mb'[k].size = Len(Bytes(mb[k].buf)')
    BY DEF SizeIsBlock, Bytes
  <2>1. CASE k # m
    <3>1. Bytes(mb[k].buf)' = Bytes(mb[k].buf)
      BY <1>2, <1>4, <2>1, NullAssumption DEF Bytes, Stored, TypeOK
    <3> QED BY <1>2, <2>1, <3>1 DEF SizeIsBlock
  <2>2. CASE k = m
    BY <1>3, <2>2 DEF Bytes, Empty
  <2> QED BY <2>1, <2>2
<1>6. BlocksOwned'
  <2>1. \A k \in Bufs : mb'[k].buf \in live' \cup {NULL}
    BY <1>2, <1>3, <1>4 DEF BlocksOwned, Empty
  <2>2. \A k, j \in Bufs : k # j /\ mb'[k].buf = mb'[j].buf => mb'[k].buf = NULL
    BY <1>2, <1>3, <1>4 DEF BlocksOwned, Empty
  <2>3. \A b \in live' : \E k \in Bufs : mb'[k].buf = b
    <3> SUFFICES ASSUME NEW b \in live' PROVE \E k \in Bufs : mb'[k].buf = b
      OBVIOUS
    <3>1. PICK k \in Bufs : mb[k].buf = b
      BY DEF BlocksOwned
    <3>2. k # m
      BY <3>1
    <3> QED BY <1>2, <3>1, <3>2
  <2> QED BY <2>1, <2>2, <2>3 DEF BlocksOwned
<1> QED BY <1>1, <1>5, <1>6

\* The bytes of m's block change, or its length, within the block.
LEMMA RewriteMemInv ==
  ASSUME MemInv, NEW m \in Bufs, NEW blk \in Seq(Byte), NEW len \in 0 .. Len(blk),
         Len(blk) = mb[m].size, live' = live,
         heap' = Stored(mb[m].buf, mb[m].buf, blk),
         mb' = [mb EXCEPT ![m].len = len],
         ret' \in Nat \cup {-1}
  PROVE  MemInv'
<1>1. CASE mb[m].buf # NULL
  <2>1. mb[m].buf \in live /\ mb[m].buf \in ReallocTo(mb[m].buf)
    BY <1>1 DEF MemInv, BlocksOwned, ReallocTo
  <2>2. live' = (live \ {mb[m].buf}) \cup {mb[m].buf}
    BY <2>1
  <2>3. mb' = [mb EXCEPT ![m] = [buf |-> mb[m].buf, len |-> len, size |-> Len(blk)]]
    <3>1. mb[m] \in [buf : Blocks \cup {NULL}, len : Nat, size : Nat]
      BY DEF MemInv, TypeOK
    <3>2. [mb[m] EXCEPT !.len = len] = [buf |-> mb[m].buf, len |-> len, size |-> Len(blk)]
      BY <3>1
    <3> QED BY <3>2
  <2> QED BY <2>1, <2>2, <2>3, ReplaceMemInv
<1>2. CASE mb[m].buf = NULL
  <2>1. mb[m].size = 0 /\ mb[m].len = 0 /\ len = 0
    BY <1>2 DEF MemInv, TypeOK, SizeIsBlock, Bytes
  <2>2. heap' = heap /\ mb' = mb
    BY <1>2, <2>1, NullAssumption DEF MemInv, TypeOK, Stored
  <2> QED BY <2>2 DEF MemInv, TypeOK, SizeIsBlock, BlocksOwned, Bytes
<1> QED BY <1>1, <1>2

-----------------------------------------------------------------------------
\* mbuf_resize, and mbuf_trim and mbuf_init through it.
LEMMA ResizeMemInv ==
  ASSUME MemInv, NEW m \in Bufs, NEW n \in Nat, Resize(m, mb[m], n), ret' = ret
  PROVE  MemInv'
<1>1. mb[m] \in [buf : Blocks \cup {NULL}, len : Nat, size : Nat]
      /\ mb[m].len <= mb[m].size /\ ret \in Nat \cup {-1}
  BY DEF MemInv, TypeOK, SizeIsBlock
<1>2. CASE n # 0
  <2>1. PICK r \in ReallocTo(mb[m].buf) :
          /\ n > mb[m].size \/ n >= mb[m].len
          /\ live' = (live \ {mb[m].buf}) \cup {r}
          /\ heap' = Stored(mb[m].buf, r, Realloced(mb[m].buf, n))
          /\ mb' = [mb EXCEPT ![m] = [buf |-> r, len |-> mb[m].len, size |-> n]]
    BY <1>2 DEF Resize
  <2>2. mb[m].len \in 0 .. n
    BY <1>1, <2>1
  <2>3. Realloced(mb[m].buf, n) \in Seq(Byte) /\ Len(Realloced(mb[m].buf, n)) = n
    BY <1>1, ReallocedType DEF MemInv
  <2> QED BY <1>1, <2>1, <2>2, <2>3, ReplaceMemInv
<1>3. CASE n = 0
  <2>1. /\ live' = live \ {mb[m].buf}
        /\ heap' = Stored(mb[m].buf, NULL, <<>>)
        /\ mb' = [mb EXCEPT ![m] = Empty]
    BY <1>3 DEF Resize
  <2> QED BY <2>1, ReleaseMemInv
<1> QED BY <1>2, <1>3

\* An mbuf without a block is empty, as mbuf_init leaves it.
LEMMA NullIsEmpty ==
  ASSUME MemInv, NEW m \in Bufs, mb[m].buf = NULL
  PROVE  mb[m] = Empty
<1>1. mb[m] \in [buf : Blocks \cup {NULL}, len : Nat, size : Nat]
  BY DEF MemInv, TypeOK
<1>2. mb[m].size = 0 /\ mb[m].len = 0
  BY <1>1 DEF MemInv, SizeIsBlock, Bytes
<1> QED BY <1>1, <1>2 DEF Empty

\* The size mbuf_insert asks for is enough.
LEMMA NewSizesEnough ==
  ASSUME NEW a, a.len \in Nat, NEW n \in Nat, NEW size \in NewSizes(a, n)
  PROVE  size \in Nat /\ a.len + n <= size
<1> DEFINE min == a.len + n
           new == (3 * min) \div 2
<1>1. min \in Nat
  OBVIOUS
<1>2. size = min + Headroom \/ size = new \/ size = min
  BY DEF NewSizes
<1> HIDE DEF min
<1>3. new \in Nat /\ min <= new
  BY <1>1
<1> HIDE DEF new
<1>4. size \in Nat /\ min <= size
  BY <1>1, <1>2, <1>3, SizeAssumption
<1> QED BY <1>4 DEF min

\* The gap and the new bytes stay within the block.
LEMMA AddsMemInv ==
  ASSUME MemInv, NEW m \in Bufs, NEW off \in Nat, NEW n \in Nat, NEW d \in Seq(Byte),
         Adds(m, off, n, d), ret' \in Nat \cup {-1}
  PROVE  MemInv'
<1> DEFINE a == mb[m]
           put(blk) == memcpy(Opened(blk, a, off, n), off, d)
<1>1. /\ a \in [buf : Blocks \cup {NULL}, len : Nat, size : Nat]
      /\ a.len <= a.size /\ off <= a.len
  BY DEF MemInv, TypeOK, SizeIsBlock, Adds
<1>2. ASSUME NEW blk \in Seq(Byte), a.len <= Len(blk)
      PROVE  put(blk) \in Seq(Byte) /\ Len(put(blk)) = Len(blk)
  <2>1. /\ Opened(blk, a, off, n) \in Seq(Byte)
        /\ Len(Opened(blk, a, off, n)) = Len(blk)
    BY <1>1, <1>2, MemmoveType DEF Opened
  <2> QED BY <2>1, MemcpyType
<1>3. CASE Fits(a, n)
  <2>1. /\ heap' = Stored(a.buf, a.buf, put(Bytes(a.buf)))
        /\ mb' = [mb EXCEPT ![m].len = a.len + n]
        /\ live' = live
    BY <1>3 DEF Adds
  <2>2. Bytes(a.buf) \in Seq(Byte) /\ Len(Bytes(a.buf)) = a.size
    BY <1>1 DEF MemInv, TypeOK, SizeIsBlock, Bytes
  <2>3. put(Bytes(a.buf)) \in Seq(Byte) /\ Len(put(Bytes(a.buf))) = a.size
    BY <1>1, <1>2, <2>2
  <2>4. a.len + n \in 0 .. a.size
    BY <1>1, <1>3 DEF Fits
  <2> QED BY <2>1, <2>3, <2>4, RewriteMemInv
<1>4. CASE ~Fits(a, n)
  <2>1. PICK size \in NewSizes(a, n), r \in ReallocTo(a.buf) :
          /\ live' = (live \ {a.buf}) \cup {r}
          /\ heap' = Stored(a.buf, r, put(Realloced(a.buf, size)))
          /\ mb' = [mb EXCEPT ![m] = [buf |-> r, len |-> a.len + n, size |-> size]]
    BY <1>4 DEF Adds
  <2>2. size \in Nat /\ a.len + n \in 0 .. size
    BY <1>1, NewSizesEnough
  <2>3. Realloced(a.buf, size) \in Seq(Byte) /\ Len(Realloced(a.buf, size)) = size
    BY <1>1, <2>2, ReallocedType DEF MemInv
  <2>4. put(Realloced(a.buf, size)) \in Seq(Byte)
        /\ Len(put(Realloced(a.buf, size))) = size
    BY <1>1, <1>2, <2>2, <2>3
  <2> QED BY <2>1, <2>2, <2>4, ReplaceMemInv
<1> QED BY <1>3, <1>4

\* A call that adds bytes or finds no memory.
LEMMA InsertMemInv ==
  ASSUME MemInv, NEW m \in Bufs, NEW off \in Nat, NEW n \in Nat, NEW d \in Seq(Byte),
         Adds(m, off, n, d) \/ AddsNothing(m, n), ret' \in Nat \cup {-1}
  PROVE  MemInv'
<1>1. CASE Adds(m, off, n, d)
  BY <1>1, AddsMemInv
<1>2. CASE AddsNothing(m, n)
  BY <1>2 DEF AddsNothing, MemInv, TypeOK, SizeIsBlock, BlocksOwned, Bytes
<1> QED BY <1>1, <1>2

\* mbuf_remove and mbuf_clear.
LEMMA RemoveMemInv ==
  ASSUME MemInv, NEW m \in Bufs, NEW n \in Nat, mbuf_remove(m, n) \/ mbuf_clear(m)
  PROVE  MemInv'
<1> DEFINE a == mb[m]
<1>1. /\ a \in [buf : Blocks \cup {NULL}, len : Nat, size : Nat]
      /\ a.len <= a.size /\ ret' \in Nat \cup {-1}
  BY DEF MemInv, TypeOK, SizeIsBlock, mbuf_remove, mbuf_clear
<1>2. Bytes(a.buf) \in Seq(Byte) /\ Len(Bytes(a.buf)) = a.size
  BY <1>1 DEF MemInv, TypeOK, SizeIsBlock, Bytes
<1>3. CASE mbuf_remove(m, n)
  <2>1. a.len - n \in 0 .. a.len
    BY <1>1, <1>3 DEF mbuf_remove, CanRemove
  <2>2. /\ memmove(Bytes(a.buf), 0, n, a.len - n) \in Seq(Byte)
        /\ Len(memmove(Bytes(a.buf), 0, n, a.len - n)) = a.size
    BY <1>1, <1>2, <2>1, MemmoveType
  <2>3. /\ heap' = Stored(a.buf, a.buf, memmove(Bytes(a.buf), 0, n, a.len - n))
        /\ mb' = [mb EXCEPT ![m].len = a.len - n] /\ live' = live
    BY <1>3 DEF mbuf_remove
  <2>4. a.len - n \in 0 .. a.size
    BY <1>1, <2>1
  <2> HIDE DEF a
  <2> QED BY <1>1, <2>2, <2>3, <2>4, RewriteMemInv DEF a
<1>4. CASE mbuf_clear(m)
  <2>1. heap' = Stored(a.buf, a.buf, Bytes(a.buf))
    BY <1>4, NullAssumption DEF mbuf_clear, Stored, Bytes, MemInv, TypeOK
  <2>2. mb' = [mb EXCEPT ![m].len = 0] /\ live' = live
    BY <1>4 DEF mbuf_clear
  <2>3. 0 \in 0 .. Len(Bytes(a.buf))
    BY <1>1, <1>2
  <2> QED BY <1>1, <1>2, <2>1, <2>2, <2>3, RewriteMemInv
<1> QED BY <1>3, <1>4

\* The block changes hands.
LEMMA MoveMemInv ==
  ASSUME MemInv, NEW from \in Bufs, NEW to \in Bufs, mbuf_move(from, to)
  PROVE  MemInv'
<1>1. /\ from # to /\ mb[to].buf = NULL
      /\ mb' = [mb EXCEPT ![to] = mb[from], ![from] = Empty]
      /\ UNCHANGED <<live, heap, ret>>
  BY DEF mbuf_move
<1>2. /\ mb'[to] = mb[from] /\ mb'[from] = Empty
      /\ \A k \in Bufs : k # from /\ k # to => mb'[k] = mb[k]
  BY <1>1 DEF MemInv, TypeOK
<1>3. TypeOK'
  BY <1>1 DEF MemInv, TypeOK, Empty
<1>4. SizeIsBlock'
  <2> SUFFICES ASSUME NEW k \in Bufs
               PROVE  /\ mb'[k].len <= mb'[k].size
                      /\ mb'[k].size = Len(IF mb'[k].buf = NULL THEN <<>> ELSE heap[mb'[k].buf])
    <3>1. heap' = heap
      BY <1>1
    <3> QED BY <3>1 DEF SizeIsBlock, Bytes
  <2>2. CASE k = from
    <3>1. mb'[k].buf = NULL /\ mb'[k].len = 0 /\ mb'[k].size = 0
      BY <1>2, <2>2 DEF Empty
    <3> QED BY <3>1
  <2>3. CASE k = to
    BY <1>2, <2>3 DEF MemInv, SizeIsBlock, Bytes
  <2>4. CASE k # from /\ k # to
    BY <1>2, <2>4 DEF MemInv, SizeIsBlock, Bytes
  <2> QED BY <2>2, <2>3, <2>4
<1>5. BlocksOwned'
  <2>0. /\ mb'[to].buf = mb[from].buf /\ mb'[from].buf = NULL
        /\ \A k \in Bufs : k # from /\ k # to => mb'[k].buf = mb[k].buf
    BY <1>2 DEF Empty
  <2>1. \A k \in Bufs : mb'[k].buf \in live' \cup {NULL}
    BY <1>1, <2>0 DEF MemInv, BlocksOwned
  <2>2. \A k, j \in Bufs : k # j /\ mb'[k].buf = mb'[j].buf => mb'[k].buf = NULL
    <3> SUFFICES ASSUME NEW k \in Bufs, NEW j \in Bufs, k # j, mb'[k].buf = mb'[j].buf,
                        k # from, j # from
                 PROVE  mb'[k].buf = NULL
      BY <2>0
    <3> DEFINE old(i) == IF i = to THEN from ELSE i
    <3>1. mb'[k].buf = mb[old(k)].buf /\ mb'[j].buf = mb[old(j)].buf
      BY <2>0
    <3>2. old(k) \in Bufs /\ old(j) \in Bufs /\ old(k) # old(j)
      OBVIOUS
    <3>3. \A x, y \in Bufs : x # y /\ mb[x].buf = mb[y].buf => mb[x].buf = NULL
      BY DEF MemInv, BlocksOwned
    <3> HIDE DEF old
    <3> QED BY <3>1, <3>2, <3>3
  <2>3. \A b \in live' : \E k \in Bufs : mb'[k].buf = b
    <3> SUFFICES ASSUME NEW b \in live PROVE \E k \in Bufs : mb'[k].buf = b
      BY <1>1
    <3>1. PICK k \in Bufs : mb[k].buf = b
      BY DEF MemInv, BlocksOwned
    <3>2. k # to
      BY <1>1, <3>1, NullAssumption DEF MemInv, TypeOK
    <3> QED BY <1>2, <3>1, <3>2
  <2> QED BY <2>1, <2>2, <2>3 DEF BlocksOwned
<1> QED BY <1>3, <1>4, <1>5 DEF MemInv

\* mbuf_append_and_free takes the user's block over, or copies it.
LEMMA TakeOverMemInv ==
  ASSUME MemInv, NEW m \in Bufs, NEW d \in Input, mbuf_append_and_free(m, d)
  PROVE  MemInv'
<1>1. d \in Seq(Byte) /\ Len(d) \in Nat /\ mb[m].len \in Nat
  BY InputIsSeq DEF MemInv, TypeOK
<1>2. CASE mb[m].len = 0
  <2>1. PICK q \in Blocks \ live : TakeOver(m, d, q) /\ ret' = Len(d)
    BY <1>2 DEF mbuf_append_and_free
  <2>2. q \in ReallocTo(mb[m].buf)
    BY NullAssumption DEF ReallocTo
  <2>3. Len(d) \in 0 .. Len(d) /\ ret' \in Nat \cup {-1}
    BY <1>1, <2>1
  <2> QED BY <1>1, <2>1, <2>2, <2>3, ReplaceMemInv DEF TakeOver
<1>3. CASE mb[m].len # 0
  BY <1>1, <1>3, InsertMemInv DEF mbuf_append_and_free, mbuf_append, mbuf_insert
<1> QED BY <1>2, <1>3

-----------------------------------------------------------------------------
\* No mbuf has a block yet.
LEMMA InitMemInv == Init => MemInv
BY NullAssumption DEF Init, Empty, MemInv, TypeOK, SizeIsBlock, BlocksOwned, Bytes

\* Every call keeps MemInv.
LEMMA NextMemInv == MemInv /\ [Next]_vars => MemInv'
<1> SUFFICES ASSUME MemInv, [Next]_vars PROVE MemInv'
  OBVIOUS
<1>1. ASSUME NEW m \in Bufs, NEW n \in 0 .. MaxSize,
             mbuf_init(m, n) \/ mbuf_resize(m, n) \/ mbuf_remove(m, n)
      PROVE  MemInv'
  <2>1. n \in Nat
    BY SizeAssumption
  <2>2. CASE mbuf_init(m, n)
    BY <2>1, <2>2, NullIsEmpty, ResizeMemInv DEF mbuf_init
  <2>3. CASE mbuf_resize(m, n)
    BY <2>1, <2>3, ResizeMemInv DEF mbuf_resize
  <2>4. CASE mbuf_remove(m, n)
    BY <2>1, <2>4, RemoveMemInv
  <2> QED BY <1>1, <2>2, <2>3, <2>4
<1>2. ASSUME NEW m \in Bufs, mbuf_trim(m) \/ mbuf_free(m) \/ mbuf_clear(m)
      PROVE  MemInv'
  <2>1. mb[m].len \in Nat
    BY DEF MemInv, TypeOK
  <2>2. CASE mbuf_trim(m)
    BY <2>1, <2>2, ResizeMemInv DEF mbuf_trim
  <2>3. CASE mbuf_free(m)
    BY <2>3, ReleaseMemInv DEF mbuf_free
  <2>4. CASE mbuf_clear(m)
    BY <2>4, RemoveMemInv
  <2> QED BY <1>2, <2>2, <2>3, <2>4
<1>3. ASSUME NEW m \in Bufs, NEW d \in Input,
             \/ mbuf_append(m, d) \/ mbuf_append_and_free(m, d) \/ mbuf_printf(m, d)
             \/ \E off \in 0 .. mb[m].len : mbuf_insert(m, off, Len(d), d)
      PROVE  MemInv'
  <2>1. d \in Seq(Byte) /\ Len(d) \in Nat /\ mb[m].len \in Nat
    BY InputIsSeq DEF MemInv, TypeOK
  <2>2. CASE mbuf_append(m, d)
    BY <2>1, <2>2, InsertMemInv DEF mbuf_append, mbuf_insert
  <2>3. CASE mbuf_append_and_free(m, d)
    BY <2>3, TakeOverMemInv
  <2>4. CASE mbuf_printf(m, d)
    <3>1. CASE UNCHANGED <<mb, live, heap>>
      BY <2>1, <2>4, <3>1 DEF mbuf_printf, MemInv, TypeOK, SizeIsBlock, BlocksOwned, Bytes
    <3>2. CASE /\ Adds(m, mb[m].len, Len(d), d) \/ AddsNothing(m, Len(d))
               /\ ret' = Len(d)
      BY <2>1, <3>2, InsertMemInv
    <3> QED BY <2>4, <3>1, <3>2 DEF mbuf_printf
  <2>5. CASE \E off \in 0 .. mb[m].len : mbuf_insert(m, off, Len(d), d)
    BY <2>1, <2>5, InsertMemInv DEF mbuf_insert
  <2> QED BY <1>3, <2>2, <2>3, <2>4, <2>5
<1>4. ASSUME NEW m \in Bufs, NEW n \in 0 .. MaxInput, NEW off \in 0 .. mb[m].len,
             mbuf_insert(m, off, n, <<>>)
      PROVE  MemInv'
  <2>1. n \in Nat /\ off \in Nat /\ <<>> \in Seq(Byte)
    BY SizeAssumption DEF MemInv, TypeOK
  <2>2. /\ Adds(m, off, n, <<>>) \/ AddsNothing(m, n)
        /\ ret' \in Nat \cup {-1}
    BY <1>4, <2>1 DEF mbuf_insert
  <2> QED BY <2>1, <2>2, InsertMemInv
<1>5. ASSUME NEW from \in Bufs, NEW to \in Bufs, mbuf_move(from, to) PROVE MemInv'
  BY <1>5, MoveMemInv
<1>6. CASE UNCHANGED vars
  BY <1>6 DEF vars, MemInv, TypeOK, SizeIsBlock, BlocksOwned, Bytes
<1> QED BY <1>1, <1>2, <1>3, <1>4, <1>5, <1>6 DEF Next

-----------------------------------------------------------------------------
\* The size of an mbuf is always the size of its block and holds its contents.
THEOREM SizesFit == Spec => []SizeIsBlock
<1>1. Spec => []MemInv
  BY InitMemInv, NextMemInv, PTL DEF Spec
<1>2. MemInv => SizeIsBlock
  BY DEF MemInv
<1> QED BY <1>1, <1>2, PTL

\* No sequence of calls leaks, shares or keeps a freed block.
THEOREM Ownership == Spec => []BlocksOwned
<1>1. Spec => []MemInv
  BY InitMemInv, NextMemInv, PTL DEF Spec
<1>2. MemInv => BlocksOwned
  BY DEF MemInv
<1> QED BY <1>1, <1>2, PTL

-----------------------------------------------------------------------------
\* The contents of all mbufs: what the abstract specification speaks of.
Strings == [m \in Bufs |-> Content(m)]

LEMMA ContentType ==
  ASSUME MemInv, NEW m \in Bufs
  PROVE  /\ Content(m) \in Seq(Byte) /\ Len(Content(m)) = mb[m].len /\ mb[m].len \in Nat
         /\ \A k \in 1 .. mb[m].len : Content(m)[k] = Bytes(mb[m].buf)[k]
         /\ Bytes(mb[m].buf) \in Seq(Byte) /\ mb[m].len <= Len(Bytes(mb[m].buf))
         /\ Strings[m] = Content(m)
<1>1. /\ mb[m] \in [buf : Blocks \cup {NULL}, len : Nat, size : Nat]
      /\ mb[m].len <= mb[m].size /\ mb[m].size = Len(Bytes(mb[m].buf))
  BY DEF MemInv, TypeOK, SizeIsBlock
<1>2. Bytes(mb[m].buf) \in Seq(Byte)
  BY <1>1 DEF MemInv, TypeOK, Bytes
<1>3. Content(m) \in [1 .. mb[m].len -> Byte]
  BY <1>1, <1>2 DEF Content
<1>4. Content(m) \in Seq(Byte) /\ Len(Content(m)) = mb[m].len
  BY <1>1, <1>3, TupleIsSeq
<1> QED BY <1>1, <1>2, <1>4 DEF Content, Strings

\* The string of m is s, the others are as before.
LEMMA StringsExcept ==
  ASSUME NEW m \in Bufs, NEW s, Content(m)' = s,
         \A k \in Bufs : k # m => Content(k)' = Content(k)
  PROVE  Strings' = [Strings EXCEPT ![m] = s]
BY DEF Strings

\* m's block is replaced by r: the same as in ReplaceMemInv.
LEMMA ReplaceContent ==
  ASSUME MemInv, NEW m \in Bufs, NEW r \in ReallocTo(mb[m].buf),
         NEW blk \in Seq(Byte), NEW len \in 0 .. Len(blk),
         heap' = Stored(mb[m].buf, r, blk),
         mb' = [mb EXCEPT ![m] = [buf |-> r, len |-> len, size |-> Len(blk)]]
  PROVE  Strings' = [Strings EXCEPT ![m] = [k \in 1 .. len |-> blk[k]]]
<1>1. r \in Blocks /\ r # NULL /\ (r \in live => r = mb[m].buf)
  BY NullAssumption DEF ReallocTo, MemInv, TypeOK
<1>2. \A k \in Bufs : k # m => mb'[k] = mb[k]
  BY DEF MemInv, TypeOK
<1>3. mb'[m].buf = r /\ mb'[m].len = len
  BY DEF MemInv, TypeOK
<1>4. ASSUME NEW k \in Bufs, k # m PROVE Content(k)' = Content(k)
  <2>1. mb[k].buf = NULL \/ (mb[k].buf \in Blocks /\ mb[k].buf # mb[m].buf /\ mb[k].buf # r)
    BY <1>1, <1>4 DEF MemInv, TypeOK, BlocksOwned
  <2>2. Bytes(mb[k].buf)' = Bytes(mb[k].buf)
    BY <1>2, <1>4, <2>1 DEF Bytes, Stored
  <2> QED BY <1>2, <1>4, <2>2 DEF Content
<1>5. Content(m)' = [k \in 1 .. len |-> blk[k]]
  <2>1. Bytes(mb[m].buf)' = blk
    BY <1>1, <1>3 DEF Bytes, Stored
  <2> QED BY <1>3, <2>1 DEF Content
<1> QED BY <1>4, <1>5, StringsExcept

LEMMA ReleaseContent ==
  ASSUME MemInv, NEW m \in Bufs,
         heap' = Stored(mb[m].buf, NULL, <<>>), mb' = [mb EXCEPT ![m] = Empty]
  PROVE  Strings' = [Strings EXCEPT ![m] = <<>>]
<1>1. \A k \in Bufs : k # m => mb'[k] = mb[k]
  BY DEF MemInv, TypeOK
<1>2. mb'[m].len = 0
  BY DEF MemInv, TypeOK, Empty
<1>3. ASSUME NEW k \in Bufs, k # m PROVE Content(k)' = Content(k)
  <2>1. mb[k].buf = NULL \/ (mb[k].buf \in Blocks /\ mb[k].buf # mb[m].buf /\ mb[k].buf # NULL)
    BY <1>3, NullAssumption DEF MemInv, TypeOK, BlocksOwned
  <2>2. Bytes(mb[k].buf)' = Bytes(mb[k].buf)
    BY <1>1, <1>3, <2>1 DEF Bytes, Stored
  <2> QED BY <1>1, <1>3, <2>2 DEF Content
<1>4. Content(m)' = <<>>
  BY <1>2 DEF Content
<1> QED BY <1>3, <1>4, StringsExcept

\* m keeps its block, which holds other bytes or counts other bytes as contents.
LEMMA RewriteContent ==
  ASSUME MemInv, NEW m \in Bufs, NEW blk \in Seq(Byte), NEW len \in 0 .. Len(blk),
         Len(blk) = mb[m].size,
         heap' = Stored(mb[m].buf, mb[m].buf, blk),
         mb' = [mb EXCEPT ![m].len = len]
  PROVE  Strings' = [Strings EXCEPT ![m] = [k \in 1 .. len |-> blk[k]]]
<1>1. CASE mb[m].buf # NULL
  <2>1. mb[m].buf \in ReallocTo(mb[m].buf)
    BY <1>1 DEF MemInv, TypeOK, ReallocTo
  <2>2. mb' = [mb EXCEPT ![m] = [buf |-> mb[m].buf, len |-> len, size |-> Len(blk)]]
    <3>1. mb[m] \in [buf : Blocks \cup {NULL}, len : Nat, size : Nat]
      BY DEF MemInv, TypeOK
    <3>2. [mb[m] EXCEPT !.len = len] = [buf |-> mb[m].buf, len |-> len, size |-> Len(blk)]
      BY <3>1
    <3> QED BY <3>2
  <2> QED BY <2>1, <2>2, ReplaceContent
<1>2. CASE mb[m].buf = NULL
  <2>1. mb[m].size = 0 /\ mb[m].len = 0 /\ len = 0
    BY <1>2 DEF MemInv, TypeOK, SizeIsBlock, Bytes
  <2>2. heap' = heap /\ mb' = mb
    BY <1>2, <2>1, NullAssumption DEF MemInv, TypeOK, Stored
  <2>3. \A k \in Bufs : Content(k)' = Content(k)
    BY <2>2 DEF Content, Bytes
  <2>4. Content(m)' = [k \in 1 .. len |-> blk[k]]
    BY <2>1, <2>2 DEF Content
  <2> QED BY <2>3, <2>4, StringsExcept
<1> QED BY <1>1, <1>2

-----------------------------------------------------------------------------
LEMMA ConcatIs ==
  ASSUME NEW s \in Seq(Byte), NEW t \in Seq(Byte)
  PROVE  /\ s \o t \in Seq(Byte) /\ Len(s \o t) = Len(s) + Len(t)
         /\ \A k \in 1 .. Len(s) : (s \o t)[k] = s[k]
         /\ \A k \in 1 .. Len(t) : (s \o t)[Len(s) + k] = t[k]
OBVIOUS

\* Strings of the same length with the same bytes are equal.
LEMMA SameString ==
  ASSUME NEW s \in Seq(Byte), NEW t \in Seq(Byte), Len(s) = Len(t),
         \A k \in 1 .. Len(s) : s[k] = t[k]
  PROVE  s = t
OBVIOUS

\* A string that agrees with c before off, with e behind it and then with the
\* rest of c is c with e inserted at off.
LEMMA InsertedIs ==
  ASSUME NEW c \in Seq(Byte), NEW off \in 0 .. Len(c), NEW e \in Seq(Byte), NEW t \in Seq(Byte),
         Len(t) = Len(c) + Len(e),
         \A k \in 1 .. off : t[k] = c[k],
         \A k \in 1 .. Len(e) : t[off + k] = e[k],
         \A k \in off + 1 .. Len(c) : t[k + Len(e)] = c[k]
  PROVE  t = String!Inserted(c, off, e)
<1> DEFINE head == SubSeq(c, 1, off)
           tail == SubSeq(c, off + 1, Len(c))
           he   == head \o e
<1>1. off \in Nat /\ off <= Len(c) /\ Len(c) \in Nat /\ Len(e) \in Nat
  OBVIOUS
<1>2. head \in Seq(Byte) /\ Len(head) = off /\ \A k \in 1 .. off : head[k] = c[k]
  BY <1>1
<1>3. /\ tail \in Seq(Byte) /\ Len(tail) = Len(c) - off
      /\ \A k \in 1 .. Len(c) - off : tail[k] = c[off + k]
  BY <1>1
<1> HIDE DEF head, tail
<1>4. /\ he \in Seq(Byte) /\ Len(he) = Len(head) + Len(e)
      /\ \A k \in 1 .. Len(head) : he[k] = head[k]
      /\ \A k \in 1 .. Len(e) : he[Len(head) + k] = e[k]
  BY <1>2, ConcatIs, Zenon
<1> HIDE DEF he
<1>5. /\ he \o tail \in Seq(Byte) /\ Len(he \o tail) = Len(he) + Len(tail)
      /\ \A k \in 1 .. Len(he) : (he \o tail)[k] = he[k]
      /\ \A k \in 1 .. Len(tail) : (he \o tail)[Len(he) + k] = tail[k]
  BY <1>3, <1>4, ConcatIs, Zenon
<1> DEFINE u == he \o tail
<1>6. Len(he) = off + Len(e)
  BY <1>2, <1>4
<1>7. Len(u) = Len(t)
  BY <1>1, <1>3, <1>5, <1>6
<1>8. ASSUME NEW k \in 1 .. Len(t) PROVE t[k] = u[k]
  <2>0. k \in Nat /\ k >= 1 /\ k <= Len(c) + Len(e)
    BY <1>1
  <2>1. CASE k <= off
    <3>1. k \in 1 .. off /\ k \in 1 .. Len(he)
      BY <1>1, <1>6, <2>0, <2>1
    <3>2. u[k] = he[k] /\ he[k] = head[k] /\ head[k] = c[k]
      BY <1>2, <1>4, <1>5, <3>1
    <3> QED BY <3>1, <3>2
  <2>2. CASE k > off /\ k <= off + Len(e)
    <3> DEFINE j == k - off
    <3>1. j \in 1 .. Len(e) /\ k = off + j /\ k \in 1 .. Len(he)
      BY <1>1, <1>6, <2>0, <2>2
    <3> HIDE DEF j
    <3>2. u[k] = he[k] /\ he[k] = e[j]
      BY <1>2, <1>4, <1>5, <3>1
    <3> QED BY <3>1, <3>2
  <2>3. CASE k > off + Len(e)
    <3> DEFINE j == k - (off + Len(e))
    <3>1. /\ j \in 1 .. Len(tail) /\ k = Len(he) + j /\ j \in 1 .. Len(c) - off
          /\ off + j \in off + 1 .. Len(c) /\ k = (off + j) + Len(e)
      BY <1>1, <1>3, <1>6, <2>0, <2>3
    <3> HIDE DEF j
    <3>2. u[k] = tail[j]
      BY <1>5, <3>1, Zenon
    <3>3. tail[j] = c[off + j]
      BY <1>3, <3>1, Zenon
    <3>4. t[k] = c[off + j]
      BY <3>1, Zenon
    <3> QED BY <3>2, <3>3, <3>4
  <2>4. k <= off \/ (k > off /\ k <= off + Len(e)) \/ k > off + Len(e)
    BY <1>1, <2>0
  <2> QED BY <2>1, <2>2, <2>3, <2>4, Zenon
<1>9. t = u
  <2> HIDE DEF u
  <2> QED BY <1>5, <1>7, <1>8, SameString DEF u
<1> QED BY <1>9 DEF he, head, tail, String!Inserted

PutsInto(blk, a, off, n, d, c) ==
  \E e \in [1 .. n -> Byte] :
    /\ Len(d) = n => e = d
    /\ [k \in 1 .. a.len + n |-> memcpy(Opened(blk, a, off, n), off, d)[k]]
         = String!Inserted(c, off, e)

\* What mbuf_insert's memmove and memcpy leave in a block whose first bytes are
\* the string c: c with n bytes inserted, those of d if d is given.
LEMMA PutContent ==
  ASSUME NEW blk \in Seq(Byte), NEW a, a.len \in Nat, NEW off \in 0 .. a.len, NEW n \in Nat,
         NEW d \in Seq(Byte), Len(d) = n \/ d = <<>>,
         NEW c \in Seq(Byte), Len(c) = a.len, \A k \in 1 .. a.len : blk[k] = c[k],
         a.len + n <= Len(blk)
  PROVE  PutsInto(blk, a, off, n, d, c)
<1> DEFINE gap == Opened(blk, a, off, n)
           new == memcpy(gap, off, d)
           t   == [k \in 1 .. a.len + n |-> new[k]]
           e   == [k \in 1 .. n |-> new[off + k]]
<1>1. /\ off \in Nat /\ off <= a.len /\ Len(d) \in Nat /\ Len(d) <= n /\ Len(blk) \in Nat
      /\ a.len - off \in Nat /\ off + (a.len - off) <= Len(blk)
  OBVIOUS
<1>2. gap \in Seq(Byte) /\ Len(gap) = Len(blk)
  BY <1>1, MemmoveType DEF Opened
<1>3. /\ \A k \in 1 .. off : gap[k] = blk[k]
      /\ \A k \in off + 1 .. a.len : gap[k + n] = blk[k]
  <2>1. ASSUME NEW k \in 1 .. off PROVE gap[k] = blk[k]
    BY <1>1 DEF Opened, memmove
  <2>2. ASSUME NEW k \in off + 1 .. a.len PROVE gap[k + n] = blk[k]
    <3>1. /\ k + n \in 1 .. Len(blk)
          /\ k + n \in (off + n) + 1 .. (off + n) + (a.len - off)
          /\ (k + n) - (off + n) + off = k
      BY <1>1
    <3> QED BY <3>1 DEF Opened, memmove
  <2> QED BY <2>1, <2>2
<1> HIDE DEF gap
<1>4. new \in Seq(Byte) /\ Len(new) = Len(blk)
  BY <1>1, <1>2, MemcpyType
<1>5. /\ \A k \in 1 .. off : new[k] = gap[k]
      /\ \A k \in off + 1 .. a.len : new[k + n] = gap[k + n]
      /\ Len(d) = n => \A k \in 1 .. n : new[off + k] = d[k]
  <2>1. ASSUME NEW k \in 1 .. off PROVE new[k] = gap[k]
    BY <1>1, <1>2 DEF memcpy
  <2>2. ASSUME NEW k \in off + 1 .. a.len PROVE new[k + n] = gap[k + n]
    <3>1. k + n \in 1 .. Len(gap) /\ k + n \notin off + 1 .. off + Len(d)
      BY <1>1, <1>2
    <3> QED BY <3>1 DEF memcpy
  <2>3. ASSUME Len(d) = n, NEW k \in 1 .. n PROVE new[off + k] = d[k]
    <3>1. off + k \in 1 .. Len(gap) /\ off + k \in off + 1 .. off + Len(d) /\ (off + k) - off = k
      BY <1>1, <1>2, <2>3
    <3> QED BY <3>1 DEF memcpy
  <2> QED BY <2>1, <2>2, <2>3
<1> HIDE DEF new
<1>6. t \in [1 .. a.len + n -> Byte] /\ e \in [1 .. n -> Byte]
  BY <1>1, <1>4
<1>7. t \in Seq(Byte) /\ Len(t) = a.len + n /\ e \in Seq(Byte) /\ Len(e) = n
  <2> HIDE DEF t, e
  <2>1. a.len + n \in Nat
    BY <1>1
  <2> QED BY <1>6, <2>1, TupleIsSeq, Zenon
<1>8. Len(d) = n => e = d
  BY <1>5
<1>9. /\ \A k \in 1 .. off : t[k] = c[k]
      /\ \A k \in 1 .. n : t[off + k] = e[k]
      /\ \A k \in off + 1 .. a.len : t[k + n] = c[k]
  <2>1. ASSUME NEW k \in 1 .. off PROVE t[k] = c[k]
    <3>1. k \in 1 .. a.len + n /\ k \in 1 .. a.len
      BY <1>1
    <3>2. t[k] = new[k]
      BY <3>1
    <3> HIDE DEF t
    <3> QED BY <1>3, <1>5, <3>1, <3>2
  <2>2. ASSUME NEW k \in 1 .. n PROVE t[off + k] = e[k]
    BY <1>1
  <2>3. ASSUME NEW k \in off + 1 .. a.len PROVE t[k + n] = c[k]
    <3>1. k + n \in 1 .. a.len + n /\ k \in 1 .. a.len
      BY <1>1
    <3> QED BY <1>3, <1>5, <3>1
  <2> QED BY <2>1, <2>2, <2>3
<1> HIDE DEF t, e
<1>10. t = String!Inserted(c, off, e)
  <2>1. off \in 0 .. Len(c) /\ Len(t) = Len(c) + Len(e)
    BY <1>7
  <2>2. /\ \A k \in 1 .. Len(e) : t[off + k] = e[k]
        /\ \A k \in off + 1 .. Len(c) : t[k + Len(e)] = c[k]
    BY <1>7, <1>9, Zenon
  <2> QED BY <1>7, <1>9, <2>1, <2>2, InsertedIs, Zenon
<1> QED BY <1>6, <1>8, <1>10 DEF t, new, gap, PutsInto

-----------------------------------------------------------------------------
\* realloc keeps the contents.
LEMMA ReallocedContent ==
  ASSUME MemInv, NEW m \in Bufs, NEW n \in Nat, mb[m].len <= n
  PROVE  /\ Realloced(mb[m].buf, n) \in Seq(Byte) /\ Len(Realloced(mb[m].buf, n)) = n
         /\ \A k \in 1 .. mb[m].len : Realloced(mb[m].buf, n)[k] = Content(m)[k]
         /\ [k \in 1 .. mb[m].len |-> Realloced(mb[m].buf, n)[k]] = Content(m)
<1>1. mb[m].buf \in Blocks \cup {NULL} /\ TypeOK
  BY DEF MemInv, TypeOK
<1>2. Realloced(mb[m].buf, n) \in Seq(Byte) /\ Len(Realloced(mb[m].buf, n)) = n
  BY <1>1, ReallocedType
<1>3. ASSUME NEW k \in 1 .. mb[m].len
      PROVE  Realloced(mb[m].buf, n)[k] = Bytes(mb[m].buf)[k]
  <2>1. mb[m].len \in Nat /\ mb[m].len <= Len(Bytes(mb[m].buf)) /\ Len(Bytes(mb[m].buf)) \in Nat
    BY ContentType
  <2>2. k \in 1 .. n /\ k <= Len(Bytes(mb[m].buf))
    BY <2>1
  <2> QED BY <2>2 DEF Realloced
<1>4. [k \in 1 .. mb[m].len |-> Realloced(mb[m].buf, n)[k]] = Content(m)
  BY <1>3 DEF Content
<1>5. \A k \in 1 .. mb[m].len : Realloced(mb[m].buf, n)[k] = Content(m)[k]
  BY <1>3, ContentType
<1> QED BY <1>2, <1>4, <1>5

\* A successful insertion, in place or into a larger block.
LEMMA AddsContent ==
  ASSUME MemInv, NEW m \in Bufs, NEW off \in Nat, NEW n \in Nat, NEW d \in Seq(Byte),
         Len(d) = n \/ d = <<>>, Adds(m, off, n, d)
  PROVE  /\ off \in 0 .. Len(Content(m))
         /\ \E e \in [1 .. n -> Byte] :
              /\ Len(d) = n => e = d
              /\ Strings' = [Strings EXCEPT ![m] = String!Inserted(Content(m), off, e)]
<1> DEFINE a == mb[m]
           c == Content(m)
           put(blk) == memcpy(Opened(blk, a, off, n), off, d)
<1>1. /\ a \in [buf : Blocks \cup {NULL}, len : Nat, size : Nat]
      /\ a.len <= a.size /\ off <= a.len /\ a.len \in Nat
  BY DEF MemInv, TypeOK, SizeIsBlock, Adds
<1>2. c \in Seq(Byte) /\ Len(c) = a.len
  BY ContentType
<1>3. off \in 0 .. a.len
  BY <1>1
<1>4. ASSUME NEW blk \in Seq(Byte), a.len + n <= Len(blk), \A k \in 1 .. a.len : blk[k] = c[k]
      PROVE  /\ put(blk) \in Seq(Byte) /\ Len(put(blk)) = Len(blk)
             /\ \E e \in [1 .. n -> Byte] :
                  /\ Len(d) = n => e = d
                  /\ [k \in 1 .. a.len + n |-> put(blk)[k]] = String!Inserted(c, off, e)
  <2>1. /\ Opened(blk, a, off, n) \in Seq(Byte)
        /\ Len(Opened(blk, a, off, n)) = Len(blk)
    BY <1>1, <1>4, MemmoveType DEF Opened
  <2>2. put(blk) \in Seq(Byte) /\ Len(put(blk)) = Len(blk)
    BY <2>1, MemcpyType
  <2> HIDE DEF a, c
  <2>3. PutsInto(blk, a, off, n, d, c)
    BY <1>1, <1>2, <1>3, <1>4, PutContent
  <2> QED BY <2>2, <2>3 DEF PutsInto
<1>5. CASE Fits(a, n)
  <2> DEFINE blk == Bytes(a.buf)
  <2>1. /\ heap' = Stored(a.buf, a.buf, put(blk))
        /\ mb' = [mb EXCEPT ![m].len = a.len + n]
    BY <1>5 DEF Adds
  <2>2. blk \in Seq(Byte) /\ Len(blk) = a.size /\ \A k \in 1 .. a.len : blk[k] = c[k]
    BY ContentType DEF MemInv, SizeIsBlock
  <2>3. a.len + n <= Len(blk) /\ a.len + n \in 0 .. Len(blk)
    BY <1>1, <1>5, <2>2 DEF Fits
  <2> HIDE DEF blk, put
  <2>4. put(blk) \in Seq(Byte) /\ Len(put(blk)) = Len(blk)
    BY <1>4, <2>2, <2>3
  <2>5. Strings' = [Strings EXCEPT ![m] = [k \in 1 .. a.len + n |-> put(blk)[k]]]
    BY <2>1, <2>2, <2>3, <2>4, RewriteContent
  <2>6. PICK e \in [1 .. n -> Byte] :
          /\ Len(d) = n => e = d
          /\ [k \in 1 .. a.len + n |-> put(blk)[k]] = String!Inserted(c, off, e)
    BY <1>4, <2>2, <2>3
  <2> QED BY <1>2, <1>3, <2>5, <2>6
<1>6. CASE ~Fits(a, n)
  <2>1. PICK size \in NewSizes(a, n), r \in ReallocTo(a.buf) :
          /\ heap' = Stored(a.buf, r, put(Realloced(a.buf, size)))
          /\ mb' = [mb EXCEPT ![m] = [buf |-> r, len |-> a.len + n, size |-> size]]
    BY <1>6 DEF Adds
  <2> DEFINE blk == Realloced(a.buf, size)
  <2>2. size \in Nat /\ a.len + n <= size /\ a.len <= size
    BY <1>1, NewSizesEnough
  <2>3. blk \in Seq(Byte) /\ Len(blk) = size /\ \A k \in 1 .. a.len : blk[k] = c[k]
    BY <2>2, ReallocedContent
  <2>4. a.len + n \in 0 .. Len(blk)
    BY <1>1, <2>2, <2>3
  <2> HIDE DEF blk, put
  <2>5. put(blk) \in Seq(Byte) /\ Len(put(blk)) = Len(blk)
    BY <1>4, <2>2, <2>3
  <2>6. /\ heap' = Stored(a.buf, r, put(blk))
        /\ mb' = [mb EXCEPT ![m] = [buf |-> r, len |-> a.len + n, size |-> Len(put(blk))]]
    BY <2>1, <2>3, <2>5 DEF blk
  <2>7. Strings' = [Strings EXCEPT ![m] = [k \in 1 .. a.len + n |-> put(blk)[k]]]
    BY <2>4, <2>5, <2>6, ReplaceContent
  <2>8. PICK e \in [1 .. n -> Byte] :
          /\ Len(d) = n => e = d
          /\ [k \in 1 .. a.len + n |-> put(blk)[k]] = String!Inserted(c, off, e)
    BY <1>4, <2>2, <2>3
  <2> QED BY <1>2, <1>3, <2>7, <2>8
<1> QED BY <1>5, <1>6

-----------------------------------------------------------------------------
\* The steps of the abstract specification, said of Strings.
LEMMA InsertStep ==
  ASSUME NEW m \in Bufs, NEW d \in Input, NEW off \in 0 .. Len(Strings[m]),
         \/ /\ Strings' = [Strings EXCEPT ![m] = String!Inserted(Strings[m], off, d)]
            /\ ret' = Len(d)
         \/ Strings' = Strings /\ ret' = 0
  PROVE  String!Insert(m, off, d)
BY DEF Strings, String!Insert

LEMMA PrintStep ==
  ASSUME NEW m \in Bufs, NEW d \in Input,
         \/ Strings' = [Strings EXCEPT ![m] = Strings[m] \o d] /\ ret' = Len(d)
         \/ Strings' = Strings /\ ret' \in {Len(d), -1}
  PROVE  String!PrintTo(m, d)
BY DEF Strings, String!PrintTo

LEMMA CutStep ==
  ASSUME NEW m \in Bufs, NEW n \in 0 .. Len(Strings[m]),
         Strings' = [Strings EXCEPT ![m] = SubSeq(Strings[m], n + 1, Len(Strings[m]))],
         ret' = ret
  PROVE  String!Cut(m, n)
BY DEF Strings, String!Cut

LEMMA HandOnStep ==
  ASSUME NEW from \in Bufs, NEW to \in Bufs, from # to,
         Strings' = [Strings EXCEPT ![to] = Strings[from], ![from] = <<>>], ret' = ret
  PROVE  String!HandOn(from, to)
BY DEF Strings, String!HandOn

\* Nothing of what the abstract specification speaks of changes.
LEMMA StutterStep ==
  ASSUME Strings' = Strings, ret' = ret
  PROVE  UNCHANGED String!bsVars
BY DEF Strings, String!bsVars

-----------------------------------------------------------------------------
\* mbuf_resize, mbuf_trim and mbuf_init do not touch the contents.
LEMMA ResizeIsStutter ==
  ASSUME MemInv, NEW m \in Bufs, NEW n \in Nat, Resize(m, mb[m], n)
  PROVE  Strings' = Strings
<1>1. /\ mb[m] \in [buf : Blocks \cup {NULL}, len : Nat, size : Nat]
      /\ mb[m].len <= mb[m].size /\ mb[m].len \in Nat
  BY DEF MemInv, TypeOK, SizeIsBlock
<1>2. CASE n # 0
  <2>1. PICK r \in ReallocTo(mb[m].buf) :
          /\ n > mb[m].size \/ n >= mb[m].len
          /\ heap' = Stored(mb[m].buf, r, Realloced(mb[m].buf, n))
          /\ mb' = [mb EXCEPT ![m] = [buf |-> r, len |-> mb[m].len, size |-> n]]
    BY <1>2 DEF Resize
  <2>2. mb[m].len <= n /\ mb[m].len \in 0 .. n
    BY <1>1, <2>1
  <2> DEFINE blk == Realloced(mb[m].buf, n)
  <2>3. /\ blk \in Seq(Byte) /\ Len(blk) = n
        /\ [k \in 1 .. mb[m].len |-> blk[k]] = Content(m)
    BY <2>2, ReallocedContent
  <2> HIDE DEF blk
  <2>4. /\ heap' = Stored(mb[m].buf, r, blk)
        /\ mb' = [mb EXCEPT ![m] = [buf |-> r, len |-> mb[m].len, size |-> Len(blk)]]
        /\ mb[m].len \in 0 .. Len(blk)
    BY <2>1, <2>2, <2>3 DEF blk
  <2>5. Strings' = [Strings EXCEPT ![m] = [k \in 1 .. mb[m].len |-> blk[k]]]
    BY <2>3, <2>4, ReplaceContent
  <2> QED BY <2>3, <2>5 DEF Strings
<1>3. CASE n = 0
  <2>1. /\ heap' = Stored(mb[m].buf, NULL, <<>>)
        /\ mb' = [mb EXCEPT ![m] = Empty] /\ mb[m].len <= 0
    BY <1>3 DEF Resize
  <2>2. Content(m) = <<>>
    BY <1>1, <2>1 DEF Content
  <2> QED BY <2>1, <2>2, ReleaseContent DEF Strings
<1> QED BY <1>2, <1>3

\* mbuf_free and mbuf_clear cut the whole string off.
LEMMA EmptyingIsCut ==
  ASSUME MemInv, NEW m \in Bufs, mbuf_free(m) \/ mbuf_clear(m)
  PROVE  String!Cut(m, mb[m].len)
<1>1. Strings' = [Strings EXCEPT ![m] = <<>>] /\ ret' = ret
  <2>1. CASE mbuf_free(m)
    BY <2>1, ReleaseContent DEF mbuf_free
  <2>2. CASE mbuf_clear(m)
    <3>1. /\ mb'[m].len = 0 /\ heap' = heap /\ ret' = ret
          /\ \A k \in Bufs : k # m => mb'[k] = mb[k]
      BY <2>2 DEF mbuf_clear, MemInv, TypeOK
    <3>2. \A k \in Bufs : k # m => Content(k)' = Content(k)
      BY <3>1 DEF Content, Bytes
    <3>3. Content(m)' = <<>>
      BY <3>1 DEF Content
    <3> QED BY <3>1, <3>2, <3>3, StringsExcept
  <2> QED BY <2>1, <2>2
<1> DEFINE s == Strings[m]
           n == mb[m].len
<1>2. s \in Seq(Byte) /\ n = Len(s)
  BY ContentType
<1> HIDE DEF s, n
<1>3. n \in 0 .. Len(s) /\ SubSeq(s, n + 1, Len(s)) = <<>>
  BY <1>2
<1>4. String!Cut(m, n)
  BY <1>1, <1>3, CutStep DEF s
<1> QED BY <1>4 DEF n

\* mbuf_remove moves the rest of the contents to the front.
LEMMA RemoveIsCut ==
  ASSUME MemInv, NEW m \in Bufs, NEW n \in Nat, mbuf_remove(m, n)
  PROVE  String!Cut(m, n)
<1> DEFINE a == mb[m]
           c == Content(m)
           blk == Bytes(a.buf)
           new == memmove(blk, 0, n, a.len - n)
           t   == [k \in 1 .. a.len - n |-> new[k]]
<1>1. /\ n <= a.len /\ ret' = ret
      /\ heap' = Stored(a.buf, a.buf, new) /\ mb' = [mb EXCEPT ![m].len = a.len - n]
  BY DEF mbuf_remove, CanRemove
<1>2. /\ c \in Seq(Byte) /\ Len(c) = a.len /\ blk \in Seq(Byte) /\ a.len <= Len(blk)
      /\ a.len \in Nat /\ Len(blk) = a.size /\ Strings[m] = c
      /\ \A k \in 1 .. a.len : c[k] = blk[k]
  BY ContentType DEF MemInv, SizeIsBlock
<1> HIDE DEF a, c, blk
<1>3. a.len - n \in Nat /\ n + (a.len - n) <= Len(blk) /\ a.len - n <= Len(blk) /\ 0 \in Nat
  BY <1>1, <1>2
<1>4. new \in Seq(Byte) /\ Len(new) = Len(blk)
  BY <1>2, <1>3, MemmoveType
<1>5. \A k \in 1 .. a.len - n : new[k] = blk[k + n]
  <2> SUFFICES ASSUME NEW k \in 1 .. a.len - n PROVE new[k] = blk[k + n]
    OBVIOUS
  <2>1. k \in 1 .. Len(blk) /\ k \in 0 + 1 .. 0 + (a.len - n) /\ k - 0 + n = k + n
    BY <1>3
  <2> QED BY <2>1 DEF memmove
<1> HIDE DEF new
<1>6. Strings' = [Strings EXCEPT ![m] = t]
  <2>1. a.len - n \in 0 .. Len(new)
    BY <1>3, <1>4
  <2>2. Len(new) = a.size
    BY <1>2, <1>4
  <2> QED BY <1>1, <1>4, <2>1, <2>2, RewriteContent DEF a
<1> DEFINE u == SubSeq(c, n + 1, Len(c))
<1>7. /\ u \in Seq(Byte) /\ Len(u) = a.len - n
      /\ \A k \in 1 .. a.len - n : u[k] = c[k + n]
  BY <1>1, <1>2
<1>8. t \in [1 .. a.len - n -> Byte]
  BY <1>3, <1>4
<1> HIDE DEF t, u
<1>9. t \in Seq(Byte) /\ Len(t) = a.len - n
  BY <1>3, <1>8, TupleIsSeq, Zenon
<1>10. ASSUME NEW k \in 1 .. Len(t) PROVE t[k] = u[k]
  <2>1. k \in 1 .. a.len - n /\ k + n \in 1 .. a.len
    BY <1>2, <1>3, <1>9
  <2>2. t[k] = new[k]
    BY <2>1 DEF t
  <2>3. new[k] = blk[k + n] /\ blk[k + n] = c[k + n] /\ u[k] = c[k + n]
    BY <1>2, <1>5, <1>7, <2>1
  <2> QED BY <2>2, <2>3
<1>11. t = u
  BY <1>7, <1>9, <1>10, SameString
<1>12. n \in 0 .. Len(Strings[m])
  BY <1>1, <1>2
<1> QED BY <1>1, <1>2, <1>6, <1>11, <1>12, CutStep DEF u

\* mbuf_move.
LEMMA MoveIsHandOn ==
  ASSUME MemInv, NEW from \in Bufs, NEW to \in Bufs, mbuf_move(from, to)
  PROVE  String!HandOn(from, to)
<1>1. /\ from # to /\ heap' = heap /\ ret' = ret
      /\ mb'[to] = mb[from] /\ mb'[from] = Empty
      /\ \A k \in Bufs : k # from /\ k # to => mb'[k] = mb[k]
  BY DEF mbuf_move, MemInv, TypeOK
<1>2. Content(to)' = Content(from)
  BY <1>1 DEF Content, Bytes
<1>3. Content(from)' = <<>>
  <2>1. mb'[from].len = 0
    BY <1>1 DEF Empty
  <2> QED BY <2>1 DEF Content
<1>4. \A k \in Bufs : k # from /\ k # to => Content(k)' = Content(k)
  BY <1>1 DEF Content, Bytes
<1>5. Strings' = [Strings EXCEPT ![to] = Strings[from], ![from] = <<>>]
  BY <1>1, <1>2, <1>3, <1>4 DEF Strings
<1> QED BY <1>1, <1>5, HandOnStep

\* mbuf_insert: what is inserted with d == NULL is whatever the block held.
LEMMA InsertIsInsert ==
  ASSUME MemInv, NEW m \in Bufs, NEW off \in 0 .. mb[m].len, NEW n \in 0 .. MaxInput,
         NEW d \in Seq(Byte), Len(d) = n \/ d = <<>>, mbuf_insert(m, off, n, d)
  PROVE  /\ off \in 0 .. Len(Strings[m])
         /\ \E e \in Input : (Len(d) = n => e = d) /\ String!Insert(m, off, e)
<1>1. /\ mb[m].len \in Nat /\ off \in Nat /\ n \in Nat
      /\ Strings[m] = Content(m) /\ Len(Content(m)) = mb[m].len
  <2>1. mb[m].len \in Nat /\ Strings[m] = Content(m) /\ Len(Content(m)) = mb[m].len
    BY ContentType
  <2> QED BY <2>1, SizeAssumption
<1>2. off \in 0 .. Len(Strings[m])
  BY <1>1
<1>3. CASE Adds(m, off, n, d) /\ ret' = n
  <2>1. PICK e \in [1 .. n -> Byte] :
          /\ Len(d) = n => e = d
          /\ Strings' = [Strings EXCEPT ![m] = String!Inserted(Content(m), off, e)]
    BY <1>1, <1>3, AddsContent
  <2>2. e \in Input
    BY DEF Input
  <2>3. Len(e) = n
    BY <1>1, TupleIsSeq
  <2>4. String!Insert(m, off, e)
    BY <1>1, <1>2, <1>3, <2>1, <2>2, <2>3, InsertStep
  <2> QED BY <1>2, <2>1, <2>2, <2>4
<1>4. CASE AddsNothing(m, n) /\ ret' = 0
  <2>1. Strings' = Strings
    BY <1>4 DEF AddsNothing, Strings, Content, Bytes
  <2>2. PICK e \in Input : Len(d) = n => e = d
    <3>1. <<>> \in [1 .. 0 -> Byte] /\ 0 \in 0 .. MaxInput
      BY SizeAssumption
    <3>2. Len(d) = n => d \in [1 .. n -> Byte]
      OBVIOUS
    <3> QED BY <3>1, <3>2 DEF Input
  <2>3. String!Insert(m, off, e)
    BY <1>2, <1>4, <2>1, InsertStep
  <2> QED BY <1>2, <2>2, <2>3
<1> QED BY <1>3, <1>4 DEF mbuf_insert

LEMMA InputLength == \A d \in Input : d \in Seq(Byte) /\ Len(d) \in 0 .. MaxInput
<1> SUFFICES ASSUME NEW d \in Input PROVE d \in Seq(Byte) /\ Len(d) \in 0 .. MaxInput
  OBVIOUS
<1>1. PICK n \in 0 .. MaxInput : d \in [1 .. n -> Byte]
  BY DEF Input
<1> QED BY <1>1, SizeAssumption, TupleIsSeq

LEMMA AppendIsInsert ==
  ASSUME MemInv, NEW m \in Bufs, NEW d \in Input, mbuf_append(m, d)
  PROVE  mb[m].len \in 0 .. Len(Strings[m]) /\ String!Insert(m, mb[m].len, d)
<1>1. d \in Seq(Byte) /\ Len(d) \in 0 .. MaxInput
  BY InputLength
<1>2. mb[m].len \in 0 .. mb[m].len
  BY DEF MemInv, TypeOK
<1> QED BY <1>1, <1>2, InsertIsInsert DEF mbuf_append

\* The block taken over holds what would have been appended to nothing.
LEMMA TakeOverIsInsert ==
  ASSUME MemInv, NEW m \in Bufs, NEW d \in Input, mbuf_append_and_free(m, d)
  PROVE  mb[m].len \in 0 .. Len(Strings[m]) /\ String!Insert(m, mb[m].len, d)
<1>1. d \in Seq(Byte) /\ Len(d) \in Nat
  BY InputIsSeq
<1>2. CASE mb[m].len = 0
  <2>1. PICK q \in Blocks \ live : TakeOver(m, d, q) /\ ret' = Len(d)
    BY <1>2 DEF mbuf_append_and_free
  <2>2. q \in ReallocTo(mb[m].buf) /\ Len(d) \in 0 .. Len(d)
    BY <1>1, NullAssumption DEF ReallocTo
  <2>3. Strings' = [Strings EXCEPT ![m] = [k \in 1 .. Len(d) |-> d[k]]]
    BY <1>1, <2>1, <2>2, ReplaceContent DEF TakeOver
  <2>4. [k \in 1 .. Len(d) |-> d[k]] = d
    BY <1>1
  <2>5. Strings[m] \in Seq(Byte) /\ Len(Strings[m]) = 0
    BY <1>2, ContentType
  <2>6. String!Inserted(Strings[m], 0, d) = d
    <3> DEFINE c == Strings[m]
    <3> HIDE DEF c
    <3>1. c \in Seq(Byte) /\ Len(c) = 0
      BY <2>5 DEF c
    <3>2. SubSeq(c, 1, 0) = <<>> /\ SubSeq(c, 0 + 1, Len(c)) = <<>>
      BY <3>1
    <3>3. (<<>> \o d) \o <<>> = d
      BY <1>1
    <3>4. String!Inserted(c, 0, d) = d
      BY <3>2, <3>3 DEF String!Inserted
    <3> QED BY <3>4 DEF c
  <2>7. 0 \in 0 .. Len(Strings[m])
    BY <2>5
  <2>8. String!Insert(m, 0, d)
    BY <2>1, <2>3, <2>4, <2>6, <2>7, InsertStep
  <2> QED BY <1>2, <2>7, <2>8
<1>3. CASE mb[m].len # 0
  BY <1>3, AppendIsInsert DEF mbuf_append_and_free
<1> QED BY <1>2, <1>3

\* mbuf_printf appends its text or, without memory, drops it unnoticed.
LEMMA PrintfIsPrint ==
  ASSUME MemInv, NEW m \in Bufs, NEW d \in Input, mbuf_printf(m, d)
  PROVE  String!PrintTo(m, d)
<1>1. d \in Seq(Byte) /\ Len(d) \in Nat
  BY InputIsSeq
<1>2. /\ mb[m].len \in Nat /\ Strings[m] = Content(m)
      /\ Content(m) \in Seq(Byte) /\ Len(Content(m)) = mb[m].len
  BY ContentType
<1>3. CASE Adds(m, mb[m].len, Len(d), d) /\ ret' = Len(d)
  <2>1. Strings' = [Strings EXCEPT ![m] = String!Inserted(Content(m), mb[m].len, d)]
    BY <1>1, <1>2, <1>3, AddsContent
  <2> DEFINE c == Content(m)
  <2>2. c \in Seq(Byte)
    BY <1>2
  <2>3. String!Inserted(Content(m), mb[m].len, d) = c \o d
    <3> HIDE DEF c
    <3>1. SubSeq(c, 1, Len(c)) = c /\ SubSeq(c, Len(c) + 1, Len(c)) = <<>>
      BY <2>2
    <3>2. (c \o d) \o <<>> = c \o d
      BY <1>1, <2>2
    <3>3. String!Inserted(c, Len(c), d) = c \o d
      BY <3>1, <3>2 DEF String!Inserted
    <3> QED BY <1>2, <3>3 DEF c
  <2> QED BY <1>2, <1>3, <2>1, <2>3, PrintStep
<1>4. CASE UNCHANGED <<mb, live, heap>> /\ ret' \in {Len(d), -1}
  <2>1. Strings' = Strings
    BY <1>4 DEF Strings, Content, Bytes
  <2> QED BY <1>4, <2>1, PrintStep
<1> QED BY <1>3, <1>4 DEF mbuf_printf, AddsNothing

-----------------------------------------------------------------------------
LEMMA InitIsString == Init => String!BSInit
<1> SUFFICES ASSUME Init PROVE String!BSInit
  OBVIOUS
<1>1. \A m \in Bufs : mb[m].len = 0
  BY DEF Init, Empty
<1>2. ASSUME NEW m \in Bufs PROVE Content(m) = <<>>
  <2>1. Content(m) = [k \in 1 .. 0 |-> Bytes(mb[m].buf)[k]]
    BY <1>1 DEF Content
  <2> QED BY <2>1
<1> QED BY <1>2 DEF Init, String!BSInit

\* The abstract steps are steps of the abstract specification.
LEMMA InsertIsNext ==
  ASSUME NEW m \in Bufs, NEW off \in 0 .. Len(Strings[m]), NEW d \in Input,
         String!Insert(m, off, d)
  PROVE  String!BSNext
<1>1. d \in String!Input
  BY DEF Input, String!Input
<1> QED BY <1>1 DEF Strings, String!BSNext

LEMMA PrintIsNext ==
  ASSUME NEW m \in Bufs, NEW d \in Input, String!PrintTo(m, d)
  PROVE  String!BSNext
<1>1. d \in String!Input
  BY DEF Input, String!Input
<1> QED BY <1>1 DEF String!BSNext

LEMMA CutIsNext ==
  ASSUME NEW m \in Bufs, NEW n, String!Cut(m, n)
  PROVE  String!BSNext
<1>1. n \in 0 .. Len(Strings[m])
  BY DEF Strings, String!Cut
<1> QED BY <1>1 DEF Strings, String!BSNext

\* Every call of mbuf.c is a step of the byte string, or invisible.
LEMMA NextIsString == MemInv /\ [Next]_vars => [String!BSNext]_(String!bsVars)
<1> SUFFICES ASSUME MemInv, [Next]_vars PROVE String!BSNext \/ UNCHANGED String!bsVars
  OBVIOUS
<1>1. ASSUME NEW m \in Bufs, NEW n \in 0 .. MaxSize,
             mbuf_init(m, n) \/ mbuf_resize(m, n) \/ mbuf_remove(m, n)
      PROVE  String!BSNext \/ UNCHANGED String!bsVars
  <2>1. n \in Nat
    BY SizeAssumption
  <2>2. CASE mbuf_init(m, n)
    BY <2>1, <2>2, NullIsEmpty, ResizeIsStutter, StutterStep DEF mbuf_init
  <2>3. CASE mbuf_resize(m, n)
    BY <2>1, <2>3, ResizeIsStutter, StutterStep DEF mbuf_resize
  <2>4. CASE mbuf_remove(m, n)
    BY <2>1, <2>4, RemoveIsCut, CutIsNext
  <2> QED BY <1>1, <2>2, <2>3, <2>4
<1>2. ASSUME NEW m \in Bufs, mbuf_trim(m) \/ mbuf_free(m) \/ mbuf_clear(m)
      PROVE  String!BSNext \/ UNCHANGED String!bsVars
  <2>1. mb[m].len \in Nat
    BY DEF MemInv, TypeOK
  <2>2. CASE mbuf_trim(m)
    BY <2>1, <2>2, ResizeIsStutter, StutterStep DEF mbuf_trim
  <2> QED BY <1>2, <2>2, EmptyingIsCut, CutIsNext
<1>3. ASSUME NEW m \in Bufs, NEW d \in Input,
             \/ mbuf_append(m, d) \/ mbuf_append_and_free(m, d) \/ mbuf_printf(m, d)
             \/ \E off \in 0 .. mb[m].len : mbuf_insert(m, off, Len(d), d)
      PROVE  String!BSNext
  <2>1. d \in Seq(Byte) /\ Len(d) \in 0 .. MaxInput
    BY InputLength
  <2>2. CASE \E off \in 0 .. mb[m].len : mbuf_insert(m, off, Len(d), d)
    BY <2>1, <2>2, InsertIsInsert, InsertIsNext
  <2>3. CASE mbuf_append(m, d) \/ mbuf_append_and_free(m, d)
    BY <2>3, AppendIsInsert, TakeOverIsInsert, InsertIsNext
  <2>4. CASE mbuf_printf(m, d)
    BY <2>4, PrintfIsPrint, PrintIsNext
  <2> QED BY <1>3, <2>2, <2>3, <2>4
<1>4. ASSUME NEW m \in Bufs, NEW n \in 0 .. MaxInput, NEW off \in 0 .. mb[m].len,
             mbuf_insert(m, off, n, <<>>)
      PROVE  String!BSNext
  <2>1. <<>> \in Seq(Byte)
    OBVIOUS
  <2> QED BY <1>4, <2>1, InsertIsInsert, InsertIsNext
<1>5. ASSUME NEW from \in Bufs, NEW to \in Bufs, mbuf_move(from, to) PROVE String!BSNext
  BY <1>5, MoveIsHandOn DEF String!BSNext
<1>6. CASE UNCHANGED vars
  <2>1. Strings' = Strings /\ ret' = ret
    BY <1>6 DEF vars, Strings, Content, Bytes
  <2> QED BY <2>1, StutterStep
<1> QED BY <1>1, <1>2, <1>3, <1>4, <1>5, <1>6 DEF Next

\* An mbuf is a string of bytes, whatever happens to it in memory: every call
\* of mbuf.c does to the contents what the abstract specification says, or
\* leaves them and the last result alone.
THEOREM MbufIsString == Spec => ImplementsByteString
<1>1. Spec => []MemInv
  BY InitMemInv, NextMemInv, PTL DEF Spec
<1>2. Init => String!BSInit
  BY InitIsString
<1>3. MemInv /\ [Next]_vars => [String!BSNext]_(String!bsVars)
  BY NextIsString
<1> QED BY <1>1, <1>2, <1>3, PTL DEF Spec, ImplementsByteString, String!BSSpec

\* What a call does to the contents is what its name and its arguments say, for
\* every call, state of the heap and outcome of realloc.
THEOREM CallsAreTheirOwn == Spec => CallsDoAsAsked
<1> DEFINE Asked ==
      \A m \in Bufs :
       /\ \A d \in Input \ {<<>>} :
            ret' = Len(d) =>
              /\ mbuf_append(m, d) \/ mbuf_append_and_free(m, d)
                   => String!Insert(m, mb[m].len, d)
              /\ mbuf_printf(m, d) => String!PrintTo(m, d)
              /\ \A off \in 0 .. mb[m].len :
                   mbuf_insert(m, off, Len(d), d) => String!Insert(m, off, d)
       /\ \A n \in 0 .. MaxSize :
            /\ mbuf_remove(m, n) => String!Cut(m, n)
            /\ mbuf_init(m, n) \/ mbuf_resize(m, n) => UNCHANGED String!bsVars
       /\ mbuf_free(m) \/ mbuf_clear(m) => String!Cut(m, mb[m].len)
       /\ mbuf_trim(m) => UNCHANGED String!bsVars
       /\ \A to \in Bufs : mbuf_move(m, to) => String!HandOn(m, to)
<1>1. Spec => []MemInv
  BY InitMemInv, NextMemInv, PTL DEF Spec
<1>2. MemInv => Asked
  <2> SUFFICES ASSUME MemInv PROVE Asked
    OBVIOUS
  <2>1. ASSUME NEW m \in Bufs, NEW d \in Input
        PROVE  /\ mbuf_append(m, d) \/ mbuf_append_and_free(m, d)
                    => String!Insert(m, mb[m].len, d)
               /\ mbuf_printf(m, d) => String!PrintTo(m, d)
    BY AppendIsInsert, TakeOverIsInsert, PrintfIsPrint
  <2>2. ASSUME NEW m \in Bufs, NEW d \in Input, NEW off \in 0 .. mb[m].len,
               mbuf_insert(m, off, Len(d), d)
        PROVE  String!Insert(m, off, d)
    <3>1. d \in Seq(Byte) /\ Len(d) \in 0 .. MaxInput
      BY InputLength
    <3>2. \E e \in Input : (Len(d) = Len(d) => e = d) /\ String!Insert(m, off, e)
      BY <2>2, <3>1, InsertIsInsert
    <3> QED BY <3>2
  <2>3. ASSUME NEW m \in Bufs, NEW n \in 0 .. MaxSize
        PROVE  /\ mbuf_remove(m, n) => String!Cut(m, n)
               /\ mbuf_init(m, n) \/ mbuf_resize(m, n) => UNCHANGED String!bsVars
    <3>1. n \in Nat
      BY SizeAssumption
    <3>2. mbuf_init(m, n) => mb[m] = Empty /\ Resize(m, mb[m], n) /\ ret' = ret
      BY NullIsEmpty DEF mbuf_init
    <3>3. mbuf_resize(m, n) => Resize(m, mb[m], n) /\ ret' = ret
      BY DEF mbuf_resize
    <3> QED BY <3>1, <3>2, <3>3, RemoveIsCut, ResizeIsStutter, StutterStep
  <2>4. ASSUME NEW m \in Bufs
        PROVE  /\ mbuf_free(m) \/ mbuf_clear(m) => String!Cut(m, mb[m].len)
               /\ mbuf_trim(m) => UNCHANGED String!bsVars
    <3>1. mb[m].len \in Nat
      BY DEF MemInv, TypeOK
    <3> QED BY <3>1, EmptyingIsCut, ResizeIsStutter, StutterStep DEF mbuf_trim
  <2> QED BY <2>1, <2>2, <2>3, <2>4, MoveIsHandOn
<1>3. MemInv => [Asked]_vars
  BY <1>2
<1> QED BY <1>1, <1>3, PTL DEF Spec, CallsDoAsAsked
=============================================================================
