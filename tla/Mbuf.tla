-------------------------------- MODULE Mbuf --------------------------------
(***************************************************************************)
(* The growable byte buffer of common_utils/mbuf.c, with the memory it     *)
(* works on: every mbuf points to a block of the heap, and insertion,      *)
(* removal and growth move bytes inside blocks and between them.           *)
(*                                                                         *)
(* The heap is external: realloc() may fail at any time, leave a block     *)
(* where it is or move it; new memory holds junk.                          *)
(*                                                                         *)
(* Callers keep to what the code takes for granted: mbuf_init and the      *)
(* target of mbuf_move are given an mbuf that owns no block, and the data  *)
(* passed to mbuf_append_and_free is a block of its own.                   *)
(* mbuf_printf does not look at what malloc() returns for a long text: the *)
(* program does not survive that failure, and nothing is said about it.    *)
(***************************************************************************)
EXTENDS Integers, Sequences

CONSTANTS
  Bufs,      \* the mbufs of the program
  Byte,      \* what a byte can hold
  junk,      \* the byte that stands for memory nobody has written
  Blocks,    \* addresses of blocks of the heap
  NULL,      \* the NULL pointer
  MaxSize,   \* bound: bytes of a block
  MaxInput,  \* bound: bytes added by one call
  Headroom   \* MBUF_SIZE_MAX_HEADROOM

ASSUME SizeAssumption == /\ MaxSize \in Nat
                         /\ MaxInput \in Nat
                         /\ Headroom \in Nat
ASSUME JunkAssumption == junk \in Byte
ASSUME NullAssumption == NULL \notin Blocks

VARIABLES
  mb,    \* the struct mbuf: buf, len, size
  live,  \* the blocks that are allocated
  heap,  \* their bytes, none in a block that is not allocated
  ret    \* what the last call that adds bytes returned, -1 for an error

vars == <<mb, live, heap, ret>>

Empty == [buf |-> NULL, len |-> 0, size |-> 0]

\* Every mbuf has been initialised with size 0.
Init == /\ mb = [m \in Bufs |-> Empty]
        /\ live = {} /\ heap = [b \in Blocks |-> <<>>] /\ ret = 0

-----------------------------------------------------------------------------
\* realloc(p, n) of n > 0 bytes, when it succeeds: the addresses it can return
\* and the bytes found there.
ReallocTo(p) == ((Blocks \ live) \cup {p}) \ {NULL}

Bytes(p) == IF p = NULL THEN <<>> ELSE heap[p]

Realloced(p, n) == [k \in 1 .. n |-> IF k <= Len(Bytes(p)) THEN Bytes(p)[k] ELSE junk]

\* The bytes of the heap when block r, which takes the place of p, holds blk.
Stored(p, r, blk) ==
  [b \in Blocks |-> IF b = r THEN blk ELSE IF b = p THEN <<>> ELSE heap[b]]

\* memmove(blk + dst, blk + src, n)
memmove(blk, dst, src, n) ==
  [k \in 1 .. Len(blk) |-> IF k \in dst + 1 .. dst + n THEN blk[k - dst + src] ELSE blk[k]]

\* memcpy(blk + dst, d, Len(d))
memcpy(blk, dst, d) ==
  [k \in 1 .. Len(blk) |-> IF k \in dst + 1 .. dst + Len(d) THEN d[k - dst] ELSE blk[k]]

-----------------------------------------------------------------------------
\* mbuf_resize(a, n) for the mbuf m, whose fields are a. realloc(buf, 0) frees
\* the block and returns NULL.
Resize(m, a, n) ==
  \/ /\ n > a.size \/ (n < a.size /\ n >= a.len)
     /\ n # 0 /\ n <= MaxSize
     /\ \E r \in ReallocTo(a.buf) :
          /\ mb' = [mb EXCEPT ![m] = [buf |-> r, len |-> a.len, size |-> n]]
          /\ live' = (live \ {a.buf}) \cup {r}
          /\ heap' = Stored(a.buf, r, Realloced(a.buf, n))
  \/ /\ n = 0 /\ n < a.size /\ n >= a.len
     /\ live' = live \ {a.buf}
     /\ heap' = Stored(a.buf, NULL, <<>>)
     /\ mb' = [mb EXCEPT ![m] = Empty]

mbuf_resize(m, n) == Resize(m, mb[m], n) /\ UNCHANGED ret

mbuf_trim(m) == Resize(m, mb[m], mb[m].len) /\ UNCHANGED ret

mbuf_init(m, n) == mb[m].buf = NULL /\ Resize(m, Empty, n) /\ UNCHANGED ret

mbuf_free(m) ==
  /\ mb[m].buf # NULL
  /\ live' = live \ {mb[m].buf}
  /\ heap' = Stored(mb[m].buf, NULL, <<>>)
  /\ mb' = [mb EXCEPT ![m] = Empty]
  /\ UNCHANGED ret

\* Mutant: the room is taken for one byte larger than it is.
FitsTooMuch(a, n) == a.len + n <= a.size + 1

\* The new bytes fit into the block.
Fits(a, n) == a.len + n <= a.size

\* The sizes mbuf_insert tries: half as much again, the surplus capped, and,
\* if that cannot be had, no more than what is needed.
NewSizes(a, n) ==
  LET min == a.len + n
      new == (3 * min) \div 2
  IN {IF new - min > Headroom THEN min + Headroom ELSE new, min}

\* Mutant: the last byte behind the gap is forgotten.
OpenedShort(blk, a, off, n) == memmove(blk, off + n, off, a.len - off - 1)

\* The gap of n bytes that is opened at off.
Opened(blk, a, off, n) == memmove(blk, off + n, off, a.len - off)

\* mbuf_insert(m, off, d, n) adds n bytes: those of d, or, with d == NULL
\* (<<>> here), whatever is in memory there.
Adds(m, off, n, d) ==
  LET a == mb[m]
      put(blk) == memcpy(Opened(blk, a, off, n), off, d)
  IN /\ off <= a.len
     /\ \/ /\ Fits(a, n)
           /\ mb' = [mb EXCEPT ![m].len = a.len + n]
           /\ heap' = Stored(a.buf, a.buf, put(Bytes(a.buf)))
           /\ UNCHANGED live
        \/ /\ ~Fits(a, n)
           /\ \E size \in NewSizes(a, n), r \in ReallocTo(a.buf) :
                /\ size <= MaxSize
                /\ mb' = [mb EXCEPT ![m] = [buf |-> r, len |-> a.len + n, size |-> size]]
                /\ live' = (live \ {a.buf}) \cup {r}
                /\ heap' = Stored(a.buf, r, put(Realloced(a.buf, size)))

\* Both calls of realloc have failed.
AddsNothing(m, n) == ~Fits(mb[m], n) /\ UNCHANGED <<mb, live, heap>>

mbuf_insert(m, off, n, d) ==
  \/ ret' = n /\ Adds(m, off, n, d)
  \/ ret' = 0 /\ AddsNothing(m, n)

\* Mutant: the bytes are put in front.
AppendedInFront(m, d) == mbuf_insert(m, 0, Len(d), d)

mbuf_append(m, d) == mbuf_insert(m, mb[m].len, Len(d), d)

\* Mutant: the block that is replaced is not freed.
TakeOverLeaks(m, d, q) ==
  /\ live' = live \cup {q}
  /\ heap' = Stored(mb[m].buf, q, d)
  /\ mb' = [mb EXCEPT ![m] = [buf |-> q, len |-> Len(d), size |-> Len(d)]]

\* "take over the user-provided buffer", the block q.
TakeOver(m, d, q) ==
  /\ mb' = [mb EXCEPT ![m] = [buf |-> q, len |-> Len(d), size |-> Len(d)]]
  /\ live' = (live \ {mb[m].buf}) \cup {q}
  /\ heap' = Stored(mb[m].buf, q, d)

\* The user's block d lives up to this call only.
mbuf_append_and_free(m, d) ==
  \/ /\ mb[m].len = 0
     /\ ret' = Len(d)
     /\ \E q \in Blocks \ live : TakeOver(m, d, q)
  \/ mb[m].len # 0 /\ mbuf_append(m, d)

CanRemove(a, n) == n > 0 /\ n <= a.len

mbuf_remove(m, n) ==
  LET a == mb[m]
  IN /\ CanRemove(a, n)
     /\ mb' = [mb EXCEPT ![m].len = a.len - n]
     /\ heap' = Stored(a.buf, a.buf, memmove(Bytes(a.buf), 0, n, a.len - n))
     /\ UNCHANGED <<live, ret>>

mbuf_clear(m) == /\ mb' = [mb EXCEPT ![m].len = 0]
                 /\ UNCHANGED <<live, heap, ret>>

mbuf_move(from, to) ==
  /\ from # to /\ mb[to].buf = NULL
  /\ mb' = [mb EXCEPT ![to] = mb[from], ![from] = Empty]
  /\ UNCHANGED <<live, heap, ret>>

\* The text is formatted on the stack or in a block that is freed again; its
\* length is returned whether or not it could be appended. A text vsnprintf
\* cannot format is not appended.
mbuf_printf(m, d) ==
  \/ /\ ret' = Len(d)
     /\ \/ Len(d) > 0 /\ (Adds(m, mb[m].len, Len(d), d) \/ AddsNothing(m, Len(d)))
        \/ Len(d) = 0 /\ UNCHANGED <<mb, live, heap>>
  \/ ret' = -1 /\ UNCHANGED <<mb, live, heap>>

-----------------------------------------------------------------------------
Input == UNION {[1 .. n -> Byte] : n \in 0 .. MaxInput}

Next ==
  \/ \E m \in Bufs, n \in 0 .. MaxSize :
       mbuf_init(m, n) \/ mbuf_resize(m, n) \/ mbuf_remove(m, n)
  \/ \E m \in Bufs : mbuf_trim(m) \/ mbuf_free(m) \/ mbuf_clear(m)
  \/ \E m \in Bufs, d \in Input :
       \/ mbuf_append(m, d) \/ mbuf_append_and_free(m, d) \/ mbuf_printf(m, d)
       \/ \E off \in 0 .. mb[m].len : mbuf_insert(m, off, Len(d), d)
  \/ \E m \in Bufs, n \in 0 .. MaxInput :
       \E off \in 0 .. mb[m].len : mbuf_insert(m, off, n, <<>>)
  \/ \E from, to \in Bufs : mbuf_move(from, to)

Spec == Init /\ [][Next]_vars

-----------------------------------------------------------------------------
\* The fields of an mbuf are a block or NULL and natural numbers.
TypeOK ==
  /\ mb \in [Bufs -> [buf : Blocks \cup {NULL}, len : Nat, size : Nat]]
  /\ live \subseteq Blocks
  /\ heap \in [Blocks -> Seq(Byte)]
  /\ ret \in Nat \cup {-1}

\* What memmove, memcpy and the next insertion rely on: the contents lie
\* within the size, and the size is that of the block, after every sequence of
\* growths, take-overs, trims and failed allocations.
SizeIsBlock ==
  \A m \in Bufs : /\ mb[m].len <= mb[m].size
                  /\ mb[m].size = Len(Bytes(mb[m].buf))

\* Every allocated block belongs to exactly one mbuf, and every mbuf's block is
\* allocated: nothing is leaked, shared, freed twice or used after free.
BlocksOwned ==
  /\ \A m \in Bufs : mb[m].buf \in live \cup {NULL}
  /\ \A m, k \in Bufs : m # k /\ mb[m].buf = mb[k].buf => mb[m].buf = NULL
  /\ \A b \in live : \E m \in Bufs : mb[m].buf = b

\* The first len bytes of the block.
Content(m) == [k \in 1 .. mb[m].len |-> Bytes(mb[m].buf)[k]]

String == INSTANCE ByteString WITH content <- [m \in Bufs |-> Content(m)]

\* An mbuf is a string of bytes: inserting, removing, moving and printing do to
\* the contents what they say, wherever the bytes are in memory, and an
\* insertion for which there is no memory leaves them as they are.
ImplementsByteString == String!BSSpec

\* Each call does what its own name and arguments say, and not merely something
\* another call may do: the bytes it reports as added have gone in at the offset
\* that was asked for and into that mbuf only, the bytes removed are the first n,
\* and a change of the size, which may move the block, does not show.
CallsDoAsAsked ==
  [][\A m \in Bufs :
       /\ \A d \in Input \ {<<>>} :
            ret' = Len(d) =>
              /\ mbuf_append(m, d) \/ mbuf_append_and_free(m, d)
                   => String!Insert(m, mb[m].len, d)
              /\ mbuf_printf(m, d) => String!PrintTo(m, d)
              /\ \A off \in 0 .. mb[m].len :
                   mbuf_insert(m, off, Len(d), d) => String!Insert(m, off, d)
       /\ \A n \in 0 .. MaxSize :
            /\ mbuf_remove(m, n) => String!Cut(m, n)
            /\ mbuf_init(m, n) \/ mbuf_resize(m, n) => UNCHANGED String!bsVars
       /\ mbuf_free(m) \/ mbuf_clear(m) => String!Cut(m, mb[m].len)
       /\ mbuf_trim(m) => UNCHANGED String!bsVars
       /\ \A to \in Bufs : mbuf_move(m, to) => String!HandOn(m, to)]_vars
=============================================================================
