------------------------------- MODULE FileDB -------------------------------
(***************************************************************************)
(* sdb_test/filedb.c: a B-tree of keys and the blocks with their values in *)
(* one file. The file is its head and a sequence of blocks, the first of   *)
(* which is the root; db is the copy of the head that the handle keeps.    *)
(* A key block has `ents`, keys with the place of their value, and one     *)
(* child more than entries (0 in a leaf); a value block has the values in  *)
(* the order they came and counts those that are still referred to; a      *)
(* block that is not in use keeps nothing but the link of the free list.   *)
(*                                                                         *)
(* An action is the start of a call or one turn of its loop, which goes    *)
(* down one level of the tree. A turn works on copies of blocks and writes *)
(* them back one after the other; the program may end between any two of   *)
(* the writes, and the file then holds those before.                       *)
(*                                                                         *)
(* The order of the file's pwrites is kept by the kernel when the program  *)
(* ends; one pwrite is taken as a whole, but for the block that no longer  *)
(* fits on the disk. Keys are those of the program, DB_INT32KEY, and their *)
(* differences fit an int (the comparison subtracts them). The other types *)
(* compare in another way and have a length that is tested first.          *)
(***************************************************************************)
EXTENDS Integers, SequencesExt, TLC

CONSTANTS
  Setups,     \* what a program can be like: see Init
  Size,       \* the space that each value takes in a block
  BlockSpace, \* the space in a value block
  Keys,       \* all keys
  MaxCrashes  \* bound: how often the program ends in the middle of a call

Values == DOMAIN Size

ASSUME SetupAssumption ==
  /\ Setups \subseteq [M : Nat, seed : Seq(Keys), keys : SUBSET Keys, calls : Nat]
  /\ \A s \in Setups : s.M >= 4
  /\ Keys \subseteq Int
  /\ BlockSpace \in Nat
  /\ \A v \in Values : Size[v] \in Nat

VARIABLES
  setup,    \* M, the keys to insert first, the keys used later, and the bound
            \* on the number of later calls
  file,     \* whether it is there, its head and blocks, and whether there is
            \* a piece of a block at the end
  db,       \* the handle: the head in memory, or NoHandle
  op,       \* the call in progress: its arguments and local variables
  ret,      \* what the last call returned
  calls,    \* the number of calls that change the database
  crashes,  \* the number of crashes
  spilled,  \* history: blocks that a call had got when it failed or was cut
            \* off, and that nothing refers to
  damaged,  \* history: a deletion was cut off between the write that moves
            \* another entry into the place of the one that leaves it, and
            \* the next write
  status,   \* the state of the database: see Status
  found     \* the map that db_search shows: see Found

vars == <<setup, file, db, op, ret, calls, crashes, spilled, damaged, status, found>>

NoHandle == [open |-> FALSE]
M == setup.M

Root == 1

\* The three kinds of blocks.
FreeBlock(n, next) == [self |-> n, kind |-> "free", next |-> next]
KeyBlock(n, leaf, ents, kids) ==
  [self |-> n, kind |-> "key", leaf |-> leaf, ents |-> ents, kids |-> kids]
ValueBlock(n, num, last, vals) ==
  [self |-> n, kind |-> "value", num |-> num, last |-> last, vals |-> vals]

\* What node_create makes of a block.
NewKeyBlock(n, leaf) == KeyBlock(n, leaf, <<>>, <<0>>)
NewValueBlock(n) == ValueBlock(n, 0, 0, <<>>)

\* Key block b with other contents.
Filled(b, ents, kids) == KeyBlock(b.self, b.leaf, ents, kids)

\* An entry of a key block, and the place of its value.
Entry(k, block, slot) == [key |-> k, block |-> block, slot |-> slot]

NewHead == [open |-> TRUE, total |-> 0, keyBlocks |-> 1, valueBlocks |-> 0,
            free |-> 0, current |-> 0]

-----------------------------------------------------------------------------
(* Reading and writing the file.                                           *)

\* An image of the file that the program may leave behind. `moves` marks the
\* one after the write of a key block in which an entry was replaced by one
\* that another block still holds.
Image(f, moves) == [file |-> f, moves |-> moves]

\* A turn works on s: the handle, the file, and all images so far.
Begin == [db |-> db, file |-> file, past |-> {Image(file, FALSE)}]

Saved(s, f, moves) == [db |-> s.db, file |-> f, past |-> s.past \cup {Image(f, moves)}]

WithDb(s, d) == [db |-> d, file |-> s.file, past |-> s.past]

head_flush(s) == Saved(s, [s.file EXCEPT !.head = s.db], FALSE)

Put(s, b, moves) ==
  LET all == s.file.blocks
  IN  Saved(s, [s.file EXCEPT !.blocks = IF b.self <= Len(all) THEN [all EXCEPT ![b.self] = b]
                                                              ELSE Append(all, b)], moves)

node_flush(s, b) == Put(s, b, FALSE)

\* The block that node_create gets: the first free one, or one at the end.
NextBlock(s) == IF s.db.free # 0 THEN s.db.free ELSE Len(s.file.blocks) + 1

\* The handle that counts block b.
CountedIn(d, b) ==
  IF b.kind = "key" THEN [d EXCEPT !.keyBlocks = @ + 1]
                    ELSE [d EXCEPT !.valueBlocks = @ + 1, !.current = b.self]

node_create(s, b) ==
  LET got == IF s.db.free # 0
               THEN WithDb(s, [s.db EXCEPT !.free = s.file.blocks[s.db.free].next])
               ELSE node_flush(s, FreeBlock(b.self, 0))
  IN  node_flush(head_flush(WithDb(got, CountedIn(got.db, b))), b)

\* node_create on a full disk: a piece of the block is written and cut off.
NoRoom(s) == Saved(Saved(s, [s.file EXCEPT !.piece = TRUE], FALSE), s.file, FALSE)

CountedOut(d, b) ==
  IF b.kind = "key" THEN [d EXCEPT !.keyBlocks = @ - 1] ELSE [d EXCEPT !.valueBlocks = @ - 1]

\* Mutant: the head is written before it has changed.
DestroyFlushesEarly(s, b) ==
  node_flush(WithDb(head_flush(s), [CountedOut(s.db, b) EXCEPT !.free = b.self]),
             FreeBlock(b.self, s.db.free))

\* The block becomes the first of the free list.
node_destroy(s, b) ==
  node_flush(head_flush(WithDb(s, [CountedOut(s.db, b) EXCEPT !.free = b.self])),
             FreeBlock(b.self, s.db.free))

-----------------------------------------------------------------------------
(* The tree.                                                               *)

ceil(m) == (m - 1) \div 2

\* The bounds <<low, high>> of the search after another turn of its loop;
\* they stay when it ends. Indices count from 0 as in the code.
Mid(r) == r[1] + (r[2] - r[1]) \div 2

Narrowed(ents, k, r) ==
  IF r[1] > r[2] \/ k = ents[Mid(r) + 1].key THEN r
  ELSE IF k > ents[Mid(r) + 1].key THEN <<Mid(r) + 1, r[2]>> ELSE <<r[1], Mid(r) - 1>>

\* The index of the target, or -low - 1.
Where(r) == IF r[1] > r[2] THEN -r[1] - 1 ELSE Mid(r)

key_binary_search(b, k) ==
  LET bounds[i \in 0 .. Len(b.ents)] ==
        IF i = 0 THEN <<0, Len(b.ents) - 1>> ELSE Narrowed(b.ents, k, bounds[i - 1])
  IN  Where(bounds[Len(b.ents)])

\* Mutant: the left half keeps one entry less.
SplitLosesOne(s, b, p, x, y) ==
  LET n == ceil(M)
      up == Filled(b, InsertAt(b.ents, p, x.ents[n + 1]), InsertAt(b.kids, p + 1, y.self))
      left == Filled(x, SubSeq(x.ents, 1, n - 1), SubSeq(x.kids, 1, n))
      right == Filled(y, SubSeq(x.ents, n + 2, Len(x.ents)), SubSeq(x.kids, n + 2, Len(x.kids)))
  IN  node_flush(node_flush(node_flush(s, up), left), right)

\* x is b's child number p. Its entries after the first ceil(M) go to the new
\* child y, the first of them up to b.
btree_split_child(s, b, p, x, y) ==
  LET n == ceil(M)
      up == Filled(b, InsertAt(b.ents, p, x.ents[n + 1]), InsertAt(b.kids, p + 1, y.self))
      left == Filled(x, SubSeq(x.ents, 1, n), SubSeq(x.kids, 1, n + 1))
      right == Filled(y, SubSeq(x.ents, n + 2, Len(x.ents)), SubSeq(x.kids, n + 2, Len(x.kids)))
  IN  node_flush(node_flush(node_flush(s, up), left), right)

\* Children x and y of b, at p and p + 1, and the entry between them become one
\* block; a root that is left without entries takes over its contents.
btree_merge(s, b, p, x, y) ==
  LET all == Filled(x, x.ents \o <<b.ents[p]>> \o y.ents, x.kids \o y.kids)
      rest == Filled(b, RemoveAt(b.ents, p), RemoveAt(b.kids, p + 1))
      t == node_destroy(s, y)
  IN  IF rest.ents # <<>> THEN node_flush(node_flush(t, all), rest)
      ELSE node_flush(node_destroy(t, x), KeyBlock(b.self, all.leaf, all.ents, all.kids))

\* The block in which the loop goes on after it.
MergedInto(b, x) == IF Len(b.ents) > 1 THEN x.self ELSE b.self

-----------------------------------------------------------------------------
(* Searching and checking only read.                                       *)

NotFound == 0
Garbage == -1

\* Block n, and where key k is in it.
Look(blocks, n, k) ==
  [n |-> n, i |-> IF n = 0 \/ blocks[n].kind # "key" THEN 0 ELSE key_binary_search(blocks[n], k)]

\* Where key k is after another turn of the loop.
Deeper(blocks, r, k) == IF r.i >= 0 THEN r ELSE Look(blocks, blocks[r.n].kids[-r.i], k)

\* What is read from place `slot` of block c.
ValueIn(c, slot) == IF c.kind = "value" /\ slot <= Len(c.vals) THEN c.vals[slot] ELSE Garbage

EntryValue(blocks, e) == ValueIn(blocks[e.block], e.slot)

ValueAt(blocks, r) ==
  IF r.n = 0 THEN NotFound
  ELSE IF blocks[r.n].kind = "key" THEN EntryValue(blocks, blocks[r.n].ents[r.i + 1]) ELSE Garbage

\* The value of key k; the caller's buffer is large enough. The search ends at
\* the latest when it has seen as many blocks as there are.
db_search(blocks, k) ==
  LET at[i \in 0 .. Len(blocks)] ==
        IF i = 0 THEN Look(blocks, Root, k) ELSE Deeper(blocks, at[i - 1], k)
  IN  ValueAt(blocks, at[Len(blocks)])

\* What the loop of db_checker adds to a counter for block b.
Counts(b, counter) ==
  CASE counter = "keys" -> IF b.kind = "key" THEN Len(b.ents) ELSE 0
    [] counter = "values" -> IF b.kind = "value" THEN b.num ELSE 0
    [] counter = "keyBlocks" -> IF b.kind = "key" THEN 1 ELSE 0
    [] counter = "valueBlocks" -> IF b.kind = "value" THEN 1 ELSE 0

SumOf(w) ==
  LET sum[i \in 0 .. Len(w)] == IF i = 0 THEN 0 ELSE sum[i - 1] + w[i]
  IN  sum[Len(w)]

Total(blocks, counter) == SumOf([n \in 1 .. Len(blocks) |-> Counts(blocks[n], counter)])

\* What db_open asks of a file: whole blocks in their places, and the counts.
db_checker(f) ==
  /\ Len(f.blocks) >= 1 /\ ~f.piece
  /\ \A n \in 1 .. Len(f.blocks) : f.blocks[n].self = n
  /\ Total(f.blocks, "keys") = Total(f.blocks, "values")
  /\ Total(f.blocks, "keys") = f.head.total
  /\ Total(f.blocks, "keyBlocks") = f.head.keyBlocks
  /\ Total(f.blocks, "valueBlocks") = f.head.valueBlocks

-----------------------------------------------------------------------------
(* How a database stands.                                                  *)

\* No file, and what db_create makes: a head and an empty root.
NoFile == [there |-> FALSE, head |-> NoHandle, blocks |-> <<>>, piece |-> FALSE]
NewFile == [there |-> TRUE, head |-> NewHead, blocks |-> <<NewKeyBlock(Root, TRUE)>>,
            piece |-> FALSE]

\* The blocks of the tree, level by level: levels below the leaves are empty.
Levels(blocks) ==
  LET level[i \in 0 .. Len(blocks)] ==
        IF i = 0 THEN {Root}
        ELSE UNION {Range(blocks[n].kids) : n \in {m \in level[i - 1] : ~blocks[m].leaf}}
  IN  level

InTree(blocks) == UNION {Levels(blocks)[i] : i \in 0 .. Len(blocks)}

Entries(blocks) == UNION {Range(blocks[n].ents) : n \in InTree(blocks)}

\* The free list: its blocks from the first on, and 0 after the last.
FreeChain(blocks, first) ==
  LET at[i \in 0 .. Len(blocks)] ==
        IF i = 0 THEN first
        ELSE LET n == at[i - 1]
             IN  IF n # 0 /\ blocks[n].kind = "free" THEN blocks[n].next ELSE 0
  IN  at

\* The blocks that neither the tree, its values, the free list nor the handle
\* leads to.
Loose(head, blocks) ==
  (1 .. Len(blocks)) \ (InTree(blocks) \cup {e.block : e \in Entries(blocks)}
                        \cup Range(FreeChain(blocks, head.free)) \cup {head.current})

Status(handle, f, dam) ==
  IF ~f.there THEN "absent"
  ELSE IF dam THEN "damaged"
  ELSE IF handle.open THEN "open"
  ELSE IF db_checker(f) THEN "closed" ELSE "refused"

\* The keys that have a value, and their values.
OnlyFound(m) == Restrict(m, {k \in DOMAIN m : m[k] # NotFound})

\* What a database holds: every key is looked up.
Found(f, st) ==
  IF st \in {"absent", "damaged", "refused"} THEN <<>>
  ELSE OnlyFound([k \in Keys |-> db_search(f.blocks, k)])

-----------------------------------------------------------------------------
(* Calls.                                                                  *)

Idle == [pc |-> "idle"]

\* The first keys are inserted while nothing fails.
Seeding == setup.seed # <<>>

\* A call that changes the database starts.
Starts(k, v) ==
  /\ op = Idle /\ db.open
  /\ IF Seeding THEN k = Head(setup.seed) /\ v = 1 /\ calls' = calls
     ELSE k \in setup.keys /\ calls < setup.calls /\ calls' = calls + 1

\* The call returns r; nothing refers to the blocks in `lost`, which it had got.
EndsWith(s, r, lost) ==
  /\ file' = s.file /\ db' = s.db /\ op' = Idle /\ ret' = r
  /\ spilled' = spilled \cup lost
  /\ setup' = IF Seeding THEN [setup EXCEPT !.seed = Tail(@)] ELSE setup
  /\ found' = Found(s.file, "open")
  /\ UNCHANGED <<crashes, damaged, status>>

\* The loop goes on with the local variables in o.
Continues(s, o) ==
  /\ file' = s.file /\ db' = s.db /\ op' = o
  /\ found' = Found(s.file, "open")
  /\ UNCHANGED <<setup, ret, crashes, spilled, damaged, status>>

\* The program ends after some of the writes.
CutOff(s) ==
  /\ ~Seeding /\ crashes < MaxCrashes /\ crashes' = crashes + 1
  /\ db' = NoHandle /\ op' = Idle /\ ret' = 0
  /\ \E image \in s.past :
       /\ file' = image.file
       /\ damaged' = image.moves
       /\ status' = Status(NoHandle, image.file, image.moves)
       /\ found' = Found(image.file, status')
       /\ spilled' = IF status' = "closed" THEN spilled \cup Loose(image.file.head, image.file.blocks)
                     ELSE spilled
  /\ UNCHANGED setup

Returns(s, r) == EndsWith(s, r, {}) \/ CutOff(s)
GoesOn(s, o) == Continues(s, o) \/ CutOff(s)

\* node_create fails: the file is as long as the disk allows.
Fails(s, lost) ==
  /\ ~Seeding /\ s.db.free = 0
  /\ EndsWith(NoRoom(s), -1, lost) \/ CutOff(NoRoom(s))

-----------------------------------------------------------------------------
(* db_insert: full blocks are split on the way down.                       *)

InsertOp(k, v, b) == [pc |-> "insert", key |-> k, val |-> v, node |-> b]

\* A full root gets two children with what it held.
SplitRoot(k, v) ==
  LET b == file.blocks[Root]
      x == NewKeyBlock(NextBlock(Begin), b.leaf)
      t == node_create(Begin, x)
      y == NewKeyBlock(NextBlock(t), b.leaf)
      r == btree_split_child(node_create(t, y), KeyBlock(Root, FALSE, <<>>, <<x.self>>), 1,
                             Filled(x, b.ents, b.kids), y)
  IN  \/ GoesOn(r, InsertOp(k, v, r.file.blocks[Root]))
      \/ Fails(Begin, {})
      \/ Fails(t, {x.self})

db_insert(k, v) ==
  LET b == file.blocks[Root]
  IN  /\ Starts(k, v)
      /\ \/ Size[v] > BlockSpace /\ Returns(Begin, -1)
         \/ Size[v] <= BlockSpace /\ Len(b.ents) < M - 1 /\ GoesOn(Begin, InsertOp(k, v, b))
         \/ Size[v] <= BlockSpace /\ Len(b.ents) >= M - 1 /\ SplitRoot(k, v)

\* The block in hand is an inner one: its child x for the key, number p, is
\* split when it is full, and the key compared with the one that went up.
InsertTurn ==
  LET b == op.node
      i == key_binary_search(b, op.key)
      p == -i
      x == file.blocks[b.kids[p]]
      y == NewKeyBlock(NextBlock(Begin), x.leaf)
      u == btree_split_child(node_create(Begin, y), b, p, x, y)
      up == u.file.blocks[b.self].ents[p].key
      In(s, n) == [op EXCEPT !.node = s.file.blocks[n]]
  IN  /\ op.pc = "insert" /\ ~op.node.leaf
      /\ \/ i >= 0 /\ Returns(Begin, 0)
         \/ i < 0 /\ Len(x.ents) < M - 1 /\ GoesOn(Begin, In(Begin, x.self))
         \/ i < 0 /\ Len(x.ents) >= M - 1 /\ \/ Fails(Begin, {})
                                             \/ op.key = up /\ Returns(u, 0)
                                             \/ op.key > up /\ GoesOn(u, In(u, y.self))
                                             \/ op.key < up /\ GoesOn(u, In(u, x.self))
      /\ UNCHANGED calls

FitsCurrent(v) == file.blocks[db.current].last + Size[v] <= BlockSpace

\* The current value block is left when the value does not fit.
CurrentLeft(v) ==
  IF db.current # 0 /\ ~FitsCurrent(v) THEN head_flush(WithDb(Begin, [db EXCEPT !.current = 0]))
                                       ELSE Begin

\* The value first, then the key, then the head.
Stored(s, b, p, k, v) ==
  LET c == s.file.blocks[s.db.current]
      stored == ValueBlock(c.self, c.num + 1, c.last + Size[v], Append(c.vals, v))
      entered == Filled(b, InsertAt(b.ents, p, Entry(k, c.self, Len(stored.vals))),
                           InsertAt(b.kids, p, b.kids[p]))
      t == node_flush(node_flush(s, stored), entered)
  IN  head_flush(WithDb(t, [t.db EXCEPT !.total = @ + 1]))

InsertIntoLeaf ==
  LET b == op.node
      i == key_binary_search(b, op.key)
      s == CurrentLeft(op.val)
      t == node_create(s, NewValueBlock(NextBlock(s)))
  IN  /\ op.pc = "insert" /\ op.node.leaf
      /\ \/ i >= 0 /\ Returns(Begin, 0)
         \/ i < 0 /\ s.db.current # 0 /\ Returns(Stored(s, b, -i, op.key, op.val), 1)
         \/ i < 0 /\ s.db.current = 0 /\ (Fails(s, {}) \/ Returns(Stored(t, b, -i, op.key, op.val), 1))
      /\ UNCHANGED calls

-----------------------------------------------------------------------------
(* db_delete: blocks are filled up on the way down. Where the key is found *)
(* in an inner block, `match`, its neighbour in a leaf takes its place,    *)
(* `pos`: `flag` says on which side the neighbour is.                      *)

DeleteOp(k, b, flag, match, pos) ==
  [pc |-> "delete", key |-> k, node |-> b, flag |-> flag, match |-> match, pos |-> pos]

db_delete(k) ==
  LET b == file.blocks[Root]
  IN  /\ ~Seeding /\ Starts(k, 1)
      /\ GoesOn(Begin, DeleteOp(k, b, "none", b, 0))

\* Mutant: a block with ceil(M) entries can spare one.
EnoughWithCeil(b) == Len(b.ents) >= ceil(M)

Enough(b) == Len(b.ents) > ceil(M)

\* Entry p of b goes down to the end of x, and y's first comes up.
BorrowRight(s, b, p, x, y) ==
  LET up == Filled(b, [b.ents EXCEPT ![p] = Head(y.ents)], b.kids)
      more == Filled(x, Append(x.ents, b.ents[p]), Append(x.kids, Head(y.kids)))
      less == Filled(y, Tail(y.ents), Tail(y.kids))
  IN  node_flush(node_flush(Put(s, up, TRUE), more), less)

\* The mirror image; x is child p.
BorrowLeft(s, b, p, x, w) ==
  LET up == Filled(b, [b.ents EXCEPT ![p - 1] = Last(w.ents)], b.kids)
      more == Filled(x, <<b.ents[p - 1]>> \o x.ents, <<Last(w.kids)>> \o x.kids)
      less == Filled(w, Front(w.ents), Front(w.kids))
  IN  node_flush(node_flush(Put(s, up, TRUE), more), less)

\* Where the loop looks in the block in hand.
DeleteIndex ==
  CASE op.flag = "less" -> -1
    [] op.flag = "more" -> -Len(op.node.ents) - 1
    [] op.flag = "none" -> key_binary_search(op.node, op.key)

\* The key is in the inner block in hand.
DeleteMatch ==
  LET b == op.node
      p == DeleteIndex + 1
      x == file.blocks[b.kids[p]]
      y == file.blocks[b.kids[p + 1]]
      u == btree_merge(Begin, b, p, x, y)
  IN  /\ op.pc = "delete" /\ ~op.node.leaf /\ DeleteIndex >= 0
      /\ \/ Enough(x) /\ GoesOn(Begin, DeleteOp(op.key, x, "more", b, p))
         \/ ~Enough(x) /\ Enough(y) /\ GoesOn(Begin, DeleteOp(op.key, y, "less", b, p))
         \/ ~Enough(x) /\ ~Enough(y) /\ GoesOn(u, [op EXCEPT !.node = u.file.blocks[MergedInto(b, x)]])
      /\ UNCHANGED calls

\* The loop goes on in child q, which is given enough entries first.
DeleteInChild ==
  LET b == op.node
      q == -DeleteIndex
      x == file.blocks[b.kids[q]]
      y == file.blocks[b.kids[q + 1]]
      w == file.blocks[b.kids[q - 1]]
      right == q <= Len(b.ents)
      ByRight == right /\ Enough(y)
      ByLeft == ~ByRight /\ q > 1 /\ Enough(w)
      In(s, n) == [op EXCEPT !.node = s.file.blocks[n]]
      fromRight == BorrowRight(Begin, b, q, x, y)
      fromLeft == BorrowLeft(Begin, b, q, x, w)
      withRight == btree_merge(Begin, b, q, x, y)
      withLeft == btree_merge(Begin, b, q - 1, w, x)
  IN  /\ op.pc = "delete" /\ ~op.node.leaf /\ DeleteIndex < 0
      /\ \/ Enough(x) /\ GoesOn(Begin, In(Begin, x.self))
         \/ ~Enough(x) /\ ByRight /\ GoesOn(fromRight, In(fromRight, x.self))
         \/ ~Enough(x) /\ ByLeft /\ GoesOn(fromLeft, In(fromLeft, x.self))
         \/ ~Enough(x) /\ ~ByRight /\ ~ByLeft /\ right /\ GoesOn(withRight, In(withRight, MergedInto(b, x)))
         \/ ~Enough(x) /\ ~ByRight /\ ~ByLeft /\ ~right /\ GoesOn(withLeft, In(withLeft, MergedInto(b, w)))
      /\ UNCHANGED calls

\* Mutant: a value block that goes stays the current one.
ReleasedStays(d, c) == d

\* The handle that no longer fills a value block that goes.
Released(d, c) == IF c.self = d.current THEN [d EXCEPT !.current = 0] ELSE d

\* The value of entry e is given up, and its block with the last value.
ReleaseValue(s, e) ==
  LET c == s.file.blocks[e.block]
      less == ValueBlock(c.self, c.num - 1, c.last, c.vals)
      t == IF c.num = 1 THEN node_destroy(WithDb(s, Released(s.db, c)), c) ELSE node_flush(s, less)
  IN  head_flush(WithDb(t, [t.db EXCEPT !.total = @ - 1]))

\* Mutant: the value to give up is looked up after the entry was replaced.
ReplacedIsReleased(m, p, e, rest) ==
  ReleaseValue(node_flush(Put(Begin, Filled(m, [m.ents EXCEPT ![p] = e], m.kids), TRUE), rest), e)

\* Entry p of m is replaced by e of a leaf, of which the rest stays.
Replaced(m, p, e, rest) ==
  ReleaseValue(node_flush(Put(Begin, Filled(m, [m.ents EXCEPT ![p] = e], m.kids), TRUE), rest),
               m.ents[p])

DeleteFromLeaf ==
  LET b == op.node
      i == key_binary_search(b, op.key)
      first == Filled(b, Tail(b.ents), Tail(b.kids))
      last == Filled(b, Front(b.ents), Front(b.kids))
      rest == Filled(b, RemoveAt(b.ents, i + 1), RemoveAt(b.kids, i + 1))
  IN  /\ op.pc = "delete" /\ op.node.leaf
      /\ \/ op.flag = "less" /\ Returns(Replaced(op.match, op.pos, Head(b.ents), first), 1)
         \/ op.flag = "more" /\ Returns(Replaced(op.match, op.pos, Last(b.ents), last), 1)
         \/ op.flag = "none" /\ i < 0 /\ Returns(Begin, 0)
         \/ op.flag = "none" /\ i >= 0 /\ Returns(ReleaseValue(node_flush(Begin, rest), b.ents[i + 1]), 1)
      /\ UNCHANGED calls

-----------------------------------------------------------------------------
(* The program.                                                            *)

\* The program starts without a file, or with an empty database in which it
\* inserts its first keys.
Init == /\ setup \in Setups
        /\ IF Seeding THEN db = NewHead /\ file = NewFile ELSE db = NoHandle /\ file = NoFile
        /\ op = Idle /\ ret = 0 /\ calls = 0 /\ crashes = 0 /\ spilled = {} /\ damaged = FALSE
        /\ status = Status(db, file, FALSE) /\ found = Found(file, status)

\* An existing file is left alone. Otherwise the head and the root are written;
\* where one fails, or the program ends, the file stays as it is.
db_create ==
  /\ ~db.open
  /\ IF file.there THEN ret' = -1 /\ UNCHANGED file
     ELSE \E n \in 0 .. 2 : /\ file' = [NewFile EXCEPT !.head = IF n = 0 THEN NoHandle ELSE @,
                                                     !.blocks = IF n < 2 THEN <<>> ELSE @]
                            /\ ret' = IF n = 2 THEN 0 ELSE -1
  /\ status' = Status(db, file', damaged)
  /\ found' = Found(file', status')
  /\ UNCHANGED <<setup, db, op, calls, crashes, spilled, damaged>>

db_close == /\ db.open /\ op = Idle /\ ~Seeding
            /\ db' = NoHandle /\ ret' = 0
            /\ status' = Status(NoHandle, file, damaged)
            /\ found' = Found(file, status')
            /\ UNCHANGED <<setup, file, op, calls, crashes, spilled, damaged>>

db_open == /\ ~db.open
           /\ IF file.there /\ db_checker(file) THEN db' = file.head /\ ret' = 0 ELSE db' = db /\ ret' = -1
           /\ status' = Status(db', file, damaged)
           /\ found' = Found(file, status')
           /\ UNCHANGED <<setup, file, op, calls, crashes, spilled, damaged>>

\* Nobody goes on with a database of which an entry was lost.
Next == \/ /\ ~damaged
           /\ \/ \E k \in Keys : db_delete(k) \/ \E v \in Values : db_insert(k, v)
              \/ InsertTurn \/ InsertIntoLeaf
              \/ DeleteMatch \/ DeleteInChild \/ DeleteFromLeaf
        \/ db_create \/ db_close \/ db_open

Spec == Init /\ [][Next]_vars
-----------------------------------------------------------------------------
(* Properties.                                                             *)

Sound == db.open /\ ~damaged

\* Every turn of a call leaves the head that is on the disk equal to the
\* handle, and the counts such that db_checker accepts the file: a database
\* that is closed, or whose program ends between turns, opens again. Splits,
\* merges and blocks that could not be had on a full disk change these counts
\* in many places (key_use_block, value_use_block, key_total).
CleanReopens == Sound => db = file.head /\ db_checker(file)

\* The number that a value block keeps is the number of entries that refer to
\* it, and no two entries share a value: db_delete gives up a block when the
\* number gets to 0, and node_create may then hand it out again.
RefsExact ==
  Sound =>
    LET all == Entries(file.blocks)
    IN  /\ Cardinality(all) = db.total
        /\ Cardinality({<<e.block, e.slot>> : e \in all}) = db.total
        /\ \A e \in all : file.blocks[e.block].kind = "value"
        /\ \A n \in 1 .. Len(file.blocks) :
             file.blocks[n].kind = "value" => file.blocks[n].num = Cardinality({e \in all : e.block = n})

\* The free list has no block twice and none that is in use, and every other
\* block is in use, but for those that a call had got from node_create when the
\* disk was full or the program ended.
BlocksAccounted ==
  Sound =>
    LET list == FreeChain(file.blocks, db.free)
    IN  /\ \A i, j \in DOMAIN list : list[i] = list[j] => i = j \/ list[i] = 0
        /\ \A n \in Range(list) \ {0} : file.blocks[n].kind = "free"
        /\ db.current # 0 => file.blocks[db.current].kind = "value"
        /\ Loose(db, file.blocks) \subseteq spilled

\* A key block has room for M entries, one more than M - 1, with which it is
\* full: two blocks that are merged may need it. No block but the root is ever
\* without entries, all leaves are at one depth.
NodesFit ==
  Sound =>
    /\ \A i \in 0 .. Len(file.blocks) :
         \A n, m \in Levels(file.blocks)[i] : file.blocks[n].leaf = file.blocks[m].leaf
    /\ \A n \in InTree(file.blocks) :
         LET num == Len(file.blocks[n].ents)
         IN  num <= M /\ (num > 0 \/ n = Root)

\* The database as db_search shows it is a map that every call changes as its
\* result says, on a full disk too, and no turn before its last; when the
\* program ends in the middle of a call, the database is found as before or as
\* after the call or db_open refuses it. Only a deletion can be cut off so that
\* db_open accepts a file that has lost an entry.
Store == INSTANCE KeyStore WITH
  map <- found, ret <- IF status \in {"absent", "damaged", "refused"} THEN 0 ELSE ret

ImplementsKeyStore == Store!StoreSpec
=============================================================================
