------------------------------- MODULE BTree --------------------------------
(***************************************************************************)
(* The B+tree of lib_btree/btree.c on the nodes it is made of. A node has  *)
(* `pairs` slots with a key and a value each, keys descending, and used    *)
(* slots first; here it is the sequence of its used slots, since an unused *)
(* one holds zeros. A slot of an inner node points to a child whose keys   *)
(* are at least the slot's key. Every call runs to its end on one thread;  *)
(* it is one action, and the recursion up the levels is one of operators.  *)
(*                                                                         *)
(* calloc() is external: a call finds memory for `room` more nodes. The    *)
(* addresses of nodes are not observable, so each call ends by naming the  *)
(* nodes in the order in which they are reached.                           *)
(*                                                                         *)
(* Callers keep to what the code takes for granted: no key is inserted     *)
(* twice (two trees that are merged share none), values are neither NULL   *)
(* nor equal to a key, a node has at least 4 slots, and key 0 is not       *)
(* removed when it is not there.                                           *)
(***************************************************************************)
EXTENDS Integers, SequencesExt, TLC

CONSTANTS
  Trees,     \* the struct btree_heads
  Second,    \* the one of them that gets only a few keys by insertion
  Setups,    \* what a program can be like: see Init
  ValOf,     \* the value each key is inserted with
  MaxRoom    \* bound: nodes one call finds memory for

NULL == 0

ASSUME SetupAssumption == \A s \in Setups : s.pairs >= 4

VARIABLES
  setup,  \* the program: slots of a node, keys inserted first, keys used later,
          \* how many of these go into the second tree, and the bound on
          \* the number of calls (-1 for none)
  head,   \* node and height of each tree
  mem,    \* the allocated nodes
  bug,    \* whether a BUG_ON has aborted the program
  ret,    \* what the last call returned
  dict    \* the map each tree stands for, by what its leaves hold

vars == <<setup, head, mem, bug, ret, dict>>

N == setup.pairs

\* A slot: key and value.
Slot(k, v) == [key |-> k, val |-> v]

-----------------------------------------------------------------------------
\* A call works on s: the nodes, its tree's node and height, the room left for
\* new nodes, err for -ENOMEM, bug for abort(), and its result.
Begin(t, room) == [mem |-> mem, node |-> head[t].node, height |-> head[t].height,
                   room |-> room, err |-> FALSE, bug |-> FALSE, ret |-> NULL]

Aborted(s) == [s EXCEPT !.bug = TRUE]

\* The name of the next node.
NewNode(s) == Min((1 .. Cardinality(DOMAIN s.mem) + 1) \ DOMAIN s.mem)

btree_node_alloc(s) == [s EXCEPT !.mem = (NewNode(s) :> <<>>) @@ @, !.room = @ - 1]

free(s, n) == [s EXCEPT !.mem = Restrict(@, DOMAIN @ \ {n})]

\* The first slot whose key is not above k; past the used ones, that is the
\* first unused one (its key is 0) or none.
getpos(e, k) == LET below == {i \in 1 .. Len(e) : e[i].key <= k}
                IN  IF below = {} THEN Len(e) + 1 ELSE Min(below)

\* The node for key k, d levels below n. A key below all others lowers the
\* last key of the nodes it passes.
RECURSIVE Descend(_, _, _, _)
Descend(s, n, k, d) ==
  IF d = 0 \/ s.bug THEN [s |-> s, node |-> n]
  ELSE LET e == s.mem[n]
           i == getpos(e, k)
           last == Len(e)
       IN  IF i <= last THEN Descend(s, e[i].val, k, d - 1)
           ELSE IF last = 0 THEN [s |-> Aborted(s), node |-> n]
           ELSE Descend([s EXCEPT !.mem[n][last].key = k], e[last].val, k, d - 1)

find_level(s, k, level) == Descend(s, s.node, k, s.height - level)

btree_grow(s) ==
  IF s.room = 0 THEN [s EXCEPT !.err = TRUE]
  ELSE LET new == NewNode(s)
           old == IF s.node = NULL THEN <<>> ELSE <<Slot(Last(s.mem[s.node]).key, s.node)>>
       IN  [btree_node_alloc(s) EXCEPT !.node = new, !.height = @ + 1, !.mem[new] = old]

\* Mutant: only an empty root is given up.
ShrinkEmpty(s) ==
  IF s.mem[s.node] = <<>> THEN [free(s, s.node) EXCEPT !.node = NULL, !.height = @ - 1] ELSE s

\* The root is given up when it is empty or has a single child.
btree_shrink(s) ==
  LET e == s.mem[s.node]
  IN  CASE e = <<>> -> [free(s, s.node) EXCEPT !.node = NULL, !.height = @ - 1]
        [] Len(e) = 1 /\ s.height > 1 ->
             [free(s, s.node) EXCEPT !.node = e[1].val, !.height = @ - 1]
        [] OTHER -> s

\* Mutant: the parent gets the key of the first slot that leaves.
StealLeavesKey(s, left, right, parent, lpos, n) ==
  LET l == s.mem[left]
      kept == Len(l) - n
  IN  [s EXCEPT !.mem[right] = SubSeq(l, kept + 1, Len(l)) \o @,
                !.mem[parent][lpos].key = l[kept + 1].key,
                !.mem[left] = SubSeq(l, 1, kept)]

\* The last n slots of the left node become the first of the right one.
steal_l(s, left, right, parent, lpos, n) ==
  LET l == s.mem[left]
      kept == Len(l) - n
  IN  [s EXCEPT !.mem[right] = SubSeq(l, kept + 1, Len(l)) \o @,
                !.mem[parent][lpos].key = l[kept].key,
                !.mem[left] = SubSeq(l, 1, kept)]

\* The first n slots of the right node become the last of the left one.
steal_r(s, left, right, parent, lpos, n) ==
  LET r == s.mem[right]
  IN  [s EXCEPT !.mem[left] = @ \o SubSeq(r, 1, n),
                !.mem[parent][lpos].key = r[n].key,
                !.mem[right] = SubSeq(r, n + 1, Len(r))]

-----------------------------------------------------------------------------
(* Insertion.                                                              *)

RECURSIVE btree_insert_level(_, _, _, _)

\* Mutant: nothing.
SplitFailedLeaks(r, new) == r

\* What is given back when the new node cannot be entered above.
SplitFailed(r, new) == free(r, new)

\* The first half of a full node goes to a new one, which is entered above
\* before anything moves.
split(s, node, level) ==
  IF s.room = 0 THEN [s EXCEPT !.err = TRUE]
  ELSE LET new == NewNode(s)
           half == N \div 2
           e == s.mem[node]
           r == btree_insert_level(btree_node_alloc(s), e[half].key, new, level + 1)
       IN  IF r.bug THEN r
           ELSE IF r.err THEN SplitFailed(r, new)
           ELSE [r EXCEPT !.mem[new] = SubSeq(e, 1, half),
                          !.mem[node] = SubSeq(e, half + 1, N)]

\* Slots without a value in the node below slot i of node p.
Unused(s, p, i) == N - Len(s.mem[s.mem[p][i].val])

\* The slot of the parent that leads to child: getpos and the BUG_ON after it.
LeadsTo(f, c, child) ==
  /\ ~f.s.bug
  /\ c <= Len(f.s.mem[f.node])
  /\ f.s.mem[f.node][c].val = child

\* Room in a full child: two unused slots of a neighbour are shared, else it is split.
rebalance_insert(s, k, child, level) ==
  IF level = s.height THEN split(s, child, level)
  ELSE LET f == find_level(s, k, level + 1)
           p == f.node
           e == f.s.mem[p]
           c == getpos(e, k)
       IN  IF ~LeadsTo(f, c, child) THEN Aborted(f.s)
           ELSE IF c > 1 /\ Unused(f.s, p, c - 1) >= 2
             THEN steal_r(f.s, e[c - 1].val, child, p, c - 1, Unused(f.s, p, c - 1) \div 2)
           ELSE IF c < Len(e) /\ Unused(f.s, p, c + 1) >= 2
             THEN steal_l(f.s, child, e[c + 1].val, p, c, Unused(f.s, p, c + 1) \div 2)
           ELSE split(f.s, child, level)

\* Tried again after the node has been given room.
RECURSIVE InsertAtLevel(_, _, _, _)
InsertAtLevel(s, k, v, level) ==
  LET f == find_level(s, k, level)
      e == f.s.mem[f.node]
      pos == getpos(e, k)
  IN  IF f.s.bug \/ (pos <= Len(e) /\ e[pos].key = k) THEN Aborted(f.s)
      ELSE IF Len(e) < N THEN [f.s EXCEPT !.mem[f.node] = InsertAt(e, pos, Slot(k, v))]
      ELSE LET r == rebalance_insert(f.s, k, f.node, level)
           IN  IF r.err \/ r.bug THEN r ELSE InsertAtLevel(r, k, v, level)

btree_insert_level(s, k, v, level) ==
  LET g == IF s.height < level THEN btree_grow(s) ELSE s
  IN  IF g.err THEN g ELSE InsertAtLevel(g, k, v, level)

-----------------------------------------------------------------------------
(* Removal. The caller's key is either a number of its own (at = <<>>) or  *)
(* points into slot at[2] of node at[1]; then it changes with the slot.    *)

KeyAt(s, k, at) == IF at = <<>> THEN k
                   ELSE IF at[2] <= Len(s.mem[at[1]]) THEN s.mem[at[1]][at[2]].key ELSE 0

RECURSIVE btree_remove_level(_, _, _, _)

\* The right node's slots go to the left node, the left node takes the right
\* one's slot in the parent, and its former slot is removed, by a key that
\* points into it.
merge(s, left, right, parent, lpos, level) ==
  LET m == [s EXCEPT !.mem[left] = @ \o s.mem[right],
                     !.mem[parent][lpos].val = right,
                     !.mem[parent][lpos + 1].val = left]
      r == btree_remove_level(m, s.mem[parent][lpos].key, <<parent, lpos>>, level + 1)
  IN  IF r.bug THEN r ELSE free(r, right)

\* Mutant: only nodes that fill half a node together are merged.
FitHalf(a, b) == a + b <= N \div 2
Fit(a, b) == a + b <= N

\* A child that is less than half full is merged with a neighbour if both fit
\* in one node; an almost empty one gets slots from a neighbour.
rebalance(s, k, child, level) ==
  LET f == find_level(s, k, level + 1)
      p == f.node
      e == f.s.mem[p]
      c == getpos(e, k)
      fill == Len(s.mem[child])
      Fill(i) == Len(f.s.mem[e[i].val])
      hasLeft == c > 1
      hasRight == c < Len(e)
      Half(i) == (Fill(i) - fill) \div 2
  IN  IF ~LeadsTo(f, c, child) THEN Aborted(f.s)
      ELSE IF hasLeft /\ Fit(fill, Fill(c - 1))
        THEN merge(f.s, e[c - 1].val, child, p, c - 1, level)
      ELSE IF hasRight /\ Fit(fill, Fill(c + 1))
        THEN merge(f.s, child, e[c + 1].val, p, c, level)
      ELSE IF fill > 1 THEN f.s
      ELSE IF hasLeft /\ Half(c - 1) >= 1
        THEN steal_l(f.s, e[c - 1].val, child, p, c - 1, Half(c - 1))
      ELSE IF ~hasLeft /\ hasRight /\ Half(c + 1) >= 1
        THEN steal_r(f.s, child, e[c + 1].val, p, c, Half(c + 1))
      ELSE Aborted(f.s)

\* Key k is in slot pos; of the unused slots, whose key is 0, only key 0 is.
Matches(e, pos, k) == IF pos <= Len(e) THEN e[pos].key = k ELSE pos <= N /\ k = 0

btree_remove_level(s, k, at, level) ==
  IF level > s.height THEN [s EXCEPT !.height = 0, !.node = NULL]
  ELSE LET f == find_level(s, k, level)
           n == f.node
           e == f.s.mem[n]
           pos == getpos(e, k)
           left == IF pos <= Len(e) THEN RemoveAt(e, pos) ELSE Front(e)
           cut == [f.s EXCEPT !.mem[n] = left]
           done == IF Len(left) >= N \div 2 THEN cut
                   ELSE IF level < s.height
                     THEN rebalance(cut, KeyAt(cut, k, at), n, level)
                   ELSE btree_shrink(cut)
       IN  IF f.s.bug THEN f.s
           ELSE IF level = 1 /\ ~Matches(e, pos, k) THEN [f.s EXCEPT !.ret = NULL]
           ELSE [done EXCEPT !.ret = IF pos <= Len(e) THEN e[pos].val ELSE NULL]

-----------------------------------------------------------------------------
(* What a tree of mem shows, on the tree's own searches.                   *)

\* btree_last: the largest key, or NULL when the tree is empty.
RECURSIVE LastBelow(_, _, _)
LastBelow(m, n, h) == IF h > 1 THEN LastBelow(m, m[n][1].val, h - 1) ELSE m[n][1].key
btree_last(m, t) == IF t.height = 0 THEN NULL ELSE LastBelow(m, t.node, t.height)

RECURSIVE LookupBelow(_, _, _, _)
LookupBelow(m, n, h, k) ==
  LET e == m[n]
      pos == getpos(e, k)
      same == {i \in 1 .. Len(e) : e[i].key = k}
  IN  IF h > 1 THEN IF pos > Len(e) THEN NULL ELSE LookupBelow(m, e[pos].val, h - 1, k)
      ELSE IF same = {} THEN NULL ELSE e[Min(same)].val
btree_lookup(m, t, k) == IF t.height = 0 THEN NULL ELSE LookupBelow(m, t.node, t.height, k)

\* __btree_for_each: the slots in the order in which the visitor gets them;
\* their index is their number in this sequence.
RECURSIVE VisitedBelow(_, _, _)
VisitedBelow(m, n, h) ==
  IF h <= 1 THEN m[n]
  ELSE FlattenSeq([i \in DOMAIN m[n] |-> VisitedBelow(m, m[n][i].val, h - 1)])
btree_visitor(m, t) == IF t.node = NULL THEN <<>> ELSE VisitedBelow(m, t.node, t.height)

\* The nodes of a tree as they are reached, each before its children, with
\* their heights.
RECURSIVE NodesBelow(_, _, _)
NodesBelow(m, n, h) ==
  <<[node |-> n, height |-> h]>> \o
  IF h <= 1 THEN <<>>
  ELSE FlattenSeq([i \in DOMAIN m[n] |-> NodesBelow(m, m[n][i].val, h - 1)])
NodesOf(m, t) == IF t.node = NULL THEN <<>> ELSE NodesBelow(m, t.node, t.height)

\* The map a tree stands for.
Dict(m, t) == LET S == ToSet(btree_visitor(m, t))
              IN  [k \in {e.key : e \in S} |-> (CHOOSE e \in S : e.key = k).val]

-----------------------------------------------------------------------------
OK == <<0>>
ENOMEM == <<-12>>

HeadOf(s) == [node |-> s.node, height |-> s.height]

\* The nodes under their canonical names: the trees' nodes as they are
\* reached, and after them those that no tree reaches. Nodes that two slots
\* lead to keep their names.
Named(m, h) ==
  LET order == SetToSeq(Trees)
      reached == FlattenSeq([i \in DOMAIN order |-> NodesOf(m, h[order[i]])])
      ids == [i \in DOMAIN reached |-> reached[i].node]
      Name(n) == IF n = NULL THEN NULL ELSE CHOOSE i \in DOMAIN ids : ids[i] = n
      lost == Cardinality(DOMAIN m \ ToSet(ids))
      node == [i \in 1 .. Len(ids) + lost |->
                 IF i > Len(ids) THEN <<>>
                 ELSE IF reached[i].height = 1 THEN m[ids[i]]
                 ELSE [j \in DOMAIN m[ids[i]] |-> Slot(m[ids[i]][j].key, Name(m[ids[i]][j].val))]]
  IN  IF IsInjective(ids)
        THEN [mem |-> node, head |-> [t \in Trees |-> [h[t] EXCEPT !.node = Name(@)]]]
        ELSE [mem |-> m, head |-> h]

Init ==
  /\ setup \in Setups
  /\ head = [t \in Trees |-> [node |-> NULL, height |-> 0]]
  /\ mem = <<>> /\ bug = FALSE /\ ret = OK
  /\ dict = [t \in Trees |-> <<>>]

\* The memory a call may find: none, for some nodes, or enough.
Rooms == 0 .. MaxRoom
Over(s) == [s EXCEPT !.room = 0]

\* A call ends with tree t as s has it, and h elsewhere, and returns r.
End(t, s, h, r) ==
  /\ bug' = s.bug
  /\ IF s.bug THEN UNCHANGED <<head, mem, ret, dict>>
     ELSE LET b == Named(s.mem, [h EXCEPT ![t] = HeadOf(s)])
          IN  /\ mem' = b.mem /\ head' = b.head /\ ret' = r
              /\ dict' = [u \in Trees |-> Dict(b.mem, b.head[u])]

btree_insert(t, k, rooms) ==
  /\ \A u \in Trees : k \notin DOMAIN dict[u]
  /\ t = Second => Cardinality(DOMAIN dict[t]) < setup.second
  /\ \E s \in {Over(btree_insert_level(Begin(t, room), k, ValOf[k], 1)) : room \in rooms} :
       End(t, s, head, IF s.err THEN ENOMEM ELSE OK)

\* The program starts with these insertions.
Seed ==
  /\ setup.seed # <<>>
  /\ \E t \in Trees \ {Second} : btree_insert(t, Head(setup.seed), {MaxRoom})
  /\ setup' = [setup EXCEPT !.seed = Tail(@)]

btree_remove(t, k) ==
  /\ k = 0 => k \in DOMAIN dict[t]
  /\ LET s == IF head[t].height = 0 THEN Begin(t, 0)
              ELSE btree_remove_level(Begin(t, 0), k, <<>>, 1)
     IN  End(t, s, head, <<s.ret>>)

\* Mutant: an insertion without memory does not end the merge.
MergeGoesOn(s) == s.bug
MergeEnds(s) == s.err \/ s.bug

\* The largest entry of the victim is inserted into the target and then
\* removed, by a copy of its key, until the victim is empty or memory runs out.
RECURSIVE MergeFrom(_, _)
MergeFrom(s, victim) ==
  IF victim.height = 0 THEN [s |-> s, victim |-> victim]
  ELSE LET k == btree_last(s.mem, victim)
           i == btree_insert_level(s, k, btree_lookup(s.mem, victim, k), 1)
           r == btree_remove_level([i EXCEPT !.node = victim.node, !.height = victim.height],
                                   k, <<>>, 1)
       IN  IF MergeEnds(i) THEN [s |-> i, victim |-> victim]
           ELSE IF r.bug THEN [s |-> r, victim |-> victim]
           ELSE MergeFrom([r EXCEPT !.node = i.node, !.height = i.height], HeadOf(r))

btree_merge(t, u) ==
  IF head[t].node = NULL
    THEN End(t, Begin(u, 0), [head EXCEPT ![u] = [node |-> NULL, height |-> 0]], OK)
    ELSE \E m \in {[MergeFrom(Begin(t, room), head[u]) EXCEPT !.s = Over(@)] : room \in Rooms} :
           End(t, m.s, [head EXCEPT ![u] = m.victim], IF m.s.err THEN ENOMEM ELSE OK)

\* Every value goes to the caller's function, every node is freed.
btree_grim_visitor(t) ==
  LET out == btree_visitor(mem, head[t])
      nodes == {e.node : e \in ToSet(NodesOf(mem, head[t]))}
  IN  End(t, [Begin(t, 0) EXCEPT !.mem = Restrict(@, DOMAIN @ \ nodes), !.node = NULL, !.height = 0],
          head, [i \in DOMAIN out |-> out[i].val])

Call ==
  \/ \E t \in Trees, k \in setup.keys : btree_insert(t, k, Rooms) \/ btree_remove(t, k)
  \/ \E t, u \in Trees : t # u /\ btree_merge(t, u)

\* At the bound, trees are still freed.
Next ==
  /\ ~bug
  /\ \/ Seed
     \/ /\ setup.seed = <<>> /\ setup.calls # 0
        /\ Call
        /\ setup' = [setup EXCEPT !.calls = IF @ > 0 THEN @ - 1 ELSE @]
     \/ /\ setup.seed = <<>>
        /\ \E t \in Trees : btree_grim_visitor(t)
        /\ UNCHANGED setup

Spec == Init /\ [][Next]_vars

-----------------------------------------------------------------------------
(* Properties.                                                             *)

\* No BUG_ON is met: the parent's slot for a key is always the child the key
\* was found in, there is always a neighbour to take slots from, and no key is
\* seen twice (rebalance, rebalance_insert, find_level).
NoBug == ~bug

\* Whatever has been stolen, merged and split: keys descend in a node, a
\* child's keys lie between its slot's key and the one before, no node is empty
\* and a root that is not a leaf has at least two children.
SearchOrder ==
  \A t \in Trees : \A x \in ToSet(NodesOf(mem, head[t])) :
    LET e == mem[x.node]
        Inside(i, k) == k >= e[i].key /\ (i > 1 => k < e[i - 1].key)
    IN  /\ Len(e) \in 1 .. N
        /\ x.node = head[t].node /\ x.height > 1 => Len(e) >= 2
        /\ \A i \in 2 .. Len(e) : e[i].key < e[i - 1].key
        /\ x.height > 1 => \A i \in DOMAIN e : \A j \in DOMAIN mem[e[i].val] :
                             Inside(i, mem[e[i].val][j].key)

\* Every allocated node belongs to one place of one tree, also after a call
\* that failed half-way (split, merge, btree_shrink, btree_merge).
NoLeak ==
  LET all == [t \in Trees |-> NodesOf(mem, head[t])]
      Ids(t) == [i \in DOMAIN all[t] |-> all[t][i].node]
  IN  /\ DOMAIN mem = UNION {ToSet(Ids(t)) : t \in Trees}
      /\ \A t \in Trees : IsInjective(Ids(t))
      /\ \A t, u \in Trees : t # u => ToSet(Ids(t)) \cap ToSet(Ids(u)) = {}

\* Searching by the keys of inner nodes finds what is in the leaves, and the
\* last key is the largest (btree_lookup, btree_last).
SearchesAgree ==
  \A t \in Trees :
    LET d == dict[t]
    IN  /\ \A k \in DOMAIN ValOf :
             btree_lookup(mem, head[t], k) = IF k \in DOMAIN d THEN d[k] ELSE NULL
        /\ btree_last(mem, head[t]) = IF DOMAIN d = {} THEN NULL ELSE Max(DOMAIN d)

Map == INSTANCE OrderedMap WITH Keys <- DOMAIN ValOf

\* Every call does to the maps what it promises, and a call that runs out of
\* memory loses no entry.
ImplementsOrderedMap == Map!MapSpec
=============================================================================
