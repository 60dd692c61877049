---------------------------- MODULE FileDBProofs ----------------------------
(***************************************************************************)
(* What is proved of the database file of FileDB, for every order M >= 4,  *)
(* every number of keys and values and any crash: btree_merge, the writes  *)
(* of a leaf, of ReleaseValue and of a deletion keep a database good, as   *)
(* the operations of FileDBLemmas do; every turn of a call and every crash *)
(* keep the inductive invariant DatabaseGood; and that implies             *)
(* CleanReopens, NodesFit, BlocksAccounted and RefsExact.                  *)
(***************************************************************************)
EXTENDS FileDBLemmas

-----------------------------------------------------------------------------
(* btree_merge.                                                            *)

LEMMA ThreeReversed ==
  ASSUME NEW B \in Seq(Blocks), NEW C, NEW i \in 1 .. Len(B), NEW j \in 1 .. Len(B), NEW k \in 1 .. Len(B),
         NEW a \in Blocks, NEW b \in Blocks, NEW c \in Blocks, Three(B, C, i, a, j, b, k, c)
  PROVE  Three(B, C, k, c, j, b, i, a)
<1>1. /\ C \in Seq(Blocks) /\ Len(C) = Len(B) /\ C[i] = a /\ C[j] = b /\ C[k] = c
      /\ \A n \in 1 .. Len(B) : n \notin {i, j, k} => C[n] = B[n]
  BY DEF Three
<1>2. ASSUME NEW f \in [Blocks -> Nat]
      PROVE  Weigh(C, f) = Weigh(B, f) - f[B[k]] - f[B[j]] - f[B[i]] + f[c] + f[b] + f[a]
  <2> DEFINE w == Weigh(B, f)
             x == f[B[i]]
             y == f[B[j]]
             z == f[B[k]]
             p == f[a]
             q == f[b]
             r == f[c]
  <2>1. w \in Nat
    BY WeighType
  <2>2. B[i] \in Blocks /\ B[j] \in Blocks /\ B[k] \in Blocks
    OBVIOUS
  <2>3. x \in Nat /\ y \in Nat /\ z \in Nat /\ p \in Nat /\ q \in Nat /\ r \in Nat
    BY <2>2
  <2>4. Weigh(C, f) = w - x - y - z + p + q + r
    BY DEF Three
  <2> HIDE DEF w, x, y, z, p, q, r
  <2>5. w - x - y - z + p + q + r = w - z - y - x + r + q + p
    BY ONLY <2>1, <2>3
  <2> QED BY <2>4, <2>5 DEF w, x, y, z, p, q, r
<1> QED BY <1>1, <1>2 DEF Three

\* The handle after node_destroy of a key block, and the free block.
Destroyed(d, b) == [CountedOut(d, b) EXCEPT !.free = b.self]

LEMMA DestroyedKey ==
  ASSUME NEW d \in Handles, NEW b, b.kind = "key", b.self \in Nat
  PROVE  LET e == Destroyed(d, b)
         IN  /\ e \in Handles /\ e.free = b.self /\ e.current = d.current /\ e.total = d.total
             /\ e.keyBlocks = d.keyBlocks - 1 /\ e.valueBlocks = d.valueBlocks
<1> DEFINE g == CountedOut(d, b)
           n == b.self
           e == [g EXCEPT !.free = n]
<1>1. /\ g \in Handles /\ g.current = d.current /\ g.total = d.total
      /\ g.keyBlocks = d.keyBlocks + -1 /\ g.valueBlocks = d.valueBlocks
  <2> DEFINE w == -1
  <2>0. w \in {1, -1} /\ ~(w = 1)
    OBVIOUS
  <2>2. w = -1
    OBVIOUS
  <2> HIDE DEF w
  <2>1. LET u == IF w = 1 THEN CountedIn(d, b) ELSE CountedOut(d, b)
        IN  /\ u \in Handles /\ u.free = d.free /\ u.current = d.current /\ u.total = d.total
            /\ u.keyBlocks = d.keyBlocks + w /\ u.valueBlocks = d.valueBlocks
    BY <2>0, HandleKey
  <2> QED BY <2>0, <2>1, <2>2
<1>2. d.keyBlocks + -1 = d.keyBlocks - 1
  BY HandleTypes
<1>3. n \in Nat /\ n = b.self
  OBVIOUS
<1> HIDE DEF g, n
<1>4. /\ e \in Handles /\ e.free = n /\ e.current = g.current /\ e.total = g.total
      /\ e.keyBlocks = g.keyBlocks /\ e.valueBlocks = g.valueBlocks
  BY <1>1, <1>3, HandleFree
<1>5. e = Destroyed(d, b)
  BY DEF Destroyed, g, n
<1> HIDE DEF e
<1>6. /\ e \in Handles /\ e.free = b.self /\ e.current = d.current /\ e.total = d.total
      /\ e.keyBlocks = d.keyBlocks - 1 /\ e.valueBlocks = d.valueBlocks
  BY <1>1, <1>2, <1>3, <1>4
<1> QED BY <1>5, <1>6

\* node_destroy where db_open would refuse both files that it writes.
LEMMA DestroyOff ==
  ASSUME NEW m, NEW s, NEW d, NEW d0, NEW B \in Seq(Blocks), Is(m, s, d, d0, B), d \in Handles,
         NEW n \in 1 .. Len(B), NEW b, b.self = n, NEW e, e = Destroyed(d, b), ~CountsOK(e, B),
         NEW C, C = Blk(B, n, FreeBlock(n, d.free)), ~CountsOK(e, C)
  PROVE  Is(m, node_destroy(s, b), e, e, C)
<1> DEFINE fb == FreeBlock(n, d.free)
           s1 == WithDb(s, e)
           s2 == head_flush(s1)
<1>0. d.free \in Nat /\ n \in Nat /\ s.db = d
  BY HandleTypes DEF Is
<1>1. fb \in Blocks /\ fb.self = n
  BY <1>0, FreeBlockFacts DEF FreeFacts
<1>2. Is(m, s1, e, d0, B)
  BY IsWithDb
<1>3. node_destroy(s, b) = node_flush(s2, fb)
  BY <1>0 DEF node_destroy, Destroyed
<1> HIDE DEF fb, s1
<1>4. Ok(m, FileOf(e, B))
  BY OffIsOk
<1>5. Is(m, s2, e, e, B)
  BY <1>2, <1>4, IsHead
<1> HIDE DEF s2
<1>6w. Written(B, Blk(B, n, fb), n, fb)
  BY <1>1, BlkType DEF fb
<1>6. C \in Seq(Blocks) /\ C = Blk(B, n, fb)
  BY <1>1, <1>6w DEF Written, fb
<1>7. Ok(m, FileOf(e, C))
  BY <1>6, OffIsOk
<1>8. Is(m, node_flush(s2, fb), e, e, Blk(B, n, fb))
  BY <1>1, <1>5, <1>6, <1>7, IsFlush
<1> QED BY <1>3, <1>6, <1>8

\* A block of the tree but the root is the child of another one.
LEMMA HasParent ==
  ASSUME NEW m \in Nat, NEW B, NEW h, Placed(B), TreeOK(m, B, h), NEW n \in Nat, Live(B, n), n # Root
  PROVE  \E i \in Nat : /\ Live(B, i) /\ ~B[i].leaf /\ h[i] = h[n] + 1 /\ h[i] <= h[Root]
                        /\ \E p \in 1 .. Len(B[i].kids) : B[i].kids[p] = n
<1>1. B \in Seq(Blocks) /\ Len(B) \in Nat /\ h \in [1 .. Len(B) -> Nat] /\ n \in 1 .. Len(B) /\ n # 0
  BY DEF Placed, TreeOK, Live, IsKey
<1>2. Weigh(B, WKids(n)) = 1
  BY <1>1 DEF TreeOK
<1>3. WKids(n) \in [Blocks -> Nat]
  BY WeightTypes
<1>4. PICK i \in 1 .. Len(B) : WKids(n)[B[i]] > 0
  BY <1>1, <1>2, <1>3, WeighPositive
<1>5. B[i] \in Blocks /\ B[i].self = i /\ i \in Nat
  BY <1>1 DEF Placed
<1>6. WKids(n)[B[i]] = Cnt(KidsOf(B[i]), {n}) /\ KidsOf(B[i]) \in Seq(Nat)
  BY <1>5, OfTypes DEF WKids
<1>7. Cnt(KidsOf(B[i]), {n}) # 0
  BY <1>4, <1>6
<1>8. PICK p \in 1 .. Len(KidsOf(B[i])) : KidsOf(B[i])[p] \in {n}
  BY <1>6, <1>7, CntPositive
<1>9. B[i].kind = "key" /\ KidsOf(B[i]) = B[i].kids
  <2>1. CASE B[i].kind # "key"
    BY <1>8, <2>1, EmptySeq DEF KidsOf
  <2> QED BY <2>1 DEF KidsOf
<1>10. p \in 1 .. Len(B[i].kids) /\ B[i].kids[p] = n
  BY <1>8, <1>9
<1>11. Live(B, i)
  <2> SUFFICES ASSUME ~Live(B, i) PROVE FALSE
    OBVIOUS
  <2>1. B[i].kids = <<0>>
    BY <1>5, <1>9 DEF TreeOK, IsKey
  <2>2. \A q \in 1 .. Len(<<0>>) : <<0>>[q] = 0
    OBVIOUS
  <2> QED BY <1>1, <1>10, <2>1, <2>2
<1>12. NodeAt(m, h, Len(B), B[i], i, B[i].leaf, B[i].ents, B[i].kids)
  BY <1>5, <1>11, NodeOf
<1>13. /\ B[i].kids \in Seq(Below(h, Len(B), h[i])) /\ h[i] \in Nat /\ h[i] <= h[Root] /\ (B[i].leaf <=> h[i] = 0)
  BY <1>12 DEF NodeAt
<1>14. n \in Below(h, Len(B), h[i])
  BY <1>10, <1>13, ElementOfSeq
<1>15. h[i] # 0 /\ h[n] = h[i] - 1
  BY <1>1, <1>14 DEF Below
<1>16. h[i] = h[n] + 1
  BY ONLY <1>13, <1>15
<1> QED BY <1>5, <1>10, <1>11, <1>13, <1>15, <1>16

\* Children nx and ny of block n0 and entry p between them, as one block, and
\* what n0 keeps.
MergedEnts(B, n0, p, nx, ny) == B[nx].ents \o <<B[n0].ents[p]>> \o B[ny].ents
MergedKids(B, nx, ny) == B[nx].kids \o B[ny].kids

Mergeable(m, h, B, n0, p, nx, ny) ==
  /\ n0 \in Nat /\ Live(B, n0) /\ ~B[n0].leaf /\ p \in 1 .. Len(B[n0].ents)
  /\ nx = B[n0].kids[p] /\ ny = B[n0].kids[p + 1]
  /\ Len(B[nx].ents) <= ceil(m) /\ Len(B[ny].ents) <= ceil(m)

MergedParts(m, h, B, n0, p, nx, ny) ==
  LET E == MergedEnts(B, n0, p, nx, ny)
      K == MergedKids(B, nx, ny)
      T == Below(h, Len(B), h[nx])
  IN  /\ Siblings(m, h, B, n0, nx, ny)
      /\ E \in Seq(Ent) /\ K \in Seq(T) /\ K \in Seq(Nat)
      /\ Len(E) = Len(B[nx].ents) + 1 + Len(B[ny].ents) /\ Len(K) = Len(E) + 1
      /\ Len(B[nx].ents) >= 1 /\ Len(B[ny].ents) >= 1
      /\ Len(E) >= 3 /\ Len(E) <= m
      /\ \A P : Cnt(E, P) = Cnt(B[nx].ents, P) + One(B[n0].ents[p], P) + Cnt(B[ny].ents, P)
      /\ \A P : Cnt(K, P) = Cnt(B[nx].kids, P) + Cnt(B[ny].kids, P)

LEMMA MergedLengths ==
  ASSUME NEW m \in Nat, NEW c \in Nat, c + c <= m - 1, NEW x \in Nat, NEW y \in Nat, x <= c, y <= c, x # 0, y # 0
  PROVE  x >= 1 /\ y >= 1 /\ x + 1 + y >= 3 /\ x + 1 + y <= m
OBVIOUS

LEMMA MergedPartsOf ==
  ASSUME NEW m \in Nat, m >= 4, NEW B, NEW h, Placed(B), TreeOK(m, B, h), NEW n0, NEW p, NEW nx, NEW ny,
         Mergeable(m, h, B, n0, p, nx, ny)
  PROVE  MergedParts(m, h, B, n0, p, nx, ny)
<1> DEFINE N == Len(B)
           E0 == B[n0].ents
           EX == B[nx].ents
           KX == B[nx].kids
           EY == B[ny].ents
           KY == B[ny].kids
           T == Below(h, N, h[nx])
           u == E0[p]
           q == p + 1
<1>1. /\ n0 \in Nat /\ Live(B, n0) /\ ~B[n0].leaf /\ p \in 1 .. Len(E0)
      /\ nx = B[n0].kids[p] /\ ny = B[n0].kids[q] /\ Len(EX) <= ceil(m) /\ Len(EY) <= ceil(m)
  BY DEF Mergeable
<1>2. NodeAt(m, h, N, B[n0], n0, B[n0].leaf, E0, B[n0].kids)
  BY <1>1, NodeOf
<1>3. p \in 1 .. Len(B[n0].kids) /\ q \in 1 .. Len(B[n0].kids) /\ p # q /\ E0 \in Seq(Ent)
  <2>1. Len(B[n0].kids) = Len(E0) + 1 /\ Len(E0) \in Nat /\ E0 \in Seq(Ent)
    BY <1>2 DEF NodeAt
  <2> QED BY <1>1, <2>1
<1> HIDE DEF q
<1>5. Siblings(m, h, B, n0, nx, ny)
  BY <1>1, <1>3, SiblingsOf
<1>6. EX \in Seq(Ent) /\ Len(EX) \in Nat /\ KX \in Seq(T) /\ Len(KX) = Len(EX) + 1 /\ KX \in Seq(Nat)
  BY <1>5 DEF Siblings, NodeAt
<1>7. EY \in Seq(Ent) /\ Len(EY) \in Nat /\ KY \in Seq(T) /\ Len(KY) = Len(EY) + 1 /\ KY \in Seq(Nat)
  BY <1>5 DEF Siblings, NodeAt
<1>8. EX # <<>> /\ EY # <<>> /\ u \in Ent
  <2>1. EX # <<>> /\ EY # <<>>
    BY <1>5 DEF Siblings, Live
  <2>2. u \in Ent
    BY <1>1, <1>3
  <2> QED BY <2>1, <2>2
<1> HIDE DEF E0, EX, KX, EY, KY, T, u
<1>9. Len(EX) # 0 /\ Len(EY) # 0
  BY <1>6, <1>7, <1>8, EmptySeq
<1>10. ceil(m) \in Nat /\ ceil(m) + ceil(m) <= m - 1
  BY CeilFacts
<1>11. Len(EX) >= 1 /\ Len(EY) >= 1 /\ Len(EX) + 1 + Len(EY) >= 3 /\ Len(EX) + 1 + Len(EY) <= m
  BY <1>1, <1>6, <1>7, <1>9, <1>10, MergedLengths
<1> DEFINE one == <<u>>
           F == EX \o one
           E == F \o EY
           K == KX \o KY
<1>12. one \in Seq(Ent) /\ Len(one) = 1 /\ \A P : Cnt(one, P) = One(u, P)
  BY <1>8, CntOne
<1> HIDE DEF one
<1>13. F \in Seq(Ent) /\ Len(F) = Len(EX) + Len(one) /\ \A P : Cnt(F, P) = Cnt(EX, P) + Cnt(one, P)
  <2>1. EX \in Seq(Ent) /\ one \in Seq(Ent)
    BY <1>6, <1>12
  <2> QED BY ONLY <2>1, ConcatFacts DEF F
<1> HIDE DEF F
<1>14. E \in Seq(Ent) /\ Len(E) = Len(F) + Len(EY) /\ \A P : Cnt(E, P) = Cnt(F, P) + Cnt(EY, P)
  BY <1>7, <1>13, ConcatFacts
<1>15. K \in Seq(T) /\ Len(K) = Len(KX) + Len(KY) /\ \A P : Cnt(K, P) = Cnt(KX, P) + Cnt(KY, P)
  <2>1. KX \in Seq(T) /\ KY \in Seq(T)
    BY <1>6, <1>7
  <2> QED BY ONLY <2>1, ConcatFacts DEF K
<1>16. K \in Seq(Nat)
  BY <1>6, <1>7, ConcatFacts
<1> HIDE DEF E, K
<1>17. Len(E) = Len(EX) + 1 + Len(EY)
  BY <1>12, <1>13, <1>14
<1>18. Len(K) = Len(E) + 1
  BY ONLY <1>6, <1>7, <1>15, <1>17
<1>19. \A P : Cnt(E, P) = Cnt(EX, P) + One(u, P) + Cnt(EY, P)
  BY <1>12, <1>13, <1>14
<1>20. Len(E) >= 3 /\ Len(E) <= m
  BY <1>11, <1>17
<1>21. E = MergedEnts(B, n0, p, nx, ny) /\ K = MergedKids(B, nx, ny)
  BY DEF E, F, one, K, u, E0, EX, KX, EY, KY, MergedEnts, MergedKids
<1> QED BY <1>5, <1>11, <1>14, <1>15, <1>16, <1>17, <1>18, <1>19, <1>20, <1>21
        DEF MergedParts, u, E0, EX, KX, EY, KY, T, N

\* The blocks after the merge below a block that keeps entries.
MergedRest(B, n0, p) == KeyBlock(n0, B[n0].leaf, RemoveAt(B[n0].ents, p), RemoveAt(B[n0].kids, p + 1))
MergedAll(B, n0, p, nx, ny) == KeyBlock(nx, B[nx].leaf, MergedEnts(B, n0, p, nx, ny), MergedKids(B, nx, ny))

MergedNodes(m, h, B, n0, p, nx, ny) ==
  LET E0 == B[n0].ents
      K0 == B[n0].kids
      u == E0[p]
  IN  /\ NodeAt(m, h, Len(B), MergedRest(B, n0, p), n0, B[n0].leaf, RemoveAt(E0, p), RemoveAt(K0, p + 1))
      /\ NodeAt(m, h, Len(B), MergedAll(B, n0, p, nx, ny), nx, B[nx].leaf,
                MergedEnts(B, n0, p, nx, ny), MergedKids(B, nx, ny))
      /\ \A P : Cnt(RemoveAt(E0, p), P) = Cnt(E0, P) - One(u, P)
      /\ \A P : Cnt(RemoveAt(K0, p + 1), P) = Cnt(K0, P) - One(ny, P)
      /\ Len(RemoveAt(E0, p)) = Len(E0) - 1 /\ Len(RemoveAt(E0, p)) > 0

LEMMA MergedNodesOf ==
  ASSUME NEW m \in Nat, m >= 4, NEW B, NEW h, Placed(B), TreeOK(m, B, h), NEW n0, NEW p, NEW nx, NEW ny,
         Mergeable(m, h, B, n0, p, nx, ny), MergedParts(m, h, B, n0, p, nx, ny), Len(B[n0].ents) > 1
  PROVE  MergedNodes(m, h, B, n0, p, nx, ny)
<1> DEFINE N == Len(B)
           E0 == B[n0].ents
           K0 == B[n0].kids
           l0 == B[n0].leaf
           l == B[nx].leaf
           u == E0[p]
           q == p + 1
           E == MergedEnts(B, n0, p, nx, ny)
           K == MergedKids(B, nx, ny)
           ER == RemoveAt(E0, p)
           KR == RemoveAt(K0, q)
<1>1. n0 \in Nat /\ Live(B, n0) /\ ~l0 /\ p \in 1 .. Len(E0) /\ ny = K0[q] /\ Len(E0) > 1
  BY DEF Mergeable
<1>2. N \in Nat /\ h \in [1 .. N -> Nat]
  BY DEF Placed, TreeOK
<1>3. NodeAt(m, h, N, B[n0], n0, l0, E0, K0)
  BY <1>1, NodeOf
<1>4. /\ NodeAt(m, h, N, B[nx], nx, l, B[nx].ents, B[nx].kids)
      /\ E \in Seq(Ent) /\ K \in Seq(Below(h, N, h[nx])) /\ Len(K) = Len(E) + 1 /\ Len(E) >= 3 /\ Len(E) <= m
  BY DEF MergedParts, Siblings
<1> HIDE DEF N, E0, K0, l0, l, u, E, K
<1>5. /\ n0 \in 1 .. N /\ l0 \in BOOLEAN /\ E0 \in Seq(Ent) /\ K0 \in Seq(Below(h, N, h[n0])) /\ Len(K0) = Len(E0) + 1
      /\ (l0 <=> h[n0] = 0) /\ h[n0] <= h[Root] /\ Len(E0) <= m /\ Len(E0) \in Nat
  BY <1>3 DEF NodeAt
<1>6. q \in 1 .. Len(K0)
  BY <1>1, <1>5
<1>7. ER \in Seq(Ent) /\ Len(ER) = Len(E0) - 1 /\ \A P : Cnt(ER, P) = Cnt(E0, P) - One(u, P)
  BY <1>1, <1>5, RemoveAtFacts DEF u
<1> HIDE DEF q
<1>8. KR \in Seq(Below(h, N, h[n0])) /\ Len(KR) = Len(K0) - 1 /\ \A P : Cnt(KR, P) = Cnt(K0, P) - One(ny, P)
  BY <1>1, <1>5, <1>6, RemoveAtFacts
<1> HIDE DEF ER, KR
<1>9. Len(KR) = Len(ER) + 1 /\ Len(ER) <= m /\ Len(ER) > 0 /\ m \in Nat
  <2> DEFINE a == Len(E0)
             b == Len(K0)
             c == Len(ER)
             e == Len(KR)
  <2>1. a \in Nat /\ a > 1 /\ a <= m /\ b = a + 1 /\ c = a - 1 /\ e = b - 1 /\ m \in Nat
    BY <1>1, <1>5, <1>7, <1>8
  <2> HIDE DEF a, b, c, e
  <2>2. e = c + 1 /\ c <= m /\ c > 0
    BY ONLY <2>1
  <2> QED BY <2>2 DEF c, e
<1>10. NodeAt(m, h, N, KeyBlock(n0, l0, ER, KR), n0, l0, ER, KR)
  BY ONLY <1>2, <1>5, <1>7, <1>8, <1>9, NodeMade
<1>11. NodeAt(m, h, N, KeyBlock(nx, l, E, K), nx, l, E, K)
  <2>1. nx \in 1 .. N /\ l \in BOOLEAN /\ (l <=> h[nx] = 0) /\ h[nx] <= h[Root]
    BY <1>4 DEF NodeAt
  <2>2. Len(E) > 0 /\ m \in Nat
    BY <1>4
  <2> QED BY ONLY <1>2, <1>4, <2>1, <2>2, NodeMade
<1> QED BY <1>7, <1>8, <1>9, <1>10, <1>11 DEF MergedNodes, MergedRest, MergedAll, N, E0, K0, l0, l, u, E, K, ER, KR, q

LEMMA MergedTree ==
  ASSUME NEW m \in Nat, NEW B, NEW h, Placed(B), TreeOK(m, B, h), NEW n0, NEW p, NEW nx, NEW ny,
         Mergeable(m, h, B, n0, p, nx, ny), MergedParts(m, h, B, n0, p, nx, ny),
         MergedNodes(m, h, B, n0, p, nx, ny), NEW a, a = MergedRest(B, n0, p),
         NEW b, b = MergedAll(B, n0, p, nx, ny), NEW next \in Nat, NEW c, c = FreeBlock(ny, next),
         NEW C, Three(B, C, n0, a, nx, b, ny, c)
  PROVE  Swap(B, C, n0, a, nx, b, ny, c) /\ TreeOK(m, C, h) /\ Live(C, n0) /\ Live(C, nx)
<1> DEFINE N == Len(B)
           E0 == B[n0].ents
           K0 == B[n0].kids
           EX == B[nx].ents
           KX == B[nx].kids
           EY == B[ny].ents
           KY == B[ny].kids
           u == E0[p]
           ER == RemoveAt(E0, p)
           KR == RemoveAt(K0, p + 1)
           E == MergedEnts(B, n0, p, nx, ny)
           K == MergedKids(B, nx, ny)
<1>1. B \in Seq(Blocks) /\ N \in Nat /\ h \in [1 .. N -> Nat]
  BY DEF Placed, TreeOK
<1>2. n0 \in Nat /\ Live(B, n0)
  BY DEF Mergeable
<1>s. Siblings(m, h, B, n0, nx, ny)
  BY DEF MergedParts
<1>3. /\ nx \in Nat /\ Live(B, nx) /\ nx # Root /\ nx # n0
      /\ ny \in Nat /\ Live(B, ny) /\ ny # Root /\ ny # n0 /\ ny # nx
  BY <1>s DEF Siblings
<1>4. /\ NodeAt(m, h, N, B[n0], n0, B[n0].leaf, E0, K0) /\ NodeAt(m, h, N, B[nx], nx, B[nx].leaf, EX, KX)
      /\ NodeAt(m, h, N, B[ny], ny, B[ny].leaf, EY, KY)
  BY <1>s DEF Siblings
<1>5. /\ NodeAt(m, h, N, a, n0, B[n0].leaf, ER, KR)
      /\ NodeAt(m, h, N, b, nx, B[nx].leaf, E, K)
      /\ \A P : Cnt(ER, P) = Cnt(E0, P) - One(u, P)
      /\ \A P : Cnt(KR, P) = Cnt(K0, P) - One(ny, P)
      /\ Len(ER) > 0
  BY DEF MergedNodes
<1>x. /\ \A P : Cnt(E, P) = Cnt(EX, P) + One(u, P) + Cnt(EY, P)
      /\ \A P : Cnt(K, P) = Cnt(KX, P) + Cnt(KY, P)
      /\ Len(E) >= 3
  BY DEF MergedParts
<1> HIDE DEF N, E0, K0, EX, KX, EY, KY, u, ER, KR, E, K
<1>6. (\A P : WEnts(P)[B[n0]] = Cnt(E0, P)) /\ \A x : WKids(x)[B[n0]] = Cnt(K0, {x})
  BY <1>4 DEF NodeAt, KeyFacts
<1>7. (\A P : WEnts(P)[B[nx]] = Cnt(EX, P)) /\ \A x : WKids(x)[B[nx]] = Cnt(KX, {x})
  BY <1>4 DEF NodeAt, KeyFacts
<1>8. (\A P : WEnts(P)[B[ny]] = Cnt(EY, P)) /\ \A x : WKids(x)[B[ny]] = Cnt(KY, {x})
  BY <1>4 DEF NodeAt, KeyFacts
<1>9. (\A P : WEnts(P)[a] = Cnt(ER, P)) /\ \A x : WKids(x)[a] = Cnt(KR, {x})
  BY <1>5 DEF NodeAt, KeyFacts
<1>10. (\A P : WEnts(P)[b] = Cnt(E, P)) /\ \A x : WKids(x)[b] = Cnt(K, {x})
  BY <1>5 DEF NodeAt, KeyFacts
<1>11. c \in Blocks /\ c.self = ny /\ c.kind = "free" /\ (\A P : WEnts(P)[c] = 0) /\ \A x : WKids(x)[c] = 0
  BY <1>3, FreeBlockFacts DEF FreeFacts
<1>12. /\ E0 \in Seq(Ent) /\ EX \in Seq(Ent) /\ EY \in Seq(Ent)
       /\ K0 \in Seq(Nat) /\ KX \in Seq(Nat) /\ KY \in Seq(Nat)
  BY <1>4 DEF NodeAt
<1>13. a.kind = "key" /\ b.kind = "key" /\ a.ents = ER /\ b.ents = E
  BY <1>5 DEF NodeAt, KeyFacts
<1>14. a \in Blocks /\ b \in Blocks /\ a.self = n0 /\ b.self = nx
  BY <1>5 DEF NodeAt, KeyFacts
<1>15. ASSUME NEW P
       PROVE  WEnts(P)[a] + WEnts(P)[b] + WEnts(P)[c] = WEnts(P)[B[n0]] + WEnts(P)[B[nx]] + WEnts(P)[B[ny]]
  <2> DEFINE e0 == Cnt(E0, P)
             ex == Cnt(EX, P)
             ey == Cnt(EY, P)
             o == One(u, P)
  <2>1. e0 \in Nat /\ ex \in Nat /\ ey \in Nat
    BY <1>12, CntType
  <2>2. o \in Nat
    BY DEF One
  <2>3. Cnt(ER, P) = e0 - o /\ Cnt(E, P) = ex + o + ey
    BY <1>5, <1>x
  <2>4. /\ WEnts(P)[a] = e0 - o /\ WEnts(P)[b] = ex + o + ey /\ WEnts(P)[c] = 0
        /\ WEnts(P)[B[n0]] = e0 /\ WEnts(P)[B[nx]] = ex /\ WEnts(P)[B[ny]] = ey
    BY <1>6, <1>7, <1>8, <1>9, <1>10, <1>11, <2>3
  <2> HIDE DEF e0, ex, ey, o
  <2>5. (e0 - o) + (ex + o + ey) + 0 = e0 + ex + ey
    BY ONLY <2>1, <2>2
  <2> QED BY <2>4, <2>5
<1>16. ASSUME NEW x PROVE Weigh(C, WKids(x)) = Weigh(B, WKids(x)) - One(ny, {x})
  <2> DEFINE f == WKids(x)
             k0 == Cnt(K0, {x})
             kx == Cnt(KX, {x})
             ky == Cnt(KY, {x})
             o == One(ny, {x})
             w == Weigh(B, f)
  <2>1. k0 \in Nat /\ kx \in Nat /\ ky \in Nat
    BY <1>12, CntType
  <2>2. o \in Nat
    BY DEF One
  <2>3. Cnt(KR, {x}) = k0 - o /\ Cnt(K, {x}) = kx + ky
    BY <1>5, <1>x
  <2>4. f[a] = k0 - o /\ f[b] = kx + ky /\ f[c] = 0 /\ f[B[n0]] = k0 /\ f[B[nx]] = kx /\ f[B[ny]] = ky
    BY <1>6, <1>7, <1>8, <1>9, <1>10, <1>11, <2>3
  <2>5. f \in [Blocks -> Nat] /\ w \in Nat
    BY <1>1, WeightTypes, WeighType
  <2>6. Weigh(C, f) = w - f[B[n0]] - f[B[nx]] - f[B[ny]] + f[a] + f[b] + f[c]
    BY <2>5 DEF Three
  <2> HIDE DEF f, k0, kx, ky, o, w
  <2>7. Weigh(C, f) = w - k0 - kx - ky + (k0 - o) + (kx + ky) + 0
    BY <2>4, <2>6
  <2>8. w - k0 - kx - ky + (k0 - o) + (kx + ky) + 0 = w - o
    BY ONLY <2>1, <2>2, <2>5
  <2> QED BY <2>7, <2>8 DEF f, w, o
<1>17. /\ Len(C) = N /\ C[n0] = a /\ C[nx] = b /\ C[ny] = c
       /\ \A i \in 1 .. N : i \notin {n0, nx, ny} => C[i] = B[i]
  BY DEF Three, N
<1>18. /\ n0 \in 1 .. N /\ nx \in 1 .. N /\ ny \in 1 .. N
       /\ B[n0].kind = "key" /\ B[nx].kind = "key" /\ B[ny].kind = "key"
  BY <1>2, <1>3 DEF Live, IsKey, N
<1>19. a.ents # <<>> /\ b.ents # <<>>
  <2>1. Len(<<>>) = 0
    BY EmptySeq
  <2>2. Len(ER) # 0
    BY ONLY <1>5
  <2>3. Len(E) # 0
    BY ONLY <1>x
  <2> QED BY <1>13, <2>1, <2>2, <2>3
<1>20. Live(C, n0) /\ Live(C, nx) /\ ~Live(C, ny)
  BY <1>11, <1>13, <1>17, <1>18, <1>19 DEF Live, IsKey
<1>21. ASSUME NEW i \in Nat, i # ny PROVE Live(C, i) <=> Live(B, i)
  <2>1. CASE i \in {n0, nx}
    BY <1>2, <1>3, <1>20, <2>1
  <2>2. CASE i \notin {n0, nx, ny}
    BY <1>17, <2>2 DEF Live, IsKey, N
  <2> QED BY <1>21, <2>1, <2>2
<1>22. TreeOK(m, C, h)
  <2>1. \A i \in Nat : i \notin {n0, nx, ny} /\ Live(B, i) => NodeOK(m, h, N, B[i])
    BY DEF TreeOK, N
  <2>2. NodeOK(m, h, N, a) /\ NodeOK(m, h, N, b)
    BY <1>5 DEF NodeAt
  <2>3. \A x \in Nat \ {0} : Weigh(C, WKids(x)) = IF Live(C, x) /\ x # Root THEN 1 ELSE 0
    <3> SUFFICES ASSUME NEW x \in Nat \ {0} PROVE Weigh(C, WKids(x)) = IF Live(C, x) /\ x # Root THEN 1 ELSE 0
      OBVIOUS
    <3>1. Weigh(B, WKids(x)) = IF Live(B, x) /\ x # Root THEN 1 ELSE 0
      BY DEF TreeOK
    <3>2. Weigh(C, WKids(x)) = Weigh(B, WKids(x)) - One(ny, {x})
      BY <1>16
    <3>3. CASE x = ny
      <4>1. Weigh(B, WKids(x)) = 1 /\ One(ny, {x}) = 1 /\ ~Live(C, x)
        BY <1>3, <1>20, <3>1, <3>3 DEF One
      <4> QED BY <3>2, <4>1
    <3>4. CASE x # ny
      <4>1. One(ny, {x}) = 0 /\ (Live(C, x) <=> Live(B, x))
        BY <1>21, <3>4 DEF One
      <4>2. Weigh(B, WKids(x)) \in Int
        BY <3>1
      <4>3. Weigh(B, WKids(x)) - 0 = Weigh(B, WKids(x))
        BY <4>2
      <4> QED BY <3>1, <3>2, <4>1, <4>3
    <3> QED BY <3>3, <3>4
  <2>4. /\ b.kind = "free" \/ (Live(C, nx) /\ NodeOK(m, h, N, b))
        /\ c.kind = "free" \/ (Live(C, ny) /\ NodeOK(m, h, N, c))
    BY <1>11, <1>20, <2>2
  <2>5. Live(C, n0) /\ NodeOK(m, h, N, a)
    BY <1>20, <2>2
  <2>6. n0 \in 1 .. N /\ nx \in 1 .. N /\ ny \in 1 .. N
    BY <1>18
  <2> QED BY ONLY <1>1, <2>1, <2>3, <2>4, <2>5, <2>6, TreeByThree, m \in Nat, TreeOK(m, B, h),
                  Three(B, C, n0, a, nx, b, ny, c) DEF N
<1>23. Swap(B, C, n0, a, nx, b, ny, c)
  <2>1. b.kind # "value" /\ c.kind # "value"
    BY <1>11, <1>13
  <2> QED BY <1>3, <1>11, <1>13, <1>14, <1>15, <1>18, <2>1 DEF Swap, N
<1> QED BY <1>20, <1>22, <1>23

\* A turn of db_delete that worked at block n0 has led to block n, which can
\* spare an entry unless it is the root. Blocks higher up are as before.
Reached(m, t, B, h, fl, n0, n, e, C, g, l) ==
  /\ Is(m, t, e, e, C) /\ Good(m, e, C, g, l) /\ Spare(C, l) \subseteq Spare(B, fl)
  /\ n \in Nat /\ Live(C, n) /\ (n = Root \/ Len(C[n].ents) >= 2)
  /\ Len(C) = Len(B) /\ \A i \in 1 .. Len(B) : h[i] > h[n0] => C[i] = B[i] /\ g[i] = h[i]
  /\ n0 # Root => g[n] < h[n0]

Stepped(m, t, B, h, fl, n0, n) == \E e, C, g, l : Reached(m, t, B, h, fl, n0, n, e, C, g, l)

\* The database after a merge: one key block less, and its block on the free list.
Merging(m, d, B, C, h, n0, a, nx, b, ny, c, e) ==
  /\ n0 \in 1 .. Len(B) /\ nx \in 1 .. Len(B) /\ ny \in 1 .. Len(B)
  /\ c = FreeBlock(ny, d.free) /\ e = Destroyed(d, B[ny]) /\ Three(B, C, n0, a, nx, b, ny, c)
  /\ Swap(B, C, n0, a, nx, b, ny, c) /\ TreeOK(m, C, h) /\ Live(C, n0) /\ Live(C, nx) /\ b.kind = "key"

LEMMA MergedGood ==
  ASSUME NEW m \in Nat, NEW d, NEW B, NEW h, NEW fl, Good(m, d, B, h, fl), NEW C,
         NEW n0, NEW a, NEW nx, NEW b, NEW ny, NEW c, NEW e, Merging(m, d, B, C, h, n0, a, nx, b, ny, c, e)
  PROVE  Good(m, e, C, h, Given(ny, fl)) /\ Spare(C, Given(ny, fl)) \subseteq Spare(B, fl)
<1>a. /\ n0 \in 1 .. Len(B) /\ nx \in 1 .. Len(B) /\ ny \in 1 .. Len(B)
      /\ c = FreeBlock(ny, d.free) /\ e = Destroyed(d, B[ny]) /\ Three(B, C, n0, a, nx, b, ny, c)
      /\ Swap(B, C, n0, a, nx, b, ny, c) /\ TreeOK(m, C, h) /\ Live(C, n0) /\ Live(C, nx) /\ b.kind = "key"
  BY DEF Merging
<1> USE <1>a
<1> DEFINE l == Given(ny, fl)
<1>0. Placed(B)
  BY DEF Good
<1>1. /\ d \in Handles /\ B \in Seq(Blocks) /\ Len(B) \in Nat /\ CountsOK(d, B) /\ FreeOK(d.free, B, fl)
      /\ B[ny].self = ny
  BY GoodTypes
<1>2. B[n0].kind = "key" /\ B[nx].kind = "key" /\ B[ny].kind = "key" /\ a.kind = "key"
  BY DEF Swap
<1>3. d.free \in Nat /\ d.keyBlocks \in Int /\ ny \in Nat
  BY <1>1, HandleTypes
<1>4. c.kind = "free" /\ c.next = d.free
  BY DEF FreeBlock
<1>5. /\ e \in Handles /\ e.free = ny /\ e.current = d.current /\ e.total = d.total
      /\ e.keyBlocks = d.keyBlocks - 1 /\ e.valueBlocks = d.valueBlocks
  BY <1>1, <1>2, <1>3, DestroyedKey
<1>6. Kept(d, C, b, c)
  BY KeptBySwap
<1>7. /\ Placed(C) /\ RefsOK(d.current, C)
      /\ Weigh(C, WCount("keys")) = d.total /\ Weigh(C, WCount("values")) = d.total
      /\ Weigh(C, WCount("valueBlocks")) = d.valueBlocks
      /\ Weigh(C, WCount("keyBlocks")) = d.keyBlocks - 2 + 1 + 0
  BY <1>4, <1>6 DEF Kept
<1>8. d.keyBlocks - 2 + 1 + 0 = d.keyBlocks - 1
  BY <1>3
<1>9. CountsOK(e, C)
  BY <1>5, <1>7, <1>8 DEF CountsOK
<1>10. /\ Len(C) = Len(B) /\ C[n0] = a /\ C[nx] = b /\ C[ny] = c
       /\ \A i \in 1 .. Len(B) : i \notin {n0, nx, ny} => C[i] = B[i]
  BY DEF Three
<1>11. \A i \in 1 .. Len(B) : B[i].kind = "free" => C[i] = B[i]
  BY <1>2, <1>10
<1>12. /\ FreeOK(ny, C, l)
       /\ \A k : (\A i \in 1 .. Len(l) : l[i] # k) => k # ny /\ \A i \in 1 .. Len(fl) : fl[i] # k
  <2>1. GivenUp(d.free, B, C, fl, ny)
    <3>1. FreeOK(d.free, B, fl) /\ Len(B) \in Nat /\ Len(C) = Len(B) /\ B[ny].kind # "free"
      BY <1>1, <1>2, <1>10
    <3>2. C[ny].kind = "free" /\ C[ny].next = d.free
      BY <1>4, <1>10
    <3> QED BY <1>11, <3>1, <3>2 DEF GivenUp
  <2>2. NowFree(C, fl, ny)
    BY <1>3, <2>1, FreeGiven
  <2> QED BY ONLY <2>2 DEF NowFree, l
<1> HIDE DEF l
<1>13. Good(m, e, C, h, l)
  BY <1>5, <1>7, <1>9, <1>12 DEF Good
<1>14. ASSUME NEW n \in Spare(C, l) PROVE n \in Spare(B, fl)
  <2>1. /\ n \in 1 .. Len(B)
        /\ \/ C[n].kind = "free" /\ \A i \in 1 .. Len(l) : l[i] # n
           \/ C[n].kind = "key" /\ ~Live(C, n)
    BY <1>10 DEF Spare
  <2>2. CASE C[n].kind = "free" /\ \A i \in 1 .. Len(l) : l[i] # n
    <3>1. n # ny /\ \A i \in 1 .. Len(fl) : fl[i] # n
      BY <1>12, <2>2
    <3>2. n # n0 /\ n # nx
      BY <1>2, <1>10, <2>2
    <3>3. C[n] = B[n]
      BY <1>10, <2>1, <3>1, <3>2
    <3> QED BY <2>1, <2>2, <3>1, <3>3 DEF Spare
  <2>3. CASE C[n].kind = "key" /\ ~Live(C, n)
    <3>1. n \notin {n0, nx, ny}
      BY <1>4, <1>10, <2>3
    <3>2. C[n] = B[n]
      BY <1>10, <2>1, <3>1
    <3>3. ~Live(B, n)
      BY <1>10, <2>1, <2>3, <3>2 DEF Live, IsKey
    <3> QED BY <2>1, <2>3, <3>2, <3>3 DEF Spare
  <2> QED BY <2>1, <2>2, <2>3
<1> QED BY <1>13, <1>14 DEF l

LEMMA MergeBelow ==
  ASSUME NEW m \in Nat, m >= 4, NEW s, NEW d, NEW B, NEW h, NEW fl, Good(m, d, B, h, fl), Is(m, s, d, d, B),
         NEW n0, NEW p, NEW nx, NEW ny, Mergeable(m, h, B, n0, p, nx, ny), Len(B[n0].ents) > 1
  PROVE  Stepped(m, btree_merge(s, B[n0], p, B[nx], B[ny]), B, h, fl, n0, nx)
<1> DEFINE e == Destroyed(d, B[ny])
           a == MergedRest(B, n0, p)
           b == MergedAll(B, n0, p, nx, ny)
           c == FreeBlock(ny, d.free)
           B1 == Blk(B, ny, c)
           B2 == Blk(B1, nx, b)
           C == Blk(B2, n0, a)
           t1 == node_destroy(s, B[ny])
           t == btree_merge(s, B[n0], p, B[nx], B[ny])
           EX == B[nx].ents
           EY == B[ny].ents
           E == MergedEnts(B, n0, p, nx, ny)
<1>0. Placed(B)
  BY DEF Good
<1>1. /\ TreeOK(m, B, h) /\ B \in Seq(Blocks) /\ Len(B) \in Nat /\ h \in [1 .. Len(B) -> Nat]
      /\ d \in Handles /\ CountsOK(d, B)
  BY GoodTypes
<1>2. MergedParts(m, h, B, n0, p, nx, ny)
  BY <1>0, <1>1, MergedPartsOf
<1>3. MergedNodes(m, h, B, n0, p, nx, ny)
  BY <1>0, <1>1, <1>2, MergedNodesOf
<1>s. Siblings(m, h, B, n0, nx, ny)
  BY <1>2 DEF MergedParts
<1>4. /\ nx \in Nat /\ Live(B, nx) /\ nx # Root /\ nx # n0 /\ h[nx] = h[ny] /\ h[n0] = h[nx] + 1
      /\ ny \in Nat /\ Live(B, ny) /\ ny # Root /\ ny # n0 /\ ny # nx /\ n0 \in Nat /\ Live(B, n0)
  BY <1>s DEF Siblings, Mergeable
<1>5. /\ n0 \in 1 .. Len(B) /\ nx \in 1 .. Len(B) /\ ny \in 1 .. Len(B) /\ B[ny].kind = "key" /\ B[nx].kind = "key"
      /\ B[n0].kind = "key"
  BY <1>4 DEF Live, IsKey
<1>6. B[ny].self = ny /\ B[nx].self = nx /\ B[n0].self = n0
  BY <1>0, <1>5 DEF Placed
<1>7. /\ KeyFacts(a, n0, B[n0].leaf, RemoveAt(B[n0].ents, p), RemoveAt(B[n0].kids, p + 1))
      /\ KeyFacts(b, nx, B[nx].leaf, E, MergedKids(B, nx, ny))
      /\ Len(RemoveAt(B[n0].ents, p)) > 0
  BY <1>3 DEF MergedNodes, NodeAt
<1>8. a \in Blocks /\ a.self = n0 /\ a.kind = "key" /\ a.ents = RemoveAt(B[n0].ents, p)
  BY <1>7 DEF KeyFacts
<1>9. b \in Blocks /\ b.self = nx /\ b.kind = "key" /\ WCount("keys")[b] = Len(E) /\ b.ents = E
  BY <1>7 DEF KeyFacts
<1>10. WCount("keys")[B[nx]] = Len(EX) /\ WCount("keys")[B[ny]] = Len(EY) /\ Len(EX) \in Nat /\ Len(EY) \in Nat
  BY <1>s DEF Siblings, NodeAt, KeyFacts
<1>11. Len(E) = Len(EX) + 1 + Len(EY) /\ Len(EY) >= 1 /\ Len(E) >= 3
  BY <1>2 DEF MergedParts
<1>12. d.free \in Nat /\ d.keyBlocks \in Int /\ d.total \in Int
  BY <1>1, HandleTypes
<1>13. c \in Blocks /\ c.self = ny /\ c.kind = "free" /\ WCount("keys")[c] = 0
  BY <1>4, <1>12, FreeBlockFacts DEF FreeFacts
<1>14. t = node_flush(node_flush(t1, b), a)
  <2>1. Filled(B[nx], B[nx].ents \o <<B[n0].ents[p]>> \o B[ny].ents, B[nx].kids \o B[ny].kids) = b
    BY <1>6 DEF Filled, MergedAll, MergedEnts, MergedKids
  <2>2. Filled(B[n0], RemoveAt(B[n0].ents, p), RemoveAt(B[n0].kids, p + 1)) = a
    BY <1>6 DEF Filled, MergedRest
  <2>3. a.ents # <<>>
    BY <1>7, <1>8, EmptySeq
  <2> HIDE DEF a, b
  <2> QED BY <2>1, <2>2, <2>3 DEF btree_merge
<1>15. /\ e \in Handles /\ e.total = d.total /\ e.keyBlocks = d.keyBlocks - 1
  BY <1>1, <1>4, <1>5, <1>6, DestroyedKey
<1>16. e = Destroyed(d, B[ny]) /\ a = MergedRest(B, n0, p) /\ b = MergedAll(B, n0, p, nx, ny) /\ c = FreeBlock(ny, d.free)
  OBVIOUS
<1> HIDE DEF e, a, b, c, t, EX, EY, E
<1>17. Weigh(B, WCount("keys")) = d.total /\ Weigh(B, WCount("keyBlocks")) = d.keyBlocks
  BY <1>1 DEF CountsOK
<1>18. ~CountsOK(e, B)
  <2>1. d.keyBlocks # d.keyBlocks - 1
    BY <1>12
  <2> QED BY <1>15, <1>17, <2>1 DEF CountsOK
<1>19w. Written(B, B1, ny, c)
  BY <1>1, <1>5, <1>13, BlkType
<1>19. B1 \in Seq(Blocks) /\ Len(B1) = Len(B)
  BY <1>1, <1>5, <1>13, <1>19w DEF Written
<1>20. ~CountsOK(e, B1)
  <2>1. Weigh(B1, WCount("keys")) = d.total - Len(EY) + 0
    <3> DEFINE f == WCount("keys")
    <3>1. f \in [Blocks -> Nat]
      BY CountTypes
    <3>2. f[B[ny]] = Len(EY) /\ f[c] = 0 /\ Weigh(B, f) = d.total
      BY <1>10, <1>13, <1>17
    <3> HIDE DEF f
    <3>3. Weigh(Blk(B, ny, c), f) = Weigh(B, f) - f[B[ny]] + f[c]
      BY <1>1, <1>5, <1>13, <3>1, WeighBlk
    <3> QED BY <3>2, <3>3 DEF f
  <2>2. d.total - Len(EY) + 0 # d.total
    BY ONLY <1>10, <1>11, <1>12
  <2> QED BY <1>15, <2>1, <2>2 DEF CountsOK
<1>21. Is(m, t1, e, e, B1)
  <2>1. c = FreeBlock(ny, d.free) /\ B1 = Blk(B, ny, FreeBlock(ny, d.free))
    BY <1>16
  <2> HIDE DEF B1
  <2> QED BY <1>1, <1>5, <1>6, <1>16, <1>18, <1>20, <2>1, DestroyOff
<1>22. Two(B, B2, ny, c, nx, b)
  BY <1>1, <1>4, <1>5, <1>9, <1>13, WeighTwo
<1>23. Three(B, C, ny, c, nx, b, n0, a)
  BY <1>1, <1>4, <1>5, <1>8, <1>9, <1>13, WeighThree
<1> HIDE DEF t1, B1
<1>24. B2 \in Seq(Blocks) /\ Len(B2) = Len(B) /\ Weigh(B2, WCount("keys")) = d.total - Len(EY) - Len(EX) + 0 + Len(E)
  <2>1. B2 \in Seq(Blocks) /\ Len(B2) = Len(B)
    BY <1>22 DEF Two
  <2>2. WCount("keys") \in [Blocks -> Nat]
    BY CountTypes
  <2>3. Weigh(B2, WCount("keys")) = Weigh(B, WCount("keys")) - WCount("keys")[B[ny]] - WCount("keys")[B[nx]]
                                      + WCount("keys")[c] + WCount("keys")[b]
    <3> HIDE DEF B2
    <3> QED BY <1>22, <2>2 DEF Two
  <2> QED BY <1>9, <1>10, <1>13, <1>17, <2>1, <2>3
<1>25. d.total - Len(EY) - Len(EX) + 0 + Len(E) # d.total
  BY ONLY <1>10, <1>11, <1>12
<1>26. ~CountsOK(e, B2)
  BY <1>15, <1>24, <1>25 DEF CountsOK
<1>27. Is(m, node_flush(t1, b), e, e, B2)
  <2>1. Ok(m, FileOf(e, B2))
    BY <1>24, <1>26, OffIsOk
  <2>2. nx \in 1 .. Len(B1)
    BY <1>5, <1>19
  <2> QED BY <1>9, <1>19, <1>21, <2>1, <2>2, IsFlush
<1> HIDE DEF B2
<1>28. Three(B, C, n0, a, nx, b, ny, c)
  BY <1>1, <1>5, <1>8, <1>9, <1>13, <1>23, ThreeReversed
<1>29. Swap(B, C, n0, a, nx, b, ny, c) /\ TreeOK(m, C, h) /\ Live(C, n0) /\ Live(C, nx)
  <2> HIDE DEF C
  <2> QED BY <1>0, <1>1, <1>2, <1>3, <1>12, <1>16, <1>28, MergedTree
<1> DEFINE l == Given(ny, fl)
<1>30. Good(m, e, C, h, l) /\ Spare(C, l) \subseteq Spare(B, fl)
  <2> HIDE DEF C
  <2>1. Merging(m, d, B, C, h, n0, a, nx, b, ny, c, e)
    BY <1>5, <1>9, <1>16, <1>28, <1>29 DEF Merging
  <2> QED BY <2>1, MergedGood
<1> HIDE DEF l
<1>31. Is(m, t, e, e, C)
  <2>1. Ok(m, FileOf(e, C))
    BY <1>30, GoodIsOk
  <2>2. n0 \in 1 .. Len(B2)
    BY <1>5, <1>24
  <2> QED BY <1>8, <1>14, <1>24, <1>27, <2>1, <2>2, IsFlush
<1> HIDE DEF C
<1>32. Len(C) = Len(B) /\ C[nx] = b /\ \A i \in 1 .. Len(B) : i \notin {n0, nx, ny} => C[i] = B[i]
  BY <1>28 DEF Three
<1>33. Len(C[nx].ents) >= 2
  BY <1>9, <1>11, <1>32
<1>34. h[n0] \in Nat /\ h[nx] \in Nat /\ h[nx] < h[n0] /\ h[ny] < h[n0]
  BY <1>1, <1>4, <1>5
<1>35. \A i \in 1 .. Len(B) : h[i] > h[n0] => C[i] = B[i] /\ h[i] = h[i]
  <2> SUFFICES ASSUME NEW i \in 1 .. Len(B), h[i] > h[n0] PROVE C[i] = B[i]
    OBVIOUS
  <2>1. h[i] \in Nat /\ h[ny] \in Nat
    BY <1>1, <1>5
  <2>2. i \notin {n0, nx, ny}
    BY <1>34, <2>1
  <2> QED BY <1>32, <2>2
<1>36. Reached(m, t, B, h, fl, n0, nx, e, C, h, l)
  BY <1>4, <1>29, <1>30, <1>31, <1>32, <1>33, <1>34, <1>35 DEF Reached
<1> QED BY <1>36 DEF Stepped, t


\* A root with one entry takes over the contents of its children and the entry
\* between them; the tree has one level less.
Joined(B, nx, ny) == KeyBlock(Root, B[nx].leaf, MergedEnts(B, Root, 1, nx, ny), MergedKids(B, nx, ny))

Lowered(h, nx) == [h EXCEPT ![Root] = h[nx]]

JoinedParts(m, h, B, nx, ny) ==
  LET E0 == B[Root].ents
      K0 == B[Root].kids
  IN  /\ NodeAt(m, Lowered(h, nx), Len(B), Joined(B, nx, ny), Root, B[nx].leaf,
                MergedEnts(B, Root, 1, nx, ny), MergedKids(B, nx, ny))
      /\ \A P : Cnt(E0, P) = One(E0[1], P)
      /\ \A P : Cnt(K0, P) = One(nx, P) + One(ny, P)

LEMMA CntOfOne ==
  ASSUME NEW S, NEW s \in Seq(S), Len(s) = 1, NEW P
  PROVE  Cnt(s, P) = One(s[1], P)
<1>1. Tail(s) \in Seq(S) /\ Len(Tail(s)) = Len(s) - 1 /\ Cnt(Tail(s), P) = Cnt(s, P) - One(s[1], P)
  BY TailFacts
<1>2. Tail(s) = <<>>
  <2>1. Len(Tail(s)) = 0
    BY <1>1
  <2> QED BY ONLY <1>1, <2>1, EmptySeq
<1>3. Cnt(Tail(s), P) = 0
  BY <1>2, CntEmpty
<1>4. Cnt(s, P) \in Nat /\ One(s[1], P) \in Nat
  BY CntType DEF One
<1> QED BY ONLY <1>1, <1>3, <1>4

LEMMA CntOfTwo ==
  ASSUME NEW S, NEW s \in Seq(S), Len(s) = 2, NEW P
  PROVE  Cnt(s, P) = One(s[1], P) + One(s[2], P)
<1>1. Tail(s) \in Seq(S) /\ Len(Tail(s)) = Len(s) - 1 /\ Cnt(Tail(s), P) = Cnt(s, P) - One(s[1], P)
  BY TailFacts
<1>2. Tail(s)[1] = s[2]
  <2>1. 1 \in 1 .. Len(s) - 1
    OBVIOUS
  <2> QED BY <1>1, <2>1, HeadTailProperties
<1>3. Cnt(Tail(s), P) = One(s[2], P)
  <2>1. Len(Tail(s)) = 1
    BY <1>1
  <2>2. Cnt(Tail(s), P) = One(Tail(s)[1], P)
    BY ONLY <1>1, <2>1, CntOfOne
  <2> QED BY <1>2, <2>2
<1>4. Cnt(s, P) \in Nat /\ One(s[1], P) \in Nat /\ One(s[2], P) \in Nat
  BY CntType DEF One
<1> QED BY ONLY <1>1, <1>3, <1>4

LEMMA JoinedPartsOf ==
  ASSUME NEW m \in Nat, NEW B, NEW h, Placed(B), TreeOK(m, B, h), NEW nx, NEW ny,
         Mergeable(m, h, B, Root, 1, nx, ny), MergedParts(m, h, B, Root, 1, nx, ny), Len(B[Root].ents) = 1
  PROVE  JoinedParts(m, h, B, nx, ny)
<1> DEFINE N == Len(B)
           g == Lowered(h, nx)
           E == MergedEnts(B, Root, 1, nx, ny)
           K == MergedKids(B, nx, ny)
           T == Below(h, N, h[nx])
           E0 == B[Root].ents
           K0 == B[Root].kids
<1>1. N \in Nat /\ h \in [1 .. N -> Nat] /\ N >= 1 /\ Root \in 1 .. N
  BY DEF Placed, TreeOK, Root
<1>2. /\ Siblings(m, h, B, Root, nx, ny) /\ E \in Seq(Ent) /\ K \in Seq(T)
      /\ Len(K) = Len(E) + 1 /\ Len(E) >= 3 /\ Len(E) <= m
  BY DEF MergedParts
<1>3. /\ NodeAt(m, h, N, B[nx], nx, B[nx].leaf, B[nx].ents, B[nx].kids)
      /\ NodeAt(m, h, N, B[Root], Root, B[Root].leaf, E0, K0)
      /\ h[Root] = h[nx] + 1 /\ nx # Root
  BY <1>2 DEF Siblings
<1>4. nx \in 1 .. N /\ (B[nx].leaf <=> h[nx] = 0) /\ B[nx].leaf \in BOOLEAN /\ h[nx] \in Nat
  BY <1>3 DEF NodeAt
<1>5. g \in [1 .. N -> Nat] /\ g[Root] = h[nx] /\ \A i \in 1 .. N : i # Root => g[i] = h[i]
  BY <1>1, <1>4 DEF Lowered
<1>6. E0 \in Seq(Ent) /\ K0 \in Seq(Nat) /\ Len(K0) = Len(E0) + 1
  BY <1>3 DEF NodeAt
<1>7. nx = K0[1] /\ ny = K0[2]
  <2>1. 1 + 1 = 2
    OBVIOUS
  <2> QED BY <2>1 DEF Mergeable
<1> HIDE DEF g, E, K, E0, K0, N
<1>8. T \subseteq Below(g, N, g[Root])
  <2> SUFFICES ASSUME NEW c \in T PROVE c \in Below(g, N, h[nx])
    BY <1>5
  <2>1. CASE h[nx] = 0
    BY <2>1 DEF Below
  <2>2. CASE h[nx] # 0
    <3>1. c \in 1 .. N /\ h[c] = h[nx] - 1
      BY <2>2 DEF Below
    <3>2. c # Root
      <4> SUFFICES ASSUME c = Root PROVE FALSE
        OBVIOUS
      <4>1. h[Root] = h[nx] - 1
        BY <3>1
      <4> QED BY ONLY <4>1, <1>3, <1>4
    <3>3. g[c] = h[nx] - 1
      BY <1>5, <3>1, <3>2
    <3> QED BY <2>2, <3>1, <3>3 DEF Below
  <2> QED BY <2>1, <2>2
<1> HIDE DEF T
<1>9. K \in Seq(Below(g, N, g[Root]))
  BY <1>2, <1>8
<1>10. NodeAt(m, g, N, KeyBlock(Root, B[nx].leaf, E, K), Root, B[nx].leaf, E, K)
  <2>1. (B[nx].leaf <=> g[Root] = 0) /\ g[Root] <= g[Root] /\ Len(E) > 0
    BY <1>2, <1>4, <1>5
  <2> QED BY ONLY <1>1, <1>2, <1>4, <1>5, <1>9, <2>1, NodeMade, m \in Nat
<1>11. NodeAt(m, g, N, Joined(B, nx, ny), Root, B[nx].leaf, E, K)
  BY <1>10 DEF Joined, E, K
<1>12. \A P : Cnt(E0, P) = One(E0[1], P)
  BY <1>6, CntOfOne DEF E0
<1>13. \A P : Cnt(K0, P) = One(nx, P) + One(ny, P)
  <2>1. Len(K0) = 2
    BY <1>6 DEF E0
  <2> QED BY <1>6, <1>7, <2>1, CntOfTwo
<1> QED BY <1>11, <1>12, <1>13 DEF JoinedParts, E0, K0, g, E, K, N

LEMMA JoinedTree ==
  ASSUME NEW m \in Nat, NEW B, NEW h, Placed(B), TreeOK(m, B, h), NEW nx, NEW ny,
         Mergeable(m, h, B, Root, 1, nx, ny), MergedParts(m, h, B, Root, 1, nx, ny), JoinedParts(m, h, B, nx, ny),
         NEW a, a = Joined(B, nx, ny), NEW b, b = FreeBlock(nx, ny), NEW next \in Nat, NEW c, c = FreeBlock(ny, next),
         NEW C, Three(B, C, Root, a, nx, b, ny, c)
  PROVE  Swap(B, C, Root, a, nx, b, ny, c) /\ TreeOK(m, C, Lowered(h, nx)) /\ Live(C, Root)
<1> DEFINE N == Len(B)
           g == Lowered(h, nx)
           E0 == B[Root].ents
           K0 == B[Root].kids
           EX == B[nx].ents
           KX == B[nx].kids
           EY == B[ny].ents
           KY == B[ny].kids
           u == E0[1]
           E == MergedEnts(B, Root, 1, nx, ny)
           K == MergedKids(B, nx, ny)
<1>1. B \in Seq(Blocks) /\ N \in Nat /\ h \in [1 .. N -> Nat] /\ N >= 1 /\ Root \in 1 .. N /\ Root \in Nat
  BY DEF Placed, TreeOK, Root
<1>s. Siblings(m, h, B, Root, nx, ny)
  BY DEF MergedParts
<1>2. Live(B, Root)
  BY DEF Mergeable
<1>3. /\ nx \in Nat /\ Live(B, nx) /\ nx # Root /\ h[Root] = h[nx] + 1
      /\ ny \in Nat /\ Live(B, ny) /\ ny # Root /\ ny # nx
  BY <1>s DEF Siblings
<1>4. /\ NodeAt(m, h, N, B[Root], Root, B[Root].leaf, E0, K0) /\ NodeAt(m, h, N, B[nx], nx, B[nx].leaf, EX, KX)
      /\ NodeAt(m, h, N, B[ny], ny, B[ny].leaf, EY, KY)
  BY <1>s DEF Siblings
<1>5. /\ NodeAt(m, g, N, a, Root, B[nx].leaf, E, K)
      /\ \A P : Cnt(E0, P) = One(u, P)
      /\ \A P : Cnt(K0, P) = One(nx, P) + One(ny, P)
  BY DEF JoinedParts
<1>x. /\ \A P : Cnt(E, P) = Cnt(EX, P) + One(u, P) + Cnt(EY, P)
      /\ \A P : Cnt(K, P) = Cnt(KX, P) + Cnt(KY, P)
      /\ Len(E) >= 3
  BY DEF MergedParts
<1>n. nx \in 1 .. N /\ ny \in 1 .. N /\ h[nx] \in Nat
  BY <1>4 DEF NodeAt
<1>g. g = [h EXCEPT ![Root] = h[nx]] /\ g \in [1 .. N -> Nat]
  BY <1>1, <1>n DEF Lowered
<1> HIDE DEF N, E0, K0, EX, KX, EY, KY, u, E, K, g
<1>6. (\A P : WEnts(P)[B[Root]] = Cnt(E0, P)) /\ \A x : WKids(x)[B[Root]] = Cnt(K0, {x})
  BY <1>4 DEF NodeAt, KeyFacts
<1>7. (\A P : WEnts(P)[B[nx]] = Cnt(EX, P)) /\ \A x : WKids(x)[B[nx]] = Cnt(KX, {x})
  BY <1>4 DEF NodeAt, KeyFacts
<1>8. (\A P : WEnts(P)[B[ny]] = Cnt(EY, P)) /\ \A x : WKids(x)[B[ny]] = Cnt(KY, {x})
  BY <1>4 DEF NodeAt, KeyFacts
<1>9. (\A P : WEnts(P)[a] = Cnt(E, P)) /\ \A x : WKids(x)[a] = Cnt(K, {x})
  BY <1>5 DEF NodeAt, KeyFacts
<1>10. b \in Blocks /\ b.self = nx /\ b.kind = "free" /\ (\A P : WEnts(P)[b] = 0) /\ \A x : WKids(x)[b] = 0
  BY <1>3, FreeBlockFacts DEF FreeFacts
<1>11. c \in Blocks /\ c.self = ny /\ c.kind = "free" /\ (\A P : WEnts(P)[c] = 0) /\ \A x : WKids(x)[c] = 0
  BY <1>3, FreeBlockFacts DEF FreeFacts
<1>12. /\ E0 \in Seq(Ent) /\ EX \in Seq(Ent) /\ EY \in Seq(Ent)
       /\ K0 \in Seq(Nat) /\ KX \in Seq(Nat) /\ KY \in Seq(Nat)
  BY <1>4 DEF NodeAt
<1>13. a.kind = "key" /\ a.ents = E /\ a \in Blocks /\ a.self = Root
  BY <1>5 DEF NodeAt, KeyFacts
<1>14. ASSUME NEW P
       PROVE  WEnts(P)[a] + WEnts(P)[b] + WEnts(P)[c] = WEnts(P)[B[Root]] + WEnts(P)[B[nx]] + WEnts(P)[B[ny]]
  <2> DEFINE ex == Cnt(EX, P)
             ey == Cnt(EY, P)
             o == One(u, P)
  <2>1. ex \in Nat /\ ey \in Nat
    BY <1>12, CntType
  <2>2. o \in Nat
    BY DEF One
  <2>3. Cnt(E0, P) = o /\ Cnt(E, P) = ex + o + ey
    BY <1>5, <1>x
  <2>4. /\ WEnts(P)[a] = ex + o + ey /\ WEnts(P)[b] = 0 /\ WEnts(P)[c] = 0
        /\ WEnts(P)[B[Root]] = o /\ WEnts(P)[B[nx]] = ex /\ WEnts(P)[B[ny]] = ey
    BY <1>6, <1>7, <1>8, <1>9, <1>10, <1>11, <2>3
  <2> HIDE DEF ex, ey, o
  <2>5. (ex + o + ey) + 0 + 0 = o + ex + ey
    BY ONLY <2>1, <2>2
  <2> QED BY <2>4, <2>5
<1>15. ASSUME NEW x PROVE Weigh(C, WKids(x)) = Weigh(B, WKids(x)) - One(nx, {x}) - One(ny, {x})
  <2> DEFINE f == WKids(x)
             kx == Cnt(KX, {x})
             ky == Cnt(KY, {x})
             o == One(nx, {x})
             r == One(ny, {x})
             w == Weigh(B, f)
  <2>1. kx \in Nat /\ ky \in Nat
    BY <1>12, CntType
  <2>2. o \in Nat /\ r \in Nat
    BY DEF One
  <2>3. f \in [Blocks -> Nat]
    BY WeightTypes
  <2>4. w \in Nat
    BY <1>1, <2>3, WeighType
  <2>5. Cnt(K0, {x}) = o + r /\ Cnt(K, {x}) = kx + ky
    BY <1>5, <1>x
  <2>6. f[a] = kx + ky /\ f[b] = 0 /\ f[c] = 0 /\ f[B[Root]] = o + r /\ f[B[nx]] = kx /\ f[B[ny]] = ky
    BY <1>6, <1>7, <1>8, <1>9, <1>10, <1>11, <2>5
  <2> HIDE DEF f, w
  <2>7. Weigh(C, f) = w - f[B[Root]] - f[B[nx]] - f[B[ny]] + f[a] + f[b] + f[c]
    BY <2>3 DEF Three, w
  <2>8. Weigh(C, f) = w - (o + r) - kx - ky + (kx + ky) + 0 + 0
    BY <2>6, <2>7
  <2> HIDE DEF kx, ky, o, r
  <2>9. w - (o + r) - kx - ky + (kx + ky) + 0 + 0 = w - o - r
    BY ONLY <2>1, <2>2, <2>4
  <2> QED BY <2>8, <2>9 DEF o, r, w, f
<1>16. /\ Len(C) = N /\ C[Root] = a /\ C[nx] = b /\ C[ny] = c
       /\ \A i \in 1 .. N : i \notin {Root, nx, ny} => C[i] = B[i]
  BY DEF Three, N
<1>17. Live(C, Root) /\ ~Live(C, nx) /\ ~Live(C, ny)
  BY <1>1, <1>10, <1>11, <1>13, <1>16 DEF Live, IsKey
<1>18. ASSUME NEW i \in Nat, i \notin {nx, ny} PROVE Live(C, i) <=> Live(B, i)
  <2>1. CASE i = Root
    BY <1>2, <1>17, <2>1
  <2>2. CASE i # Root
    BY <1>16, <1>18, <2>2 DEF Live, IsKey, N
  <2> QED BY <2>1, <2>2
<1>19. ASSUME NEW n \in Nat, n \notin {Root, nx, ny}, Live(B, n) PROVE NodeOK(m, g, N, B[n])
  <2>1. NodeOK(m, h, N, B[n])
    BY <1>19 DEF TreeOK, N
  <2>2. n \in 1 .. N /\ B[n].self = n
    BY <1>19 DEF Live, IsKey, Placed, N
  <2>3. Cnt(B[n].kids, {Root}) = 0
    <3>1. Root \in Nat \ {0}
      BY DEF Root
    <3> QED BY <1>19, <3>1, NoParent
  <2>4. PICK i \in Nat : h[i] = h[n] + 1 /\ h[i] <= h[Root]
    BY <1>19, HasParent
  <2>5. h[n] \in Nat /\ h[n] <= h[nx]
    <3>1. h[n] \in Nat
      BY <1>1, <2>2
    <3> QED BY ONLY <1>3, <1>n, <2>4, <3>1
  <2>6. NodeOK(m, [h EXCEPT ![Root] = h[nx]], N, B[n])
    <3>1. B[n].self # Root /\ B[n].self \in 1 .. N /\ h[B[n].self] <= h[nx]
      BY <1>19, <2>2, <2>5
    <3> QED BY ONLY <1>1, <1>n, <2>1, <2>3, <3>1, NodeRehung, m \in Nat
  <2> QED BY <1>g, <2>6
<1>20. \A x \in Nat \ {0} : Weigh(C, WKids(x)) = IF Live(C, x) /\ x # Root THEN 1 ELSE 0
  <2> SUFFICES ASSUME NEW x \in Nat \ {0} PROVE Weigh(C, WKids(x)) = IF Live(C, x) /\ x # Root THEN 1 ELSE 0
    OBVIOUS
  <2>1. Weigh(B, WKids(x)) = IF Live(B, x) /\ x # Root THEN 1 ELSE 0
    BY DEF TreeOK
  <2>2. Weigh(C, WKids(x)) = Weigh(B, WKids(x)) - One(nx, {x}) - One(ny, {x})
    BY <1>15
  <2>3. CASE x = nx
    <3>1. Weigh(B, WKids(x)) = 1 /\ One(nx, {x}) = 1 /\ One(ny, {x}) = 0 /\ ~Live(C, x)
      BY <1>3, <1>17, <2>1, <2>3 DEF One
    <3> QED BY <2>2, <3>1
  <2>4. CASE x = ny
    <3>1. Weigh(B, WKids(x)) = 1 /\ One(ny, {x}) = 1 /\ One(nx, {x}) = 0 /\ ~Live(C, x)
      BY <1>3, <1>17, <2>1, <2>4 DEF One
    <3> QED BY <2>2, <3>1
  <2>5. CASE x \notin {nx, ny}
    <3>1. One(nx, {x}) = 0 /\ One(ny, {x}) = 0 /\ (Live(C, x) <=> Live(B, x))
      BY <1>18, <2>5 DEF One
    <3>2. Weigh(B, WKids(x)) \in Int
      BY <2>1
    <3>3. Weigh(B, WKids(x)) - 0 - 0 = Weigh(B, WKids(x))
      BY <3>2
    <3> QED BY <2>1, <2>2, <3>1, <3>3
  <2> QED BY <2>3, <2>4, <2>5
<1>21. TreeOK(m, C, g)
  <2>1. NodeOK(m, g, N, a)
    BY <1>5 DEF NodeAt
  <2>2. b.kind = "free" /\ c.kind = "free"
    BY <1>10, <1>11
  <2> QED BY ONLY <1>1, <1>g, <1>n, <1>17, <1>19, <1>20, <2>1, <2>2, TreeByThree, m \in Nat, TreeOK(m, B, h),
                  Three(B, C, Root, a, nx, b, ny, c) DEF N
<1>22. Swap(B, C, Root, a, nx, b, ny, c)
  <2>1. b.kind # "value" /\ c.kind # "value"
    BY <1>10, <1>11
  <2>2. B[Root].kind = "key" /\ B[nx].kind = "key" /\ B[ny].kind = "key"
    BY <1>2, <1>3 DEF Live, IsKey
  <2> QED BY <1>1, <1>3, <1>n, <1>10, <1>11, <1>13, <1>14, <2>1, <2>2 DEF Swap, N
<1> QED BY <1>17, <1>21, <1>22 DEF g

\* The head of a database in which the root took over blocks nx and ny, and
\* what makes it good.
Joining(m, d, B, C, g, a, nx, b, ny, c, e) ==
  /\ nx \in 1 .. Len(B) /\ ny \in 1 .. Len(B) /\ nx # ny /\ nx # Root /\ ny # Root
  /\ b = FreeBlock(nx, ny) /\ c = FreeBlock(ny, d.free) /\ e = Destroyed(Destroyed(d, B[ny]), B[nx])
  /\ Three(B, C, Root, a, nx, b, ny, c) /\ Swap(B, C, Root, a, nx, b, ny, c)
  /\ TreeOK(m, C, g) /\ Live(C, Root)

LEMMA JoinedGood ==
  ASSUME NEW m \in Nat, NEW d, NEW B, NEW h, NEW fl, Good(m, d, B, h, fl), NEW C, NEW g,
         NEW a, NEW nx, NEW b, NEW ny, NEW c, NEW e, Joining(m, d, B, C, g, a, nx, b, ny, c, e)
  PROVE  /\ Good(m, e, C, g, Given(nx, Given(ny, fl)))
         /\ Spare(C, Given(nx, Given(ny, fl))) \subseteq Spare(B, fl)
<1>a. /\ nx \in 1 .. Len(B) /\ ny \in 1 .. Len(B) /\ nx # ny /\ nx # Root /\ ny # Root
      /\ b = FreeBlock(nx, ny) /\ c = FreeBlock(ny, d.free) /\ e = Destroyed(Destroyed(d, B[ny]), B[nx])
      /\ Three(B, C, Root, a, nx, b, ny, c) /\ Swap(B, C, Root, a, nx, b, ny, c)
      /\ TreeOK(m, C, g) /\ Live(C, Root)
  BY DEF Joining
<1> USE <1>a
<1> DEFINE l1 == Given(ny, fl)
           l == Given(nx, l1)
           e1 == Destroyed(d, B[ny])
           B1 == Blk(B, ny, c)
<1>0. Placed(B)
  BY DEF Good
<1>1. /\ d \in Handles /\ B \in Seq(Blocks) /\ Len(B) \in Nat /\ CountsOK(d, B) /\ FreeOK(d.free, B, fl)
      /\ B[ny].self = ny /\ B[nx].self = nx /\ Root \in 1 .. Len(B)
  BY GoodTypes
<1>2. B[Root].kind = "key" /\ B[nx].kind = "key" /\ B[ny].kind = "key" /\ a.kind = "key"
  BY DEF Swap
<1>3. d.free \in Nat /\ d.keyBlocks \in Int /\ nx \in Nat /\ ny \in Nat
  BY <1>1, HandleTypes
<1>4. b.kind = "free" /\ b.next = ny /\ c.kind = "free" /\ c.next = d.free /\ c \in Blocks
  BY <1>3, FreeBlockFacts DEF FreeBlock, FreeFacts
<1>5. /\ e1 \in Handles /\ e1.free = ny /\ e1.current = d.current /\ e1.total = d.total
      /\ e1.keyBlocks = d.keyBlocks - 1 /\ e1.valueBlocks = d.valueBlocks
  BY <1>1, <1>2, <1>3, DestroyedKey
<1>6. e = Destroyed(e1, B[nx])
  OBVIOUS
<1> HIDE DEF e1
<1>7. /\ e \in Handles /\ e.free = nx /\ e.current = d.current /\ e.total = d.total
      /\ e.keyBlocks = d.keyBlocks - 1 - 1 /\ e.valueBlocks = d.valueBlocks
  <2>1. /\ Destroyed(e1, B[nx]) \in Handles /\ Destroyed(e1, B[nx]).free = nx
        /\ Destroyed(e1, B[nx]).current = e1.current /\ Destroyed(e1, B[nx]).total = e1.total
        /\ Destroyed(e1, B[nx]).keyBlocks = e1.keyBlocks - 1
        /\ Destroyed(e1, B[nx]).valueBlocks = e1.valueBlocks
    BY <1>1, <1>2, <1>3, <1>5, DestroyedKey
  <2> QED BY ONLY <1>5, <1>6, <2>1
<1>8. Kept(d, C, b, c)
  BY KeptBySwap
<1>9. /\ Placed(C) /\ RefsOK(d.current, C)
      /\ Weigh(C, WCount("keys")) = d.total /\ Weigh(C, WCount("values")) = d.total
      /\ Weigh(C, WCount("valueBlocks")) = d.valueBlocks
      /\ Weigh(C, WCount("keyBlocks")) = d.keyBlocks - 2 + 0 + 0
  BY <1>4, <1>8 DEF Kept
<1>10. d.keyBlocks - 2 + 0 + 0 = d.keyBlocks - 1 - 1
  BY ONLY <1>3
<1>11. CountsOK(e, C)
  BY <1>7, <1>9, <1>10 DEF CountsOK
<1>12. /\ Len(C) = Len(B) /\ C[Root] = a /\ C[nx] = b /\ C[ny] = c
       /\ \A i \in 1 .. Len(B) : i \notin {Root, nx, ny} => C[i] = B[i]
  BY DEF Three
<1>13. /\ B1 \in Seq(Blocks) /\ Len(B1) = Len(B) /\ B1[ny] = c
       /\ \A i \in 1 .. Len(B) : i # ny => B1[i] = B[i]
  <2>1w. Written(B, Blk(B, ny, c), ny, c)
    BY ONLY <1>1, <1>4, ny \in 1 .. Len(B), BlkType
  <2>1. /\ Blk(B, ny, c) \in Seq(Blocks) /\ Len(Blk(B, ny, c)) = Len(B)
        /\ \A i \in 1 .. Len(B) : Blk(B, ny, c)[i] = IF i = ny THEN c ELSE B[i]
    BY ONLY <1>1, <1>4, ny \in 1 .. Len(B), <2>1w DEF Written
  <2> QED BY ONLY <2>1, ny \in 1 .. Len(B) DEF B1
<1> HIDE DEF B1
<1>14. GivenUp(d.free, B, B1, fl, ny)
  <2>1. \A i \in 1 .. Len(B) : B[i].kind = "free" => B1[i] = B[i]
    BY <1>2, <1>13
  <2>2. B[ny].kind # "free" /\ B1[ny].kind = "free" /\ B1[ny].next = d.free
    BY <1>2, <1>4, <1>13
  <2> QED BY <1>1, <1>13, <2>1, <2>2 DEF GivenUp
<1>15. /\ FreeOK(ny, B1, l1)
       /\ \A k : (\A i \in 1 .. Len(l1) : l1[i] # k) => k # ny /\ \A i \in 1 .. Len(fl) : fl[i] # k
  <2>1. NowFree(B1, fl, ny)
    BY ONLY <1>3, <1>14, FreeGiven
  <2> QED BY ONLY <2>1 DEF NowFree, l1
<1> HIDE DEF l1
<1>16. GivenUp(ny, B1, C, l1, nx)
  <2>1. \A i \in 1 .. Len(B1) : B1[i].kind = "free" => C[i] = B1[i]
    <3> SUFFICES ASSUME NEW i \in 1 .. Len(B), B1[i].kind = "free" PROVE C[i] = B1[i]
      BY <1>13
    <3>1. CASE i = ny
      BY <1>12, <1>13, <3>1
    <3>2. CASE i # ny
      <4>1. B1[i] = B[i] /\ i # nx /\ i # Root
        BY <1>2, <1>13, <3>2
      <4> QED BY <1>12, <3>2, <4>1
    <3> QED BY <3>1, <3>2
  <2>2. B1[nx].kind # "free" /\ C[nx].kind = "free" /\ C[nx].next = ny
    BY <1>2, <1>4, <1>12, <1>13
  <2>3. Len(B1) \in Nat /\ Len(C) = Len(B1) /\ nx \in 1 .. Len(B1)
    BY <1>1, <1>12, <1>13
  <2> QED BY <1>15, <2>1, <2>2, <2>3 DEF GivenUp
<1>17. /\ FreeOK(nx, C, l)
       /\ \A k : (\A i \in 1 .. Len(l) : l[i] # k) => k # nx /\ \A i \in 1 .. Len(l1) : l1[i] # k
  <2>1. NowFree(C, l1, nx)
    BY ONLY <1>3, <1>16, FreeGiven
  <2> QED BY ONLY <2>1 DEF NowFree, l
<1> HIDE DEF l
<1>18. Good(m, e, C, g, l)
  BY <1>7, <1>9, <1>11, <1>17 DEF Good
<1>19. ASSUME NEW n \in Spare(C, l) PROVE n \in Spare(B, fl)
  <2>1. /\ n \in 1 .. Len(B)
        /\ \/ C[n].kind = "free" /\ \A i \in 1 .. Len(l) : l[i] # n
           \/ C[n].kind = "key" /\ ~Live(C, n)
    BY <1>12 DEF Spare
  <2>2. CASE C[n].kind = "free" /\ \A i \in 1 .. Len(l) : l[i] # n
    <3>1. n # ny /\ n # nx /\ \A i \in 1 .. Len(fl) : fl[i] # n
      BY <1>15, <1>17, <2>2
    <3>2. n # Root
      BY <1>2, <1>12, <2>2
    <3>3. C[n] = B[n]
      BY <1>12, <2>1, <3>1, <3>2
    <3> QED BY <2>1, <2>2, <3>1, <3>3 DEF Spare
  <2>3. CASE C[n].kind = "key" /\ ~Live(C, n)
    <3>1. n \notin {Root, nx, ny}
      BY <1>4, <1>12, <2>3
    <3>2. C[n] = B[n]
      BY <1>12, <2>1, <3>1
    <3>3. ~Live(B, n)
      BY <1>12, <2>1, <2>3, <3>2 DEF Live, IsKey
    <3> QED BY <2>1, <2>3, <3>2, <3>3 DEF Spare
  <2> QED BY <2>1, <2>2, <2>3
<1> QED BY <1>18, <1>19 DEF l, l1

LEMMA MergeRoot ==
  ASSUME NEW m \in Nat, m >= 4, NEW s, NEW d, NEW B, NEW h, NEW fl, Good(m, d, B, h, fl), Is(m, s, d, d, B),
         NEW nx, NEW ny, Mergeable(m, h, B, Root, 1, nx, ny), Len(B[Root].ents) = 1
  PROVE  Stepped(m, btree_merge(s, B[Root], 1, B[nx], B[ny]), B, h, fl, Root, Root)
<1> DEFINE e1 == Destroyed(d, B[ny])
           e == Destroyed(e1, B[nx])
           a == Joined(B, nx, ny)
           b == FreeBlock(nx, ny)
           c == FreeBlock(ny, d.free)
           g == Lowered(h, nx)
           B1 == Blk(B, ny, c)
           B2 == Blk(B1, nx, b)
           C == Blk(B2, Root, a)
           t1 == node_destroy(s, B[ny])
           t2 == node_destroy(t1, B[nx])
           t == btree_merge(s, B[Root], 1, B[nx], B[ny])
           EX == B[nx].ents
           EY == B[ny].ents
           E == MergedEnts(B, Root, 1, nx, ny)
<1>0. Placed(B)
  BY DEF Good
<1>1. /\ TreeOK(m, B, h) /\ B \in Seq(Blocks) /\ Len(B) \in Nat /\ h \in [1 .. Len(B) -> Nat]
      /\ d \in Handles /\ CountsOK(d, B) /\ Root \in 1 .. Len(B)
  BY GoodTypes
<1>2. MergedParts(m, h, B, Root, 1, nx, ny)
  BY <1>0, <1>1, MergedPartsOf
<1>3. JoinedParts(m, h, B, nx, ny)
  BY <1>0, <1>1, <1>2, JoinedPartsOf
<1>s. Siblings(m, h, B, Root, nx, ny)
  BY <1>2 DEF MergedParts
<1>4. /\ nx \in Nat /\ Live(B, nx) /\ nx # Root /\ h[Root] = h[nx] + 1
      /\ ny \in Nat /\ Live(B, ny) /\ ny # Root /\ ny # nx
  BY <1>s DEF Siblings
<1>5. nx \in 1 .. Len(B) /\ ny \in 1 .. Len(B) /\ B[ny].kind = "key" /\ B[nx].kind = "key" /\ B[Root].kind = "key"
  BY <1>0, <1>4 DEF Live, IsKey, Placed
<1>6. B[ny].self = ny /\ B[nx].self = nx /\ B[Root].self = Root
  BY <1>0, <1>1, <1>5 DEF Placed
<1>7. /\ a \in Blocks /\ a.self = Root /\ a.kind = "key" /\ a.ents = E /\ WCount("keys")[a] = Len(E)
  BY <1>3 DEF JoinedParts, NodeAt, KeyFacts
<1>8. WCount("keys")[B[nx]] = Len(EX) /\ WCount("keys")[B[ny]] = Len(EY) /\ Len(EX) \in Nat /\ Len(EY) \in Nat
  BY <1>s DEF Siblings, NodeAt, KeyFacts
<1>9. Len(EX) >= 1 /\ Len(EY) >= 1 /\ Len(E) >= 3
  BY <1>2 DEF MergedParts
<1>10. d.free \in Nat /\ d.keyBlocks \in Int /\ d.total \in Int
  BY <1>1, HandleTypes
<1>11. c \in Blocks /\ c.self = ny /\ WCount("keys")[c] = 0 /\ b \in Blocks /\ b.self = nx /\ WCount("keys")[b] = 0
  BY <1>4, <1>10, FreeBlockFacts DEF FreeFacts
<1>12. t = node_flush(t2, a)
  <2>1. RemoveAt(B[Root].ents, 1) = <<>>
    <3>1. B[Root].ents \in Seq(Ent)
      BY <1>s DEF Siblings, NodeAt
    <3>2. RemoveAt(B[Root].ents, 1) \in Seq(Ent) /\ Len(RemoveAt(B[Root].ents, 1)) = Len(B[Root].ents) - 1
      <4> DEFINE s0 == B[Root].ents
      <4>1. s0 \in Seq(Ent) /\ 1 \in 1 .. Len(s0)
        BY <3>1
      <4> HIDE DEF s0
      <4>2. /\ RemoveAt(s0, 1) \in Seq(Ent) /\ Len(RemoveAt(s0, 1)) = Len(s0) - 1
            /\ Cnt(RemoveAt(s0, 1), {}) = Cnt(s0, {}) - One(s0[1], {})
        BY ONLY <4>1, RemoveAtFacts
      <4> QED BY <4>2 DEF s0
    <3>3. Len(RemoveAt(B[Root].ents, 1)) = 0
      BY <3>2
    <3> QED BY ONLY <3>2, <3>3, EmptySeq
  <2>2. Filled(B[Root], RemoveAt(B[Root].ents, 1), RemoveAt(B[Root].kids, 1 + 1)).ents = <<>>
    BY <2>1 DEF Filled, KeyBlock
  <2>3. /\ Filled(B[nx], B[nx].ents \o <<B[Root].ents[1]>> \o B[ny].ents, B[nx].kids \o B[ny].kids).leaf = B[nx].leaf
        /\ Filled(B[nx], B[nx].ents \o <<B[Root].ents[1]>> \o B[ny].ents, B[nx].kids \o B[ny].kids).ents
             = MergedEnts(B, Root, 1, nx, ny)
        /\ Filled(B[nx], B[nx].ents \o <<B[Root].ents[1]>> \o B[ny].ents, B[nx].kids \o B[ny].kids).kids
             = MergedKids(B, nx, ny)
    BY DEF Filled, KeyBlock, MergedEnts, MergedKids
  <2> QED BY <1>6, <2>2, <2>3 DEF btree_merge, Joined
<1>13. /\ e1 \in Handles /\ e1.free = ny /\ e1.total = d.total /\ e1.keyBlocks = d.keyBlocks - 1
  BY <1>1, <1>4, <1>5, <1>6, DestroyedKey
<1>h. e1 = Destroyed(d, B[ny]) /\ e = Destroyed(e1, B[nx]) /\ a = Joined(B, nx, ny) /\ c = FreeBlock(ny, d.free)
      /\ b = FreeBlock(nx, ny)
  OBVIOUS
<1> HIDE DEF e1
<1>14. e \in Handles /\ e.total = d.total
  <2>1. Destroyed(e1, B[nx]) \in Handles /\ Destroyed(e1, B[nx]).total = e1.total
    BY <1>4, <1>5, <1>6, <1>13, DestroyedKey
  <2> QED BY <1>13, <2>1
<1> HIDE DEF e, a, b, c, t, EX, EY, E, g
<1>15. Weigh(B, WCount("keys")) = d.total /\ Weigh(B, WCount("keyBlocks")) = d.keyBlocks
  BY <1>1 DEF CountsOK
<1>16. ~CountsOK(e1, B)
  <2>1. d.keyBlocks # d.keyBlocks - 1
    BY <1>10
  <2> QED BY <1>13, <1>15, <2>1 DEF CountsOK
<1>17w. Written(B, B1, ny, c)
  BY <1>1, <1>4, <1>5, <1>11, BlkType
<1>17. B1 \in Seq(Blocks) /\ Len(B1) = Len(B) /\ B1[nx] = B[nx]
  BY <1>1, <1>4, <1>5, <1>11, <1>17w DEF Written
<1>18. Weigh(B1, WCount("keys")) # d.total
  <2>1. Weigh(B1, WCount("keys")) = d.total - Len(EY) + 0
    <3> DEFINE f == WCount("keys")
    <3>1. f \in [Blocks -> Nat]
      BY CountTypes
    <3>2. f[B[ny]] = Len(EY) /\ f[c] = 0 /\ Weigh(B, f) = d.total
      BY <1>8, <1>11, <1>15
    <3> HIDE DEF f
    <3>3. Weigh(Blk(B, ny, c), f) = Weigh(B, f) - f[B[ny]] + f[c]
      BY <1>1, <1>5, <1>11, <3>1, WeighBlk
    <3> QED BY <3>2, <3>3 DEF f
  <2>2. d.total - Len(EY) + 0 # d.total
    BY ONLY <1>8, <1>9, <1>10
  <2> QED BY <2>1, <2>2
<1>19. ~CountsOK(e1, B1) /\ ~CountsOK(e, B1)
  BY <1>13, <1>14, <1>18 DEF CountsOK
<1>20. Is(m, t1, e1, e1, B1)
  <2>1. B1 = Blk(B, ny, FreeBlock(ny, d.free))
    BY <1>h
  <2> HIDE DEF B1
  <2> QED BY <1>1, <1>5, <1>6, <1>h, <1>16, <1>19, <2>1, DestroyOff
<1>21. Two(B, B2, ny, c, nx, b)
  BY <1>1, <1>4, <1>5, <1>11, WeighTwo
<1>22. Three(B, C, ny, c, nx, b, Root, a)
  BY <1>1, <1>4, <1>5, <1>7, <1>11, WeighThree
<1>23. B2 \in Seq(Blocks) /\ Len(B2) = Len(B) /\ Weigh(B2, WCount("keys")) # d.total
  <2>1. B2 \in Seq(Blocks) /\ Len(B2) = Len(B)
    BY <1>21 DEF Two
  <2>2. WCount("keys") \in [Blocks -> Nat]
    BY CountTypes
  <2>3. Weigh(B2, WCount("keys")) = Weigh(B, WCount("keys")) - WCount("keys")[B[ny]] - WCount("keys")[B[nx]]
                                      + WCount("keys")[c] + WCount("keys")[b]
    <3> HIDE DEF B2
    <3> QED BY <1>21, <2>2 DEF Two
  <2>4. Weigh(B2, WCount("keys")) = d.total - Len(EY) - Len(EX) + 0 + 0
    BY <1>8, <1>11, <1>15, <2>3
  <2>5. d.total - Len(EY) - Len(EX) + 0 + 0 # d.total
    BY ONLY <1>8, <1>9, <1>10
  <2> QED BY <2>1, <2>4, <2>5
<1>24. ~CountsOK(e, B2)
  BY <1>14, <1>23 DEF CountsOK
<1>25. Is(m, t2, e, e, B2)
  <2>1. B2 = Blk(B1, nx, FreeBlock(nx, e1.free))
    BY <1>h, <1>13
  <2>2. nx \in 1 .. Len(B1)
    BY <1>5, <1>17
  <2> HIDE DEF B2, B1, t1
  <2> QED BY <1>6, <1>h, <1>13, <1>17, <1>19, <1>20, <1>24, <2>1, <2>2, DestroyOff
<1> HIDE DEF t1, t2, B1, B2
<1>26. Three(B, C, Root, a, nx, b, ny, c)
  BY <1>1, <1>5, <1>7, <1>11, <1>22, ThreeReversed
<1>27. Swap(B, C, Root, a, nx, b, ny, c) /\ TreeOK(m, C, g) /\ Live(C, Root)
  <2> HIDE DEF C
  <2>1. Swap(B, C, Root, a, nx, b, ny, c) /\ TreeOK(m, C, Lowered(h, nx)) /\ Live(C, Root)
    BY <1>0, <1>1, <1>2, <1>3, <1>10, <1>h, <1>26, JoinedTree
  <2> QED BY <2>1 DEF g
<1> DEFINE l == Given(nx, Given(ny, fl))
<1>28. Good(m, e, C, g, l) /\ Spare(C, l) \subseteq Spare(B, fl)
  <2> HIDE DEF C
  <2>1. e = Destroyed(Destroyed(d, B[ny]), B[nx])
    BY <1>h
  <2>2. Joining(m, d, B, C, g, a, nx, b, ny, c, e)
    BY <1>4, <1>5, <1>h, <1>26, <1>27, <2>1 DEF Joining
  <2> QED BY <2>2, JoinedGood
<1> HIDE DEF l
<1>29. Is(m, t, e, e, C)
  <2>1. Ok(m, FileOf(e, C))
    BY <1>28, GoodIsOk
  <2>2. Root \in 1 .. Len(B2)
    BY <1>1, <1>23
  <2> QED BY <1>7, <1>12, <1>23, <1>25, <2>1, <2>2, IsFlush
<1> HIDE DEF C
<1>30. Len(C) = Len(B) /\ \A i \in 1 .. Len(B) : i \notin {Root, nx, ny} => C[i] = B[i]
  BY <1>26 DEF Three
<1>31. \A i \in 1 .. Len(B) : h[i] > h[Root] => C[i] = B[i] /\ g[i] = h[i]
  <2> SUFFICES ASSUME NEW i \in 1 .. Len(B), h[i] > h[Root] PROVE C[i] = B[i] /\ g[i] = h[i]
    OBVIOUS
  <2>1. h[i] \in Nat /\ h[nx] \in Nat /\ h[ny] = h[nx]
    BY <1>1, <1>5, <1>s DEF Siblings
  <2>2. i \notin {Root, nx, ny}
    BY <1>4, <2>1
  <2>3. g[i] = h[i]
    BY <1>1, <2>2 DEF g, Lowered
  <2> QED BY <1>30, <2>2, <2>3
<1>32. Reached(m, t, B, h, fl, Root, Root, e, C, g, l)
  <2>1. Root \in Nat
    BY DEF Root
  <2> QED BY <1>27, <1>28, <1>29, <1>30, <1>31, <2>1 DEF Reached
<1> QED BY <1>32 DEF Stepped, t

\* A merge, below the root or of its last two children.
LEMMA MergeSteps ==
  ASSUME NEW m \in Nat, m >= 4, NEW s, NEW d, NEW B, NEW h, NEW fl, Good(m, d, B, h, fl), Is(m, s, d, d, B),
         NEW n0, NEW p, NEW nx, NEW ny, Mergeable(m, h, B, n0, p, nx, ny), n0 = Root \/ Len(B[n0].ents) >= 2
  PROVE  /\ MergedInto(B[n0], B[nx]) \in {n0, nx}
         /\ Stepped(m, btree_merge(s, B[n0], p, B[nx], B[ny]), B, h, fl, n0, MergedInto(B[n0], B[nx]))
<1>0. Placed(B) /\ TreeOK(m, B, h)
  BY DEF Good
<1>1. MergedParts(m, h, B, n0, p, nx, ny)
  BY <1>0, MergedPartsOf
<1>2. Siblings(m, h, B, n0, nx, ny)
  BY <1>1 DEF MergedParts
<1>3. B[nx].self = nx /\ B[n0].self = n0 /\ Len(B[n0].ents) \in Nat
  BY <1>2 DEF Siblings, NodeAt, KeyFacts
<1>4. CASE Len(B[n0].ents) > 1
  <2>1. MergedInto(B[n0], B[nx]) = nx
    BY <1>3, <1>4 DEF MergedInto
  <2>2. Stepped(m, btree_merge(s, B[n0], p, B[nx], B[ny]), B, h, fl, n0, nx)
    BY <1>4, MergeBelow
  <2> QED BY <2>1, <2>2
<1>5. CASE ~(Len(B[n0].ents) > 1)
  <2>1. p \in 1 .. Len(B[n0].ents)
    BY DEF Mergeable
  <2>2. Len(B[n0].ents) = 1 /\ p = 1 /\ n0 = Root
    <3> DEFINE l == Len(B[n0].ents)
    <3>1. l \in Nat /\ ~(l > 1) /\ p \in 1 .. l /\ (n0 = Root \/ l >= 2)
      BY <1>3, <1>5, <2>1
    <3> HIDE DEF l
    <3>2. l = 1 /\ p = 1 /\ n0 = Root
      BY ONLY <3>1
    <3> QED BY <3>2 DEF l
  <2>3. MergedInto(B[n0], B[nx]) = n0
    BY <1>3, <1>5 DEF MergedInto
  <2>4. Stepped(m, btree_merge(s, B[Root], 1, B[nx], B[ny]), B, h, fl, Root, Root)
    <3>1. Mergeable(m, h, B, Root, 1, nx, ny) /\ Len(B[Root].ents) = 1
      BY <2>2
    <3> QED BY <3>1, MergeRoot
  <2> QED BY <2>2, <2>3, <2>4
<1> QED BY <1>4, <1>5

\* An entry was borrowed.
LEMMA BorrowSteps ==
  ASSUME NEW m \in Nat, NEW t, NEW d, NEW B, NEW h, NEW fl, Good(m, d, B, h, fl), NEW n0, NEW nx, NEW nz,
         Siblings(m, h, B, n0, nx, nz), \E C : MovedDone(m, t, d, B, h, fl, n0, nx, nz, C)
  PROVE  Stepped(m, t, B, h, fl, n0, nx)
<1>1. PICK C : MovedDone(m, t, d, B, h, fl, n0, nx, nz, C)
  OBVIOUS
<1>2. /\ Is(m, t, d, d, C) /\ Good(m, d, C, h, fl) /\ Spare(C, fl) \subseteq Spare(B, fl)
      /\ Live(C, nx) /\ Len(C[nx].ents) >= 2
      /\ Len(C) = Len(B) /\ \A i \in 1 .. Len(B) : i \notin {n0, nx, nz} => C[i] = B[i]
  BY <1>1 DEF MovedDone
<1>3. nx \in Nat /\ h[nx] = h[nz] /\ h[n0] = h[nx] + 1 /\ h[nx] \in Nat
  BY DEF Siblings, NodeAt
<1>4. h \in [1 .. Len(B) -> Nat]
  BY GoodTypes
<1>5. \A i \in 1 .. Len(B) : h[i] > h[n0] => C[i] = B[i] /\ h[i] = h[i]
  <2> SUFFICES ASSUME NEW i \in 1 .. Len(B), h[i] > h[n0] PROVE C[i] = B[i]
    OBVIOUS
  <2>1. h[i] \in Nat
    BY <1>4
  <2>2. i \notin {n0, nx, nz}
    BY <1>3, <2>1
  <2> QED BY <1>2, <2>2
<1>6. h[nx] < h[n0]
  BY <1>3
<1>7. Reached(m, t, B, h, fl, n0, nx, d, C, h, fl)
  BY <1>2, <1>3, <1>5, <1>6 DEF Reached
<1> QED BY <1>7 DEF Stepped

\* Nothing was written.
LEMMA PlainSteps ==
  ASSUME NEW m \in Nat, NEW s, NEW d, NEW B, NEW h, NEW fl, Good(m, d, B, h, fl), Is(m, s, d, d, B),
         NEW n0, NEW n \in Nat, Live(B, n), Len(B[n].ents) >= 2, h[n] < h[n0]
  PROVE  Stepped(m, s, B, h, fl, n0, n)
BY DEF Stepped, Reached

-----------------------------------------------------------------------------
(* key_binary_search.                                                      *)

\* The bounds of the search stay inside the block.
Range2(L) == {r \in (0 .. L) \X (-1 .. L - 1) : r[1] <= r[2] + 1}

LEMMA NarrowedType ==
  ASSUME NEW L \in Nat, NEW E \in Seq(Ent), Len(E) = L, NEW k \in Keys, NEW r \in Range2(L)
  PROVE  Narrowed(E, k, r) \in Range2(L)
<1>1. /\ r = <<r[1], r[2]>> /\ r[1] \in 0 .. L /\ r[2] \in -1 .. L - 1 /\ r[1] <= r[2] + 1
  BY DEF Range2
<1>2. CASE r[1] > r[2]
  BY <1>2 DEF Narrowed
<1>3. CASE ~(r[1] > r[2])
  <2>1. Mid(r) \in r[1] .. r[2]
    BY <1>1, <1>3 DEF Mid
  <2>2. <<Mid(r) + 1, r[2]>> \in Range2(L)
    <3>1. Mid(r) + 1 \in 0 .. L /\ Mid(r) + 1 <= r[2] + 1
      BY <1>1, <2>1
    <3> QED BY <1>1, <3>1 DEF Range2
  <2>3. <<r[1], Mid(r) - 1>> \in Range2(L)
    <3>1. Mid(r) - 1 \in -1 .. L - 1 /\ r[1] <= Mid(r) - 1 + 1
      BY <1>1, <2>1
    <3> QED BY <1>1, <3>1 DEF Range2
  <2> QED BY <1>3, <2>2, <2>3 DEF Narrowed
<1> QED BY <1>2, <1>3

LEMMA SearchRange ==
  ASSUME NEW b, b.ents \in Seq(Ent), NEW k \in Keys
  PROVE  /\ key_binary_search(b, k) \in Int
         /\ key_binary_search(b, k) >= 0 => key_binary_search(b, k) + 1 \in 1 .. Len(b.ents)
         /\ key_binary_search(b, k) < 0 => -key_binary_search(b, k) \in 1 .. Len(b.ents) + 1
<1> DEFINE L == Len(b.ents)
           E == b.ents
           t == <<0, L - 1>>
           T == Range2(L)
           G == [i \in Nat |-> [r \in T |-> Narrowed(E, k, r)]]
           Bounds(f) == f = [i \in 0 .. Len(b.ents) |-> IF i = 0 THEN <<0, Len(b.ents) - 1>>
                                                       ELSE Narrowed(b.ents, k, f[i - 1])]
<1>1. L \in Nat /\ t \in T
  BY DEF Range2
<1>2. \A r \in T : Narrowed(E, k, r) \in T
  <2> HIDE DEF T
  <2> QED BY <1>1, NarrowedType DEF T
<1>3. G \in [Nat -> [T -> T]]
  BY <1>2
<1>4. \A i \in Nat : \A r \in T : G[i][r] = Narrowed(E, k, r)
  OBVIOUS
<1> HIDE DEF G, T, t, L, E
<1>5. PICK f \in [0 .. L -> T] : Recursive(L, f, t, G)
  BY <1>1, <1>3, RecursionExists
<1>6. f = [i \in 0 .. L |-> IF i = 0 THEN t ELSE Narrowed(E, k, f[i - 1])]
  <2>1. f = [i \in 0 .. L |-> IF i = 0 THEN t ELSE G[i][f[i - 1]]]
    BY <1>5 DEF Recursive
  <2>2. \A i \in 0 .. L : i # 0 => i \in Nat /\ f[i - 1] \in T
    BY <1>1
  <2> QED BY <1>4, <2>1, <2>2
<1>7. Bounds(f)
  BY <1>6 DEF L, t, E
<1> DEFINE g == CHOOSE x : Bounds(x)
<1>8. Bounds(g)
  BY <1>7
<1>9. key_binary_search(b, k) = IF g[L][1] > g[L][2] THEN -g[L][1] - 1 ELSE Mid(g[L])
  BY DEF key_binary_search, Where, L
<1>10. g = [i \in 0 .. L |-> IF i = 0 THEN t ELSE Narrowed(E, k, g[i - 1])]
  BY <1>8 DEF L, t, E
<1> HIDE DEF g
<1> DEFINE S == {i \in Nat : i <= L => g[i] \in T}
<1>11. 0 \in S
  BY <1>1, <1>10
<1>12. ASSUME NEW i \in Nat, i \in S PROVE i + 1 \in S
  <2> SUFFICES ASSUME i + 1 <= L PROVE g[i + 1] \in T
    OBVIOUS
  <2>1. i + 1 \in 0 .. L /\ i + 1 # 0 /\ (i + 1) - 1 = i /\ g[i] \in T
    BY <1>1, <1>12
  <2> QED BY <1>2, <1>10, <2>1
<1>13. Nat \subseteq S
  <2> HIDE DEF S
  <2> QED BY <1>11, <1>12, SetInduction
<1>14. g[L] \in T
  BY <1>1, <1>13
<1> DEFINE r == g[L]
<1>15. r[1] \in 0 .. L /\ r[2] \in -1 .. L - 1 /\ r[1] <= r[2] + 1
  BY <1>14 DEF T, Range2
<1> HIDE DEF r
<1>16. CASE r[1] > r[2]
  <2>1. key_binary_search(b, k) = -r[1] - 1
    BY <1>9, <1>16 DEF r
  <2>2. -r[1] - 1 \in Int /\ -r[1] - 1 < 0 /\ -(-r[1] - 1) \in 1 .. L + 1
    <3> DEFINE i == r[1]
    <3>1. i \in 0 .. L
      BY <1>15
    <3> HIDE DEF i
    <3>2. -i - 1 \in Int /\ -i - 1 < 0 /\ -(-i - 1) \in 1 .. L + 1
      BY ONLY <1>1, <3>1
    <3> QED BY <3>2 DEF i
  <2>3. /\ key_binary_search(b, k) \in Int /\ key_binary_search(b, k) < 0
        /\ -key_binary_search(b, k) \in 1 .. L + 1
    BY <2>1, <2>2
  <2> HIDE DEF L
  <2>4. ~(key_binary_search(b, k) >= 0)
    BY ONLY <2>3
  <2> QED BY <2>3, <2>4 DEF L
<1>17. CASE ~(r[1] > r[2])
  <2>1. key_binary_search(b, k) = Mid(r)
    BY <1>9, <1>17 DEF r
  <2>2. Mid(r) \in r[1] .. r[2]
    BY <1>15, <1>17 DEF Mid
  <2> QED BY <1>1, <1>15, <2>1, <2>2 DEF L
<1> QED BY <1>16, <1>17

-----------------------------------------------------------------------------
(* A leaf and a value block change.                                        *)

\* The blocks of the tree are the same, each with the same children.
Touched(m, B, C, h) ==
  /\ B \in Seq(Blocks) /\ C \in Seq(Blocks) /\ Len(C) = Len(B) /\ TreeOK(m, B, h)
  /\ \A i \in Nat : IsKey(C, i) <=> IsKey(B, i)
  /\ \A i \in Nat : Live(C, i) <=> Live(B, i)
  /\ \A i \in Nat : IsKey(B, i) => C[i] = B[i] \/ (Live(B, i) /\ NodeOK(m, h, Len(B), C[i]))
  /\ \A x \in Nat \ {0} : Weigh(C, WKids(x)) = Weigh(B, WKids(x))

LEMMA TreeTouched ==
  ASSUME NEW m, NEW B, NEW C, NEW h, Touched(m, B, C, h)
  PROVE  TreeOK(m, C, h)
<1>1. /\ Len(C) = Len(B) /\ TreeOK(m, B, h)
      /\ \A i \in Nat : IsKey(C, i) <=> IsKey(B, i)
      /\ \A i \in Nat : Live(C, i) <=> Live(B, i)
      /\ \A i \in Nat : IsKey(B, i) => C[i] = B[i] \/ (Live(B, i) /\ NodeOK(m, h, Len(B), C[i]))
      /\ \A x \in Nat \ {0} : Weigh(C, WKids(x)) = Weigh(B, WKids(x))
  BY DEF Touched
<1>2. h \in [1 .. Len(C) -> Nat]
  BY <1>1 DEF TreeOK
<1>3. ASSUME NEW n \in Nat, Live(C, n) PROVE NodeOK(m, h, Len(C), C[n])
  <2>1. Live(B, n) /\ IsKey(B, n)
    BY <1>1, <1>3 DEF Live
  <2>2. NodeOK(m, h, Len(B), B[n])
    BY <1>1, <2>1 DEF TreeOK
  <2> QED BY <1>1, <2>1, <2>2
<1>4. ASSUME NEW n \in Nat, IsKey(C, n), ~Live(C, n) PROVE C[n].kids = <<0>>
  <2>1. ~Live(B, n) /\ IsKey(B, n)
    BY <1>1, <1>4
  <2>2. B[n].kids = <<0>>
    BY <1>1, <2>1 DEF TreeOK
  <2> QED BY <1>1, <2>1, <2>2
<1>5. ASSUME NEW x \in Nat \ {0} PROVE Weigh(C, WKids(x)) = IF Live(C, x) /\ x # Root THEN 1 ELSE 0
  <2>1. Weigh(B, WKids(x)) = IF Live(B, x) /\ x # Root THEN 1 ELSE 0
    BY <1>1 DEF TreeOK
  <2> QED BY <1>1, <2>1
<1> QED BY <1>2, <1>3, <1>4, <1>5 DEF TreeOK

\* An entry and a child more in a leaf, whose children are all 0.
LeafGrown(m, h, N, b, n, e, p) ==
  /\ NodeAt(m, h, N, Filled(b, InsertAt(b.ents, p, e), InsertAt(b.kids, p, b.kids[p])), n, b.leaf,
            InsertAt(b.ents, p, e), InsertAt(b.kids, p, b.kids[p]))
  /\ Len(InsertAt(b.ents, p, e)) = Len(b.ents) + 1
  /\ \A P : Cnt(InsertAt(b.ents, p, e), P) = Cnt(b.ents, P) + One(e, P)
  /\ \A x \in Nat \ {0} : Cnt(InsertAt(b.kids, p, b.kids[p]), {x}) = Cnt(b.kids, {x})

LEMMA LeafGrows ==
  ASSUME NEW m \in Nat, NEW h, NEW N, NEW b, NEW n, NodeAt(m, h, N, b, n, b.leaf, b.ents, b.kids), b.leaf,
         N \in Nat, h \in [1 .. N -> Nat],
         Len(b.ents) < m, NEW e \in Ent, NEW p \in 1 .. Len(b.ents) + 1
  PROVE  LeafGrown(m, h, N, b, n, e, p)
<1> DEFINE E == b.ents
           K == b.kids
           T == Below(h, N, h[n])
           k == K[p]
           E2 == InsertAt(E, p, e)
           K2 == InsertAt(K, p, k)
<1>1. /\ n \in 1 .. N /\ E \in Seq(Ent) /\ K \in Seq(T) /\ Len(E) \in Nat /\ Len(K) = Len(E) + 1
      /\ h[n] = 0 /\ h[n] <= h[Root] /\ b.leaf \in BOOLEAN /\ b.self = n
  BY DEF NodeAt, KeyFacts
<1>2. T = {0}
  BY <1>1 DEF Below
<1> HIDE DEF T, E, K
<1>3. p \in 1 .. Len(K) /\ p \in 1 .. Len(E) + 1 /\ p \in 1 .. Len(K) + 1
  BY <1>1 DEF E
<1>4. k \in T
  BY <1>1, <1>3
<1>5. k = 0
  BY <1>2, <1>4
<1> HIDE DEF k
<1>6. \A P : E2 \in Seq(Ent) /\ Len(E2) = Len(E) + 1 /\ Cnt(E2, P) = Cnt(E, P) + One(e, P)
  BY <1>1, <1>3, InsertAtFacts
<1>7. \A P : K2 \in Seq(T) /\ Len(K2) = Len(K) + 1 /\ Cnt(K2, P) = Cnt(K, P) + One(k, P)
  BY <1>1, <1>3, <1>4, InsertAtFacts
<1> HIDE DEF E2, K2
<1>8. Len(K2) = Len(E2) + 1 /\ Len(E2) <= m
  BY <1>1, <1>6, <1>7 DEF E
<1>9. NodeAt(m, h, N, KeyBlock(n, b.leaf, E2, K2), n, b.leaf, E2, K2)
  BY <1>1, <1>6, <1>7, <1>8, NodeMade DEF T
<1>10. ASSUME NEW x \in Nat \ {0} PROVE Cnt(K2, {x}) = Cnt(K, {x})
  <2>1. One(k, {x}) = 0
    BY <1>5 DEF One
  <2>2. Cnt(K, {x}) \in Nat
    BY <1>1, CntType
  <2> QED BY <1>7, <2>1, <2>2
<1>11. Filled(b, E2, K2) = KeyBlock(n, b.leaf, E2, K2)
  BY <1>1 DEF Filled
<1>12. Len(E2) = Len(E) + 1 /\ \A P : Cnt(E2, P) = Cnt(E, P) + One(e, P)
  BY <1>6
<1> QED BY <1>9, <1>10, <1>11, <1>12 DEF LeafGrown, E2, K2, E, K, k

\* A block of the tree whose leaf n is written as b, and another block written
\* as v, which is no key block before and after: still the same tree.
LEMMA LeafTouched ==
  ASSUME NEW m \in Nat, NEW B, NEW h, Placed(B), TreeOK(m, B, h), NEW n \in Nat, Live(B, n),
         NEW c \in 1 .. Len(B), B[c].kind # "key", NEW v \in Blocks, v.kind # "key", \A x : WKids(x)[v] = 0,
         NEW b, NodeAt(m, h, Len(B), b, n, B[n].leaf, b.ents, b.kids), b.ents # <<>> \/ n = Root,
         \A x \in Nat \ {0} : Cnt(b.kids, {x}) = Cnt(B[n].kids, {x}),
         NEW C, Two(B, C, c, v, n, b)
  PROVE  TreeOK(m, C, h) /\ Live(C, n) /\ \A i \in Nat : Live(C, i) <=> Live(B, i)
<1>1. B \in Seq(Blocks) /\ Len(B) \in Nat
  BY DEF Placed
<1>2. n \in 1 .. Len(B) /\ B[n].kind = "key" /\ n # c
  BY DEF Live, IsKey
<1>3. /\ C \in Seq(Blocks) /\ Len(C) = Len(B) /\ C[c] = v /\ C[n] = b
      /\ \A i \in 1 .. Len(B) : i \notin {c, n} => C[i] = B[i]
  BY DEF Two
<1>4. b.kind = "key" /\ (\A x : WKids(x)[b] = Cnt(b.kids, {x})) /\ NodeOK(m, h, Len(B), b)
  BY DEF NodeAt, KeyFacts
<1>5. \A i \in Nat : IsKey(C, i) <=> IsKey(B, i)
  BY <1>2, <1>3, <1>4 DEF IsKey
<1>6. ASSUME NEW i \in Nat PROVE Live(C, i) <=> Live(B, i)
  <2>1. CASE i = n
    <3>1. Live(C, n)
      BY <1>2, <1>3, <1>4 DEF Live, IsKey
    <3> QED BY <2>1, <3>1
  <2>2. CASE i # n
    BY <1>3, <1>5, <2>2 DEF Live, IsKey
  <2> QED BY <2>1, <2>2
<1>7. \A i \in Nat : IsKey(B, i) => C[i] = B[i] \/ (Live(B, i) /\ NodeOK(m, h, Len(B), C[i]))
  BY <1>3, <1>4 DEF IsKey
<1>8. ASSUME NEW x \in Nat \ {0} PROVE Weigh(C, WKids(x)) = Weigh(B, WKids(x))
  <2> DEFINE f == WKids(x)
             w == Weigh(B, f)
             q == Cnt(B[n].kids, {x})
  <2>1. f \in [Blocks -> Nat]
    BY WeightTypes
  <2>2. w \in Nat
    BY <1>1, <2>1, WeighType
  <2>3. f[B[c]] = 0
    <3>1. B[c] \in Blocks
      BY <1>1
    <3>2. f[B[c]] = Cnt(KidsOf(B[c]), {x}) /\ KidsOf(B[c]) = <<>>
      BY <3>1 DEF WKids, KidsOf
    <3> QED BY <3>2, CntEmpty
  <2>4. f[B[n]] = q /\ q \in Nat
    <3>1. NodeAt(m, h, Len(B), B[n], n, B[n].leaf, B[n].ents, B[n].kids)
      BY NodeOf
    <3>2. B[n].kids \in Seq(Nat) /\ f[B[n]] = q
      BY <3>1 DEF NodeAt, KeyFacts
    <3> QED BY <3>2, CntType
  <2>5. f[v] = 0 /\ f[b] = q
    BY <1>4
  <2> HIDE DEF f, w, q
  <2>6. Weigh(C, f) = w - f[B[c]] - f[B[n]] + f[v] + f[b]
    BY <2>1 DEF Two, w
  <2>7. Weigh(C, f) = w - 0 - q + 0 + q
    BY <2>3, <2>4, <2>5, <2>6
  <2>8. w - 0 - q + 0 + q = w
    BY ONLY <2>2, <2>4
  <2> QED BY <2>7, <2>8 DEF f, w
<1>9. Touched(m, B, C, h)
  BY <1>1, <1>3, <1>5, <1>6, <1>7, <1>8 DEF Touched
<1> QED BY <1>6, <1>9, TreeTouched

\* The place of the new value is not taken.
StoredIn(current, B, C, v, e) ==
  /\ RefsOK(current, B) /\ IsValue(B, current) /\ current \in Nat
  /\ B[current].num \in Nat /\ B[current].vals \in Seq(Values)
  /\ e \in Ent /\ e.block = current /\ e.slot = Len(B[current].vals) + 1
  /\ Len(C) = Len(B) /\ C[current] = v /\ v.kind = "value" /\ v.num = B[current].num + 1
  /\ Len(v.vals) = Len(B[current].vals) + 1
  /\ \A i \in Nat : i # current => (IsValue(C, i) <=> IsValue(B, i))
  /\ \A i \in Nat : i # current /\ IsValue(B, i) => C[i] = B[i]
  /\ \A P : Weigh(C, WEnts(P)) = Weigh(B, WEnts(P)) + One(e, P)
  /\ \A P : Weigh(B, WEnts(P)) \in Nat

LEMMA StoredRefs ==
  ASSUME NEW current, NEW B, NEW C, NEW v, NEW e, StoredIn(current, B, C, v, e)
  PROVE  RefsOK(current, C)
<1>0. /\ RefsOK(current, B) /\ IsValue(B, current) /\ current \in Nat
      /\ B[current].num \in Nat /\ B[current].vals \in Seq(Values)
      /\ e \in Ent /\ e.block = current /\ e.slot = Len(B[current].vals) + 1
      /\ Len(C) = Len(B) /\ C[current] = v /\ v.kind = "value" /\ v.num = B[current].num + 1
      /\ Len(v.vals) = Len(B[current].vals) + 1
      /\ \A i \in Nat : i # current => (IsValue(C, i) <=> IsValue(B, i))
      /\ \A i \in Nat : i # current /\ IsValue(B, i) => C[i] = B[i]
      /\ \A P : Weigh(C, WEnts(P)) = Weigh(B, WEnts(P)) + One(e, P)
      /\ \A P : Weigh(B, WEnts(P)) \in Nat
  BY DEF StoredIn
<1> USE <1>0
<1>1. IsValue(C, current)
  BY DEF IsValue
<1>2. ASSUME NEW n \in Nat PROVE Weigh(C, WEnts(To(n))) = IF IsValue(C, n) THEN C[n].num ELSE 0
  <2>1. Weigh(B, WEnts(To(n))) = IF IsValue(B, n) THEN B[n].num ELSE 0
    BY DEF RefsOK
  <2>2. One(e, To(n)) = IF n = current THEN 1 ELSE 0
    BY DEF One, To
  <2>3. Weigh(C, WEnts(To(n))) = Weigh(B, WEnts(To(n))) + One(e, To(n)) /\ Weigh(B, WEnts(To(n))) \in Nat
    OBVIOUS
  <2>4. CASE n = current
    BY <1>1, <2>1, <2>2, <2>3, <2>4
  <2>5. CASE n # current
    <3>1. Weigh(C, WEnts(To(n))) = Weigh(B, WEnts(To(n)))
      BY ONLY <2>2, <2>3, <2>5
    <3>2. (IsValue(C, n) <=> IsValue(B, n)) /\ (IsValue(B, n) => C[n] = B[n])
      BY <2>5
    <3> QED BY ONLY <2>1, <3>1, <3>2
  <2> QED BY <2>4, <2>5
<1>3. ASSUME NEW n \in Nat, IsValue(C, n), C[n].num = 0 PROVE n = current /\ C[n].last = 0
  <2>1. n # current
    <3>1. B[current].num + 1 # 0
      OBVIOUS
    <3> QED BY <1>3, <3>1
  <2>2. IsValue(B, n) /\ C[n] = B[n]
    BY <1>3, <2>1
  <2>3. n = current
    BY <1>3, <2>2 DEF RefsOK
  <2> QED BY <2>1, <2>3
<1>4. ASSUME NEW n \in Nat, NEW j \in Nat
      PROVE  Weigh(C, WEnts(At(n, j))) <= IF IsValue(C, n) /\ j \in 1 .. Len(C[n].vals) THEN 1 ELSE 0
  <2> DEFINE w == Weigh(B, WEnts(At(n, j)))
             l == Len(B[current].vals)
  <2>1. w <= IF IsValue(B, n) /\ j \in 1 .. Len(B[n].vals) THEN 1 ELSE 0
    BY DEF RefsOK
  <2>2. One(e, At(n, j)) = IF n = current /\ j = l + 1 THEN 1 ELSE 0
    BY DEF One, At
  <2>3. Weigh(C, WEnts(At(n, j))) = w + One(e, At(n, j)) /\ w \in Nat /\ l \in Nat
    OBVIOUS
  <2>4. CASE n = current
    <3>1. IsValue(C, n) /\ Len(C[n].vals) = l + 1 /\ Len(B[n].vals) = l
      BY <1>1, <2>4
    <3> HIDE DEF w, l
    <3>2. CASE j = l + 1
      <4>1. w <= 0
        BY <2>1, <2>3, <3>1, <3>2
      <4>2. j \in 1 .. l + 1
        BY <2>3, <3>2
      <4> QED BY <2>2, <2>3, <2>4, <3>1, <3>2, <4>1, <4>2
    <3>3. CASE j # l + 1
      <4>1. One(e, At(n, j)) = 0
        BY <2>2, <3>3
      <4>2. w <= IF j \in 1 .. l THEN 1 ELSE 0
        BY <2>1, <2>3, <3>1
      <4> QED BY <2>3, <3>1, <4>1, <4>2
    <3> QED BY <3>2, <3>3
  <2>5. CASE n # current
    <3>1. Weigh(C, WEnts(At(n, j))) = w
      BY ONLY <2>2, <2>3, <2>5
    <3>2. (IsValue(C, n) <=> IsValue(B, n)) /\ (IsValue(B, n) => C[n] = B[n])
      BY <2>5
    <3> HIDE DEF w
    <3> QED BY ONLY <2>1, <3>1, <3>2
  <2> QED BY <2>4, <2>5
<1> QED BY <1>1, <1>2, <1>3, <1>4 DEF RefsOK

\* The value and its entry are written, then the head with the new total.
StoredBlocks(B, c, v, n, b) == Blk(Blk(B, c, v), n, b)

Storing(m, B, h, c, v, n, b, e) ==
  /\ IsValue(B, c) /\ Live(B, n) /\ n \in Nat /\ c \in Nat
  /\ v = ValueBlock(c, B[c].num + 1, v.last, v.vals) /\ v \in Blocks
  /\ Len(v.vals) = Len(B[c].vals) + 1
  /\ e \in Ent /\ e.block = c /\ e.slot = Len(B[c].vals) + 1
  /\ NodeAt(m, h, Len(B), b, n, B[n].leaf, b.ents, b.kids)
  /\ Len(b.ents) = Len(B[n].ents) + 1
  /\ \A P : Cnt(b.ents, P) = Cnt(B[n].ents, P) + One(e, P)
  /\ \A x \in Nat \ {0} : Cnt(b.kids, {x}) = Cnt(B[n].kids, {x})

StoringDone(m, d, B, h, fl, c, v, C, d2) ==
  /\ Good(m, d2, C, h, fl) /\ Spare(C, fl) \subseteq Spare(B, fl)
  /\ Blk(B, c, v) \in Seq(Blocks) /\ ~CountsOK(d, Blk(B, c, v))
  /\ C \in Seq(Blocks) /\ ~CountsOK(d, C)

LEMMA StoringGood ==
  ASSUME NEW m \in Nat, NEW d, NEW B, NEW h, NEW fl, Good(m, d, B, h, fl), NEW c, c = d.current, NEW v,
         NEW n, NEW b, NEW e, Storing(m, B, h, c, v, n, b, e), NEW C, C = StoredBlocks(B, c, v, n, b),
         NEW d2, d2 = [d EXCEPT !.total = @ + 1]
  PROVE  StoringDone(m, d, B, h, fl, c, v, C, d2)
<1>0. Placed(B)
  BY DEF Good
<1>a. /\ IsValue(B, c) /\ Live(B, n) /\ n \in Nat /\ c \in Nat
      /\ v = ValueBlock(c, B[c].num + 1, v.last, v.vals) /\ v \in Blocks
      /\ Len(v.vals) = Len(B[c].vals) + 1
      /\ e \in Ent /\ e.block = c /\ e.slot = Len(B[c].vals) + 1
      /\ NodeAt(m, h, Len(B), b, n, B[n].leaf, b.ents, b.kids)
      /\ Len(b.ents) = Len(B[n].ents) + 1
      /\ \A P : Cnt(b.ents, P) = Cnt(B[n].ents, P) + One(e, P)
      /\ \A x \in Nat \ {0} : Cnt(b.kids, {x}) = Cnt(B[n].kids, {x})
  BY DEF Storing
<1>1. /\ TreeOK(m, B, h) /\ B \in Seq(Blocks) /\ Len(B) \in Nat /\ h \in [1 .. Len(B) -> Nat]
      /\ d \in Handles /\ CountsOK(d, B) /\ RefsOK(d.current, B) /\ FreeOK(d.free, B, fl)
  BY GoodTypes
<1>2. c \in 1 .. Len(B) /\ B[c].kind = "value" /\ n \in 1 .. Len(B) /\ B[n].kind = "key" /\ c # n
  BY <1>a DEF IsValue, Live, IsKey
<1>3. B[c] \in Blocks /\ B[c].num \in Nat /\ B[c].last \in Nat /\ B[c].vals \in Seq(Values) /\ Len(B[c].vals) \in Nat
  <2>1. B[c] \in Blocks
    BY <1>1, <1>2
  <2> QED BY <1>2, <2>1, ValueShape
<1>4. v.kind = "value" /\ v.self = c /\ v.num = B[c].num + 1 /\ v.last \in Nat /\ v.vals \in Seq(Values)
  <2>1. v.kind = "value" /\ v.self = c /\ v.num = B[c].num + 1
    BY <1>a DEF ValueBlock
  <2> QED BY <1>a, <2>1, ValueShape
<1>5. ValueFacts(v, c, B[c].num + 1, v.last, v.vals)
  <2>1. ValueFacts(ValueBlock(c, B[c].num + 1, v.last, v.vals), c, B[c].num + 1, v.last, v.vals)
    <3>1. B[c].num + 1 \in Nat
      BY <1>3
    <3> QED BY ONLY <1>4, <1>a, <3>1, ValueBlockFacts
  <2> QED BY <1>a, <2>1
<1>6. ValueFacts(B[c], c, B[c].num, B[c].last, B[c].vals)
  <2>1. B[c].self = c
    BY <1>0, <1>2 DEF Placed
  <2>2. B[c] = ValueBlock(B[c].self, B[c].num, B[c].last, B[c].vals)
    BY <1>2, <1>3, ValueShape
  <2>3. ValueFacts(ValueBlock(c, B[c].num, B[c].last, B[c].vals), c, B[c].num, B[c].last, B[c].vals)
    BY <1>3, <1>a, ValueBlockFacts
  <2> QED BY <2>1, <2>2, <2>3
<1>7. NodeAt(m, h, Len(B), B[n], n, B[n].leaf, B[n].ents, B[n].kids)
  BY <1>0, <1>1, <1>a, NodeOf
<1>8. /\ b \in Blocks /\ b.self = n /\ b.kind = "key" /\ WCount("keys")[b] = Len(b.ents) /\ WCount("values")[b] = 0
      /\ WCount("keyBlocks")[b] = 1 /\ WCount("valueBlocks")[b] = 0 /\ (\A P : WEnts(P)[b] = Cnt(b.ents, P))
  BY <1>a DEF NodeAt, KeyFacts
<1>9. /\ WCount("keys")[B[n]] = Len(B[n].ents) /\ WCount("values")[B[n]] = 0 /\ Len(B[n].ents) \in Nat
      /\ WCount("keyBlocks")[B[n]] = 1 /\ WCount("valueBlocks")[B[n]] = 0
      /\ (\A P : WEnts(P)[B[n]] = Cnt(B[n].ents, P)) /\ B[n].ents \in Seq(Ent)
  BY <1>7 DEF NodeAt, KeyFacts
<1>10. /\ WCount("keys")[v] = 0 /\ WCount("values")[v] = B[c].num + 1
       /\ WCount("keyBlocks")[v] = 0 /\ WCount("valueBlocks")[v] = 1 /\ (\A P : WEnts(P)[v] = 0)
       /\ \A x : WKids(x)[v] = 0
  BY <1>5 DEF ValueFacts
<1>11. /\ WCount("keys")[B[c]] = 0 /\ WCount("values")[B[c]] = B[c].num
       /\ WCount("keyBlocks")[B[c]] = 0 /\ WCount("valueBlocks")[B[c]] = 1 /\ \A P : WEnts(P)[B[c]] = 0
  BY <1>6 DEF ValueFacts
<1>12. Two(B, C, c, v, n, b)
  BY <1>1, <1>2, <1>8, <1>a, WeighTwo DEF StoredBlocks
<1>13. /\ C \in Seq(Blocks) /\ Len(C) = Len(B) /\ C[c] = v /\ C[n] = b
       /\ (\A i \in 1 .. Len(B) : i \notin {c, n} => C[i] = B[i])
       /\ \A f \in [Blocks -> Nat] : Weigh(C, f) = Weigh(B, f) - f[B[c]] - f[B[n]] + f[v] + f[b]
  BY <1>12 DEF Two
<1>14. /\ d.total \in Int /\ d.keyBlocks \in Int /\ d.valueBlocks \in Int /\ d.current \in Nat
       /\ d2 \in Handles /\ d2.total = d.total + 1 /\ d2.keyBlocks = d.keyBlocks
       /\ d2.valueBlocks = d.valueBlocks /\ d2.current = d.current /\ d2.free = d.free
  BY <1>1, HandleTypes, HandleTotal
<1>15. /\ Weigh(B, WCount("keys")) = d.total /\ Weigh(B, WCount("values")) = d.total
       /\ Weigh(B, WCount("keyBlocks")) = d.keyBlocks /\ Weigh(B, WCount("valueBlocks")) = d.valueBlocks
  BY <1>1 DEF CountsOK
<1>16. /\ Weigh(C, WCount("keys")) = d.total + 1
  <2>0. Weigh(C, WCount("keys"))
          = Weigh(B, WCount("keys")) - WCount("keys")[B[c]] - WCount("keys")[B[n]]
              + WCount("keys")[v] + WCount("keys")[b]
    BY <1>13, CountTypes
  <2>1. Weigh(C, WCount("keys")) = d.total - 0 - Len(B[n].ents) + 0 + (Len(B[n].ents) + 1)
    BY ONLY <2>0, <1>8, <1>9, <1>10, <1>11, <1>15, <1>a
  <2>2. d.total - 0 - Len(B[n].ents) + 0 + (Len(B[n].ents) + 1) = d.total + 1
    BY ONLY <1>9, <1>14
  <2> QED BY <2>1, <2>2
<1>17. Weigh(C, WCount("values")) = d.total + 1
  <2>1. Weigh(C, WCount("values")) = d.total - B[c].num - 0 + (B[c].num + 1) + 0
    BY <1>8, <1>9, <1>10, <1>11, <1>13, <1>15, CountTypes
  <2>2. d.total - B[c].num - 0 + (B[c].num + 1) + 0 = d.total + 1
    BY ONLY <1>3, <1>14
  <2> QED BY <2>1, <2>2
<1>18. Weigh(C, WCount("keyBlocks")) = d.keyBlocks
  <2>1. Weigh(C, WCount("keyBlocks")) = d.keyBlocks - 0 - 1 + 0 + 1
    BY <1>8, <1>9, <1>10, <1>11, <1>13, <1>15, CountTypes
  <2>2. d.keyBlocks - 0 - 1 + 0 + 1 = d.keyBlocks
    BY ONLY <1>14
  <2> QED BY <2>1, <2>2
<1>19. Weigh(C, WCount("valueBlocks")) = d.valueBlocks
  <2>1. Weigh(C, WCount("valueBlocks")) = d.valueBlocks - 1 - 0 + 1 + 0
    BY <1>8, <1>9, <1>10, <1>11, <1>13, <1>15, CountTypes
  <2>2. d.valueBlocks - 1 - 0 + 1 + 0 = d.valueBlocks
    BY ONLY <1>14
  <2> QED BY <2>1, <2>2
<1>20. CountsOK(d2, C)
  BY <1>14, <1>16, <1>17, <1>18, <1>19 DEF CountsOK
<1>21. ~CountsOK(d, C)
  <2>1. d.total + 1 # d.total
    BY <1>14
  <2> QED BY <1>16, <2>1 DEF CountsOK
<1>22. Blk(B, c, v) \in Seq(Blocks) /\ ~CountsOK(d, Blk(B, c, v))
  <2>1w. Written(B, Blk(B, c, v), c, v)
    BY <1>1, <1>2, <1>a, BlkType
  <2>1. Blk(B, c, v) \in Seq(Blocks)
    BY <1>1, <1>2, <1>a, <2>1w DEF Written
  <2>2. Weigh(Blk(B, c, v), WCount("values")) = Weigh(B, WCount("values")) - WCount("values")[B[c]] + WCount("values")[v]
    <3> DEFINE f == WCount("values")
    <3>1. f \in [Blocks -> Nat]
      BY CountTypes
    <3> HIDE DEF f
    <3>2. Weigh(Blk(B, c, v), f) = Weigh(B, f) - f[B[c]] + f[v]
      BY <1>1, <1>2, <1>a, <3>1, WeighBlk
    <3> QED BY <3>2 DEF f
  <2>3. Weigh(Blk(B, c, v), WCount("values")) = d.total - B[c].num + (B[c].num + 1)
    BY <1>10, <1>11, <1>15, <2>2
  <2>4. d.total - B[c].num + (B[c].num + 1) # d.total
    BY ONLY <1>3, <1>14
  <2> QED BY <2>1, <2>3, <2>4 DEF CountsOK
<1>23. ASSUME NEW P PROVE Weigh(C, WEnts(P)) = Weigh(B, WEnts(P)) + One(e, P) /\ Weigh(B, WEnts(P)) \in Nat
  <2> DEFINE f == WEnts(P)
             q == Cnt(B[n].ents, P)
             w == Weigh(B, f)
             o == One(e, P)
  <2>1. f \in [Blocks -> Nat]
    BY WeightTypes
  <2>2. w \in Nat
    BY <1>1, <2>1, WeighType
  <2>3. f[B[c]] = 0 /\ f[B[n]] = q /\ f[v] = 0 /\ f[b] = q + o
    BY <1>8, <1>9, <1>10, <1>11, <1>a
  <2>4. q \in Nat /\ o \in Nat
    BY <1>9, CntType DEF One
  <2> HIDE DEF f, q, w, o
  <2>5. Weigh(C, f) = w - f[B[c]] - f[B[n]] + f[v] + f[b]
    BY <1>13, <2>1 DEF w
  <2>6. Weigh(C, f) = w - 0 - q + 0 + (q + o)
    BY <2>3, <2>5
  <2>7. w - 0 - q + 0 + (q + o) = w + o
    BY ONLY <2>2, <2>4
  <2> QED BY <2>2, <2>6, <2>7 DEF f, o, w
<1>24. RefsOK(d.current, C)
  <2>1. \A i \in Nat : i # c => (IsValue(C, i) <=> IsValue(B, i))
    BY <1>2, <1>8, <1>13 DEF IsValue
  <2>2. \A i \in Nat : i # c /\ IsValue(B, i) => C[i] = B[i]
    BY <1>2, <1>13 DEF IsValue
  <2>3. (\A P : Weigh(C, WEnts(P)) = Weigh(B, WEnts(P)) + One(e, P)) /\ \A P : Weigh(B, WEnts(P)) \in Nat
    BY <1>23
  <2>4. RefsOK(c, B)
    BY <1>1
  <2>5. RefsOK(c, C)
    <3>1. StoredIn(c, B, C, v, e)
      BY <1>3, <1>4, <1>13, <1>a, <2>1, <2>2, <2>3, <2>4 DEF StoredIn
    <3> QED BY <3>1, StoredRefs
  <2> QED BY <2>5
<1>25. b.ents # <<>>
  <2>1. Len(b.ents) # 0
    BY ONLY <1>9, <1>a
  <2>2. Len(<<>>) = 0
    BY EmptySeq
  <2> QED BY <2>1, <2>2
<1>26. TreeOK(m, C, h) /\ \A i \in Nat : Live(C, i) <=> Live(B, i)
  <2>1. B[c].kind # "key" /\ v.kind # "key"
    BY <1>2, <1>4
  <2>2. /\ NodeAt(m, h, Len(B), b, n, B[n].leaf, b.ents, b.kids) /\ Live(B, n) /\ n \in Nat /\ v \in Blocks
        /\ \A x \in Nat \ {0} : Cnt(b.kids, {x}) = Cnt(B[n].kids, {x})
    BY <1>a
  <2>3. \A x : WKids(x)[v] = 0
    BY <1>10
  <2> QED BY ONLY <1>0, <1>1, <1>2, <1>12, <1>25, <2>1, <2>2, <2>3, LeafTouched, m \in Nat
<1>27. FreeOK(d.free, C, fl)
  <2>1. \A i \in 1 .. Len(B) : B[i].kind = "free" => C[i] = B[i]
    BY <1>2, <1>13
  <2> QED BY ONLY <1>1, <1>13, <2>1, FreeKept
<1>28. Placed(C)
  <2>1. \A i \in 1 .. Len(C) : C[i].self = i
    BY <1>0, <1>4, <1>8, <1>13 DEF Placed
  <2>2. C[Root].kind = "key"
    <3>1. B[Root].kind = "key" /\ Root \in 1 .. Len(B)
      BY <1>0 DEF Placed, Root
    <3>2. Root # c
      BY <1>2, <3>1
    <3>3. CASE Root = n
      BY <1>8, <1>13, <3>3
    <3>4. CASE Root # n
      BY <1>13, <3>1, <3>2, <3>4
    <3> QED BY <3>3, <3>4
  <2> QED BY <1>0, <1>13, <2>1, <2>2 DEF Placed
<1>29. Good(m, d2, C, h, fl)
  BY <1>14, <1>20, <1>24, <1>26, <1>27, <1>28 DEF Good
<1>30. Spare(C, fl) \subseteq Spare(B, fl)
  <2> SUFFICES ASSUME NEW i \in Spare(C, fl) PROVE i \in Spare(B, fl)
    OBVIOUS
  <2>1. i \in 1 .. Len(B) /\ i \in Nat /\ C[i].kind \in {"free", "key"}
    BY <1>13 DEF Spare
  <2>2. i # c
    BY <1>4, <1>13, <2>1
  <2>3. i # n
    <3>1. Live(C, n) /\ C[n].kind = "key"
      BY <1>8, <1>13, <1>26, <1>a
    <3> QED BY <3>1 DEF Spare
  <2>4. C[i] = B[i]
    BY <1>13, <2>1, <2>2, <2>3
  <2> QED BY <1>26, <2>1, <2>4 DEF Spare
<1> QED BY <1>13, <1>21, <1>22, <1>29, <1>30 DEF StoringDone

\* A call that ends with the database d and the blocks C.
Ends(m, t, B, fl, X) ==
  \E d, C, g, l : Is(m, t, d, d, C) /\ Good(m, d, C, g, l) /\ Spare(C, l) \subseteq Spare(B, fl) \cup X

LEMMA Stores ==
  ASSUME NEW m \in Nat, NEW s, NEW d, NEW B, NEW h, NEW fl, Good(m, d, B, h, fl), Is(m, s, d, d, B), d.current # 0,
         NEW n \in Nat, Live(B, n), B[n].leaf, Len(B[n].ents) < m, NEW p \in 1 .. Len(B[n].ents) + 1,
         NEW k \in Keys, NEW val \in Values
  PROVE  Ends(m, Stored(s, B[n], p, k, val), B, fl, {})
<1> DEFINE c == d.current
           v == ValueBlock(c, B[c].num + 1, B[c].last + Size[val], Append(B[c].vals, val))
           e == Entry(k, c, Len(v.vals))
           b == Filled(B[n], InsertAt(B[n].ents, p, e), InsertAt(B[n].kids, p, B[n].kids[p]))
           C1 == Blk(B, c, v)
           C == StoredBlocks(B, c, v, n, b)
           d2 == [d EXCEPT !.total = @ + 1]
           t == node_flush(node_flush(s, v), b)
<1>0. Placed(B)
  BY DEF Good
<1>1. /\ TreeOK(m, B, h) /\ B \in Seq(Blocks) /\ Len(B) \in Nat /\ h \in [1 .. Len(B) -> Nat]
      /\ d \in Handles /\ CountsOK(d, B) /\ RefsOK(d.current, B)
  BY GoodTypes
<1>2. IsValue(B, c) /\ c \in 1 .. Len(B) /\ B[c].kind = "value" /\ c \in Nat
  BY <1>1 DEF RefsOK, IsValue
<1>3. B[c] \in Blocks /\ B[c].num \in Nat /\ B[c].last \in Nat /\ B[c].vals \in Seq(Values) /\ B[c].self = c
  <2>1. B[c] \in Blocks /\ B[c].self = c
    BY <1>0, <1>1, <1>2 DEF Placed
  <2> QED BY <1>2, <2>1, ValueShape
<1>4. B[c].last + Size[val] \in Nat /\ B[c].num + 1 \in Nat
  <2>1. Size[val] \in Nat
    BY SetupAssumption
  <2> QED BY <1>3, <2>1
<1>5. Append(B[c].vals, val) \in Seq(Values) /\ Len(Append(B[c].vals, val)) = Len(B[c].vals) + 1
  BY <1>3
<1>6. ValueFacts(v, c, B[c].num + 1, B[c].last + Size[val], Append(B[c].vals, val))
  BY ONLY <1>2, <1>4, <1>5, ValueBlockFacts
<1>7. /\ v \in Blocks /\ v.self = c /\ v.num = B[c].num + 1 /\ v.last = B[c].last + Size[val]
      /\ v.vals = Append(B[c].vals, val)
  BY <1>6 DEF ValueFacts
<1>8. v = ValueBlock(c, B[c].num + 1, v.last, v.vals) /\ Len(v.vals) = Len(B[c].vals) + 1
  BY <1>5, <1>7
<1> HIDE DEF v
<1>9. e \in Ent /\ e.block = c /\ e.slot = Len(B[c].vals) + 1
  <2>1. Len(B[c].vals) + 1 \in Nat
    BY <1>3
  <2> QED BY <1>2, <1>8, <2>1 DEF Entry, Ent
<1>10. e = Entry(k, c, Len(v.vals))
  OBVIOUS
<1> HIDE DEF e
<1>11. NodeAt(m, h, Len(B), B[n], n, B[n].leaf, B[n].ents, B[n].kids)
  BY <1>0, <1>1, NodeOf
<1>12. /\ NodeAt(m, h, Len(B), b, n, B[n].leaf, InsertAt(B[n].ents, p, e), InsertAt(B[n].kids, p, B[n].kids[p]))
       /\ Len(InsertAt(B[n].ents, p, e)) = Len(B[n].ents) + 1
       /\ \A P : Cnt(InsertAt(B[n].ents, p, e), P) = Cnt(B[n].ents, P) + One(e, P)
       /\ \A x \in Nat \ {0} : Cnt(InsertAt(B[n].kids, p, B[n].kids[p]), {x}) = Cnt(B[n].kids, {x})
  <2> HIDE DEF b
  <2>1. LeafGrown(m, h, Len(B), B[n], n, e, p)
    BY <1>1, <1>9, <1>11, LeafGrows
  <2> QED BY <2>1 DEF LeafGrown, b
<1>13. b.ents = InsertAt(B[n].ents, p, e) /\ b.kids = InsertAt(B[n].kids, p, B[n].kids[p]) /\ b.self = n
  BY <1>11 DEF Filled, KeyBlock, NodeAt, KeyFacts
<1>14. b = Filled(B[n], InsertAt(B[n].ents, p, e), InsertAt(B[n].kids, p, B[n].kids[p]))
  OBVIOUS
<1> HIDE DEF b
<1>15. Storing(m, B, h, c, v, n, b, e)
  BY <1>2, <1>7, <1>8, <1>9, <1>12, <1>13 DEF Storing
<1>16. /\ Good(m, d2, C, h, fl) /\ Spare(C, fl) \subseteq Spare(B, fl)
       /\ C1 \in Seq(Blocks) /\ ~CountsOK(d, C1) /\ C \in Seq(Blocks) /\ ~CountsOK(d, C)
  <2>1. c = d.current /\ C = StoredBlocks(B, c, v, n, b) /\ d2 = [d EXCEPT !.total = @ + 1]
    OBVIOUS
  <2>2. /\ Good(m, d2, C, h, fl) /\ Spare(C, fl) \subseteq Spare(B, fl)
        /\ Blk(B, c, v) \in Seq(Blocks) /\ ~CountsOK(d, Blk(B, c, v)) /\ C \in Seq(Blocks) /\ ~CountsOK(d, C)
    <3> HIDE DEF c, C, d2
    <3>1. StoringDone(m, d, B, h, fl, c, v, C, d2)
      BY ONLY <1>15, <2>1, StoringGood, Good(m, d, B, h, fl), m \in Nat
    <3> QED BY <3>1 DEF StoringDone
  <2> QED BY <2>2
<1>17. Stored(s, B[n], p, k, val) = head_flush(WithDb(t, [t.db EXCEPT !.total = @ + 1]))
  <2>1. s.db = d /\ s.file.blocks = B
    BY DEF Is, FileOf
  <2>2. v = ValueBlock(B[c].self, B[c].num + 1, B[c].last + Size[val], Append(B[c].vals, val))
    BY <1>3 DEF v
  <2>3. t = node_flush(node_flush(s, v), b)
    OBVIOUS
  <2>4. s.file.blocks[s.db.current] = B[c] /\ B[c].self = c
    BY <1>3, <2>1
  <2> HIDE DEF c, t
  <2> QED BY ONLY <1>10, <1>14, <2>2, <2>3, <2>4 DEF Stored
<1> HIDE DEF C1, d2
<1>18. C = Blk(C1, n, b)
  BY DEF StoredBlocks, C1
<1>19. Is(m, node_flush(s, v), d, d, C1)
  <2>1. Ok(m, FileOf(d, Blk(B, c, v)))
    BY <1>16, OffIsOk DEF C1
  <2> QED BY <1>1, <1>2, <1>7, <2>1, IsFlush DEF C1
<1>20. Is(m, t, d, d, C)
  <2>1. Ok(m, FileOf(d, Blk(C1, n, b)))
    BY <1>16, <1>18, OffIsOk
  <2>2. n \in 1 .. Len(C1)
    <3>1. n \in 1 .. Len(B)
      BY DEF Live, IsKey
    <3>2w. Written(B, Blk(B, c, v), c, v)
      BY ONLY <1>1, <1>2, <1>7, BlkType
    <3>2. Len(Blk(B, c, v)) = Len(B)
      BY ONLY <1>1, <1>2, <1>7, <3>2w DEF Written
    <3> QED BY <3>1, <3>2 DEF C1
  <2>3. Is(m, node_flush(node_flush(s, v), b), d, d, Blk(C1, n, b))
    BY ONLY <1>13, <1>16, <1>19, <2>1, <2>2, IsFlush
  <2> QED BY <1>18, <2>3
<1> HIDE DEF C, t
<1>21. WithDb(t, [t.db EXCEPT !.total = @ + 1]) = WithDb(t, d2)
  BY <1>20 DEF Is, d2
<1>22. Is(m, WithDb(t, d2), d2, d, C)
  BY <1>20, IsWithDb
<1>23. Is(m, head_flush(WithDb(t, d2)), d2, d2, C)
  <2>1. Ok(m, FileOf(d2, C))
    BY <1>16, GoodIsOk
  <2> QED BY <1>22, <2>1, IsHead
<1> QED BY <1>16, <1>17, <1>21, <1>23 DEF Ends

\* The current value block is left when it is not empty.
LEMMA CurrentGiven ==
  ASSUME NEW m, NEW s, NEW d, NEW B, NEW h, NEW fl, Good(m, d, B, h, fl), Is(m, s, d, d, B),
         d.current # 0 => B[d.current].last # 0, NEW e, e = [d EXCEPT !.current = 0]
  PROVE  /\ Is(m, head_flush(WithDb(s, e)), e, e, B) /\ Good(m, e, B, h, fl) /\ e.current = 0
<1>0. Placed(B)
  BY DEF Good
<1>1. d \in Handles /\ CountsOK(d, B) /\ RefsOK(d.current, B) /\ TreeOK(m, B, h) /\ FreeOK(d.free, B, fl)
  BY GoodTypes
<1>2. /\ e \in Handles /\ e.free = d.free /\ e.current = 0 /\ e.total = d.total
      /\ e.keyBlocks = d.keyBlocks /\ e.valueBlocks = d.valueBlocks
  BY <1>1, HandleCurrent
<1>3. RefsOK(0, B)
  <2>1. \A n \in Nat : IsValue(B, n) => B[n].num # 0
    <3> SUFFICES ASSUME NEW n \in Nat, IsValue(B, n), B[n].num = 0 PROVE FALSE
      OBVIOUS
    <3>1. n = d.current /\ B[n].last = 0
      BY <1>1 DEF RefsOK
    <3>2. n # 0
      BY DEF IsValue
    <3> QED BY <3>1, <3>2
  <2> QED BY <1>1, <2>1 DEF RefsOK
<1>4. CountsOK(e, B)
  BY <1>1, <1>2 DEF CountsOK
<1>5. Good(m, e, B, h, fl)
  BY <1>0, <1>1, <1>2, <1>3, <1>4 DEF Good
<1>6. Is(m, WithDb(s, e), e, d, B)
  BY IsWithDb
<1>7. Ok(m, FileOf(e, B))
  BY <1>5, GoodIsOk
<1>8. Is(m, head_flush(WithDb(s, e)), e, e, B)
  BY <1>6, <1>7, IsHead
<1> QED BY <1>2, <1>5, <1>8

-----------------------------------------------------------------------------
(* ReleaseValue.                                                           *)

\* No entry refers to the value of e any more, which is still counted.
RefsLack(current, B, e) ==
  /\ current # 0 => IsValue(B, current)
  /\ \A n \in Nat : Weigh(B, WEnts(To(n))) + One(e, To(n)) = IF IsValue(B, n) THEN B[n].num ELSE 0
  /\ \A n \in Nat : IsValue(B, n) /\ B[n].num = 0 => n = current /\ B[n].last = 0
  /\ \A n \in Nat, j \in Nat :
       Weigh(B, WEnts(At(n, j))) + One(e, At(n, j)) <= IF IsValue(B, n) /\ j \in 1 .. Len(B[n].vals) THEN 1 ELSE 0

Lacks(m, d, B, h, fl, e) ==
  /\ d \in Handles /\ Placed(B) /\ TreeOK(m, B, h) /\ FreeOK(d.free, B, fl) /\ RefsLack(d.current, B, e) /\ e \in Ent
  /\ Weigh(B, WCount("keys")) = d.total - 1 /\ Weigh(B, WCount("values")) = d.total
  /\ Weigh(B, WCount("keyBlocks")) = d.keyBlocks /\ Weigh(B, WCount("valueBlocks")) = d.valueBlocks

\* A value block becomes another one, or a free one: no entry changes.
ValueWritten(m, B, h, c, b, C) ==
  /\ C = Blk(B, c, b) /\ C \in Seq(Blocks) /\ Len(C) = Len(B) /\ C[c] = b
  /\ \A i \in 1 .. Len(B) : i # c => C[i] = B[i]
  /\ Placed(C) /\ TreeOK(m, C, h) /\ \A i \in Nat : Live(C, i) <=> Live(B, i)
  /\ \A P : Weigh(C, WEnts(P)) = Weigh(B, WEnts(P)) /\ Weigh(B, WEnts(P)) \in Nat
  /\ \A counter \in Counters :
       Weigh(C, WCount(counter)) = Weigh(B, WCount(counter)) - WCount(counter)[B[c]] + WCount(counter)[b]

LEMMA ValueWrites ==
  ASSUME NEW m, NEW B, NEW h, Placed(B), TreeOK(m, B, h), NEW c, IsValue(B, c), NEW b \in Blocks, b.self = c,
         b.kind # "key"
  PROVE  ValueWritten(m, B, h, c, b, Blk(B, c, b))
<1> DEFINE C == Blk(B, c, b)
<1>1. B \in Seq(Blocks) /\ Len(B) \in Nat /\ Len(B) >= 1 /\ (\A n \in 1 .. Len(B) : B[n].self = n)
      /\ B[Root].kind = "key" /\ Root \in 1 .. Len(B)
  BY DEF Placed, Root
<1>2. c \in 1 .. Len(B) /\ B[c].kind = "value" /\ B[c] \in Blocks
  BY <1>1 DEF IsValue
<1>3w. Written(B, C, c, b)
  BY <1>1, <1>2, BlkType
<1>3. C \in Seq(Blocks) /\ Len(C) = Len(B) /\ \A i \in 1 .. Len(B) : C[i] = IF i = c THEN b ELSE B[i]
  BY <1>1, <1>2, <1>3w DEF Written
<1>w. ASSUME NEW f \in [Blocks -> Nat] PROVE Weigh(C, f) = Weigh(B, f) - f[B[c]] + f[b]
  BY <1>1, <1>2, WeighBlk
<1> HIDE DEF C
<1>4. C[c] = b /\ \A i \in 1 .. Len(B) : i # c => C[i] = B[i]
  BY <1>2, <1>3
<1>5. Placed(C)
  <2>1. \A i \in 1 .. Len(C) : C[i].self = i
    BY <1>1, <1>3
  <2>2. C[Root].kind = "key"
    BY <1>1, <1>2, <1>4
  <2> QED BY <1>1, <1>3, <2>1, <2>2 DEF Placed
<1>6. \A i \in Nat : IsKey(C, i) <=> IsKey(B, i)
  BY <1>2, <1>3, <1>4 DEF IsKey
<1>7. \A i \in Nat : Live(C, i) <=> Live(B, i)
  BY <1>2, <1>3, <1>4, <1>6 DEF Live, IsKey
<1>8. \A i \in Nat : IsKey(B, i) => C[i] = B[i]
  BY <1>2, <1>4 DEF IsKey
<1>9. ASSUME NEW f \in [Blocks -> Nat], f[B[c]] = 0, f[b] = 0 PROVE Weigh(C, f) = Weigh(B, f) /\ Weigh(B, f) \in Nat
  <2>1. Weigh(B, f) \in Nat
    BY <1>1, WeighType
  <2> QED BY <1>w, <1>9, <2>1
<1>10. ASSUME NEW P PROVE Weigh(C, WEnts(P)) = Weigh(B, WEnts(P)) /\ Weigh(B, WEnts(P)) \in Nat
  <2>1. WEnts(P) \in [Blocks -> Nat]
    BY WeightTypes
  <2>2. EntsOf(B[c]) = <<>> /\ EntsOf(b) = <<>>
    BY <1>2 DEF EntsOf
  <2>3. WEnts(P)[B[c]] = 0 /\ WEnts(P)[b] = 0
    BY <1>2, <2>2, CntEmpty DEF WEnts
  <2> QED BY <1>9, <2>1, <2>3
<1>11. ASSUME NEW x PROVE Weigh(C, WKids(x)) = Weigh(B, WKids(x))
  <2>1. WKids(x) \in [Blocks -> Nat]
    BY WeightTypes
  <2>2. KidsOf(B[c]) = <<>> /\ KidsOf(b) = <<>>
    BY <1>2 DEF KidsOf
  <2>3. WKids(x)[B[c]] = 0 /\ WKids(x)[b] = 0
    BY <1>2, <2>2, CntEmpty DEF WKids
  <2> QED BY <1>9, <2>1, <2>3
<1>12. Touched(m, B, C, h)
  BY <1>1, <1>3, <1>6, <1>7, <1>8, <1>11 DEF Touched
<1>13. TreeOK(m, C, h)
  BY <1>12, TreeTouched
<1>14. ASSUME NEW counter \in Counters
       PROVE  Weigh(C, WCount(counter)) = Weigh(B, WCount(counter)) - WCount(counter)[B[c]] + WCount(counter)[b]
  BY <1>w, WeightTypes
<1>15. C = Blk(B, c, b)
  BY DEF C
<1> QED BY <1>3, <1>4, <1>5, <1>7, <1>10, <1>13, <1>14, <1>15 DEF ValueWritten

\* A value block and what it weighs.
LEMMA ValueOf ==
  ASSUME NEW B, Placed(B), NEW c, IsValue(B, c)
  PROVE  /\ c \in 1 .. Len(B) /\ c \in Nat /\ B[c] \in Blocks /\ B[c].self = c /\ B[c].kind = "value"
         /\ B[c].num \in Nat /\ B[c].last \in Nat /\ B[c].vals \in Seq(Values)
         /\ ValueFacts(B[c], c, B[c].num, B[c].last, B[c].vals)
<1>1. c \in 1 .. Len(B) /\ c \in Nat /\ B[c].kind = "value" /\ B[c] \in Blocks /\ B[c].self = c
  BY DEF IsValue, Placed
<1>2. B[c].num \in Nat /\ B[c].last \in Nat /\ B[c].vals \in Seq(Values)
  BY <1>1, ValueShape
<1>3. B[c] = ValueBlock(B[c].self, B[c].num, B[c].last, B[c].vals)
  BY <1>1, ValueShape
<1>4. ValueFacts(ValueBlock(c, B[c].num, B[c].last, B[c].vals), c, B[c].num, B[c].last, B[c].vals)
  BY ONLY <1>1, <1>2, ValueBlockFacts
<1> QED BY <1>1, <1>2, <1>3, <1>4

LacksFacts(d, B, e, c) ==
  /\ d.total \in Int /\ d.current \in Nat /\ e \in Ent /\ c = e.block /\ IsValue(B, c)
  /\ B[c].num \in Nat /\ B[c].num >= 1 /\ Weigh(B, WEnts(To(c))) + 1 = B[c].num
  /\ \A P : Weigh(B, WEnts(P)) \in Nat

\* The value that lacks an entry is in a value block that counts it.
LEMMA LacksValue ==
  ASSUME NEW m, NEW d, NEW B, NEW h, NEW fl, NEW e, Lacks(m, d, B, h, fl, e), NEW c, c = e.block
  PROVE  LacksFacts(d, B, e, c)
<1>1. d \in Handles /\ Placed(B) /\ RefsLack(d.current, B, e) /\ e \in Ent
  BY DEF Lacks
<1>2. c \in Nat /\ One(e, To(c)) = 1
  BY <1>1 DEF Ent, To, One
<1>3. ASSUME NEW P PROVE Weigh(B, WEnts(P)) \in Nat
  <2>1. WEnts(P) \in [Blocks -> Nat] /\ B \in Seq(Blocks)
    BY <1>1, WeightTypes DEF Placed
  <2> QED BY <2>1, WeighType
<1>4. Weigh(B, WEnts(To(c))) + 1 = IF IsValue(B, c) THEN B[c].num ELSE 0
  BY <1>1, <1>2 DEF RefsLack
<1>5. Weigh(B, WEnts(To(c))) \in Nat
  BY <1>3
<1>6. IsValue(B, c)
  BY ONLY <1>4, <1>5
<1>7. B[c].num \in Nat
  BY <1>1, <1>6, ValueOf
<1>8. B[c].num >= 1 /\ Weigh(B, WEnts(To(c))) + 1 = B[c].num
  BY ONLY <1>4, <1>5, <1>6, <1>7
<1>9. d.total \in Int /\ d.current \in Nat
  BY <1>1, HandleTypes
<1> QED BY <1>1, <1>3, <1>6, <1>7, <1>8, <1>9 DEF LacksFacts

\* The value is one of several of its block.
LEMMA ReleaseOneOfMany ==
  ASSUME NEW m, NEW d, NEW B, NEW h, NEW fl, NEW e, Lacks(m, d, B, h, fl, e), NEW c, c = e.block, B[c].num # 1,
         NEW v, v = ValueBlock(c, B[c].num - 1, B[c].last, B[c].vals), NEW C, C = Blk(B, c, v),
         NEW d2, d2 = [d EXCEPT !.total = @ - 1]
  PROVE  /\ Good(m, d2, C, h, fl) /\ Spare(C, fl) \subseteq Spare(B, fl)
         /\ C \in Seq(Blocks) /\ ~CountsOK(d, C) /\ v.self = c
<1>1. /\ d \in Handles /\ Placed(B) /\ TreeOK(m, B, h) /\ FreeOK(d.free, B, fl) /\ RefsLack(d.current, B, e)
      /\ Weigh(B, WCount("keys")) = d.total - 1 /\ Weigh(B, WCount("values")) = d.total
      /\ Weigh(B, WCount("keyBlocks")) = d.keyBlocks /\ Weigh(B, WCount("valueBlocks")) = d.valueBlocks
  BY DEF Lacks
<1>2. LacksFacts(d, B, e, c)
  BY LacksValue
<1>3. /\ d.total \in Int /\ d.current \in Nat /\ e \in Ent /\ c = e.block /\ IsValue(B, c)
      /\ B[c].num \in Nat /\ B[c].num >= 1 /\ Weigh(B, WEnts(To(c))) + 1 = B[c].num
      /\ \A P : Weigh(B, WEnts(P)) \in Nat
  BY <1>2 DEF LacksFacts
<1>4. /\ c \in 1 .. Len(B) /\ c \in Nat /\ B[c] \in Blocks /\ B[c].kind = "value"
      /\ B[c].last \in Nat /\ B[c].vals \in Seq(Values) /\ ValueFacts(B[c], c, B[c].num, B[c].last, B[c].vals)
  BY <1>1, <1>3, ValueOf
<1>5. B[c].num - 1 \in Nat /\ B[c].num - 1 # 0
  BY ONLY <1>3, B[c].num # 1
<1>6. ValueFacts(v, c, B[c].num - 1, B[c].last, B[c].vals)
  BY ONLY <1>4, <1>5, ValueBlockFacts, v = ValueBlock(c, B[c].num - 1, B[c].last, B[c].vals)
<1>7. /\ v \in Blocks /\ v.self = c /\ v.kind = "value" /\ v.num = B[c].num - 1 /\ v.last = B[c].last
      /\ v.vals = B[c].vals
      /\ WCount("keys")[v] = 0 /\ WCount("values")[v] = B[c].num - 1
      /\ WCount("keyBlocks")[v] = 0 /\ WCount("valueBlocks")[v] = 1
  BY <1>6 DEF ValueFacts
<1>8. /\ WCount("keys")[B[c]] = 0 /\ WCount("values")[B[c]] = B[c].num
      /\ WCount("keyBlocks")[B[c]] = 0 /\ WCount("valueBlocks")[B[c]] = 1
  BY <1>4 DEF ValueFacts
<1>9. ValueWritten(m, B, h, c, v, C)
  BY <1>1, <1>3, <1>7, ValueWrites
<1>10. /\ C \in Seq(Blocks) /\ Len(C) = Len(B) /\ C[c] = v /\ (\A i \in 1 .. Len(B) : i # c => C[i] = B[i])
       /\ Placed(C) /\ TreeOK(m, C, h) /\ \A i \in Nat : Live(C, i) <=> Live(B, i)
  BY <1>9 DEF ValueWritten
<1>11. \A P : Weigh(C, WEnts(P)) = Weigh(B, WEnts(P))
  BY <1>9 DEF ValueWritten
<1>12. ASSUME NEW counter \in Counters
       PROVE  Weigh(C, WCount(counter)) = Weigh(B, WCount(counter)) - WCount(counter)[B[c]] + WCount(counter)[v]
  BY <1>9 DEF ValueWritten
<1>13. /\ d2 \in Handles /\ d2.total = d.total - 1 /\ d2.keyBlocks = d.keyBlocks
       /\ d2.valueBlocks = d.valueBlocks /\ d2.current = d.current /\ d2.free = d.free
       /\ d.keyBlocks \in Int /\ d.valueBlocks \in Int
  BY <1>1, HandleTypes, HandleTotal
<1>14. Weigh(C, WCount("keys")) = d.total - 1 - 0 + 0
  BY <1>1, <1>7, <1>8, <1>12 DEF Counters
<1>15. Weigh(C, WCount("values")) = d.total - B[c].num + (B[c].num - 1)
  BY <1>1, <1>7, <1>8, <1>12 DEF Counters
<1>16. Weigh(C, WCount("keyBlocks")) = d.keyBlocks - 0 + 0
  BY <1>1, <1>7, <1>8, <1>12 DEF Counters
<1>17. Weigh(C, WCount("valueBlocks")) = d.valueBlocks - 1 + 1
  BY <1>1, <1>7, <1>8, <1>12 DEF Counters
<1>18. /\ d.total - 1 - 0 + 0 = d.total - 1 /\ d.total - B[c].num + (B[c].num - 1) = d.total - 1
       /\ d.keyBlocks - 0 + 0 = d.keyBlocks /\ d.valueBlocks - 1 + 1 = d.valueBlocks /\ d.total - 1 # d.total
  BY ONLY <1>3, <1>13
<1>19. CountsOK(d2, C) /\ ~CountsOK(d, C)
  BY ONLY <1>13, <1>14, <1>15, <1>16, <1>17, <1>18 DEF CountsOK
<1>20. (\A i \in Nat : IsValue(C, i) <=> IsValue(B, i)) /\ \A i \in Nat : i # c /\ IsValue(B, i) => C[i] = B[i]
  <2>1. ASSUME NEW i \in Nat PROVE IsValue(C, i) <=> IsValue(B, i)
    <3>1. CASE i = c
      BY ONLY <1>4, <1>7, <1>10, <3>1 DEF IsValue
    <3>2. CASE i # c
      BY ONLY <1>10, <3>2 DEF IsValue
    <3> QED BY <3>1, <3>2
  <2>2. ASSUME NEW i \in Nat, i # c, IsValue(B, i) PROVE C[i] = B[i]
    BY ONLY <1>10, <2>2 DEF IsValue
  <2> QED BY <2>1, <2>2
<1>21. ASSUME NEW n \in Nat PROVE Weigh(C, WEnts(To(n))) = IF IsValue(C, n) THEN C[n].num ELSE 0
  <2>1. Weigh(B, WEnts(To(n))) + One(e, To(n)) = IF IsValue(B, n) THEN B[n].num ELSE 0
    BY <1>1 DEF RefsLack
  <2>2. Weigh(C, WEnts(To(n))) = Weigh(B, WEnts(To(n))) /\ Weigh(B, WEnts(To(n))) \in Nat
    BY <1>3, <1>11
  <2>3. CASE n = c
    <3>1. IsValue(C, n) /\ C[n].num = B[c].num - 1
      BY <1>3, <1>7, <1>10, <1>20, <2>3
    <3>2. Weigh(B, WEnts(To(n))) = B[c].num - 1
      BY ONLY <1>3, <2>2, <2>3
    <3> QED BY <2>2, <3>1, <3>2
  <2>4. CASE n # c
    <3>1. One(e, To(n)) = 0
      BY <1>3, <2>4 DEF One, To
    <3>2. Weigh(B, WEnts(To(n))) = IF IsValue(B, n) THEN B[n].num ELSE 0
      <4>1. Weigh(B, WEnts(To(n))) + 0 = Weigh(B, WEnts(To(n)))
        BY ONLY <2>2
      <4> QED BY <2>1, <3>1, <4>1
    <3> QED BY <1>20, <2>2, <2>4, <3>2
  <2> QED BY <2>3, <2>4
<1>22. ASSUME NEW n \in Nat, IsValue(C, n), C[n].num = 0 PROVE n = d.current /\ C[n].last = 0
  <2>1. n # c
    BY ONLY <1>5, <1>7, <1>10, <1>22
  <2> QED BY <1>1, <1>20, <1>22, <2>1 DEF RefsLack
<1>23. ASSUME NEW n \in Nat, NEW j \in Nat
       PROVE  Weigh(C, WEnts(At(n, j))) <= IF IsValue(C, n) /\ j \in 1 .. Len(C[n].vals) THEN 1 ELSE 0
  <2> DEFINE w == Weigh(B, WEnts(At(n, j)))
             o == One(e, At(n, j))
             z == IF IsValue(B, n) /\ j \in 1 .. Len(B[n].vals) THEN 1 ELSE 0
  <2>1. w + o <= z /\ w \in Nat /\ o \in Nat /\ z \in Nat
    BY <1>1, <1>3 DEF RefsLack, One
  <2>2. Weigh(C, WEnts(At(n, j))) = w
    BY <1>11
  <2>3. z = IF IsValue(C, n) /\ j \in 1 .. Len(C[n].vals) THEN 1 ELSE 0
    <3>1. IsValue(C, n) <=> IsValue(B, n)
      BY <1>20
    <3>2. IsValue(B, n) => C[n].vals = B[n].vals
      BY ONLY <1>7, <1>10, <1>20, n \in Nat
    <3> QED BY ONLY <3>1, <3>2 DEF z
  <2> HIDE DEF w, o, z
  <2>4. w <= z
    BY ONLY <2>1
  <2> QED BY <2>2, <2>3, <2>4
<1>24. RefsOK(d2.current, C)
  <2>1. d.current # 0 => IsValue(C, d.current)
    BY <1>1, <1>3, <1>20 DEF RefsLack
  <2> QED BY <1>13, <1>21, <1>22, <1>23, <2>1 DEF RefsOK
<1>25. FreeOK(d2.free, C, fl)
  <2>1. \A i \in 1 .. Len(B) : B[i].kind = "free" => C[i] = B[i]
    BY <1>4, <1>10
  <2>2. Len(B) \in Nat
    BY <1>1 DEF Placed
  <2> QED BY ONLY <1>1, <1>10, <1>13, <2>1, <2>2, FreeKept
<1>26. Good(m, d2, C, h, fl)
  BY <1>10, <1>13, <1>19, <1>24, <1>25 DEF Good
<1>27. Spare(C, fl) \subseteq Spare(B, fl)
  <2> SUFFICES ASSUME NEW i \in Spare(C, fl) PROVE i \in Spare(B, fl)
    OBVIOUS
  <2>1. i \in 1 .. Len(B) /\ i \in Nat /\ C[i].kind \in {"free", "key"}
    BY ONLY <1>10, i \in Spare(C, fl) DEF Spare
  <2>2. i # c
    BY ONLY <1>7, <1>10, <2>1
  <2>3. C[i] = B[i] /\ (Live(C, i) <=> Live(B, i))
    BY <1>10, <2>1, <2>2
  <2> QED BY ONLY <1>10, <2>1, <2>3, i \in Spare(C, fl) DEF Spare
<1> QED BY <1>7, <1>10, <1>19, <1>26, <1>27

\* The handle when a value block is given up, and that of the last value.
LEMMA DestroyedValue ==
  ASSUME NEW d \in Handles, NEW b, b.kind = "value", b.self \in Nat, b.self # 0
  PROVE  LET d0 == Released(d, b)
             e == Destroyed(d0, b)
         IN  /\ d0 \in Handles /\ d0.free = d.free /\ d0.current = (IF d.current = b.self THEN 0 ELSE d.current)
             /\ e \in Handles /\ e.free = b.self /\ e.current = d0.current /\ e.total = d.total
             /\ e.keyBlocks = d.keyBlocks /\ e.valueBlocks = d.valueBlocks - 1
<1> DEFINE d0 == Released(d, b)
           g == CountedOut(d0, b)
           n == b.self
           e == [g EXCEPT !.free = n]
<1>1. /\ d0 \in Handles /\ d0.free = d.free /\ d0.current = (IF d.current = b.self THEN 0 ELSE d.current)
      /\ d0.total = d.total /\ d0.keyBlocks = d.keyBlocks /\ d0.valueBlocks = d.valueBlocks
  <2>1. CASE b.self = d.current
    <3>1. d0 = [d EXCEPT !.current = 0]
      BY <2>1 DEF Released
    <3>2. 0 \in Nat
      OBVIOUS
    <3> HIDE DEF d0
    <3>3. /\ [d EXCEPT !.current = 0] \in Handles /\ [d EXCEPT !.current = 0].free = d.free
          /\ [d EXCEPT !.current = 0].current = 0 /\ [d EXCEPT !.current = 0].total = d.total
          /\ [d EXCEPT !.current = 0].keyBlocks = d.keyBlocks /\ [d EXCEPT !.current = 0].valueBlocks = d.valueBlocks
      BY ONLY <3>2, HandleCurrent, d \in Handles
    <3> QED BY ONLY <2>1, <3>1, <3>3
  <2>2. CASE b.self # d.current
    BY <2>2 DEF Released
  <2> QED BY <2>1, <2>2
<1> HIDE DEF d0
<1>2. /\ g \in Handles /\ g.current = d0.current /\ g.total = d0.total
      /\ g.keyBlocks = d0.keyBlocks /\ g.valueBlocks = d0.valueBlocks - 1
  BY <1>1, HandleValue
<1> HIDE DEF g
<1>3. n \in Nat /\ n = b.self
  OBVIOUS
<1> HIDE DEF n
<1>4. /\ e \in Handles /\ e.free = n /\ e.current = g.current /\ e.total = g.total
      /\ e.keyBlocks = g.keyBlocks /\ e.valueBlocks = g.valueBlocks
  BY <1>2, <1>3, HandleFree
<1>5. e = Destroyed(d0, b)
  BY <1>3 DEF Destroyed, g
<1> HIDE DEF e
<1>6. /\ e \in Handles /\ e.free = b.self /\ e.current = d0.current /\ e.total = d.total
      /\ e.keyBlocks = d.keyBlocks /\ e.valueBlocks = d.valueBlocks - 1
  BY <1>1, <1>2, <1>3, <1>4
<1> QED BY <1>1, <1>5, <1>6 DEF d0

\* The value is the last one of its block, which is given up.
LEMMA ReleaseTheLast ==
  ASSUME NEW m, NEW d, NEW B, NEW h, NEW fl, NEW e, Lacks(m, d, B, h, fl, e), NEW c, c = e.block, B[c].num = 1,
         NEW d0, d0 = Released(d, B[c]), NEW e1, e1 = Destroyed(d0, B[c]),
         NEW C, C = Blk(B, c, FreeBlock(c, d0.free)), NEW d2, d2 = [e1 EXCEPT !.total = @ - 1]
  PROVE  /\ Good(m, d2, C, h, Given(c, fl)) /\ Spare(C, Given(c, fl)) \subseteq Spare(B, fl)
         /\ ~CountsOK(e1, B) /\ ~CountsOK(e1, C) /\ C \in Seq(Blocks) /\ d0 \in Handles
<1>1. /\ d \in Handles /\ Placed(B) /\ TreeOK(m, B, h) /\ FreeOK(d.free, B, fl) /\ RefsLack(d.current, B, e)
      /\ Weigh(B, WCount("keys")) = d.total - 1 /\ Weigh(B, WCount("values")) = d.total
      /\ Weigh(B, WCount("keyBlocks")) = d.keyBlocks /\ Weigh(B, WCount("valueBlocks")) = d.valueBlocks
  BY DEF Lacks
<1>2. LacksFacts(d, B, e, c)
  BY LacksValue
<1>3. /\ d.total \in Int /\ d.current \in Nat /\ e \in Ent /\ c = e.block /\ IsValue(B, c)
      /\ Weigh(B, WEnts(To(c))) + 1 = B[c].num
      /\ \A P : Weigh(B, WEnts(P)) \in Nat
  BY <1>2 DEF LacksFacts
<1>4. /\ c \in 1 .. Len(B) /\ c \in Nat /\ B[c] \in Blocks /\ B[c].kind = "value" /\ B[c].self = c
      /\ B[c].last \in Nat /\ B[c].vals \in Seq(Values) /\ ValueFacts(B[c], c, B[c].num, B[c].last, B[c].vals)
  BY <1>1, <1>3, ValueOf
<1>5. c # 0 /\ Len(B) \in Nat
  <2>1. Len(B) \in Nat
    BY <1>1 DEF Placed
  <2> QED BY ONLY <1>4, <2>1
<1>d. /\ d0 \in Handles /\ d0.free = d.free /\ d0.current = (IF d.current = c THEN 0 ELSE d.current)
      /\ e1 \in Handles /\ e1.free = c /\ e1.current = d0.current /\ e1.total = d.total
      /\ e1.keyBlocks = d.keyBlocks /\ e1.valueBlocks = d.valueBlocks - 1
  BY <1>1, <1>4, <1>5, DestroyedValue
<1> DEFINE v == FreeBlock(c, d0.free)
<1>e. d0.free \in Nat
  BY <1>d, HandleTypes
<1>6. FreeFacts(v, c, d0.free)
  BY ONLY <1>4, <1>e, FreeBlockFacts
<1>7. /\ v \in Blocks /\ v.self = c /\ v.kind = "free" /\ v.next = d0.free
      /\ WCount("keys")[v] = 0 /\ WCount("values")[v] = 0
      /\ WCount("keyBlocks")[v] = 0 /\ WCount("valueBlocks")[v] = 0
  BY <1>6 DEF FreeFacts
<1>c. C = Blk(B, c, v)
  OBVIOUS
<1> HIDE DEF v
<1>8. /\ WCount("keys")[B[c]] = 0 /\ WCount("values")[B[c]] = 1
      /\ WCount("keyBlocks")[B[c]] = 0 /\ WCount("valueBlocks")[B[c]] = 1
  BY <1>4 DEF ValueFacts
<1>9. ValueWritten(m, B, h, c, v, C)
  BY <1>1, <1>3, <1>7, <1>c, ValueWrites
<1>10. /\ C \in Seq(Blocks) /\ Len(C) = Len(B) /\ C[c] = v /\ (\A i \in 1 .. Len(B) : i # c => C[i] = B[i])
       /\ Placed(C) /\ TreeOK(m, C, h) /\ \A i \in Nat : Live(C, i) <=> Live(B, i)
  BY <1>9 DEF ValueWritten
<1>11. \A P : Weigh(C, WEnts(P)) = Weigh(B, WEnts(P))
  BY <1>9 DEF ValueWritten
<1>12. ASSUME NEW counter \in Counters
       PROVE  Weigh(C, WCount(counter)) = Weigh(B, WCount(counter)) - WCount(counter)[B[c]] + WCount(counter)[v]
  BY <1>9 DEF ValueWritten
<1>13. /\ d2 \in Handles /\ d2.total = e1.total - 1 /\ d2.keyBlocks = e1.keyBlocks
       /\ d2.valueBlocks = e1.valueBlocks /\ d2.current = e1.current /\ d2.free = e1.free
  BY <1>d, HandleTotal
<1>i. d.keyBlocks \in Int /\ d.valueBlocks \in Int
  BY <1>1, HandleTypes
<1>14. Weigh(C, WCount("keys")) = d.total - 1 - 0 + 0
  BY <1>1, <1>7, <1>8, <1>12 DEF Counters
<1>15. Weigh(C, WCount("values")) = d.total - 1 + 0
  BY <1>1, <1>7, <1>8, <1>12 DEF Counters
<1>16. Weigh(C, WCount("keyBlocks")) = d.keyBlocks - 0 + 0
  BY <1>1, <1>7, <1>8, <1>12 DEF Counters
<1>17. Weigh(C, WCount("valueBlocks")) = d.valueBlocks - 1 + 0
  BY <1>1, <1>7, <1>8, <1>12 DEF Counters
<1>18. /\ d.total - 1 - 0 + 0 = d.total - 1 /\ d.total - 1 + 0 = d.total - 1
       /\ d.keyBlocks - 0 + 0 = d.keyBlocks /\ d.valueBlocks - 1 + 0 = d.valueBlocks - 1 /\ d.total - 1 # d.total
  BY ONLY <1>3, <1>i
<1>19. CountsOK(d2, C) /\ ~CountsOK(e1, C) /\ ~CountsOK(e1, B)
  BY ONLY <1>1, <1>d, <1>13, <1>14, <1>15, <1>16, <1>17, <1>18 DEF CountsOK
<1>20. \A i \in Nat : IsValue(C, i) <=> IsValue(B, i) /\ i # c
  <2> SUFFICES ASSUME NEW i \in Nat PROVE IsValue(C, i) <=> IsValue(B, i) /\ i # c
    OBVIOUS
  <2>1. CASE i = c
    BY ONLY <1>7, <1>10, <2>1 DEF IsValue
  <2>2. CASE i # c
    BY ONLY <1>10, <2>2 DEF IsValue
  <2> QED BY <2>1, <2>2
<1>21. ASSUME NEW i \in Nat, i # c, IsValue(B, i) PROVE C[i] = B[i]
  BY ONLY <1>10, <1>21 DEF IsValue
<1>22. ASSUME NEW n \in Nat PROVE Weigh(C, WEnts(To(n))) = IF IsValue(C, n) THEN C[n].num ELSE 0
  <2>1. Weigh(B, WEnts(To(n))) + One(e, To(n)) = IF IsValue(B, n) THEN B[n].num ELSE 0
    BY <1>1 DEF RefsLack
  <2>2. Weigh(C, WEnts(To(n))) = Weigh(B, WEnts(To(n))) /\ Weigh(B, WEnts(To(n))) \in Nat
    BY <1>3, <1>11
  <2>3. CASE n = c
    <3>1. ~IsValue(C, n)
      BY <1>20, <2>3
    <3>2. Weigh(B, WEnts(To(n))) = 0
      BY ONLY <1>3, <2>2, <2>3, B[c].num = 1
    <3> QED BY <2>2, <3>1, <3>2
  <2>4. CASE n # c
    <3>1. One(e, To(n)) = 0
      BY <1>3, <2>4 DEF One, To
    <3>2. Weigh(B, WEnts(To(n))) = IF IsValue(B, n) THEN B[n].num ELSE 0
      <4>1. Weigh(B, WEnts(To(n))) + 0 = Weigh(B, WEnts(To(n)))
        BY ONLY <2>2
      <4> QED BY <2>1, <3>1, <4>1
    <3> QED BY <1>20, <1>21, <2>2, <2>4, <3>2
  <2> QED BY <2>3, <2>4
<1>23. ASSUME NEW n \in Nat, IsValue(C, n), C[n].num = 0 PROVE n = d0.current /\ C[n].last = 0
  <2>1. n # c /\ IsValue(B, n)
    BY <1>20, <1>23
  <2>2. C[n] = B[n]
    BY <1>21, <2>1
  <2>3. n = d.current /\ B[n].last = 0
    BY <1>1, <1>23, <2>1, <2>2 DEF RefsLack
  <2> QED BY ONLY <1>d, <2>1, <2>2, <2>3
<1>24. ASSUME NEW n \in Nat, NEW j \in Nat
       PROVE  Weigh(C, WEnts(At(n, j))) <= IF IsValue(C, n) /\ j \in 1 .. Len(C[n].vals) THEN 1 ELSE 0
  <2> DEFINE w == Weigh(B, WEnts(At(n, j)))
             o == One(e, At(n, j))
             z == IF IsValue(B, n) /\ j \in 1 .. Len(B[n].vals) THEN 1 ELSE 0
  <2>1. w + o <= z /\ w \in Nat /\ o \in Nat /\ z \in Nat
    BY <1>1, <1>3 DEF RefsLack, One
  <2>2. Weigh(C, WEnts(At(n, j))) = w
    BY <1>11
  <2>3. CASE n # c
    <3>1. z = IF IsValue(C, n) /\ j \in 1 .. Len(C[n].vals) THEN 1 ELSE 0
      <4>1. IsValue(C, n) <=> IsValue(B, n)
        BY <1>20, <2>3
      <4>2. IsValue(B, n) => C[n].vals = B[n].vals
        BY <1>21, <2>3
      <4> QED BY ONLY <4>1, <4>2 DEF z
    <3> HIDE DEF w, o, z
    <3>2. w <= z
      BY ONLY <2>1
    <3> QED BY <2>2, <3>1, <3>2
  <2>4. CASE n = c
    <3>1. Weigh(C, WEnts(To(c))) = 0
      BY <1>20, <1>22, <1>4
    <3>2. \A b \in Blocks : WEnts(At(n, j))[b] <= WEnts(To(c))[b]
      <4> SUFFICES ASSUME NEW b \in Blocks PROVE WEnts(At(n, j))[b] <= WEnts(To(c))[b]
        OBVIOUS
      <4>1. EntsOf(b) \in Seq(Ent) /\ At(n, j) \subseteq To(c)
        BY <2>4, OfTypes DEF At, To
      <4>2. Cnt(EntsOf(b), At(n, j)) <= Cnt(EntsOf(b), To(c))
        BY <4>1, CntSubset
      <4> QED BY <4>2 DEF WEnts
    <3>3. Weigh(C, WEnts(At(n, j))) <= Weigh(C, WEnts(To(c)))
      <4>1. WEnts(At(n, j)) \in [Blocks -> Nat] /\ WEnts(To(c)) \in [Blocks -> Nat]
        BY WeightTypes
      <4> QED BY <1>10, <3>2, <4>1, WeighMonotonic
    <3>4. ~IsValue(C, n)
      BY <1>20, <2>4
    <3> QED BY <3>1, <3>3, <3>4
  <2> QED BY <2>3, <2>4
<1>25. RefsOK(d2.current, C)
  <2>1. d0.current # 0 => IsValue(C, d0.current)
    <3>1. d.current # 0 => IsValue(B, d.current)
      BY <1>1 DEF RefsLack
    <3> QED BY <1>3, <1>d, <1>20, <3>1
  <2>2. RefsOK(d0.current, C)
    BY <1>22, <1>23, <1>24, <2>1 DEF RefsOK
  <2> QED BY <1>13, <1>d, <2>2
<1>26. GivenUp(d.free, B, C, fl, c)
  <2>1. \A i \in 1 .. Len(B) : B[i].kind = "free" => C[i] = B[i]
    BY <1>4, <1>10
  <2> QED BY <1>1, <1>4, <1>5, <1>7, <1>10, <1>d, <2>1 DEF GivenUp
<1>27. /\ FreeOK(c, C, Given(c, fl))
       /\ \A k : (\A i \in 1 .. Len(Given(c, fl)) : Given(c, fl)[i] # k) => k # c /\ \A i \in 1 .. Len(fl) : fl[i] # k
  <2>1. NowFree(C, fl, c)
    BY <1>26, FreeGiven
  <2> QED BY ONLY <2>1 DEF NowFree
<1>28. Good(m, d2, C, h, Given(c, fl))
  BY <1>10, <1>13, <1>19, <1>25, <1>27, <1>d DEF Good
<1>29. Spare(C, Given(c, fl)) \subseteq Spare(B, fl)
  <2> SUFFICES ASSUME NEW i \in Spare(C, Given(c, fl)) PROVE i \in Spare(B, fl)
    OBVIOUS
  <2>1. /\ i \in 1 .. Len(C)
        /\ \/ C[i].kind = "free" /\ \A j \in 1 .. Len(Given(c, fl)) : Given(c, fl)[j] # i
           \/ C[i].kind = "key" /\ ~Live(C, i)
    BY ONLY i \in Spare(C, Given(c, fl)) DEF Spare
  <2>2. CASE C[i].kind = "free" /\ \A j \in 1 .. Len(Given(c, fl)) : Given(c, fl)[j] # i
    <3>1. i # c /\ \A j \in 1 .. Len(fl) : fl[j] # i
      BY <1>27, <2>2
    <3>2. B[i].kind = "free" /\ i \in 1 .. Len(B)
      BY ONLY <1>10, <2>1, <2>2, <3>1
    <3> QED BY <3>1, <3>2 DEF Spare
  <2>3. CASE C[i].kind = "key" /\ ~Live(C, i)
    <3>1. i # c
      BY ONLY <1>7, <1>10, <2>3
    <3>2. C[i] = B[i] /\ i \in 1 .. Len(B) /\ i \in Nat
      BY ONLY <1>10, <2>1, <3>1
    <3> QED BY <1>10, <2>3, <3>2 DEF Spare
  <2> QED BY <2>1, <2>2, <2>3
<1> QED BY <1>10, <1>19, <1>28, <1>29, <1>d

LEMMA Releases ==
  ASSUME NEW m, NEW s, NEW d, NEW B, NEW h, NEW fl, NEW e, Lacks(m, d, B, h, fl, e), Is(m, s, d, d, B)
  PROVE  Ends(m, ReleaseValue(s, e), B, fl, {})
<1> DEFINE c == e.block
           v == ValueBlock(c, B[c].num - 1, B[c].last, B[c].vals)
           t == IF B[c].num = 1 THEN node_destroy(WithDb(s, Released(d, B[c])), B[c]) ELSE node_flush(s, v)
<1>1. /\ d \in Handles /\ Placed(B) /\ B \in Seq(Blocks)
  BY DEF Lacks, Placed
<1>2. IsValue(B, c)
  BY LacksValue DEF LacksFacts
<1>3. c \in 1 .. Len(B) /\ B[c].self = c /\ B[c].kind = "value"
  BY <1>1, <1>2, ValueOf
<1>4. s.db = d /\ s.file.blocks = B
  BY DEF Is, FileOf
<1>5. ReleaseValue(s, e) = head_flush(WithDb(t, [t.db EXCEPT !.total = @ - 1]))
  BY <1>3, <1>4 DEF ReleaseValue
<1>c. c = e.block
  OBVIOUS
<1>6. CASE B[c].num # 1
  <2> DEFINE C == Blk(B, c, v)
             d2 == [d EXCEPT !.total = @ - 1]
  <2>0. v = ValueBlock(c, B[c].num - 1, B[c].last, B[c].vals) /\ C = Blk(B, c, v) /\ d2 = [d EXCEPT !.total = @ - 1]
    OBVIOUS
  <2>t. t = node_flush(s, v)
    BY <1>6
  <2> HIDE DEF t, v, C, d2, c
  <2>1. /\ Good(m, d2, C, h, fl) /\ Spare(C, fl) \subseteq Spare(B, fl)
        /\ C \in Seq(Blocks) /\ ~CountsOK(d, C) /\ v.self = c
    BY ONLY <1>6, <1>c, <2>0, ReleaseOneOfMany, Lacks(m, d, B, h, fl, e)
  <2>2. Ok(m, FileOf(d, C))
    BY <1>1, <2>1, OffIsOk
  <2>3. Is(m, t, d, d, C)
    BY ONLY <1>1, <1>3, <2>0, <2>1, <2>2, <2>t, IsFlush, Is(m, s, d, d, B)
  <2>4. WithDb(t, [t.db EXCEPT !.total = @ - 1]) = WithDb(t, d2)
    BY <2>0, <2>3 DEF Is
  <2>5. Is(m, WithDb(t, d2), d2, d, C)
    BY <2>3, IsWithDb
  <2>6. Ok(m, FileOf(d2, C))
    BY <2>1, GoodIsOk
  <2>7. Is(m, head_flush(WithDb(t, d2)), d2, d2, C)
    BY <2>5, <2>6, IsHead
  <2> QED BY <1>5, <2>1, <2>4, <2>7 DEF Ends
<1>7. CASE B[c].num = 1
  <2> DEFINE d0 == Released(d, B[c])
             e1 == Destroyed(d0, B[c])
             C == Blk(B, c, FreeBlock(c, d0.free))
             d2 == [e1 EXCEPT !.total = @ - 1]
             s0 == WithDb(s, d0)
  <2>0. /\ d0 = Released(d, B[c]) /\ e1 = Destroyed(d0, B[c]) /\ C = Blk(B, c, FreeBlock(c, d0.free))
        /\ d2 = [e1 EXCEPT !.total = @ - 1]
    OBVIOUS
  <2>s. s0 = WithDb(s, d0)
    OBVIOUS
  <2>t. t = node_destroy(s0, B[c])
    BY <1>7
  <2> HIDE DEF t, v, C, d2, c, d0, e1, s0
  <2>1. /\ Good(m, d2, C, h, Given(c, fl)) /\ Spare(C, Given(c, fl)) \subseteq Spare(B, fl)
        /\ ~CountsOK(e1, B) /\ ~CountsOK(e1, C) /\ C \in Seq(Blocks) /\ d0 \in Handles
    BY ONLY <1>7, <1>c, <2>0, ReleaseTheLast, Lacks(m, d, B, h, fl, e)
  <2>2. Is(m, s0, d0, d, B)
    BY <2>s, IsWithDb
  <2>3. Is(m, t, e1, e1, C)
    BY ONLY <1>1, <1>3, <2>0, <2>1, <2>2, <2>t, DestroyOff
  <2>4. WithDb(t, [t.db EXCEPT !.total = @ - 1]) = WithDb(t, d2)
    BY <2>0, <2>3 DEF Is
  <2>5. Is(m, WithDb(t, d2), d2, e1, C)
    BY <2>3, IsWithDb
  <2>6. Ok(m, FileOf(d2, C))
    BY <2>1, GoodIsOk
  <2>7. Is(m, head_flush(WithDb(t, d2)), d2, d2, C)
    BY <2>5, <2>6, IsHead
  <2> QED BY <1>5, <2>1, <2>4, <2>7 DEF Ends
<1> QED BY <1>6, <1>7

-----------------------------------------------------------------------------
(* The writes of a deletion before ReleaseValue.                           *)

LEMMA GrownFromRemove ==
  ASSUME NEW T, NEW E \in Seq(Ent), NEW K \in Seq(T), NEW i \in 1 .. Len(E), i \in 1 .. Len(K)
  PROVE  Grown(RemoveAt(E, i), RemoveAt(K, i), E, K, T, E[i], K[i])
<1> DEFINE E2 == RemoveAt(E, i)
           K2 == RemoveAt(K, i)
           u == E[i]
           k == K[i]
<1>0. ASSUME NEW S, NEW s \in Seq(S), NEW P PROVE Cnt(s, P) \in Nat /\ \A e : One(e, P) \in Nat
  BY CntType DEF One
<1>1. ASSUME NEW P PROVE E2 \in Seq(Ent) /\ Len(E2) = Len(E) - 1 /\ Cnt(E2, P) = Cnt(E, P) - One(u, P)
  BY RemoveAtFacts
<1>2. ASSUME NEW P PROVE K2 \in Seq(T) /\ Len(K2) = Len(K) - 1 /\ Cnt(K2, P) = Cnt(K, P) - One(k, P)
  BY RemoveAtFacts
<1>3. u \in Ent /\ Len(E) \in Nat /\ Len(K) \in Nat
  OBVIOUS
<1> HIDE DEF E2, K2, u, k
<1>4. ASSUME NEW P PROVE Cnt(E, P) = Cnt(E2, P) + One(u, P)
  <2>1. Cnt(E, P) \in Nat /\ One(u, P) \in Nat
    BY <1>0
  <2> QED BY ONLY <1>1, <2>1
<1>5. ASSUME NEW P PROVE Cnt(K, P) = Cnt(K2, P) + One(k, P)
  <2>1. Cnt(K, P) \in Nat /\ One(k, P) \in Nat
    BY <1>0
  <2> QED BY ONLY <1>2, <2>1
<1>6. E2 \in Seq(Ent) /\ K2 \in Seq(T) /\ Len(E) = Len(E2) + 1 /\ Len(K) = Len(K2) + 1
  BY <1>1, <1>2, <1>3
<1>7. Grown(E2, K2, E, K, T, u, k)
  BY <1>3, <1>4, <1>5, <1>6 DEF Grown
<1> QED BY <1>7 DEF E2, K2, u, k

\* A leaf without one of its entries.
Shrunk(m, h, N, b, n, E2, K2, v) ==
  /\ NodeAt(m, h, N, Filled(b, E2, K2), n, b.leaf, E2, K2) /\ v \in Ent
  /\ Len(b.ents) = Len(E2) + 1
  /\ \A P : Cnt(b.ents, P) = Cnt(E2, P) + One(v, P)
  /\ \A x \in Nat \ {0} : Cnt(K2, {x}) = Cnt(b.kids, {x})

LEMMA LeafShrinks ==
  ASSUME NEW m \in Nat, NEW h, NEW N, NEW b, NEW n, NodeAt(m, h, N, b, n, b.leaf, b.ents, b.kids), b.leaf,
         N \in Nat, h \in [1 .. N -> Nat], NEW E2, NEW K2, NEW v, NEW k,
         Grown(E2, K2, b.ents, b.kids, Below(h, N, h[n]), v, k)
  PROVE  Shrunk(m, h, N, b, n, E2, K2, v)
<1> DEFINE E == b.ents
           K == b.kids
           T == Below(h, N, h[n])
<1>1. /\ n \in 1 .. N /\ Len(E) \in Nat /\ Len(K) = Len(E) + 1 /\ Len(E) <= m
      /\ h[n] = 0 /\ h[n] <= h[Root] /\ b.leaf \in BOOLEAN /\ b.self = n
  BY DEF NodeAt, KeyFacts
<1>2. T = {0}
  BY <1>1 DEF Below
<1>3. /\ E2 \in Seq(Ent) /\ K \in Seq(T) /\ K2 \in Seq(T) /\ v \in Ent
      /\ Len(E) = Len(E2) + 1 /\ Len(K) = Len(K2) + 1
      /\ \A P : Cnt(E, P) = Cnt(E2, P) + One(v, P)
  BY DEF Grown
<1>t. T = Below(h, N, h[n])
  OBVIOUS
<1> HIDE DEF T, E, K
<1>4. Len(K2) = Len(E2) + 1 /\ Len(E2) <= m
  <2>1. Len(E2) \in Nat /\ Len(K2) \in Nat
    BY <1>3
  <2> QED BY ONLY <1>1, <1>3, <2>1, m \in Nat
<1>5. NodeAt(m, h, N, KeyBlock(n, b.leaf, E2, K2), n, b.leaf, E2, K2)
  BY <1>1, <1>3, <1>4, <1>t, NodeMade
<1>6. ASSUME NEW x \in Nat \ {0} PROVE Cnt(K2, {x}) = Cnt(K, {x})
  <2>1. \A y \in T : y \notin {x}
    BY <1>2
  <2>3. Cnt(K2, {x}) = 0
    BY <1>3, <2>1, CntNone
  <2>4. Cnt(K, {x}) = 0
    BY <1>3, <2>1, CntNone
  <2> QED BY <2>3, <2>4
<1>7. Filled(b, E2, K2) = KeyBlock(n, b.leaf, E2, K2)
  BY <1>1 DEF Filled
<1> QED BY <1>3, <1>5, <1>6, <1>7 DEF Shrunk, E, K

\* C is B but for blocks of the tree, which stay what and where they are.
Rewrote(m, h, B, C) ==
  /\ Placed(B) /\ TreeOK(m, B, h) /\ C \in Seq(Blocks) /\ Len(C) = Len(B)
  /\ \A i \in 1 .. Len(B) :
       \/ C[i] = B[i]
       \/ /\ Live(B, i) /\ NodeAt(m, h, Len(B), C[i], i, C[i].leaf, C[i].ents, C[i].kids)
          /\ C[i].ents # <<>> \/ i = Root
  /\ \A x \in Nat \ {0} : Weigh(C, WKids(x)) = Weigh(B, WKids(x))

RewroteFacts(m, h, B, C) ==
  /\ Placed(C) /\ TreeOK(m, C, h)
  /\ \A i \in Nat : Live(C, i) <=> Live(B, i)
  /\ \A i \in 1 .. Len(B) : C[i].kind = B[i].kind /\ (B[i].kind # "key" => C[i] = B[i])

LEMMA TreeRewrote ==
  ASSUME NEW m, NEW h, NEW B, NEW C, Rewrote(m, h, B, C)
  PROVE  RewroteFacts(m, h, B, C)
<1>1. /\ Placed(B) /\ TreeOK(m, B, h) /\ C \in Seq(Blocks) /\ Len(C) = Len(B)
      /\ \A i \in 1 .. Len(B) :
           \/ C[i] = B[i]
           \/ /\ Live(B, i) /\ NodeAt(m, h, Len(B), C[i], i, C[i].leaf, C[i].ents, C[i].kids)
              /\ C[i].ents # <<>> \/ i = Root
      /\ \A x \in Nat \ {0} : Weigh(C, WKids(x)) = Weigh(B, WKids(x))
  BY DEF Rewrote
<1>2. B \in Seq(Blocks) /\ Len(B) \in Nat /\ Len(B) >= 1 /\ Root \in 1 .. Len(B) /\ B[Root].kind = "key"
      /\ \A i \in 1 .. Len(B) : B[i].self = i
  BY <1>1 DEF Placed, Root
<1>3. ASSUME NEW i \in 1 .. Len(B), C[i] # B[i]
      PROVE  /\ Live(B, i) /\ NodeOK(m, h, Len(B), C[i]) /\ C[i].kind = "key" /\ C[i].self = i
             /\ C[i].ents # <<>> \/ i = Root
  <2>1. NodeAt(m, h, Len(B), C[i], i, C[i].leaf, C[i].ents, C[i].kids) /\ Live(B, i) /\ (C[i].ents # <<>> \/ i = Root)
    BY <1>1, <1>3
  <2> QED BY <2>1 DEF NodeAt, KeyFacts
<1>4. ASSUME NEW i \in 1 .. Len(B) PROVE C[i].kind = B[i].kind /\ (B[i].kind # "key" => C[i] = B[i]) /\ C[i].self = i
  <2>1. CASE C[i] = B[i]
    BY <1>2, <2>1
  <2>2. CASE C[i] # B[i]
    BY <1>3, <2>2 DEF Live, IsKey
  <2> QED BY <2>1, <2>2
<1>5. ASSUME NEW i \in Nat PROVE IsKey(C, i) <=> IsKey(B, i)
  BY <1>1, <1>4 DEF IsKey
<1>6. ASSUME NEW i \in Nat PROVE Live(C, i) <=> Live(B, i)
  <2>1. CASE ~IsKey(B, i)
    BY <1>5, <2>1 DEF Live
  <2>2. CASE IsKey(B, i) /\ C[i] = B[i]
    BY <1>5, <2>2 DEF Live
  <2>3. CASE IsKey(B, i) /\ C[i] # B[i]
    <3>1. Live(B, i) /\ (C[i].ents # <<>> \/ i = Root)
      BY <1>3, <2>3 DEF IsKey
    <3> QED BY <1>5, <2>3, <3>1 DEF Live
  <2> QED BY <2>1, <2>2, <2>3
<1>7. ASSUME NEW i \in Nat, IsKey(B, i) PROVE C[i] = B[i] \/ (Live(B, i) /\ NodeOK(m, h, Len(B), C[i]))
  BY <1>3, <1>7 DEF IsKey
<1>8. Touched(m, B, C, h)
  BY <1>1, <1>2, <1>5, <1>6, <1>7 DEF Touched
<1>9. TreeOK(m, C, h)
  BY <1>8, TreeTouched
<1>10. Placed(C)
  BY <1>1, <1>2, <1>4 DEF Placed
<1> QED BY <1>4, <1>6, <1>9, <1>10 DEF RewroteFacts

\* One entry less, and nothing else has changed.
Lost(m, d, h, fl, B, C, e) ==
  /\ Good(m, d, B, h, fl) /\ Rewrote(m, h, B, C) /\ e \in Ent
  /\ \A P : Weigh(B, WEnts(P)) = Weigh(C, WEnts(P)) + One(e, P)
  /\ Weigh(C, WCount("keys")) = d.total - 1 /\ Weigh(C, WCount("values")) = d.total
  /\ Weigh(C, WCount("keyBlocks")) = d.keyBlocks /\ Weigh(C, WCount("valueBlocks")) = d.valueBlocks

LEMMA LostLacks ==
  ASSUME NEW m, NEW d, NEW h, NEW fl, NEW B, NEW C, NEW e, Lost(m, d, h, fl, B, C, e)
  PROVE  /\ Lacks(m, d, C, h, fl, e) /\ Spare(C, fl) \subseteq Spare(B, fl) /\ C \in Seq(Blocks) /\ ~CountsOK(d, C)
<1>1. /\ Good(m, d, B, h, fl) /\ Rewrote(m, h, B, C) /\ e \in Ent
      /\ \A P : Weigh(B, WEnts(P)) = Weigh(C, WEnts(P)) + One(e, P)
      /\ Weigh(C, WCount("keys")) = d.total - 1 /\ Weigh(C, WCount("values")) = d.total
      /\ Weigh(C, WCount("keyBlocks")) = d.keyBlocks /\ Weigh(C, WCount("valueBlocks")) = d.valueBlocks
  BY DEF Lost
<1>2. d \in Handles /\ RefsOK(d.current, B) /\ FreeOK(d.free, B, fl) /\ Len(B) \in Nat /\ d.total \in Int
  BY <1>1, GoodTypes, HandleTypes
<1>3. RewroteFacts(m, h, B, C)
  BY <1>1, TreeRewrote
<1>4. /\ Placed(C) /\ TreeOK(m, C, h)
      /\ \A i \in Nat : Live(C, i) <=> Live(B, i)
      /\ \A i \in 1 .. Len(B) : C[i].kind = B[i].kind /\ (B[i].kind # "key" => C[i] = B[i])
  BY <1>3 DEF RewroteFacts
<1>5. C \in Seq(Blocks) /\ Len(C) = Len(B)
  BY <1>1 DEF Rewrote
<1>6. ASSUME NEW n \in Nat PROVE (IsValue(C, n) <=> IsValue(B, n)) /\ (IsValue(B, n) => C[n] = B[n])
  BY ONLY <1>4, <1>5, <1>6 DEF IsValue
<1>7. RefsLack(d.current, C, e)
  <2>1. d.current # 0 => IsValue(C, d.current)
    <3>1. d.current \in Nat
      BY <1>2, HandleTypes
    <3> QED BY <1>2, <1>6, <3>1 DEF RefsOK
  <2>2. ASSUME NEW n \in Nat PROVE Weigh(C, WEnts(To(n))) + One(e, To(n)) = IF IsValue(C, n) THEN C[n].num ELSE 0
    <3>1. Weigh(B, WEnts(To(n))) = IF IsValue(B, n) THEN B[n].num ELSE 0
      BY <1>2 DEF RefsOK
    <3> QED BY <1>1, <1>6, <3>1
  <2>3. ASSUME NEW n \in Nat, IsValue(C, n), C[n].num = 0 PROVE n = d.current /\ C[n].last = 0
    <3>1. IsValue(B, n) /\ C[n] = B[n]
      BY <1>6, <2>3
    <3> QED BY <1>2, <2>3, <3>1 DEF RefsOK
  <2>4. ASSUME NEW n \in Nat, NEW j \in Nat
        PROVE  Weigh(C, WEnts(At(n, j))) + One(e, At(n, j)) <= IF IsValue(C, n) /\ j \in 1 .. Len(C[n].vals) THEN 1 ELSE 0
    <3>1. Weigh(B, WEnts(At(n, j))) <= IF IsValue(B, n) /\ j \in 1 .. Len(B[n].vals) THEN 1 ELSE 0
      BY <1>2 DEF RefsOK
    <3>2. Weigh(B, WEnts(At(n, j))) = Weigh(C, WEnts(At(n, j))) + One(e, At(n, j))
      BY <1>1
    <3>3. (IsValue(C, n) <=> IsValue(B, n)) /\ (IsValue(B, n) => C[n] = B[n])
      BY <1>6
    <3> QED BY ONLY <3>1, <3>2, <3>3
  <2> QED BY <2>1, <2>2, <2>3, <2>4 DEF RefsLack
<1>8. FreeOK(d.free, C, fl)
  <2>1. \A i \in 1 .. Len(B) : B[i].kind = "free" => C[i] = B[i]
    BY <1>4
  <2> QED BY ONLY <1>2, <1>5, <2>1, FreeKept
<1>9. Lacks(m, d, C, h, fl, e)
  BY ONLY <1>1, <1>2, <1>4, <1>7, <1>8 DEF Lacks
<1>10. ~CountsOK(d, C)
  <2>1. d.total - 1 # d.total
    BY <1>2
  <2> QED BY <1>1, <2>1 DEF CountsOK
<1>11. Spare(C, fl) \subseteq Spare(B, fl)
  <2> SUFFICES ASSUME NEW i \in Spare(C, fl) PROVE i \in Spare(B, fl)
    OBVIOUS
  <2>1. /\ i \in 1 .. Len(C)
        /\ \/ C[i].kind = "free" /\ \A j \in 1 .. Len(fl) : fl[j] # i
           \/ C[i].kind = "key" /\ ~Live(C, i)
    BY ONLY i \in Spare(C, fl) DEF Spare
  <2>2. i \in 1 .. Len(B) /\ i \in Nat /\ C[i].kind = B[i].kind /\ (Live(C, i) <=> Live(B, i))
    BY ONLY <1>4, <1>5, <2>1
  <2> QED BY ONLY <2>1, <2>2 DEF Spare
<1> QED BY <1>5, <1>9, <1>10, <1>11

\* Leaf n, of which the entries E2 stay.
Leaving(m, d, B, h, fl, n, E2, K2, v) ==
  /\ Good(m, d, B, h, fl) /\ n \in Nat /\ Live(B, n) /\ Shrunk(m, h, Len(B), B[n], n, E2, K2, v)
  /\ E2 # <<>> \/ n = Root

\* The entry of a leaf.
LEMMA LeafLost ==
  ASSUME NEW m \in Nat, NEW d, NEW B, NEW h, NEW fl, NEW n, NEW E2, NEW K2, NEW v,
         Leaving(m, d, B, h, fl, n, E2, K2, v), NEW b, b = Filled(B[n], E2, K2)
  PROVE  Lost(m, d, h, fl, B, Blk(B, n, b), v) /\ b.self = n
<1>l. /\ Good(m, d, B, h, fl) /\ n \in Nat /\ Live(B, n) /\ Shrunk(m, h, Len(B), B[n], n, E2, K2, v)
      /\ E2 # <<>> \/ n = Root
  BY DEF Leaving
<1> USE <1>l
<1> DEFINE C == Blk(B, n, b)
           E == B[n].ents
           K == B[n].kids
<1>0. Placed(B)
  BY DEF Good
<1>1. TreeOK(m, B, h) /\ B \in Seq(Blocks) /\ d \in Handles /\ CountsOK(d, B) /\ Len(B) \in Nat
  BY GoodTypes
<1>2. NodeAt(m, h, Len(B), B[n], n, B[n].leaf, E, K)
  BY <1>0, <1>1, NodeOf
<1>3. /\ NodeAt(m, h, Len(B), b, n, B[n].leaf, E2, K2) /\ v \in Ent
      /\ Len(E) = Len(E2) + 1
      /\ \A P : Cnt(E, P) = Cnt(E2, P) + One(v, P)
      /\ \A x \in Nat \ {0} : Cnt(K2, {x}) = Cnt(K, {x})
  BY DEF Shrunk
<1>4. n \in 1 .. Len(B)
  BY <1>2 DEF NodeAt
<1>5. /\ b \in Blocks /\ b.self = n /\ b.kind = "key" /\ b.leaf = B[n].leaf /\ b.ents = E2 /\ b.kids = K2
      /\ WCount("keys")[b] = Len(E2) /\ WCount("values")[b] = 0
      /\ WCount("keyBlocks")[b] = 1 /\ WCount("valueBlocks")[b] = 0
      /\ (\A P : WEnts(P)[b] = Cnt(E2, P)) /\ (\A x : WKids(x)[b] = Cnt(K2, {x})) /\ E2 \in Seq(Ent)
  BY <1>3 DEF NodeAt, KeyFacts
<1>6. /\ WCount("keys")[B[n]] = Len(E) /\ WCount("values")[B[n]] = 0
      /\ WCount("keyBlocks")[B[n]] = 1 /\ WCount("valueBlocks")[B[n]] = 0
      /\ (\A P : WEnts(P)[B[n]] = Cnt(E, P)) /\ (\A x : WKids(x)[B[n]] = Cnt(K, {x}))
      /\ E \in Seq(Ent) /\ K \in Seq(Nat)
  BY <1>2 DEF NodeAt, KeyFacts
<1>7w. Written(B, C, n, b)
  BY ONLY <1>1, <1>4, <1>5, BlkType
<1>7. C \in Seq(Blocks) /\ Len(C) = Len(B) /\ \A i \in 1 .. Len(B) : C[i] = IF i = n THEN b ELSE B[i]
  BY ONLY <1>1, <1>4, <1>5, <1>7w DEF Written
<1>8. ASSUME NEW f \in [Blocks -> Nat]
      PROVE  Weigh(C, f) = Weigh(B, f) - f[B[n]] + f[b] /\ Weigh(B, f) \in Nat
  <2>1. Weigh(C, f) = Weigh(B, f) - f[B[n]] + f[b]
    BY ONLY <1>1, <1>4, <1>5, <1>8, WeighBlk
  <2> QED BY <1>1, <2>1, WeighType
<1> HIDE DEF C, E, K
<1>9. ASSUME NEW P PROVE Weigh(B, WEnts(P)) = Weigh(C, WEnts(P)) + One(v, P)
  <2> DEFINE w == Weigh(B, WEnts(P))
             p == Cnt(E2, P)
             o == One(v, P)
  <2>1. WEnts(P) \in [Blocks -> Nat]
    BY WeightTypes
  <2>2. Weigh(C, WEnts(P)) = w - (p + o) + p /\ w \in Nat
    BY <1>3, <1>5, <1>6, <1>8, <2>1
  <2>3. p \in Nat /\ o \in Nat
    BY <1>5, CntType DEF One
  <2> HIDE DEF w, p, o
  <2>4. w = Weigh(C, WEnts(P)) + o
    BY ONLY <2>2, <2>3
  <2> QED BY <2>4 DEF w, o
<1>10. ASSUME NEW x \in Nat \ {0} PROVE Weigh(C, WKids(x)) = Weigh(B, WKids(x))
  <2> DEFINE w == Weigh(B, WKids(x))
             p == Cnt(K, {x})
  <2>1. WKids(x) \in [Blocks -> Nat]
    BY WeightTypes
  <2>2. Weigh(C, WKids(x)) = w - p + p /\ w \in Nat
    BY <1>3, <1>5, <1>6, <1>8, <2>1
  <2>3. p \in Nat
    BY <1>6, CntType
  <2> HIDE DEF w, p
  <2>4. Weigh(C, WKids(x)) = w
    BY ONLY <2>2, <2>3
  <2> QED BY <2>4 DEF w
<1>11. /\ d.total \in Int /\ d.keyBlocks \in Int /\ d.valueBlocks \in Int
       /\ Weigh(B, WCount("keys")) = d.total /\ Weigh(B, WCount("values")) = d.total
       /\ Weigh(B, WCount("keyBlocks")) = d.keyBlocks /\ Weigh(B, WCount("valueBlocks")) = d.valueBlocks
  BY <1>1, HandleTypes DEF CountsOK
<1>12. /\ Weigh(C, WCount("keys")) = d.total - (Len(E2) + 1) + Len(E2) /\ Weigh(C, WCount("values")) = d.total - 0 + 0
       /\ Weigh(C, WCount("keyBlocks")) = d.keyBlocks - 1 + 1 /\ Weigh(C, WCount("valueBlocks")) = d.valueBlocks - 0 + 0
  BY <1>3, <1>5, <1>6, <1>8, <1>11, CountTypes
<1>13. /\ Weigh(C, WCount("keys")) = d.total - 1 /\ Weigh(C, WCount("values")) = d.total
       /\ Weigh(C, WCount("keyBlocks")) = d.keyBlocks /\ Weigh(C, WCount("valueBlocks")) = d.valueBlocks
  <2>1. Len(E2) \in Nat
    BY <1>5
  <2> QED BY ONLY <1>11, <1>12, <2>1
<1>14. Rewrote(m, h, B, C)
  <2>1. ASSUME NEW i \in 1 .. Len(B), C[i] # B[i]
        PROVE  /\ Live(B, i) /\ NodeAt(m, h, Len(B), C[i], i, C[i].leaf, C[i].ents, C[i].kids)
               /\ C[i].ents # <<>> \/ i = Root
    <3>1. i = n /\ C[i] = b
      BY <1>7, <2>1
    <3> QED BY <1>3, <1>5, <3>1
  <2> QED BY <1>0, <1>1, <1>7, <1>10, <2>1 DEF Rewrote
<1>15. Lost(m, d, h, fl, B, C, v)
  BY <1>3, <1>9, <1>13, <1>14 DEF Lost
<1> QED BY <1>5, <1>15 DEF C

\* Entry p of block q, in whose place an entry of a leaf is written.
LEMMA ReplacedLost ==
  ASSUME NEW m \in Nat, NEW d, NEW B, NEW h, NEW fl, NEW n, NEW E2, NEW K2, NEW u,
         Leaving(m, d, B, h, fl, n, E2, K2, u),
         NEW b, b = Filled(B[n], E2, K2), NEW q \in Nat, Live(B, q), q # n, NEW p \in 1 .. Len(B[q].ents),
         NEW a, a = Filled(B[q], [B[q].ents EXCEPT ![p] = u], B[q].kids)
  PROVE  Lost(m, d, h, fl, B, Blk(Blk(B, q, a), n, b), B[q].ents[p]) /\ a.self = q /\ b.self = n /\ a \in Blocks
<1>l. /\ Good(m, d, B, h, fl) /\ n \in Nat /\ Live(B, n) /\ Shrunk(m, h, Len(B), B[n], n, E2, K2, u)
      /\ E2 # <<>> \/ n = Root
  BY DEF Leaving
<1> USE <1>l
<1> DEFINE C == Blk(Blk(B, q, a), n, b)
           E == B[n].ents
           K == B[n].kids
           EQ == B[q].ents
           KQ == B[q].kids
           EA == [EQ EXCEPT ![p] = u]
           v == EQ[p]
<1>0. Placed(B)
  BY DEF Good
<1>1. TreeOK(m, B, h) /\ B \in Seq(Blocks) /\ d \in Handles /\ CountsOK(d, B) /\ Len(B) \in Nat
      /\ h \in [1 .. Len(B) -> Nat]
  BY GoodTypes
<1>2. NodeAt(m, h, Len(B), B[n], n, B[n].leaf, E, K)
  BY <1>0, <1>1, NodeOf
<1>3. /\ NodeAt(m, h, Len(B), b, n, B[n].leaf, E2, K2) /\ u \in Ent
      /\ Len(E) = Len(E2) + 1
      /\ \A P : Cnt(E, P) = Cnt(E2, P) + One(u, P)
      /\ \A x \in Nat \ {0} : Cnt(K2, {x}) = Cnt(K, {x})
  BY DEF Shrunk
<1>4. n \in 1 .. Len(B)
  BY <1>2 DEF NodeAt
<1>5. /\ b \in Blocks /\ b.self = n /\ b.kind = "key" /\ b.leaf = B[n].leaf /\ b.ents = E2 /\ b.kids = K2
      /\ WCount("keys")[b] = Len(E2) /\ WCount("values")[b] = 0
      /\ WCount("keyBlocks")[b] = 1 /\ WCount("valueBlocks")[b] = 0
      /\ (\A P : WEnts(P)[b] = Cnt(E2, P)) /\ (\A x : WKids(x)[b] = Cnt(K2, {x})) /\ E2 \in Seq(Ent)
  BY <1>3 DEF NodeAt, KeyFacts
<1>6. /\ WCount("keys")[B[n]] = Len(E) /\ WCount("values")[B[n]] = 0
      /\ WCount("keyBlocks")[B[n]] = 1 /\ WCount("valueBlocks")[B[n]] = 0
      /\ (\A P : WEnts(P)[B[n]] = Cnt(E, P)) /\ (\A x : WKids(x)[B[n]] = Cnt(K, {x}))
      /\ E \in Seq(Ent) /\ K \in Seq(Nat)
  BY <1>2 DEF NodeAt, KeyFacts
<1>q. NodeAt(m, h, Len(B), B[q], q, B[q].leaf, EQ, KQ)
  BY <1>0, <1>1, NodeOf
<1>r. /\ WCount("keys")[B[q]] = Len(EQ) /\ WCount("values")[B[q]] = 0
      /\ WCount("keyBlocks")[B[q]] = 1 /\ WCount("valueBlocks")[B[q]] = 0
      /\ (\A P : WEnts(P)[B[q]] = Cnt(EQ, P)) /\ (\A x : WKids(x)[B[q]] = Cnt(KQ, {x}))
      /\ EQ \in Seq(Ent) /\ KQ \in Seq(Nat) /\ q \in 1 .. Len(B) /\ Len(EQ) \in Nat /\ B[q].self = q
  BY <1>q DEF NodeAt, KeyFacts
<1>s. ASSUME NEW P PROVE EA \in Seq(Ent) /\ Len(EA) = Len(EQ) /\ Cnt(EA, P) = Cnt(EQ, P) - One(v, P) + One(u, P)
  <2>1. EQ \in Seq(Ent) /\ p \in 1 .. Len(EQ) /\ u \in Ent
    BY <1>3, <1>r
  <2> HIDE DEF EQ
  <2> QED BY ONLY <2>1, ExceptFacts
<1>v. v \in Ent
  BY <1>r
<1>x. a = KeyBlock(q, B[q].leaf, EA, KQ)
  BY <1>r DEF Filled
<1> HIDE DEF EA, v
<1>t. NodeAt(m, h, Len(B), a, q, B[q].leaf, EA, KQ)
  <2>1. EA \in Seq(Ent) /\ Len(EA) = Len(EQ)
    BY <1>s
  <2>2. /\ q \in 1 .. Len(B) /\ B[q].leaf \in BOOLEAN /\ KQ \in Seq(Below(h, Len(B), h[q])) /\ Len(KQ) = Len(EA) + 1
        /\ (B[q].leaf <=> h[q] = 0) /\ h[q] <= h[Root] /\ Len(EA) <= m /\ (B[q].leaf \/ Len(EA) > 0)
    BY <1>q, <2>1 DEF NodeAt
  <2> QED BY ONLY <1>1, <1>x, <2>1, <2>2, NodeMade, m \in Nat
<1>y. /\ a \in Blocks /\ a.self = q /\ a.kind = "key" /\ a.leaf = B[q].leaf /\ a.ents = EA /\ a.kids = KQ
      /\ WCount("keys")[a] = Len(EA) /\ WCount("values")[a] = 0
      /\ WCount("keyBlocks")[a] = 1 /\ WCount("valueBlocks")[a] = 0
      /\ (\A P : WEnts(P)[a] = Cnt(EA, P)) /\ (\A x : WKids(x)[a] = Cnt(KQ, {x}))
  BY <1>t DEF NodeAt, KeyFacts
<1>z. EA # <<>>
  <2>0. Len(EA) = Len(EQ)
    BY <1>s
  <2>1. Len(EA) = Len(EQ) /\ Len(EQ) > 0
    BY ONLY <2>0, p \in 1 .. Len(EQ)
  <2>2. Len(<<>>) = 0
    BY EmptySeq
  <2> QED BY <2>1, <2>2
<1>7. Two(B, C, q, a, n, b)
  BY ONLY <1>1, <1>4, <1>5, <1>r, <1>y, WeighTwo, q # n
<1> HIDE DEF C, E, K, EQ, KQ
<1>8. /\ C \in Seq(Blocks) /\ Len(C) = Len(B) /\ C[q] = a /\ C[n] = b
      /\ \A i \in 1 .. Len(B) : i \notin {q, n} => C[i] = B[i]
  BY <1>7 DEF Two
<1>w. ASSUME NEW f \in [Blocks -> Nat]
      PROVE  Weigh(C, f) = Weigh(B, f) - f[B[q]] - f[B[n]] + f[a] + f[b] /\ Weigh(B, f) \in Nat
  <2>1. Weigh(C, f) = Weigh(B, f) - f[B[q]] - f[B[n]] + f[a] + f[b]
    BY ONLY <1>7, <1>w DEF Two
  <2> QED BY <1>1, <2>1, WeighType
<1>9. ASSUME NEW P PROVE Weigh(B, WEnts(P)) = Weigh(C, WEnts(P)) + One(v, P)
  <2> DEFINE w == Weigh(B, WEnts(P))
             e2 == Cnt(E2, P)
             eq == Cnt(EQ, P)
             o == One(v, P)
             z == One(u, P)
  <2>1. WEnts(P) \in [Blocks -> Nat]
    BY WeightTypes
  <2>2. WEnts(P)[B[q]] = eq /\ WEnts(P)[B[n]] = e2 + z /\ WEnts(P)[a] = eq - o + z /\ WEnts(P)[b] = e2
    BY <1>3, <1>5, <1>6, <1>r, <1>s, <1>y
  <2>3. e2 \in Nat /\ eq \in Nat /\ o \in Nat /\ z \in Nat
    BY <1>5, <1>r, CntType DEF One
  <2>4. Weigh(C, WEnts(P)) = w - eq - (e2 + z) + (eq - o + z) + e2 /\ w \in Nat
    BY <1>w, <2>1, <2>2
  <2> HIDE DEF w, e2, eq, o, z
  <2>5. w = Weigh(C, WEnts(P)) + o
    BY ONLY <2>3, <2>4
  <2> QED BY <2>5 DEF w, o
<1>10. ASSUME NEW x \in Nat \ {0} PROVE Weigh(C, WKids(x)) = Weigh(B, WKids(x))
  <2> DEFINE w == Weigh(B, WKids(x))
             k == Cnt(K, {x})
             kq == Cnt(KQ, {x})
  <2>1. WKids(x) \in [Blocks -> Nat]
    BY WeightTypes
  <2>2. WKids(x)[B[q]] = kq /\ WKids(x)[B[n]] = k /\ WKids(x)[a] = kq /\ WKids(x)[b] = k
    BY <1>3, <1>5, <1>6, <1>r, <1>y
  <2>3. k \in Nat /\ kq \in Nat
    BY <1>6, <1>r, CntType
  <2>4. Weigh(C, WKids(x)) = w - kq - k + kq + k /\ w \in Nat
    BY <1>w, <2>1, <2>2
  <2> HIDE DEF w, k, kq
  <2>5. Weigh(C, WKids(x)) = w
    BY ONLY <2>3, <2>4
  <2> QED BY <2>5 DEF w
<1>11. /\ d.total \in Int /\ d.keyBlocks \in Int /\ d.valueBlocks \in Int
       /\ Weigh(B, WCount("keys")) = d.total /\ Weigh(B, WCount("values")) = d.total
       /\ Weigh(B, WCount("keyBlocks")) = d.keyBlocks /\ Weigh(B, WCount("valueBlocks")) = d.valueBlocks
  BY <1>1, HandleTypes DEF CountsOK
<1>k. Len(EA) = Len(EQ)
  BY <1>s
<1>12. /\ Weigh(C, WCount("keys")) = d.total - Len(EQ) - (Len(E2) + 1) + Len(EQ) + Len(E2)
       /\ Weigh(C, WCount("values")) = d.total - 0 - 0 + 0 + 0
       /\ Weigh(C, WCount("keyBlocks")) = d.keyBlocks - 1 - 1 + 1 + 1
       /\ Weigh(C, WCount("valueBlocks")) = d.valueBlocks - 0 - 0 + 0 + 0
  <2>1. Weigh(C, WCount("keys")) = d.total - Len(EQ) - (Len(E2) + 1) + Len(EQ) + Len(E2)
    <3> DEFINE f == WCount("keys")
    <3>1. f[B[q]] = Len(EQ) /\ f[B[n]] = Len(E2) + 1 /\ f[a] = Len(EQ) /\ f[b] = Len(E2)
      BY <1>3, <1>5, <1>6, <1>k, <1>r, <1>y
    <3>2. Weigh(C, f) = d.total - f[B[q]] - f[B[n]] + f[a] + f[b]
      BY <1>w, <1>11, CountTypes
    <3> HIDE DEF f
    <3>3. Weigh(C, f) = d.total - Len(EQ) - (Len(E2) + 1) + Len(EQ) + Len(E2)
      BY ONLY <3>1, <3>2
    <3> QED BY <3>3 DEF f
  <2>2. Weigh(C, WCount("values")) = d.total - 0 - 0 + 0 + 0
    BY ONLY <1>5, <1>6, <1>r, <1>w, <1>y, <1>11, CountTypes
  <2>3. Weigh(C, WCount("keyBlocks")) = d.keyBlocks - 1 - 1 + 1 + 1
    BY ONLY <1>5, <1>6, <1>r, <1>w, <1>y, <1>11, CountTypes
  <2>4. Weigh(C, WCount("valueBlocks")) = d.valueBlocks - 0 - 0 + 0 + 0
    BY ONLY <1>5, <1>6, <1>r, <1>w, <1>y, <1>11, CountTypes
  <2> QED BY ONLY <2>1, <2>2, <2>3, <2>4
<1>13. /\ Weigh(C, WCount("keys")) = d.total - 1 /\ Weigh(C, WCount("values")) = d.total
       /\ Weigh(C, WCount("keyBlocks")) = d.keyBlocks /\ Weigh(C, WCount("valueBlocks")) = d.valueBlocks
  <2>1. Len(E2) \in Nat /\ Len(EQ) \in Nat
    BY <1>5, <1>r
  <2>2. /\ d.total - Len(EQ) - (Len(E2) + 1) + Len(EQ) + Len(E2) = d.total - 1
        /\ d.total - 0 - 0 + 0 + 0 = d.total
        /\ d.keyBlocks - 1 - 1 + 1 + 1 = d.keyBlocks /\ d.valueBlocks - 0 - 0 + 0 + 0 = d.valueBlocks
    BY ONLY <1>11, <2>1
  <2> QED BY ONLY <1>12, <2>2
<1>14. Rewrote(m, h, B, C)
  <2>1. ASSUME NEW i \in 1 .. Len(B), C[i] # B[i]
        PROVE  /\ Live(B, i) /\ NodeAt(m, h, Len(B), C[i], i, C[i].leaf, C[i].ents, C[i].kids)
               /\ C[i].ents # <<>> \/ i = Root
    <3>1. CASE i = n
      BY <1>3, <1>5, <1>8, <3>1
    <3>2. CASE i = q
      BY <1>8, <1>t, <1>y, <1>z, <3>2
    <3>3. i \in {q, n}
      BY <1>8, <2>1
    <3> QED BY <3>1, <3>2, <3>3
  <2> QED BY <1>0, <1>1, <1>8, <1>10, <2>1 DEF Rewrote
<1>15. Lost(m, d, h, fl, B, C, v)
  BY <1>9, <1>13, <1>14, <1>v DEF Lost
<1> QED BY <1>5, <1>15, <1>y DEF C, EQ, v

LEMMA EndsFrom ==
  ASSUME NEW m, NEW s, NEW e, NEW d, NEW B, NEW C, NEW h, NEW fl, Lacks(m, d, C, h, fl, e), Is(m, s, d, d, C),
         Spare(C, fl) \subseteq Spare(B, fl)
  PROVE  Ends(m, ReleaseValue(s, e), B, fl, {})
<1> DEFINE t == ReleaseValue(s, e)
<1>1. Ends(m, t, C, fl, {})
  BY Releases
<1> HIDE DEF t
<1>2. PICK d2, C2, g, l : Is(m, t, d2, d2, C2) /\ Good(m, d2, C2, g, l) /\ Spare(C2, l) \subseteq Spare(C, fl) \cup {}
  BY <1>1 DEF Ends
<1>3. Spare(C2, l) \subseteq Spare(B, fl) \cup {}
  BY <1>2
<1>4. Ends(m, t, B, fl, {})
  BY <1>2, <1>3 DEF Ends
<1> QED BY <1>4 DEF t

LEMMA DeletePlain ==
  ASSUME NEW m \in Nat, NEW s, NEW d, NEW B, NEW h, NEW fl, Good(m, d, B, h, fl), Is(m, s, d, d, B),
         NEW n \in Nat, Live(B, n), B[n].leaf, n = Root \/ Len(B[n].ents) >= 2, NEW i \in 1 .. Len(B[n].ents)
  PROVE  Ends(m, ReleaseValue(node_flush(s, Filled(B[n], RemoveAt(B[n].ents, i), RemoveAt(B[n].kids, i))),
                              B[n].ents[i]), B, fl, {})
<1> DEFINE E == B[n].ents
           K == B[n].kids
           E2 == RemoveAt(E, i)
           K2 == RemoveAt(K, i)
           v == E[i]
           k == K[i]
           b == Filled(B[n], E2, K2)
           C == Blk(B, n, b)
<1>0. Placed(B)
  BY DEF Good
<1>1. TreeOK(m, B, h) /\ B \in Seq(Blocks) /\ d \in Handles /\ CountsOK(d, B) /\ Len(B) \in Nat
      /\ h \in [1 .. Len(B) -> Nat]
  BY GoodTypes
<1>2. NodeAt(m, h, Len(B), B[n], n, B[n].leaf, E, K)
  BY <1>0, <1>1, NodeOf
<1>3. E \in Seq(Ent) /\ K \in Seq(Below(h, Len(B), h[n])) /\ Len(K) = Len(E) + 1 /\ Len(E) \in Nat /\ n \in 1 .. Len(B)
  BY <1>2 DEF NodeAt
<1>4. i \in 1 .. Len(K) /\ i \in 1 .. Len(E)
  BY <1>3
<1> HIDE DEF E, K
<1>5. Grown(E2, K2, E, K, Below(h, Len(B), h[n]), v, k)
  BY <1>3, <1>4, GrownFromRemove
<1> HIDE DEF E2, K2, v, k
<1>6. Shrunk(m, h, Len(B), B[n], n, E2, K2, v)
  BY <1>1, <1>2, <1>5, LeafShrinks DEF E, K
<1>7. E2 # <<>> \/ n = Root
  <2>1. E2 \in Seq(Ent) /\ Len(E) = Len(E2) + 1
    BY <1>5 DEF Grown
  <2>2. n # Root => Len(E) >= 2
    BY DEF E
  <2>3. n # Root => Len(E2) # 0
    BY <2>1, <2>2
  <2>4. Len(<<>>) = 0
    BY EmptySeq
  <2> QED BY <2>3, <2>4
<1>b. b = Filled(B[n], E2, K2)
  OBVIOUS
<1>c. C = Blk(B, n, b)
  OBVIOUS
<1> HIDE DEF b, C
<1>8. Lost(m, d, h, fl, B, C, v) /\ b.self = n
  <2>1. Leaving(m, d, B, h, fl, n, E2, K2, v)
    BY <1>6, <1>7 DEF Leaving
  <2> QED BY ONLY <1>b, <1>c, <2>1, LeafLost, m \in Nat
<1>9. /\ Lacks(m, d, C, h, fl, v) /\ Spare(C, fl) \subseteq Spare(B, fl) /\ C \in Seq(Blocks) /\ ~CountsOK(d, C)
  BY <1>8, LostLacks
<1>10. Is(m, node_flush(s, b), d, d, C)
  <2>1. Ok(m, FileOf(d, Blk(B, n, b)))
    BY <1>9, <1>c, OffIsOk
  <2> QED BY ONLY <1>1, <1>3, <1>8, <1>c, <2>1, IsFlush, Is(m, s, d, d, B)
<1>11. Ends(m, ReleaseValue(node_flush(s, b), v), B, fl, {})
  BY <1>9, <1>10, EndsFrom
<1> QED BY <1>11 DEF b, v, E2, K2, E, K

LEMMA DeleteReplaced ==
  ASSUME NEW m \in Nat, NEW s, NEW d, NEW B, NEW h, NEW fl, Good(m, d, B, h, fl), Is(m, s, d, d, B),
         NEW n \in Nat, Live(B, n), B[n].leaf, n = Root \/ Len(B[n].ents) >= 2,
         NEW E2, NEW K2, NEW u, NEW k, Grown(E2, K2, B[n].ents, B[n].kids, Below(h, Len(B), h[n]), u, k),
         NEW q \in Nat, Live(B, q), q # n, NEW p \in 1 .. Len(B[q].ents)
  PROVE  Ends(m, ReleaseValue(node_flush(Put(s, Filled(B[q], [B[q].ents EXCEPT ![p] = u], B[q].kids), TRUE),
                                         Filled(B[n], E2, K2)), B[q].ents[p]), B, fl, {})
<1> DEFINE b == Filled(B[n], E2, K2)
           a == Filled(B[q], [B[q].ents EXCEPT ![p] = u], B[q].kids)
           v == B[q].ents[p]
           A == Blk(B, q, a)
           C == Blk(A, n, b)
<1>0. Placed(B)
  BY DEF Good
<1>1. TreeOK(m, B, h) /\ B \in Seq(Blocks) /\ d \in Handles /\ CountsOK(d, B) /\ Len(B) \in Nat
      /\ h \in [1 .. Len(B) -> Nat]
  BY GoodTypes
<1>2. NodeAt(m, h, Len(B), B[n], n, B[n].leaf, B[n].ents, B[n].kids)
  BY <1>0, <1>1, NodeOf
<1>3. Shrunk(m, h, Len(B), B[n], n, E2, K2, u)
  BY <1>1, <1>2, LeafShrinks
<1>4. E2 # <<>> \/ n = Root
  <2>1. E2 \in Seq(Ent) /\ Len(B[n].ents) = Len(E2) + 1
    BY DEF Grown
  <2>2. n # Root => Len(E2) # 0
    BY <2>1
  <2>3. Len(<<>>) = 0
    BY EmptySeq
  <2> QED BY <2>2, <2>3
<1>5. n \in 1 .. Len(B) /\ q \in 1 .. Len(B)
  BY DEF Live, IsKey
<1>b. b = Filled(B[n], E2, K2) /\ a = Filled(B[q], [B[q].ents EXCEPT ![p] = u], B[q].kids) /\ v = B[q].ents[p]
  OBVIOUS
<1>c. C = Blk(A, n, b) /\ A = Blk(B, q, a)
  OBVIOUS
<1> HIDE DEF b, a, v, C, A
<1>6. Lost(m, d, h, fl, B, C, v) /\ a.self = q /\ b.self = n /\ a \in Blocks
  <2>1. Leaving(m, d, B, h, fl, n, E2, K2, u)
    BY <1>3, <1>4 DEF Leaving
  <2> QED BY ONLY <1>b, <1>c, <2>1, ReplacedLost, m \in Nat, q \in Nat, Live(B, q), q # n, p \in 1 .. Len(B[q].ents)
<1>7. /\ Lacks(m, d, C, h, fl, v) /\ Spare(C, fl) \subseteq Spare(B, fl) /\ C \in Seq(Blocks) /\ ~CountsOK(d, C)
  BY <1>6, LostLacks
<1>8. Is(m, Put(s, a, TRUE), d, d, A)
  <2>1. TRUE \in BOOLEAN
    OBVIOUS
  <2> QED BY ONLY <1>1, <1>5, <1>6, <1>c, <2>1, IsPut, Is(m, s, d, d, B)
<1>9w. Written(B, A, q, a)
  BY <1>1, <1>5, <1>6, <1>c, BlkType
<1>9. A \in Seq(Blocks) /\ Len(A) = Len(B)
  BY <1>1, <1>5, <1>6, <1>c, <1>9w DEF Written
<1>10. Is(m, node_flush(Put(s, a, TRUE), b), d, d, C)
  <2>1. Ok(m, FileOf(d, Blk(A, n, b)))
    BY <1>7, <1>c, OffIsOk
  <2> QED BY ONLY <1>5, <1>6, <1>8, <1>9, <1>c, <2>1, IsFlush
<1>11. Ends(m, ReleaseValue(node_flush(Put(s, a, TRUE), b), v), B, fl, {})
  BY <1>7, <1>10, EndsFrom
<1> QED BY <1>11, <1>b

-----------------------------------------------------------------------------
(* The blocks that the tree, the values and the free list consist of.      *)

\* The blocks of the tree are live, and those of one level have one height.
LevelOf(B, h, i) == {n \in Nat : Live(B, n) /\ h[n] + i = h[Root]}

Children(B, S) == UNION {Range(B[n].kids) : n \in {q \in S : ~B[q].leaf}}

\* The highest block is the root alone, ...
LEMMA TopLevel ==
  ASSUME NEW m \in Nat, NEW B, NEW h, Placed(B), TreeOK(m, B, h)
  PROVE  LevelOf(B, h, 0) = {Root}
<1>1. Live(B, Root) /\ h[Root] \in Nat /\ Root \in Nat
  BY DEF Placed, TreeOK, Live, IsKey, Root
<1>2. ASSUME NEW n \in LevelOf(B, h, 0), n # Root PROVE FALSE
  <2>1. n \in Nat /\ Live(B, n) /\ h[n] + 0 = h[Root]
    BY <1>2 DEF LevelOf
  <2>2. h[n] \in Nat
    BY <2>1 DEF TreeOK, Live, IsKey
  <2>3. PICK i \in Nat : h[i] = h[n] + 1 /\ h[i] <= h[Root]
    BY <1>2, <2>1, HasParent
  <2> QED BY ONLY <1>1, <2>1, <2>2, <2>3
<1>3. Root \in LevelOf(B, h, 0)
  <2>1. h[Root] + 0 = h[Root]
    BY <1>1
  <2> QED BY <1>1, <2>1 DEF LevelOf
<1> QED BY <1>2, <1>3

\* ... and every level consists of the children of the one above it.
LEMMA NextLevel ==
  ASSUME NEW m \in Nat, NEW B, NEW h, Placed(B), TreeOK(m, B, h), NEW i \in Nat
  PROVE  Children(B, LevelOf(B, h, i)) = LevelOf(B, h, i + 1)
<1>1. h[Root] \in Nat /\ h \in [1 .. Len(B) -> Nat] /\ Len(B) \in Nat
  BY DEF Placed, TreeOK, Root
<1>2. ASSUME NEW c \in Children(B, LevelOf(B, h, i)) PROVE c \in LevelOf(B, h, i + 1)
  <2>1. PICK n \in LevelOf(B, h, i) : ~B[n].leaf /\ c \in Range(B[n].kids)
    BY <1>2 DEF Children
  <2>2. n \in Nat /\ Live(B, n) /\ h[n] + i = h[Root]
    BY <2>1 DEF LevelOf
  <2>3. NodeAt(m, h, Len(B), B[n], n, B[n].leaf, B[n].ents, B[n].kids)
    BY <2>2, NodeOf
  <2>4. PICK p \in 1 .. Len(B[n].kids) : B[n].kids[p] = c
    <3>1. B[n].kids \in Seq(Nat)
      BY <2>3 DEF NodeAt
    <3> QED BY <2>1, <3>1 DEF Range
  <2>5w. KidIs(B, h, n, p)
    BY <2>1, <2>2, KidFacts
  <2>5. /\ B[n].kids[p] \in 1 .. Len(B) /\ h[n] # 0 /\ h[B[n].kids[p]] = h[n] - 1
        /\ Live(B, B[n].kids[p])
    BY <2>1, <2>2, <2>5w DEF KidIs
  <2>6. c \in 1 .. Len(B) /\ h[n] \in Nat /\ h[c] = h[n] - 1 /\ Live(B, c)
    BY <2>3, <2>4, <2>5 DEF NodeAt
  <2>7. c \in Nat /\ h[c] + (i + 1) = h[Root]
    <3>1. c \in Nat
      BY <1>1, <2>6
    <3>2. \A x \in Nat : \A y, z : y = x - 1 /\ x + i = z => y + (i + 1) = z
      OBVIOUS
    <3>3. h[n] \in Nat /\ h[c] = h[n] - 1 /\ h[n] + i = h[Root]
      BY <2>2, <2>6
    <3> QED BY <3>1, <3>2, <3>3, Zenon
  <2> QED BY <2>6, <2>7 DEF LevelOf
<1>3. ASSUME NEW c \in LevelOf(B, h, i + 1) PROVE c \in Children(B, LevelOf(B, h, i))
  <2>1. c \in Nat /\ Live(B, c) /\ h[c] + (i + 1) = h[Root]
    BY <1>3 DEF LevelOf
  <2>2. h[c] \in Nat
    BY <2>1, <1>1 DEF Live, IsKey
  <2>3. c # Root
    BY ONLY <1>1, <2>1, <2>2, i \in Nat
  <2>4. PICK n \in Nat : /\ Live(B, n) /\ ~B[n].leaf /\ h[n] = h[c] + 1
                         /\ \E p \in 1 .. Len(B[n].kids) : B[n].kids[p] = c
    BY <2>1, <2>3, HasParent
  <2>5. h[n] + i = h[Root]
    <3>1. \A x \in Nat : \A y, z : y = x + 1 /\ x + (i + 1) = z => y + i = z
      OBVIOUS
    <3>2. h[c] \in Nat /\ h[n] = h[c] + 1 /\ h[c] + (i + 1) = h[Root]
      BY <2>1, <2>2, <2>4
    <3> QED BY ONLY <3>1, <3>2, Zenon
  <2>6. n \in LevelOf(B, h, i)
    BY <2>4, <2>5 DEF LevelOf
  <2>7. c \in Range(B[n].kids)
    <3>1. B[n].kids \in Seq(Nat)
      <4>1. NodeAt(m, h, Len(B), B[n], n, B[n].leaf, B[n].ents, B[n].kids)
        BY <2>4, NodeOf
      <4> QED BY <4>1 DEF NodeAt
    <3> QED BY <2>4, <3>1 DEF Range
  <2> QED BY <2>4, <2>6, <2>7 DEF Children
<1> QED BY <1>2, <1>3

\* The levels that TLC computes.
LEMMA LevelsAre ==
  ASSUME NEW m \in Nat, NEW B, NEW h, Placed(B), TreeOK(m, B, h)
  PROVE  Levels(B) = [i \in 0 .. Len(B) |-> LevelOf(B, h, i)]
<1> DEFINE N == Len(B)
           F == [i \in 0 .. N |-> LevelOf(B, h, i)]
           Lev(f) == f = [i \in 0 .. Len(B) |->
                            IF i = 0 THEN {Root}
                            ELSE UNION {Range(B[n].kids) : n \in {q \in f[i - 1] : ~B[q].leaf}}]
           g == CHOOSE f : Lev(f)
<1>1. N \in Nat
  BY DEF Placed
<1>2. LevelOf(B, h, 0) = {Root} /\ \A i \in Nat : Children(B, LevelOf(B, h, i)) = LevelOf(B, h, i + 1)
  BY TopLevel, NextLevel
<1>3. F = [i \in 0 .. N |-> IF i = 0 THEN {Root} ELSE Children(B, F[i - 1])]
  <2>1. ASSUME NEW i \in 0 .. N PROVE LevelOf(B, h, i) = IF i = 0 THEN {Root} ELSE Children(B, F[i - 1])
    <3>1. CASE i = 0
      BY <1>2, <3>1
    <3>2. CASE i # 0
      <4>1. i - 1 \in 0 .. N /\ i - 1 \in Nat /\ (i - 1) + 1 = i
        BY <1>1, <3>2
      <4>2. F[i - 1] = LevelOf(B, h, i - 1)
        BY <4>1
      <4>3. Children(B, LevelOf(B, h, i - 1)) = LevelOf(B, h, (i - 1) + 1)
        BY <1>2, <4>1
      <4> QED BY ONLY <3>2, <4>1, <4>2, <4>3
    <3> QED BY <3>1, <3>2
  <2> QED BY <2>1
<1> HIDE DEF F
<1>4. Lev(F)
  BY <1>3 DEF Children
<1>5. Lev(g)
  <2> HIDE DEF Lev
  <2> QED BY <1>4
<1>6. Levels(B) = g
  BY DEF Levels
<1> HIDE DEF g
<1>7. g = [i \in 0 .. N |-> IF i = 0 THEN {Root} ELSE Children(B, g[i - 1])]
  BY <1>5 DEF Children
<1> DEFINE S == {k \in Nat : k <= N => g[k] = F[k]}
<1>8. 0 \in S
  BY <1>1, <1>3, <1>7
<1>9. ASSUME NEW k \in Nat, k \in S PROVE k + 1 \in S
  <2>1. CASE k + 1 <= N
    <3>1. k \in 0 .. N /\ k + 1 \in 0 .. N /\ k + 1 # 0 /\ (k + 1) - 1 = k /\ k <= N
      BY <1>1, <2>1
    <3>2. g[k] = F[k]
      BY <1>9, <3>1
    <3>3. g[k + 1] = Children(B, g[k]) /\ F[k + 1] = Children(B, F[k])
      BY <1>3, <1>7, <3>1
    <3> QED BY <3>2, <3>3
  <2>2. CASE ~(k + 1 <= N)
    BY <2>2
  <2> QED BY <2>1, <2>2
<1>10. Nat \subseteq S
  <2> HIDE DEF S
  <2> QED BY <1>8, <1>9, SetInduction
<1>11. \A k \in 0 .. N : g[k] = F[k]
  BY <1>1, <1>10
<1>12. DOMAIN g = 0 .. N /\ g = [i \in DOMAIN g |-> g[i]]
  BY <1>7
<1>13. F = [i \in 0 .. N |-> F[i]]
  BY DEF F
<1>14. g = F
  BY <1>11, <1>12, <1>13
<1> QED BY <1>6, <1>14 DEF F

\* A tree is not higher than the file has blocks.
LEMMA HeightFits ==
  ASSUME NEW m \in Nat, NEW B, NEW h, Placed(B), TreeOK(m, B, h)
  PROVE  h[Root] <= Len(B)
<1> DEFINE N == Len(B)
           H == h[Root]
           S == {j \in Nat : j <= H => \E n \in 1 .. N : Live(B, n) /\ h[n] + j = H}
<1>1. N \in Nat /\ H \in Nat /\ h \in [1 .. N -> Nat] /\ Root \in 1 .. N /\ Live(B, Root)
  BY DEF Placed, TreeOK, Live, IsKey, Root
<1>2. 0 \in S
  <2>1. h[Root] + 0 = H
    BY <1>1
  <2> QED BY <1>1, <2>1
<1>3. ASSUME NEW j \in Nat, j \in S PROVE j + 1 \in S
  <2>1. CASE j + 1 <= H
    <3>1. j <= H
      BY <1>1, <2>1
    <3>2. PICK n \in 1 .. N : Live(B, n) /\ h[n] + j = H
      BY <1>3, <3>1
    <3>3. n \in Nat /\ h[n] \in Nat
      BY <1>1
    <3>4. h[n] # 0
      BY ONLY <1>1, <2>1, <3>2, <3>3, j \in Nat
    <3>5. NodeAt(m, h, N, B[n], n, B[n].leaf, B[n].ents, B[n].kids)
      BY <3>2, <3>3, NodeOf
    <3>6. ~B[n].leaf /\ 1 \in 1 .. Len(B[n].kids)
      BY <3>4, <3>5 DEF NodeAt
    <3>7w. KidIs(B, h, n, 1)
      BY <3>2, <3>3, <3>6, KidFacts
    <3>7. B[n].kids[1] \in 1 .. N /\ h[B[n].kids[1]] = h[n] - 1 /\ Live(B, B[n].kids[1])
      BY <3>2, <3>3, <3>6, <3>7w DEF KidIs
    <3>8. h[B[n].kids[1]] + (j + 1) = H
      <4>1. \A x \in Nat : \A y, z : y = x - 1 /\ x + j = z => y + (j + 1) = z
        OBVIOUS
      <4>2. h[n] \in Nat /\ h[B[n].kids[1]] = h[n] - 1 /\ h[n] + j = H
        BY <3>2, <3>3, <3>7
      <4> QED BY ONLY <4>1, <4>2, Zenon
    <3> QED BY <3>7, <3>8
  <2>2. CASE ~(j + 1 <= H)
    BY <2>2
  <2> QED BY <2>1, <2>2
<1>4. Nat \subseteq S
  <2> HIDE DEF S
  <2> QED BY <1>2, <1>3, SetInduction
<1>5. ASSUME NEW k \in 0 .. H PROVE \E n \in 1 .. N : h[n] = k
  <2>1. H - k \in Nat /\ H - k <= H
    BY <1>1
  <2>2. PICK n \in 1 .. N : Live(B, n) /\ h[n] + (H - k) = H
    BY <1>4, <2>1
  <2>3. h[n] \in Nat /\ k \in Nat
    BY <1>1
  <2>4. h[n] = k
    BY <1>1, <2>2, <2>3
  <2> QED BY <2>4
<1> DEFINE f == [k \in 0 .. H |-> CHOOSE n \in 1 .. N : h[n] = k]
<1>6. \A k \in 0 .. H : f[k] \in 1 .. N /\ h[f[k]] = k
  BY <1>5
<1>7. f \in [0 .. H -> 1 .. N]
  BY <1>6
<1> HIDE DEF f, H, N
<1>8. \A a, b \in 0 .. H : f[a] = f[b] => a = b
  BY <1>6
<1>9. f \in Injection(0 .. H, 1 .. N)
  BY <1>7, <1>8 DEF Injection, IsInjective
<1>10. IsFiniteSet(1 .. N) /\ Cardinality(1 .. N) = N /\ Cardinality(0 .. H) = H + 1
  <2>1. 1 \in Int /\ N \in Int /\ 0 \in Int /\ H \in Int
    BY <1>1
  <2>2. /\ IsFiniteSet(1 .. N) /\ Cardinality(1 .. N) = IF 1 > N THEN 0 ELSE N - 1 + 1
        /\ Cardinality(0 .. H) = IF 0 > H THEN 0 ELSE H - 0 + 1
    BY <2>1, FS_Interval
  <2> QED BY <1>1, <2>2
<1>11. Cardinality(0 .. H) <= Cardinality(1 .. N)
  BY <1>9, <1>10, FS_Injection
<1>12. H <= N
  BY <1>1, <1>10, <1>11
<1> QED BY <1>12 DEF H, N

\* The blocks of the tree are the live ones.
LEMMA InTreeIs ==
  ASSUME NEW m \in Nat, NEW B, NEW h, Placed(B), TreeOK(m, B, h)
  PROVE  InTree(B) = {n \in Nat : Live(B, n)}
<1>1. Levels(B) = [i \in 0 .. Len(B) |-> LevelOf(B, h, i)]
  BY LevelsAre
<1>2. Len(B) \in Nat /\ h[Root] \in Nat /\ h[Root] <= Len(B)
  <2>1. h[Root] <= Len(B)
    BY HeightFits
  <2> QED BY <2>1 DEF Placed, TreeOK, Root
<1>3. ASSUME NEW n \in InTree(B) PROVE n \in Nat /\ Live(B, n)
  <2>1. PICK i \in 0 .. Len(B) : n \in Levels(B)[i]
    BY DEF InTree
  <2> QED BY <1>1, <2>1 DEF LevelOf
<1>4. ASSUME NEW n \in Nat, Live(B, n) PROVE n \in InTree(B)
  <2>1. NodeAt(m, h, Len(B), B[n], n, B[n].leaf, B[n].ents, B[n].kids)
    BY <1>4, NodeOf
  <2>2. h[n] \in Nat /\ h[n] <= h[Root]
    BY <2>1 DEF NodeAt
  <2>3. h[Root] - h[n] \in 0 .. Len(B) /\ h[n] + (h[Root] - h[n]) = h[Root]
    BY ONLY <1>2, <2>2
  <2>4. n \in Levels(B)[h[Root] - h[n]]
    BY <1>1, <1>4, <2>3 DEF LevelOf
  <2> QED BY <2>3, <2>4 DEF InTree
<1> QED BY <1>3, <1>4

\* The entries of the tree are those of all key blocks.
HasEntry(B, n, e) == IsKey(B, n) /\ \E i \in 1 .. Len(B[n].ents) : B[n].ents[i] = e

LEMMA EntriesAre ==
  ASSUME NEW m \in Nat, NEW B, NEW h, Placed(B), TreeOK(m, B, h)
  PROVE  /\ \A e \in Entries(B) : e \in Ent /\ \E n \in Nat : HasEntry(B, n, e)
         /\ \A e, n : HasEntry(B, n, e) => e \in Entries(B)
<1>1. InTree(B) = {n \in Nat : Live(B, n)}
  BY InTreeIs
<1>2. B \in Seq(Blocks) /\ Len(B) \in Nat
  BY DEF Placed
<1>3. ASSUME NEW e \in Entries(B) PROVE e \in Ent /\ \E n \in Nat : HasEntry(B, n, e)
  <2>1. PICK n \in InTree(B) : e \in Range(B[n].ents)
    BY DEF Entries
  <2>2. n \in Nat /\ Live(B, n)
    BY <1>1, <2>1
  <2>3. B[n].ents \in Seq(Ent) /\ IsKey(B, n)
    BY <1>2, <2>2, KeyShape DEF Live, IsKey
  <2>4. PICK i \in 1 .. Len(B[n].ents) : B[n].ents[i] = e
    BY <2>1, <2>3 DEF Range
  <2> QED BY <2>2, <2>3, <2>4 DEF HasEntry
<1>4. ASSUME NEW e, NEW n, HasEntry(B, n, e) PROVE e \in Entries(B)
  <2>1. PICK i \in 1 .. Len(B[n].ents) : B[n].ents[i] = e
    BY <1>4 DEF HasEntry
  <2>2. IsKey(B, n) /\ n \in Nat /\ B[n].ents \in Seq(Ent)
    BY <1>2, <1>4, KeyShape DEF HasEntry, IsKey
  <2>3. B[n].ents # <<>>
    BY <2>1, <2>2
  <2>4. n \in InTree(B)
    BY <1>1, <2>2, <2>3 DEF Live
  <2>5. e \in Range(B[n].ents)
    BY <2>1, <2>2 DEF Range
  <2> QED BY <2>4, <2>5 DEF Entries
<1> QED BY <1>3, <1>4

\* What a block has of the entries of a set.
LEMMA EntsWeigh ==
  ASSUME NEW B \in Seq(Blocks), NEW P
  PROVE  /\ WEnts(P) \in [Blocks -> Nat]
         /\ \A n \in 1 .. Len(B) : WEnts(P)[B[n]] = Cnt(EntsOf(B[n]), P) /\ EntsOf(B[n]) \in Seq(Ent)
         /\ \A n : IsKey(B, n) => EntsOf(B[n]) = B[n].ents
<1>1. WEnts(P) \in [Blocks -> Nat]
  BY WeightTypes
<1>2. \A n \in 1 .. Len(B) : B[n] \in Blocks
  OBVIOUS
<1>3. \A n \in 1 .. Len(B) : WEnts(P)[B[n]] = Cnt(EntsOf(B[n]), P)
  BY <1>2 DEF WEnts
<1>4. \A n \in 1 .. Len(B) : EntsOf(B[n]) \in Seq(Ent)
  BY <1>2, OfTypes
<1> QED BY <1>1, <1>3, <1>4 DEF EntsOf, IsKey

\* An entry of the tree weighs.
LEMMA EntryWeighs ==
  ASSUME NEW B \in Seq(Blocks), NEW n, NEW e, HasEntry(B, n, e), NEW P, e \in P
  PROVE  Weigh(B, WEnts(P)) >= 1
<1>1. n \in 1 .. Len(B) /\ EntsOf(B[n]) = B[n].ents /\ EntsOf(B[n]) \in Seq(Ent)
  BY EntsWeigh DEF HasEntry, IsKey
<1>2. PICK i \in 1 .. Len(B[n].ents) : B[n].ents[i] = e
  BY DEF HasEntry
<1>3. Cnt(EntsOf(B[n]), P) >= 1
  BY <1>1, <1>2, CntMember
<1>4. WEnts(P) \in [Blocks -> Nat] /\ WEnts(P)[B[n]] = Cnt(EntsOf(B[n]), P)
  BY <1>1, EntsWeigh
<1>5. Weigh(B, WEnts(P)) >= WEnts(P)[B[n]] /\ Weigh(B, WEnts(P)) \in Nat /\ WEnts(P)[B[n]] \in Nat
  <2>1. B[n] \in Blocks
    BY <1>1
  <2>2. Weigh(B, WEnts(P)) >= WEnts(P)[B[n]]
    BY <1>1, <1>4, WeighAtLeast
  <2> QED BY <1>4, <2>1, <2>2, WeighType
<1> QED BY ONLY <1>3, <1>4, <1>5

\* What weighs is an entry of the tree.
LEMMA WeighsEntry ==
  ASSUME NEW B \in Seq(Blocks), NEW P, Weigh(B, WEnts(P)) # 0
  PROVE  \E n \in Nat : \E e \in P : HasEntry(B, n, e)
<1>1. WEnts(P) \in [Blocks -> Nat]
  BY EntsWeigh
<1>2. PICK n \in 1 .. Len(B) : WEnts(P)[B[n]] > 0
  BY <1>1, WeighPositive
<1>3. Cnt(EntsOf(B[n]), P) # 0 /\ EntsOf(B[n]) \in Seq(Ent) /\ B[n] \in Blocks
  BY <1>2, EntsWeigh
<1>4. PICK i \in 1 .. Len(EntsOf(B[n])) : EntsOf(B[n])[i] \in P
  BY <1>3, CntPositive
<1>5. B[n].kind = "key" /\ EntsOf(B[n]) = B[n].ents
  <2>1. Len(EntsOf(B[n])) >= 1
    BY <1>3, <1>4
  <2> QED BY <2>1, EmptySeq DEF EntsOf
<1>6. n \in Nat /\ HasEntry(B, n, EntsOf(B[n])[i])
  BY <1>4, <1>5 DEF HasEntry, IsKey
<1> QED BY <1>4, <1>6

\* Every entry refers to a value that is there, and every value block that is
\* not the current one is referred to.
LEMMA EntryRefers ==
  ASSUME NEW m \in Nat, NEW current, NEW B, NEW h, Placed(B), TreeOK(m, B, h), RefsOK(current, B)
  PROVE  /\ \A e \in Entries(B) : IsValue(B, e.block) /\ e.slot \in 1 .. Len(B[e.block].vals)
         /\ \A n : IsValue(B, n) => n = current \/ \E e \in Entries(B) : e.block = n
<1>1. B \in Seq(Blocks) /\ Len(B) \in Nat
  BY DEF Placed
<1>2. /\ \A e \in Entries(B) : e \in Ent /\ \E n \in Nat : HasEntry(B, n, e)
      /\ \A e, n : HasEntry(B, n, e) => e \in Entries(B)
  BY EntriesAre
<1>3. ASSUME NEW e \in Entries(B) PROVE IsValue(B, e.block) /\ e.slot \in 1 .. Len(B[e.block].vals)
  <2>1. PICK n \in Nat : HasEntry(B, n, e)
    BY <1>2
  <2>2. e \in Ent /\ e.block \in Nat /\ e.slot \in Nat
    BY <1>2 DEF Ent
  <2>3. e \in At(e.block, e.slot)
    BY <2>2 DEF At
  <2>4. Weigh(B, WEnts(At(e.block, e.slot))) >= 1
    BY <1>1, <2>1, <2>3, EntryWeighs
  <2>5. Weigh(B, WEnts(At(e.block, e.slot)))
          <= IF IsValue(B, e.block) /\ e.slot \in 1 .. Len(B[e.block].vals) THEN 1 ELSE 0
    BY <2>2 DEF RefsOK
  <2>6. Weigh(B, WEnts(At(e.block, e.slot))) \in Nat
    BY <1>1, EntsWeigh, WeighType
  <2> QED BY <2>4, <2>5, <2>6
<1>4. ASSUME NEW n, IsValue(B, n), n # current PROVE \E e \in Entries(B) : e.block = n
  <2>1. n \in Nat /\ n \in 1 .. Len(B) /\ B[n] \in Blocks
    BY <1>1, <1>4 DEF IsValue
  <2>2. B[n].num # 0
    BY <1>4, <2>1 DEF RefsOK
  <2>3. Weigh(B, WEnts(To(n))) # 0
    BY <1>4, <2>1, <2>2 DEF RefsOK
  <2>4. PICK i \in Nat, e \in To(n) : HasEntry(B, i, e)
    BY <1>1, <2>3, WeighsEntry
  <2> QED BY <1>2, <2>4 DEF To
<1> QED BY <1>3, <1>4

\* The free list as its links lead through it.
Linked(fl, i) == IF i < Len(fl) THEN fl[i + 1] ELSE 0

After(B, n) == IF n # 0 /\ B[n].kind = "free" THEN B[n].next ELSE 0

LEMMA LinkedOn ==
  ASSUME NEW first, NEW B, NEW fl, FreeOK(first, B, fl), NEW i \in Nat
  PROVE  After(B, Linked(fl, i)) = Linked(fl, i + 1)
<1>1. fl \in Seq(1 .. Len(B)) /\ Len(fl) \in Nat
  BY DEF FreeOK
<1>2. CASE i < Len(fl)
  <2>1. i + 1 \in 1 .. Len(fl) /\ fl[i + 1] \in 1 .. Len(B)
    BY <1>1, <1>2
  <2>2. fl[i + 1] # 0 /\ Linked(fl, i) = fl[i + 1]
    BY <1>2, <2>1 DEF Linked
  <2>3. /\ B[fl[i + 1]].kind = "free"
        /\ B[fl[i + 1]].next = IF i + 1 = Len(fl) THEN 0 ELSE fl[(i + 1) + 1]
    BY <2>1 DEF FreeOK
  <2>4. After(B, Linked(fl, i)) = IF i + 1 = Len(fl) THEN 0 ELSE fl[(i + 1) + 1]
    BY <2>2, <2>3 DEF After
  <2>5. Linked(fl, i + 1) = IF i + 1 < Len(fl) THEN fl[(i + 1) + 1] ELSE 0
    BY DEF Linked
  <2>6. (i + 1 = Len(fl)) <=> ~(i + 1 < Len(fl))
    BY <1>1, <1>2
  <2> QED BY <2>4, <2>5, <2>6
<1>3. CASE ~(i < Len(fl))
  <2>1. ~(i + 1 < Len(fl))
    BY <1>1, <1>3
  <2> QED BY <1>3, <2>1 DEF Linked, After
<1> QED BY <1>2, <1>3

\* A free list is not longer than the file.
LEMMA FreeListFits ==
  ASSUME NEW first, NEW B, NEW fl, FreeOK(first, B, fl), Len(B) \in Nat
  PROVE  Len(fl) <= Len(B)
<1>1. fl \in [1 .. Len(fl) -> 1 .. Len(B)] /\ Len(fl) \in Nat
  BY DEF FreeOK
<1>2. fl \in Injection(1 .. Len(fl), 1 .. Len(B))
  BY <1>1 DEF FreeOK, Injection, IsInjective
<1>3. /\ IsFiniteSet(1 .. Len(B)) /\ Cardinality(1 .. Len(B)) = Len(B)
      /\ Cardinality(1 .. Len(fl)) = Len(fl)
  <2>1. 1 \in Int /\ Len(B) \in Int /\ Len(fl) \in Int
    BY <1>1
  <2>2. /\ IsFiniteSet(1 .. Len(B)) /\ Cardinality(1 .. Len(B)) = IF 1 > Len(B) THEN 0 ELSE Len(B) - 1 + 1
        /\ Cardinality(1 .. Len(fl)) = IF 1 > Len(fl) THEN 0 ELSE Len(fl) - 1 + 1
    BY <2>1, FS_Interval
  <2> QED BY <1>1, <2>2
<1>4. Cardinality(1 .. Len(fl)) <= Cardinality(1 .. Len(B))
  BY <1>2, <1>3, FS_Injection
<1> QED BY <1>3, <1>4

LEMMA FreeChainIs ==
  ASSUME NEW first, NEW B, NEW fl, FreeOK(first, B, fl), Len(B) \in Nat
  PROVE  FreeChain(B, first) = [i \in 0 .. Len(B) |-> Linked(fl, i)]
<1> DEFINE N == Len(B)
           F == [i \in 0 .. N |-> Linked(fl, i)]
           Chain(f) == f = [i \in 0 .. Len(B) |->
                              IF i = 0 THEN first
                              ELSE LET n == f[i - 1]
                                   IN  IF n # 0 /\ B[n].kind = "free" THEN B[n].next ELSE 0]
           g == CHOOSE f : Chain(f)
<1>1. N \in Nat
  OBVIOUS
<1>2. Linked(fl, 0) = first
  <2>1. fl \in Seq(1 .. Len(B)) /\ first = IF fl = <<>> THEN 0 ELSE fl[1]
    BY DEF FreeOK
  <2>2. (fl = <<>>) <=> ~(0 < Len(fl))
    BY <2>1, EmptySeq
  <2> QED BY <2>1, <2>2 DEF Linked
<1>3. F = [i \in 0 .. N |-> IF i = 0 THEN first ELSE After(B, F[i - 1])]
  <2>1. ASSUME NEW i \in 0 .. N PROVE Linked(fl, i) = IF i = 0 THEN first ELSE After(B, F[i - 1])
    <3>1. CASE i = 0
      BY <1>2, <3>1
    <3>2. CASE i # 0
      <4>1. i - 1 \in 0 .. N /\ i - 1 \in Nat /\ (i - 1) + 1 = i
        BY <1>1, <3>2
      <4>2. F[i - 1] = Linked(fl, i - 1)
        BY <4>1
      <4>3. After(B, Linked(fl, i - 1)) = Linked(fl, (i - 1) + 1)
        BY <4>1, LinkedOn
      <4> QED BY ONLY <3>2, <4>1, <4>2, <4>3
    <3> QED BY <3>1, <3>2
  <2> QED BY <2>1
<1> HIDE DEF F
<1>4. Chain(F)
  BY <1>3 DEF After
<1>5. Chain(g)
  <2> HIDE DEF Chain
  <2> QED BY <1>4
<1>6. FreeChain(B, first) = g
  BY DEF FreeChain
<1> HIDE DEF g
<1>7. g = [i \in 0 .. N |-> IF i = 0 THEN first ELSE After(B, g[i - 1])]
  BY <1>5 DEF After
<1> DEFINE S == {k \in Nat : k <= N => g[k] = F[k]}
<1>8. 0 \in S
  BY <1>1, <1>3, <1>7
<1>9. ASSUME NEW k \in Nat, k \in S PROVE k + 1 \in S
  <2>1. CASE k + 1 <= N
    <3>1. k \in 0 .. N /\ k + 1 \in 0 .. N /\ k + 1 # 0 /\ (k + 1) - 1 = k /\ k <= N
      BY <1>1, <2>1
    <3>2. g[k] = F[k]
      BY <1>9, <3>1
    <3>3. g[k + 1] = After(B, g[k]) /\ F[k + 1] = After(B, F[k])
      BY <1>3, <1>7, <3>1
    <3> QED BY <3>2, <3>3
  <2>2. CASE ~(k + 1 <= N)
    BY <2>2
  <2> QED BY <2>1, <2>2
<1>10. Nat \subseteq S
  <2> HIDE DEF S
  <2> QED BY <1>8, <1>9, SetInduction
<1>11. \A k \in 0 .. N : g[k] = F[k]
  BY <1>1, <1>10
<1>12. DOMAIN g = 0 .. N /\ g = [i \in DOMAIN g |-> g[i]]
  BY <1>7
<1>13. F = [i \in 0 .. N |-> F[i]]
  BY DEF F
<1>14. g = F
  BY <1>11, <1>12, <1>13
<1> QED BY <1>6, <1>14 DEF F

\* The blocks that the free list leads to.
LEMMA FreeRange ==
  ASSUME NEW first, NEW B, NEW fl, FreeOK(first, B, fl), Len(B) \in Nat
  PROVE  \A n : n \in Range(FreeChain(B, first)) /\ n # 0 <=> \E i \in 1 .. Len(fl) : fl[i] = n
<1>1. FreeChain(B, first) = [i \in 0 .. Len(B) |-> Linked(fl, i)]
  BY FreeChainIs
<1>2. Range(FreeChain(B, first)) = {Linked(fl, i) : i \in 0 .. Len(B)}
  BY <1>1 DEF Range
<1>3. fl \in Seq(1 .. Len(B)) /\ Len(fl) \in Nat /\ Len(fl) <= Len(B)
  <2>1. Len(fl) <= Len(B)
    BY FreeListFits
  <2> QED BY <2>1 DEF FreeOK
<1>4. ASSUME NEW n, n \in Range(FreeChain(B, first)), n # 0 PROVE \E i \in 1 .. Len(fl) : fl[i] = n
  <2>1. PICK i \in 0 .. Len(B) : Linked(fl, i) = n
    BY <1>2, <1>4
  <2>2. i < Len(fl) /\ fl[i + 1] = n
    BY <1>4, <2>1 DEF Linked
  <2>3. i + 1 \in 1 .. Len(fl)
    BY <1>3, <2>2
  <2> QED BY <2>2, <2>3
<1>5. ASSUME NEW i \in 1 .. Len(fl) PROVE fl[i] \in Range(FreeChain(B, first)) /\ fl[i] # 0
  <2>1. i - 1 \in 0 .. Len(B) /\ i - 1 < Len(fl) /\ (i - 1) + 1 = i
    BY <1>3
  <2>2. Linked(fl, i - 1) = fl[i]
    BY <2>1 DEF Linked
  <2>3. fl[i] \in 1 .. Len(B)
    BY <1>3
  <2> QED BY <1>2, <2>1, <2>2, <2>3
<1> QED BY <1>4, <1>5

\* Nothing leads to the spare blocks, and to no others.
LEMMA LooseIs ==
  ASSUME NEW m \in Nat, NEW d, NEW B, NEW h, NEW fl, Good(m, d, B, h, fl)
  PROVE  Loose(d, B) = Spare(B, fl)
<1>1. /\ Placed(B) /\ TreeOK(m, B, h) /\ RefsOK(d.current, B) /\ FreeOK(d.free, B, fl)
      /\ Len(B) \in Nat /\ B \in Seq(Blocks)
  BY DEF Good, Placed
<1>2. InTree(B) = {n \in Nat : Live(B, n)}
  BY <1>1, InTreeIs
<1>3. /\ \A e \in Entries(B) : IsValue(B, e.block)
      /\ \A n : IsValue(B, n) => n = d.current \/ \E e \in Entries(B) : e.block = n
  BY <1>1, EntryRefers
<1>4. \A n : n \in Range(FreeChain(B, d.free)) /\ n # 0 <=> \E i \in 1 .. Len(fl) : fl[i] = n
  BY <1>1, FreeRange
<1>5. d.current # 0 => IsValue(B, d.current)
  BY <1>1 DEF RefsOK
<1>6. \A i \in 1 .. Len(fl) : B[fl[i]].kind = "free"
  BY <1>1 DEF FreeOK
<1>7. Loose(d, B) = {n \in 1 .. Len(B) : /\ n \notin InTree(B) /\ (\A e \in Entries(B) : e.block # n)
                                          /\ n \notin Range(FreeChain(B, d.free)) /\ n # d.current}
  BY DEF Loose
<1>8. ASSUME NEW n \in 1 .. Len(B) PROVE n \in Nat /\ n # 0 /\ B[n].kind \in {"key", "value", "free"}
  <2>1. B[n] \in Blocks
    BY <1>1
  <2> QED BY <1>1, <2>1, BlockKinds
<1>9. ASSUME NEW n \in Loose(d, B) PROVE n \in Spare(B, fl)
  <2>1. n \in 1 .. Len(B) /\ n \notin InTree(B) /\ n # d.current
    BY <1>7
  <2>2. ~Live(B, n)
    BY <1>2, <1>8, <2>1
  <2>3. B[n].kind # "value"
    BY <1>3, <1>7, <2>1 DEF IsValue
  <2>4. \A i \in 1 .. Len(fl) : fl[i] # n
    BY <1>4, <1>7
  <2> QED BY <1>8, <2>1, <2>2, <2>3, <2>4 DEF Spare
<1>10. ASSUME NEW n \in Spare(B, fl) PROVE n \in Loose(d, B)
  <2>1. n \in 1 .. Len(B) /\ n # 0 /\ ~IsValue(B, n) /\ ~Live(B, n)
    BY <1>8 DEF Spare, IsValue, Live, IsKey
  <2>2. \A i \in 1 .. Len(fl) : fl[i] # n
    BY <1>6 DEF Spare
  <2> QED BY <1>2, <1>3, <1>4, <1>5, <1>7, <2>1, <2>2
<1> QED BY <1>9, <1>10

-----------------------------------------------------------------------------
(* The inductive invariant.                                                *)

\* The block q further up in which entry p will be replaced.
Upper(B, h, n, q, p) ==
  q \in Nat /\ Live(B, q) /\ ~B[q].leaf /\ p \in 1 .. Len(B[q].ents) /\ h[n] < h[q]

\* An insertion has come to a block that is not full.
Inserting(o, m, B) ==
  \E k \in Keys, v \in Values, n \in Nat :
    o = InsertOp(k, v, B[n]) /\ Live(B, n) /\ Len(B[n].ents) < m - 1 /\ Size[v] <= BlockSpace

\* A deletion has come to a block that can spare an entry, below the one in
\* which it replaces the key.
Deleting(o, B, h) ==
  \E k \in Keys, n \in Nat, flag \in {"none", "less", "more"} : \E b, q, p :
    /\ o = DeleteOp(k, B[n], flag, b, p) /\ Live(B, n) /\ (n = Root \/ Len(B[n].ents) >= 2)
    /\ flag = "none" \/ (b = B[q] /\ Upper(B, h, n, q, p))

OpOK(o, m, B, h) == o = Idle \/ Inserting(o, m, B) \/ Deleting(o, B, h)

\* A good database of which all spare blocks are in X.
Stands(m, d, f, B, h, fl, X) == f = FileOf(d, B) /\ Good(m, d, B, h, fl) /\ Spare(B, fl) \subseteq X

Opened(m, e, f, o, X) == \E B, h, fl : Stands(m, e, f, B, h, fl, X) /\ OpOK(o, m, B, h)

Closed(m, e, f, o, X) ==
  /\ e = NoHandle /\ o = Idle
  /\ f.there /\ db_checker(f) => \E d, B, h, fl : Stands(m, d, f, B, h, fl, X)

SetupOK(s) == s \in [M : Nat, seed : Seq(Keys), keys : SUBSET Keys, calls : Nat] /\ s.M >= 4

\* As long as no entry is lost, the database is good while it is open, and when
\* it is closed and db_open will accept it.
DatabaseGood ==
  /\ SetupOK(setup) /\ damaged \in BOOLEAN
  /\ ~damaged => Opened(setup.M, db, file, op, spilled) \/ Closed(setup.M, db, file, op, spilled)

\* A good database is open.
LEMMA OpenIs ==
  ASSUME NEW m, NEW d, NEW B, NEW h, NEW fl, Good(m, d, B, h, fl)
  PROVE  d.open = TRUE
<1>1. d \in Handles
  BY DEF Good
<1> QED BY <1>1 DEF Handles

\* A turn begins with the database as it stands.
LEMMA BeginIs ==
  ASSUME NEW m, NEW B, NEW h, NEW fl, file = FileOf(db, B), Good(m, db, B, h, fl)
  PROVE  Is(m, Begin, db, db, B)
<1>1. Ok(m, file)
  BY GoodIsOk
<1>2. /\ Begin.db = db /\ Begin.file = file /\ Begin.past = {Image(file, FALSE)}
      /\ Image(file, FALSE).file = file /\ Image(file, FALSE).moves = FALSE
  BY DEF Begin, Image
<1>3. Past(m, Begin)
  BY <1>1, <1>2 DEF Past
<1> QED BY <1>2, <1>3 DEF Is

\* A file that db_open accepts is whole.
LEMMA AcceptedFile ==
  ASSUME NEW f, IsFile(f), ~f.piece
  PROVE  f = FileOf(f.head, f.blocks)
<1>1. PICK t \in BOOLEAN, p \in BOOLEAN : t /\ \E d, B : f = FileRec(t, d, B, p)
  BY DEF IsFile
<1>2. PICK d, B : f = FileRec(t, d, B, p)
  BY <1>1
<1>3. f.piece = p /\ f.head = d /\ f.blocks = B
  BY <1>2 DEF FileRec
<1>4. p = FALSE /\ t = TRUE
  BY <1>1, <1>3
<1> QED BY <1>2, <1>3, <1>4 DEF FileRec, FileOf

\* The program may end after any write of a turn.
LEMMA CutOffKeeps ==
  ASSUME DatabaseGood, NEW m, m = M, NEW s, Past(m, s), CutOff(s)
  PROVE  DatabaseGood'
<1>1. PICK image \in s.past :
        /\ file' = image.file /\ damaged' = image.moves
        /\ status' = Status(NoHandle, image.file, image.moves)
        /\ spilled' = IF status' = "closed" THEN spilled \cup Loose(image.file.head, image.file.blocks)
                      ELSE spilled
  BY DEF CutOff
<1>2. db' = NoHandle /\ op' = Idle /\ setup' = setup
  BY DEF CutOff
<1>3. image.moves \in BOOLEAN /\ (image.moves \/ Ok(m, image.file))
  BY DEF Past
<1>4. ASSUME ~damaged', file'.there, db_checker(file')
      PROVE  \E d, B, h, fl : Stands(m, d, file', B, h, fl, spilled')
  <2>1. Ok(m, image.file) /\ image.moves = FALSE
    BY <1>1, <1>3, <1>4
  <2>2. status' = "closed"
    <3>1. NoHandle.open = FALSE
      BY DEF NoHandle
    <3> QED BY <1>1, <1>4, <2>1, <3>1 DEF Status
  <2>3. PICK h, fl : Good(m, image.file.head, image.file.blocks, h, fl)
    BY <1>1, <1>4, <2>1 DEF Ok
  <2>4. image.file = FileOf(image.file.head, image.file.blocks)
    <3>1. IsFile(image.file)
      BY <2>1 DEF Ok
    <3>2. ~image.file.piece
      BY <1>1, <1>4 DEF db_checker
    <3> QED BY <3>1, <3>2, AcceptedFile
  <2>5. Spare(image.file.blocks, fl) \subseteq spilled'
    <3>1. Loose(image.file.head, image.file.blocks) = Spare(image.file.blocks, fl)
      <4>1. m \in Nat
        BY DEF DatabaseGood, SetupOK, M
      <4> QED BY <2>3, <4>1, LooseIs
    <3> QED BY <1>1, <2>2, <3>1
  <2> QED BY <1>1, <2>3, <2>4, <2>5 DEF Stands
<1>5. ~damaged' => Closed(m, db', file', op', spilled')
  BY <1>2, <1>4 DEF Closed
<1>6. SetupOK(setup') /\ m = setup'.M
  BY <1>2 DEF DatabaseGood, M
<1>7. damaged' \in BOOLEAN
  BY <1>1, <1>3
<1> QED BY <1>5, <1>6, <1>7 DEF DatabaseGood

\* A turn after which the call goes on, ...
LEMMA GoesOnKeeps ==
  ASSUME DatabaseGood, NEW m, m = M, NEW s, NEW d, NEW B, NEW h, NEW fl, Is(m, s, d, d, B),
         Good(m, d, B, h, fl), Spare(B, fl) \subseteq spilled,
         NEW o, OpOK(o, m, B, h), GoesOn(s, o)
  PROVE  DatabaseGood'
<1>1. s.db = d /\ s.file = FileOf(d, B) /\ Past(m, s)
  BY DEF Is
<1>2. CASE Continues(s, o)
  <2>1. /\ file' = FileOf(d, B) /\ db' = d /\ op' = o /\ setup' = setup
        /\ spilled' = spilled /\ damaged' = damaged
    BY <1>1, <1>2 DEF Continues
  <2>2. Opened(m, d, FileOf(d, B), o, spilled)
    BY DEF Opened, Stands
  <2>3. Opened(m, db', file', op', spilled')
    BY <2>1, <2>2
  <2>4. m = setup'.M /\ SetupOK(setup') /\ damaged' \in BOOLEAN
    BY <2>1 DEF DatabaseGood, M
  <2> QED BY <2>3, <2>4 DEF DatabaseGood
<1>3. CASE CutOff(s)
  BY <1>1, <1>3, CutOffKeeps
<1> QED BY <1>2, <1>3 DEF GoesOn

\* ... and one that ends it.
LEMMA EndKeeps ==
  ASSUME DatabaseGood, NEW m, m = M, NEW s, NEW d, NEW B, NEW h, NEW fl, Is(m, s, d, d, B),
         Good(m, d, B, h, fl), NEW X, Spare(B, fl) \subseteq spilled \cup X,
         NEW r, EndsWith(s, r, X)
  PROVE  DatabaseGood'
<1>1. s.db = d /\ s.file = FileOf(d, B)
  BY DEF Is
<1>2. /\ file' = FileOf(d, B) /\ db' = d /\ op' = Idle /\ damaged' = damaged
      /\ spilled' = spilled \cup X
      /\ setup' = IF Seeding THEN [setup EXCEPT !.seed = Tail(@)] ELSE setup
  BY <1>1 DEF EndsWith
<1>3. SetupOK(setup') /\ m = setup'.M
  <2>1. SetupOK(setup)
    BY DEF DatabaseGood
  <2>2. CASE Seeding
    <3>1. setup.seed \in Seq(Keys) /\ setup.seed # <<>>
      BY <2>1, <2>2 DEF SetupOK, Seeding
    <3>2. Tail(setup.seed) \in Seq(Keys)
      BY <3>1
    <3> QED BY <1>2, <2>1, <2>2, <3>2 DEF SetupOK, M
  <2>3. CASE ~Seeding
    BY <1>2, <2>1, <2>3 DEF M
  <2> QED BY <2>2, <2>3
<1>4. Opened(m, d, FileOf(d, B), Idle, spilled \cup X)
  BY DEF Opened, Stands, OpOK
<1>5. Opened(m, db', file', op', spilled')
  BY <1>2, <1>4
<1>6. damaged' \in BOOLEAN
  BY <1>2 DEF DatabaseGood
<1> QED BY <1>3, <1>5, <1>6 DEF DatabaseGood

LEMMA ReturnsKeeps ==
  ASSUME DatabaseGood, NEW m, m = M, NEW s, NEW B, NEW fl, Ends(m, s, B, fl, {}), Spare(B, fl) \subseteq spilled,
         NEW r, Returns(s, r)
  PROVE  DatabaseGood'
<1>1. PICK d, C, g, l : Is(m, s, d, d, C) /\ Good(m, d, C, g, l) /\ Spare(C, l) \subseteq Spare(B, fl) \cup {}
  BY DEF Ends
<1>2. Spare(C, l) \subseteq spilled \cup {}
  BY <1>1
<1>3. CASE EndsWith(s, r, {})
  BY <1>1, <1>2, <1>3, EndKeeps
<1>4. CASE CutOff(s)
  <2>1. Past(m, s)
    BY <1>1 DEF Is
  <2> QED BY <1>4, <2>1, CutOffKeeps
<1> QED BY <1>3, <1>4 DEF Returns

LEMMA FailsKeeps ==
  ASSUME DatabaseGood, NEW m, m = M, NEW s, NEW d, NEW B, NEW h, NEW fl, Is(m, s, d, d, B),
         Good(m, d, B, h, fl), NEW X, Spare(B, fl) \subseteq spilled \cup X, Fails(s, X)
  PROVE  DatabaseGood'
<1>1. Is(m, NoRoom(s), d, d, B)
  BY GoodIsOk, IsNoRoom
<1>2. CASE EndsWith(NoRoom(s), -1, X)
  BY <1>1, <1>2, EndKeeps
<1>3. CASE CutOff(NoRoom(s))
  <2>1. Past(m, NoRoom(s))
    BY <1>1 DEF Is
  <2> QED BY <1>3, <2>1, CutOffKeeps
<1> QED BY <1>2, <1>3 DEF Fails

-----------------------------------------------------------------------------
(* The turns of a call.                                                    *)

\* A database on which a call works.
Working(m, B, h, fl) ==
  /\ m = M /\ m \in Nat /\ m >= 4 /\ file = FileOf(db, B) /\ file.blocks = B
  /\ Good(m, db, B, h, fl) /\ Spare(B, fl) \subseteq spilled /\ Is(m, Begin, db, db, B)

LEMMA WorkingNow ==
  ASSUME DatabaseGood, ~damaged, db.open \/ op # Idle
  PROVE  \E B, h, fl : Working(M, B, h, fl) /\ OpOK(op, M, B, h)
<1>1. M \in Nat /\ M >= 4
  BY DEF DatabaseGood, SetupOK, M
<1>2. ~Closed(M, db, file, op, spilled)
  BY DEF Closed, NoHandle
<1>3. Opened(M, db, file, op, spilled)
  BY <1>2 DEF DatabaseGood, M
<1>4. PICK B, h, fl : Stands(M, db, file, B, h, fl, spilled) /\ OpOK(op, M, B, h)
  BY <1>3 DEF Opened
<1>5. Is(M, Begin, db, db, B)
  BY <1>4, BeginIs DEF Stands
<1>6. file.blocks = B
  BY <1>4 DEF Stands, FileOf
<1> QED BY <1>1, <1>4, <1>5, <1>6 DEF Working, Stands

\* A turn that writes nothing.
LEMMA EndsNow ==
  ASSUME NEW m, NEW s, NEW d, NEW B, NEW h, NEW fl, Is(m, s, d, d, B), Good(m, d, B, h, fl), NEW X
  PROVE  Ends(m, s, B, fl, X)
BY DEF Ends

LEMMA NothingWritten ==
  ASSUME DatabaseGood, NEW B, NEW h, NEW fl, Working(M, B, h, fl), NEW r, Returns(Begin, r)
  PROVE  DatabaseGood'
<1>1. Ends(M, Begin, B, fl, {}) /\ Spare(B, fl) \subseteq spilled
  BY EndsNow DEF Working
<1> QED BY <1>1, ReturnsKeeps

LEMMA NoRoomNow ==
  ASSUME DatabaseGood, NEW B, NEW h, NEW fl, Working(M, B, h, fl), Fails(Begin, {})
  PROVE  DatabaseGood'
<1>1. /\ Is(M, Begin, db, db, B) /\ Good(M, db, B, h, fl) /\ Spare(B, fl) \subseteq spilled \cup {}
  BY DEF Working
<1> QED BY <1>1, FailsKeeps

\* A new block leaves those in use alone.
LEMMA CreatedKeeps ==
  ASSUME NEW m, NEW B, NEW h, NEW fl, NEW t, NEW b, NEW cur, NEW X, NEW d2, NEW B2, NEW h2, NEW fl2,
         Created(m, B, h, fl, t, b, cur, X, d2, B2, h2, fl2), Len(B) \in Nat, Len(B2) \in Nat,
         NEW n \in 1 .. Len(B), B[n].kind # "free"
  PROVE  n # b.self /\ n \in 1 .. Len(B2) /\ B2[n] = B[n] /\ h2[n] = h[n]
<1>1. n # b.self
  BY DEF Created
<1>2. Len(B) <= Len(B2)
  BY DEF Created
<1>3. B2[n] = B[n] /\ h2[n] = h[n]
  BY <1>1 DEF Created
<1> QED BY <1>1, <1>2, <1>3

\* A new key block is not yet part of the tree.
KeyMade(m, B, h, fl, t, n, leaf, d2, B2, h2, fl2) ==
  /\ Is(m, t, d2, d2, B2) /\ Good(m, d2, B2, h2, fl2) /\ Spare(B2, fl2) \subseteq Spare(B, fl) \cup {n}
  /\ n \in 1 .. Len(B2) /\ B2[n] = NewKeyBlock(n, leaf) /\ B2[n].kind = "key" /\ ~Live(B2, n)
  /\ \A i \in 1 .. Len(B) : B[i].kind # "free" => i # n /\ i \in 1 .. Len(B2) /\ B2[i] = B[i] /\ h2[i] = h[i]

LEMMA KeyCreated ==
  ASSUME NEW m \in Nat, NEW s, NEW d, NEW B, NEW h, NEW fl, Is(m, s, d, d, B), Good(m, d, B, h, fl),
         NEW leaf \in BOOLEAN
  PROVE  \E d2, B2, h2, fl2 : KeyMade(m, B, h, fl, node_create(s, NewKeyBlock(NextBlock(s), leaf)), NextBlock(s),
                                      leaf, d2, B2, h2, fl2)
<1> DEFINE b == NewKeyBlock(NextBlock(s), leaf)
<1>1. PICK d2, B2, h2, fl2 :
        Created(m, B, h, fl, node_create(s, b), b, d.current, {NextBlock(s)}, d2, B2, h2, fl2)
  BY CreateKey
<1>2. b.self = NextBlock(s) /\ b.kind = "key" /\ b.ents = <<>>
  BY DEF NewKeyBlock, KeyBlock
<1>3. /\ NextBlock(s) \in 1 .. Len(B2) /\ B2[NextBlock(s)] = NewKeyBlock(NextBlock(s), leaf)
      /\ B2[NextBlock(s)].kind = "key" /\ B2[NextBlock(s)].ents = <<>>
  BY <1>1, <1>2 DEF Created
<1>4. Len(B) \in Nat /\ Root \in 1 .. Len(B) /\ B[Root].kind = "key"
  BY GoodTypes
<1>5. Good(m, d2, B2, h2, fl2)
  BY <1>1 DEF Created
<1>6. Len(B2) \in Nat
  BY <1>5, GoodTypes
<1>7. \A n \in 1 .. Len(B) : B[n].kind # "free" =>
        n # NextBlock(s) /\ n \in 1 .. Len(B2) /\ B2[n] = B[n] /\ h2[n] = h[n]
  BY <1>1, <1>2, <1>4, <1>6, CreatedKeeps
<1>8. ~Live(B2, NextBlock(s))
  BY <1>3, <1>4, <1>7 DEF Live
<1>9. /\ Is(m, node_create(s, b), d2, d2, B2) /\ Good(m, d2, B2, h2, fl2)
      /\ Spare(B2, fl2) \subseteq Spare(B, fl) \cup {NextBlock(s)}
  BY <1>1 DEF Created
<1> QED BY <1>3, <1>7, <1>8, <1>9 DEF KeyMade

\* The blocks of a working database.
LEMMA WorkingTypes ==
  ASSUME NEW B, NEW h, NEW fl, Working(M, B, h, fl)
  PROVE  /\ M \in Nat /\ M >= 4 /\ B \in Seq(Blocks) /\ Len(B) \in Nat /\ Placed(B) /\ TreeOK(M, B, h)
         /\ Good(M, db, B, h, fl) /\ Is(M, Begin, db, db, B) /\ Spare(B, fl) \subseteq spilled
         /\ file.blocks = B /\ Root \in Nat /\ Live(B, Root)
         /\ \A n \in 1 .. Len(B) : B[n] \in Blocks /\ B[n].self = n
<1>1. Good(M, db, B, h, fl)
  BY DEF Working
<1>2. /\ B \in Seq(Blocks) /\ Len(B) \in Nat /\ TreeOK(M, B, h) /\ Root \in 1 .. Len(B) /\ B[Root].kind = "key"
      /\ \A n \in 1 .. Len(B) : B[n] \in Blocks /\ B[n].self = n
  BY <1>1, GoodTypes
<1>3. Placed(B)
  BY <1>1 DEF Good
<1> QED BY <1>1, <1>2, <1>3 DEF Working, Live, IsKey

LEMMA LiveTypes ==
  ASSUME NEW B, NEW h, NEW fl, Working(M, B, h, fl), NEW n \in Nat, Live(B, n)
  PROVE  /\ n \in 1 .. Len(B) /\ B[n].kind = "key" /\ B[n].self = n /\ B[n].leaf \in BOOLEAN
         /\ B[n].ents \in Seq(Ent) /\ B[n].kids \in Seq(Nat) /\ Len(B[n].ents) \in Nat
         /\ Len(B[n].kids) = Len(B[n].ents) + 1 /\ Len(B[n].ents) <= M /\ h[n] \in Nat /\ h[n] <= h[Root]
<1>1. n \in 1 .. Len(B) /\ B[n].kind = "key" /\ B[n].self = n
  BY WorkingTypes DEF Live, IsKey
<1>2. NodeAt(M, h, Len(B), B[n], n, B[n].leaf, B[n].ents, B[n].kids)
  BY WorkingTypes, NodeOf
<1> QED BY <1>1, <1>2 DEF NodeAt

\* A full root is split into two new blocks, of which one or both may not be had.
LEMMA SplitRootKeeps ==
  ASSUME DatabaseGood, NEW B, NEW h, NEW fl, Working(M, B, h, fl), NEW k \in Keys, NEW v \in Values,
         Size[v] <= BlockSpace, Len(B[Root].ents) >= M - 1, SplitRoot(k, v)
  PROVE  DatabaseGood'
<1> DEFINE b == file.blocks[Root]
           nx == NextBlock(Begin)
           x == NewKeyBlock(nx, b.leaf)
           t == node_create(Begin, x)
           ny == NextBlock(t)
           y == NewKeyBlock(ny, b.leaf)
           t3 == node_create(t, y)
           r == btree_split_child(t3, KeyBlock(Root, FALSE, <<>>, <<x.self>>), 1, Filled(x, b.ents, b.kids), y)
<1>1. /\ M \in Nat /\ M >= 4 /\ Good(M, db, B, h, fl) /\ Is(M, Begin, db, db, B)
      /\ Spare(B, fl) \subseteq spilled /\ file.blocks = B /\ Root \in Nat /\ Live(B, Root) /\ Len(B) \in Nat
  BY WorkingTypes
<1>2. b = B[Root] /\ b.leaf \in BOOLEAN /\ Root \in 1 .. Len(B) /\ B[Root].kind = "key"
  BY <1>1, LiveTypes
<1>20. PICK d2, B2, h2, fl2 : KeyMade(M, B, h, fl, t, nx, b.leaf, d2, B2, h2, fl2)
  BY <1>1, <1>2, KeyCreated
<1>3. /\ nx \in 1 .. Len(B2) /\ B2[nx] = NewKeyBlock(nx, b.leaf) /\ B2[nx].kind = "key" /\ ~Live(B2, nx)
      /\ Root \in 1 .. Len(B2) /\ B2[Root] = B[Root]
  BY <1>2, <1>20 DEF KeyMade
<1>4. /\ Is(M, t, d2, d2, B2) /\ Good(M, d2, B2, h2, fl2) /\ Spare(B2, fl2) \subseteq Spare(B, fl) \cup {nx}
  BY <1>20 DEF KeyMade
<1>21. PICK d3, B3, h3, fl3 : KeyMade(M, B2, h2, fl2, t3, ny, b.leaf, d3, B3, h3, fl3)
  BY <1>1, <1>2, <1>4, KeyCreated
<1>5. /\ ny \in 1 .. Len(B3) /\ B3[ny] = NewKeyBlock(ny, b.leaf) /\ B3[ny].kind = "key" /\ ~Live(B3, ny)
      /\ nx # ny /\ nx \in 1 .. Len(B3) /\ B3[nx] = B2[nx] /\ Root \in 1 .. Len(B3) /\ B3[Root] = B2[Root]
  BY <1>2, <1>3, <1>21 DEF KeyMade
<1>6. /\ Is(M, t3, d3, d3, B3) /\ Good(M, d3, B3, h3, fl3) /\ Spare(B3, fl3) \subseteq Spare(B2, fl2) \cup {ny}
  BY <1>21 DEF KeyMade
<1>7. B3[Root] = b /\ B3[nx] = x /\ B3[ny] = y
  BY <1>2, <1>3, <1>5
<1>22. x.self = nx
  BY DEF NewKeyBlock, KeyBlock
<1> HIDE DEF b, nx, x, t, ny, y, t3
<1>8. ~Live(B3, nx) /\ B3[nx].kind = "key"
  BY <1>3, <1>5 DEF Live, IsKey
<1>9. PICK C, g : RootDone(M, r, d3, B3, fl3, nx, ny, C, g)
  <2>1. Len(B3[Root].ents) >= M - 1 /\ B3[nx] = NewKeyBlock(nx, B3[Root].leaf) /\ B3[ny] = NewKeyBlock(ny, B3[Root].leaf)
    BY <1>2, <1>3, <1>5, <1>7
  <2>2. \E C, g : RootDone(M, btree_split_child(t3, KeyBlock(Root, FALSE, <<>>, <<nx>>), 1,
                                                Filled(B3[nx], B3[Root].ents, B3[Root].kids), B3[ny]),
                           d3, B3, fl3, nx, ny, C, g)
    BY <1>1, <1>5, <1>6, <1>8, <2>1, SplitOfRoot
  <2> QED BY <1>7, <1>22, <2>2
<1> HIDE DEF r
<1>10. SplitRoot(k, v) <=> \/ GoesOn(r, InsertOp(k, v, r.file.blocks[Root]))
                           \/ Fails(Begin, {})
                           \/ Fails(t, {x.self})
  BY DEF SplitRoot, r, t3, y, ny, t, x, nx, b
<1>11. CASE GoesOn(r, InsertOp(k, v, r.file.blocks[Root]))
  <2>1. /\ Is(M, r, d3, d3, C) /\ Good(M, d3, C, g, fl3) /\ Spare(C, fl3) \subseteq Spare(B3, fl3) \ {nx, ny}
        /\ Live(C, Root) /\ Len(C[Root].ents) = 1
    BY <1>9 DEF RootDone
  <2>2. Spare(C, fl3) \subseteq spilled
    BY <1>1, <1>4, <1>6, <2>1
  <2>3. r.file.blocks = C
    BY <2>1 DEF Is, FileOf
  <2>4. Len(C[Root].ents) < M - 1
    BY <1>1, <2>1
  <2>5. Inserting(InsertOp(k, v, C[Root]), M, C)
    BY <1>1, <2>1, <2>4 DEF Inserting
  <2>6. OpOK(InsertOp(k, v, r.file.blocks[Root]), M, C, g)
    BY <2>3, <2>5 DEF OpOK
  <2> QED BY <1>11, <2>1, <2>2, <2>6, GoesOnKeeps
<1>12. CASE Fails(Begin, {})
  BY <1>12, NoRoomNow
<1>13. CASE Fails(t, {x.self})
  <2>1. Spare(B2, fl2) \subseteq spilled \cup {x.self}
    BY <1>1, <1>4, <1>22
  <2> QED BY <1>1, <1>4, <1>13, <2>1, FailsKeeps
<1> QED BY <1>10, <1>11, <1>12, <1>13

\* A call of db_insert.
LEMMA InsertKeeps ==
  ASSUME DatabaseGood, ~damaged, NEW k \in Keys, NEW v \in Values, db_insert(k, v)
  PROVE  DatabaseGood'
<1>1. db.open
  BY DEF db_insert, Starts
<1>2. PICK B, h, fl : Working(M, B, h, fl)
  BY <1>1, WorkingNow
<1>3. M \in Nat /\ file.blocks = B /\ Root \in Nat /\ Live(B, Root) /\ Good(M, db, B, h, fl) /\ Is(M, Begin, db, db, B)
      /\ Spare(B, fl) \subseteq spilled
  BY <1>2, WorkingTypes
<1>4. CASE Returns(Begin, -1)
  BY <1>2, <1>4, NothingWritten
<1>5. CASE Size[v] <= BlockSpace /\ Len(B[Root].ents) < M - 1 /\ GoesOn(Begin, InsertOp(k, v, B[Root]))
  <2>1. OpOK(InsertOp(k, v, B[Root]), M, B, h)
    BY <1>3, <1>5 DEF OpOK, Inserting
  <2> QED BY <1>3, <1>5, <2>1, GoesOnKeeps
<1>6. CASE Size[v] <= BlockSpace /\ Len(B[Root].ents) >= M - 1 /\ SplitRoot(k, v)
  BY <1>2, <1>6, SplitRootKeeps
<1> QED BY <1>3, <1>4, <1>5, <1>6 DEF db_insert

\* The arguments of an insertion, and the block in hand.
InsertsAt(o, m, B, k, v, n) ==
  /\ k \in Keys /\ v \in Values /\ n \in Nat /\ Live(B, n) /\ Len(B[n].ents) < m - 1 /\ Size[v] <= BlockSpace
  /\ o.key = k /\ o.val = v /\ o.node = B[n] /\ \A b : [o EXCEPT !.node = b] = InsertOp(k, v, b)

LEMMA InsertingOp ==
  ASSUME NEW o, NEW m, NEW B, NEW h, OpOK(o, m, B, h), o.pc = "insert"
  PROVE  \E k, v, n : InsertsAt(o, m, B, k, v, n)
<1>1. Inserting(o, m, B)
  BY DEF OpOK, Idle, Deleting, DeleteOp
<1>2. PICK k \in Keys, v \in Values, n \in Nat :
        o = InsertOp(k, v, B[n]) /\ Live(B, n) /\ Len(B[n].ents) < m - 1 /\ Size[v] <= BlockSpace
  BY <1>1 DEF Inserting
<1>3. o.key = k /\ o.val = v /\ o.node = B[n] /\ \A b : [o EXCEPT !.node = b] = InsertOp(k, v, b)
  BY <1>2 DEF InsertOp
<1> QED BY <1>2, <1>3 DEF InsertsAt

\* The insertion goes on in a block that is not full.
LEMMA InsertOpOK ==
  ASSUME NEW m, NEW B, NEW h, NEW k \in Keys, NEW v \in Values, NEW n \in Nat, Live(B, n),
         Len(B[n].ents) < m - 1, Size[v] <= BlockSpace
  PROVE  OpOK(InsertOp(k, v, B[n]), m, B, h)
BY DEF OpOK, Inserting

\* One turn of db_insert above the leaves.
LEMMA InsertTurnKeeps ==
  ASSUME DatabaseGood, ~damaged, InsertTurn
  PROVE  DatabaseGood'
<1>1. op.pc = "insert" /\ op # Idle /\ ~op.node.leaf
  <2>1. op.pc = "insert" /\ ~op.node.leaf
    BY DEF InsertTurn
  <2>2. Idle.pc = "idle"
    BY DEF Idle
  <2> QED BY <2>1, <2>2
<1>2. PICK B, h, fl : Working(M, B, h, fl) /\ OpOK(op, M, B, h)
  BY <1>1, WorkingNow
<1>3. PICK k, v, n : InsertsAt(op, M, B, k, v, n)
  BY <1>1, <1>2, InsertingOp
<1>4. /\ k \in Keys /\ v \in Values /\ n \in Nat /\ Live(B, n) /\ Len(B[n].ents) < M - 1 /\ Size[v] <= BlockSpace
      /\ op.key = k /\ op.node = B[n] /\ ~B[n].leaf
      /\ \A b : [op EXCEPT !.node = b] = InsertOp(k, v, b)
  BY <1>1, <1>3 DEF InsertsAt
<1>5. /\ M \in Nat /\ M >= 4 /\ Len(B) \in Nat /\ Placed(B) /\ TreeOK(M, B, h) /\ Good(M, db, B, h, fl)
      /\ Is(M, Begin, db, db, B) /\ Spare(B, fl) \subseteq spilled /\ file.blocks = B
  BY <1>2, WorkingTypes
<1>6. /\ n \in 1 .. Len(B) /\ B[n].kind = "key" /\ B[n].ents \in Seq(Ent) /\ Len(B[n].ents) \in Nat
      /\ Len(B[n].kids) = Len(B[n].ents) + 1 /\ B[n].self = n
  BY <1>2, <1>4, LiveTypes
<1> DEFINE i == key_binary_search(B[n], k)
           p == -i
           nx == B[n].kids[p]
           ny == NextBlock(Begin)
           y == NewKeyBlock(ny, B[nx].leaf)
           t == node_create(Begin, y)
           u == btree_split_child(t, B[n], p, B[nx], y)
           up == u.file.blocks[B[n].self].ents[p].key
           In(s, j) == [op EXCEPT !.node = s.file.blocks[j]]
<1>7. \/ i >= 0 /\ Returns(Begin, 0)
      \/ i < 0 /\ Len(B[nx].ents) < M - 1 /\ GoesOn(Begin, In(Begin, B[nx].self))
      \/ i < 0 /\ Len(B[nx].ents) >= M - 1 /\ \/ Fails(Begin, {})
                                              \/ op.key = up /\ Returns(u, 0)
                                              \/ op.key > up /\ GoesOn(u, In(u, y.self))
                                              \/ op.key < up /\ GoesOn(u, In(u, B[nx].self))
  BY <1>4, <1>5 DEF InsertTurn
<1> HIDE DEF up
<1>8. i < 0 => p \in 1 .. Len(B[n].kids)
  <2>1. i < 0 => -i \in 1 .. Len(B[n].ents) + 1
    BY <1>4, <1>6, SearchRange
  <2> QED BY <1>6, <2>1
<1>9. i < 0 => nx \in 1 .. Len(B) /\ nx \in Nat /\ Live(B, nx)
  <2> HIDE DEF p
  <2>w. i < 0 => KidIs(B, h, n, p)
    BY <1>4, <1>5, <1>8, KidFacts
  <2> QED BY <1>4, <1>5, <1>8, <2>w DEF KidIs
<1>10. i < 0 => B[nx].self = nx /\ B[nx].kind = "key" /\ B[nx].leaf \in BOOLEAN /\ nx \in 1 .. Len(B)
  <2> HIDE DEF nx, p
  <2> QED BY <1>2, <1>9, LiveTypes
<1>11. \A s, j : In(s, j) = InsertOp(k, v, s.file.blocks[j])
  BY <1>4
<1> HIDE DEF In, p
<1>12. CASE i >= 0 /\ Returns(Begin, 0)
  BY <1>2, <1>12, NothingWritten
<1>13. CASE i < 0 /\ Len(B[nx].ents) < M - 1 /\ GoesOn(Begin, In(Begin, B[nx].self))
  <2>1. Begin.file.blocks = B
    BY <1>5 DEF Begin
  <2>2. In(Begin, B[nx].self) = InsertOp(k, v, B[nx])
    BY <1>10, <1>11, <1>13, <2>1
  <2>3. OpOK(InsertOp(k, v, B[nx]), M, B, h)
    <3> HIDE DEF nx
    <3> QED BY <1>4, <1>9, <1>13, InsertOpOK
  <2> HIDE DEF nx
  <2> QED BY <1>5, <1>13, <2>2, <2>3, GoesOnKeeps
<1>14. CASE i < 0 /\ Len(B[nx].ents) >= M - 1 /\ Fails(Begin, {})
  BY <1>2, <1>14, NoRoomNow
<1>15. CASE i < 0 /\ Len(B[nx].ents) >= M - 1 /\ ~Fails(Begin, {})
  <2> HIDE DEF nx, i
  <2>1. PICK d2, B2, h2, fl2 : KeyMade(M, B, h, fl, t, ny, B[nx].leaf, d2, B2, h2, fl2)
    BY <1>5, <1>10, <1>15, KeyCreated
  <2> HIDE DEF t, ny
  <2>2. /\ Is(M, t, d2, d2, B2) /\ Good(M, d2, B2, h2, fl2) /\ Spare(B2, fl2) \subseteq Spare(B, fl) \cup {ny}
        /\ ny \in 1 .. Len(B2) /\ B2[ny] = y /\ B2[ny].kind = "key" /\ ~Live(B2, ny)
        /\ n \in 1 .. Len(B2) /\ B2[n] = B[n] /\ nx \in 1 .. Len(B2) /\ B2[nx] = B[nx]
    BY <1>6, <1>10, <1>15, <2>1 DEF KeyMade
  <2>3. Live(B2, n) /\ ~B2[n].leaf /\ Len(B2[n].ents) < M
    BY <1>4, <1>5, <1>6, <2>2 DEF Live, IsKey
  <2>4. /\ p \in 1 .. Len(B2[n].kids) /\ nx = B2[n].kids[p] /\ Len(B2[nx].ents) >= M - 1
        /\ B2[ny] = NewKeyBlock(ny, B2[nx].leaf)
    BY <1>8, <1>15, <2>2 DEF nx
  <2>5. \E C, g : SplitDone(M, btree_split_child(t, B2[n], p, B2[nx], B2[ny]), d2, B2, fl2, nx, ny, C, g)
    <3> HIDE DEF y
    <3> QED BY <1>4, <1>5, <2>2, <2>3, <2>4, SplitChild
  <2>6. PICK C, g : SplitDone(M, u, d2, B2, fl2, nx, ny, C, g)
    BY <2>2, <2>5
  <2>7. y.self = ny
    BY DEF NewKeyBlock, KeyBlock
  <2> HIDE DEF u, y
  <2>8. /\ Is(M, u, d2, d2, C) /\ Good(M, d2, C, g, fl2) /\ Spare(C, fl2) \subseteq Spare(B2, fl2) \ {ny}
        /\ Live(C, nx) /\ Live(C, ny) /\ Len(C[nx].ents) < M - 1 /\ Len(C[ny].ents) < M - 1
    BY <2>6 DEF SplitDone
  <2>9. Spare(C, fl2) \subseteq Spare(B, fl) \cup {} /\ Spare(C, fl2) \subseteq spilled
    BY <1>5, <2>2, <2>8
  <2>10. u.file.blocks = C /\ nx \in Nat /\ ny \in Nat
    <3>1. u.file.blocks = C
      BY <2>8 DEF Is, FileOf
    <3>2. nx \in Nat /\ ny \in Nat
      BY <1>9, <1>15, <2>2
    <3> QED BY <3>1, <3>2
  <2>11. CASE Returns(u, 0)
    <3>1. Ends(M, u, B, fl, {})
      BY <2>8, <2>9 DEF Ends
    <3> QED BY <1>5, <2>11, <3>1, ReturnsKeeps
  <2>12. CASE GoesOn(u, In(u, y.self))
    <3>1. In(u, y.self) = InsertOp(k, v, C[ny])
      BY <1>11, <2>7, <2>10
    <3>2. OpOK(InsertOp(k, v, C[ny]), M, C, g)
      BY <1>4, <2>8, <2>10, InsertOpOK
    <3> QED BY <2>8, <2>9, <2>12, <3>1, <3>2, GoesOnKeeps
  <2>13. CASE GoesOn(u, In(u, B[nx].self))
    <3>1. In(u, B[nx].self) = InsertOp(k, v, C[nx])
      BY <1>10, <1>11, <1>15, <2>10
    <3>2. OpOK(InsertOp(k, v, C[nx]), M, C, g)
      BY <1>4, <2>8, <2>10, InsertOpOK
    <3> QED BY <2>8, <2>9, <2>13, <3>1, <3>2, GoesOnKeeps
  <2> QED BY <1>7, <1>12, <1>13, <1>15, <2>11, <2>12, <2>13, Zenon
<1> QED BY <1>7, <1>12, <1>13, <1>14, <1>15

\* A value that does not fit leaves the current block behind.
LEMMA CurrentLeftIs ==
  ASSUME NEW B, NEW h, NEW fl, Working(M, B, h, fl), NEW v \in Values, Size[v] <= BlockSpace
  PROVE  \E e : Is(M, CurrentLeft(v), e, e, B) /\ Good(M, e, B, h, fl)
<1>1. /\ Good(M, db, B, h, fl) /\ Is(M, Begin, db, db, B) /\ file.blocks = B /\ B \in Seq(Blocks)
  BY WorkingTypes
<1>2. CASE db.current # 0 /\ ~FitsCurrent(v)
  <2>1. B[db.current].last # 0
    <3>1. IsValue(B, db.current)
      BY <1>1, <1>2 DEF Good, RefsOK
    <3>2. B[db.current].last \in Nat
      BY <1>1, <3>1, ValueShape DEF IsValue
    <3>3. Size[v] \in Nat /\ BlockSpace \in Nat
      BY SetupAssumption
    <3>4. ~(B[db.current].last + Size[v] <= BlockSpace)
      BY <1>1, <1>2 DEF FitsCurrent
    <3>5. ASSUME B[db.current].last = 0 PROVE FALSE
      BY ONLY <3>3, <3>4, <3>5, Size[v] <= BlockSpace
    <3> QED BY <3>5
  <2>2. CurrentLeft(v) = head_flush(WithDb(Begin, [db EXCEPT !.current = 0]))
    BY <1>2 DEF CurrentLeft
  <2>3. PICK e : e = [db EXCEPT !.current = 0]
    OBVIOUS
  <2>4. Is(M, head_flush(WithDb(Begin, e)), e, e, B) /\ Good(M, e, B, h, fl)
    BY <1>1, <2>1, <2>3, CurrentGiven
  <2> QED BY <2>2, <2>3, <2>4
<1>3. CASE ~(db.current # 0 /\ ~FitsCurrent(v))
  <2>1. CurrentLeft(v) = Begin
    BY <1>3 DEF CurrentLeft
  <2> QED BY <1>1, <2>1
<1> QED BY <1>2, <1>3

\* The value, the key and the head are written, to a new value block if need be.
LEMMA StoredInNew ==
  ASSUME NEW m \in Nat, NEW s, NEW d, NEW B, NEW h, NEW fl, Good(m, d, B, h, fl), Is(m, s, d, d, B), d.current = 0,
         NEW n \in Nat, Live(B, n), B[n].leaf, Len(B[n].ents) < m, NEW p \in 1 .. Len(B[n].ents) + 1,
         NEW k \in Keys, NEW v \in Values
  PROVE  Ends(m, Stored(node_create(s, NewValueBlock(NextBlock(s))), B[n], p, k, v), B, fl, {})
<1> DEFINE b == NewValueBlock(NextBlock(s))
           t == node_create(s, b)
<1>1. PICK d2, B2, h2, fl2 : Created(m, B, h, fl, t, b, NextBlock(s), {}, d2, B2, h2, fl2)
  BY CreateValue
<1>2. b.self = NextBlock(s)
  BY DEF NewValueBlock, ValueBlock
<1> HIDE DEF t, b
<1>3. /\ Is(m, t, d2, d2, B2) /\ Good(m, d2, B2, h2, fl2) /\ d2.current = NextBlock(s)
      /\ NextBlock(s) \in 1 .. Len(B2) /\ Spare(B2, fl2) \subseteq Spare(B, fl) \cup {}
  BY <1>1, <1>2 DEF Created
<1>4. Len(B) \in Nat /\ Len(B2) \in Nat
  BY <1>3, GoodTypes
<1>5. n \in 1 .. Len(B) /\ B[n].kind # "free"
  BY DEF Live, IsKey
<1>6. n \in 1 .. Len(B2) /\ B2[n] = B[n]
  BY <1>1, <1>4, <1>5, CreatedKeeps
<1>7. Live(B2, n)
  BY <1>6 DEF Live, IsKey
<1>8. d2.current # 0
  BY <1>3, <1>4
<1>9. Ends(m, Stored(t, B2[n], p, k, v), B2, fl2, {})
  BY <1>3, <1>6, <1>7, <1>8, Stores
<1>10. Ends(m, Stored(t, B[n], p, k, v), B2, fl2, {})
  BY <1>6, <1>9
<1>11. PICK e, C, g, l : /\ Is(m, Stored(t, B[n], p, k, v), e, e, C) /\ Good(m, e, C, g, l)
                         /\ Spare(C, l) \subseteq Spare(B2, fl2) \cup {}
  BY <1>10 DEF Ends
<1>12. Spare(C, l) \subseteq Spare(B, fl) \cup {}
  BY <1>3, <1>11
<1>13. Ends(m, Stored(t, B[n], p, k, v), B, fl, {})
  BY <1>11, <1>12 DEF Ends
<1> QED BY <1>13 DEF t, b

\* The turn of db_insert at a leaf.
LEMMA InsertIntoLeafKeeps ==
  ASSUME DatabaseGood, ~damaged, InsertIntoLeaf
  PROVE  DatabaseGood'
<1>1. op.pc = "insert" /\ op # Idle /\ op.node.leaf
  <2>1. op.pc = "insert" /\ op.node.leaf
    BY DEF InsertIntoLeaf
  <2>2. Idle.pc = "idle"
    BY DEF Idle
  <2> QED BY <2>1, <2>2
<1>2. PICK B, h, fl : Working(M, B, h, fl) /\ OpOK(op, M, B, h)
  BY <1>1, WorkingNow
<1>3. PICK k, v, n : InsertsAt(op, M, B, k, v, n)
  BY <1>1, <1>2, InsertingOp
<1>4. /\ k \in Keys /\ v \in Values /\ n \in Nat /\ Live(B, n) /\ Len(B[n].ents) < M - 1 /\ Size[v] <= BlockSpace
      /\ op.key = k /\ op.val = v /\ op.node = B[n] /\ B[n].leaf
  BY <1>1, <1>3 DEF InsertsAt
<1>5. /\ M \in Nat /\ M >= 4 /\ Len(B) \in Nat /\ Spare(B, fl) \subseteq spilled
  BY <1>2, WorkingTypes
<1>6. B[n].ents \in Seq(Ent) /\ Len(B[n].ents) \in Nat
  BY <1>2, <1>4, LiveTypes
<1> DEFINE i == key_binary_search(B[n], k)
           s == CurrentLeft(v)
           t == node_create(s, NewValueBlock(NextBlock(s)))
<1>7. \/ i >= 0 /\ Returns(Begin, 0)
      \/ i < 0 /\ s.db.current # 0 /\ Returns(Stored(s, B[n], -i, k, v), 1)
      \/ i < 0 /\ s.db.current = 0 /\ (Fails(s, {}) \/ Returns(Stored(t, B[n], -i, k, v), 1))
  BY <1>4 DEF InsertIntoLeaf
<1>8. i < 0 => -i \in 1 .. Len(B[n].ents) + 1
  BY <1>4, <1>6, SearchRange
<1>9. PICK e : Is(M, s, e, e, B) /\ Good(M, e, B, h, fl)
  BY <1>2, <1>4, CurrentLeftIs
<1>10. s.db = e
  BY <1>9 DEF Is
<1> HIDE DEF i, s
<1>11. Len(B[n].ents) < M
  BY <1>4, <1>5, <1>6
<1>12. CASE i >= 0 /\ Returns(Begin, 0)
  BY <1>2, <1>12, NothingWritten
<1>13. CASE i < 0 /\ s.db.current # 0 /\ Returns(Stored(s, B[n], -i, k, v), 1)
  <2>1. Ends(M, Stored(s, B[n], -i, k, v), B, fl, {})
    BY <1>4, <1>5, <1>8, <1>9, <1>10, <1>11, <1>13, Stores
  <2> QED BY <1>5, <1>13, <2>1, ReturnsKeeps
<1>14. CASE i < 0 /\ s.db.current = 0 /\ Fails(s, {})
  <2>1. Spare(B, fl) \subseteq spilled \cup {}
    BY <1>5
  <2> QED BY <1>9, <1>14, <2>1, FailsKeeps
<1>15. CASE i < 0 /\ s.db.current = 0 /\ Returns(Stored(t, B[n], -i, k, v), 1)
  <2>1. Ends(M, Stored(t, B[n], -i, k, v), B, fl, {})
    BY <1>4, <1>5, <1>8, <1>9, <1>10, <1>11, <1>15, StoredInNew
  <2> HIDE DEF t
  <2> QED BY <1>5, <1>15, <2>1, ReturnsKeeps
<1> QED BY <1>7, <1>12, <1>13, <1>14, <1>15

\* The arguments and local variables of a deletion, and the block in hand.
DeletesAt(o, B, h, k, n, flag, b, q, p) ==
  /\ k \in Keys /\ n \in Nat /\ Live(B, n) /\ (n = Root \/ Len(B[n].ents) >= 2)
  /\ flag \in {"none", "less", "more"} /\ (flag = "none" \/ (b = B[q] /\ Upper(B, h, n, q, p)))
  /\ o.key = k /\ o.node = B[n] /\ o.flag = flag /\ o.match = b /\ o.pos = p
  /\ \A x : [o EXCEPT !.node = x] = DeleteOp(k, x, flag, b, p)

LEMMA DeletingOp ==
  ASSUME NEW o, NEW m, NEW B, NEW h, OpOK(o, m, B, h), o.pc = "delete"
  PROVE  \E k, n, flag, b, q, p : DeletesAt(o, B, h, k, n, flag, b, q, p)
<1>1. Deleting(o, B, h)
  BY DEF OpOK, Idle, Inserting, InsertOp
<1>2. PICK k \in Keys, n \in Nat, flag \in {"none", "less", "more"} : \E b, q, p :
        /\ o = DeleteOp(k, B[n], flag, b, p) /\ Live(B, n) /\ (n = Root \/ Len(B[n].ents) >= 2)
        /\ flag = "none" \/ (b = B[q] /\ Upper(B, h, n, q, p))
  BY <1>1 DEF Deleting
<1>3. PICK b, q, p :
        /\ o = DeleteOp(k, B[n], flag, b, p) /\ Live(B, n) /\ (n = Root \/ Len(B[n].ents) >= 2)
        /\ flag = "none" \/ (b = B[q] /\ Upper(B, h, n, q, p))
  BY <1>2
<1>4. /\ o.key = k /\ o.node = B[n] /\ o.flag = flag /\ o.match = b /\ o.pos = p
      /\ \A x : [o EXCEPT !.node = x] = DeleteOp(k, x, flag, b, p)
  BY <1>3 DEF DeleteOp
<1>5. DeletesAt(o, B, h, k, n, flag, b, q, p)
  BY <1>2, <1>3, <1>4 DEF DeletesAt
<1> QED BY <1>5

LEMMA DeleteOpOK ==
  ASSUME NEW m, NEW B, NEW h, NEW k \in Keys, NEW n \in Nat, Live(B, n), n = Root \/ Len(B[n].ents) >= 2,
         NEW flag \in {"none", "less", "more"}, NEW b, NEW q, NEW p,
         flag = "none" \/ (b = B[q] /\ Upper(B, h, n, q, p))
  PROVE  OpOK(DeleteOp(k, B[n], flag, b, p), m, B, h)
BY DEF OpOK, Deleting

\* A call of db_delete.
LEMMA DeleteKeeps ==
  ASSUME DatabaseGood, ~damaged, NEW k \in Keys, db_delete(k)
  PROVE  DatabaseGood'
<1>1. db.open /\ GoesOn(Begin, DeleteOp(k, file.blocks[Root], "none", file.blocks[Root], 0))
  BY DEF db_delete, Starts
<1>2. PICK B, h, fl : Working(M, B, h, fl)
  BY <1>1, WorkingNow
<1>3. /\ file.blocks = B /\ Root \in Nat /\ Live(B, Root) /\ Good(M, db, B, h, fl) /\ Is(M, Begin, db, db, B)
      /\ Spare(B, fl) \subseteq spilled
  BY <1>2, WorkingTypes
<1>4. OpOK(DeleteOp(k, B[Root], "none", B[Root], 0), M, B, h)
  BY <1>3, DeleteOpOK
<1> QED BY <1>1, <1>3, <1>4, GoesOnKeeps

\* Where the loop of db_delete looks.
LEMMA DeleteIndexIs ==
  ASSUME NEW B, NEW h, NEW k, NEW n, NEW flag, NEW b, NEW q, NEW p, DeletesAt(op, B, h, k, n, flag, b, q, p),
         B[n].ents \in Seq(Ent)
  PROVE  /\ DeleteIndex \in Int
         /\ DeleteIndex >= 0 => flag = "none" /\ DeleteIndex + 1 \in 1 .. Len(B[n].ents)
         /\ DeleteIndex < 0 => -DeleteIndex \in 1 .. Len(B[n].ents) + 1
         /\ flag = "none" => DeleteIndex = key_binary_search(B[n], k)
<1>1. op.flag = flag /\ op.node = B[n] /\ op.key = k /\ k \in Keys /\ flag \in {"none", "less", "more"}
  BY DEF DeletesAt
<1>2. Len(B[n].ents) \in Nat
  OBVIOUS
<1>3. CASE flag = "less"
  <2>1. DeleteIndex = -1
    BY <1>1, <1>3 DEF DeleteIndex
  <2> QED BY <1>2, <1>3, <2>1
<1>4. CASE flag = "more"
  <2>1. DeleteIndex = -Len(B[n].ents) - 1
    BY <1>1, <1>4 DEF DeleteIndex
  <2>2. DeleteIndex \in Int /\ DeleteIndex < 0 /\ -DeleteIndex \in 1 .. Len(B[n].ents) + 1
    BY <1>2, <2>1
  <2> QED BY <1>4, <2>2
<1>5. CASE flag = "none"
  <2>1. DeleteIndex = key_binary_search(B[n], k)
    BY <1>1, <1>5 DEF DeleteIndex
  <2> QED BY <1>1, <1>5, <2>1, SearchRange
<1> QED BY <1>1, <1>3, <1>4, <1>5

\* A turn of db_delete that has led to another block.
LEMMA SteppedKeeps ==
  ASSUME DatabaseGood, NEW B, NEW h, NEW fl, Working(M, B, h, fl),
         NEW k, NEW n, NEW flag, NEW b, NEW q, NEW p, DeletesAt(op, B, h, k, n, flag, b, q, p),
         NEW t, NEW j, Stepped(M, t, B, h, fl, n, j), GoesOn(t, [op EXCEPT !.node = t.file.blocks[j]])
  PROVE  DatabaseGood'
<1>1. PICK e, C, g, l : Reached(M, t, B, h, fl, n, j, e, C, g, l)
  BY DEF Stepped
<1>2. /\ Is(M, t, e, e, C) /\ Good(M, e, C, g, l) /\ Spare(C, l) \subseteq Spare(B, fl)
      /\ j \in Nat /\ Live(C, j) /\ (j = Root \/ Len(C[j].ents) >= 2)
      /\ Len(C) = Len(B) /\ \A i \in 1 .. Len(B) : h[i] > h[n] => C[i] = B[i] /\ g[i] = h[i]
      /\ n # Root => g[j] < h[n]
  BY <1>1 DEF Reached
<1>3. /\ k \in Keys /\ n \in Nat /\ Live(B, n) /\ flag \in {"none", "less", "more"}
      /\ flag = "none" \/ (b = B[q] /\ Upper(B, h, n, q, p))
      /\ \A x : [op EXCEPT !.node = x] = DeleteOp(k, x, flag, b, p)
  BY DEF DeletesAt
<1>4. Spare(C, l) \subseteq spilled
  BY <1>2, WorkingTypes
<1>5. t.file.blocks = C
  BY <1>2 DEF Is, FileOf
<1>6. [op EXCEPT !.node = t.file.blocks[j]] = DeleteOp(k, C[j], flag, b, p)
  BY <1>3, <1>5
<1>7. flag = "none" \/ (b = C[q] /\ Upper(C, g, j, q, p))
  <2> SUFFICES ASSUME flag # "none" PROVE b = C[q] /\ Upper(C, g, j, q, p)
    OBVIOUS
  <2>1. b = B[q] /\ q \in Nat /\ Live(B, q) /\ ~B[q].leaf /\ p \in 1 .. Len(B[q].ents) /\ h[n] < h[q]
    BY <1>3 DEF Upper
  <2>2. /\ q \in 1 .. Len(B) /\ h[q] \in Nat /\ h[q] <= h[Root] /\ h[n] \in Nat /\ h[Root] \in Nat
    BY <1>3, <2>1, LiveTypes, WorkingTypes
  <2>3. h[q] > h[n]
    BY ONLY <2>1, <2>2
  <2>4. C[q] = B[q] /\ g[q] = h[q]
    BY <1>2, <2>2, <2>3
  <2>5. n # Root
    BY <2>2, <2>3
  <2>6. g[j] < h[n] /\ g[j] \in Nat
    <3>1. g \in [1 .. Len(C) -> Nat]
      BY <1>2, GoodTypes
    <3>2. j \in 1 .. Len(C)
      BY <1>2 DEF Live, IsKey
    <3> QED BY <1>2, <2>5, <3>1, <3>2
  <2>7. g[j] < g[q]
    BY ONLY <2>1, <2>2, <2>4, <2>6
  <2>8. Live(C, q)
    BY <1>2, <2>1, <2>2, <2>4 DEF Live, IsKey
  <2> QED BY <2>1, <2>4, <2>7, <2>8 DEF Upper
<1>8. OpOK(DeleteOp(k, C[j], flag, b, p), M, C, g)
  BY <1>2, <1>3, <1>7, DeleteOpOK
<1> QED BY <1>2, <1>4, <1>6, <1>8, GoesOnKeeps

\* A turn of db_delete at an inner block that holds the key.
LEMMA DeleteMatchKeeps ==
  ASSUME DatabaseGood, ~damaged, DeleteMatch
  PROVE  DatabaseGood'
<1>1. op.pc = "delete" /\ op # Idle /\ ~op.node.leaf
  <2>1. op.pc = "delete" /\ ~op.node.leaf
    BY DEF DeleteMatch
  <2>2. Idle.pc = "idle"
    BY DEF Idle
  <2> QED BY <2>1, <2>2
<1>2. PICK B, h, fl : Working(M, B, h, fl) /\ OpOK(op, M, B, h)
  BY <1>1, WorkingNow
<1>3. PICK k, n, flag, b, q, r : DeletesAt(op, B, h, k, n, flag, b, q, r)
  BY <1>1, <1>2, DeletingOp
<1>4. /\ k \in Keys /\ n \in Nat /\ Live(B, n) /\ (n = Root \/ Len(B[n].ents) >= 2)
      /\ op.key = k /\ op.node = B[n] /\ ~B[n].leaf
  BY <1>1, <1>3 DEF DeletesAt
<1>5. /\ M \in Nat /\ M >= 4 /\ Len(B) \in Nat /\ Placed(B) /\ TreeOK(M, B, h) /\ Good(M, db, B, h, fl)
      /\ Is(M, Begin, db, db, B) /\ Spare(B, fl) \subseteq spilled /\ file.blocks = B
  BY <1>2, WorkingTypes
<1>6. B[n].ents \in Seq(Ent) /\ Len(B[n].ents) \in Nat /\ Len(B[n].kids) = Len(B[n].ents) + 1 /\ h[n] \in Nat
  BY <1>2, <1>4, LiveTypes
<1> DEFINE p == DeleteIndex + 1
           nx == B[n].kids[p]
           ny == B[n].kids[p + 1]
           u == btree_merge(Begin, B[n], p, B[nx], B[ny])
<1>7. /\ DeleteIndex >= 0
      /\ \/ Enough(B[nx]) /\ GoesOn(Begin, DeleteOp(k, B[nx], "more", B[n], p))
         \/ ~Enough(B[nx]) /\ Enough(B[ny]) /\ GoesOn(Begin, DeleteOp(k, B[ny], "less", B[n], p))
         \/ ~Enough(B[nx]) /\ ~Enough(B[ny]) /\ GoesOn(u, [op EXCEPT !.node = u.file.blocks[MergedInto(B[n], B[nx])]])
  BY <1>4, <1>5 DEF DeleteMatch
<1>8. p \in 1 .. Len(B[n].ents)
  BY <1>3, <1>6, <1>7, DeleteIndexIs
<1> HIDE DEF p
<1>9. p \in 1 .. Len(B[n].kids) /\ p + 1 \in 1 .. Len(B[n].kids)
  BY <1>6, <1>8
<1>10w. KidIs(B, h, n, p)
  BY <1>4, <1>5, <1>9, KidFacts
<1>10z. KidIs(B, h, n, p + 1)
  BY <1>4, <1>5, <1>9, KidFacts
<1>10. /\ nx \in 1 .. Len(B) /\ Live(B, nx) /\ h[nx] = h[n] - 1
       /\ ny \in 1 .. Len(B) /\ Live(B, ny) /\ h[ny] = h[n] - 1
  BY <1>4, <1>5, <1>9, <1>10w, <1>10z DEF KidIs
<1> HIDE DEF nx, ny, u
<1>11. nx \in Nat /\ ny \in Nat /\ h[nx] < h[n] /\ h[ny] < h[n]
  BY <1>5, <1>6, <1>10
<1>12. Len(B[nx].ents) \in Nat /\ Len(B[ny].ents) \in Nat
  BY <1>2, <1>10, <1>11, LiveTypes
<1>13. /\ Enough(B[nx]) => Len(B[nx].ents) >= 2
       /\ ~Enough(B[nx]) => Len(B[nx].ents) <= ceil(M)
       /\ Enough(B[ny]) => Len(B[ny].ents) >= 2
       /\ ~Enough(B[ny]) => Len(B[ny].ents) <= ceil(M)
  BY <1>5, <1>12, EnoughFacts
<1>14. CASE Enough(B[nx]) /\ GoesOn(Begin, DeleteOp(k, B[nx], "more", B[n], p))
  <2>1. Upper(B, h, nx, n, p)
    BY <1>4, <1>8, <1>11 DEF Upper
  <2>2. OpOK(DeleteOp(k, B[nx], "more", B[n], p), M, B, h)
    BY <1>4, <1>10, <1>11, <1>13, <1>14, <2>1, DeleteOpOK
  <2> QED BY <1>5, <1>14, <2>2, GoesOnKeeps
<1>15. CASE Enough(B[ny]) /\ GoesOn(Begin, DeleteOp(k, B[ny], "less", B[n], p))
  <2>1. Upper(B, h, ny, n, p)
    BY <1>4, <1>8, <1>11 DEF Upper
  <2>2. OpOK(DeleteOp(k, B[ny], "less", B[n], p), M, B, h)
    BY <1>4, <1>10, <1>11, <1>13, <1>15, <2>1, DeleteOpOK
  <2> QED BY <1>5, <1>15, <2>2, GoesOnKeeps
<1>16. CASE /\ ~Enough(B[nx]) /\ ~Enough(B[ny])
            /\ GoesOn(u, [op EXCEPT !.node = u.file.blocks[MergedInto(B[n], B[nx])]])
  <2>1. Mergeable(M, h, B, n, p, nx, ny)
    BY <1>4, <1>8, <1>13, <1>16 DEF Mergeable, nx, ny
  <2>2. Stepped(M, u, B, h, fl, n, MergedInto(B[n], B[nx]))
    BY <1>4, <1>5, <2>1, MergeSteps DEF u
  <2> QED BY <1>2, <1>3, <1>16, <2>2, SteppedKeeps
<1> QED BY <1>7, <1>14, <1>15, <1>16

\* A turn of db_delete that gives the next child enough entries.
LEMMA DeleteInChildKeeps ==
  ASSUME DatabaseGood, ~damaged, DeleteInChild
  PROVE  DatabaseGood'
<1>1. op.pc = "delete" /\ op # Idle /\ ~op.node.leaf
  <2>1. op.pc = "delete" /\ ~op.node.leaf
    BY DEF DeleteInChild
  <2>2. Idle.pc = "idle"
    BY DEF Idle
  <2> QED BY <2>1, <2>2
<1>2. PICK B, h, fl : Working(M, B, h, fl) /\ OpOK(op, M, B, h)
  BY <1>1, WorkingNow
<1>3. PICK k, n, flag, b, r, p : DeletesAt(op, B, h, k, n, flag, b, r, p)
  BY <1>1, <1>2, DeletingOp
<1>4. n \in Nat /\ Live(B, n) /\ (n = Root \/ Len(B[n].ents) >= 2) /\ op.node = B[n] /\ ~B[n].leaf
  BY <1>1, <1>3 DEF DeletesAt
<1>5. /\ M \in Nat /\ M >= 4 /\ Len(B) \in Nat /\ Placed(B) /\ TreeOK(M, B, h) /\ Good(M, db, B, h, fl)
      /\ Is(M, Begin, db, db, B) /\ file.blocks = B
  BY <1>2, WorkingTypes
<1>6. /\ B[n].ents \in Seq(Ent) /\ Len(B[n].ents) \in Nat /\ Len(B[n].kids) = Len(B[n].ents) + 1 /\ h[n] \in Nat
  BY <1>2, <1>4, LiveTypes
<1>7. Len(B[n].ents) > 0
  <2>1. NodeAt(M, h, Len(B), B[n], n, B[n].leaf, B[n].ents, B[n].kids)
    BY <1>4, <1>5, NodeOf
  <2> QED BY <1>4, <2>1 DEF NodeAt
<1> DEFINE q == -DeleteIndex
           nx == B[n].kids[q]
           ny == B[n].kids[q + 1]
           nw == B[n].kids[q - 1]
           right == q <= Len(B[n].ents)
           ByRight == right /\ Enough(B[ny])
           ByLeft == ~ByRight /\ q > 1 /\ Enough(B[nw])
           In(s, j) == [op EXCEPT !.node = s.file.blocks[j]]
           fromRight == BorrowRight(Begin, B[n], q, B[nx], B[ny])
           fromLeft == BorrowLeft(Begin, B[n], q, B[nx], B[nw])
           withRight == btree_merge(Begin, B[n], q, B[nx], B[ny])
           withLeft == btree_merge(Begin, B[n], q - 1, B[nw], B[nx])
<1>8. /\ DeleteIndex < 0
      /\ \/ Enough(B[nx]) /\ GoesOn(Begin, In(Begin, B[nx].self))
         \/ ~Enough(B[nx]) /\ ByRight /\ GoesOn(fromRight, In(fromRight, B[nx].self))
         \/ ~Enough(B[nx]) /\ ByLeft /\ GoesOn(fromLeft, In(fromLeft, B[nx].self))
         \/ ~Enough(B[nx]) /\ ~ByRight /\ ~ByLeft /\ right /\ GoesOn(withRight, In(withRight, MergedInto(B[n], B[nx])))
         \/ ~Enough(B[nx]) /\ ~ByRight /\ ~ByLeft /\ ~right /\ GoesOn(withLeft, In(withLeft, MergedInto(B[n], B[nw])))
  BY <1>4, <1>5 DEF DeleteInChild
<1> HIDE DEF ByRight, ByLeft, fromRight, fromLeft, withRight, withLeft
<1>9. q \in 1 .. Len(B[n].kids) /\ q \in Nat
  <2>1. DeleteIndex < 0 => -DeleteIndex \in 1 .. Len(B[n].ents) + 1
    BY <1>3, <1>6, DeleteIndexIs
  <2>2. DeleteIndex < 0
    BY <1>8
  <2>3. q \in 1 .. Len(B[n].ents) + 1
    BY <2>1, <2>2
  <2> HIDE DEF q
  <2> QED BY <1>6, <2>3
<1> HIDE DEF q
<1>10w. KidIs(B, h, n, q)
  BY <1>4, <1>5, <1>9, KidFacts
<1>10. nx \in 1 .. Len(B) /\ Live(B, nx) /\ h[nx] = h[n] - 1
  BY <1>4, <1>5, <1>9, <1>10w DEF KidIs
<1>11. nx \in Nat /\ h[nx] < h[n]
  BY <1>5, <1>6, <1>10
<1>12. Len(B[nx].ents) \in Nat /\ B[nx].self = nx
  <2> HIDE DEF nx
  <2> QED BY <1>2, <1>10, <1>11, LiveTypes
<1>13. /\ Enough(B[nx]) => Len(B[nx].ents) >= 2
       /\ ~Enough(B[nx]) => Len(B[nx].ents) <= ceil(M)
  <2> HIDE DEF nx
  <2> QED BY <1>5, <1>12, EnoughFacts
<1>14. right => q \in 1 .. Len(B[n].ents) /\ q + 1 \in 1 .. Len(B[n].kids) /\ q # q + 1
  BY <1>6, <1>9
<1>15. q > 1 => /\ q \in 2 .. Len(B[n].kids) /\ q - 1 \in 1 .. Len(B[n].kids) /\ q # q - 1
                /\ q - 1 \in 1 .. Len(B[n].ents) /\ (q - 1) + 1 = q
  BY <1>6, <1>9
<1>16. ~right => q > 1
  BY <1>6, <1>7, <1>9
<1> HIDE DEF right
<1>17. CASE Enough(B[nx]) /\ GoesOn(Begin, In(Begin, B[nx].self))
  <2>1. Stepped(M, Begin, B, h, fl, n, nx)
    <3> HIDE DEF nx
    <3> QED BY <1>5, <1>10, <1>11, <1>13, <1>17, PlainSteps
  <2>2. GoesOn(Begin, [op EXCEPT !.node = Begin.file.blocks[nx]])
    BY <1>12, <1>17
  <2> HIDE DEF nx, In
  <2> QED BY <1>2, <1>3, <2>1, <2>2, SteppedKeeps
<1>18. CASE ~Enough(B[nx]) /\ ByRight /\ GoesOn(fromRight, In(fromRight, B[nx].self))
  <2>1. right /\ Enough(B[ny])
    BY <1>18 DEF ByRight
  <2>2. Siblings(M, h, B, n, nx, ny)
    BY <1>4, <1>5, <1>9, <1>14, <2>1, SiblingsOf
  <2>3. \E C : MovedDone(M, fromRight, db, B, h, fl, n, nx, ny, C)
    BY <1>4, <1>5, <1>14, <1>18, <2>1, BorrowFromRight DEF fromRight
  <2>4. GoesOn(fromRight, [op EXCEPT !.node = fromRight.file.blocks[nx]])
    BY <1>12, <1>18
  <2> HIDE DEF nx, ny, In
  <2>5. Stepped(M, fromRight, B, h, fl, n, nx)
    BY <1>5, <2>2, <2>3, BorrowSteps
  <2> QED BY <1>2, <1>3, <2>4, <2>5, SteppedKeeps
<1>19. CASE ~Enough(B[nx]) /\ ByLeft /\ GoesOn(fromLeft, In(fromLeft, B[nx].self))
  <2>1. q > 1 /\ Enough(B[nw])
    BY <1>19 DEF ByLeft
  <2>2. Siblings(M, h, B, n, nx, nw)
    BY <1>4, <1>5, <1>9, <1>15, <2>1, SiblingsOf
  <2>3. \E C : MovedDone(M, fromLeft, db, B, h, fl, n, nx, nw, C)
    BY <1>4, <1>5, <1>15, <1>19, <2>1, BorrowFromLeft DEF fromLeft
  <2>4. GoesOn(fromLeft, [op EXCEPT !.node = fromLeft.file.blocks[nx]])
    BY <1>12, <1>19
  <2> HIDE DEF nx, nw, In
  <2>5. Stepped(M, fromLeft, B, h, fl, n, nx)
    BY <1>5, <2>2, <2>3, BorrowSteps
  <2> QED BY <1>2, <1>3, <2>4, <2>5, SteppedKeeps
<1>20. CASE ~Enough(B[nx]) /\ ~ByRight /\ right /\ GoesOn(withRight, In(withRight, MergedInto(B[n], B[nx])))
  <2>1. ~Enough(B[ny])
    BY <1>20 DEF ByRight
  <2>2w. KidIs(B, h, n, q + 1)
    BY <1>4, <1>5, <1>14, <1>20, KidFacts
  <2>2. ny \in 1 .. Len(B) /\ Live(B, ny)
    BY <1>4, <1>5, <1>14, <1>20, <2>2w DEF KidIs
  <2>3. Len(B[ny].ents) <= ceil(M)
    <3> HIDE DEF ny
    <3>1. ny \in Nat
      BY <1>5, <2>2
    <3>2. Len(B[ny].ents) \in Nat
      BY <1>2, <2>2, <3>1, LiveTypes
    <3> QED BY <1>5, <2>1, <3>2, EnoughFacts
  <2>4. Mergeable(M, h, B, n, q, nx, ny)
    BY <1>4, <1>13, <1>14, <1>20, <2>3 DEF Mergeable
  <2> HIDE DEF nx, ny
  <2>5. Stepped(M, withRight, B, h, fl, n, MergedInto(B[n], B[nx]))
    BY <1>4, <1>5, <2>4, MergeSteps DEF withRight
  <2>6. GoesOn(withRight, [op EXCEPT !.node = withRight.file.blocks[MergedInto(B[n], B[nx])]])
    BY <1>20
  <2> QED BY <1>2, <1>3, <2>5, <2>6, SteppedKeeps
<1>21. CASE ~Enough(B[nx]) /\ ~ByRight /\ ~ByLeft /\ ~right /\ GoesOn(withLeft, In(withLeft, MergedInto(B[n], B[nw])))
  <2>1. q > 1 /\ ~Enough(B[nw])
    BY <1>16, <1>21 DEF ByLeft
  <2>2w. KidIs(B, h, n, q - 1)
    BY <1>4, <1>5, <1>15, <2>1, KidFacts
  <2>2. nw \in 1 .. Len(B) /\ Live(B, nw)
    BY <1>4, <1>5, <1>15, <2>1, <2>2w DEF KidIs
  <2>3. Len(B[nw].ents) <= ceil(M)
    <3> HIDE DEF nw
    <3>1. nw \in Nat
      BY <1>5, <2>2
    <3>2. Len(B[nw].ents) \in Nat
      BY <1>2, <2>2, <3>1, LiveTypes
    <3> QED BY <1>5, <2>1, <3>2, EnoughFacts
  <2>4. Mergeable(M, h, B, n, q - 1, nw, nx)
    BY <1>4, <1>13, <1>15, <1>21, <2>1, <2>3 DEF Mergeable
  <2> HIDE DEF nx, nw
  <2>5. Stepped(M, withLeft, B, h, fl, n, MergedInto(B[n], B[nw]))
    BY <1>4, <1>5, <2>4, MergeSteps DEF withLeft
  <2>6. GoesOn(withLeft, [op EXCEPT !.node = withLeft.file.blocks[MergedInto(B[n], B[nw])]])
    BY <1>21
  <2> QED BY <1>2, <1>3, <2>5, <2>6, SteppedKeeps
<1> HIDE DEF nx, nw, In
<1> QED BY <1>8, <1>17, <1>18, <1>19, <1>20, <1>21

\* Below the block in which the key is replaced, a leaf gives up its first or
\* its last entry.
LEMMA ReplacedKeeps ==
  ASSUME DatabaseGood, NEW B, NEW h, NEW fl, Working(M, B, h, fl),
         NEW n \in Nat, Live(B, n), B[n].leaf, n = Root \/ Len(B[n].ents) >= 2, NEW q, NEW p, Upper(B, h, n, q, p),
         NEW E, NEW K, NEW u, NEW c,
         (E = Tail(B[n].ents) /\ K = Tail(B[n].kids) /\ u = Head(B[n].ents))
           \/ (E = Front(B[n].ents) /\ K = Front(B[n].kids) /\ u = Last(B[n].ents)),
         Returns(Replaced(B[q], p, u, Filled(B[n], E, K)), c)
  PROVE  DatabaseGood'
<1>1. /\ M \in Nat /\ Len(B) \in Nat /\ Placed(B) /\ TreeOK(M, B, h) /\ Good(M, db, B, h, fl)
      /\ Is(M, Begin, db, db, B) /\ Spare(B, fl) \subseteq spilled
  BY WorkingTypes
<1>2. q \in Nat /\ Live(B, q) /\ p \in 1 .. Len(B[q].ents) /\ h[n] < h[q]
  BY DEF Upper
<1>3. NodeAt(M, h, Len(B), B[n], n, B[n].leaf, B[n].ents, B[n].kids)
  BY <1>1, NodeOf
<1>4. /\ B[n].ents \in Seq(Ent) /\ B[n].kids \in Seq(Below(h, Len(B), h[n])) /\ Len(B[n].ents) \in Nat
      /\ Len(B[n].kids) = Len(B[n].ents) + 1 /\ h[n] \in Nat
  BY <1>3 DEF NodeAt
<1>5. q # n
  BY <1>2, <1>4
<1>6. Len(B[n].ents) > 0
  <2>1. h[q] <= h[Root] /\ h[q] \in Nat
    BY <1>2, LiveTypes
  <2>2. h[Root] \in Nat
    BY <1>1 DEF Placed, TreeOK, Root
  <2>3. n # Root
    BY ONLY <1>2, <1>4, <2>1, <2>2
  <2> QED BY <1>4, <2>3
<1>7. Len(B[n].kids) > 0
  BY <1>4
<1>8. PICK k : Grown(E, K, B[n].ents, B[n].kids, Below(h, Len(B), h[n]), u, k)
  <2>1. CASE E = Tail(B[n].ents) /\ K = Tail(B[n].kids) /\ u = Head(B[n].ents)
    BY <1>4, <1>6, <1>7, <2>1, GrownFromTail
  <2>2. CASE E = Front(B[n].ents) /\ K = Front(B[n].kids) /\ u = Last(B[n].ents)
    BY <1>4, <1>6, <1>7, <2>2, GrownFromFront
  <2> QED BY <2>1, <2>2
<1>9. Ends(M, ReleaseValue(node_flush(Put(Begin, Filled(B[q], [B[q].ents EXCEPT ![p] = u], B[q].kids), TRUE),
                                      Filled(B[n], E, K)), B[q].ents[p]), B, fl, {})
  BY <1>1, <1>2, <1>5, <1>8, DeleteReplaced
<1>10. Ends(M, Replaced(B[q], p, u, Filled(B[n], E, K)), B, fl, {})
  BY <1>9 DEF Replaced
<1> QED BY <1>1, <1>10, ReturnsKeeps

\* The turn of db_delete at a leaf.
LEMMA DeleteFromLeafKeeps ==
  ASSUME DatabaseGood, ~damaged, DeleteFromLeaf
  PROVE  DatabaseGood'
<1>1. op.pc = "delete" /\ op # Idle /\ op.node.leaf
  <2>1. op.pc = "delete" /\ op.node.leaf
    BY DEF DeleteFromLeaf
  <2>2. Idle.pc = "idle"
    BY DEF Idle
  <2> QED BY <2>1, <2>2
<1>2. PICK B, h, fl : Working(M, B, h, fl) /\ OpOK(op, M, B, h)
  BY <1>1, WorkingNow
<1>3. PICK k, n, flag, b, q, p : DeletesAt(op, B, h, k, n, flag, b, q, p)
  BY <1>1, <1>2, DeletingOp
<1>4. /\ k \in Keys /\ n \in Nat /\ Live(B, n) /\ (n = Root \/ Len(B[n].ents) >= 2) /\ B[n].leaf
      /\ op.key = k /\ op.node = B[n] /\ op.flag = flag /\ op.match = b /\ op.pos = p
      /\ flag = "none" \/ (b = B[q] /\ Upper(B, h, n, q, p))
  BY <1>1, <1>3 DEF DeletesAt
<1>5. /\ M \in Nat /\ Good(M, db, B, h, fl) /\ Is(M, Begin, db, db, B) /\ Spare(B, fl) \subseteq spilled
  BY <1>2, WorkingTypes
<1>6. B[n].ents \in Seq(Ent) /\ Len(B[n].ents) \in Nat
  BY <1>2, <1>4, LiveTypes
<1> DEFINE i == key_binary_search(B[n], k)
           first == Filled(B[n], Tail(B[n].ents), Tail(B[n].kids))
           last == Filled(B[n], Front(B[n].ents), Front(B[n].kids))
           rest == Filled(B[n], RemoveAt(B[n].ents, i + 1), RemoveAt(B[n].kids, i + 1))
<1>7. \/ flag = "less" /\ Returns(Replaced(b, p, Head(B[n].ents), first), 1)
      \/ flag = "more" /\ Returns(Replaced(b, p, Last(B[n].ents), last), 1)
      \/ flag = "none" /\ i < 0 /\ Returns(Begin, 0)
      \/ flag = "none" /\ i >= 0 /\ Returns(ReleaseValue(node_flush(Begin, rest), B[n].ents[i + 1]), 1)
  BY <1>4 DEF DeleteFromLeaf
<1>8. i >= 0 => i + 1 \in 1 .. Len(B[n].ents)
  BY <1>4, <1>6, SearchRange
<1> HIDE DEF i
<1>9. CASE flag = "less" /\ Returns(Replaced(b, p, Head(B[n].ents), first), 1)
  <2>1. b = B[q] /\ Upper(B, h, n, q, p)
    BY <1>4, <1>9
  <2>2. Returns(Replaced(B[q], p, Head(B[n].ents), first), 1)
    BY <1>9, <2>1
  <2> QED BY <1>2, <1>4, <2>1, <2>2, ReplacedKeeps
<1>10. CASE flag = "more" /\ Returns(Replaced(b, p, Last(B[n].ents), last), 1)
  <2>1. b = B[q] /\ Upper(B, h, n, q, p)
    BY <1>4, <1>10
  <2>2. Returns(Replaced(B[q], p, Last(B[n].ents), last), 1)
    BY <1>10, <2>1
  <2> QED BY <1>2, <1>4, <2>1, <2>2, ReplacedKeeps
<1>11. CASE Returns(Begin, 0)
  BY <1>2, <1>11, NothingWritten
<1>12. CASE i >= 0 /\ Returns(ReleaseValue(node_flush(Begin, rest), B[n].ents[i + 1]), 1)
  <2>1. i + 1 \in 1 .. Len(B[n].ents)
    BY <1>8, <1>12
  <2>2. PICK j : j = i + 1
    OBVIOUS
  <2>3. Ends(M, ReleaseValue(node_flush(Begin, Filled(B[n], RemoveAt(B[n].ents, j), RemoveAt(B[n].kids, j))),
                             B[n].ents[j]), B, fl, {})
    BY <1>4, <1>5, <2>1, <2>2, DeletePlain
  <2>4. Ends(M, ReleaseValue(node_flush(Begin, rest), B[n].ents[i + 1]), B, fl, {})
    BY <2>2, <2>3
  <2> QED BY <1>5, <1>12, <2>4, ReturnsKeeps
<1> QED BY <1>7, <1>9, <1>10, <1>11, <1>12

-----------------------------------------------------------------------------
(* The database that db_create makes, and the invariant.                   *)

NewRoot == NewKeyBlock(Root, TRUE)

LEMMA NewRootWeighs ==
  ASSUME NEW f \in [Blocks -> Nat]
  PROVE  NewRoot \in Blocks /\ <<NewRoot>> \in Seq(Blocks) /\ Weigh(<<NewRoot>>, f) = f[NewRoot]
<1>1. Root \in Nat /\ TRUE \in BOOLEAN
  BY DEF Root
<1>2. KeyFacts(NewRoot, Root, TRUE, <<>>, <<0>>)
  BY <1>1, NewKeyFacts DEF NewRoot
<1>3. NewRoot \in Blocks
  BY <1>2 DEF KeyFacts
<1>4. <<NewRoot>> \in Seq(Blocks) /\ Len(<<NewRoot>>) = 1 /\ <<NewRoot>>[1] = NewRoot
  BY <1>3
<1>5. f[NewRoot] \in Int
  BY <1>3
<1>6. [n \in 1 .. Len(<<NewRoot>>) |-> f[<<NewRoot>>[n]]] = <<f[NewRoot]>>
  BY <1>4
<1>7. Weigh(<<NewRoot>>, f) = SumOf(<<f[NewRoot]>>)
  BY <1>6 DEF Weigh
<1> QED BY <1>3, <1>4, <1>5, <1>7, SumOne

\* An empty database is good.
LEMMA NewGood ==
  ASSUME NEW m \in Nat
  PROVE  /\ NewFile = FileOf(NewHead, <<NewRoot>>) /\ Good(m, NewHead, <<NewRoot>>, <<0>>, <<>>)
         /\ Spare(<<NewRoot>>, <<>>) = {}
<1> DEFINE B == <<NewRoot>>
           h == <<0>>
<1>1. Root = 1 /\ Root \in Nat /\ TRUE \in BOOLEAN
  BY DEF Root
<1>2. KeyFacts(NewRoot, Root, TRUE, <<>>, <<0>>)
  BY <1>1, NewKeyFacts DEF NewRoot
<1>3. /\ NewRoot \in Blocks /\ NewRoot.self = Root /\ NewRoot.kind = "key" /\ NewRoot.leaf = TRUE
      /\ NewRoot.ents = <<>> /\ NewRoot.kids = <<0>>
  BY <1>2 DEF KeyFacts
<1> HIDE DEF NewRoot
<1>4. B \in Seq(Blocks) /\ Len(B) = 1 /\ B[1] = NewRoot /\ B[Root] = NewRoot
  BY <1>1, <1>3
<1>5. \A f \in [Blocks -> Nat] : Weigh(B, f) = f[NewRoot]
  BY NewRootWeighs
<1> HIDE DEF B
<1>6. \A n : n \in 1 .. Len(B) <=> n = 1
  BY <1>4
<1>7. (\A n : ~IsValue(B, n)) /\ (\A n : Live(B, n) <=> n = Root) /\ (\A n : IsKey(B, n) => n = Root)
  BY <1>1, <1>3, <1>4, <1>6 DEF IsValue, Live, IsKey
<1>8. NewHead \in Handles /\ NewHead.total = 0 /\ NewHead.keyBlocks = 1 /\ NewHead.valueBlocks = 0
      /\ NewHead.free = 0 /\ NewHead.current = 0
  BY DEF NewHead, Handles
<1>9. Placed(B)
  BY <1>1, <1>3, <1>4, <1>6 DEF Placed
<1>10. CountsOK(NewHead, B)
  <2>1. /\ WCount("keys") \in [Blocks -> Nat] /\ WCount("values") \in [Blocks -> Nat]
        /\ WCount("keyBlocks") \in [Blocks -> Nat] /\ WCount("valueBlocks") \in [Blocks -> Nat]
    BY CountTypes
  <2>2. /\ WCount("keys")[NewRoot] = 0 /\ WCount("values")[NewRoot] = 0
        /\ WCount("keyBlocks")[NewRoot] = 1 /\ WCount("valueBlocks")[NewRoot] = 0
    <3>1. Len(NewRoot.ents) = 0
      BY <1>3
    <3> QED BY <1>3, <3>1 DEF WCount, Counts
  <2> QED BY <1>5, <1>8, <2>1, <2>2 DEF CountsOK
<1>11. RefsOK(0, B)
  <2>1. \A P : Weigh(B, WEnts(P)) = 0
    <3> SUFFICES ASSUME NEW P PROVE Weigh(B, WEnts(P)) = 0
      OBVIOUS
    <3>1. WEnts(P) \in [Blocks -> Nat] /\ WEnts(P)[NewRoot] = Cnt(<<>>, P)
      BY <1>3, WeightTypes DEF WEnts, EntsOf
    <3> QED BY <1>5, <3>1, CntEmpty
  <2> QED BY <1>7, <2>1 DEF RefsOK
<1>12. TreeOK(m, B, h)
  <2>1. h \in [1 .. Len(B) -> Nat] /\ h[1] = 0
    BY <1>4
  <2>2. NodeOK(m, h, Len(B), B[Root])
    <3>1. Below(h, Len(B), 0) = {0} /\ <<0>> \in Seq({0}) /\ Len(<<0>>) = 1 /\ Len(<<>>) = 0
      BY DEF Below
    <3>2. h[Root] = 0 /\ h[NewRoot.self] = 0
      BY <1>1, <1>3, <2>1
    <3> HIDE DEF h
    <3>3. NewRoot.kids \in Seq(Below(h, Len(B), h[NewRoot.self]))
      BY <1>3, <3>1, <3>2
    <3>4. Len(NewRoot.kids) = Len(NewRoot.ents) + 1 /\ Len(NewRoot.ents) <= m
      BY <1>3, <3>1
    <3>5. NodeOK(m, h, Len(B), NewRoot)
      BY <1>3, <3>2, <3>3, <3>4 DEF NodeOK
    <3> QED BY <1>4, <3>5
  <2>3. ASSUME NEW c \in Nat \ {0} PROVE Weigh(B, WKids(c)) = 0
    <3>1. WKids(c) \in [Blocks -> Nat] /\ WKids(c)[NewRoot] = Cnt(<<0>>, {c})
      BY <1>3, WeightTypes DEF WKids, KidsOf
    <3>2. Cnt(<<0>>, {c}) = 0
      BY CntOne DEF One
    <3> QED BY <1>5, <3>1, <3>2
  <2> HIDE DEF h
  <2> QED BY <1>1, <1>7, <2>1, <2>2, <2>3 DEF TreeOK
<1>13. FreeOK(0, B, <<>>)
  <2>1. <<>> \in Seq(1 .. Len(B)) /\ Len(<<>>) = 0
    BY EmptySeq
  <2> QED BY <2>1 DEF FreeOK
<1>14. Good(m, NewHead, B, h, <<>>)
  BY <1>8, <1>9, <1>10, <1>11, <1>12, <1>13 DEF Good
<1>15. Spare(B, <<>>) = {}
  BY <1>1, <1>3, <1>4, <1>6, <1>7 DEF Spare
<1>16. NewFile = FileOf(NewHead, B)
  BY DEF NewFile, FileOf, NewRoot, B
<1> QED BY <1>14, <1>15, <1>16 DEF B

\* A file of which the root was not written is refused.
LEMMA NoBlocksRefused ==
  ASSUME NEW f, f.blocks = <<>>
  PROVE  ~db_checker(f)
BY DEF db_checker

LEMMA NewStands ==
  ASSUME NEW m \in Nat, NEW X
  PROVE  Stands(m, NewHead, NewFile, <<NewRoot>>, <<0>>, <<>>, X)
<1>1. /\ NewFile = FileOf(NewHead, <<NewRoot>>) /\ Good(m, NewHead, <<NewRoot>>, <<0>>, <<>>)
      /\ Spare(<<NewRoot>>, <<>>) = {}
  BY NewGood
<1>2. Spare(<<NewRoot>>, <<>>) \subseteq X
  BY <1>1
<1> QED BY <1>1, <1>2 DEF Stands

LEMMA InitGood == Init => DatabaseGood
<1> SUFFICES ASSUME Init PROVE DatabaseGood
  OBVIOUS
<1>1. SetupOK(setup) /\ damaged = FALSE /\ op = Idle
  BY SetupAssumption DEF Init, SetupOK
<1>2. CASE Seeding
  <2>1. db = NewHead /\ file = NewFile
    BY <1>2 DEF Init
  <2>2. setup.M \in Nat
    BY <1>1 DEF SetupOK
  <2>3. Stands(setup.M, NewHead, NewFile, <<NewRoot>>, <<0>>, <<>>, spilled)
    BY <2>2, NewStands
  <2>4. Opened(setup.M, db, file, op, spilled)
    BY <1>1, <2>1, <2>3 DEF Opened, OpOK
  <2> QED BY <1>1, <2>4 DEF DatabaseGood
<1>3. CASE ~Seeding
  <2>1. db = NoHandle /\ file = NoFile
    BY <1>3 DEF Init
  <2>2. Closed(setup.M, db, file, op, spilled)
    BY <1>1, <2>1 DEF Closed, NoFile
  <2> QED BY <1>1, <2>2 DEF DatabaseGood
<1> QED BY <1>2, <1>3

\* An existing file is left alone; otherwise a part of a new one is written.
LEMMA CreateKeeps ==
  ASSUME DatabaseGood, db_create
  PROVE  DatabaseGood'
<1>1. /\ ~db.open /\ setup' = setup /\ db' = db /\ op' = op /\ spilled' = spilled /\ damaged' = damaged
  BY DEF db_create
<1>2. ASSUME ~damaged PROVE Closed(setup.M, db, file', op, spilled)
  <2>1. Closed(setup.M, db, file, op, spilled)
    <3>1. ~Opened(setup.M, db, file, op, spilled)
      BY <1>1, OpenIs DEF Opened, Stands
    <3> QED BY <1>2, <3>1 DEF DatabaseGood
  <2>2. CASE file.there
    <3>1. file' = file
      BY <2>2 DEF db_create
    <3> QED BY <2>1, <3>1
  <2>3. CASE ~file.there
    <3>1. PICK n \in 0 .. 2 : file' = [NewFile EXCEPT !.head = IF n = 0 THEN NoHandle ELSE @,
                                                      !.blocks = IF n < 2 THEN <<>> ELSE @]
      BY <2>3 DEF db_create
    <3>2. CASE n < 2
      <4>1. file'.blocks = <<>>
        BY <3>1, <3>2 DEF NewFile
      <4>2. ~db_checker(file')
        BY <4>1, NoBlocksRefused
      <4> QED BY <2>1, <4>2 DEF Closed
    <3>3. CASE ~(n < 2)
      <4>1. file' = NewFile
        <5>1. n # 0 /\ ~(n < 2)
          BY <3>3
        <5>2. file' = [NewFile EXCEPT !.head = NewFile.head, !.blocks = NewFile.blocks]
          BY <3>1, <5>1
        <5>3. NewFile = FileRec(NewFile.there, NewFile.head, NewFile.blocks, NewFile.piece)
          BY DEF NewFile, FileRec
        <5>4. [NewFile EXCEPT !.head = NewFile.head, !.blocks = NewFile.blocks] = NewFile
          BY <5>3 DEF FileRec
        <5> QED BY <5>2, <5>4
      <4>2. setup.M \in Nat
        BY DEF DatabaseGood, SetupOK
      <4>3. Stands(setup.M, NewHead, file', <<NewRoot>>, <<0>>, <<>>, spilled)
        BY <4>1, <4>2, NewStands
      <4> QED BY <2>1, <4>3 DEF Closed
    <3> QED BY <3>2, <3>3
  <2> QED BY <2>2, <2>3
<1> QED BY <1>1, <1>2 DEF DatabaseGood

LEMMA CloseKeeps ==
  ASSUME DatabaseGood, db_close
  PROVE  DatabaseGood'
<1>1. /\ db.open /\ op = Idle /\ db' = NoHandle /\ setup' = setup /\ file' = file /\ op' = op /\ spilled' = spilled
      /\ damaged' = damaged
  BY DEF db_close
<1>2. ASSUME ~damaged PROVE Closed(setup.M, NoHandle, file, Idle, spilled)
  <2>1. Opened(setup.M, db, file, op, spilled)
    <3>1. ~Closed(setup.M, db, file, op, spilled)
      BY <1>1 DEF Closed, NoHandle
    <3> QED BY <1>2, <3>1 DEF DatabaseGood
  <2>2. PICK B, h, fl : Stands(setup.M, db, file, B, h, fl, spilled)
    BY <2>1 DEF Opened
  <2> QED BY <2>2 DEF Closed
<1> QED BY <1>1, <1>2 DEF DatabaseGood

LEMMA OpenKeeps ==
  ASSUME DatabaseGood, db_open
  PROVE  DatabaseGood'
<1>1. /\ ~db.open /\ setup' = setup /\ file' = file /\ op' = op /\ spilled' = spilled /\ damaged' = damaged
      /\ IF file.there /\ db_checker(file) THEN db' = file.head ELSE db' = db
  BY DEF db_open
<1>2. ASSUME ~damaged PROVE Opened(setup.M, db', file, op, spilled) \/ Closed(setup.M, db', file, op, spilled)
  <2>1. Closed(setup.M, db, file, op, spilled)
    <3>1. ~Opened(setup.M, db, file, op, spilled)
      BY <1>1, OpenIs DEF Opened, Stands
    <3> QED BY <1>2, <3>1 DEF DatabaseGood
  <2>2. CASE file.there /\ db_checker(file)
    <3>1. PICK d, B, h, fl : Stands(setup.M, d, file, B, h, fl, spilled)
      BY <2>1, <2>2 DEF Closed
    <3>2. file.head = d
      BY <3>1 DEF Stands, FileOf
    <3>3. db' = d /\ op = Idle
      BY <1>1, <2>1, <2>2, <3>2 DEF Closed
    <3>4. Opened(setup.M, d, file, op, spilled)
      BY <3>1, <3>3 DEF Opened, OpOK
    <3> QED BY <3>3, <3>4
  <2>3. CASE ~(file.there /\ db_checker(file))
    <3>1. db' = db
      BY <1>1, <2>3
    <3> QED BY <2>1, <3>1
  <2> QED BY <2>2, <2>3
<1> QED BY <1>1, <1>2 DEF DatabaseGood

LEMMA NextGood == DatabaseGood /\ [Next]_vars => DatabaseGood'
<1> SUFFICES ASSUME DatabaseGood, [Next]_vars PROVE DatabaseGood'
  OBVIOUS
<1>1. CASE UNCHANGED vars
  <2>1. setup' = setup /\ file' = file /\ db' = db /\ op' = op /\ spilled' = spilled /\ damaged' = damaged
    BY <1>1 DEF vars
  <2> QED BY <2>1 DEF DatabaseGood
<1>2. ASSUME ~damaged, NEW k \in Keys, db_delete(k) PROVE DatabaseGood'
  BY <1>2, DeleteKeeps
<1>3. ASSUME ~damaged, NEW k \in Keys, NEW v \in Values, db_insert(k, v) PROVE DatabaseGood'
  BY <1>3, InsertKeeps
<1>4. CASE ~damaged /\ InsertTurn
  BY <1>4, InsertTurnKeeps
<1>5. CASE ~damaged /\ InsertIntoLeaf
  BY <1>5, InsertIntoLeafKeeps
<1>6. CASE ~damaged /\ DeleteMatch
  BY <1>6, DeleteMatchKeeps
<1>7. CASE ~damaged /\ DeleteInChild
  BY <1>7, DeleteInChildKeeps
<1>8. CASE ~damaged /\ DeleteFromLeaf
  BY <1>8, DeleteFromLeafKeeps
<1>9. CASE db_create
  BY <1>9, CreateKeeps
<1>10. CASE db_close
  BY <1>10, CloseKeeps
<1>11. CASE db_open
  BY <1>11, OpenKeeps
<1> QED BY <1>1, <1>2, <1>3, <1>4, <1>5, <1>6, <1>7, <1>8, <1>9, <1>10, <1>11 DEF Next

\* Whatever calls are made, wherever a block cannot be had and wherever the
\* program ends, the database is a good one: db_insert, db_delete, db_create,
\* db_open and db_close keep the tree, the counts, the references and the free
\* list, as long as no deletion is cut off where it loses an entry.
THEOREM FileIsGood == Spec => []DatabaseGood
BY InitGood, NextGood, PTL DEF Spec

-----------------------------------------------------------------------------
(* What it means for the properties.                                       *)

\* An open database that has lost no entry.
LEMMA SoundIs ==
  ASSUME DatabaseGood, Sound
  PROVE  /\ M \in Nat
         /\ \E B, h, fl : file = FileOf(db, B) /\ Good(M, db, B, h, fl) /\ Spare(B, fl) \subseteq spilled
<1>1. M \in Nat
  BY DEF DatabaseGood, SetupOK, M
<1>2. ~Closed(M, db, file, op, spilled)
  BY DEF Closed, NoHandle, Sound
<1>3. Opened(M, db, file, op, spilled)
  BY <1>2 DEF DatabaseGood, M, Sound
<1> QED BY <1>1, <1>3 DEF Opened, Stands

LEMMA GoodReopens == DatabaseGood => CleanReopens
<1> SUFFICES ASSUME DatabaseGood, Sound PROVE db = file.head /\ db_checker(file)
  BY DEF CleanReopens
<1>1. PICK B, h, fl : file = FileOf(db, B) /\ Good(M, db, B, h, fl)
  BY SoundIs
<1>2. file.head = db
  BY <1>1 DEF FileOf
<1> QED BY <1>1, <1>2, GoodPassesChecker

\* Every turn of a call leaves the head on the disk equal to the handle and the
\* counts such that db_checker accepts the file.
THEOREM ReopensAlways == Spec => []CleanReopens
BY FileIsGood, GoodReopens, PTL

LEMMA GoodFits == DatabaseGood => NodesFit
<1> SUFFICES ASSUME DatabaseGood, Sound
             PROVE  /\ \A i \in 0 .. Len(file.blocks) :
                         \A n, q \in Levels(file.blocks)[i] : file.blocks[n].leaf = file.blocks[q].leaf
                    /\ \A n \in InTree(file.blocks) :
                         LET num == Len(file.blocks[n].ents)
                         IN  num <= M /\ (num > 0 \/ n = Root)
  BY DEF NodesFit
<1>1. PICK B, h, fl : file = FileOf(db, B) /\ Good(M, db, B, h, fl)
  BY SoundIs
<1>2. M \in Nat /\ file.blocks = B
  BY <1>1, SoundIs DEF FileOf
<1>3. Placed(B) /\ TreeOK(M, B, h) /\ Len(B) \in Nat /\ B \in Seq(Blocks)
  BY <1>1 DEF Good, Placed
<1>4. Levels(B) = [i \in 0 .. Len(B) |-> LevelOf(B, h, i)] /\ InTree(B) = {n \in Nat : Live(B, n)}
  BY <1>2, <1>3, LevelsAre, InTreeIs
<1>5. ASSUME NEW n \in Nat, Live(B, n)
      PROVE  /\ h[n] \in Nat /\ (B[n].leaf <=> h[n] = 0) /\ B[n].leaf \in BOOLEAN
             /\ Len(B[n].ents) <= M /\ (Len(B[n].ents) > 0 \/ n = Root)
  <2>1. NodeAt(M, h, Len(B), B[n], n, B[n].leaf, B[n].ents, B[n].kids)
    BY <1>2, <1>3, <1>5, NodeOf
  <2>2. /\ h[n] \in Nat /\ (B[n].leaf <=> h[n] = 0) /\ B[n].leaf \in BOOLEAN /\ Len(B[n].ents) <= M
        /\ B[n].ents \in Seq(Ent)
    BY <2>1 DEF NodeAt
  <2>3. Len(B[n].ents) > 0 \/ n = Root
    BY <1>5, <2>2, EmptySeq DEF Live
  <2> QED BY <2>2, <2>3
<1>6. ASSUME NEW i \in 0 .. Len(B), NEW n \in Levels(B)[i], NEW q \in Levels(B)[i]
      PROVE  B[n].leaf = B[q].leaf
  <2>1. /\ n \in Nat /\ Live(B, n) /\ h[n] + i = h[Root]
        /\ q \in Nat /\ Live(B, q) /\ h[q] + i = h[Root]
    BY <1>4 DEF LevelOf
  <2>2. /\ h[n] \in Nat /\ (B[n].leaf <=> h[n] = 0) /\ B[n].leaf \in BOOLEAN
        /\ h[q] \in Nat /\ (B[q].leaf <=> h[q] = 0) /\ B[q].leaf \in BOOLEAN
    BY <1>5, <2>1
  <2>3. h[n] = h[q]
    <3>1. i \in Nat
      BY <1>3
    <3> QED BY ONLY <2>1, <2>2, <3>1
  <2> QED BY ONLY <2>2, <2>3
<1>7. ASSUME NEW n \in InTree(B) PROVE Len(B[n].ents) <= M /\ (Len(B[n].ents) > 0 \/ n = Root)
  BY <1>4, <1>5
<1> QED BY <1>2, <1>6, <1>7

\* No key block gets more entries than it has room for, none but the root is
\* ever without, and all leaves are at one depth.
THEOREM FitsAlways == Spec => []NodesFit
BY FileIsGood, GoodFits, PTL

LEMMA GoodAccounts == DatabaseGood => BlocksAccounted
<1> SUFFICES ASSUME DatabaseGood, Sound
             PROVE  LET list == FreeChain(file.blocks, db.free)
                    IN  /\ \A i, j \in DOMAIN list : list[i] = list[j] => i = j \/ list[i] = 0
                        /\ \A n \in Range(list) \ {0} : file.blocks[n].kind = "free"
                        /\ db.current # 0 => file.blocks[db.current].kind = "value"
                        /\ Loose(db, file.blocks) \subseteq spilled
  BY DEF BlocksAccounted
<1>1. PICK B, h, fl : file = FileOf(db, B) /\ Good(M, db, B, h, fl) /\ Spare(B, fl) \subseteq spilled
  BY SoundIs
<1>2. M \in Nat /\ file.blocks = B
  BY <1>1, SoundIs DEF FileOf
<1>3. Len(B) \in Nat /\ FreeOK(db.free, B, fl) /\ RefsOK(db.current, B)
  BY <1>1 DEF Good, Placed
<1>4. fl \in Seq(1 .. Len(B)) /\ Len(fl) \in Nat /\ \A i, j \in 1 .. Len(fl) : fl[i] = fl[j] => i = j
  BY <1>3 DEF FreeOK
<1> DEFINE list == FreeChain(B, db.free)
<1>5. list = [i \in 0 .. Len(B) |-> Linked(fl, i)]
  BY <1>3, FreeChainIs
<1>6. \A n : n \in Range(list) /\ n # 0 <=> \E i \in 1 .. Len(fl) : fl[i] = n
  BY <1>3, FreeRange
<1> HIDE DEF list
<1>7. ASSUME NEW i \in DOMAIN list, NEW j \in DOMAIN list, list[i] = list[j], list[i] # 0 PROVE i = j
  <2>1. i \in 0 .. Len(B) /\ j \in 0 .. Len(B) /\ Linked(fl, i) = Linked(fl, j) /\ Linked(fl, i) # 0
    BY <1>5, <1>7
  <2>2. i \in Nat /\ j \in Nat /\ i < Len(fl) /\ j < Len(fl) /\ fl[i + 1] = fl[j + 1]
    BY <1>3, <2>1 DEF Linked
  <2>3. i + 1 \in 1 .. Len(fl) /\ j + 1 \in 1 .. Len(fl)
    BY <1>4, <2>2
  <2>4. i + 1 = j + 1
    BY <1>4, <2>2, <2>3
  <2> QED BY ONLY <2>2, <2>4
<1>8. ASSUME NEW n \in Range(list) \ {0} PROVE B[n].kind = "free"
  <2>1. PICK i \in 1 .. Len(fl) : fl[i] = n
    BY <1>6
  <2> QED BY <1>3, <2>1 DEF FreeOK
<1>9. db.current # 0 => B[db.current].kind = "value"
  BY <1>3 DEF RefsOK, IsValue
<1>10. Loose(db, B) \subseteq spilled
  BY <1>1, <1>2, LooseIs
<1> QED BY <1>2, <1>7, <1>8, <1>9, <1>10 DEF list

\* node_create and node_destroy keep the free list: no block is on it twice and
\* none that is in use, and no block is lost but those that a failed call had got.
THEOREM AccountedAlways == Spec => []BlocksAccounted
BY FileIsGood, GoodAccounts, PTL

-----------------------------------------------------------------------------
(* The entries of the tree, counted.                                       *)

\* The sets S[1], S[2], ... have w[1], w[2], ... elements and none in common.
Sized(w, S) == /\ w \in Seq(Nat)
               /\ \A i \in 1 .. Len(w) : IsFiniteSet(S[i]) /\ Cardinality(S[i]) = w[i]
               /\ \A i, j \in 1 .. Len(w) : i # j => S[i] \cap S[j] = {}

Upto(S, k) == UNION {S[i] : i \in 1 .. k}

HasSize(S, k, n) == IsFiniteSet(Upto(S, k)) /\ Cardinality(Upto(S, k)) = n

LEMMA UptoNext ==
  ASSUME NEW S, NEW k \in Nat
  PROVE  Upto(S, k + 1) = Upto(S, k) \cup S[k + 1]
<1>1. 1 .. k + 1 = (1 .. k) \cup {k + 1}
  OBVIOUS
<1> QED BY <1>1 DEF Upto

LEMMA SizeNext ==
  ASSUME NEW w, NEW S, Sized(w, S), NEW k \in Nat, k + 1 <= Len(w), NEW n \in Nat, HasSize(S, k, n)
  PROVE  HasSize(S, k + 1, n + w[k + 1])
<1>1. Len(w) \in Nat /\ k + 1 \in 1 .. Len(w) /\ \A i \in 1 .. k : i \in 1 .. Len(w) /\ i # k + 1
  BY DEF Sized
<1>2. IsFiniteSet(S[k + 1]) /\ Cardinality(S[k + 1]) = w[k + 1]
  BY <1>1 DEF Sized
<1>3. w[k + 1] \in Nat
  BY <1>1 DEF Sized
<1>4. Upto(S, k) \cap S[k + 1] = {}
  <2>1. \A i \in 1 .. k : S[i] \cap S[k + 1] = {}
    BY <1>1 DEF Sized
  <2> QED BY <2>1 DEF Upto
<1>5. IsFiniteSet(Upto(S, k)) /\ Cardinality(Upto(S, k)) = n
  BY DEF HasSize
<1>6. /\ IsFiniteSet(Upto(S, k) \cup S[k + 1])
      /\ Cardinality(Upto(S, k) \cup S[k + 1])
           = Cardinality(Upto(S, k)) + Cardinality(S[k + 1]) - Cardinality(Upto(S, k) \cap S[k + 1])
  BY <1>2, <1>5, FS_Union
<1>7. Cardinality(Upto(S, k) \cap S[k + 1]) = 0
  BY <1>4, FS_EmptySet
<1>8. Upto(S, k + 1) = Upto(S, k) \cup S[k + 1]
  BY UptoNext
<1>9. Cardinality(Upto(S, k) \cup S[k + 1]) = n + w[k + 1]
  <2>1. Cardinality(Upto(S, k) \cup S[k + 1]) = n + w[k + 1] - 0
    BY <1>2, <1>5, <1>6, <1>7
  <2>2. n + w[k + 1] - 0 = n + w[k + 1]
    BY ONLY <1>3, n \in Nat
  <2> QED BY <2>1, <2>2
<1> QED BY <1>6, <1>8, <1>9 DEF HasSize

LEMMA SumIsSize ==
  ASSUME NEW w, NEW S, Sized(w, S)
  PROVE  HasSize(S, Len(w), SumOf(w))
<1>1. w \in Seq(Nat) /\ w \in Seq(Int) /\ Len(w) \in Nat
  BY SeqMonotonic DEF Sized
<1>2. PICK f : PartialSums(w, f) /\ SumOf(w) = f[Len(w)]
  BY <1>1, SumIs
<1> DEFINE K == {k \in Nat : k <= Len(w) => f[k] \in Nat /\ HasSize(S, k, f[k])}
<1>3. 0 \in K
  <2>1. Upto(S, 0) = {}
    BY DEF Upto
  <2>2. f[0] = 0
    BY <1>2 DEF PartialSums
  <2>3. HasSize(S, 0, 0)
    BY <2>1, FS_EmptySet DEF HasSize
  <2> QED BY <2>2, <2>3
<1>4. ASSUME NEW k \in Nat, k \in K, k + 1 <= Len(w)
      PROVE  f[k + 1] \in Nat /\ HasSize(S, k + 1, f[k + 1])
  <2>1. k <= Len(w) /\ k + 1 \in 1 .. Len(w) /\ (k + 1) - 1 = k
    BY <1>1, <1>4
  <2>2. f[k] \in Nat /\ HasSize(S, k, f[k])
    BY <1>4, <2>1
  <2>3. f[k + 1] = f[k] + w[k + 1] /\ w[k + 1] \in Nat
    BY <1>1, <1>2, <2>1 DEF PartialSums
  <2>4. HasSize(S, k + 1, f[k] + w[k + 1])
    BY <1>4, <2>2, SizeNext
  <2> QED BY <2>2, <2>3, <2>4
<1>5. Nat \subseteq K
  <2>1. \A k \in Nat : k \in K => k + 1 \in K
    BY <1>4
  <2> HIDE DEF K
  <2> QED BY <1>3, <2>1, SetInduction
<1>6. Len(w) \in K
  BY <1>1, <1>5
<1> QED BY <1>1, <1>2, <1>6

\* As many elements as marks, where no element is there twice.
Single(s, P) == [i \in 1 .. Len(s) |-> IF s[i] \in P THEN {s[i]} ELSE {}]

LEMMA CntIsSize ==
  ASSUME NEW T, NEW s \in Seq(T), NEW P, \A i, j \in 1 .. Len(s) : s[i] = s[j] => i = j
  PROVE  LET X == {e \in P : \E i \in 1 .. Len(s) : s[i] = e}
         IN  IsFiniteSet(X) /\ Cardinality(X) = Cnt(s, P)
<1> DEFINE w == Marks(s, P)
           S == Single(s, P)
           X == {e \in P : \E i \in 1 .. Len(s) : s[i] = e}
<1>1. /\ w \in Seq(Nat) /\ Len(w) = Len(s)
      /\ \A i \in 1 .. Len(s) : w[i] = One(s[i], P)
  BY MarksType
<1>2. \A i \in 1 .. Len(s) : S[i] = IF s[i] \in P THEN {s[i]} ELSE {}
  BY DEF Single
<1>3. Cnt(s, P) = SumOf(w)
  BY DEF Cnt
<1> HIDE DEF w, S
<1>4. \A i \in 1 .. Len(s) : IsFiniteSet(S[i]) /\ Cardinality(S[i]) = w[i]
  <2> SUFFICES ASSUME NEW i \in 1 .. Len(s) PROVE IsFiniteSet(S[i]) /\ Cardinality(S[i]) = w[i]
    OBVIOUS
  <2>1. CASE s[i] \in P
    <3>1. S[i] = {s[i]} /\ w[i] = 1
      BY <1>1, <1>2, <2>1 DEF One
    <3>2. IsFiniteSet({s[i]}) /\ Cardinality({s[i]}) = 1
      BY FS_Singleton
    <3> QED BY <3>1, <3>2
  <2>2. CASE s[i] \notin P
    <3>1. S[i] = {} /\ w[i] = 0
      BY <1>1, <1>2, <2>2 DEF One
    <3> QED BY <3>1, FS_EmptySet
  <2> QED BY <2>1, <2>2
<1>5. ASSUME NEW i \in 1 .. Len(s), NEW j \in 1 .. Len(s), i # j PROVE S[i] \cap S[j] = {}
  <2>1. s[i] # s[j]
    BY <1>5
  <2>2. S[i] \subseteq {s[i]} /\ S[j] \subseteq {s[j]}
    BY <1>2
  <2> QED BY <2>1, <2>2
<1>6. Sized(w, S)
  BY <1>1, <1>4, <1>5 DEF Sized
<1>7. X = Upto(S, Len(s))
  <2>1. ASSUME NEW e \in X PROVE e \in Upto(S, Len(s))
    <3>1. PICK i \in 1 .. Len(s) : s[i] = e
      OBVIOUS
    <3>2. e \in S[i]
      BY <1>2, <3>1
    <3> QED BY <3>2 DEF Upto
  <2>2. ASSUME NEW e \in Upto(S, Len(s)) PROVE e \in X
    <3>1. PICK i \in 1 .. Len(s) : e \in S[i]
      BY <2>2 DEF Upto
    <3>2. s[i] = e /\ e \in P
      BY <1>2, <3>1
    <3> QED BY <3>2
  <2> QED BY <2>1, <2>2
<1>8. HasSize(S, Len(s), SumOf(w))
  BY <1>1, <1>6, SumIsSize
<1> QED BY <1>3, <1>7, <1>8 DEF HasSize

\* The values that the entries refer to are different ones.
OneEach(B) ==
  \A n, k \in 1 .. Len(B) :
    \A i \in 1 .. Len(EntsOf(B[n])), j \in 1 .. Len(EntsOf(B[k])) :
      /\ EntsOf(B[n])[i].block = EntsOf(B[k])[j].block
      /\ EntsOf(B[n])[i].slot = EntsOf(B[k])[j].slot
      => n = k /\ i = j

LEMMA OneEachIs ==
  ASSUME NEW current, NEW B \in Seq(Blocks), RefsOK(current, B)
  PROVE  OneEach(B)
<1> SUFFICES ASSUME NEW n \in 1 .. Len(B), NEW k \in 1 .. Len(B),
                    NEW i \in 1 .. Len(EntsOf(B[n])), NEW j \in 1 .. Len(EntsOf(B[k])),
                    EntsOf(B[n])[i].block = EntsOf(B[k])[j].block,
                    EntsOf(B[n])[i].slot = EntsOf(B[k])[j].slot
             PROVE  n = k /\ i = j
  BY DEF OneEach
<1> DEFINE s == EntsOf(B[n])
           t == EntsOf(B[k])
           P == At(s[i].block, s[i].slot)
<1>1. s \in Seq(Ent) /\ t \in Seq(Ent) /\ B[n] \in Blocks /\ B[k] \in Blocks
  BY EntsWeigh
<1> HIDE DEF s, t
<1>2. s[i] \in Ent /\ t[j] \in Ent /\ t[j].block = s[i].block /\ t[j].slot = s[i].slot
  BY <1>1 DEF s, t
<1>3. s[i] \in P /\ t[j] \in P
  BY <1>2 DEF At
<1>4. Weigh(B, WEnts(P)) <= 1
  <2>1. s[i].block \in Nat /\ s[i].slot \in Nat
    BY <1>2 DEF Ent
  <2>2. Weigh(B, WEnts(P)) <= IF IsValue(B, s[i].block) /\ s[i].slot \in 1 .. Len(B[s[i].block].vals) THEN 1 ELSE 0
    BY <2>1 DEF RefsOK
  <2>3. Weigh(B, WEnts(P)) \in Nat
    BY EntsWeigh, WeighType
  <2> QED BY ONLY <2>2, <2>3
<1> HIDE DEF P
<1>5. /\ WEnts(P) \in [Blocks -> Nat] /\ Weigh(B, WEnts(P)) \in Nat
      /\ WEnts(P)[B[n]] = Cnt(s, P) /\ WEnts(P)[B[k]] = Cnt(t, P)
      /\ Cnt(s, P) \in Nat /\ Cnt(t, P) \in Nat
  <2>1. WEnts(P) \in [Blocks -> Nat] /\ WEnts(P)[B[n]] = Cnt(s, P) /\ WEnts(P)[B[k]] = Cnt(t, P)
    BY EntsWeigh DEF s, t
  <2>2. Cnt(s, P) \in Nat /\ Cnt(t, P) \in Nat
    BY <1>1, CntType
  <2> QED BY <2>1, <2>2, WeighType
<1>6. n = k
  <2> SUFFICES ASSUME n # k PROVE FALSE
    OBVIOUS
  <2>1. Cnt(s, P) >= 1 /\ Cnt(t, P) >= 1
    <3>1. i \in 1 .. Len(s) /\ j \in 1 .. Len(t)
      BY DEF s, t
    <3> QED BY <1>1, <1>3, <3>1, CntMember
  <2>2. Weigh(B, WEnts(P)) >= WEnts(P)[B[n]] + WEnts(P)[B[k]]
    BY <1>5, WeighAtLeastTwo
  <2> QED BY ONLY <1>4, <1>5, <2>1, <2>2
<1>7. i = j
  <2> SUFFICES ASSUME i # j PROVE FALSE
    OBVIOUS
  <2>1. s = t /\ i \in 1 .. Len(s) /\ j \in 1 .. Len(s)
    BY <1>6 DEF s, t
  <2>2. Cnt(s, P) >= 2
    BY <1>1, <1>3, <2>1, CntTwo
  <2>3. Weigh(B, WEnts(P)) >= WEnts(P)[B[n]]
    BY <1>5, WeighAtLeast
  <2> QED BY ONLY <1>4, <1>5, <2>2, <2>3
<1> QED BY <1>6, <1>7

EntsIn(B, P) == {e \in P : \E n \in Nat : HasEntry(B, n, e)}

EntsOfIn(B, n, P) == {e \in P : \E i \in 1 .. Len(EntsOf(B[n])) : EntsOf(B[n])[i] = e}

LEMMA EntsInAreOf ==
  ASSUME NEW B \in Seq(Blocks), NEW P
  PROVE  EntsIn(B, P) = Upto([n \in 1 .. Len(B) |-> EntsOfIn(B, n, P)], Len(B))
<1> DEFINE S == [n \in 1 .. Len(B) |-> EntsOfIn(B, n, P)]
<1>1. ASSUME NEW e \in EntsIn(B, P) PROVE e \in Upto(S, Len(B))
  <2>1. PICK n \in Nat : HasEntry(B, n, e)
    BY DEF EntsIn
  <2>2. n \in 1 .. Len(B) /\ EntsOf(B[n]) = B[n].ents /\ e \in P
    BY <2>1 DEF HasEntry, IsKey, EntsOf, EntsIn
  <2>3. e \in EntsOfIn(B, n, P)
    BY <2>1, <2>2 DEF EntsOfIn, HasEntry
  <2> QED BY <2>2, <2>3 DEF Upto
<1>2. ASSUME NEW e \in Upto(S, Len(B)) PROVE e \in EntsIn(B, P)
  <2>1. PICK n \in 1 .. Len(B) : e \in EntsOfIn(B, n, P)
    BY <1>2 DEF Upto
  <2>2. PICK i \in 1 .. Len(EntsOf(B[n])) : EntsOf(B[n])[i] = e
    BY <2>1 DEF EntsOfIn
  <2>3. B[n].kind = "key" /\ EntsOf(B[n]) = B[n].ents
    <3>1. EntsOf(B[n]) \in Seq(Ent)
      BY EntsWeigh
    <3>2. Len(EntsOf(B[n])) >= 1
      BY <2>2, <3>1
    <3> QED BY <3>2, EmptySeq DEF EntsOf
  <2>4. n \in Nat /\ HasEntry(B, n, e) /\ e \in P
    BY <2>1, <2>2, <2>3 DEF HasEntry, IsKey, EntsOfIn
  <2> QED BY <2>4 DEF EntsIn
<1> QED BY <1>1, <1>2

\* The entries of a set are as many as they weigh.
LEMMA EntriesSize ==
  ASSUME NEW B \in Seq(Blocks), OneEach(B), NEW P
  PROVE  IsFiniteSet(EntsIn(B, P)) /\ Cardinality(EntsIn(B, P)) = Weigh(B, WEnts(P))
<1> DEFINE w == [n \in 1 .. Len(B) |-> WEnts(P)[B[n]]]
           S == [n \in 1 .. Len(B) |-> EntsOfIn(B, n, P)]
<1>1. WEnts(P) \in [Blocks -> Nat]
  BY EntsWeigh
<1>2. w \in Seq(Nat) /\ Len(w) = Len(B) /\ \A n \in 1 .. Len(B) : w[n] = WEnts(P)[B[n]]
  BY <1>1, WeighSeq
<1>3. Weigh(B, WEnts(P)) = SumOf(w)
  BY DEF Weigh
<1>4. \A n \in 1 .. Len(B) : S[n] = EntsOfIn(B, n, P)
  OBVIOUS
<1>5. EntsIn(B, P) = Upto(S, Len(B))
  BY EntsInAreOf
<1> HIDE DEF w, S
<1>6. ASSUME NEW n \in 1 .. Len(B) PROVE IsFiniteSet(S[n]) /\ Cardinality(S[n]) = w[n]
  <2> DEFINE s == EntsOf(B[n])
  <2>1. s \in Seq(Ent) /\ WEnts(P)[B[n]] = Cnt(s, P)
    BY EntsWeigh
  <2>2. \A i, j \in 1 .. Len(s) : s[i] = s[j] => i = j
    BY DEF OneEach
  <2>3. S[n] = {e \in P : \E i \in 1 .. Len(s) : s[i] = e}
    BY <1>4 DEF EntsOfIn
  <2> HIDE DEF s
  <2>4. IsFiniteSet(S[n]) /\ Cardinality(S[n]) = Cnt(s, P)
    BY <2>1, <2>2, <2>3, CntIsSize
  <2> QED BY <1>2, <2>1, <2>4
<1>7. ASSUME NEW n \in 1 .. Len(B), NEW k \in 1 .. Len(B), n # k PROVE S[n] \cap S[k] = {}
  <2> SUFFICES ASSUME NEW e, e \in S[n], e \in S[k] PROVE FALSE
    OBVIOUS
  <2>1. PICK i \in 1 .. Len(EntsOf(B[n])) : EntsOf(B[n])[i] = e
    BY <1>4 DEF EntsOfIn
  <2>2. PICK j \in 1 .. Len(EntsOf(B[k])) : EntsOf(B[k])[j] = e
    BY <1>4 DEF EntsOfIn
  <2> QED BY <1>7, <2>1, <2>2 DEF OneEach
<1>8. Sized(w, S)
  BY <1>2, <1>6, <1>7 DEF Sized
<1>9. HasSize(S, Len(B), SumOf(w))
  BY <1>2, <1>8, SumIsSize
<1> QED BY <1>3, <1>5, <1>9 DEF HasSize

\* Different entries refer to different values.
LEMMA PairsSize ==
  ASSUME NEW B \in Seq(Blocks), OneEach(B), NEW X, IsFiniteSet(X),
         \A e \in X : \E n \in Nat : HasEntry(B, n, e)
  PROVE  Cardinality({<<e.block, e.slot>> : e \in X}) = Cardinality(X)
<1> DEFINE Y == {<<e.block, e.slot>> : e \in X}
           f == [e \in X |-> <<e.block, e.slot>>]
<1>1. ASSUME NEW e \in X, NEW g \in X, e.block = g.block, e.slot = g.slot PROVE e = g
  <2>1. PICK n \in Nat : HasEntry(B, n, e)
    OBVIOUS
  <2>2. PICK k \in Nat : HasEntry(B, k, g)
    OBVIOUS
  <2>3. /\ n \in 1 .. Len(B) /\ EntsOf(B[n]) = B[n].ents
        /\ k \in 1 .. Len(B) /\ EntsOf(B[k]) = B[k].ents
    BY <2>1, <2>2 DEF HasEntry, IsKey, EntsOf
  <2>4. PICK i \in 1 .. Len(EntsOf(B[n])) : EntsOf(B[n])[i] = e
    BY <2>1, <2>3 DEF HasEntry
  <2>5. PICK j \in 1 .. Len(EntsOf(B[k])) : EntsOf(B[k])[j] = g
    BY <2>2, <2>3 DEF HasEntry
  <2>6. n = k /\ i = j
    BY <1>1, <2>3, <2>4, <2>5 DEF OneEach
  <2> QED BY <2>4, <2>5, <2>6
<1>2. f \in [X -> Y] /\ \A e \in X : f[e] = <<e.block, e.slot>>
  OBVIOUS
<1>3. \A y \in Y : \E e \in X : f[e] = y
  OBVIOUS
<1>4. \A e, g \in X : f[e] = f[g] => e = g
  BY <1>1
<1> HIDE DEF f, Y
<1>5. f \in Surjection(X, Y)
  BY <1>2, <1>3 DEF Surjection
<1>6. f \in Injection(X, Y)
  BY <1>2, <1>4 DEF Injection, IsInjective
<1>7. Cardinality(Y) = Cardinality(X)
  BY <1>5, <1>6, FS_Surjection
<1> QED BY <1>7 DEF Y

LEMMA EntriesCounted ==
  ASSUME NEW m \in Nat, NEW B, NEW h, Placed(B), TreeOK(m, B, h), OneEach(B)
  PROVE  /\ IsFiniteSet(Entries(B)) /\ Cardinality(Entries(B)) = Weigh(B, WEnts(Ent))
         /\ Cardinality({<<e.block, e.slot>> : e \in Entries(B)}) = Weigh(B, WEnts(Ent))
         /\ \A n : Cardinality({e \in Entries(B) : e.block = n}) = Weigh(B, WEnts(To(n)))
<1>1. B \in Seq(Blocks)
  BY DEF Placed
<1>2. /\ \A e \in Entries(B) : e \in Ent /\ \E n \in Nat : HasEntry(B, n, e)
      /\ \A e, n : HasEntry(B, n, e) => e \in Entries(B)
  BY EntriesAre
<1>3. Entries(B) = EntsIn(B, Ent)
  <2>1. \A e \in Entries(B) : e \in EntsIn(B, Ent)
    BY <1>2 DEF EntsIn
  <2>2. \A e \in EntsIn(B, Ent) : e \in Entries(B)
    BY <1>2 DEF EntsIn
  <2> QED BY <2>1, <2>2
<1>4. IsFiniteSet(Entries(B)) /\ Cardinality(Entries(B)) = Weigh(B, WEnts(Ent))
  BY <1>1, <1>3, EntriesSize
<1>5. Cardinality({<<e.block, e.slot>> : e \in Entries(B)}) = Cardinality(Entries(B))
  <2>1. \A e \in Entries(B) : \E n \in Nat : HasEntry(B, n, e)
    BY <1>2
  <2> QED BY <1>1, <1>4, <2>1, PairsSize
<1>6. ASSUME NEW n PROVE Cardinality({e \in Entries(B) : e.block = n}) = Weigh(B, WEnts(To(n)))
  <2>1. \A e \in Entries(B) : e.block = n => e \in EntsIn(B, To(n))
    BY <1>2 DEF EntsIn, To
  <2>2. \A e \in EntsIn(B, To(n)) : e \in Entries(B) /\ e.block = n
    BY <1>2 DEF EntsIn, To
  <2>3. {e \in Entries(B) : e.block = n} = EntsIn(B, To(n))
    BY <2>1, <2>2
  <2> QED BY <1>1, <2>3, EntriesSize
<1> QED BY <1>4, <1>5, <1>6

LEMMA TotalIs ==
  ASSUME NEW d, NEW B \in Seq(Blocks), CountsOK(d, B)
  PROVE  Weigh(B, WEnts(Ent)) = d.total
<1>1. \A n \in 1 .. Len(B) : WCount("keys")[B[n]] = WEnts(Ent)[B[n]]
  BY KeysAreEntries
<1>2. [n \in 1 .. Len(B) |-> WCount("keys")[B[n]]] = [n \in 1 .. Len(B) |-> WEnts(Ent)[B[n]]]
  BY <1>1
<1> QED BY <1>2 DEF CountsOK, Weigh

LEMMA GoodRefs == DatabaseGood => RefsExact
<1> SUFFICES ASSUME DatabaseGood, Sound
             PROVE  LET all == Entries(file.blocks)
                    IN  /\ Cardinality(all) = db.total
                        /\ Cardinality({<<e.block, e.slot>> : e \in all}) = db.total
                        /\ \A e \in all : file.blocks[e.block].kind = "value"
                        /\ \A n \in 1 .. Len(file.blocks) :
                             file.blocks[n].kind = "value"
                               => file.blocks[n].num = Cardinality({e \in all : e.block = n})
  BY DEF RefsExact
<1>1. PICK B, h, fl : file = FileOf(db, B) /\ Good(M, db, B, h, fl)
  BY SoundIs
<1>2. M \in Nat /\ file.blocks = B
  BY <1>1, SoundIs DEF FileOf
<1>3. B \in Seq(Blocks) /\ Placed(B) /\ TreeOK(M, B, h) /\ CountsOK(db, B) /\ RefsOK(db.current, B)
  BY <1>1 DEF Good, Placed
<1>4. OneEach(B)
  BY <1>3, OneEachIs
<1>5. /\ Cardinality(Entries(B)) = Weigh(B, WEnts(Ent))
      /\ Cardinality({<<e.block, e.slot>> : e \in Entries(B)}) = Weigh(B, WEnts(Ent))
      /\ \A n : Cardinality({e \in Entries(B) : e.block = n}) = Weigh(B, WEnts(To(n)))
  BY <1>2, <1>3, <1>4, EntriesCounted
<1>6. Weigh(B, WEnts(Ent)) = db.total
  BY <1>3, TotalIs
<1>7. \A e \in Entries(B) : B[e.block].kind = "value"
  BY <1>2, <1>3, EntryRefers DEF IsValue
<1>8. \A n \in 1 .. Len(B) : B[n].kind = "value" => B[n].num = Cardinality({e \in Entries(B) : e.block = n})
  BY <1>3, <1>5 DEF RefsOK, IsValue
<1> QED BY <1>2, <1>5, <1>6, <1>7, <1>8

\* What a value block counts is what refers to it, and no two entries have one
\* value: db_insert, db_delete and value_delete never give up a value block that
\* an entry still needs, and never keep one that none does.
THEOREM RefsAlways == Spec => []RefsExact
BY FileIsGood, GoodRefs, PTL
=============================================================================
