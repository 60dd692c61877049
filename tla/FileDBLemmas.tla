---------------------------- MODULE FileDBLemmas ----------------------------
(***************************************************************************)
(* Lemmas for FileDBProofs, about the operators that FileDB is built from: *)
(* sums over a file's blocks, what a good database is (Good), and that     *)
(* node_create, btree_split_child, the split of the root and the two ways  *)
(* of borrowing an entry lead from a good database to a good one, and at   *)
(* every write of theirs leave on the disk either a file that db_checker   *)
(* refuses or the file of a good database.                                 *)
(*                                                                         *)
(* m stands for M everywhere, d for the head of a file, B for its blocks.  *)
(* What a lemma assumes of many parts is gathered in an operator, which    *)
(* its users then leave unexpanded.                                        *)
(***************************************************************************)
EXTENDS FileDB, SequenceTheorems, FiniteSetTheorems, WellFoundedInduction, TLAPS

-----------------------------------------------------------------------------
(* Induction, with sets of numbers in the place of predicates.             *)

LEMMA LeastNumber ==
  ASSUME NEW S, S \subseteq Nat, S # {}
  PROVE  \E x \in S : \A y \in S : x <= y
<1> DEFINE R == OpToRel(<, Nat)
<1>1. IsWellFoundedOn(R, Nat)
  BY NatLessThanWellFounded
<1>2. \A x, y \in Nat : <<y, x>> \in R <=> y < x
  BY DEF OpToRel
<1> HIDE DEF R
<1>3. PICK x \in S : \A y \in S : <<y, x>> \notin R
  BY <1>1, WFMin
<1>4. ASSUME NEW y \in S PROVE x <= y
  <2>1. x \in Nat /\ y \in Nat /\ ~(y < x)
    BY <1>2, <1>3
  <2> QED BY <2>1
<1> QED BY <1>4

LEMMA SetInduction ==
  ASSUME NEW S, 0 \in S, \A n \in Nat : n \in S => n + 1 \in S
  PROVE  Nat \subseteq S
<1> SUFFICES ASSUME Nat \ S # {} PROVE FALSE
  OBVIOUS
<1>1. PICK x \in Nat \ S : \A y \in Nat \ S : x <= y
  BY LeastNumber
<1>2. x - 1 \in Nat /\ x - 1 \notin S
  BY <1>1
<1> QED BY <1>1, <1>2

\* What is defined by recursion from one number to the next exists.
Recursive(n, f, t, G) == f = [i \in 0 .. n |-> IF i = 0 THEN t ELSE G[i][f[i - 1]]]

LEMMA RecursionExists ==
  ASSUME NEW T, NEW t \in T, NEW G \in [Nat -> [T -> T]]
  PROVE  \A n \in Nat : \E f \in [0 .. n -> T] : Recursive(n, f, t, G)
<1> DEFINE S == {n \in Nat : \E f \in [0 .. n -> T] : Recursive(n, f, t, G)}
<1>1. 0 \in S
  <2> DEFINE f == [i \in 0 .. 0 |-> t]
  <2>1. f \in [0 .. 0 -> T] /\ Recursive(0, f, t, G)
    BY DEF Recursive
  <2> QED BY <2>1
<1>2. ASSUME NEW n \in Nat, n \in S PROVE n + 1 \in S
  <2>1. PICK f \in [0 .. n -> T] : Recursive(n, f, t, G)
    BY <1>2
  <2> DEFINE last == G[n + 1][f[n]]
             g == [i \in 0 .. n + 1 |-> IF i = n + 1 THEN last ELSE f[i]]
  <2>2. last \in T
    BY <2>1
  <2>3. g = [i \in 0 .. n + 1 |-> IF i = n + 1 THEN last ELSE f[i]] /\ last = G[n + 1][f[n]]
    OBVIOUS
  <2> HIDE DEF g, last
  <2>4. g \in [0 .. n + 1 -> T]
    BY <2>1, <2>2, <2>3
  <2>5. \A i \in 0 .. n + 1 : i # n + 1 => i \in 0 .. n /\ g[i] = f[i]
    BY <2>3
  <2>6. ASSUME NEW i \in 0 .. n + 1 PROVE g[i] = IF i = 0 THEN t ELSE G[i][g[i - 1]]
    <3>1. CASE i = n + 1
      <4>1. i # 0 /\ i - 1 = n /\ n \in 0 .. n + 1 /\ n # n + 1
        BY <3>1
      <4> QED BY <2>3, <2>5, <3>1, <4>1
    <3>2. CASE i # n + 1
      <4>1. i \in 0 .. n /\ g[i] = f[i] /\ f[i] = IF i = 0 THEN t ELSE G[i][f[i - 1]]
        BY <2>1, <2>5, <3>2 DEF Recursive
      <4>2. i # 0 => i - 1 \in 0 .. n + 1 /\ i - 1 # n + 1
        BY <4>1
      <4> QED BY <2>5, <4>1, <4>2
    <3> QED BY <3>1, <3>2
  <2>7. Recursive(n + 1, g, t, G)
    BY <2>3, <2>6 DEF Recursive
  <2> QED BY <2>4, <2>7
<1>3. Nat \subseteq S
  <2> HIDE DEF S
  <2> QED BY <1>1, <1>2, SetInduction
<1> QED BY <1>3

-----------------------------------------------------------------------------
(* Sums.                                                                   *)

PartialSums(w, f) ==
  /\ f \in [0 .. Len(w) -> Int] /\ f[0] = 0
  /\ \A i \in 1 .. Len(w) : f[i] = f[i - 1] + w[i]

LEMMA PartialSumsAgree ==
  ASSUME NEW w \in Seq(Int), NEW f, PartialSums(w, f), NEW g, PartialSums(w, g)
  PROVE  f[Len(w)] = g[Len(w)]
<1> DEFINE S == {k \in Nat : k <= Len(w) => f[k] = g[k]}
<1>1. 0 \in S
  BY DEF PartialSums
<1>2. ASSUME NEW k \in Nat, k \in S, k + 1 <= Len(w) PROVE f[k + 1] = g[k + 1]
  <2>1. k + 1 \in 1 .. Len(w) /\ (k + 1) - 1 = k /\ f[k] = g[k]
    BY <1>2
  <2> QED BY <2>1 DEF PartialSums
<1>3. Nat \subseteq S
  <2>1. \A k \in Nat : k \in S => k + 1 \in S
    BY <1>2
  <2> HIDE DEF S
  <2> QED BY <1>1, <2>1, SetInduction
<1> QED BY <1>3

LEMMA SumIs ==
  ASSUME NEW w \in Seq(Int)
  PROVE  \E f : PartialSums(w, f) /\ SumOf(w) = f[Len(w)]
<1> DEFINE G == [i \in Nat |-> [t \in Int |-> IF i \in 1 .. Len(w) THEN t + w[i] ELSE t]]
           Sums(f) == f = [i \in 0 .. Len(w) |-> IF i = 0 THEN 0 ELSE f[i - 1] + w[i]]
<1>1. G \in [Nat -> [Int -> Int]]
  OBVIOUS
<1>2. \A i \in 1 .. Len(w) : \A t \in Int : G[i][t] = t + w[i]
  OBVIOUS
<1> HIDE DEF G
<1>3. PICK f \in [0 .. Len(w) -> Int] : Recursive(Len(w), f, 0, G)
  <2>1. \A n \in Nat : \E f \in [0 .. n -> Int] : Recursive(n, f, 0, G)
    <3>1. 0 \in Int
      OBVIOUS
    <3> QED BY <1>1, <3>1, RecursionExists, Zenon
  <2>2. Len(w) \in Nat
    OBVIOUS
  <2> QED BY <2>1, <2>2
<1>4. \A i \in 0 .. Len(w) : f[i] = IF i = 0 THEN 0 ELSE f[i - 1] + w[i]
  <2> SUFFICES ASSUME NEW i \in 0 .. Len(w) PROVE f[i] = IF i = 0 THEN 0 ELSE f[i - 1] + w[i]
    OBVIOUS
  <2>1. f[i] = IF i = 0 THEN 0 ELSE G[i][f[i - 1]]
    BY <1>3 DEF Recursive
  <2>2. i # 0 => i \in 1 .. Len(w) /\ f[i - 1] \in Int
    OBVIOUS
  <2> QED BY <1>2, <2>1, <2>2
<1>5. Sums(f)
  BY <1>4
<1>6. Sums(CHOOSE g : Sums(g)) /\ SumOf(w) = (CHOOSE g : Sums(g))[Len(w)]
  BY <1>5 DEF SumOf
<1> DEFINE g == CHOOSE g : Sums(g)
<1>7. g = [i \in 0 .. Len(w) |-> IF i = 0 THEN 0 ELSE g[i - 1] + w[i]] /\ SumOf(w) = g[Len(w)]
  BY <1>6
<1> HIDE DEF g
<1> DEFINE S == {k \in Nat : k <= Len(w) => g[k] \in Int}
<1>8. Nat \subseteq S
  <2>1. 0 \in S
    BY <1>7
  <2>2. ASSUME NEW k \in Nat, k \in S PROVE k + 1 \in S
    BY <1>7, <2>2
  <2> HIDE DEF S
  <2> QED BY <2>1, <2>2, SetInduction
<1>9. PartialSums(w, g)
  <2>1. \A k \in 0 .. Len(w) : g[k] \in Int
    BY <1>8
  <2>2. g \in [0 .. Len(w) -> Int]
    BY <1>7, <2>1
  <2>3. \A i \in 0 .. Len(w) : g[i] = IF i = 0 THEN 0 ELSE g[i - 1] + w[i]
    BY <1>7, Zenon
  <2>4. g[0] = 0 /\ \A i \in 1 .. Len(w) : g[i] = g[i - 1] + w[i]
    <3>1. Len(w) \in Nat /\ \A i \in 1 .. Len(w) : i \in 0 .. Len(w) /\ i # 0
      OBVIOUS
    <3>2. 0 \in 0 .. Len(w)
      BY <3>1
    <3> QED BY <2>3, <3>1, <3>2
  <2> QED BY <2>2, <2>4 DEF PartialSums
<1> QED BY <1>7, <1>9

\* Whoever has the right partial sums has the sum.
LEMMA SumUnique ==
  ASSUME NEW w \in Seq(Int), NEW g, PartialSums(w, g)
  PROVE  SumOf(w) = g[Len(w)] /\ SumOf(w) \in Int
<1>1. PICK f : PartialSums(w, f) /\ SumOf(w) = f[Len(w)]
  BY SumIs
<1>2. f[Len(w)] = g[Len(w)]
  BY <1>1, PartialSumsAgree
<1> QED BY <1>1, <1>2 DEF PartialSums

LEMMA SumType == ASSUME NEW w \in Seq(Int) PROVE SumOf(w) \in Int
BY SumIs, SumUnique

LEMMA SumEmpty == SumOf(<<>>) = 0
<1>1. <<>> \in Seq(Int) /\ Len(<<>>) = 0
  BY EmptySeq
<1> DEFINE e == <<>>
<1> HIDE DEF e
<1>2. PICK f : PartialSums(e, f) /\ SumOf(e) = f[Len(e)]
  BY <1>1, SumIs DEF e
<1> QED BY <1>1, <1>2 DEF PartialSums, e

LEMMA SumExcept ==
  ASSUME NEW w \in Seq(Int), NEW k \in 1 .. Len(w), NEW v \in Int
  PROVE  SumOf([w EXCEPT ![k] = v]) = SumOf(w) - w[k] + v
<1> DEFINE u == [w EXCEPT ![k] = v]
<1>1. u \in Seq(Int) /\ Len(u) = Len(w) /\ \A j \in 1 .. Len(w) : u[j] = IF j = k THEN v ELSE w[j]
  BY ExceptSeq
<1>2. PICK f : PartialSums(w, f) /\ SumOf(w) = f[Len(w)]
  BY SumIs
<1> HIDE DEF u
<1> DEFINE g == [i \in 0 .. Len(w) |-> IF i < k THEN f[i] ELSE f[i] - w[k] + v]
<1>3. PartialSums(u, g)
  <2>1. g \in [0 .. Len(u) -> Int] /\ g[0] = 0
    BY <1>1, <1>2 DEF PartialSums
  <2>2. ASSUME NEW i \in 1 .. Len(u) PROVE g[i] = g[i - 1] + u[i]
    <3>1. i \in 1 .. Len(w) /\ i \in 0 .. Len(w) /\ i - 1 \in 0 .. Len(w) /\ u[i] = IF i = k THEN v ELSE w[i]
      BY <1>1
    <3>2. f[i] = f[i - 1] + w[i] /\ f[i] \in Int /\ f[i - 1] \in Int
      BY <1>2, <3>1 DEF PartialSums
    <3>3. w[i] \in Int /\ w[k] \in Int
      BY <3>1
    <3>4. g[i] = (IF i < k THEN f[i] ELSE f[i] - w[k] + v) /\ g[i - 1] = IF i - 1 < k THEN f[i - 1] ELSE f[i - 1] - w[k] + v
      BY <3>1
    <3> HIDE DEF g
    <3>5. CASE i < k
      BY <3>1, <3>2, <3>3, <3>4, <3>5
    <3>6. CASE i = k
      BY <3>1, <3>2, <3>3, <3>4, <3>6
    <3>7. CASE i > k
      BY <3>1, <3>2, <3>3, <3>4, <3>7
    <3> QED BY <3>1, <3>5, <3>6, <3>7
  <2> QED BY <2>1, <2>2 DEF PartialSums
<1>4. SumOf(u) = g[Len(w)] /\ g[Len(w)] = f[Len(w)] - w[k] + v
  BY <1>1, <1>3, SumUnique
<1> QED BY <1>2, <1>4 DEF u

LEMMA SumConcat ==
  ASSUME NEW w \in Seq(Int), NEW x \in Seq(Int)
  PROVE  SumOf(w \o x) = SumOf(w) + SumOf(x)
<1> DEFINE u == w \o x
           m == Len(w)
           n == Len(x)
<1>1. u \in Seq(Int) /\ Len(u) = m + n /\ \A i \in 1 .. m + n : u[i] = IF i <= m THEN w[i] ELSE x[i - m]
  BY ConcatProperties
<1>2. PICK f : PartialSums(w, f) /\ SumOf(w) = f[m]
  BY SumIs
<1>3. PICK e : PartialSums(x, e) /\ SumOf(x) = e[n]
  BY SumIs
<1>4. m \in Nat /\ n \in Nat
  OBVIOUS
<1>5. f \in [0 .. m -> Int] /\ f[0] = 0 /\ \A i \in 1 .. m : f[i] = f[i - 1] + w[i]
  BY <1>2 DEF PartialSums
<1>6. e \in [0 .. n -> Int] /\ e[0] = 0 /\ \A i \in 1 .. n : e[i] = e[i - 1] + x[i]
  BY <1>3 DEF PartialSums
<1> HIDE DEF u, m, n
<1> DEFINE g == [i \in 0 .. m + n |-> IF i <= m THEN f[i] ELSE f[m] + e[i - m]]
<1>7. PartialSums(u, g)
  <2>0. \A i \in 0 .. m + n : g[i] = IF i <= m THEN f[i] ELSE f[m] + e[i - m]
    OBVIOUS
  <2>1. g \in [0 .. Len(u) -> Int]
    <3>1. ASSUME NEW i \in 0 .. m + n PROVE (IF i <= m THEN f[i] ELSE f[m] + e[i - m]) \in Int
      <4>1. CASE i <= m
        BY <1>4, <1>5, <4>1
      <4>2. CASE ~(i <= m)
        <5>1. i - m \in 0 .. n /\ m \in 0 .. m
          BY <1>4, <4>2
        <5>2. f[m] \in Int /\ e[i - m] \in Int
          BY <1>5, <1>6, <5>1
        <5> QED BY <4>2, <5>2
      <4> QED BY <4>1, <4>2
    <3> QED BY <1>1, <3>1
  <2>2. g[0] = 0
    BY <1>4, <1>5, <2>0
  <2> HIDE DEF g
  <2>3. ASSUME NEW i \in 1 .. Len(u) PROVE g[i] = g[i - 1] + u[i]
    <3>0. i \in 1 .. m + n /\ i \in 0 .. m + n /\ i - 1 \in 0 .. m + n
      BY <1>1, <1>4
    <3>1. CASE i <= m
      <4>1. i \in 1 .. m /\ i - 1 <= m
        BY <1>4, <3>0, <3>1
      <4>2. g[i] = f[i] /\ g[i - 1] = f[i - 1] /\ u[i] = w[i]
        BY <1>1, <2>0, <3>0, <3>1, <4>1
      <4> QED BY <1>5, <4>1, <4>2
    <3>2. CASE i = m + 1
      <4>1. i - m = 1 /\ 1 \in 1 .. n /\ i - 1 = m /\ ~(i <= m) /\ m <= m
        BY <1>4, <3>0, <3>2
      <4>2. g[i] = f[m] + e[1] /\ g[m] = f[m] /\ u[i] = x[1]
        BY <1>1, <2>0, <3>0, <4>1
      <4>3. e[1] = e[1 - 1] + x[1] /\ 1 - 1 = 0
        BY <1>6, <4>1
      <4>4. x[1] \in Int
        BY <4>1, <1>4, ElementOfSeq DEF n
      <4> QED BY <1>6, <4>1, <4>2, <4>3, <4>4
    <3>3. CASE i > m + 1
      <4>1. i - m \in 1 .. n /\ i - 1 - m \in 0 .. n /\ (i - m) - 1 = i - 1 - m /\ ~(i <= m) /\ ~(i - 1 <= m)
            /\ m \in 0 .. m
        BY <1>4, <3>0, <3>3
      <4>2. e[i - m] = e[i - 1 - m] + x[i - m] /\ u[i] = x[i - m]
        BY <1>1, <1>6, <3>0, <4>1
      <4>3. x[i - m] \in Int
        BY <1>4, <4>1, ElementOfSeq DEF n
      <4>4. e[i - 1 - m] \in Int /\ f[m] \in Int
        BY <1>5, <1>6, <4>1
      <4>5. g[i] = f[m] + e[i - m] /\ g[i - 1] = f[m] + e[i - 1 - m]
        BY <2>0, <3>0, <4>1
      <4> QED BY <4>2, <4>3, <4>4, <4>5
    <3> QED BY <1>4, <3>0, <3>1, <3>2, <3>3
  <2> QED BY <2>1, <2>2, <2>3 DEF PartialSums
<1>8. SumOf(u) = g[m + n]
  BY <1>1, <1>7, SumUnique
<1>9. g[m + n] = f[m] + e[n]
  <2>1. CASE n = 0
    BY <1>4, <1>5, <1>6, <2>1
  <2>2. CASE n # 0
    BY <1>4, <2>2
  <2> QED BY <2>1, <2>2
<1> QED BY <1>2, <1>3, <1>8, <1>9 DEF u

LEMMA SumOne == ASSUME NEW v \in Int PROVE SumOf(<<v>>) = v
<1> DEFINE g == [i \in 0 .. 1 |-> IF i = 0 THEN 0 ELSE v]
<1>1. PartialSums(<<v>>, g)
  BY DEF PartialSums
<1> QED BY <1>1, SumUnique

LEMMA SumAppend ==
  ASSUME NEW w \in Seq(Int), NEW v \in Int
  PROVE  SumOf(Append(w, v)) = SumOf(w) + v
<1>1. Append(w, v) = w \o <<v>> /\ <<v>> \in Seq(Int)
  BY AppendIsConcat
<1> QED BY <1>1, SumConcat, SumOne

\* Sums of natural numbers.
LEMMA SumNat ==
  ASSUME NEW w \in Seq(Nat)
  PROVE  SumOf(w) \in Nat
<1>1. w \in Seq(Int)
  BY SeqMonotonic
<1>2. PICK f : PartialSums(w, f) /\ SumOf(w) = f[Len(w)]
  BY <1>1, SumIs
<1> DEFINE S == {k \in Nat : k <= Len(w) => f[k] \in Nat}
<1>3. Nat \subseteq S
  <2>1. 0 \in S
    BY <1>2 DEF PartialSums
  <2>2. ASSUME NEW k \in Nat, k \in S, k + 1 <= Len(w) PROVE f[k + 1] \in Nat
    <3>1. k + 1 \in 1 .. Len(w) /\ (k + 1) - 1 = k /\ f[k] \in Nat
      BY <2>2
    <3> QED BY <1>2, <3>1 DEF PartialSums
  <2>3. \A k \in Nat : k \in S => k + 1 \in S
    BY <2>2
  <2> HIDE DEF S
  <2> QED BY <2>1, <2>3, SetInduction
<1> QED BY <1>2, <1>3

LEMMA SumAtLeast ==
  ASSUME NEW w \in Seq(Nat), NEW k \in 1 .. Len(w)
  PROVE  SumOf(w) >= w[k]
<1>1. w \in Seq(Int)
  BY SeqMonotonic
<1>2. SumOf([w EXCEPT ![k] = 0]) = SumOf(w) - w[k] + 0
  BY <1>1, SumExcept
<1>3. [w EXCEPT ![k] = 0] \in Seq(Nat)
  BY ExceptSeq
<1>4. SumOf([w EXCEPT ![k] = 0]) \in Nat /\ SumOf(w) \in Int /\ w[k] \in Nat
  BY <1>1, <1>3, SumNat, SumType
<1> QED BY <1>2, <1>4

LEMMA SumAtLeastTwo ==
  ASSUME NEW w \in Seq(Nat), NEW k \in 1 .. Len(w), NEW j \in 1 .. Len(w), j # k
  PROVE  SumOf(w) >= w[k] + w[j]
<1>1. w \in Seq(Int)
  BY SeqMonotonic
<1>2. SumOf([w EXCEPT ![k] = 0]) = SumOf(w) - w[k] + 0
  BY <1>1, SumExcept
<1>3. [w EXCEPT ![k] = 0] \in Seq(Nat) /\ Len([w EXCEPT ![k] = 0]) = Len(w) /\ [w EXCEPT ![k] = 0][j] = w[j]
  BY ExceptSeq
<1>4. SumOf([w EXCEPT ![k] = 0]) >= w[j] /\ SumOf([w EXCEPT ![k] = 0]) \in Nat
  BY <1>3, SumAtLeast, SumNat
<1>5. SumOf(w) \in Int /\ w[k] \in Nat /\ w[j] \in Nat
  BY <1>1, SumType
<1> QED BY <1>2, <1>4, <1>5

LEMMA SumZero ==
  ASSUME NEW w \in Seq(Int), \A i \in 1 .. Len(w) : w[i] = 0
  PROVE  SumOf(w) = 0
<1> DEFINE g == [i \in 0 .. Len(w) |-> 0]
<1>1. PartialSums(w, g)
  BY DEF PartialSums
<1> QED BY <1>1, SumUnique

LEMMA SumPositive ==
  ASSUME NEW w \in Seq(Nat), SumOf(w) # 0
  PROVE  \E i \in 1 .. Len(w) : w[i] > 0
<1> SUFFICES ASSUME \A i \in 1 .. Len(w) : ~(w[i] > 0) PROVE FALSE
  OBVIOUS
<1>1. \A i \in 1 .. Len(w) : w[i] = 0
  OBVIOUS
<1>2. w \in Seq(Int)
  BY SeqMonotonic
<1> QED BY <1>1, <1>2, SumZero

LEMMA SumMonotonic ==
  ASSUME NEW w \in Seq(Int), NEW u \in Seq(Int), Len(u) = Len(w),
         \A i \in 1 .. Len(w) : w[i] <= u[i]
  PROVE  SumOf(w) <= SumOf(u)
<1>1. PICK f : PartialSums(w, f) /\ SumOf(w) = f[Len(w)]
  BY SumIs
<1>2. PICK g : PartialSums(u, g) /\ SumOf(u) = g[Len(u)]
  BY SumIs
<1> DEFINE S == {k \in Nat : k <= Len(w) => f[k] <= g[k]}
<1>3. Nat \subseteq S
  <2>1. 0 \in S
    BY <1>1, <1>2 DEF PartialSums
  <2>2. ASSUME NEW k \in Nat, k \in S, k + 1 <= Len(w) PROVE f[k + 1] <= g[k + 1]
    <3>1. k + 1 \in 1 .. Len(w) /\ (k + 1) - 1 = k /\ f[k] <= g[k] /\ k \in 0 .. Len(w)
      BY <2>2
    <3>2. f[k + 1] = f[k] + w[k + 1] /\ g[k + 1] = g[k] + u[k + 1] /\ f[k] \in Int /\ g[k] \in Int
      BY <1>1, <1>2, <3>1 DEF PartialSums
    <3>3. w[k + 1] \in Int /\ u[k + 1] \in Int /\ w[k + 1] <= u[k + 1]
      BY <3>1
    <3> QED BY <3>1, <3>2, <3>3
  <2>3. \A k \in Nat : k \in S => k + 1 \in S
    BY <2>2
  <2> HIDE DEF S
  <2> QED BY <2>1, <2>3, SetInduction
<1> QED BY <1>1, <1>2, <1>3

-----------------------------------------------------------------------------
(* How often a sequence has an element of a set.                           *)

One(e, P) == IF e \in P THEN 1 ELSE 0

Marks(s, P) == [i \in 1 .. Len(s) |-> One(s[i], P)]

Cnt(s, P) == SumOf(Marks(s, P))

LEMMA TupleIsSeq ==
  ASSUME NEW S, NEW n \in Nat, NEW f \in [1 .. n -> S]
  PROVE  f \in Seq(S) /\ Len(f) = n
OBVIOUS

LEMMA MarksType ==
  ASSUME NEW S, NEW s \in Seq(S), NEW P
  PROVE  /\ Marks(s, P) \in Seq(Nat) /\ Marks(s, P) \in Seq(Int)
         /\ Len(Marks(s, P)) = Len(s)
         /\ \A i \in 1 .. Len(s) : Marks(s, P)[i] = One(s[i], P)
<1>1. Marks(s, P) \in [1 .. Len(s) -> Nat] /\ Len(s) \in Nat
  BY DEF Marks, One
<1>2. Marks(s, P) \in Seq(Nat) /\ Len(Marks(s, P)) = Len(s)
  BY <1>1, TupleIsSeq
<1>3. Marks(s, P) \in Seq(Int)
  BY <1>2, SeqMonotonic
<1> QED BY <1>2, <1>3 DEF Marks

LEMMA CntType == ASSUME NEW S, NEW s \in Seq(S), NEW P PROVE Cnt(s, P) \in Nat
BY MarksType, SumNat DEF Cnt

LEMMA CntEmpty == ASSUME NEW P PROVE Cnt(<<>>, P) = 0
<1>1. <<>> \in Seq({}) /\ Len(<<>>) = 0
  BY EmptySeq
<1>2. Marks(<<>>, P) \in Seq(Int) /\ Len(Marks(<<>>, P)) = 0
  BY <1>1, MarksType
<1> QED BY <1>2, SumZero DEF Cnt

LEMMA CntOne == ASSUME NEW e, NEW P PROVE Cnt(<<e>>, P) = One(e, P)
<1>1. Marks(<<e>>, P) = <<One(e, P)>>
  BY DEF Marks
<1>2. One(e, P) \in Int
  BY DEF One
<1> QED BY <1>1, <1>2, SumOne DEF Cnt

LEMMA CntConcat ==
  ASSUME NEW S, NEW s \in Seq(S), NEW t \in Seq(S), NEW P
  PROVE  Cnt(s \o t, P) = Cnt(s, P) + Cnt(t, P)
<1> DEFINE a == Marks(s, P)
           b == Marks(t, P)
           c == Marks(s \o t, P)
<1>1. s \o t \in Seq(S) /\ Len(s \o t) = Len(s) + Len(t) /\ Len(s) \in Nat /\ Len(t) \in Nat
  BY ConcatProperties
<1>2. \A i \in 1 .. Len(s) + Len(t) : (s \o t)[i] = IF i <= Len(s) THEN s[i] ELSE t[i - Len(s)]
  BY ConcatProperties
<1>3. /\ a \in Seq(Int) /\ Len(a) = Len(s) /\ \A i \in 1 .. Len(s) : a[i] = One(s[i], P)
      /\ b \in Seq(Int) /\ Len(b) = Len(t) /\ \A i \in 1 .. Len(t) : b[i] = One(t[i], P)
  BY MarksType
<1>4. /\ c \in Seq(Int) /\ Len(c) = Len(s) + Len(t)
      /\ \A i \in 1 .. Len(s) + Len(t) : c[i] = One((s \o t)[i], P)
  BY <1>1, MarksType
<1> HIDE DEF a, b, c
<1>5. /\ a \o b \in Seq(Int) /\ Len(a \o b) = Len(s) + Len(t)
      /\ \A i \in 1 .. Len(s) + Len(t) : (a \o b)[i] = IF i <= Len(s) THEN a[i] ELSE b[i - Len(s)]
  <2>1. a \in Seq(Int) /\ b \in Seq(Int)
    BY <1>3
  <2>2. a \o b \in Seq(Int) /\ Len(a \o b) = Len(a) + Len(b)
    BY <2>1, ConcatProperties
  <2>3. \A i \in 1 .. Len(a) + Len(b) : (a \o b)[i] = IF i <= Len(a) THEN a[i] ELSE b[i - Len(a)]
    BY <2>1, ConcatProperties
  <2> QED BY <1>3, <2>2, <2>3, Zenon
<1>6. ASSUME NEW i \in 1 .. Len(c) PROVE c[i] = (a \o b)[i]
  <2>0. i \in 1 .. Len(s) + Len(t)
    BY <1>4
  <2>1. CASE i <= Len(s)
    <3>1. i \in 1 .. Len(s)
      BY <1>1, <2>0, <2>1
    <3> QED BY <1>2, <1>3, <1>4, <1>5, <2>0, <2>1, <3>1
  <2>2. CASE ~(i <= Len(s))
    <3>1. i - Len(s) \in 1 .. Len(t)
      BY <1>1, <2>0, <2>2
    <3> QED BY <1>2, <1>3, <1>4, <1>5, <2>0, <2>2, <3>1
  <2> QED BY <2>1, <2>2
<1>7. c = a \o b
  BY <1>4, <1>5, <1>6, SeqEqual
<1> QED BY <1>3, <1>7, SumConcat DEF a, b, c, Cnt

LEMMA ConcatFacts ==
  ASSUME NEW S, NEW s \in Seq(S), NEW t \in Seq(S), NEW P
  PROVE  /\ s \o t \in Seq(S) /\ Len(s \o t) = Len(s) + Len(t)
         /\ Cnt(s \o t, P) = Cnt(s, P) + Cnt(t, P)
BY ConcatProperties, CntConcat, Zenon

\* A sequence around its element i.
LEMMA Around ==
  ASSUME NEW S, NEW s \in Seq(S), NEW i \in 1 .. Len(s)
  PROVE  /\ SubSeq(s, 1, i - 1) \in Seq(S) /\ Len(SubSeq(s, 1, i - 1)) = i - 1
         /\ SubSeq(s, i + 1, Len(s)) \in Seq(S) /\ Len(SubSeq(s, i + 1, Len(s))) = Len(s) - i
         /\ SubSeq(s, i, Len(s)) = <<s[i]>> \o SubSeq(s, i + 1, Len(s))
         /\ s = SubSeq(s, 1, i - 1) \o (<<s[i]>> \o SubSeq(s, i + 1, Len(s)))
         /\ s[i] \in S /\ <<s[i]>> \in Seq(S)
<1>0. Len(s) \in Nat /\ \A j \in 1 .. Len(s) : s[j] \in S
  OBVIOUS
<1>1. SubSeq(s, 1, i - 1) \in Seq(S) /\ Len(SubSeq(s, 1, i - 1)) = i - 1
  <2>1. \A j \in 1 .. i - 1 : s[j] \in S
    BY <1>0
  <2>2. 1 \in Int /\ i - 1 \in Int
    OBVIOUS
  <2> QED BY <2>1, <2>2, SubSeqProperties
<1>2. SubSeq(s, i + 1, Len(s)) \in Seq(S) /\ Len(SubSeq(s, i + 1, Len(s))) = Len(s) - i
  <2>1. \A j \in i + 1 .. Len(s) : s[j] \in S
    BY <1>0
  <2>2. i + 1 \in Int /\ Len(s) \in Int
    OBVIOUS
  <2> QED BY <2>1, <2>2, SubSeqProperties
<1>3. SubSeq(s, i, Len(s)) = <<s[i]>> \o SubSeq(s, i + 1, Len(s))
  <2>1. Len(s) \in i .. Len(s)
    BY <1>0
  <2> QED BY <2>1, SubSeqRecursiveFirst
<1>4. SubSeq(s, 1, i - 1) \o SubSeq(s, (i - 1) + 1, Len(s)) = SubSeq(s, 1, Len(s))
  <2>1. 1 \in 1 .. Len(s) + 1 /\ i - 1 \in 1 - 1 .. Len(s) /\ Len(s) \in i - 1 .. Len(s)
    BY <1>0
  <2> QED BY <2>1, ConcatAdjacentSubSeq
<1>5. (i - 1) + 1 = i /\ SubSeq(s, 1, Len(s)) = s
  BY SubSeqFull
<1>6. s[i] \in S /\ <<s[i]>> \in Seq(S)
  BY <1>0
<1> QED BY <1>1, <1>2, <1>3, <1>4, <1>5, <1>6

LEMMA CntAround ==
  ASSUME NEW S, NEW s \in Seq(S), NEW i \in 1 .. Len(s), NEW P
  PROVE  Cnt(s, P) = Cnt(SubSeq(s, 1, i - 1), P) + One(s[i], P) + Cnt(SubSeq(s, i + 1, Len(s)), P)
<1> DEFINE a == SubSeq(s, 1, i - 1)
           c == SubSeq(s, i + 1, Len(s))
<1>1. a \in Seq(S) /\ c \in Seq(S) /\ <<s[i]>> \in Seq(S) /\ s = a \o (<<s[i]>> \o c)
  BY Around
<1> HIDE DEF a, c
<1>2. <<s[i]>> \o c \in Seq(S)
  BY <1>1, ConcatProperties
<1>3. Cnt(a \o (<<s[i]>> \o c), P) = Cnt(a, P) + Cnt(<<s[i]>> \o c, P)
  BY <1>1, <1>2, CntConcat, Zenon
<1>4. Cnt(<<s[i]>> \o c, P) = One(s[i], P) + Cnt(c, P)
  <2>1. Cnt(<<s[i]>> \o c, P) = Cnt(<<s[i]>>, P) + Cnt(c, P)
    BY <1>1, CntConcat, ZenonT(40)
  <2>2. Cnt(<<s[i]>>, P) = One(s[i], P)
    BY CntOne, Zenon
  <2> QED BY <2>1, <2>2
<1>5. Cnt(a, P) \in Nat /\ Cnt(c, P) \in Nat /\ One(s[i], P) \in Nat
  BY <1>1, CntType DEF One
<1>6. Cnt(s, P) = Cnt(a \o (<<s[i]>> \o c), P)
  BY <1>1
<1>7. Cnt(s, P) = Cnt(a, P) + One(s[i], P) + Cnt(c, P)
  BY <1>3, <1>4, <1>5, <1>6
<1> QED BY <1>7 DEF a, c

LEMMA CutAt ==
  ASSUME NEW S, NEW s \in Seq(S), NEW n \in 0 .. Len(s)
  PROVE  /\ SubSeq(s, 1, n) \in Seq(S) /\ Len(SubSeq(s, 1, n)) = n
         /\ SubSeq(s, n + 1, Len(s)) \in Seq(S) /\ Len(SubSeq(s, n + 1, Len(s))) = Len(s) - n
         /\ s = SubSeq(s, 1, n) \o SubSeq(s, n + 1, Len(s))
<1>0. Len(s) \in Nat /\ \A j \in 1 .. Len(s) : s[j] \in S
  OBVIOUS
<1>1. SubSeq(s, 1, n) \in Seq(S) /\ Len(SubSeq(s, 1, n)) = n
  <2>1. \A j \in 1 .. n : s[j] \in S
    BY <1>0
  <2>2. 1 \in Int /\ n \in Int
    OBVIOUS
  <2> QED BY <2>1, <2>2, SubSeqProperties
<1>2. SubSeq(s, n + 1, Len(s)) \in Seq(S) /\ Len(SubSeq(s, n + 1, Len(s))) = Len(s) - n
  <2>1. \A j \in n + 1 .. Len(s) : s[j] \in S
    BY <1>0
  <2>2. n + 1 \in Int /\ Len(s) \in Int
    OBVIOUS
  <2> QED BY <2>1, <2>2, SubSeqProperties
<1>3. SubSeq(s, 1, n) \o SubSeq(s, n + 1, Len(s)) = SubSeq(s, 1, Len(s)) /\ SubSeq(s, 1, Len(s)) = s
  <2>1. 1 \in 1 .. Len(s) + 1 /\ n \in 1 - 1 .. Len(s) /\ Len(s) \in n .. Len(s)
    BY <1>0
  <2> QED BY <2>1, ConcatAdjacentSubSeq, SubSeqFull
<1> QED BY <1>1, <1>2, <1>3

LEMMA CntCut ==
  ASSUME NEW S, NEW s \in Seq(S), NEW n \in 0 .. Len(s), NEW P
  PROVE  Cnt(s, P) = Cnt(SubSeq(s, 1, n), P) + Cnt(SubSeq(s, n + 1, Len(s)), P)
<1>1. /\ SubSeq(s, 1, n) \in Seq(S) /\ SubSeq(s, n + 1, Len(s)) \in Seq(S)
      /\ s = SubSeq(s, 1, n) \o SubSeq(s, n + 1, Len(s))
  BY CutAt
<1> DEFINE a == SubSeq(s, 1, n)
           c == SubSeq(s, n + 1, Len(s))
<1>2. a \in Seq(S) /\ c \in Seq(S) /\ s = a \o c
  BY <1>1
<1> HIDE DEF a, c
<1>3. Cnt(a \o c, P) = Cnt(a, P) + Cnt(c, P)
  BY <1>2, CntConcat, Zenon
<1>4. Cnt(s, P) = Cnt(a, P) + Cnt(c, P)
  BY <1>2, <1>3, Zenon
<1> QED BY <1>4 DEF a, c

LEMMA InsertAtFacts ==
  ASSUME NEW S, NEW s \in Seq(S), NEW i \in 1 .. Len(s) + 1, NEW e \in S, NEW P
  PROVE  /\ InsertAt(s, i, e) \in Seq(S) /\ Len(InsertAt(s, i, e)) = Len(s) + 1
         /\ Cnt(InsertAt(s, i, e), P) = Cnt(s, P) + One(e, P)
<1> DEFINE n == i - 1
           a == SubSeq(s, 1, n)
           c == SubSeq(s, n + 1, Len(s))
<1>0. n \in 0 .. Len(s) /\ n + 1 = i
  OBVIOUS
<1>2. InsertAt(s, i, e) = (a \o <<e>>) \o c
  BY <1>0 DEF InsertAt
<1> HIDE DEF n
<1>1. /\ a \in Seq(S) /\ Len(a) = n /\ c \in Seq(S) /\ Len(c) = Len(s) - n
      /\ Cnt(s, P) = Cnt(a, P) + Cnt(c, P)
  <2>1. n \in 0 .. Len(s)
    BY <1>0
  <2>2. a \in Seq(S) /\ Len(a) = n
    BY <2>1, CutAt
  <2>3. c \in Seq(S) /\ Len(c) = Len(s) - n
    BY <2>1, CutAt
  <2>4. Cnt(s, P) = Cnt(a, P) + Cnt(c, P)
    BY <2>1, CntCut, Zenon
  <2> HIDE DEF a, c
  <2> QED BY <2>2, <2>3, <2>4
<1> HIDE DEF a, c
<1>3. <<e>> \in Seq(S) /\ Len(<<e>>) = 1
  OBVIOUS
<1>4. a \o <<e>> \in Seq(S) /\ Len(a \o <<e>>) = n + 1 /\ Cnt(a \o <<e>>, P) = Cnt(a, P) + One(e, P)
  <2>1. a \in Seq(S) /\ Len(a) = n
    BY <1>1
  <2>2. a \o <<e>> \in Seq(S) /\ Len(a \o <<e>>) = Len(a) + Len(<<e>>) /\ Cnt(a \o <<e>>, P) = Cnt(a, P) + Cnt(<<e>>, P)
    <3> DEFINE b == <<e>>
    <3>1. a \in Seq(S) /\ b \in Seq(S)
      BY <1>3, <2>1
    <3> HIDE DEF b
    <3>2. a \o b \in Seq(S) /\ Len(a \o b) = Len(a) + Len(b) /\ Cnt(a \o b, P) = Cnt(a, P) + Cnt(b, P)
      BY <3>1, ConcatFacts
    <3> QED BY <3>2 DEF b
  <2>3. Cnt(<<e>>, P) = One(e, P)
    BY CntOne, Zenon
  <2> QED BY <1>3, <2>1, <2>2, <2>3
<1>5. /\ (a \o <<e>>) \o c \in Seq(S) /\ Len((a \o <<e>>) \o c) = (n + 1) + (Len(s) - n)
      /\ Cnt((a \o <<e>>) \o c, P) = Cnt(a \o <<e>>, P) + Cnt(c, P)
  <2>1. a \o <<e>> \in Seq(S) /\ c \in Seq(S)
    BY <1>1, <1>4
  <2>2. /\ (a \o <<e>>) \o c \in Seq(S) /\ Len((a \o <<e>>) \o c) = Len(a \o <<e>>) + Len(c)
        /\ Cnt((a \o <<e>>) \o c, P) = Cnt(a \o <<e>>, P) + Cnt(c, P)
    <3> DEFINE b == a \o <<e>>
    <3>1. b \in Seq(S) /\ c \in Seq(S)
      BY <2>1
    <3> HIDE DEF b
    <3>2. b \o c \in Seq(S) /\ Len(b \o c) = Len(b) + Len(c) /\ Cnt(b \o c, P) = Cnt(b, P) + Cnt(c, P)
      BY <3>1, ConcatFacts
    <3> QED BY <3>2 DEF b
  <2> QED BY <1>1, <1>4, <2>2
<1>6. Cnt(a, P) \in Nat /\ Cnt(c, P) \in Nat /\ One(e, P) \in Nat /\ Len(s) \in Nat
  BY <1>1, CntType DEF One
<1> QED BY <1>0, <1>1, <1>2, <1>4, <1>5, <1>6

LEMMA RemoveAtFacts ==
  ASSUME NEW S, NEW s \in Seq(S), NEW i \in 1 .. Len(s), NEW P
  PROVE  /\ RemoveAt(s, i) \in Seq(S) /\ Len(RemoveAt(s, i)) = Len(s) - 1
         /\ Cnt(RemoveAt(s, i), P) = Cnt(s, P) - One(s[i], P)
<1> DEFINE a == SubSeq(s, 1, i - 1)
           c == SubSeq(s, i + 1, Len(s))
<1>1. a \in Seq(S) /\ Len(a) = i - 1 /\ c \in Seq(S) /\ Len(c) = Len(s) - i
  BY Around
<1>2. Cnt(s, P) = Cnt(a, P) + One(s[i], P) + Cnt(c, P)
  BY CntAround
<1>3. RemoveAt(s, i) = a \o c
  BY DEF RemoveAt
<1> HIDE DEF a, c
<1>4. a \o c \in Seq(S) /\ Len(a \o c) = (i - 1) + (Len(s) - i) /\ Cnt(a \o c, P) = Cnt(a, P) + Cnt(c, P)
  <2>1. a \in Seq(S) /\ c \in Seq(S)
    BY <1>1
  <2>2. a \o c \in Seq(S) /\ Len(a \o c) = Len(a) + Len(c) /\ Cnt(a \o c, P) = Cnt(a, P) + Cnt(c, P)
    BY <2>1, ConcatFacts
  <2> QED BY <1>1, <2>2
<1>5. Cnt(a, P) \in Nat /\ Cnt(c, P) \in Nat /\ One(s[i], P) \in Nat /\ Len(s) \in Nat
  BY <1>1, CntType DEF One
<1> QED BY <1>2, <1>3, <1>4, <1>5

LEMMA TailFacts ==
  ASSUME NEW S, NEW s \in Seq(S), Len(s) > 0, NEW P
  PROVE  /\ Tail(s) \in Seq(S) /\ Len(Tail(s)) = Len(s) - 1
         /\ Head(s) = s[1] /\ s[1] \in S
         /\ Cnt(Tail(s), P) = Cnt(s, P) - One(s[1], P)
<1>1. Len(s) \in Nat /\ 1 \in 1 .. Len(s) /\ s # <<>>
  OBVIOUS
<1>2. Tail(s) \in Seq(S) /\ Len(Tail(s)) = Len(s) - 1 /\ Head(s) = s[1] /\ s[1] \in S
  BY <1>1, HeadTailProperties
<1>3. Tail(s) = SubSeq(s, 1 + 1, Len(s))
  BY <1>1, TailIsSubSeq
<1>4. Cnt(s, P) = Cnt(SubSeq(s, 1, 1 - 1), P) + One(s[1], P) + Cnt(SubSeq(s, 1 + 1, Len(s)), P)
  BY <1>1, CntAround
<1>5. SubSeq(s, 1, 1 - 1) = <<>> /\ Cnt(<<>>, P) = 0
  BY SubSeqEmpty, CntEmpty
<1>6. Cnt(Tail(s), P) \in Nat /\ One(s[1], P) \in Nat
  BY <1>2, CntType DEF One
<1>7. Cnt(s, P) = 0 + One(s[1], P) + Cnt(Tail(s), P)
  BY <1>3, <1>4, <1>5, Zenon
<1> QED BY <1>2, <1>6, <1>7

LEMMA FrontFacts ==
  ASSUME NEW S, NEW s \in Seq(S), Len(s) > 0, NEW P
  PROVE  /\ Front(s) \in Seq(S) /\ Len(Front(s)) = Len(s) - 1
         /\ Last(s) = s[Len(s)] /\ s[Len(s)] \in S
         /\ Cnt(Front(s), P) = Cnt(s, P) - One(s[Len(s)], P)
<1>1. Len(s) \in Nat /\ Len(s) \in 1 .. Len(s)
  OBVIOUS
<1>2. Front(s) \in Seq(S) /\ Len(Front(s)) = Len(s) - 1 /\ s[Len(s)] \in S
  BY <1>1, Around DEF Front
<1>3. /\ Cnt(s, P) = Cnt(Front(s), P) + One(s[Len(s)], P) + Cnt(SubSeq(s, Len(s) + 1, Len(s)), P)
  BY <1>1, CntAround DEF Front
<1>4. SubSeq(s, Len(s) + 1, Len(s)) = <<>> /\ Cnt(<<>>, P) = 0
  BY <1>1, SubSeqEmpty, CntEmpty
<1>5. Cnt(Front(s), P) \in Nat /\ One(s[Len(s)], P) \in Nat
  BY <1>2, CntType DEF One
<1>6. Cnt(s, P) = Cnt(Front(s), P) + One(s[Len(s)], P) + 0
  BY <1>3, <1>4, Zenon
<1> QED BY <1>2, <1>5, <1>6 DEF Last

LEMMA ExceptFacts ==
  ASSUME NEW S, NEW s \in Seq(S), NEW i \in 1 .. Len(s), NEW e \in S, NEW P
  PROVE  /\ [s EXCEPT ![i] = e] \in Seq(S) /\ Len([s EXCEPT ![i] = e]) = Len(s)
         /\ Cnt([s EXCEPT ![i] = e], P) = Cnt(s, P) - One(s[i], P) + One(e, P)
<1> DEFINE u == [s EXCEPT ![i] = e]
           m == Marks(s, P)
<1>1. u \in Seq(S) /\ Len(u) = Len(s) /\ \A j \in 1 .. Len(s) : u[j] = IF j = i THEN e ELSE s[j]
  BY ExceptSeq
<1>2. m \in Seq(Int) /\ Len(m) = Len(s) /\ \A j \in 1 .. Len(s) : m[j] = One(s[j], P)
  BY MarksType
<1>3. Marks(u, P) \in Seq(Int) /\ Len(Marks(u, P)) = Len(s) /\ \A j \in 1 .. Len(s) : Marks(u, P)[j] = One(u[j], P)
  BY <1>1, MarksType
<1> HIDE DEF u, m
<1>4. One(e, P) \in Int
  BY DEF One
<1>5. /\ [m EXCEPT ![i] = One(e, P)] \in Seq(Int) /\ Len([m EXCEPT ![i] = One(e, P)]) = Len(s)
      /\ \A j \in 1 .. Len(s) : [m EXCEPT ![i] = One(e, P)][j] = IF j = i THEN One(e, P) ELSE m[j]
  BY <1>2, <1>4, ExceptSeq
<1>6. Marks(u, P) = [m EXCEPT ![i] = One(e, P)]
  <2>1. \A j \in 1 .. Len(Marks(u, P)) : Marks(u, P)[j] = [m EXCEPT ![i] = One(e, P)][j]
    BY <1>1, <1>2, <1>3, <1>5
  <2> QED BY <1>3, <1>5, <2>1, SeqEqual
<1>7. SumOf([m EXCEPT ![i] = One(e, P)]) = SumOf(m) - m[i] + One(e, P)
  BY <1>2, <1>4, SumExcept
<1> QED BY <1>1, <1>2, <1>6, <1>7 DEF Cnt, u, m

LEMMA AppendFacts ==
  ASSUME NEW S, NEW s \in Seq(S), NEW e \in S, NEW P
  PROVE  /\ Append(s, e) \in Seq(S) /\ Len(Append(s, e)) = Len(s) + 1
         /\ Cnt(Append(s, e), P) = Cnt(s, P) + One(e, P)
<1>1. Append(s, e) = s \o <<e>> /\ <<e>> \in Seq(S)
  BY AppendIsConcat
<1>2. Append(s, e) \in Seq(S) /\ Len(Append(s, e)) = Len(s) + 1
  BY AppendProperties
<1>3. Cnt(s \o <<e>>, P) = Cnt(s, P) + Cnt(<<e>>, P)
  BY <1>1, CntConcat, Zenon
<1>4. Cnt(<<e>>, P) = One(e, P)
  BY CntOne, Zenon
<1> QED BY <1>1, <1>2, <1>3, <1>4

LEMMA PrependFacts ==
  ASSUME NEW S, NEW s \in Seq(S), NEW e \in S, NEW P
  PROVE  /\ <<e>> \o s \in Seq(S) /\ Len(<<e>> \o s) = Len(s) + 1
         /\ Cnt(<<e>> \o s, P) = Cnt(s, P) + One(e, P)
<1>1. <<e>> \in Seq(S) /\ Len(<<e>>) = 1
  OBVIOUS
<1>2. <<e>> \o s \in Seq(S) /\ Len(<<e>> \o s) = Len(<<e>>) + Len(s) /\ Cnt(<<e>> \o s, P) = Cnt(<<e>>, P) + Cnt(s, P)
  BY <1>1, ConcatProperties, CntConcat
<1>3. Cnt(<<e>>, P) = One(e, P) /\ One(e, P) \in Nat /\ Cnt(s, P) \in Nat /\ Len(s) \in Nat
  BY CntOne, CntType DEF One
<1> QED BY <1>1, <1>2, <1>3

LEMMA CntAll ==
  ASSUME NEW S, NEW s \in Seq(S), NEW P, S \subseteq P
  PROVE  Cnt(s, P) = Len(s)
<1>1. /\ Marks(s, P) \in Seq(Int) /\ Len(Marks(s, P)) = Len(s)
      /\ \A i \in 1 .. Len(s) : Marks(s, P)[i] = One(s[i], P)
  BY MarksType
<1> DEFINE m == Marks(s, P)
           g == [i \in 0 .. Len(s) |-> i]
<1> HIDE DEF m
<1>2. \A i \in 1 .. Len(s) : m[i] = 1
  BY <1>1 DEF One, m
<1>3. PartialSums(m, g)
  BY <1>1, <1>2 DEF PartialSums, m
<1>4. SumOf(m) = g[Len(s)]
  BY <1>1, <1>3, SumUnique DEF m
<1> QED BY <1>4 DEF Cnt, m

LEMMA CntNone ==
  ASSUME NEW S, NEW s \in Seq(S), NEW P, \A e \in S : e \notin P
  PROVE  Cnt(s, P) = 0
<1>1. /\ Marks(s, P) \in Seq(Int) /\ Len(Marks(s, P)) = Len(s)
      /\ \A i \in 1 .. Len(s) : Marks(s, P)[i] = One(s[i], P)
  BY MarksType
<1>2. \A i \in 1 .. Len(s) : Marks(s, P)[i] = 0
  BY <1>1 DEF One
<1> QED BY <1>1, <1>2, SumZero DEF Cnt

LEMMA CntMember ==
  ASSUME NEW S, NEW s \in Seq(S), NEW P, NEW i \in 1 .. Len(s), s[i] \in P
  PROVE  Cnt(s, P) >= 1
<1>1. /\ Marks(s, P) \in Seq(Nat) /\ Len(Marks(s, P)) = Len(s) /\ Marks(s, P)[i] = 1
  BY MarksType DEF One
<1> QED BY <1>1, SumAtLeast DEF Cnt

LEMMA CntTwo ==
  ASSUME NEW S, NEW s \in Seq(S), NEW P, NEW i \in 1 .. Len(s), NEW j \in 1 .. Len(s), i # j,
         s[i] \in P, s[j] \in P
  PROVE  Cnt(s, P) >= 2
<1>1. Marks(s, P) \in Seq(Nat) /\ Len(Marks(s, P)) = Len(s) /\ Marks(s, P)[i] = 1 /\ Marks(s, P)[j] = 1
  BY MarksType DEF One
<1>2. SumOf(Marks(s, P)) >= Marks(s, P)[i] + Marks(s, P)[j]
  BY <1>1, SumAtLeastTwo
<1> QED BY <1>1, <1>2 DEF Cnt

LEMMA CntPositive ==
  ASSUME NEW S, NEW s \in Seq(S), NEW P, Cnt(s, P) # 0
  PROVE  \E i \in 1 .. Len(s) : s[i] \in P
<1>1. /\ Marks(s, P) \in Seq(Nat) /\ Len(Marks(s, P)) = Len(s)
      /\ \A i \in 1 .. Len(s) : Marks(s, P)[i] = One(s[i], P)
  BY MarksType
<1>2. PICK i \in 1 .. Len(s) : Marks(s, P)[i] > 0
  BY <1>1, SumPositive DEF Cnt
<1> QED BY <1>1, <1>2 DEF One

LEMMA CntSubset ==
  ASSUME NEW S, NEW s \in Seq(S), NEW P, NEW Q, P \subseteq Q
  PROVE  Cnt(s, P) <= Cnt(s, Q)
<1>1. /\ Marks(s, P) \in Seq(Int) /\ Len(Marks(s, P)) = Len(s)
      /\ \A i \in 1 .. Len(s) : Marks(s, P)[i] = One(s[i], P)
  BY MarksType
<1>2. /\ Marks(s, Q) \in Seq(Int) /\ Len(Marks(s, Q)) = Len(s)
      /\ \A i \in 1 .. Len(s) : Marks(s, Q)[i] = One(s[i], Q)
  BY MarksType
<1>3. \A i \in 1 .. Len(s) : Marks(s, P)[i] <= Marks(s, Q)[i]
  BY <1>1, <1>2 DEF One
<1> QED BY <1>1, <1>2, <1>3, SumMonotonic DEF Cnt

-----------------------------------------------------------------------------
(* Blocks, and what they add to a sum over all blocks of a file.           *)

Ent == [key : Keys, block : Nat, slot : Nat]
KeyBlocks == [self : Nat, kind : {"key"}, leaf : BOOLEAN, ents : Seq(Ent), kids : Seq(Nat)]
ValueBlocks == [self : Nat, kind : {"value"}, num : Nat, last : Nat, vals : Seq(Values)]
FreeBlocks == [self : Nat, kind : {"free"}, next : Nat]
Blocks == KeyBlocks \cup ValueBlocks \cup FreeBlocks

EntsOf(b) == IF b.kind = "key" THEN b.ents ELSE <<>>
KidsOf(b) == IF b.kind = "key" THEN b.kids ELSE <<>>

Counters == {"keys", "values", "keyBlocks", "valueBlocks"}

\* What a block adds to a counter of db_checker, how many of its entries are
\* in P, and how often c is its child.
WCount(counter) == [b \in Blocks |-> Counts(b, counter)]
WEnts(P) == [b \in Blocks |-> Cnt(EntsOf(b), P)]
WKids(c) == [b \in Blocks |-> Cnt(KidsOf(b), {c})]

Weigh(B, f) == SumOf([n \in 1 .. Len(B) |-> f[B[n]]])

\* The blocks with block n written.
Blk(B, n, b) == [B EXCEPT ![n] = b]

LEMMA KeyShape ==
  ASSUME NEW b \in Blocks, b.kind = "key"
  PROVE  /\ b = KeyBlock(b.self, b.leaf, b.ents, b.kids)
         /\ b.self \in Nat /\ b.leaf \in BOOLEAN /\ b.ents \in Seq(Ent) /\ b.kids \in Seq(Nat)
BY DEF Blocks, KeyBlocks, ValueBlocks, FreeBlocks, KeyBlock

LEMMA ValueShape ==
  ASSUME NEW b \in Blocks, b.kind = "value"
  PROVE  /\ b = ValueBlock(b.self, b.num, b.last, b.vals)
         /\ b.self \in Nat /\ b.num \in Nat /\ b.last \in Nat /\ b.vals \in Seq(Values)
BY DEF Blocks, KeyBlocks, ValueBlocks, FreeBlocks, ValueBlock

LEMMA FreeShape ==
  ASSUME NEW b \in Blocks, b.kind = "free"
  PROVE  b = FreeBlock(b.self, b.next) /\ b.self \in Nat /\ b.next \in Nat
BY DEF Blocks, KeyBlocks, ValueBlocks, FreeBlocks, FreeBlock

LEMMA BlockKinds == ASSUME NEW b \in Blocks PROVE b.kind \in {"key", "value", "free"} /\ b.self \in Nat
BY DEF Blocks, KeyBlocks, ValueBlocks, FreeBlocks

\* Key block b and what it weighs.
KeyFacts(b, n, leaf, ents, kids) ==
  /\ b \in Blocks
  /\ b.self = n /\ b.kind = "key" /\ b.leaf = leaf /\ b.ents = ents /\ b.kids = kids
  /\ WCount("keys")[b] = Len(ents) /\ WCount("values")[b] = 0
  /\ WCount("keyBlocks")[b] = 1 /\ WCount("valueBlocks")[b] = 0
  /\ \A P : WEnts(P)[b] = Cnt(ents, P)
  /\ \A c : WKids(c)[b] = Cnt(kids, {c})

LEMMA KeyBlockFacts ==
  ASSUME NEW n \in Nat, NEW leaf \in BOOLEAN, NEW ents \in Seq(Ent), NEW kids \in Seq(Nat)
  PROVE  KeyFacts(KeyBlock(n, leaf, ents, kids), n, leaf, ents, kids)
<1> DEFINE b == KeyBlock(n, leaf, ents, kids)
<1>1. b \in KeyBlocks
  BY DEF KeyBlock, KeyBlocks
<1>2. b.self = n /\ b.kind = "key" /\ b.leaf = leaf /\ b.ents = ents /\ b.kids = kids
  BY DEF KeyBlock
<1> HIDE DEF b
<1>3. b \in Blocks
  BY <1>1 DEF Blocks
<1>4. /\ Counts(b, "keys") = Len(ents) /\ Counts(b, "values") = 0
      /\ Counts(b, "keyBlocks") = 1 /\ Counts(b, "valueBlocks") = 0
  BY <1>2 DEF Counts
<1>5. EntsOf(b) = ents /\ KidsOf(b) = kids
  BY <1>2 DEF EntsOf, KidsOf
<1>6. /\ WCount("keys")[b] = Len(ents) /\ WCount("values")[b] = 0
      /\ WCount("keyBlocks")[b] = 1 /\ WCount("valueBlocks")[b] = 0
  BY <1>3, <1>4 DEF WCount
<1>7. (\A P : WEnts(P)[b] = Cnt(ents, P)) /\ \A c : WKids(c)[b] = Cnt(kids, {c})
  BY <1>3, <1>5 DEF WEnts, WKids
<1>8. KeyFacts(b, n, leaf, ents, kids)
  BY <1>2, <1>3, <1>6, <1>7 DEF KeyFacts
<1> QED BY <1>8 DEF b

\* Value block b and what it weighs.
ValueFacts(b, n, num, last, vals) ==
  /\ b \in Blocks
  /\ b.self = n /\ b.kind = "value" /\ b.num = num /\ b.last = last /\ b.vals = vals
  /\ WCount("keys")[b] = 0 /\ WCount("values")[b] = num
  /\ WCount("keyBlocks")[b] = 0 /\ WCount("valueBlocks")[b] = 1
  /\ \A P : WEnts(P)[b] = 0
  /\ \A c : WKids(c)[b] = 0

LEMMA ValueBlockFacts ==
  ASSUME NEW n \in Nat, NEW num \in Nat, NEW last \in Nat, NEW vals \in Seq(Values)
  PROVE  ValueFacts(ValueBlock(n, num, last, vals), n, num, last, vals)
<1> DEFINE b == ValueBlock(n, num, last, vals)
<1>1. b \in ValueBlocks
  BY DEF ValueBlock, ValueBlocks
<1>2. b.self = n /\ b.kind = "value" /\ b.num = num /\ b.last = last /\ b.vals = vals
  BY DEF ValueBlock
<1> HIDE DEF b
<1>3. b \in Blocks
  BY <1>1 DEF Blocks
<1>4. /\ Counts(b, "keys") = 0 /\ Counts(b, "values") = num
      /\ Counts(b, "keyBlocks") = 0 /\ Counts(b, "valueBlocks") = 1
  BY <1>2 DEF Counts
<1>5. EntsOf(b) = <<>> /\ KidsOf(b) = <<>>
  BY <1>2 DEF EntsOf, KidsOf
<1>6. /\ WCount("keys")[b] = 0 /\ WCount("values")[b] = num
      /\ WCount("keyBlocks")[b] = 0 /\ WCount("valueBlocks")[b] = 1
  BY <1>3, <1>4 DEF WCount
<1>7. (\A P : WEnts(P)[b] = Cnt(<<>>, P)) /\ \A c : WKids(c)[b] = Cnt(<<>>, {c})
  BY <1>3, <1>5 DEF WEnts, WKids
<1>8. (\A P : WEnts(P)[b] = 0) /\ \A c : WKids(c)[b] = 0
  BY <1>7, CntEmpty
<1>9. ValueFacts(b, n, num, last, vals)
  BY <1>2, <1>3, <1>6, <1>8 DEF ValueFacts
<1> QED BY <1>9 DEF b

\* Free block b weighs nothing.
FreeFacts(b, n, next) ==
  /\ b \in Blocks
  /\ b.self = n /\ b.kind = "free" /\ b.next = next
  /\ WCount("keys")[b] = 0 /\ WCount("values")[b] = 0
  /\ WCount("keyBlocks")[b] = 0 /\ WCount("valueBlocks")[b] = 0
  /\ \A P : WEnts(P)[b] = 0
  /\ \A c : WKids(c)[b] = 0

LEMMA FreeBlockFacts ==
  ASSUME NEW n \in Nat, NEW next \in Nat
  PROVE  FreeFacts(FreeBlock(n, next), n, next)
<1> DEFINE b == FreeBlock(n, next)
<1>1. b \in FreeBlocks
  BY DEF FreeBlock, FreeBlocks
<1>2. b.self = n /\ b.kind = "free" /\ b.next = next
  BY DEF FreeBlock
<1> HIDE DEF b
<1>3. b \in Blocks
  BY <1>1 DEF Blocks
<1>4. /\ Counts(b, "keys") = 0 /\ Counts(b, "values") = 0
      /\ Counts(b, "keyBlocks") = 0 /\ Counts(b, "valueBlocks") = 0
  BY <1>2 DEF Counts
<1>5. EntsOf(b) = <<>> /\ KidsOf(b) = <<>>
  BY <1>2 DEF EntsOf, KidsOf
<1>6. /\ WCount("keys")[b] = 0 /\ WCount("values")[b] = 0
      /\ WCount("keyBlocks")[b] = 0 /\ WCount("valueBlocks")[b] = 0
  BY <1>3, <1>4 DEF WCount
<1>7. (\A P : WEnts(P)[b] = Cnt(<<>>, P)) /\ \A c : WKids(c)[b] = Cnt(<<>>, {c})
  BY <1>3, <1>5 DEF WEnts, WKids
<1>8. (\A P : WEnts(P)[b] = 0) /\ \A c : WKids(c)[b] = 0
  BY <1>7, CntEmpty
<1>9. FreeFacts(b, n, next)
  BY <1>2, <1>3, <1>6, <1>8 DEF FreeFacts
<1> QED BY <1>9 DEF b

LEMMA CountsType ==
  ASSUME NEW b \in Blocks, NEW counter \in Counters
  PROVE  Counts(b, counter) \in Nat
<1>1. CASE b.kind = "key"
  BY <1>1, KeyShape, LenProperties DEF Counts, Counters
<1>2. CASE b.kind = "value"
  BY <1>2, ValueShape DEF Counts, Counters
<1>3. CASE b.kind = "free"
  BY <1>3 DEF Counts, Counters
<1> QED BY <1>1, <1>2, <1>3, BlockKinds

LEMMA OfTypes ==
  ASSUME NEW b \in Blocks
  PROVE  EntsOf(b) \in Seq(Ent) /\ KidsOf(b) \in Seq(Nat)
<1>1. CASE b.kind = "key"
  BY <1>1, KeyShape DEF EntsOf, KidsOf
<1>2. CASE b.kind # "key"
  BY <1>2, EmptySeq DEF EntsOf, KidsOf
<1> QED BY <1>1, <1>2

LEMMA WeightTypes ==
  /\ \A counter \in Counters : WCount(counter) \in [Blocks -> Nat]
  /\ \A P : WEnts(P) \in [Blocks -> Nat]
  /\ \A c : WKids(c) \in [Blocks -> Nat]
<1>1. \A counter \in Counters : WCount(counter) \in [Blocks -> Nat]
  BY CountsType DEF WCount
<1>2. \A P : WEnts(P) \in [Blocks -> Nat]
  <2>1. ASSUME NEW P, NEW b \in Blocks PROVE Cnt(EntsOf(b), P) \in Nat
    BY OfTypes, CntType
  <2> QED BY <2>1 DEF WEnts
<1>3. \A c : WKids(c) \in [Blocks -> Nat]
  <2>1. ASSUME NEW c, NEW b \in Blocks PROVE Cnt(KidsOf(b), {c}) \in Nat
    BY OfTypes, CntType
  <2> QED BY <2>1 DEF WKids
<1> QED BY <1>1, <1>2, <1>3

LEMMA WeighSeq ==
  ASSUME NEW B \in Seq(Blocks), NEW f \in [Blocks -> Nat]
  PROVE  LET w == [n \in 1 .. Len(B) |-> f[B[n]]]
         IN  /\ w \in Seq(Nat) /\ w \in Seq(Int) /\ Len(w) = Len(B)
             /\ \A n \in 1 .. Len(B) : w[n] = f[B[n]]
<1> DEFINE w == [n \in 1 .. Len(B) |-> f[B[n]]]
<1>1. w \in [1 .. Len(B) -> Nat] /\ Len(B) \in Nat
  OBVIOUS
<1>2. \A n \in 1 .. Len(B) : w[n] = f[B[n]]
  OBVIOUS
<1> HIDE DEF w
<1>3. w \in Seq(Nat) /\ Len(w) = Len(B)
  BY <1>1, TupleIsSeq
<1>4. w \in Seq(Int)
  BY <1>3, SeqMonotonic
<1> QED BY <1>2, <1>3, <1>4 DEF w

LEMMA WeighType ==
  ASSUME NEW B \in Seq(Blocks), NEW f \in [Blocks -> Nat]
  PROVE  Weigh(B, f) \in Nat
BY WeighSeq, SumNat DEF Weigh

LEMMA TotalIsWeigh ==
  ASSUME NEW B \in Seq(Blocks), NEW counter \in Counters
  PROVE  Total(B, counter) = Weigh(B, WCount(counter))
<1>1. \A n \in 1 .. Len(B) : Counts(B[n], counter) = WCount(counter)[B[n]]
  BY DEF WCount
<1>2. [n \in 1 .. Len(B) |-> Counts(B[n], counter)] = [n \in 1 .. Len(B) |-> WCount(counter)[B[n]]]
  BY <1>1
<1> QED BY <1>2 DEF Total, Weigh

\* C are the blocks B with b in the place of block n.
Written(B, C, n, b) ==
  /\ C \in Seq(Blocks) /\ Len(C) = Len(B)
  /\ \A i \in 1 .. Len(B) : C[i] = IF i = n THEN b ELSE B[i]

LEMMA BlkType ==
  ASSUME NEW B \in Seq(Blocks), NEW n \in 1 .. Len(B), NEW b \in Blocks
  PROVE  Written(B, Blk(B, n, b), n, b)
BY ExceptSeq DEF Blk, Written

LEMMA WeighBlk ==
  ASSUME NEW B \in Seq(Blocks), NEW n \in 1 .. Len(B), NEW b \in Blocks, NEW f \in [Blocks -> Nat]
  PROVE  Weigh(Blk(B, n, b), f) = Weigh(B, f) - f[B[n]] + f[b]
<1> DEFINE C == Blk(B, n, b)
<1>1. C \in Seq(Blocks) /\ Len(C) = Len(B) /\ \A i \in 1 .. Len(B) : C[i] = IF i = n THEN b ELSE B[i]
  BY ExceptSeq DEF Blk
<1> DEFINE w == [i \in 1 .. Len(B) |-> f[B[i]]]
           u == [i \in 1 .. Len(C) |-> f[C[i]]]
<1> HIDE DEF C
<1>2. w \in Seq(Int) /\ Len(w) = Len(B) /\ \A i \in 1 .. Len(B) : w[i] = f[B[i]]
  BY WeighSeq
<1>3. u \in Seq(Int) /\ Len(u) = Len(B) /\ \A i \in 1 .. Len(B) : u[i] = f[C[i]]
  BY <1>1, WeighSeq
<1>4. Weigh(B, f) = SumOf(w) /\ Weigh(C, f) = SumOf(u)
  BY DEF Weigh
<1> HIDE DEF u, w
<1>5. f[b] \in Int
  OBVIOUS
<1>6. /\ [w EXCEPT ![n] = f[b]] \in Seq(Int) /\ Len([w EXCEPT ![n] = f[b]]) = Len(B)
      /\ \A i \in 1 .. Len(B) : [w EXCEPT ![n] = f[b]][i] = IF i = n THEN f[b] ELSE w[i]
  BY <1>2, <1>5, ExceptSeq
<1>7. u = [w EXCEPT ![n] = f[b]]
  <2> DEFINE x == [w EXCEPT ![n] = f[b]]
  <2>1. ASSUME NEW i \in 1 .. Len(u) PROVE u[i] = x[i]
    <3>1. i \in 1 .. Len(B)
      BY <1>3
    <3>2. u[i] = f[C[i]] /\ x[i] = IF i = n THEN f[b] ELSE w[i]
      BY <1>3, <1>6, <3>1
    <3> QED BY <1>1, <1>2, <3>1, <3>2
  <2>2. u \in Seq(Int) /\ x \in Seq(Int) /\ Len(u) = Len(x)
    BY <1>3, <1>6
  <2> HIDE DEF x
  <2>3. u = x
    BY ONLY <2>1, <2>2, SeqEqual
  <2> QED BY <2>3 DEF x
<1>8. SumOf([w EXCEPT ![n] = f[b]]) = SumOf(w) - w[n] + f[b]
  BY <1>2, <1>5, SumExcept
<1>9. w[n] = f[B[n]]
  BY <1>2
<1> QED BY <1>4, <1>7, <1>8, <1>9 DEF C

LEMMA WeighAppend ==
  ASSUME NEW B \in Seq(Blocks), NEW b \in Blocks, NEW f \in [Blocks -> Nat]
  PROVE  Weigh(Append(B, b), f) = Weigh(B, f) + f[b]
<1> DEFINE C == Append(B, b)
           w == [i \in 1 .. Len(B) |-> f[B[i]]]
           u == [i \in 1 .. Len(C) |-> f[C[i]]]
<1>1. /\ C \in Seq(Blocks) /\ Len(C) = Len(B) + 1 /\ \A i \in 1 .. Len(B) : C[i] = B[i]
      /\ C[Len(B) + 1] = b
  BY AppendProperties
<1> HIDE DEF C
<1>2. w \in Seq(Int) /\ Len(w) = Len(B) /\ \A i \in 1 .. Len(B) : w[i] = f[B[i]]
  BY WeighSeq
<1>3. u \in Seq(Int) /\ Len(u) = Len(B) + 1 /\ \A i \in 1 .. Len(B) + 1 : u[i] = f[C[i]]
  BY <1>1, WeighSeq
<1>4. Weigh(B, f) = SumOf(w) /\ Weigh(C, f) = SumOf(u)
  BY DEF Weigh
<1> HIDE DEF u, w
<1>5. f[b] \in Int
  OBVIOUS
<1>6. /\ Append(w, f[b]) \in Seq(Int) /\ Len(Append(w, f[b])) = Len(B) + 1
      /\ \A i \in 1 .. Len(B) : Append(w, f[b])[i] = w[i]
      /\ Append(w, f[b])[Len(B) + 1] = f[b]
  BY <1>2, <1>5, AppendProperties
<1>7. u = Append(w, f[b])
  <2> DEFINE x == Append(w, f[b])
  <2>0. /\ x \in Seq(Int) /\ Len(x) = Len(B) + 1
        /\ \A i \in 1 .. Len(B) : x[i] = w[i]
        /\ x[Len(B) + 1] = f[b]
    BY <1>6
  <2> HIDE DEF x
  <2>1. ASSUME NEW i \in 1 .. Len(u) PROVE u[i] = x[i]
    <3>1. CASE i \in 1 .. Len(B)
      <4>1. x[i] = f[B[i]] /\ C[i] = B[i]
        BY <1>1, <1>2, <2>0, <3>1
      <4>2. u[i] = f[C[i]]
        BY <1>3
      <4> QED BY <4>1, <4>2
    <3>2. CASE i = Len(B) + 1
      BY <1>1, <1>3, <2>0, <3>2
    <3>3. Len(u) = Len(B) + 1 /\ Len(B) \in Nat
      BY <1>3
    <3>4. i \in 1 .. Len(B) \/ i = Len(B) + 1
      BY <3>3
    <3> QED BY <3>1, <3>2, <3>4
  <2>2. u \in Seq(Int) /\ x \in Seq(Int) /\ Len(u) = Len(x)
    BY <1>3, <2>0
  <2>3. u = x
    BY ONLY <2>1, <2>2, SeqEqual
  <2> QED BY <2>3 DEF x
<1>8. SumOf(Append(w, f[b])) = SumOf(w) + f[b]
  BY <1>2, <1>5, SumAppend
<1> QED BY <1>4, <1>7, <1>8 DEF C

LEMMA WeighAtLeast ==
  ASSUME NEW B \in Seq(Blocks), NEW n \in 1 .. Len(B), NEW f \in [Blocks -> Nat]
  PROVE  Weigh(B, f) >= f[B[n]]
<1> DEFINE w == [i \in 1 .. Len(B) |-> f[B[i]]]
<1>1. w \in Seq(Nat) /\ Len(w) = Len(B) /\ w[n] = f[B[n]]
  BY WeighSeq
<1>2. Weigh(B, f) = SumOf(w)
  BY DEF Weigh
<1> HIDE DEF w
<1> QED BY <1>1, <1>2, SumAtLeast

LEMMA WeighPositive ==
  ASSUME NEW B \in Seq(Blocks), NEW f \in [Blocks -> Nat], Weigh(B, f) # 0
  PROVE  \E n \in 1 .. Len(B) : f[B[n]] > 0
<1> DEFINE w == [i \in 1 .. Len(B) |-> f[B[i]]]
<1>1. w \in Seq(Nat) /\ Len(w) = Len(B) /\ \A n \in 1 .. Len(B) : w[n] = f[B[n]]
  BY WeighSeq
<1>2. Weigh(B, f) = SumOf(w)
  BY DEF Weigh
<1> HIDE DEF w
<1> QED BY <1>1, <1>2, SumPositive

LEMMA WeighAtLeastTwo ==
  ASSUME NEW B \in Seq(Blocks), NEW n \in 1 .. Len(B), NEW m \in 1 .. Len(B), m # n,
         NEW f \in [Blocks -> Nat]
  PROVE  Weigh(B, f) >= f[B[n]] + f[B[m]]
<1> DEFINE w == [i \in 1 .. Len(B) |-> f[B[i]]]
<1>1. w \in Seq(Nat) /\ Len(w) = Len(B) /\ w[n] = f[B[n]] /\ w[m] = f[B[m]]
  BY WeighSeq
<1>2. Weigh(B, f) = SumOf(w)
  BY DEF Weigh
<1> HIDE DEF w
<1>3. SumOf(w) >= w[n] + w[m]
  BY <1>1, SumAtLeastTwo
<1> QED BY <1>1, <1>2, <1>3

LEMMA WeighMonotonic ==
  ASSUME NEW B \in Seq(Blocks), NEW f \in [Blocks -> Nat], NEW g \in [Blocks -> Nat],
         \A b \in Blocks : f[b] <= g[b]
  PROVE  Weigh(B, f) <= Weigh(B, g)
<1> DEFINE w == [i \in 1 .. Len(B) |-> f[B[i]]]
           u == [i \in 1 .. Len(B) |-> g[B[i]]]
<1>1. w \in Seq(Int) /\ Len(w) = Len(B) /\ \A n \in 1 .. Len(B) : w[n] = f[B[n]]
  BY WeighSeq
<1>2. u \in Seq(Int) /\ Len(u) = Len(B) /\ \A n \in 1 .. Len(B) : u[n] = g[B[n]]
  BY WeighSeq
<1>3. Weigh(B, f) = SumOf(w) /\ Weigh(B, g) = SumOf(u)
  BY DEF Weigh
<1> HIDE DEF w, u
<1>4. \A i \in 1 .. Len(w) : w[i] <= u[i]
  BY <1>1, <1>2
<1> QED BY <1>1, <1>2, <1>3, <1>4, SumMonotonic

\* C is B with two blocks written, or three.
Two(B, C, i, a, j, b) ==
  /\ C \in Seq(Blocks) /\ Len(C) = Len(B) /\ C[i] = a /\ C[j] = b
  /\ \A n \in 1 .. Len(B) : n \notin {i, j} => C[n] = B[n]
  /\ \A f \in [Blocks -> Nat] : Weigh(C, f) = Weigh(B, f) - f[B[i]] - f[B[j]] + f[a] + f[b]

Three(B, C, i, a, j, b, k, c) ==
  /\ C \in Seq(Blocks) /\ Len(C) = Len(B) /\ C[i] = a /\ C[j] = b /\ C[k] = c
  /\ \A n \in 1 .. Len(B) : n \notin {i, j, k} => C[n] = B[n]
  /\ \A f \in [Blocks -> Nat] :
       Weigh(C, f) = Weigh(B, f) - f[B[i]] - f[B[j]] - f[B[k]] + f[a] + f[b] + f[c]

LEMMA WeighTwo ==
  ASSUME NEW B \in Seq(Blocks), NEW i \in 1 .. Len(B), NEW j \in 1 .. Len(B), i # j,
         NEW a \in Blocks, NEW b \in Blocks
  PROVE  Two(B, Blk(Blk(B, i, a), j, b), i, a, j, b)
<1> DEFINE X == Blk(B, i, a)
           C == Blk(X, j, b)
<1>1w. Written(B, X, i, a)
  BY BlkType
<1>1. X \in Seq(Blocks) /\ Len(X) = Len(B) /\ \A n \in 1 .. Len(B) : X[n] = IF n = i THEN a ELSE B[n]
  BY <1>1w DEF Written
<1>2. ASSUME NEW f \in [Blocks -> Nat] PROVE Weigh(X, f) = Weigh(B, f) - f[B[i]] + f[a]
  BY WeighBlk
<1> HIDE DEF X
<1>3w. Written(X, C, j, b)
  BY <1>1, BlkType
<1>3. C \in Seq(Blocks) /\ Len(C) = Len(B) /\ \A n \in 1 .. Len(B) : C[n] = IF n = j THEN b ELSE X[n]
  BY <1>1, <1>3w DEF Written
<1>4. ASSUME NEW f \in [Blocks -> Nat] PROVE Weigh(C, f) = Weigh(X, f) - f[X[j]] + f[b]
  <2>1. X \in Seq(Blocks) /\ j \in 1 .. Len(X)
    BY <1>1
  <2> QED BY ONLY <1>4, <2>1, b \in Blocks, WeighBlk
<1> HIDE DEF C
<1>7. X[j] = B[j]
  BY <1>1
<1>8. C[i] = a /\ C[j] = b /\ \A n \in 1 .. Len(B) : n \notin {i, j} => C[n] = B[n]
  BY <1>1, <1>3
<1>9. ASSUME NEW f \in [Blocks -> Nat]
      PROVE  Weigh(C, f) = Weigh(B, f) - f[B[i]] - f[B[j]] + f[a] + f[b]
  <2>1. Weigh(B, f) \in Int
    BY WeighType
  <2>2. B[i] \in Blocks /\ B[j] \in Blocks
    OBVIOUS
  <2>3. f[B[i]] \in Int /\ f[B[j]] \in Int /\ f[a] \in Int /\ f[b] \in Int
    BY <2>2
  <2>4. Weigh(X, f) = Weigh(B, f) - f[B[i]] + f[a]
    BY <1>2
  <2>5. Weigh(C, f) = Weigh(X, f) - f[B[j]] + f[b]
    BY <1>4, <1>7
  <2> QED BY <2>1, <2>3, <2>4, <2>5
<1>10. Two(B, C, i, a, j, b)
  BY <1>3, <1>8, <1>9 DEF Two
<1> QED BY <1>10 DEF C, X

LEMMA WeighThree ==
  ASSUME NEW B \in Seq(Blocks), NEW i \in 1 .. Len(B), NEW j \in 1 .. Len(B), NEW k \in 1 .. Len(B),
         i # j, i # k, j # k, NEW a \in Blocks, NEW b \in Blocks, NEW c \in Blocks
  PROVE  Three(B, Blk(Blk(Blk(B, i, a), j, b), k, c), i, a, j, b, k, c)
<1> DEFINE Y == Blk(Blk(B, i, a), j, b)
<1>0. Two(B, Y, i, a, j, b)
  BY WeighTwo
<1> HIDE DEF Y
<1>1. /\ Y \in Seq(Blocks) /\ Len(Y) = Len(B) /\ Y[i] = a /\ Y[j] = b
      /\ \A n \in 1 .. Len(B) : n \notin {i, j} => Y[n] = B[n]
  BY <1>0 DEF Two
<1> DEFINE C == Blk(Y, k, c)
<1>2. k \in 1 .. Len(Y) /\ Y[k] = B[k]
  BY <1>1
<1>3w. Written(Y, C, k, c)
  BY <1>1, <1>2, BlkType
<1>3. C \in Seq(Blocks) /\ Len(C) = Len(B) /\ \A n \in 1 .. Len(B) : C[n] = IF n = k THEN c ELSE Y[n]
  BY <1>1, <1>2, <1>3w DEF Written
<1>5. C[i] = a /\ C[j] = b /\ C[k] = c /\ \A n \in 1 .. Len(B) : n \notin {i, j, k} => C[n] = B[n]
  <2> HIDE DEF C
  <2> QED BY <1>1, <1>3
<1>6. ASSUME NEW f \in [Blocks -> Nat]
      PROVE  Weigh(C, f) = Weigh(B, f) - f[B[i]] - f[B[j]] - f[B[k]] + f[a] + f[b] + f[c]
  <2>1. Weigh(B, f) \in Int
    BY WeighType
  <2>2. B[i] \in Blocks /\ B[j] \in Blocks /\ B[k] \in Blocks
    OBVIOUS
  <2>3. /\ f[B[i]] \in Int /\ f[B[j]] \in Int /\ f[B[k]] \in Int
        /\ f[a] \in Int /\ f[b] \in Int /\ f[c] \in Int
    BY <2>2
  <2>4. Weigh(Y, f) = Weigh(B, f) - f[B[i]] - f[B[j]] + f[a] + f[b]
    BY <1>0 DEF Two
  <2>5. Weigh(C, f) = Weigh(Y, f) - f[Y[k]] + f[c]
    <3>1. Y \in Seq(Blocks)
      BY <1>1
    <3> QED BY ONLY <1>2, <1>6, <3>1, c \in Blocks, WeighBlk
  <2> HIDE DEF C
  <2>6. Weigh(C, f) = Weigh(Y, f) - f[B[k]] + f[c]
    BY <1>2, <2>5
  <2> DEFINE x == Weigh(B, f)
             z == Weigh(Y, f)
             y == Weigh(C, f)
             p == f[B[i]]
             q == f[B[j]]
             r == f[B[k]]
             u == f[a]
             v == f[b]
             w == f[c]
  <2> HIDE DEF x, y, z, p, q, r, u, v, w
  <2>7. y = x - p - q - r + u + v + w
    <3>1. x \in Int /\ p \in Int /\ q \in Int /\ r \in Int /\ u \in Int /\ v \in Int /\ w \in Int
      BY <2>1, <2>3 DEF x, p, q, r, u, v, w
    <3>2. y = z - r + w
      BY <2>6 DEF y, z, r, w
    <3>3. z = x - p - q + u + v
      BY <2>4 DEF x, z, p, q, u, v
    <3> QED BY ONLY <3>1, <3>2, <3>3
  <2> QED BY <2>7 DEF x, y, p, q, r, u, v, w
<1>7. Three(B, C, i, a, j, b, k, c)
  <2> HIDE DEF C
  <2> QED BY <1>3, <1>5, <1>6 DEF Three
<1> QED BY <1>7 DEF C, Y

\* The number of keys is the number of entries.
LEMMA KeysAreEntries ==
  ASSUME NEW b \in Blocks
  PROVE  WCount("keys")[b] = WEnts(Ent)[b]
<1>1. WCount("keys")[b] = Counts(b, "keys") /\ WEnts(Ent)[b] = Cnt(EntsOf(b), Ent)
  BY DEF WCount, WEnts
<1>2. EntsOf(b) \in Seq(Ent)
  BY OfTypes
<1>3. Cnt(EntsOf(b), Ent) = Len(EntsOf(b))
  BY <1>2, CntAll
<1>4. CASE b.kind = "key"
  BY <1>1, <1>3, <1>4 DEF Counts, EntsOf
<1>5. CASE b.kind # "key"
  <2>1. EntsOf(b) = <<>> /\ Len(<<>>) = 0
    BY <1>5, EmptySeq DEF EntsOf
  <2> QED BY <1>1, <1>3, <1>5, <2>1 DEF Counts
<1> QED BY <1>4, <1>5

-----------------------------------------------------------------------------
(* A good database: the head d, the blocks B, the height h of every block  *)
(* above the leaves, and the free list fl.                                 *)

Handles == [open : {TRUE}, total : Int, keyBlocks : Int, valueBlocks : Int, free : Nat, current : Nat]

IsKey(B, n) == n \in 1 .. Len(B) /\ B[n].kind = "key"
IsValue(B, n) == n \in 1 .. Len(B) /\ B[n].kind = "value"

\* A key block that is part of the tree.
Live(B, n) == IsKey(B, n) /\ (n = Root \/ B[n].ents # <<>>)

To(n) == {e \in Ent : e.block = n}
At(n, j) == {e \in Ent : e.block = n /\ e.slot = j}

Placed(B) == /\ B \in Seq(Blocks) /\ Len(B) >= 1
             /\ \A n \in 1 .. Len(B) : B[n].self = n
             /\ B[Root].kind = "key"

\* The counts of db_checker.
CountsOK(d, B) == /\ Weigh(B, WCount("keys")) = d.total
                  /\ Weigh(B, WCount("values")) = d.total
                  /\ Weigh(B, WCount("keyBlocks")) = d.keyBlocks
                  /\ Weigh(B, WCount("valueBlocks")) = d.valueBlocks

\* A value block counts the entries that refer to it, and no two entries
\* refer to one value. The current block is the only one that may be empty.
RefsOK(current, B) ==
  /\ current # 0 => IsValue(B, current)
  /\ \A n \in Nat : Weigh(B, WEnts(To(n))) = IF IsValue(B, n) THEN B[n].num ELSE 0
  /\ \A n \in Nat : IsValue(B, n) /\ B[n].num = 0 => n = current /\ B[n].last = 0
  /\ \A n \in Nat, j \in Nat :
       Weigh(B, WEnts(At(n, j))) <= IF IsValue(B, n) /\ j \in 1 .. Len(B[n].vals) THEN 1 ELSE 0

\* The children that a block of height l may have among N blocks.
Below(h, N, l) == IF l = 0 THEN {0} ELSE {c \in 1 .. N : h[c] = l - 1}

NodeOK(m, h, N, b) == /\ b.kids \in Seq(Below(h, N, h[b.self]))
                      /\ Len(b.kids) = Len(b.ents) + 1
                      /\ b.leaf <=> h[b.self] = 0
                      /\ h[b.self] <= h[Root]
                      /\ Len(b.ents) <= m
                      /\ b.leaf \/ Len(b.ents) > 0

TreeOK(m, B, h) ==
  /\ h \in [1 .. Len(B) -> Nat]
  /\ \A n \in Nat : Live(B, n) => NodeOK(m, h, Len(B), B[n])
  /\ \A n \in Nat : IsKey(B, n) /\ ~Live(B, n) => B[n].kids = <<0>>
  /\ \A c \in Nat \ {0} : Weigh(B, WKids(c)) = IF Live(B, c) /\ c # Root THEN 1 ELSE 0

FreeOK(first, B, fl) ==
  /\ fl \in Seq(1 .. Len(B))
  /\ \A i, j \in 1 .. Len(fl) : fl[i] = fl[j] => i = j
  /\ \A i \in 1 .. Len(fl) : /\ B[fl[i]].kind = "free"
                             /\ B[fl[i]].next = IF i = Len(fl) THEN 0 ELSE fl[i + 1]
  /\ first = IF fl = <<>> THEN 0 ELSE fl[1]

\* The blocks that nothing leads to.
Spare(B, fl) == {n \in 1 .. Len(B) : \/ B[n].kind = "free" /\ \A i \in 1 .. Len(fl) : fl[i] # n
                                     \/ B[n].kind = "key" /\ ~Live(B, n)}

Good(m, d, B, h, fl) == /\ d \in Handles /\ Placed(B)
                        /\ CountsOK(d, B) /\ RefsOK(d.current, B)
                        /\ TreeOK(m, B, h) /\ FreeOK(d.free, B, fl)

-----------------------------------------------------------------------------
(* A turn of a call: the handle e, the head d on the disk, the blocks, and *)
(* all images that the program may leave behind.                           *)

FileOf(d, B) == [there |-> TRUE, head |-> d, blocks |-> B, piece |-> FALSE]

\* A file that is there.
FileRec(t, d, B, p) == [there |-> t, head |-> d, blocks |-> B, piece |-> p]
IsFile(f) == \E t, p \in BOOLEAN : t /\ \E d, B : f = FileRec(t, d, B, p)

\* db_open refuses the file, or it is a good one.
Ok(m, f) == IsFile(f) /\ (db_checker(f) => \E h, fl : Good(m, f.head, f.blocks, h, fl))

Past(m, s) == \A image \in s.past : image.moves \in BOOLEAN /\ (image.moves \/ Ok(m, image.file))

Is(m, s, e, d, B) == s.db = e /\ s.file = FileOf(d, B) /\ Past(m, s)

LEMMA FileOfFacts ==
  ASSUME NEW d, NEW B
  PROVE  /\ FileOf(d, B).there = TRUE /\ FileOf(d, B).head = d
         /\ FileOf(d, B).blocks = B /\ FileOf(d, B).piece = FALSE
BY DEF FileOf

LEMMA FileOfIsFile == ASSUME NEW d, NEW B PROVE IsFile(FileOf(d, B))
<1>0. PICK t, p : t = TRUE /\ p = FALSE
  OBVIOUS
<1>1. FileOf(d, B) = FileRec(t, d, B, p)
  BY <1>0, Zenon DEF FileRec, FileOf
<1> QED BY <1>0, <1>1 DEF IsFile

LEMMA GoodIsOk ==
  ASSUME NEW m, NEW d, NEW B, NEW h, NEW fl, Good(m, d, B, h, fl)
  PROVE  Ok(m, FileOf(d, B))
<1>1. FileOf(d, B).head = d /\ FileOf(d, B).blocks = B
  BY DEF FileOf
<1>2. \E g, l : Good(m, FileOf(d, B).head, FileOf(d, B).blocks, g, l)
  BY <1>1, Zenon
<1> QED BY <1>2, FileOfIsFile DEF Ok

LEMMA FileRecord ==
  ASSUME NEW t, NEW d, NEW B, NEW p, NEW e, NEW C
  PROVE  /\ [FileRec(t, d, B, p) EXCEPT !.head = e] = FileRec(t, e, B, p)
         /\ [FileRec(t, d, B, p) EXCEPT !.blocks = C] = FileRec(t, d, C, p)
         /\ [FileRec(t, d, B, p) EXCEPT !.piece = e] = FileRec(t, d, B, e)
BY DEF FileRec

\* The file with another head, and with other blocks.
LEMMA FileOfExcept ==
  ASSUME NEW d, NEW B, NEW e, NEW C
  PROVE  /\ [FileOf(d, B) EXCEPT !.head = e] = FileOf(e, B)
         /\ [FileOf(d, B) EXCEPT !.blocks = C] = FileOf(d, C)
<1>0. PICK t, p : t = TRUE /\ p = FALSE
  OBVIOUS
<1>1. FileOf(d, B) = FileRec(t, d, B, p) /\ FileOf(e, B) = FileRec(t, e, B, p) /\ FileOf(d, C) = FileRec(t, d, C, p)
  BY <1>0, Zenon DEF FileRec, FileOf
<1>2. /\ [FileRec(t, d, B, p) EXCEPT !.head = e] = FileRec(t, e, B, p)
      /\ [FileRec(t, d, B, p) EXCEPT !.blocks = C] = FileRec(t, d, C, p)
  BY FileRecord
<1> QED BY <1>1, <1>2

\* Whether db_checker accepts a file depends on sums over its blocks.
LEMMA CheckerCounts ==
  ASSUME NEW d, NEW B \in Seq(Blocks), db_checker(FileOf(d, B))
  PROVE  CountsOK(d, B)
<1>1. /\ Total(B, "keys") = Total(B, "values") /\ Total(B, "keys") = d.total
      /\ Total(B, "keyBlocks") = d.keyBlocks /\ Total(B, "valueBlocks") = d.valueBlocks
  BY DEF db_checker, FileOf
<1>2. \A counter \in Counters : Total(B, counter) = Weigh(B, WCount(counter))
  BY TotalIsWeigh
<1>3. {"keys", "values", "keyBlocks", "valueBlocks"} \subseteq Counters
  BY DEF Counters
<1> QED BY <1>1, <1>2, <1>3 DEF CountsOK

LEMMA OffIsOk ==
  ASSUME NEW m, NEW d, NEW B \in Seq(Blocks), ~CountsOK(d, B)
  PROVE  Ok(m, FileOf(d, B))
BY CheckerCounts, FileOfIsFile DEF Ok

LEMMA GoodPassesChecker ==
  ASSUME NEW m, NEW d, NEW B, NEW h, NEW fl, Good(m, d, B, h, fl)
  PROVE  db_checker(FileOf(d, B))
<1>1. B \in Seq(Blocks) /\ Len(B) >= 1 /\ (\A n \in 1 .. Len(B) : B[n].self = n) /\ CountsOK(d, B)
  BY DEF Good, Placed
<1>2. \A counter \in Counters : Total(B, counter) = Weigh(B, WCount(counter))
  BY <1>1, TotalIsWeigh
<1>3. {"keys", "values", "keyBlocks", "valueBlocks"} \subseteq Counters
  BY DEF Counters
<1>4. /\ Total(B, "keys") = Total(B, "values") /\ Total(B, "keys") = d.total
      /\ Total(B, "keyBlocks") = d.keyBlocks /\ Total(B, "valueBlocks") = d.valueBlocks
  BY <1>1, <1>2, <1>3 DEF CountsOK
<1> DEFINE f == FileOf(d, B)
<1>5. f.head = d /\ f.blocks = B /\ f.piece = FALSE
  BY DEF FileOf
<1> HIDE DEF f
<1>6. db_checker(f)
  BY <1>1, <1>4, <1>5 DEF db_checker
<1> QED BY <1>6 DEF f

LEMMA PastSaved ==
  ASSUME NEW m, NEW s, Past(m, s), NEW f, NEW moves \in BOOLEAN, moves \/ Ok(m, f)
  PROVE  Past(m, Saved(s, f, moves))
<1>1. Saved(s, f, moves).past = s.past \cup {Image(f, moves)}
  BY DEF Saved
<1>2. Image(f, moves).file = f /\ Image(f, moves).moves = moves
  BY DEF Image
<1> QED BY <1>1, <1>2 DEF Past

LEMMA IsSaved ==
  ASSUME NEW m, NEW s, NEW e, NEW d, NEW B, Is(m, s, e, d, B), NEW d2, NEW B2, NEW moves \in BOOLEAN,
         moves \/ Ok(m, FileOf(d2, B2))
  PROVE  Is(m, Saved(s, FileOf(d2, B2), moves), e, d2, B2)
<1>1. Saved(s, FileOf(d2, B2), moves).db = s.db /\ Saved(s, FileOf(d2, B2), moves).file = FileOf(d2, B2)
  BY DEF Saved
<1>2. Past(m, Saved(s, FileOf(d2, B2), moves))
  BY PastSaved DEF Is
<1> QED BY <1>1, <1>2 DEF Is

LEMMA IsHead ==
  ASSUME NEW m, NEW s, NEW e, NEW d, NEW B, Is(m, s, e, d, B), Ok(m, FileOf(e, B))
  PROVE  Is(m, head_flush(s), e, e, B)
<1>1. [s.file EXCEPT !.head = s.db] = FileOf(e, B)
  <2>1. s.file = FileOf(d, B) /\ s.db = e
    BY DEF Is
  <2> QED BY <2>1, FileOfExcept
<1>2. head_flush(s) = Saved(s, FileOf(e, B), FALSE)
  BY <1>1 DEF head_flush
<1> QED BY <1>2, IsSaved

LEMMA IsPut ==
  ASSUME NEW m, NEW s, NEW e, NEW d, NEW B, Is(m, s, e, d, B), NEW n \in 1 .. Len(B), B \in Seq(Blocks),
         NEW b, b.self = n, NEW moves \in BOOLEAN, moves \/ Ok(m, FileOf(d, Blk(B, n, b)))
  PROVE  Is(m, Put(s, b, moves), e, d, Blk(B, n, b))
<1>1. s.file.blocks = B /\ s.file = FileOf(d, B)
  BY DEF Is, FileOf
<1>2. b.self <= Len(B)
  OBVIOUS
<1>3. [s.file EXCEPT !.blocks = Blk(B, n, b)] = FileOf(d, Blk(B, n, b))
  BY <1>1, FileOfExcept
<1>4. Put(s, b, moves) = Saved(s, FileOf(d, Blk(B, n, b)), moves)
  BY <1>1, <1>2, <1>3 DEF Put, Blk
<1> QED BY <1>4, IsSaved

LEMMA IsFlush ==
  ASSUME NEW m, NEW s, NEW e, NEW d, NEW B, Is(m, s, e, d, B), NEW n \in 1 .. Len(B), B \in Seq(Blocks),
         NEW b, b.self = n, Ok(m, FileOf(d, Blk(B, n, b)))
  PROVE  Is(m, node_flush(s, b), e, d, Blk(B, n, b))
BY IsPut DEF node_flush

LEMMA IsAppend ==
  ASSUME NEW m, NEW s, NEW e, NEW d, NEW B, Is(m, s, e, d, B), B \in Seq(Blocks),
         NEW b, b.self = Len(B) + 1, Ok(m, FileOf(d, Append(B, b)))
  PROVE  Is(m, node_flush(s, b), e, d, Append(B, b))
<1>1. s.file.blocks = B /\ s.file = FileOf(d, B)
  BY DEF Is, FileOf
<1>2. ~(b.self <= Len(B))
  <2>1. Len(B) \in Nat
    OBVIOUS
  <2> QED BY <2>1
<1>3. [s.file EXCEPT !.blocks = Append(B, b)] = FileOf(d, Append(B, b))
  <2>1. [FileOf(d, B) EXCEPT !.blocks = Append(B, b)] = FileOf(d, Append(B, b))
    BY FileOfExcept, Zenon
  <2> QED BY <1>1, <2>1
<1>4. node_flush(s, b) = Saved(s, FileOf(d, Append(B, b)), FALSE)
  BY <1>1, <1>2, <1>3 DEF Put, node_flush
<1> QED BY <1>4, IsSaved

LEMMA IsWithDb ==
  ASSUME NEW m, NEW s, NEW e, NEW d, NEW B, Is(m, s, e, d, B), NEW e2
  PROVE  Is(m, WithDb(s, e2), e2, d, B) /\ WithDb(s, e2).db = e2
BY DEF Is, WithDb, Past

LEMMA IsNoRoom ==
  ASSUME NEW m, NEW s, NEW d, NEW B, Is(m, s, d, d, B), Ok(m, FileOf(d, B))
  PROVE  Is(m, NoRoom(s), d, d, B)
<1> DEFINE f == [s.file EXCEPT !.piece = TRUE]
           t == Saved(s, f, FALSE)
<1>1. s.file = FileOf(d, B) /\ s.db = d /\ Past(m, s)
  BY DEF Is
<1>2. IsFile(f) /\ f.piece
  <2>1. PICK y, p, q : y = TRUE /\ p = FALSE /\ q = TRUE
    OBVIOUS
  <2>2. s.file = FileRec(y, d, B, p) /\ f = [s.file EXCEPT !.piece = q]
    <3>1. s.file = FileRec(y, d, B, p)
      BY <1>1, <2>1, Zenon DEF FileRec, FileOf
    <3>2. f = [s.file EXCEPT !.piece = q]
      BY <2>1, Zenon
    <3> QED BY <3>1, <3>2
  <2>3. f = FileRec(y, d, B, q)
    BY <2>2, FileRecord
  <2>4. f.piece = q
    BY <2>3 DEF FileRec
  <2> HIDE DEF f
  <2> QED BY <2>1, <2>3, <2>4 DEF IsFile
<1>3. Ok(m, f)
  BY <1>2 DEF Ok, db_checker
<1> HIDE DEF f
<1>4. Past(m, t) /\ t.db = d
  BY <1>1, <1>3, PastSaved DEF Saved
<1> HIDE DEF t
<1>5. NoRoom(s) = Saved(t, FileOf(d, B), FALSE)
  BY <1>1 DEF NoRoom, t, f
<1>6. Past(m, Saved(t, FileOf(d, B), FALSE))
  BY <1>4, PastSaved
<1>7. Saved(t, FileOf(d, B), FALSE).db = d /\ Saved(t, FileOf(d, B), FALSE).file = FileOf(d, B)
  BY <1>4 DEF Saved
<1> QED BY <1>5, <1>6, <1>7 DEF Is

-----------------------------------------------------------------------------
(* The handle.                                                             *)

LEMMA HandleTypes ==
  ASSUME NEW d \in Handles
  PROVE  /\ d.total \in Int /\ d.keyBlocks \in Int /\ d.valueBlocks \in Int
         /\ d.free \in Nat /\ d.current \in Nat
BY DEF Handles

LEMMA HandleFree ==
  ASSUME NEW d \in Handles, NEW n \in Nat
  PROVE  LET e == [d EXCEPT !.free = n]
         IN  /\ e \in Handles /\ e.free = n /\ e.current = d.current /\ e.total = d.total
             /\ e.keyBlocks = d.keyBlocks /\ e.valueBlocks = d.valueBlocks
BY DEF Handles

LEMMA HandleCurrent ==
  ASSUME NEW d \in Handles, NEW n \in Nat
  PROVE  LET e == [d EXCEPT !.current = n]
         IN  /\ e \in Handles /\ e.free = d.free /\ e.current = n /\ e.total = d.total
             /\ e.keyBlocks = d.keyBlocks /\ e.valueBlocks = d.valueBlocks
BY DEF Handles

LEMMA HandleCounts ==
  ASSUME NEW d \in Handles, NEW n \in Int
  PROVE  /\ LET e == [d EXCEPT !.total = n]
            IN  /\ e \in Handles /\ e.free = d.free /\ e.current = d.current /\ e.total = n
                /\ e.keyBlocks = d.keyBlocks /\ e.valueBlocks = d.valueBlocks
         /\ LET e == [d EXCEPT !.keyBlocks = n]
            IN  /\ e \in Handles /\ e.free = d.free /\ e.current = d.current /\ e.total = d.total
                /\ e.keyBlocks = n /\ e.valueBlocks = d.valueBlocks
         /\ LET e == [d EXCEPT !.valueBlocks = n]
            IN  /\ e \in Handles /\ e.free = d.free /\ e.current = d.current /\ e.total = d.total
                /\ e.keyBlocks = d.keyBlocks /\ e.valueBlocks = n
BY DEF Handles

LEMMA HandleTotal ==
  ASSUME NEW d \in Handles
  PROVE  /\ LET e == [d EXCEPT !.total = @ + 1]
            IN  /\ e \in Handles /\ e.free = d.free /\ e.current = d.current /\ e.total = d.total + 1
                /\ e.keyBlocks = d.keyBlocks /\ e.valueBlocks = d.valueBlocks
         /\ LET e == [d EXCEPT !.total = @ - 1]
            IN  /\ e \in Handles /\ e.free = d.free /\ e.current = d.current /\ e.total = d.total - 1
                /\ e.keyBlocks = d.keyBlocks /\ e.valueBlocks = d.valueBlocks
<1>1. d.total + 1 \in Int /\ d.total - 1 \in Int
  BY HandleTypes
<1>2. /\ [d EXCEPT !.total = @ + 1] = [d EXCEPT !.total = d.total + 1]
      /\ [d EXCEPT !.total = @ - 1] = [d EXCEPT !.total = d.total - 1]
  OBVIOUS
<1> DEFINE u == d.total + 1
           v == d.total - 1
<1> HIDE DEF u, v
<1>3. u \in Int /\ v \in Int
  BY <1>1 DEF u, v
<1>4. LET e == [d EXCEPT !.total = u]
      IN  /\ e \in Handles /\ e.free = d.free /\ e.current = d.current /\ e.total = u
          /\ e.keyBlocks = d.keyBlocks /\ e.valueBlocks = d.valueBlocks
  BY <1>3, HandleCounts
<1>5. LET e == [d EXCEPT !.total = v]
      IN  /\ e \in Handles /\ e.free = d.free /\ e.current = d.current /\ e.total = v
          /\ e.keyBlocks = d.keyBlocks /\ e.valueBlocks = d.valueBlocks
  BY <1>3, HandleCounts
<1> QED BY <1>2, <1>4, <1>5 DEF u, v

\* The handle when a key block is got or given up, and a value block.
LEMMA HandleKey ==
  ASSUME NEW d \in Handles, NEW b, b.kind = "key", NEW w \in {1, -1}
  PROVE  LET e == IF w = 1 THEN CountedIn(d, b) ELSE CountedOut(d, b)
         IN  /\ e \in Handles /\ e.free = d.free /\ e.current = d.current /\ e.total = d.total
             /\ e.keyBlocks = d.keyBlocks + w /\ e.valueBlocks = d.valueBlocks
<1> DEFINE u == d.keyBlocks + w
           e == IF w = 1 THEN CountedIn(d, b) ELSE CountedOut(d, b)
<1>1. u \in Int
  BY HandleTypes
<1>2. e = [d EXCEPT !.keyBlocks = u]
  BY HandleTypes DEF CountedIn, CountedOut
<1> HIDE DEF u, e
<1>3. LET g == [d EXCEPT !.keyBlocks = u]
      IN  /\ g \in Handles /\ g.free = d.free /\ g.current = d.current /\ g.total = d.total
          /\ g.keyBlocks = u /\ g.valueBlocks = d.valueBlocks
  BY <1>1, HandleCounts
<1> QED BY <1>2, <1>3 DEF u, e

LEMMA HandleValue ==
  ASSUME NEW d \in Handles, NEW b, b.kind = "value", b.self \in Nat
  PROVE  /\ LET e == CountedIn(d, b)
            IN  /\ e \in Handles /\ e.free = d.free /\ e.current = b.self /\ e.total = d.total
                /\ e.keyBlocks = d.keyBlocks /\ e.valueBlocks = d.valueBlocks + 1
         /\ LET e == CountedOut(d, b)
            IN  /\ e \in Handles /\ e.free = d.free /\ e.current = d.current /\ e.total = d.total
                /\ e.keyBlocks = d.keyBlocks /\ e.valueBlocks = d.valueBlocks - 1
<1> DEFINE u == d.valueBlocks + 1
           v == d.valueBlocks - 1
           n == b.self
           e == [d EXCEPT !.valueBlocks = u]
<1>1. u \in Int /\ v \in Int /\ n \in Nat
  BY HandleTypes
<1>2. CountedIn(d, b) = [e EXCEPT !.current = n] /\ CountedOut(d, b) = [d EXCEPT !.valueBlocks = v]
  BY DEF CountedIn, CountedOut
<1>3. u = d.valueBlocks + 1 /\ v = d.valueBlocks - 1 /\ n = b.self
  OBVIOUS
<1> HIDE DEF u, v, n
<1>4. /\ e \in Handles /\ e.free = d.free /\ e.current = d.current /\ e.total = d.total
      /\ e.keyBlocks = d.keyBlocks /\ e.valueBlocks = u
  BY <1>1, HandleCounts
<1>5. LET g == [d EXCEPT !.valueBlocks = v]
      IN  /\ g \in Handles /\ g.free = d.free /\ g.current = d.current /\ g.total = d.total
          /\ g.keyBlocks = d.keyBlocks /\ g.valueBlocks = v
  BY <1>1, HandleCounts
<1> HIDE DEF e
<1>6. LET g == [e EXCEPT !.current = n]
      IN  /\ g \in Handles /\ g.free = e.free /\ g.current = n /\ g.total = e.total
          /\ g.keyBlocks = e.keyBlocks /\ g.valueBlocks = e.valueBlocks
  BY <1>1, <1>4, HandleCurrent
<1> QED BY <1>2, <1>3, <1>4, <1>5, <1>6

-----------------------------------------------------------------------------
(* What keeps the parts of a good database.                                *)

LEMMA SeqAvoids ==
  ASSUME NEW S, NEW s \in Seq(S), NEW c, Cnt(s, {c}) = 0
  PROVE  s \in Seq(S \ {c})
<1>1. \A i \in 1 .. Len(s) : s[i] # c
  <2> SUFFICES ASSUME NEW i \in 1 .. Len(s), s[i] = c PROVE FALSE
    OBVIOUS
  <2>1. s[i] \in {c}
    OBVIOUS
  <2>2. Cnt(s, {c}) >= 1
    BY <2>1, CntMember
  <2> QED BY <2>2
<1>2. s \in [1 .. Len(s) -> S \ {c}] /\ Len(s) \in Nat
  BY <1>1
<1> QED BY <1>2, TupleIsSeq

LEMMA NodeWith ==
  ASSUME NEW m \in Nat, NEW N \in Nat, NEW K \in Nat, NEW h, NEW g, NEW b, NodeOK(m, h, N, b),
         g[b.self] = h[b.self], h[b.self] <= g[Root],
         NEW T, b.kids \in Seq(T), T \subseteq Below(g, K, g[b.self])
  PROVE  NodeOK(m, g, K, b)
<1>1. b.kids \in Seq(Below(g, K, g[b.self]))
  BY SeqMonotonic
<1> QED BY <1>1 DEF NodeOK

LEMMA NodeRehung ==
  ASSUME NEW m \in Nat, NEW N \in Nat, NEW h \in [1 .. N -> Nat], NEW b, NodeOK(m, h, N, b),
         b.self \in 1 .. N, N >= 1, NEW c \in 1 .. N, b.self # c, Cnt(b.kids, {c}) = 0, NEW l \in Nat,
         c = Root => h[b.self] <= l
  PROVE  NodeOK(m, [h EXCEPT ![c] = l], N, b)
<1> DEFINE g == [h EXCEPT ![c] = l]
           T == Below(h, N, h[b.self]) \ {c}
<1>1. b.kids \in Seq(T)
  BY SeqAvoids DEF NodeOK
<1>2. g[b.self] = h[b.self] /\ h[b.self] \in Nat
  OBVIOUS
<1>3. h[b.self] <= g[Root]
  BY DEF NodeOK, Root
<1>4. T \subseteq Below(g, N, g[b.self])
  BY <1>2 DEF Below
<1> HIDE DEF g, T
<1>5. NodeOK(m, g, N, b)
  BY <1>1, <1>2, <1>3, <1>4, NodeWith
<1> QED BY <1>5 DEF g

LEMMA RefsKept ==
  ASSUME NEW current, NEW B \in Seq(Blocks), NEW C \in Seq(Blocks), RefsOK(current, B),
         \A n \in Nat : IsValue(C, n) <=> IsValue(B, n),
         \A n \in Nat : IsValue(B, n) => C[n] = B[n],
         \A P : Weigh(C, WEnts(P)) = Weigh(B, WEnts(P)), current \in Nat
  PROVE  RefsOK(current, C)
<1>1. current # 0 => IsValue(C, current)
  BY DEF RefsOK
<1>2. ASSUME NEW n \in Nat PROVE Weigh(C, WEnts(To(n))) = IF IsValue(C, n) THEN C[n].num ELSE 0
  <2>1. Weigh(B, WEnts(To(n))) = IF IsValue(B, n) THEN B[n].num ELSE 0
    BY DEF RefsOK
  <2> QED BY <2>1
<1>3. ASSUME NEW n \in Nat, IsValue(C, n), C[n].num = 0 PROVE n = current /\ C[n].last = 0
  BY <1>3 DEF RefsOK
<1>4. ASSUME NEW n \in Nat, NEW j \in Nat
      PROVE  Weigh(C, WEnts(At(n, j))) <= IF IsValue(C, n) /\ j \in 1 .. Len(C[n].vals) THEN 1 ELSE 0
  <2>1. Weigh(B, WEnts(At(n, j))) <= IF IsValue(B, n) /\ j \in 1 .. Len(B[n].vals) THEN 1 ELSE 0
    BY DEF RefsOK
  <2> QED BY <2>1
<1> QED BY <1>1, <1>2, <1>3, <1>4 DEF RefsOK

LEMMA FreeKept ==
  ASSUME NEW first, NEW B, NEW C, NEW fl, FreeOK(first, B, fl), Len(B) \in Nat, Len(C) \in Nat,
         Len(B) <= Len(C), \A n \in 1 .. Len(B) : B[n].kind = "free" => C[n] = B[n]
  PROVE  FreeOK(first, C, fl)
<1>1. fl \in Seq(1 .. Len(B)) /\ 1 .. Len(B) \subseteq 1 .. Len(C)
  BY DEF FreeOK
<1>2. fl \in Seq(1 .. Len(C))
  BY <1>1, SeqMonotonic
<1>3. \A i \in 1 .. Len(fl) : fl[i] \in 1 .. Len(B)
  BY <1>1
<1>4. \A i \in 1 .. Len(fl) : C[fl[i]] = B[fl[i]]
  BY <1>3 DEF FreeOK
<1> QED BY <1>2, <1>4 DEF FreeOK

LEMMA FreeTaken ==
  ASSUME NEW first, NEW B, NEW fl, FreeOK(first, B, fl), first # 0
  PROVE  /\ Len(fl) > 0 /\ first = fl[1] /\ first \in 1 .. Len(B) /\ B[first].kind = "free"
         /\ FreeOK(B[first].next, B, Tail(fl))
         /\ \A i \in 1 .. Len(Tail(fl)) : Tail(fl)[i] # first
         /\ \A n : (\A i \in 1 .. Len(Tail(fl)) : Tail(fl)[i] # n) /\ n # first
                   => \A i \in 1 .. Len(fl) : fl[i] # n
<1>1. fl \in Seq(1 .. Len(B)) /\ fl # <<>> /\ first = fl[1]
  BY DEF FreeOK
<1>2. /\ Len(fl) \in Nat /\ Len(fl) > 0 /\ Tail(fl) \in Seq(1 .. Len(B)) /\ Len(Tail(fl)) = Len(fl) - 1
      /\ \A i \in 1 .. Len(fl) - 1 : Tail(fl)[i] = fl[i + 1]
  BY <1>1, HeadTailProperties
<1> DEFINE t == Tail(fl)
<1>3. t \in Seq(1 .. Len(B)) /\ Len(t) = Len(fl) - 1 /\ \A i \in 1 .. Len(fl) - 1 : t[i] = fl[i + 1]
  BY <1>2
<1> HIDE DEF t
<1>4. first \in 1 .. Len(B) /\ B[first].kind = "free" /\ B[first].next = IF 1 = Len(fl) THEN 0 ELSE fl[2]
  <2>1. 1 \in 1 .. Len(fl) /\ fl[1] \in 1 .. Len(B)
    BY <1>1, <1>2
  <2>2. B[fl[1]].kind = "free" /\ B[fl[1]].next = IF 1 = Len(fl) THEN 0 ELSE fl[1 + 1]
    BY <2>1 DEF FreeOK
  <2> QED BY <1>1, <2>1, <2>2
<1>5. \A i, j \in 1 .. Len(fl) : fl[i] = fl[j] => i = j
  BY DEF FreeOK
<1>6. \A i, j \in 1 .. Len(t) : t[i] = t[j] => i = j
  <2> SUFFICES ASSUME NEW i \in 1 .. Len(t), NEW j \in 1 .. Len(t), t[i] = t[j] PROVE i = j
    OBVIOUS
  <2>1. i + 1 \in 1 .. Len(fl) /\ j + 1 \in 1 .. Len(fl) /\ fl[i + 1] = fl[j + 1]
    BY <1>2, <1>3
  <2>2. i + 1 = j + 1
    BY <1>5, <2>1
  <2> QED BY <2>2
<1>7. ASSUME NEW i \in 1 .. Len(t)
      PROVE  B[t[i]].kind = "free" /\ B[t[i]].next = (IF i = Len(t) THEN 0 ELSE t[i + 1]) /\ t[i] # first
  <2>0. Len(fl) \in Nat /\ Len(t) = Len(fl) - 1
    BY <1>2, <1>3
  <2>1. i + 1 \in 1 .. Len(fl) /\ t[i] = fl[i + 1] /\ 1 \in 1 .. Len(fl) /\ i + 1 # 1
    <3>1. i \in 1 .. Len(fl) - 1
      BY <2>0
    <3> QED BY <1>3, <2>0, <3>1
  <2>2. B[fl[i + 1]].kind = "free" /\ B[fl[i + 1]].next = IF i + 1 = Len(fl) THEN 0 ELSE fl[(i + 1) + 1]
    BY <2>1 DEF FreeOK
  <2>3. ASSUME i # Len(t) PROVE t[i + 1] = fl[(i + 1) + 1] /\ i + 1 # Len(fl)
    <3>1. i + 1 \in 1 .. Len(fl) - 1 /\ i + 1 # Len(fl)
      BY <2>0, <2>3
    <3> QED BY <1>3, <3>1
  <2>4. i = Len(t) => i + 1 = Len(fl)
    BY <2>0
  <2> QED BY <1>1, <1>5, <2>1, <2>2, <2>3, <2>4
<1>8. B[first].next = IF t = <<>> THEN 0 ELSE t[1]
  <2>1. CASE Len(fl) = 1
    BY <1>3, <1>4, <2>1, EmptySeq
  <2>2. CASE Len(fl) # 1
    <3>1. 1 \in 1 .. Len(t) /\ t[1] = fl[2]
      BY <1>2, <1>3, <2>2
    <3>2. t # <<>>
      BY <3>1, EmptySeq
    <3> QED BY <1>4, <2>2, <3>1, <3>2
  <2> QED BY <2>1, <2>2
<1>9. FreeOK(B[first].next, B, t)
  BY <1>3, <1>6, <1>7, <1>8 DEF FreeOK
<1>10. ASSUME NEW n, \A i \in 1 .. Len(t) : t[i] # n, n # first, NEW i \in 1 .. Len(fl)
       PROVE  fl[i] # n
  <2>1. CASE i = 1
    BY <1>1, <1>10, <2>1
  <2>2. CASE i # 1
    <3>1. i - 1 \in 1 .. Len(t) /\ t[i - 1] = fl[(i - 1) + 1] /\ (i - 1) + 1 = i
      BY <1>2, <1>3, <2>2
    <3> QED BY <1>10, <3>1
  <2> QED BY <2>1, <2>2
<1> QED BY <1>1, <1>2, <1>4, <1>7, <1>9, <1>10 DEF t

\* The free list with another block.
Given(n, fl) == <<n>> \o fl

\* Block n of B, which is in use, becomes the first of the free list.
GivenUp(first, B, C, fl, n) ==
  /\ FreeOK(first, B, fl) /\ Len(B) \in Nat /\ Len(C) = Len(B) /\ n \in 1 .. Len(B)
  /\ B[n].kind # "free" /\ C[n].kind = "free" /\ C[n].next = first
  /\ \A i \in 1 .. Len(B) : B[i].kind = "free" => C[i] = B[i]

NowFree(C, fl, n) ==
  /\ FreeOK(n, C, Given(n, fl))
  /\ \A k : (\A i \in 1 .. Len(Given(n, fl)) : Given(n, fl)[i] # k) => k # n /\ \A i \in 1 .. Len(fl) : fl[i] # k

LEMMA FreeGiven ==
  ASSUME NEW first, NEW B, NEW C, NEW fl, NEW n, GivenUp(first, B, C, fl, n)
  PROVE  NowFree(C, fl, n)
<1>0. /\ FreeOK(first, B, fl) /\ Len(B) \in Nat /\ Len(C) = Len(B) /\ n \in 1 .. Len(B)
      /\ B[n].kind # "free" /\ C[n].kind = "free" /\ C[n].next = first
      /\ \A i \in 1 .. Len(B) : B[i].kind = "free" => C[i] = B[i]
  BY DEF GivenUp
<1> USE <1>0
<1> DEFINE t == <<n>> \o fl
<1>1. FreeOK(first, C, fl)
  BY FreeKept
<1>2. fl \in Seq(1 .. Len(B)) /\ <<n>> \in Seq(1 .. Len(B)) /\ Len(<<n>>) = 1 /\ <<n>>[1] = n /\ Len(fl) \in Nat
  BY DEF FreeOK
<1>3. /\ t \in Seq(1 .. Len(B)) /\ Len(t) = Len(fl) + 1 /\ t[1] = n
      /\ \A i \in 1 .. Len(fl) : t[i + 1] = fl[i]
  BY <1>2, ConcatProperties
<1> HIDE DEF t
<1>4. \A i \in 1 .. Len(t) : i = 1 \/ (i - 1 \in 1 .. Len(fl) /\ t[i] = fl[i - 1])
  <2> SUFFICES ASSUME NEW i \in 1 .. Len(t), i # 1 PROVE i - 1 \in 1 .. Len(fl) /\ t[i] = fl[i - 1]
    OBVIOUS
  <2>1. i - 1 \in 1 .. Len(fl) /\ (i - 1) + 1 = i
    BY <1>2, <1>3
  <2>2. t[(i - 1) + 1] = fl[i - 1]
    BY <1>3, <2>1
  <2> QED BY <2>1, <2>2
<1>5. \A i \in 1 .. Len(fl) : fl[i] # n
  BY DEF FreeOK
<1>6. \A i, j \in 1 .. Len(t) : t[i] = t[j] => i = j
  <2> SUFFICES ASSUME NEW i \in 1 .. Len(t), NEW j \in 1 .. Len(t), t[i] = t[j] PROVE i = j
    OBVIOUS
  <2>1. CASE i = 1 \/ j = 1
    BY <1>3, <1>4, <1>5, <2>1
  <2>2. CASE i # 1 /\ j # 1
    <3>1. i - 1 \in 1 .. Len(fl) /\ j - 1 \in 1 .. Len(fl) /\ fl[i - 1] = fl[j - 1]
      BY <1>4, <2>2
    <3>2. i - 1 = j - 1
      BY <3>1 DEF FreeOK
    <3> QED BY <3>2
  <2> QED BY <2>1, <2>2
<1>7. ASSUME NEW i \in 1 .. Len(t)
      PROVE  C[t[i]].kind = "free" /\ C[t[i]].next = IF i = Len(t) THEN 0 ELSE t[i + 1]
  <2>1. CASE i = 1
    <3>1. C[t[i]].kind = "free" /\ C[t[i]].next = first
      BY <1>3, <2>1
    <3>2. CASE fl = <<>>
      BY <1>2, <1>3, <2>1, <3>1, <3>2, EmptySeq DEF FreeOK
    <3>3. CASE fl # <<>>
      <4>1. Len(fl) # 0
        BY <1>2, <3>3, EmptySeq
      <4>2. 1 \in 1 .. Len(fl) /\ t[1 + 1] = fl[1] /\ i # Len(t)
        BY <1>2, <1>3, <2>1, <4>1
      <4> QED BY <2>1, <3>1, <3>3, <4>2 DEF FreeOK
    <3> QED BY <3>2, <3>3
  <2>2. CASE i # 1
    <3>1. i - 1 \in 1 .. Len(fl) /\ t[i] = fl[i - 1]
      BY <1>4, <2>2
    <3>2. /\ C[fl[i - 1]].kind = "free"
          /\ C[fl[i - 1]].next = IF i - 1 = Len(fl) THEN 0 ELSE fl[(i - 1) + 1]
      BY <1>1, <3>1 DEF FreeOK
    <3>3. (i - 1) + 1 = i /\ (i - 1 = Len(fl) <=> i = Len(t)) /\ (i # Len(t) => i \in 1 .. Len(fl))
      <4>1. Len(fl) \in Nat /\ Len(t) = Len(fl) + 1
        BY <1>2, <1>3
      <4> QED BY <4>1
    <3>4. i # Len(t) => t[i + 1] = fl[i]
      BY <1>3, <3>3
    <3> QED BY <3>1, <3>2, <3>3, <3>4
  <2> QED BY <2>1, <2>2
<1>8. t # <<>>
  BY <1>2, <1>3, EmptySeq
<1>9. FreeOK(n, C, t)
  BY <1>3, <1>6, <1>7, <1>8 DEF FreeOK
<1>10. ASSUME NEW k, \A i \in 1 .. Len(t) : t[i] # k PROVE k # n /\ \A i \in 1 .. Len(fl) : fl[i] # k
  <2>1. 1 \in 1 .. Len(t) /\ \A i \in 1 .. Len(fl) : i + 1 \in 1 .. Len(t) /\ t[i + 1] = fl[i]
    BY <1>2, <1>3
  <2> QED BY <1>3, <1>10, <2>1
<1> QED BY <1>9, <1>10 DEF t, Given, NowFree

-----------------------------------------------------------------------------
(* node_create: a block at the end of the file, or the first of the free   *)
(* list, which then becomes a key block or a value block.                  *)

\* The functions by which blocks are weighed.
LEMMA CountTypes ==
  /\ WCount("keys") \in [Blocks -> Nat] /\ WCount("values") \in [Blocks -> Nat]
  /\ WCount("keyBlocks") \in [Blocks -> Nat] /\ WCount("valueBlocks") \in [Blocks -> Nat]
BY WeightTypes DEF Counters

LEMMA GoodTypes ==
  ASSUME NEW m, NEW d, NEW B, NEW h, NEW fl, Good(m, d, B, h, fl)
  PROVE  /\ d \in Handles /\ B \in Seq(Blocks) /\ Len(B) \in Nat /\ Len(B) >= 1
         /\ h \in [1 .. Len(B) -> Nat] /\ Root \in 1 .. Len(B) /\ B[Root].kind = "key"
         /\ \A n \in 1 .. Len(B) : B[n] \in Blocks /\ B[n].self = n
         /\ CountsOK(d, B) /\ RefsOK(d.current, B) /\ TreeOK(m, B, h) /\ FreeOK(d.free, B, fl)
<1>1. B \in Seq(Blocks) /\ Len(B) >= 1
  BY DEF Good, Placed
<1>2. Len(B) \in Nat /\ \A n \in 1 .. Len(B) : B[n] \in Blocks
  BY <1>1
<1>3. Root \in 1 .. Len(B)
  BY <1>1, <1>2 DEF Root
<1> QED BY <1>1, <1>2, <1>3 DEF Good, Placed, TreeOK

LEMMA NodeGrows ==
  ASSUME NEW m \in Nat, NEW N \in Nat, NEW h \in [1 .. N -> Nat], NEW g \in [1 .. N + 1 -> Nat],
         \A n \in 1 .. N : g[n] = h[n], N >= 1, NEW b, b.self \in 1 .. N, NodeOK(m, h, N, b)
  PROVE  NodeOK(m, g, N + 1, b)
<1>1. b.kids \in Seq(Below(h, N, h[b.self])) /\ h[b.self] <= h[Root]
  BY DEF NodeOK
<1>2. g[b.self] = h[b.self] /\ h[b.self] <= g[Root] /\ h[b.self] \in Nat
  BY <1>1 DEF Root
<1>3. Below(h, N, h[b.self]) \subseteq Below(g, N + 1, g[b.self])
  BY <1>2 DEF Below
<1> DEFINE K == N + 1
           T == Below(h, N, h[b.self])
<1>4. K \in Nat /\ b.kids \in Seq(T) /\ T \subseteq Below(g, K, g[b.self])
  BY <1>1, <1>3
<1> HIDE DEF K, T
<1>5. NodeOK(m, g, K, b)
  BY <1>2, <1>4, NodeWith
<1> QED BY <1>5 DEF K

LEMMA Grow ==
  ASSUME NEW m \in Nat, NEW d, NEW B, NEW h, NEW fl, Good(m, d, B, h, fl)
  PROVE  LET C == Append(B, FreeBlock(Len(B) + 1, 0))
             g == [n \in 1 .. Len(B) + 1 |-> IF n = Len(B) + 1 THEN 0 ELSE h[n]]
         IN  Good(m, d, C, g, fl) /\ Spare(C, fl) \subseteq Spare(B, fl) \cup {Len(B) + 1}
<1> DEFINE N == Len(B)
           b == FreeBlock(N + 1, 0)
           C == Append(B, b)
           g == [n \in 1 .. N + 1 |-> IF n = N + 1 THEN 0 ELSE h[n]]
<1>1. /\ d \in Handles /\ B \in Seq(Blocks) /\ N \in Nat /\ N >= 1 /\ h \in [1 .. N -> Nat]
      /\ Root \in 1 .. N /\ B[Root].kind = "key" /\ \A n \in 1 .. N : B[n] \in Blocks /\ B[n].self = n
  BY GoodTypes
<1>2. CountsOK(d, B) /\ RefsOK(d.current, B) /\ TreeOK(m, B, h) /\ FreeOK(d.free, B, fl)
  BY GoodTypes
<1>3. b \in Blocks /\ b.self = N + 1 /\ b.kind = "free"
  <2>1. FreeFacts(b, N + 1, 0)
    BY <1>1, FreeBlockFacts
  <2> HIDE DEF b
  <2> QED BY <2>1 DEF FreeFacts
<1>4. /\ WCount("keys")[b] = 0 /\ WCount("values")[b] = 0
      /\ WCount("keyBlocks")[b] = 0 /\ WCount("valueBlocks")[b] = 0
      /\ (\A P : WEnts(P)[b] = 0) /\ \A c : WKids(c)[b] = 0
  <2>1. FreeFacts(b, N + 1, 0)
    BY <1>1, FreeBlockFacts
  <2> HIDE DEF b
  <2> QED BY <2>1 DEF FreeFacts
<1> HIDE DEF b
<1>5. C \in Seq(Blocks) /\ Len(C) = N + 1 /\ (\A i \in 1 .. N : C[i] = B[i]) /\ C[N + 1] = b
  BY <1>1, <1>3, AppendProperties
<1>6. ASSUME NEW f \in [Blocks -> Nat], f[b] = 0 PROVE Weigh(C, f) = Weigh(B, f)
  <2>1. Weigh(C, f) = Weigh(B, f) + f[b] /\ Weigh(B, f) \in Nat
    BY <1>1, <1>3, WeighAppend, WeighType
  <2> QED BY <1>6, <2>1
<1>7. g \in [1 .. N + 1 -> Nat] /\ \A n \in 1 .. N : g[n] = h[n]
  BY <1>1
<1> HIDE DEF C, g, N
<1>8. \A n \in Nat : /\ IsKey(C, n) <=> IsKey(B, n)
                     /\ IsValue(C, n) <=> IsValue(B, n)
                     /\ IsKey(B, n) => C[n] = B[n]
                     /\ IsValue(B, n) => C[n] = B[n]
  <2> SUFFICES ASSUME NEW n \in Nat
               PROVE  /\ IsKey(C, n) <=> IsKey(B, n) 
                      /\ IsValue(C, n) <=> IsValue(B, n)
                      /\ IsKey(B, n) => C[n] = B[n]
                      /\ IsValue(B, n) => C[n] = B[n]
    OBVIOUS
  <2>1. CASE n \in 1 .. N
    <3>1. n \in 1 .. Len(C) /\ C[n] = B[n] /\ n \in 1 .. Len(B)
      BY <1>1, <1>5, <2>1 DEF N
    <3> QED BY <3>1 DEF IsKey, IsValue
  <2>2. CASE n = N + 1
    <3>1. C[n] = b /\ n \notin 1 .. Len(B)
      BY <1>1, <1>5, <2>2 DEF N
    <3> QED BY <1>3, <3>1 DEF IsKey, IsValue
  <2>3. CASE n \notin 1 .. N + 1
    <3>1. n \notin 1 .. Len(C) /\ n \notin 1 .. Len(B)
      BY <1>1, <1>5, <2>3 DEF N
    <3> QED BY <3>1 DEF IsKey, IsValue
  <2>4. n \in 1 .. N \/ n = N + 1 \/ n \notin 1 .. N + 1
    BY <1>1
  <2> QED BY <2>1, <2>2, <2>3, <2>4
<1>9. \A n \in Nat : Live(C, n) <=> Live(B, n)
  BY <1>8 DEF Live
<1>10. CountsOK(d, C)
  BY <1>2, <1>4, <1>6, CountTypes DEF CountsOK
<1>11. RefsOK(d.current, C)
  <2>1. \A P : Weigh(C, WEnts(P)) = Weigh(B, WEnts(P))
    BY <1>4, <1>6, WeightTypes
  <2>2. d.current \in Nat
    BY <1>1, HandleTypes
  <2> QED BY <1>1, <1>2, <1>5, <1>8, <2>1, <2>2, RefsKept
<1>12. TreeOK(m, C, g)
  <2>1. ASSUME NEW n \in Nat, Live(C, n) PROVE NodeOK(m, g, Len(C), C[n])
    <3>1. Live(B, n) /\ IsKey(B, n) /\ n \in 1 .. N
      BY <1>9, <2>1 DEF Live, IsKey, N
    <3>2. C[n] = B[n] /\ NodeOK(m, h, N, B[n]) /\ B[n].self \in 1 .. N
      BY <1>1, <1>2, <1>8, <3>1 DEF TreeOK, N
    <3> QED BY <1>1, <1>5, <1>7, <3>2, NodeGrows
  <2>2. \A n \in Nat : IsKey(C, n) /\ ~Live(C, n) => C[n].kids = <<0>>
    BY <1>2, <1>8, <1>9 DEF TreeOK
  <2>3. ASSUME NEW c \in Nat \ {0} PROVE Weigh(C, WKids(c)) = IF Live(C, c) /\ c # Root THEN 1 ELSE 0
    <3>1. Weigh(C, WKids(c)) = Weigh(B, WKids(c))
      BY <1>4, <1>6, WeightTypes
    <3>2. Weigh(B, WKids(c)) = IF Live(B, c) /\ c # Root THEN 1 ELSE 0
      BY <1>2 DEF TreeOK
    <3> QED BY <1>9, <3>1, <3>2
  <2> QED BY <1>5, <1>7, <2>1, <2>2, <2>3 DEF TreeOK
<1>13. FreeOK(d.free, C, fl)
  <2>1. Len(B) \in Nat /\ Len(C) \in Nat /\ Len(B) <= Len(C) /\ \A n \in 1 .. Len(B) : C[n] = B[n]
    BY <1>1, <1>5 DEF N
  <2> QED BY <1>2, <2>1, FreeKept
<1>14. Placed(C)
  <2>1. ASSUME NEW n \in 1 .. Len(C) PROVE C[n].self = n
    <3>1. CASE n = N + 1
      BY <1>3, <1>5, <3>1
    <3>2. CASE n # N + 1
      <4>1. n \in 1 .. N
        BY <1>1, <1>5, <3>2
      <4> QED BY <1>1, <1>5, <4>1
    <3> QED BY <3>1, <3>2
  <2>2. Len(C) >= 1 /\ C[Root].kind = "key"
    BY <1>1, <1>5
  <2> QED BY <1>5, <2>1, <2>2 DEF Placed
<1>15. Spare(C, fl) \subseteq Spare(B, fl) \cup {N + 1}
  <2> SUFFICES ASSUME NEW n \in Spare(C, fl), n # N + 1 PROVE n \in Spare(B, fl)
    OBVIOUS
  <2>1. n \in 1 .. Len(C)
    BY DEF Spare
  <2>2. n \in 1 .. N /\ n \in Nat
    BY <1>1, <1>5, <2>1
  <2>3. C[n] = B[n] /\ (Live(C, n) <=> Live(B, n)) /\ n \in 1 .. Len(B)
    BY <1>5, <1>9, <2>2 DEF N
  <2> QED BY <2>3 DEF Spare
<1>16. Good(m, d, C, g, fl)
  BY <1>1, <1>10, <1>11, <1>12, <1>13, <1>14 DEF Good
<1> QED BY <1>15, <1>16 DEF C, g, N, b

LEMMA NewKeyFacts ==
  ASSUME NEW n \in Nat, NEW leaf \in BOOLEAN
  PROVE  KeyFacts(NewKeyBlock(n, leaf), n, leaf, <<>>, <<0>>)
<1>1. <<>> \in Seq(Ent) /\ <<0>> \in Seq(Nat)
  BY EmptySeq
<1> QED BY <1>1, KeyBlockFacts DEF NewKeyBlock

LEMMA NewValueFacts ==
  ASSUME NEW n \in Nat
  PROVE  ValueFacts(NewValueBlock(n), n, 0, 0, <<>>)
<1>1. <<>> \in Seq(Values) /\ 0 \in Nat
  BY EmptySeq
<1> QED BY <1>1, ValueBlockFacts DEF NewValueBlock

\* The first block leaves the free list.
Taken(m, d, B, h, fl, e, t, first) ==
  /\ Good(m, e, B, h, t) /\ e.current = d.current
  /\ first \in 1 .. Len(B) /\ B[first].kind = "free"
  /\ \A i \in 1 .. Len(t) : t[i] # first
  /\ Spare(B, t) \subseteq Spare(B, fl) \cup {first}

LEMMA Take ==
  ASSUME NEW m \in Nat, NEW d, NEW B, NEW h, NEW fl, Good(m, d, B, h, fl), d.free # 0
  PROVE  Taken(m, d, B, h, fl, [d EXCEPT !.free = B[d.free].next], Tail(fl), d.free)
<1> DEFINE first == d.free
           next == B[d.free].next
           e == [d EXCEPT !.free = next]
           t == Tail(fl)
<1>1. /\ d \in Handles /\ B \in Seq(Blocks) /\ CountsOK(d, B) /\ RefsOK(d.current, B) /\ TreeOK(m, B, h)
      /\ FreeOK(first, B, fl) /\ Placed(B) /\ first # 0
  BY DEF Good, Placed
<1> HIDE DEF first
<1>2. /\ first \in 1 .. Len(B) /\ B[first].kind = "free" /\ FreeOK(B[first].next, B, t)
      /\ \A i \in 1 .. Len(t) : t[i] # first
      /\ \A n : (\A i \in 1 .. Len(t) : t[i] # n) /\ n # first => \A i \in 1 .. Len(fl) : fl[i] # n
  BY <1>1, FreeTaken
<1> HIDE DEF t
<1>3. next = B[first].next /\ next \in Nat
  <2>1. B[first] \in Blocks
    BY <1>1, <1>2
  <2> QED BY <1>2, <2>1, FreeShape DEF first
<1> HIDE DEF next
<1>4. /\ e \in Handles /\ e.free = next /\ e.current = d.current /\ e.total = d.total
      /\ e.keyBlocks = d.keyBlocks /\ e.valueBlocks = d.valueBlocks
  BY <1>1, <1>3, HandleFree
<1> HIDE DEF e
<1>5. Good(m, e, B, h, t)
  <2>1. CountsOK(e, B)
    BY <1>1, <1>4 DEF CountsOK
  <2>2. RefsOK(e.current, B) /\ FreeOK(e.free, B, t)
    BY <1>1, <1>2, <1>3, <1>4
  <2> QED BY <1>1, <1>4, <2>1, <2>2 DEF Good
<1>6. Spare(B, t) \subseteq Spare(B, fl) \cup {first}
  BY <1>2 DEF Spare
<1>7. Taken(m, d, B, h, fl, e, t, first)
  BY <1>2, <1>4, <1>5, <1>6 DEF Taken
<1> QED BY <1>7 DEF e, t, next, first

\* A block that is free and not on the free list becomes a key block.
KeyFilled(m, d, B, h, fl, n, b) ==
  /\ ~CountsOK(CountedIn(d, b), B)
  /\ Good(m, CountedIn(d, b), Blk(B, n, b), h, fl)
  /\ Spare(Blk(B, n, b), fl) \subseteq Spare(B, fl) \cup {n}
  /\ CountedIn(d, b).current = d.current

LEMMA FillKey ==
  ASSUME NEW m \in Nat, NEW d, NEW B, NEW h, NEW fl, Good(m, d, B, h, fl), NEW n \in 1 .. Len(B),
         B[n].kind = "free", \A i \in 1 .. Len(fl) : fl[i] # n, NEW leaf \in BOOLEAN
  PROVE  KeyFilled(m, d, B, h, fl, n, NewKeyBlock(n, leaf))
<1> DEFINE b == NewKeyBlock(n, leaf)
           e == CountedIn(d, b)
           C == Blk(B, n, b)
<1>1. /\ d \in Handles /\ B \in Seq(Blocks) /\ Len(B) \in Nat /\ Len(B) >= 1 /\ h \in [1 .. Len(B) -> Nat]
      /\ Root \in 1 .. Len(B) /\ B[Root].kind = "key"
      /\ \A i \in 1 .. Len(B) : B[i] \in Blocks /\ B[i].self = i
  BY GoodTypes
<1>2. CountsOK(d, B) /\ RefsOK(d.current, B) /\ TreeOK(m, B, h) /\ FreeOK(d.free, B, fl)
  BY GoodTypes
<1>3. n \in Nat /\ Len(<<>>) = 0
  BY <1>1, EmptySeq
<1>4. /\ b \in Blocks /\ b.self = n /\ b.kind = "key" /\ b.ents = <<>> /\ b.kids = <<0>>
      /\ WCount("keys")[b] = 0 /\ WCount("values")[b] = 0
      /\ WCount("keyBlocks")[b] = 1 /\ WCount("valueBlocks")[b] = 0
      /\ (\A P : WEnts(P)[b] = Cnt(<<>>, P)) /\ \A c : WKids(c)[b] = Cnt(<<0>>, {c})
  <2>1. KeyFacts(b, n, leaf, <<>>, <<0>>)
    BY <1>3, NewKeyFacts
  <2> HIDE DEF b
  <2> QED BY <1>3, <2>1 DEF KeyFacts
<1>5. \A c \in Nat \ {0} : WKids(c)[b] = 0
  <2> SUFFICES ASSUME NEW c \in Nat \ {0} PROVE Cnt(<<0>>, {c}) = 0
    BY <1>4
  <2>1. Cnt(<<0>>, {c}) = One(0, {c})
    BY CntOne
  <2> QED BY <2>1 DEF One
<1>6. \A P : WEnts(P)[b] = 0
  BY <1>4, CntEmpty
<1> HIDE DEF b
<1>7. /\ e \in Handles /\ e.free = d.free /\ e.current = d.current /\ e.total = d.total
      /\ e.keyBlocks = d.keyBlocks + 1 /\ e.valueBlocks = d.valueBlocks
  BY <1>1, <1>4, HandleKey
<1> HIDE DEF e
<1>8. B[n] = FreeBlock(B[n].self, B[n].next) /\ B[n].self \in Nat /\ B[n].next \in Nat
  BY <1>1, FreeShape
<1>9. /\ WCount("keys")[B[n]] = 0 /\ WCount("values")[B[n]] = 0
      /\ WCount("keyBlocks")[B[n]] = 0 /\ WCount("valueBlocks")[B[n]] = 0
      /\ (\A P : WEnts(P)[B[n]] = 0) /\ \A c : WKids(c)[B[n]] = 0
  <2>1. FreeFacts(FreeBlock(B[n].self, B[n].next), B[n].self, B[n].next)
    BY <1>8, FreeBlockFacts
  <2> QED BY <1>8, <2>1 DEF FreeFacts
<1>10. C \in Seq(Blocks) /\ Len(C) = Len(B) /\ \A i \in 1 .. Len(B) : C[i] = IF i = n THEN b ELSE B[i]
  <2>1. b \in Blocks /\ B \in Seq(Blocks)
    BY <1>1, <1>4
  <2>w. Written(B, C, n, b)
    BY <2>1, BlkType
  <2> QED BY <2>1, <2>w DEF Written
<1>11. ASSUME NEW f \in [Blocks -> Nat] PROVE Weigh(C, f) = Weigh(B, f) - f[B[n]] + f[b] /\ Weigh(B, f) \in Nat
  BY <1>1, <1>4, WeighBlk, WeighType
<1> HIDE DEF C
<1>12. ~CountsOK(e, B)
  <2>1. d.keyBlocks \in Int
    BY <1>1, HandleTypes
  <2> QED BY <1>2, <1>7, <2>1 DEF CountsOK
<1>13. CountsOK(e, C)
  <2>1. Weigh(C, WCount("keys")) = Weigh(B, WCount("keys"))
    <3>1. /\ Weigh(C, WCount("keys")) = Weigh(B, WCount("keys")) - WCount("keys")[B[n]] + WCount("keys")[b]
          /\ Weigh(B, WCount("keys")) \in Nat
      BY <1>11, CountTypes
    <3> QED BY <1>4, <1>9, <3>1
  <2>2. Weigh(C, WCount("values")) = Weigh(B, WCount("values"))
    <3>1. /\ Weigh(C, WCount("values")) = Weigh(B, WCount("values")) - WCount("values")[B[n]] + WCount("values")[b]
          /\ Weigh(B, WCount("values")) \in Nat
      BY <1>11, CountTypes
    <3> QED BY <1>4, <1>9, <3>1
  <2>3. Weigh(C, WCount("keyBlocks")) = Weigh(B, WCount("keyBlocks")) + 1
    <3>1. /\ Weigh(C, WCount("keyBlocks")) = Weigh(B, WCount("keyBlocks")) - WCount("keyBlocks")[B[n]] + WCount("keyBlocks")[b]
          /\ Weigh(B, WCount("keyBlocks")) \in Nat
      BY <1>11, CountTypes
    <3> QED BY <1>4, <1>9, <3>1
  <2>4. Weigh(C, WCount("valueBlocks")) = Weigh(B, WCount("valueBlocks"))
    <3>1. /\ Weigh(C, WCount("valueBlocks")) = Weigh(B, WCount("valueBlocks")) - WCount("valueBlocks")[B[n]] + WCount("valueBlocks")[b]
          /\ Weigh(B, WCount("valueBlocks")) \in Nat
      BY <1>11, CountTypes
    <3> QED BY <1>4, <1>9, <3>1
  <2> QED BY <1>2, <1>7, <2>1, <2>2, <2>3, <2>4 DEF CountsOK
<1>14. \A i \in Nat : /\ IsValue(C, i) <=> IsValue(B, i)
                      /\ IsValue(B, i) => C[i] = B[i]
                      /\ i # n => (IsKey(C, i) <=> IsKey(B, i)) /\ (IsKey(B, i) => C[i] = B[i])
  BY <1>4, <1>10 DEF IsKey, IsValue
<1>15. n # Root
  BY <1>1
<1>16. \A i \in Nat : Live(C, i) <=> Live(B, i)
  <2>1. ~Live(C, n) /\ ~Live(B, n)
    BY <1>4, <1>10, <1>15 DEF Live, IsKey
  <2> QED BY <1>14, <2>1 DEF Live
<1>17. RefsOK(e.current, C)
  <2>1. \A P : Weigh(C, WEnts(P)) = Weigh(B, WEnts(P))
    BY <1>6, <1>9, <1>11, WeightTypes
  <2>2. d.current \in Nat
    BY <1>1, HandleTypes
  <2> QED BY <1>1, <1>2, <1>7, <1>10, <1>14, <2>1, <2>2, RefsKept
<1>18. TreeOK(m, C, h)
  <2>1. ASSUME NEW i \in Nat, Live(C, i) PROVE NodeOK(m, h, Len(C), C[i])
    <3>1. Live(B, i) /\ IsKey(B, i) /\ i # n
      BY <1>16, <2>1 DEF Live, IsKey
    <3> QED BY <1>2, <1>10, <1>14, <3>1 DEF TreeOK
  <2>2. ASSUME NEW i \in Nat, IsKey(C, i), ~Live(C, i) PROVE C[i].kids = <<0>>
    BY <1>2, <1>4, <1>10, <1>14, <1>16, <2>2 DEF TreeOK
  <2>3. ASSUME NEW c \in Nat \ {0} PROVE Weigh(C, WKids(c)) = IF Live(C, c) /\ c # Root THEN 1 ELSE 0
    <3>0. WKids(c) \in [Blocks -> Nat]
      BY WeightTypes
    <3>1. Weigh(C, WKids(c)) = Weigh(B, WKids(c))
      <4>1. Weigh(C, WKids(c)) = Weigh(B, WKids(c)) - WKids(c)[B[n]] + WKids(c)[b] /\ Weigh(B, WKids(c)) \in Nat
        BY <1>11, <3>0
      <4> QED BY <1>5, <1>9, <4>1
    <3>2. Weigh(B, WKids(c)) = IF Live(B, c) /\ c # Root THEN 1 ELSE 0
      BY <1>2 DEF TreeOK
    <3> QED BY <1>16, <3>1, <3>2
  <2> QED BY <1>1, <1>10, <2>1, <2>2, <2>3 DEF TreeOK
<1>19. FreeOK(e.free, C, fl)
  <2>1. \A i \in 1 .. Len(fl) : fl[i] \in 1 .. Len(B) /\ C[fl[i]] = B[fl[i]]
    BY <1>2, <1>10 DEF FreeOK
  <2> QED BY <1>2, <1>7, <1>10, <2>1 DEF FreeOK
<1>20. Placed(C)
  BY <1>1, <1>4, <1>10, <1>15 DEF Placed
<1>21. Spare(C, fl) \subseteq Spare(B, fl) \cup {n}
  <2> SUFFICES ASSUME NEW i \in Spare(C, fl), i # n PROVE i \in Spare(B, fl)
    OBVIOUS
  <2>1. i \in 1 .. Len(B) /\ C[i] = B[i] /\ (Live(C, i) <=> Live(B, i))
    BY <1>10, <1>16 DEF Spare
  <2> QED BY <2>1 DEF Spare
<1>22. Good(m, e, C, h, fl)
  BY <1>7, <1>13, <1>17, <1>18, <1>19, <1>20 DEF Good
<1>23. KeyFilled(m, d, B, h, fl, n, b)
  BY <1>7, <1>12, <1>21, <1>22 DEF e, C, KeyFilled
<1> QED BY <1>23 DEF b

\* A block that is free and not on the free list becomes the current
\* value block.
ValueFilled(m, d, B, h, fl, n, b) ==
  /\ ~CountsOK(CountedIn(d, b), B)
  /\ Good(m, CountedIn(d, b), Blk(B, n, b), h, fl)
  /\ Spare(Blk(B, n, b), fl) \subseteq Spare(B, fl) \ {n}
  /\ CountedIn(d, b).current = n

LEMMA FillValue ==
  ASSUME NEW m \in Nat, NEW d, NEW B, NEW h, NEW fl, Good(m, d, B, h, fl), NEW n \in 1 .. Len(B),
         B[n].kind = "free", \A i \in 1 .. Len(fl) : fl[i] # n, d.current = 0
  PROVE  ValueFilled(m, d, B, h, fl, n, NewValueBlock(n))
<1> DEFINE b == NewValueBlock(n)
           e == CountedIn(d, b)
           C == Blk(B, n, b)
<1>1. /\ d \in Handles /\ B \in Seq(Blocks) /\ Len(B) \in Nat /\ Len(B) >= 1 /\ h \in [1 .. Len(B) -> Nat]
      /\ Root \in 1 .. Len(B) /\ B[Root].kind = "key"
      /\ \A i \in 1 .. Len(B) : B[i] \in Blocks /\ B[i].self = i
  BY GoodTypes
<1>2. CountsOK(d, B) /\ RefsOK(d.current, B) /\ TreeOK(m, B, h) /\ FreeOK(d.free, B, fl)
  BY GoodTypes
<1>3. n \in Nat /\ Len(<<>>) = 0
  BY <1>1, EmptySeq
<1>4. /\ b \in Blocks /\ b.self = n /\ b.kind = "value" /\ b.num = 0 /\ b.last = 0 /\ b.vals = <<>>
      /\ WCount("keys")[b] = 0 /\ WCount("values")[b] = 0
      /\ WCount("keyBlocks")[b] = 0 /\ WCount("valueBlocks")[b] = 1
      /\ (\A P : WEnts(P)[b] = 0) /\ \A c : WKids(c)[b] = 0
  <2>1. ValueFacts(b, n, 0, 0, <<>>)
    BY <1>3, NewValueFacts
  <2> HIDE DEF b
  <2> QED BY <1>3, <2>1 DEF ValueFacts
<1> HIDE DEF b
<1>7. /\ e \in Handles /\ e.free = d.free /\ e.current = n /\ e.total = d.total
      /\ e.keyBlocks = d.keyBlocks /\ e.valueBlocks = d.valueBlocks + 1
  BY <1>1, <1>3, <1>4, HandleValue
<1> HIDE DEF e
<1>8. B[n] = FreeBlock(B[n].self, B[n].next) /\ B[n].self \in Nat /\ B[n].next \in Nat
  BY <1>1, FreeShape
<1>9. /\ WCount("keys")[B[n]] = 0 /\ WCount("values")[B[n]] = 0
      /\ WCount("keyBlocks")[B[n]] = 0 /\ WCount("valueBlocks")[B[n]] = 0
      /\ (\A P : WEnts(P)[B[n]] = 0) /\ \A c : WKids(c)[B[n]] = 0
  <2>1. FreeFacts(FreeBlock(B[n].self, B[n].next), B[n].self, B[n].next)
    BY <1>8, FreeBlockFacts
  <2> QED BY <1>8, <2>1 DEF FreeFacts
<1>10. C \in Seq(Blocks) /\ Len(C) = Len(B) /\ \A i \in 1 .. Len(B) : C[i] = IF i = n THEN b ELSE B[i]
  <2>1. b \in Blocks /\ B \in Seq(Blocks)
    BY <1>1, <1>4
  <2>w. Written(B, C, n, b)
    BY <2>1, BlkType
  <2> QED BY <2>1, <2>w DEF Written
<1>11. ASSUME NEW f \in [Blocks -> Nat] PROVE Weigh(C, f) = Weigh(B, f) - f[B[n]] + f[b] /\ Weigh(B, f) \in Nat
  BY <1>1, <1>4, WeighBlk, WeighType
<1> HIDE DEF C
<1>12. ~CountsOK(e, B)
  <2>1. d.valueBlocks \in Int
    BY <1>1, HandleTypes
  <2> QED BY <1>2, <1>7, <2>1 DEF CountsOK
<1>13. CountsOK(e, C)
  <2>1. Weigh(C, WCount("keys")) = Weigh(B, WCount("keys"))
    <3>1. /\ Weigh(C, WCount("keys")) = Weigh(B, WCount("keys")) - WCount("keys")[B[n]] + WCount("keys")[b]
          /\ Weigh(B, WCount("keys")) \in Nat
      BY <1>11, CountTypes
    <3> QED BY <1>4, <1>9, <3>1
  <2>2. Weigh(C, WCount("values")) = Weigh(B, WCount("values"))
    <3>1. /\ Weigh(C, WCount("values")) = Weigh(B, WCount("values")) - WCount("values")[B[n]] + WCount("values")[b]
          /\ Weigh(B, WCount("values")) \in Nat
      BY <1>11, CountTypes
    <3> QED BY <1>4, <1>9, <3>1
  <2>3. Weigh(C, WCount("keyBlocks")) = Weigh(B, WCount("keyBlocks"))
    <3>1. /\ Weigh(C, WCount("keyBlocks")) = Weigh(B, WCount("keyBlocks")) - WCount("keyBlocks")[B[n]] + WCount("keyBlocks")[b]
          /\ Weigh(B, WCount("keyBlocks")) \in Nat
      BY <1>11, CountTypes
    <3> QED BY <1>4, <1>9, <3>1
  <2>4. Weigh(C, WCount("valueBlocks")) = Weigh(B, WCount("valueBlocks")) + 1
    <3>1. /\ Weigh(C, WCount("valueBlocks")) = Weigh(B, WCount("valueBlocks")) - WCount("valueBlocks")[B[n]] + WCount("valueBlocks")[b]
          /\ Weigh(B, WCount("valueBlocks")) \in Nat
      BY <1>11, CountTypes
    <3> QED BY <1>4, <1>9, <3>1
  <2> QED BY <1>2, <1>7, <2>1, <2>2, <2>3, <2>4 DEF CountsOK
<1>14. \A i \in Nat : /\ IsKey(C, i) <=> IsKey(B, i)
                      /\ IsKey(B, i) => C[i] = B[i]
                      /\ i # n => (IsValue(C, i) <=> IsValue(B, i)) /\ (IsValue(B, i) => C[i] = B[i])
  BY <1>4, <1>10 DEF IsKey, IsValue
<1>15. n # Root
  BY <1>1
<1>16. \A i \in Nat : Live(C, i) <=> Live(B, i)
  BY <1>14 DEF Live
<1>17. RefsOK(e.current, C)
  <2>1. \A P : Weigh(C, WEnts(P)) = Weigh(B, WEnts(P)) /\ Weigh(B, WEnts(P)) \in Nat
    BY <1>4, <1>9, <1>11, WeightTypes
  <2>2. C[n] = b /\ IsValue(C, n) /\ ~IsValue(B, n)
    BY <1>1, <1>4, <1>10 DEF IsValue
  <2>3. ASSUME NEW i \in Nat PROVE Weigh(C, WEnts(To(i))) = IF IsValue(C, i) THEN C[i].num ELSE 0
    <3>1. Weigh(C, WEnts(To(i))) = IF IsValue(B, i) THEN B[i].num ELSE 0
      BY <1>2, <2>1 DEF RefsOK
    <3>2. CASE i = n
      BY <1>4, <2>2, <3>1, <3>2
    <3>3. CASE i # n
      BY <1>14, <3>1, <3>3
    <3> QED BY <3>2, <3>3
  <2>4. ASSUME NEW i \in Nat, IsValue(C, i), C[i].num = 0 PROVE i = n /\ C[i].last = 0
    <3>1. CASE i = n
      BY <1>4, <2>2, <3>1
    <3>2. CASE i # n
      <4>1. IsValue(B, i) /\ B[i].num = 0
        BY <1>14, <2>4, <3>2
      <4>2. i = 0
        BY <1>2, <4>1 DEF RefsOK
      <4> QED BY <4>1, <4>2 DEF IsValue
    <3> QED BY <3>1, <3>2
  <2>5. ASSUME NEW i \in Nat, NEW j \in Nat
        PROVE  Weigh(C, WEnts(At(i, j))) <= IF IsValue(C, i) /\ j \in 1 .. Len(C[i].vals) THEN 1 ELSE 0
    <3>1. Weigh(B, WEnts(At(i, j))) <= IF IsValue(B, i) /\ j \in 1 .. Len(B[i].vals) THEN 1 ELSE 0
      BY <1>2 DEF RefsOK
    <3>2. Weigh(C, WEnts(At(i, j))) = Weigh(B, WEnts(At(i, j))) /\ Weigh(B, WEnts(At(i, j))) \in Nat
      BY <2>1
    <3>3. CASE i = n
      BY <2>2, <3>1, <3>2, <3>3
    <3>4. CASE i # n
      BY <1>14, <3>1, <3>2, <3>4
    <3> QED BY <3>3, <3>4
  <2> QED BY <1>7, <2>2, <2>3, <2>4, <2>5 DEF RefsOK
<1>18. TreeOK(m, C, h)
  <2>1. ASSUME NEW i \in Nat, Live(C, i) PROVE NodeOK(m, h, Len(C), C[i])
    <3>1. Live(B, i) /\ IsKey(B, i)
      BY <1>16, <2>1 DEF Live, IsKey
    <3> QED BY <1>2, <1>10, <1>14, <3>1 DEF TreeOK
  <2>2. ASSUME NEW i \in Nat, IsKey(C, i), ~Live(C, i) PROVE C[i].kids = <<0>>
    BY <1>2, <1>4, <1>10, <1>14, <1>16, <2>2 DEF TreeOK
  <2>3. ASSUME NEW c \in Nat \ {0} PROVE Weigh(C, WKids(c)) = IF Live(C, c) /\ c # Root THEN 1 ELSE 0
    <3>0. WKids(c) \in [Blocks -> Nat]
      BY WeightTypes
    <3>1. Weigh(C, WKids(c)) = Weigh(B, WKids(c))
      <4>1. Weigh(C, WKids(c)) = Weigh(B, WKids(c)) - WKids(c)[B[n]] + WKids(c)[b] /\ Weigh(B, WKids(c)) \in Nat
        BY <1>11, <3>0
      <4> QED BY <1>4, <1>9, <4>1
    <3>2. Weigh(B, WKids(c)) = IF Live(B, c) /\ c # Root THEN 1 ELSE 0
      BY <1>2 DEF TreeOK
    <3> QED BY <1>16, <3>1, <3>2
  <2> QED BY <1>1, <1>10, <2>1, <2>2, <2>3 DEF TreeOK
<1>19. FreeOK(e.free, C, fl)
  <2>1. \A i \in 1 .. Len(fl) : fl[i] \in 1 .. Len(B) /\ C[fl[i]] = B[fl[i]]
    BY <1>2, <1>10 DEF FreeOK
  <2> QED BY <1>2, <1>7, <1>10, <2>1 DEF FreeOK
<1>20. Placed(C)
  BY <1>1, <1>4, <1>10, <1>15 DEF Placed
<1>21. Spare(C, fl) \subseteq Spare(B, fl) \ {n}
  <2> SUFFICES ASSUME NEW i \in Spare(C, fl) PROVE i \in Spare(B, fl) \ {n}
    OBVIOUS
  <2>0. i # n
    BY <1>4, <1>10 DEF Spare
  <2>1. i \in 1 .. Len(B) /\ C[i] = B[i] /\ (Live(C, i) <=> Live(B, i))
    BY <1>10, <1>16, <2>0 DEF Spare
  <2> QED BY <2>0, <2>1 DEF Spare
<1>22. Good(m, e, C, h, fl)
  BY <1>7, <1>13, <1>17, <1>18, <1>19, <1>20 DEF Good
<1>23. ValueFilled(m, d, B, h, fl, n, b)
  BY <1>7, <1>12, <1>21, <1>22 DEF e, C, ValueFilled
<1> QED BY <1>23 DEF b

\* What node_create achieves: b is one more block of a good database. Nothing
\* refers to the blocks in X.
Created(m, B, h, fl, t, b, cur, X, d2, B2, h2, fl2) ==
  /\ Is(m, t, d2, d2, B2) /\ Good(m, d2, B2, h2, fl2) /\ d2.current = cur
  /\ Len(B) <= Len(B2) /\ b.self \in 1 .. Len(B2) /\ B2[b.self] = b
  /\ \A i \in 1 .. Len(B) : i # b.self => B2[i] = B[i]
  /\ \A i \in 1 .. Len(B) : h2[i] = h[i]
  /\ b.self \in 1 .. Len(B) => B[b.self].kind = "free"
  /\ Spare(B2, fl2) \subseteq Spare(B, fl) \cup X

\* Its second half: block n was got for b.
LEMMA CreateFilled ==
  ASSUME NEW m \in Nat, NEW s, NEW e, NEW d, NEW B, NEW h, NEW fl, Is(m, s, e, d, B), Good(m, e, B, h, fl),
         NEW n \in 1 .. Len(B), NEW b \in Blocks, b.self = n,
         ~CountsOK(CountedIn(e, b), B), Good(m, CountedIn(e, b), Blk(B, n, b), h, fl)
  PROVE  LET t == node_flush(head_flush(WithDb(s, CountedIn(s.db, b))), b)
         IN  Is(m, t, CountedIn(e, b), CountedIn(e, b), Blk(B, n, b))
<1> DEFINE e2 == CountedIn(e, b)
           C == Blk(B, n, b)
           u == WithDb(s, CountedIn(s.db, b))
           v == head_flush(u)
<1>1. s.db = e /\ B \in Seq(Blocks)
  BY GoodTypes DEF Is
<1>2. Is(m, u, e2, d, B)
  BY <1>1, IsWithDb
<1> HIDE DEF u
<1>3. Ok(m, FileOf(e2, B))
  BY <1>1, OffIsOk
<1>4. Ok(m, FileOf(e2, C))
  BY GoodIsOk
<1> HIDE DEF e2
<1>5. Is(m, v, e2, e2, B)
  BY <1>2, <1>3, IsHead
<1> HIDE DEF v
<1>6. Is(m, node_flush(v, b), e2, e2, C)
  BY <1>1, <1>4, <1>5, IsFlush DEF C
<1> QED BY <1>6 DEF C, e2, u, v

\* A block that is free is got.
Got(m, B, h, fl, s, n, cur, e, d, B1, h1, fl1) ==
  /\ Is(m, s, e, d, B1) /\ Good(m, e, B1, h1, fl1) /\ e.current = cur
  /\ Len(B) <= Len(B1) /\ n \in 1 .. Len(B1) /\ B1[n].kind = "free"
  /\ \A i \in 1 .. Len(fl1) : fl1[i] # n
  /\ \A i \in 1 .. Len(B) : B1[i] = B[i] /\ h1[i] = h[i]
  /\ n \in 1 .. Len(B) => B[n].kind = "free"
  /\ Spare(B1, fl1) \subseteq Spare(B, fl) \cup {n}

LEMMA CreateGets ==
  ASSUME NEW m \in Nat, NEW s, NEW d, NEW B, NEW h, NEW fl, Is(m, s, d, d, B), Good(m, d, B, h, fl)
  PROVE  LET n == NextBlock(s)
             got == IF s.db.free # 0
                      THEN WithDb(s, [s.db EXCEPT !.free = s.file.blocks[s.db.free].next])
                      ELSE node_flush(s, FreeBlock(n, 0))
         IN  /\ n \in Nat
             /\ \E e, d1, B1, h1, fl1 : Got(m, B, h, fl, got, n, d.current, e, d1, B1, h1, fl1)
<1> DEFINE n == NextBlock(s)
           got == IF s.db.free # 0
                    THEN WithDb(s, [s.db EXCEPT !.free = s.file.blocks[s.db.free].next])
                    ELSE node_flush(s, FreeBlock(n, 0))
<1>1. s.db = d /\ s.file.blocks = B
  BY DEF Is, FileOf
<1>2. B \in Seq(Blocks) /\ Len(B) \in Nat /\ h \in [1 .. Len(B) -> Nat] /\ d \in Handles /\ FreeOK(d.free, B, fl)
  BY GoodTypes
<1>3. CASE d.free # 0
  <2> DEFINE e == [d EXCEPT !.free = B[d.free].next]
             t == Tail(fl)
             first == d.free
  <2>1. n = first /\ got = WithDb(s, e)
    BY <1>1, <1>3 DEF NextBlock
  <2>2. /\ Good(m, e, B, h, t) /\ e.current = d.current
        /\ first \in 1 .. Len(B) /\ B[first].kind = "free"
        /\ \A i \in 1 .. Len(t) : t[i] # first
        /\ Spare(B, t) \subseteq Spare(B, fl) \cup {first}
    <3>1. Taken(m, d, B, h, fl, e, t, first)
      BY <1>3, Take
    <3> HIDE DEF e, t, first
    <3> QED BY <3>1 DEF Taken
  <2> HIDE DEF e, t, first, n, got
  <2>3. Is(m, got, e, d, B)
    BY <2>1, IsWithDb
  <2>4. Got(m, B, h, fl, got, n, d.current, e, d, B, h, t)
    BY <1>2, <2>1, <2>2, <2>3 DEF Got
  <2>5. n \in Nat
    BY <2>1, <2>2
  <2> QED BY <2>4, <2>5 DEF n, got
<1>4. CASE d.free = 0
  <2> DEFINE N == Len(B) + 1
             b == FreeBlock(N, 0)
             C == Append(B, b)
             g == [i \in 1 .. Len(B) + 1 |-> IF i = Len(B) + 1 THEN 0 ELSE h[i]]
  <2>1. n = N /\ got = node_flush(s, b)
    BY <1>1, <1>4 DEF NextBlock
  <2>2. Good(m, d, C, g, fl) /\ Spare(C, fl) \subseteq Spare(B, fl) \cup {N}
    BY Grow
  <2>3. N \in Nat /\ FreeFacts(b, N, 0)
    BY <1>2, FreeBlockFacts
  <2>4. \A i \in 1 .. Len(B) : g[i] = h[i]
    BY <1>2
  <2> HIDE DEF b, g
  <2>5. b \in Blocks /\ b.self = N /\ b.kind = "free"
    BY <2>3 DEF FreeFacts
  <2>6. /\ C \in Seq(Blocks) /\ Len(C) = Len(B) + 1 /\ (\A i \in 1 .. Len(B) : C[i] = B[i])
        /\ C[Len(B) + 1] = b
    BY <1>2, <2>5, AppendProperties
  <2>7. Ok(m, FileOf(d, C))
    BY <2>2, GoodIsOk
  <2>8. Is(m, node_flush(s, b), d, d, C)
    BY <1>2, <2>5, <2>7, IsAppend
  <2> HIDE DEF C, n, got
  <2>9. \A i \in 1 .. Len(fl) : fl[i] # N
    BY <1>2 DEF FreeOK
  <2>10. N \in 1 .. Len(C) /\ C[N].kind = "free" /\ Len(B) <= Len(C) /\ N \notin 1 .. Len(B)
    BY <1>2, <2>5, <2>6
  <2> HIDE DEF N
  <2>11. Got(m, B, h, fl, got, n, d.current, d, d, C, g, fl)
    BY <2>1, <2>2, <2>4, <2>6, <2>8, <2>9, <2>10 DEF Got
  <2> QED BY <2>1, <2>3, <2>11 DEF n, got
<1> QED BY <1>3, <1>4

LEMMA CreateKey ==
  ASSUME NEW m \in Nat, NEW s, NEW d, NEW B, NEW h, NEW fl, Is(m, s, d, d, B), Good(m, d, B, h, fl),
         NEW leaf \in BOOLEAN
  PROVE  LET b == NewKeyBlock(NextBlock(s), leaf)
         IN  \E d2, B2, h2, fl2 :
               Created(m, B, h, fl, node_create(s, b), b, d.current, {NextBlock(s)}, d2, B2, h2, fl2)
<1> DEFINE n == NextBlock(s)
           b == NewKeyBlock(n, leaf)
           got == IF s.db.free # 0
                    THEN WithDb(s, [s.db EXCEPT !.free = s.file.blocks[s.db.free].next])
                    ELSE node_flush(s, FreeBlock(n, 0))
           t == node_create(s, b)
<1>1. n \in Nat /\ \E e, d1, B1, h1, fl1 : Got(m, B, h, fl, got, n, d.current, e, d1, B1, h1, fl1)
  BY CreateGets
<1> HIDE DEF n
<1>2. b.self = n /\ b \in Blocks
  <2>2. KeyFacts(b, n, leaf, <<>>, <<0>>)
    BY <1>1, NewKeyFacts
  <2> HIDE DEF b
  <2> QED BY <2>2 DEF KeyFacts
<1>3. t = node_flush(head_flush(WithDb(got, CountedIn(got.db, b))), b)
  <2> HIDE DEF b
  <2> QED BY <1>2 DEF node_create
<1> HIDE DEF got, t
<1>4. PICK e, d1, B1, h1, fl1 : Got(m, B, h, fl, got, n, d.current, e, d1, B1, h1, fl1)
  BY <1>1
<1>5. /\ Is(m, got, e, d1, B1) /\ Good(m, e, B1, h1, fl1) /\ e.current = d.current
      /\ n \in 1 .. Len(B1) /\ B1[n].kind = "free" /\ \A i \in 1 .. Len(fl1) : fl1[i] # n
  BY <1>4 DEF Got
<1>6. /\ Len(B) <= Len(B1) /\ (\A i \in 1 .. Len(B) : B1[i] = B[i] /\ h1[i] = h[i])
      /\ (n \in 1 .. Len(B) => B[n].kind = "free") /\ Spare(B1, fl1) \subseteq Spare(B, fl) \cup {n}
  BY <1>4 DEF Got
<1> DEFINE e2 == CountedIn(e, b)
           C == Blk(B1, n, b)
<1>7. /\ ~CountsOK(e2, B1) /\ Good(m, e2, C, h1, fl1)
      /\ Spare(C, fl1) \subseteq Spare(B1, fl1) \cup {n} /\ e2.current = e.current
  <2>1. KeyFilled(m, e, B1, h1, fl1, n, b)
    BY <1>5, FillKey
  <2> QED BY <2>1 DEF KeyFilled
<1> HIDE DEF b
<1>8. Is(m, t, e2, e2, C)
  BY <1>2, <1>3, <1>5, <1>7, CreateFilled
<1>9. Len(C) = Len(B1) /\ \A i \in 1 .. Len(B1) : C[i] = IF i = n THEN b ELSE B1[i]
  <2>1. B1 \in Seq(Blocks) /\ b \in Blocks
    BY <1>2, <1>5, GoodTypes
  <2>w. Written(B1, C, n, b)
    BY <1>5, <2>1, BlkType
  <2> QED BY <1>5, <2>1, <2>w DEF Written
<1> HIDE DEF e2, C
<1>10. \A i \in 1 .. Len(B) : i \in 1 .. Len(B1)
  <2>1. Len(B1) \in Nat /\ Len(B) \in Nat
    BY <1>5, GoodTypes
  <2> QED BY <1>6, <2>1
<1>11. Spare(C, fl1) \subseteq Spare(B, fl) \cup {n}
  BY <1>6, <1>7
<1>12. \A i \in 1 .. Len(B) : (i # b.self => C[i] = B[i]) /\ h1[i] = h[i]
  BY <1>2, <1>6, <1>9, <1>10
<1>13. b.self \in 1 .. Len(C) /\ C[b.self] = b /\ Len(B) <= Len(C)
  BY <1>2, <1>5, <1>6, <1>9
<1>14. Created(m, B, h, fl, t, b, d.current, {n}, e2, C, h1, fl1)
  BY <1>2, <1>5, <1>6, <1>7, <1>8, <1>11, <1>12, <1>13 DEF Created
<1> QED BY <1>14 DEF t, b, n

LEMMA CreateValue ==
  ASSUME NEW m \in Nat, NEW s, NEW d, NEW B, NEW h, NEW fl, Is(m, s, d, d, B), Good(m, d, B, h, fl),
         d.current = 0
  PROVE  LET b == NewValueBlock(NextBlock(s))
         IN  \E d2, B2, h2, fl2 :
               Created(m, B, h, fl, node_create(s, b), b, NextBlock(s), {}, d2, B2, h2, fl2)
<1> DEFINE n == NextBlock(s)
           b == NewValueBlock(n)
           got == IF s.db.free # 0
                    THEN WithDb(s, [s.db EXCEPT !.free = s.file.blocks[s.db.free].next])
                    ELSE node_flush(s, FreeBlock(n, 0))
           t == node_create(s, b)
<1>1. n \in Nat /\ \E e, d1, B1, h1, fl1 : Got(m, B, h, fl, got, n, d.current, e, d1, B1, h1, fl1)
  BY CreateGets
<1> HIDE DEF n
<1>2. b.self = n /\ b \in Blocks
  <2>2. ValueFacts(b, n, 0, 0, <<>>)
    BY <1>1, NewValueFacts
  <2> HIDE DEF b
  <2> QED BY <2>2 DEF ValueFacts
<1>3. t = node_flush(head_flush(WithDb(got, CountedIn(got.db, b))), b)
  <2> HIDE DEF b
  <2> QED BY <1>2 DEF node_create
<1> HIDE DEF got, t
<1>4. PICK e, d1, B1, h1, fl1 : Got(m, B, h, fl, got, n, d.current, e, d1, B1, h1, fl1)
  BY <1>1
<1>5. /\ Is(m, got, e, d1, B1) /\ Good(m, e, B1, h1, fl1) /\ e.current = d.current
      /\ n \in 1 .. Len(B1) /\ B1[n].kind = "free" /\ \A i \in 1 .. Len(fl1) : fl1[i] # n
  BY <1>4 DEF Got
<1>6. /\ Len(B) <= Len(B1) /\ (\A i \in 1 .. Len(B) : B1[i] = B[i] /\ h1[i] = h[i])
      /\ (n \in 1 .. Len(B) => B[n].kind = "free") /\ Spare(B1, fl1) \subseteq Spare(B, fl) \cup {n}
  BY <1>4 DEF Got
<1> DEFINE e2 == CountedIn(e, b)
           C == Blk(B1, n, b)
<1>7. /\ ~CountsOK(e2, B1) /\ Good(m, e2, C, h1, fl1)
      /\ Spare(C, fl1) \subseteq Spare(B1, fl1) \ {n} /\ e2.current = n
  <2>1. ValueFilled(m, e, B1, h1, fl1, n, b)
    BY <1>5, FillValue
  <2> QED BY <2>1 DEF ValueFilled
<1> HIDE DEF b
<1>8. Is(m, t, e2, e2, C)
  BY <1>2, <1>3, <1>5, <1>7, CreateFilled
<1>9. Len(C) = Len(B1) /\ \A i \in 1 .. Len(B1) : C[i] = IF i = n THEN b ELSE B1[i]
  <2>1. B1 \in Seq(Blocks) /\ b \in Blocks
    BY <1>2, <1>5, GoodTypes
  <2>w. Written(B1, C, n, b)
    BY <1>5, <2>1, BlkType
  <2> QED BY <1>5, <2>1, <2>w DEF Written
<1> HIDE DEF e2, C
<1>10. \A i \in 1 .. Len(B) : i \in 1 .. Len(B1)
  <2>1. Len(B1) \in Nat /\ Len(B) \in Nat
    BY <1>5, GoodTypes
  <2> QED BY <1>6, <2>1
<1>11. Spare(C, fl1) \subseteq Spare(B, fl) \cup {}
  BY <1>6, <1>7
<1>12. \A i \in 1 .. Len(B) : (i # b.self => C[i] = B[i]) /\ h1[i] = h[i]
  BY <1>2, <1>6, <1>9, <1>10
<1>13. b.self \in 1 .. Len(C) /\ C[b.self] = b /\ Len(B) <= Len(C)
  BY <1>2, <1>5, <1>6, <1>9
<1>14. Created(m, B, h, fl, t, b, n, {}, e2, C, h1, fl1)
  BY <1>2, <1>5, <1>6, <1>7, <1>8, <1>11, <1>12, <1>13 DEF Created
<1> QED BY <1>14 DEF t, b, n

-----------------------------------------------------------------------------
(* The tree is rebuilt: three blocks are written, and hold together the    *)
(* entries they held before.                                               *)

LEMMA KeyBlockOf ==
  ASSUME NEW b \in Blocks, b.kind = "key"
  PROVE  /\ KeyFacts(b, b.self, b.leaf, b.ents, b.kids)
         /\ b.self \in Nat /\ b.leaf \in BOOLEAN /\ b.ents \in Seq(Ent) /\ b.kids \in Seq(Nat)
<1>1. /\ b = KeyBlock(b.self, b.leaf, b.ents, b.kids)
      /\ b.self \in Nat /\ b.leaf \in BOOLEAN /\ b.ents \in Seq(Ent) /\ b.kids \in Seq(Nat)
  BY KeyShape
<1> DEFINE n == b.self
           l == b.leaf
           e == b.ents
           k == b.kids
<1>2. n \in Nat /\ l \in BOOLEAN /\ e \in Seq(Ent) /\ k \in Seq(Nat) /\ b = KeyBlock(n, l, e, k)
  BY <1>1
<1> HIDE DEF n, l, e, k
<1>3. KeyFacts(KeyBlock(n, l, e, k), n, l, e, k)
  BY <1>2, KeyBlockFacts
<1>4. KeyFacts(b, n, l, e, k)
  BY <1>2, <1>3
<1> QED BY <1>1, <1>4 DEF n, l, e, k

LEMMA NoValueWeighs ==
  ASSUME NEW b \in Blocks, b.kind # "value"
  PROVE  /\ WCount("values")[b] = 0 /\ WCount("valueBlocks")[b] = 0
         /\ WCount("keyBlocks")[b] = IF b.kind = "key" THEN 1 ELSE 0
BY DEF WCount, Counts

\* Where c is a child, and what a block with children is like.
\* Child p of block n is one level below it, and not the root.
KidIs(B, h, n, p) ==
  /\ B[n].kids[p] \in 1 .. Len(B) /\ h[n] # 0 /\ h[B[n].kids[p]] = h[n] - 1
  /\ Live(B, B[n].kids[p]) /\ B[n].kids[p] # Root /\ B[n].kids[p] # n

LEMMA KidFacts ==
  ASSUME NEW m \in Nat, NEW B, NEW h, Placed(B), TreeOK(m, B, h), NEW n \in Nat, Live(B, n), ~B[n].leaf,
         NEW p \in 1 .. Len(B[n].kids)
  PROVE  KidIs(B, h, n, p)
<1> DEFINE c == B[n].kids[p]
           kids == B[n].kids
<1>1. n \in 1 .. Len(B) /\ B[n].kind = "key" /\ B[n] \in Blocks /\ B[n].self = n /\ B \in Seq(Blocks) /\ Len(B) \in Nat
  BY DEF Placed, Live, IsKey
<1>2. NodeOK(m, h, Len(B), B[n]) /\ h \in [1 .. Len(B) -> Nat]
  BY DEF TreeOK
<1>3. h[n] # 0 /\ h[n] \in Nat /\ kids \in Seq(Below(h, Len(B), h[n]))
  BY <1>1, <1>2 DEF NodeOK
<1>4. c \in Below(h, Len(B), h[n])
  BY <1>3
<1>5. c \in 1 .. Len(B) /\ h[c] = h[n] - 1
  BY <1>3, <1>4 DEF Below
<1>7. WKids(c)[B[n]] = Cnt(kids, {c})
  <2>1. KeyFacts(B[n], B[n].self, B[n].leaf, B[n].ents, B[n].kids)
    BY <1>1, KeyBlockOf
  <2> QED BY <2>1 DEF KeyFacts
<1>8. Cnt(kids, {c}) >= 1
  <2>1. kids[p] \in {c} /\ p \in 1 .. Len(kids)
    OBVIOUS
  <2> HIDE DEF kids, c
  <2> QED BY <1>3, <2>1, CntMember
<1> HIDE DEF c, kids
<1>9. Weigh(B, WKids(c)) >= WKids(c)[B[n]] /\ Weigh(B, WKids(c)) \in Nat /\ WKids(c)[B[n]] \in Nat
  <2>1. WKids(c) \in [Blocks -> Nat]
    BY WeightTypes
  <2> QED BY <1>1, <2>1, WeighAtLeast, WeighType
<1>10. Weigh(B, WKids(c)) # 0
  BY <1>7, <1>8, <1>9
<1>11. Live(B, c) /\ c # Root
  <2>1. c \in Nat \ {0}
    BY <1>5
  <2> QED BY <1>10, <2>1 DEF TreeOK
<1>12. c # n
  BY <1>3, <1>5
<1> QED BY <1>3, <1>5, <1>11, <1>12 DEF c, KidIs

LEMMA KidsDiffer ==
  ASSUME NEW m \in Nat, NEW B, NEW h, Placed(B), TreeOK(m, B, h), NEW n \in Nat, Live(B, n), ~B[n].leaf,
         NEW p \in 1 .. Len(B[n].kids), NEW q \in 1 .. Len(B[n].kids), p # q
  PROVE  B[n].kids[p] # B[n].kids[q]
<1> SUFFICES ASSUME B[n].kids[p] = B[n].kids[q] PROVE FALSE
  OBVIOUS
<1> DEFINE c == B[n].kids[p]
           kids == B[n].kids
<1>1. n \in 1 .. Len(B) /\ B[n].kind = "key" /\ B[n] \in Blocks /\ B \in Seq(Blocks)
  BY DEF Placed, Live, IsKey
<1>2w. KidIs(B, h, n, p)
  BY KidFacts
<1>2. c \in 1 .. Len(B)
  BY <1>2w DEF KidIs
<1>3. WKids(c)[B[n]] = Cnt(kids, {c}) /\ kids \in Seq(Nat)
  <2>1. KeyFacts(B[n], B[n].self, B[n].leaf, B[n].ents, B[n].kids) /\ B[n].kids \in Seq(Nat)
    BY <1>1, KeyBlockOf
  <2> QED BY <2>1 DEF KeyFacts
<1>4. kids[p] \in {c} /\ kids[q] \in {c} /\ p \in 1 .. Len(kids) /\ q \in 1 .. Len(kids)
  OBVIOUS
<1> HIDE DEF c, kids
<1>5. Cnt(kids, {c}) >= 2
  BY <1>3, <1>4, CntTwo
<1>6. Weigh(B, WKids(c)) >= WKids(c)[B[n]] /\ Weigh(B, WKids(c)) \in Nat /\ WKids(c)[B[n]] \in Nat
  <2>1. WKids(c) \in [Blocks -> Nat]
    BY WeightTypes
  <2> QED BY <1>1, <2>1, WeighAtLeast, WeighType
<1>7. Weigh(B, WKids(c)) <= 1
  <2>1. c \in Nat \ {0}
    BY <1>2
  <2> QED BY <2>1 DEF TreeOK
<1> QED BY <1>3, <1>5, <1>6, <1>7

\* The blocks and the counts of C, in which the last two blocks written are b and c.
Kept(d, C, b, c) ==
  /\ Placed(C) /\ RefsOK(d.current, C)
  /\ Weigh(C, WCount("keys")) = d.total /\ Weigh(C, WCount("values")) = d.total
  /\ Weigh(C, WCount("valueBlocks")) = d.valueBlocks
  /\ Weigh(C, WCount("keyBlocks")) = d.keyBlocks - 2 + (IF b.kind = "key" THEN 1 ELSE 0)
                                                     + (IF c.kind = "key" THEN 1 ELSE 0)

LEMMA KeptByThree ==
  ASSUME NEW m \in Nat, NEW d, NEW B, NEW h, NEW fl, Good(m, d, B, h, fl), NEW C,
         NEW i \in 1 .. Len(B), NEW j \in 1 .. Len(B), NEW k \in 1 .. Len(B),
         NEW a \in Blocks, NEW b \in Blocks, NEW c \in Blocks, Three(B, C, i, a, j, b, k, c),
         a.self = i, b.self = j, c.self = k,
         B[i].kind = "key", B[j].kind = "key", B[k].kind = "key",
         a.kind = "key", b.kind # "value", c.kind # "value", j # Root, k # Root,
         \A P : WEnts(P)[a] + WEnts(P)[b] + WEnts(P)[c] = WEnts(P)[B[i]] + WEnts(P)[B[j]] + WEnts(P)[B[k]]
  PROVE  Kept(d, C, b, c)
<1>1. /\ d \in Handles /\ B \in Seq(Blocks) /\ Len(B) \in Nat /\ Len(B) >= 1
      /\ Root \in 1 .. Len(B) /\ B[Root].kind = "key"
      /\ \A n \in 1 .. Len(B) : B[n] \in Blocks /\ B[n].self = n
  BY GoodTypes
<1>2. CountsOK(d, B) /\ RefsOK(d.current, B)
  BY GoodTypes
<1>3. /\ C \in Seq(Blocks) /\ Len(C) = Len(B) /\ C[i] = a /\ C[j] = b /\ C[k] = c
      /\ \A n \in 1 .. Len(B) : n \notin {i, j, k} => C[n] = B[n]
  BY DEF Three
<1>4. ASSUME NEW f \in [Blocks -> Nat]
      PROVE  /\ Weigh(C, f) = Weigh(B, f) - f[B[i]] - f[B[j]] - f[B[k]] + f[a] + f[b] + f[c]
             /\ Weigh(B, f) \in Nat
             /\ f[B[i]] \in Nat /\ f[B[j]] \in Nat /\ f[B[k]] \in Nat
             /\ f[a] \in Nat /\ f[b] \in Nat /\ f[c] \in Nat
  <2>1. Weigh(C, f) = Weigh(B, f) - f[B[i]] - f[B[j]] - f[B[k]] + f[a] + f[b] + f[c]
    BY DEF Three
  <2>2. Weigh(B, f) \in Nat
    BY <1>1, WeighType
  <2>3. f[B[i]] \in Nat /\ f[B[j]] \in Nat /\ f[B[k]] \in Nat /\ f[a] \in Nat /\ f[b] \in Nat /\ f[c] \in Nat
    BY <1>1
  <2> QED BY <2>1, <2>2, <2>3
<1>5. Placed(C)
  BY <1>1, <1>3 DEF Placed
<1>6. \A P : Weigh(C, WEnts(P)) = Weigh(B, WEnts(P))
  <2> SUFFICES ASSUME NEW P PROVE Weigh(C, WEnts(P)) = Weigh(B, WEnts(P))
    OBVIOUS
  <2> DEFINE f == WEnts(P)
  <2>1. f \in [Blocks -> Nat]
    BY WeightTypes
  <2>2. f[a] + f[b] + f[c] = f[B[i]] + f[B[j]] + f[B[k]]
    OBVIOUS
  <2> HIDE DEF f
  <2>3. /\ Weigh(C, f) = Weigh(B, f) - f[B[i]] - f[B[j]] - f[B[k]] + f[a] + f[b] + f[c]
        /\ Weigh(B, f) \in Nat
        /\ f[B[i]] \in Nat /\ f[B[j]] \in Nat /\ f[B[k]] \in Nat
        /\ f[a] \in Nat /\ f[b] \in Nat /\ f[c] \in Nat
    BY <1>4, <2>1
  <2>4. Weigh(C, f) = Weigh(B, f)
    <3> DEFINE w == Weigh(B, f)
               x == f[B[i]]
               y == f[B[j]]
               z == f[B[k]]
               r == f[a]
               s == f[b]
               t == f[c]
    <3>1. /\ Weigh(C, f) = w - x - y - z + r + s + t /\ r + s + t = x + y + z
          /\ w \in Nat /\ x \in Nat /\ y \in Nat /\ z \in Nat /\ r \in Nat /\ s \in Nat /\ t \in Nat
      BY <2>2, <2>3
    <3> HIDE DEF w, x, y, z, r, s, t
    <3>2. Weigh(C, f) = w
      BY <3>1
    <3> QED BY <3>2 DEF w
  <2> QED BY <2>4 DEF f
<1>7. RefsOK(d.current, C)
  <2>1. \A n \in Nat : (IsValue(C, n) <=> IsValue(B, n)) /\ (IsValue(B, n) => C[n] = B[n])
    BY <1>3 DEF IsValue
  <2>2. d.current \in Nat
    BY <1>1, HandleTypes
  <2> QED BY <1>1, <1>2, <1>3, <1>6, <2>1, <2>2, RefsKept
<1>8. Weigh(C, WCount("keys")) = d.total
  <2>1. WCount("keys") = WEnts(Ent)
    BY KeysAreEntries, CountTypes, WeightTypes
  <2> QED BY <1>2, <1>6, <2>1 DEF CountsOK
<1>9. Weigh(C, WCount("values")) = d.total
  <2> DEFINE f == WCount("values")
  <2>1. f \in [Blocks -> Nat]
    BY CountTypes
  <2>2. f[B[i]] = 0 /\ f[B[j]] = 0 /\ f[B[k]] = 0 /\ f[a] = 0 /\ f[b] = 0 /\ f[c] = 0
    BY <1>1, NoValueWeighs
  <2>3. Weigh(B, f) = d.total
    BY <1>2 DEF CountsOK
  <2> HIDE DEF f
  <2>4. Weigh(C, f) = Weigh(B, f)
    BY <1>4, <2>1, <2>2
  <2> QED BY <2>3, <2>4 DEF f
<1>10. Weigh(C, WCount("valueBlocks")) = d.valueBlocks
  <2> DEFINE f == WCount("valueBlocks")
  <2>1. f \in [Blocks -> Nat]
    BY CountTypes
  <2>2. f[B[i]] = 0 /\ f[B[j]] = 0 /\ f[B[k]] = 0 /\ f[a] = 0 /\ f[b] = 0 /\ f[c] = 0
    BY <1>1, NoValueWeighs
  <2>3. Weigh(B, f) = d.valueBlocks
    BY <1>2 DEF CountsOK
  <2> HIDE DEF f
  <2>4. Weigh(C, f) = Weigh(B, f)
    BY <1>4, <2>1, <2>2
  <2> QED BY <2>3, <2>4 DEF f
<1>11. Weigh(C, WCount("keyBlocks")) = d.keyBlocks - 2 + (IF b.kind = "key" THEN 1 ELSE 0)
                                                      + (IF c.kind = "key" THEN 1 ELSE 0)
  <2> DEFINE f == WCount("keyBlocks")
             u == IF b.kind = "key" THEN 1 ELSE 0
             v == IF c.kind = "key" THEN 1 ELSE 0
  <2>1. f \in [Blocks -> Nat]
    BY CountTypes
  <2>2. f[B[i]] = 1 /\ f[B[j]] = 1 /\ f[B[k]] = 1 /\ f[a] = 1 /\ f[b] = u /\ f[c] = v
    BY <1>1, NoValueWeighs
  <2>3. Weigh(B, f) = d.keyBlocks
    BY <1>2 DEF CountsOK
  <2> HIDE DEF f, u, v
  <2>4. Weigh(C, f) = Weigh(B, f) - 2 + u + v
    <3>1. Weigh(C, f) = Weigh(B, f) - 1 - 1 - 1 + 1 + u + v /\ Weigh(B, f) \in Nat
      BY <1>4, <2>1, <2>2
    <3>2. u \in Nat /\ v \in Nat
      BY DEF u, v
    <3> QED BY <3>1, <3>2
  <2> QED BY <2>3, <2>4 DEF f, u, v
<1> QED BY <1>5, <1>7, <1>8, <1>9, <1>10, <1>11 DEF Kept

\* Three key blocks are written and hold together the same entries.
Swap(B, C, i, a, j, b, k, c) ==
  /\ Three(B, C, i, a, j, b, k, c)
  /\ i \in 1 .. Len(B) /\ j \in 1 .. Len(B) /\ k \in 1 .. Len(B) /\ j # Root /\ k # Root
  /\ a \in Blocks /\ b \in Blocks /\ c \in Blocks /\ a.self = i /\ b.self = j /\ c.self = k
  /\ B[i].kind = "key" /\ B[j].kind = "key" /\ B[k].kind = "key"
  /\ a.kind = "key" /\ b.kind # "value" /\ c.kind # "value"
  /\ \A P : WEnts(P)[a] + WEnts(P)[b] + WEnts(P)[c] = WEnts(P)[B[i]] + WEnts(P)[B[j]] + WEnts(P)[B[k]]

LEMMA KeptBySwap ==
  ASSUME NEW m \in Nat, NEW d, NEW B, NEW h, NEW fl, Good(m, d, B, h, fl), NEW C,
         NEW i, NEW a, NEW j, NEW b, NEW k, NEW c, Swap(B, C, i, a, j, b, k, c)
  PROVE  Kept(d, C, b, c)
<1>1. /\ Three(B, C, i, a, j, b, k, c)
      /\ i \in 1 .. Len(B) /\ j \in 1 .. Len(B) /\ k \in 1 .. Len(B) /\ j # Root /\ k # Root
      /\ a \in Blocks /\ b \in Blocks /\ c \in Blocks /\ a.self = i /\ b.self = j /\ c.self = k
      /\ B[i].kind = "key" /\ B[j].kind = "key" /\ B[k].kind = "key"
      /\ a.kind = "key" /\ b.kind # "value" /\ c.kind # "value"
  BY DEF Swap
<1>2. \A P : WEnts(P)[a] + WEnts(P)[b] + WEnts(P)[c] = WEnts(P)[B[i]] + WEnts(P)[B[j]] + WEnts(P)[B[k]]
  BY DEF Swap
<1> QED BY <1>1, <1>2, KeptByThree

LEMMA CeilFacts ==
  ASSUME NEW m \in Nat, m >= 4
  PROVE  ceil(m) \in Nat /\ ceil(m) >= 1 /\ ceil(m) <= m - 3 /\ ceil(m) + ceil(m) <= m - 1
BY DEF ceil

LEMMA TreeByThree ==
  ASSUME NEW m \in Nat, NEW B \in Seq(Blocks), NEW h, TreeOK(m, B, h), NEW g \in [1 .. Len(B) -> Nat], NEW C,
         NEW i \in 1 .. Len(B), NEW j \in 1 .. Len(B), NEW k \in 1 .. Len(B), NEW a, NEW b, NEW c,
         Three(B, C, i, a, j, b, k, c),
         \A n \in Nat : n \notin {i, j, k} /\ Live(B, n) => NodeOK(m, g, Len(B), B[n]),
         Live(C, i), NodeOK(m, g, Len(B), a),
         b.kind = "free" \/ (Live(C, j) /\ NodeOK(m, g, Len(B), b)),
         c.kind = "free" \/ (Live(C, k) /\ NodeOK(m, g, Len(B), c)),
         \A x \in Nat \ {0} : Weigh(C, WKids(x)) = IF Live(C, x) /\ x # Root THEN 1 ELSE 0
  PROVE  TreeOK(m, C, g)
<1>1. /\ Len(C) = Len(B) /\ C[i] = a /\ C[j] = b /\ C[k] = c
      /\ \A n \in 1 .. Len(B) : n \notin {i, j, k} => C[n] = B[n]
  BY DEF Three
<1>2. ASSUME NEW n \in Nat, n \notin {i, j, k}
      PROVE  (IsKey(C, n) <=> IsKey(B, n)) /\ (Live(C, n) <=> Live(B, n)) /\ (IsKey(B, n) => C[n] = B[n])
  BY <1>1, <1>2 DEF IsKey, Live
<1>3. ASSUME NEW n \in Nat, Live(C, n) PROVE NodeOK(m, g, Len(C), C[n])
  <2>1. CASE n \in {i, j, k}
    <3>1. C[n].kind = "key"
      BY <1>3 DEF Live, IsKey
    <3> QED BY <1>1, <2>1, <3>1
  <2>2. CASE n \notin {i, j, k}
    <3>1. Live(B, n) /\ IsKey(B, n) /\ C[n] = B[n]
      BY <1>2, <1>3, <2>2 DEF Live
    <3> QED BY <1>1, <2>2, <3>1
  <2> QED BY <2>1, <2>2
<1>4. ASSUME NEW n \in Nat, IsKey(C, n), ~Live(C, n) PROVE C[n].kids = <<0>>
  <2>1. C[n].kind = "key"
    BY <1>4 DEF IsKey
  <2>2. n \notin {i, j, k}
    BY <1>1, <1>4, <2>1
  <2>3. IsKey(B, n) /\ ~Live(B, n) /\ C[n] = B[n]
    BY <1>2, <1>4, <2>2
  <2> QED BY <2>3 DEF TreeOK
<1> QED BY <1>1, <1>3, <1>4 DEF TreeOK

\* The entries E and the children K of a full block, cut after entry n: a part
\* on the left, the entry in the middle and a part on the right.
SplitParts(E, K, n, S, T) ==
  /\ SubSeq(E, 1, n) \in Seq(S) /\ Len(SubSeq(E, 1, n)) = n
  /\ SubSeq(E, n + 2, Len(E)) \in Seq(S) /\ Len(SubSeq(E, n + 2, Len(E))) = Len(E) - n - 1
  /\ E[n + 1] \in S
  /\ SubSeq(K, 1, n + 1) \in Seq(T) /\ Len(SubSeq(K, 1, n + 1)) = n + 1
  /\ SubSeq(K, n + 2, Len(K)) \in Seq(T) /\ Len(SubSeq(K, n + 2, Len(K))) = Len(E) - n
  /\ \A P : Cnt(E, P) = Cnt(SubSeq(E, 1, n), P) + One(E[n + 1], P) + Cnt(SubSeq(E, n + 2, Len(E)), P)
  /\ \A P : Cnt(K, P) = Cnt(SubSeq(K, 1, n + 1), P) + Cnt(SubSeq(K, n + 2, Len(K)), P)

LEMMA SplitPartsOf ==
  ASSUME NEW S, NEW T, NEW E \in Seq(S), NEW K \in Seq(T), Len(K) = Len(E) + 1,
         NEW n \in Nat, n + 1 <= Len(E)
  PROVE  SplitParts(E, K, n, S, T)
<1> DEFINE i == n + 1
<1>1. Len(E) \in Nat /\ Len(K) \in Nat /\ i \in 1 .. Len(E) /\ i \in 0 .. Len(K) /\ i - 1 = n /\ i + 1 = n + 2
  OBVIOUS
<1> HIDE DEF i
<1>2. /\ SubSeq(E, 1, i - 1) \in Seq(S) /\ Len(SubSeq(E, 1, i - 1)) = i - 1
      /\ SubSeq(E, i + 1, Len(E)) \in Seq(S) /\ Len(SubSeq(E, i + 1, Len(E))) = Len(E) - i
      /\ E[i] \in S
  BY <1>1, Around
<1>3. \A P : Cnt(E, P) = Cnt(SubSeq(E, 1, i - 1), P) + One(E[i], P) + Cnt(SubSeq(E, i + 1, Len(E)), P)
  BY <1>1, CntAround
<1>4. /\ SubSeq(K, 1, i) \in Seq(T) /\ Len(SubSeq(K, 1, i)) = i
      /\ SubSeq(K, i + 1, Len(K)) \in Seq(T) /\ Len(SubSeq(K, i + 1, Len(K))) = Len(K) - i
  BY <1>1, CutAt
<1>5. \A P : Cnt(K, P) = Cnt(SubSeq(K, 1, i), P) + Cnt(SubSeq(K, i + 1, Len(K)), P)
  BY <1>1, CntCut
<1>6. i = n + 1 /\ Len(E) - i = Len(E) - n - 1 /\ Len(K) - i = Len(E) - n
  BY <1>1 DEF i
<1> QED BY <1>1, <1>2, <1>3, <1>4, <1>5, <1>6 DEF SplitParts

\* Block b as a node of the tree: its number n, its contents and its place.
NodeAt(m, h, N, b, n, leaf, ents, kids) ==
  /\ KeyFacts(b, n, leaf, ents, kids) /\ NodeOK(m, h, N, b)
  /\ n \in 1 .. N /\ leaf \in BOOLEAN /\ ents \in Seq(Ent) /\ kids \in Seq(Nat)
  /\ kids \in Seq(Below(h, N, h[n])) /\ Len(ents) \in Nat /\ Len(kids) = Len(ents) + 1
  /\ (leaf <=> h[n] = 0) /\ h[n] \in Nat /\ h[n] <= h[Root]
  /\ Len(ents) <= m /\ (leaf \/ Len(ents) > 0)

LEMMA NodeMade ==
  ASSUME NEW m \in Nat, NEW N \in Nat, NEW h \in [1 .. N -> Nat], NEW n \in 1 .. N, NEW leaf \in BOOLEAN,
         NEW ents \in Seq(Ent), NEW kids \in Seq(Below(h, N, h[n])), Len(kids) = Len(ents) + 1,
         leaf <=> h[n] = 0, h[n] <= h[Root], Len(ents) <= m, leaf \/ Len(ents) > 0
  PROVE  NodeAt(m, h, N, KeyBlock(n, leaf, ents, kids), n, leaf, ents, kids)
<1> DEFINE b == KeyBlock(n, leaf, ents, kids)
<1>1. Below(h, N, h[n]) \subseteq Nat
  BY DEF Below
<1>2. kids \in Seq(Nat)
  BY <1>1, SeqMonotonic
<1>3. KeyFacts(b, n, leaf, ents, kids)
  BY <1>2, KeyBlockFacts
<1> HIDE DEF b
<1>4. b.self = n /\ b.leaf = leaf /\ b.ents = ents /\ b.kids = kids
  BY <1>3 DEF KeyFacts
<1>5. NodeOK(m, h, N, b)
  BY <1>4 DEF NodeOK
<1>6. Len(ents) \in Nat /\ h[n] \in Nat
  OBVIOUS
<1>7. NodeAt(m, h, N, b, n, leaf, ents, kids)
  BY <1>2, <1>3, <1>5, <1>6 DEF NodeAt
<1> QED BY <1>7 DEF b

LEMMA NodeWeighs ==
  ASSUME NEW m, NEW h, NEW N, NEW b, NEW n, NEW leaf, NEW ents, NEW kids,
         NodeAt(m, h, N, b, n, leaf, ents, kids)
  PROVE  /\ \A P : WEnts(P)[b] = Cnt(ents, P)
         /\ \A c : WKids(c)[b] = Cnt(kids, {c})
         /\ WCount("keys")[b] = Len(ents)
         /\ b \in Blocks /\ b.self = n /\ b.kind = "key" /\ b.leaf = leaf /\ b.ents = ents /\ b.kids = kids
BY DEF NodeAt, KeyFacts

LEMMA NodeOf ==
  ASSUME NEW m \in Nat, NEW B, NEW h, Placed(B), TreeOK(m, B, h), NEW n \in Nat, Live(B, n)
  PROVE  NodeAt(m, h, Len(B), B[n], n, B[n].leaf, B[n].ents, B[n].kids)
<1> DEFINE b == B[n]
           N == Len(B)
<1>1. n \in 1 .. N /\ b.kind = "key" /\ b \in Blocks /\ b.self = n
  BY DEF Placed, Live, IsKey
<1>2. NodeOK(m, h, N, b) /\ h \in [1 .. N -> Nat]
  BY DEF TreeOK
<1> HIDE DEF b, N
<1>3. /\ KeyFacts(b, b.self, b.leaf, b.ents, b.kids)
      /\ b.leaf \in BOOLEAN /\ b.ents \in Seq(Ent) /\ b.kids \in Seq(Nat)
  BY <1>1, KeyBlockOf
<1>4. Len(b.ents) \in Nat /\ h[n] \in Nat
  BY <1>1, <1>2, <1>3
<1>5. /\ b.kids \in Seq(Below(h, N, h[n])) /\ Len(b.kids) = Len(b.ents) + 1 /\ (b.leaf <=> h[n] = 0)
      /\ h[n] <= h[Root] /\ Len(b.ents) <= m /\ (b.leaf \/ Len(b.ents) > 0)
  BY <1>1, <1>2 DEF NodeOK
<1>6. NodeAt(m, h, N, b, n, b.leaf, b.ents, b.kids)
  BY <1>1, <1>2, <1>3, <1>4, <1>5 DEF NodeAt
<1> QED BY <1>6 DEF b, N

\* No block has a child that is not in the tree, and none has the root.
LEMMA NoParent ==
  ASSUME NEW m \in Nat, NEW B, NEW h, Placed(B), TreeOK(m, B, h), NEW n \in Nat, Live(B, n),
         NEW c \in Nat \ {0}, ~Live(B, c) \/ c = Root
  PROVE  Cnt(B[n].kids, {c}) = 0
<1>1. B \in Seq(Blocks) /\ n \in 1 .. Len(B)
  BY DEF Placed, Live, IsKey
<1>2. WKids(c)[B[n]] = Cnt(B[n].kids, {c}) /\ B[n] \in Blocks
  <2>1. NodeAt(m, h, Len(B), B[n], n, B[n].leaf, B[n].ents, B[n].kids)
    BY NodeOf
  <2> QED BY <2>1 DEF NodeAt, KeyFacts
<1>3. Weigh(B, WKids(c)) = 0
  BY DEF TreeOK
<1>4. WKids(c) \in [Blocks -> Nat]
  BY WeightTypes
<1>5. Weigh(B, WKids(c)) >= WKids(c)[B[n]] /\ WKids(c)[B[n]] \in Nat
  BY <1>1, <1>2, <1>4, WeighAtLeast
<1> QED BY <1>2, <1>3, <1>5

\* A block that is not in the tree may be given any height.
LEMMA Rehang ==
  ASSUME NEW m \in Nat, NEW B, NEW h, Placed(B), TreeOK(m, B, h), NEW c \in 1 .. Len(B), ~Live(B, c),
         NEW l \in Nat
  PROVE  TreeOK(m, B, [h EXCEPT ![c] = l])
<1> DEFINE g == [h EXCEPT ![c] = l]
<1>1. B \in Seq(Blocks) /\ Len(B) \in Nat /\ Len(B) >= 1 /\ h \in [1 .. Len(B) -> Nat] /\ g \in [1 .. Len(B) -> Nat]
  BY DEF Placed, TreeOK
<1>2. c # Root
  BY <1>1 DEF Live, IsKey, Placed, Root
<1>3. ASSUME NEW n \in Nat, Live(B, n) PROVE NodeOK(m, g, Len(B), B[n])
  <2>1. NodeOK(m, h, Len(B), B[n])
    BY <1>3 DEF TreeOK
  <2>2. n \in 1 .. Len(B) /\ B[n].self = n /\ n # c
    BY <1>3 DEF Live, IsKey, Placed
  <2> HIDE DEF g
  <2>0. c \in Nat \ {0}
    OBVIOUS
  <2>3. Cnt(B[n].kids, {c}) = 0
    BY <1>3, <2>0, NoParent
  <2>4. NodeOK(m, [h EXCEPT ![c] = l], Len(B), B[n])
    BY <1>1, <1>2, <2>1, <2>2, <2>3, NodeRehung
  <2> QED BY <2>4 DEF g
<1> HIDE DEF g
<1>4. TreeOK(m, B, g)
  BY <1>1, <1>3 DEF TreeOK
<1> QED BY <1>4 DEF g

LEMMA RehangGood ==
  ASSUME NEW m \in Nat, NEW d, NEW B, NEW h, NEW fl, Good(m, d, B, h, fl), NEW c \in 1 .. Len(B), ~Live(B, c),
         NEW l \in Nat
  PROVE  Good(m, d, B, [h EXCEPT ![c] = l], fl)
<1>1. Placed(B) /\ TreeOK(m, B, h)
  BY DEF Good
<1>2. TreeOK(m, B, [h EXCEPT ![c] = l])
  BY <1>1, Rehang
<1> QED BY <1>2 DEF Good

\* Three blocks of the tree are written and stay in it.
Regrown(m, B, C, g, i, a, j, b, k, c) ==
  /\ Swap(B, C, i, a, j, b, k, c) /\ b.kind = "key" /\ c.kind = "key"
  /\ TreeOK(m, C, g) /\ Live(C, i) /\ Live(C, j) /\ Live(C, k)

LEMMA Rebuilt ==
  ASSUME NEW m \in Nat, NEW d, NEW B, NEW h, NEW fl, Good(m, d, B, h, fl), NEW C, NEW g,
         NEW i, NEW a, NEW j, NEW b, NEW k, NEW c, Regrown(m, B, C, g, i, a, j, b, k, c)
  PROVE  Good(m, d, C, g, fl) /\ Spare(C, fl) \subseteq Spare(B, fl) \ {i, j, k}
<1>0. Swap(B, C, i, a, j, b, k, c) /\ b.kind = "key" /\ c.kind = "key" /\ TreeOK(m, C, g)
  BY DEF Regrown
<1>a. /\ Three(B, C, i, a, j, b, k, c) /\ i \in 1 .. Len(B) /\ j \in 1 .. Len(B) /\ k \in 1 .. Len(B)
      /\ B[i].kind = "key" /\ B[j].kind = "key" /\ B[k].kind = "key" /\ a.kind = "key"
  BY <1>0 DEF Swap
<1>b. Live(C, i) /\ Live(C, j) /\ Live(C, k)
  BY DEF Regrown
<1>1. /\ d \in Handles /\ B \in Seq(Blocks) /\ Len(B) \in Nat /\ CountsOK(d, B) /\ FreeOK(d.free, B, fl)
  BY GoodTypes
<1>2. /\ C \in Seq(Blocks) /\ Len(C) = Len(B) /\ C[i] = a /\ C[j] = b /\ C[k] = c
      /\ \A n \in 1 .. Len(B) : n \notin {i, j, k} => C[n] = B[n]
  BY <1>a DEF Three
<1>4. /\ Placed(C) /\ RefsOK(d.current, C)
      /\ Weigh(C, WCount("keys")) = d.total /\ Weigh(C, WCount("values")) = d.total
      /\ Weigh(C, WCount("valueBlocks")) = d.valueBlocks
      /\ Weigh(C, WCount("keyBlocks")) = d.keyBlocks - 2 + (IF b.kind = "key" THEN 1 ELSE 0)
                                                         + (IF c.kind = "key" THEN 1 ELSE 0)
  <2>1. Kept(d, C, b, c)
    BY <1>0, KeptBySwap
  <2> QED BY <2>1 DEF Kept
<1>5. CountsOK(d, C)
  <2>1. d.keyBlocks \in Int
    BY <1>1, HandleTypes
  <2>2. Weigh(C, WCount("keyBlocks")) = d.keyBlocks
    BY <1>0, <1>4, <2>1
  <2> QED BY <1>4, <2>2 DEF CountsOK
<1>6. FreeOK(d.free, C, fl)
  <2>1. \A n \in 1 .. Len(B) : B[n].kind = "free" => C[n] = B[n]
    BY <1>a, <1>2
  <2> QED BY <1>1, <1>2, <2>1, FreeKept
<1>7. Good(m, d, C, g, fl)
  BY <1>0, <1>1, <1>4, <1>5, <1>6 DEF Good
<1>8. ASSUME NEW n \in Spare(C, fl) PROVE n \in Spare(B, fl) \ {i, j, k}
  <2>1. n \in 1 .. Len(B) /\ n \notin {i, j, k}
    BY <1>0, <1>a, <1>b, <1>2, <1>8 DEF Spare
  <2>2. C[n] = B[n]
    BY <1>2, <2>1
  <2>3. Live(C, n) <=> Live(B, n)
    BY <1>2, <2>1, <2>2 DEF Live, IsKey
  <2> QED BY <1>8, <2>1, <2>2, <2>3 DEF Spare
<1> QED BY <1>7, <1>8

\* The writes of three blocks, of which the last one makes the counts right.
LEMMA OffByKeys ==
  ASSUME NEW m, NEW d \in Handles, NEW B \in Seq(Blocks), Weigh(B, WCount("keys")) = d.total,
         NEW i \in 1 .. Len(B), NEW a \in Blocks, WCount("keys")[a] # WCount("keys")[B[i]]
  PROVE  Ok(m, FileOf(d, Blk(B, i, a)))
<1> DEFINE f == WCount("keys")
           C == Blk(B, i, a)
<1>0. B[i] \in Blocks
  OBVIOUS
<1>1. f \in [Blocks -> Nat] /\ B[i] \in Blocks
  BY <1>0, CountTypes
<1>2. Weigh(C, f) = Weigh(B, f) - f[B[i]] + f[a] /\ Weigh(B, f) \in Nat
  BY <1>1, WeighBlk, WeighType
<1>3w. Written(B, C, i, a)
  BY BlkType
<1>3. C \in Seq(Blocks)
  BY <1>3w DEF Written
<1>4. f[B[i]] \in Nat /\ f[a] \in Nat /\ f[a] # f[B[i]] /\ Weigh(B, f) = d.total
  BY <1>1
<1> HIDE DEF C, f
<1>5. Weigh(C, f) # d.total
  BY <1>2, <1>4
<1>6. ~CountsOK(d, C)
  BY <1>5 DEF CountsOK, f
<1>7. Ok(m, FileOf(d, C))
  BY <1>3, <1>6, OffIsOk
<1> QED BY <1>7 DEF C

LEMMA OffByTwo ==
  ASSUME NEW m, NEW d \in Handles, NEW B \in Seq(Blocks), Weigh(B, WCount("keys")) = d.total,
         NEW i \in 1 .. Len(B), NEW j \in 1 .. Len(B), i # j, NEW a \in Blocks, NEW b \in Blocks,
         WCount("keys")[a] + WCount("keys")[b] # WCount("keys")[B[i]] + WCount("keys")[B[j]]
  PROVE  Ok(m, FileOf(d, Blk(Blk(B, i, a), j, b)))
<1> DEFINE f == WCount("keys")
           C == Blk(Blk(B, i, a), j, b)
<1>0. B[i] \in Blocks /\ B[j] \in Blocks
  OBVIOUS
<1>1. f \in [Blocks -> Nat] /\ B[i] \in Blocks /\ B[j] \in Blocks
  BY <1>0, CountTypes
<1>2. Two(B, C, i, a, j, b)
  BY WeighTwo
<1> HIDE DEF C
<1>3. Weigh(C, f) = Weigh(B, f) - f[B[i]] - f[B[j]] + f[a] + f[b] /\ Weigh(B, f) \in Nat /\ C \in Seq(Blocks)
  BY <1>1, <1>2, WeighType DEF Two
<1>4. /\ f[B[i]] \in Nat /\ f[B[j]] \in Nat /\ f[a] \in Nat /\ f[b] \in Nat
      /\ f[a] + f[b] # f[B[i]] + f[B[j]] /\ Weigh(B, f) = d.total
  BY <1>1
<1> DEFINE u == f[B[i]]
           v == f[B[j]]
           w == f[a]
           x == f[b]
           t == d.total
           y == Weigh(C, f)
<1>5. /\ y = t - u - v + w + x /\ t \in Nat
      /\ u \in Nat /\ v \in Nat /\ w \in Nat /\ x \in Nat /\ w + x # u + v
  BY <1>3, <1>4
<1>6. Weigh(C, f) # d.total
  <2> HIDE DEF f, u, v, w, x, t, y
  <2>1. y # t
    BY <1>5
  <2> QED BY <2>1 DEF y, t
<1> HIDE DEF f
<1>7. ~CountsOK(d, C)
  BY <1>6 DEF CountsOK, f
<1>8. Ok(m, FileOf(d, C))
  BY <1>3, <1>7, OffIsOk
<1> QED BY <1>8 DEF C

LEMMA WriteThree ==
  ASSUME NEW m, NEW s, NEW d \in Handles, NEW B \in Seq(Blocks), Is(m, s, d, d, B),
         Weigh(B, WCount("keys")) = d.total,
         NEW i \in 1 .. Len(B), NEW j \in 1 .. Len(B), NEW k \in 1 .. Len(B), i # j,
         NEW a \in Blocks, NEW b \in Blocks, NEW c \in Blocks, a.self = i, b.self = j, c.self = k,
         NEW moves \in BOOLEAN, moves \/ WCount("keys")[a] # WCount("keys")[B[i]],
         WCount("keys")[a] + WCount("keys")[b] # WCount("keys")[B[i]] + WCount("keys")[B[j]],
         NEW g, NEW fl, Good(m, d, Blk(Blk(Blk(B, i, a), j, b), k, c), g, fl)
  PROVE  Is(m, node_flush(node_flush(Put(s, a, moves), b), c), d, d, Blk(Blk(Blk(B, i, a), j, b), k, c))
<1> DEFINE B1 == Blk(B, i, a)
           B2 == Blk(B1, j, b)
           B3 == Blk(B2, k, c)
           s1 == Put(s, a, moves)
           s2 == node_flush(s1, b)
<1>1w. Written(B, B1, i, a)
  BY BlkType
<1>1. B1 \in Seq(Blocks) /\ Len(B1) = Len(B)
  BY <1>1w DEF Written
<1>2. moves \/ Ok(m, FileOf(d, B1))
  BY OffByKeys
<1>3. Ok(m, FileOf(d, B2))
  BY OffByTwo
<1>4. Is(m, s1, d, d, B1)
  BY <1>2, IsPut
<1> HIDE DEF B1, s1
<1>5. Ok(m, FileOf(d, B3))
  BY GoodIsOk DEF B1
<1>6w. Written(B1, B2, j, b)
  BY <1>1, BlkType
<1>6. B2 \in Seq(Blocks) /\ Len(B2) = Len(B)
  BY <1>1, <1>6w DEF Written
<1>7. j \in 1 .. Len(B1)
  BY <1>1
<1>8. Is(m, s2, d, d, B2)
  BY <1>1, <1>3, <1>4, <1>7, IsFlush
<1> HIDE DEF B2, s2
<1>9. k \in 1 .. Len(B2)
  BY <1>6
<1>10. Is(m, node_flush(s2, c), d, d, B3)
  BY <1>5, <1>6, <1>8, <1>9, IsFlush
<1> QED BY <1>10 DEF s2, s1, B2, B1

\* Three blocks of B are written, with good blocks C as the result.
Rewritten(m, d, B, C, g, fl, i, a, j, b, k, c, moves) ==
  /\ C = Blk(Blk(Blk(B, i, a), j, b), k, c)
  /\ i \in 1 .. Len(B) /\ j \in 1 .. Len(B) /\ k \in 1 .. Len(B) /\ i # j /\ i # k /\ j # k
  /\ a \in Blocks /\ b \in Blocks /\ c \in Blocks /\ a.self = i /\ b.self = j /\ c.self = k
  /\ moves \/ WCount("keys")[a] # WCount("keys")[B[i]]
  /\ WCount("keys")[a] + WCount("keys")[b] # WCount("keys")[B[i]] + WCount("keys")[B[j]]
  /\ Good(m, d, C, g, fl)

LEMMA WriteRewritten ==
  ASSUME NEW m, NEW s, NEW d \in Handles, NEW B \in Seq(Blocks), Is(m, s, d, d, B),
         Weigh(B, WCount("keys")) = d.total, NEW C, NEW g, NEW fl,
         NEW i, NEW a, NEW j, NEW b, NEW k, NEW c, NEW moves \in BOOLEAN,
         Rewritten(m, d, B, C, g, fl, i, a, j, b, k, c, moves)
  PROVE  Is(m, node_flush(node_flush(Put(s, a, moves), b), c), d, d, C)
<1>1. /\ C = Blk(Blk(Blk(B, i, a), j, b), k, c)
      /\ i \in 1 .. Len(B) /\ j \in 1 .. Len(B) /\ k \in 1 .. Len(B) /\ i # j
      /\ a \in Blocks /\ b \in Blocks /\ c \in Blocks /\ a.self = i /\ b.self = j /\ c.self = k
      /\ (moves \/ WCount("keys")[a] # WCount("keys")[B[i]])
      /\ WCount("keys")[a] + WCount("keys")[b] # WCount("keys")[B[i]] + WCount("keys")[B[j]]
  BY DEF Rewritten
<1>2. Good(m, d, Blk(Blk(Blk(B, i, a), j, b), k, c), g, fl)
  BY <1>1 DEF Rewritten
<1>3. Is(m, node_flush(node_flush(Put(s, a, moves), b), c), d, d, Blk(Blk(Blk(B, i, a), j, b), k, c))
  BY <1>1, <1>2, WriteThree
<1> QED BY <1>1, <1>3

-----------------------------------------------------------------------------
(* btree_split_child.                                                      *)

\* A new block of the tree, before it is filled.
LEMMA NotLive ==
  ASSUME NEW m \in Nat, NEW B, NEW h, Placed(B), TreeOK(m, B, h), NEW n \in 1 .. Len(B), B[n].kind = "key",
         ~Live(B, n)
  PROVE  /\ n # Root /\ n \in Nat \ {0} /\ B[n] \in Blocks
         /\ WCount("keys")[B[n]] = 0
         /\ \A P : WEnts(P)[B[n]] = 0
         /\ \A c \in Nat \ {0} : WKids(c)[B[n]] = 0
<1>1. B[n] \in Blocks /\ n \in Nat /\ n # 0 /\ n # Root /\ B[n].ents = <<>> /\ B[n].kids = <<0>>
  <2>1. IsKey(B, n) /\ n \in Nat /\ n # 0
    BY DEF IsKey, Placed
  <2> QED BY <2>1 DEF Live, Placed, TreeOK
<1>2. KeyFacts(B[n], B[n].self, B[n].leaf, B[n].ents, B[n].kids)
  BY <1>1, KeyBlockOf
<1>3. WCount("keys")[B[n]] = 0 /\ \A P : WEnts(P)[B[n]] = 0
  <2>1. \A P : Cnt(<<>>, P) = 0
    BY CntEmpty
  <2>2. Len(<<>>) = 0
    BY EmptySeq
  <2> QED BY <1>1, <1>2, <2>1, <2>2 DEF KeyFacts
<1>4. ASSUME NEW c \in Nat \ {0} PROVE WKids(c)[B[n]] = 0
  <2>1. Cnt(<<0>>, {c}) = One(0, {c})
    BY CntOne
  <2>2. One(0, {c}) = 0
    BY DEF One
  <2> QED BY <1>1, <1>2, <2>1, <2>2 DEF KeyFacts
<1> QED BY <1>1, <1>3, <1>4

\* Block nx, child p of block n0, is full and gives its right part to ny.
SplitUp(B, n0, p, n, nx, ny) ==
  KeyBlock(n0, B[n0].leaf, InsertAt(B[n0].ents, p, B[nx].ents[n + 1]), InsertAt(B[n0].kids, p + 1, ny))
SplitLeft(B, n, nx) ==
  KeyBlock(nx, B[nx].leaf, SubSeq(B[nx].ents, 1, n), SubSeq(B[nx].kids, 1, n + 1))
SplitRight(B, n, nx, ny) ==
  KeyBlock(ny, B[nx].leaf, SubSeq(B[nx].ents, n + 2, Len(B[nx].ents)), SubSeq(B[nx].kids, n + 2, Len(B[nx].kids)))

SplitNodes(m, h, B, n0, p, n, nx, ny) ==
  LET E0 == B[n0].ents
      K0 == B[n0].kids
      E == B[nx].ents
      K == B[nx].kids
  IN  /\ NodeAt(m, h, Len(B), SplitUp(B, n0, p, n, nx, ny), n0, B[n0].leaf,
                InsertAt(E0, p, E[n + 1]), InsertAt(K0, p + 1, ny))
      /\ NodeAt(m, h, Len(B), SplitLeft(B, n, nx), nx, B[nx].leaf, SubSeq(E, 1, n), SubSeq(K, 1, n + 1))
      /\ NodeAt(m, h, Len(B), SplitRight(B, n, nx, ny), ny, B[nx].leaf,
                SubSeq(E, n + 2, Len(E)), SubSeq(K, n + 2, Len(K)))
      /\ \A P : Cnt(InsertAt(E0, p, E[n + 1]), P) = Cnt(E0, P) + One(E[n + 1], P)
      /\ \A P : Cnt(InsertAt(K0, p + 1, ny), P) = Cnt(K0, P) + One(ny, P)
      /\ SplitParts(E, K, n, Ent, Below(h, Len(B), h[nx]))
      /\ Len(InsertAt(E0, p, E[n + 1])) = Len(E0) + 1
      /\ Len(SubSeq(E, n + 2, Len(E))) > 0

LEMMA SplitLengths ==
  ASSUME NEW m \in Nat, NEW n \in Nat, NEW u \in Nat, n <= m - 3, u <= m, u >= m - 1,
         NEW w, w = u - n - 1, NEW z, z = u - n
  PROVE  z = w + 1 /\ w <= m /\ w > 0
OBVIOUS

LEMMA SplitNodesOf ==
  ASSUME NEW m \in Nat, m >= 4, NEW B, NEW h, Placed(B), TreeOK(m, B, h),
         NEW n0 \in Nat, Live(B, n0), ~B[n0].leaf, Len(B[n0].ents) < m,
         NEW p \in 1 .. Len(B[n0].kids), NEW nx, nx = B[n0].kids[p], Len(B[nx].ents) >= m - 1,
         NEW ny \in 1 .. Len(B), h[ny] = h[nx], NEW n, n = ceil(m)
  PROVE  SplitNodes(m, h, B, n0, p, n, nx, ny)
<1> DEFINE N == Len(B)
           E0 == B[n0].ents
           K0 == B[n0].kids
           E == B[nx].ents
           K == B[nx].kids
           l0 == B[n0].leaf
           l == B[nx].leaf
<1>1. B \in Seq(Blocks) /\ N \in Nat /\ h \in [1 .. N -> Nat]
  BY DEF Placed, TreeOK
<1>2w. KidIs(B, h, n0, p)
  BY KidFacts
<1>2. nx \in 1 .. N /\ h[n0] # 0 /\ h[nx] = h[n0] - 1 /\ Live(B, nx) /\ nx # Root /\ nx # n0 /\ nx \in Nat
  BY <1>2w DEF KidIs
<1>3. NodeAt(m, h, N, B[n0], n0, l0, E0, K0)
  BY NodeOf
<1>4. NodeAt(m, h, N, B[nx], nx, l, E, K)
  BY <1>2, NodeOf
<1>5. n \in Nat /\ n >= 1 /\ n <= m - 3
  BY CeilFacts
<1>6. /\ E0 \in Seq(Ent) /\ K0 \in Seq(Below(h, N, h[n0])) /\ Len(K0) = Len(E0) + 1 /\ Len(E0) \in Nat
      /\ n0 \in 1 .. N /\ l0 \in BOOLEAN /\ (l0 <=> h[n0] = 0) /\ h[n0] \in Nat /\ h[n0] <= h[Root]
      /\ Len(E0) < m /\ p \in 1 .. Len(K0)
  BY <1>3 DEF NodeAt
<1>7. /\ E \in Seq(Ent) /\ K \in Seq(Below(h, N, h[nx])) /\ Len(K) = Len(E) + 1 /\ Len(E) \in Nat
      /\ l \in BOOLEAN /\ (l <=> h[nx] = 0) /\ h[nx] \in Nat /\ h[nx] <= h[Root] /\ Len(E) <= m
      /\ Len(E) >= m - 1
  BY <1>4 DEF NodeAt
<1> HIDE DEF E0, K0, E, K, l0, l, N
<1>8. SplitParts(E, K, n, Ent, Below(h, N, h[nx]))
  BY <1>5, <1>7, SplitPartsOf
<1> DEFINE v == E[n + 1]
           EL == SubSeq(E, 1, n)
           ER == SubSeq(E, n + 2, Len(E))
           KL == SubSeq(K, 1, n + 1)
           KR == SubSeq(K, n + 2, Len(K))
<1>9. /\ v \in Ent /\ EL \in Seq(Ent) /\ ER \in Seq(Ent) /\ Len(EL) = n /\ Len(ER) = Len(E) - n - 1
      /\ KL \in Seq(Below(h, N, h[nx])) /\ Len(KL) = n + 1
      /\ KR \in Seq(Below(h, N, h[nx])) /\ Len(KR) = Len(E) - n
  BY <1>8 DEF SplitParts
<1> HIDE DEF v, EL, ER, KL, KR
<1> DEFINE EA == InsertAt(E0, p, v)
           q == p + 1
           KA == InsertAt(K0, q, ny)
<1>10. p \in 1 .. Len(E0) + 1 /\ q \in 1 .. Len(K0) + 1
  <2>1. Len(K0) = Len(E0) + 1 /\ Len(E0) \in Nat /\ p \in 1 .. Len(K0)
    BY <1>6
  <2> QED BY <2>1
<1>11. EA \in Seq(Ent) /\ Len(EA) = Len(E0) + 1 /\ \A P : Cnt(EA, P) = Cnt(E0, P) + One(v, P)
  <2>1. E0 \in Seq(Ent) /\ v \in Ent
    BY <1>6, <1>9
  <2> QED BY <1>10, <2>1, InsertAtFacts
<1>12. ny \in Below(h, N, h[n0])
  BY <1>1, <1>2, <1>6 DEF Below, N
<1> HIDE DEF q
<1>13. /\ KA \in Seq(Below(h, N, h[n0])) /\ Len(KA) = Len(K0) + 1
       /\ \A P : Cnt(KA, P) = Cnt(K0, P) + One(ny, P)
  BY <1>6, <1>10, <1>12, InsertAtFacts
<1> HIDE DEF EA, KA
<1>14. NodeAt(m, h, N, KeyBlock(n0, l0, EA, KA), n0, l0, EA, KA)
  <2>1. Len(KA) = Len(EA) + 1 /\ Len(EA) <= m /\ Len(EA) > 0
    BY <1>6, <1>11, <1>13
  <2> QED BY <1>1, <1>6, <1>11, <1>13, <2>1, NodeMade
<1>15. NodeAt(m, h, N, KeyBlock(nx, l, EL, KL), nx, l, EL, KL)
  <2>0. Len(EL) = n /\ Len(KL) = n + 1
    BY <1>9
  <2>1. Len(KL) = Len(EL) + 1 /\ Len(EL) <= m /\ Len(EL) > 0
    BY <1>5, <2>0
  <2> QED BY <1>1, <1>2, <1>7, <1>9, <2>1, NodeMade
<1>16. NodeAt(m, h, N, KeyBlock(ny, l, ER, KR), ny, l, ER, KR)
  <2>0. Len(ER) = Len(E) - n - 1 /\ Len(KR) = Len(E) - n /\ Len(E) \in Nat /\ Len(E) <= m /\ Len(E) >= m - 1
    BY <1>7, <1>9
  <2>1. Len(KR) = Len(ER) + 1 /\ Len(ER) <= m /\ Len(ER) > 0
    <3>1. m \in Nat
      OBVIOUS
    <3> QED BY ONLY <1>5, <2>0, <3>1, SplitLengths
  <2>2. ny \in 1 .. N /\ KR \in Seq(Below(h, N, h[ny])) /\ h[ny] <= h[Root] /\ (l <=> h[ny] = 0)
    BY <1>7, <1>9 DEF N
  <2> QED BY <1>1, <1>7, <1>9, <2>1, <2>2, NodeMade
<1>17. Len(ER) > 0
  <2>1. Len(ER) = Len(E) - n - 1 /\ Len(KR) = Len(E) - n /\ Len(E) \in Nat /\ Len(E) <= m /\ Len(E) >= m - 1 /\ m \in Nat
    BY <1>7, <1>9
  <2> QED BY ONLY <1>5, <2>1, SplitLengths
<1> QED BY <1>8, <1>11, <1>13, <1>14, <1>15, <1>16, <1>17
        DEF SplitNodes, SplitUp, SplitLeft, SplitRight, N, E0, K0, E, K, l0, l, EA, KA, EL, ER, KL, KR, v, q

LEMMA SplitTree ==
  ASSUME NEW m \in Nat, m >= 4, NEW B, NEW h, Placed(B), TreeOK(m, B, h),
         NEW n0 \in Nat, Live(B, n0), ~B[n0].leaf,
         NEW p \in 1 .. Len(B[n0].kids), NEW nx, nx = B[n0].kids[p],
         NEW ny \in 1 .. Len(B), h[ny] = h[nx], B[ny].kind = "key", ~Live(B, ny), NEW n \in Nat, n >= 1,
         NEW a, a = SplitUp(B, n0, p, n, nx, ny), NEW b, b = SplitLeft(B, n, nx),
         NEW c, c = SplitRight(B, n, nx, ny), NEW C, Three(B, C, n0, a, nx, b, ny, c),
         SplitNodes(m, h, B, n0, p, n, nx, ny)
  PROVE  Regrown(m, B, C, h, n0, a, nx, b, ny, c)
<1> DEFINE N == Len(B)
           E0 == B[n0].ents
           K0 == B[n0].kids
           E == B[nx].ents
           K == B[nx].kids
           EA == InsertAt(E0, p, E[n + 1])
           KA == InsertAt(K0, p + 1, ny)
           EL == SubSeq(E, 1, n)
           ER == SubSeq(E, n + 2, Len(E))
           KL == SubSeq(K, 1, n + 1)
           KR == SubSeq(K, n + 2, Len(K))
<1>1. B \in Seq(Blocks) /\ N \in Nat /\ h \in [1 .. N -> Nat]
  BY DEF Placed, TreeOK
<1>2w. KidIs(B, h, n0, p)
  BY KidFacts
<1>2. nx \in 1 .. N /\ Live(B, nx) /\ nx # Root /\ nx # n0 /\ nx \in Nat
  BY <1>2w DEF KidIs
<1>3. NodeAt(m, h, N, B[n0], n0, B[n0].leaf, E0, K0) /\ NodeAt(m, h, N, B[nx], nx, B[nx].leaf, E, K)
  BY <1>2, NodeOf
<1>4. /\ ny # Root /\ ny \in Nat \ {0} /\ B[ny] \in Blocks
      /\ (\A P : WEnts(P)[B[ny]] = 0) /\ \A x \in Nat \ {0} : WKids(x)[B[ny]] = 0
  BY NotLive
<1>5. ny # n0 /\ ny # nx
  BY <1>2
<1>6. /\ NodeAt(m, h, N, a, n0, B[n0].leaf, EA, KA)
      /\ NodeAt(m, h, N, b, nx, B[nx].leaf, EL, KL)
      /\ NodeAt(m, h, N, c, ny, B[nx].leaf, ER, KR)
  BY DEF SplitNodes
<1>7. /\ \A P : Cnt(EA, P) = Cnt(E0, P) + One(E[n + 1], P)
      /\ \A P : Cnt(KA, P) = Cnt(K0, P) + One(ny, P)
      /\ SplitParts(E, K, n, Ent, Below(h, N, h[nx]))
      /\ Len(EA) = Len(E0) + 1 /\ Len(ER) > 0
  BY DEF SplitNodes
<1>8. /\ \A P : Cnt(E, P) = Cnt(EL, P) + One(E[n + 1], P) + Cnt(ER, P)
      /\ \A P : Cnt(K, P) = Cnt(KL, P) + Cnt(KR, P)
      /\ Len(EL) = n /\ Len(ER) = Len(E) - n - 1 /\ Len(KR) = Len(E) - n
  BY <1>7 DEF SplitParts
<1> DEFINE v == E[n + 1]
<1> HIDE DEF E0, K0, E, K, EA, KA, EL, ER, KL, KR, N, v
<1>9. /\ \A P : WEnts(P)[B[n0]] = Cnt(E0, P) /\ WEnts(P)[B[nx]] = Cnt(E, P)
      /\ \A P : WEnts(P)[a] = Cnt(EA, P) /\ WEnts(P)[b] = Cnt(EL, P) /\ WEnts(P)[c] = Cnt(ER, P)
      /\ \A x : WKids(x)[B[n0]] = Cnt(K0, {x}) /\ WKids(x)[B[nx]] = Cnt(K, {x})
      /\ \A x : WKids(x)[a] = Cnt(KA, {x}) /\ WKids(x)[b] = Cnt(KL, {x}) /\ WKids(x)[c] = Cnt(KR, {x})
  <2>1. (\A P : WEnts(P)[B[n0]] = Cnt(E0, P)) /\ \A x : WKids(x)[B[n0]] = Cnt(K0, {x})
    BY <1>3 DEF NodeAt, KeyFacts
  <2>2. (\A P : WEnts(P)[B[nx]] = Cnt(E, P)) /\ \A x : WKids(x)[B[nx]] = Cnt(K, {x})
    BY <1>3 DEF NodeAt, KeyFacts
  <2>3. (\A P : WEnts(P)[a] = Cnt(EA, P)) /\ \A x : WKids(x)[a] = Cnt(KA, {x})
    BY <1>6 DEF NodeAt, KeyFacts
  <2>4. (\A P : WEnts(P)[b] = Cnt(EL, P)) /\ \A x : WKids(x)[b] = Cnt(KL, {x})
    BY <1>6 DEF NodeAt, KeyFacts
  <2>5. (\A P : WEnts(P)[c] = Cnt(ER, P)) /\ \A x : WKids(x)[c] = Cnt(KR, {x})
    BY <1>6 DEF NodeAt, KeyFacts
  <2> QED BY <2>1, <2>2, <2>3, <2>4, <2>5
<1>10. /\ E0 \in Seq(Ent) /\ E \in Seq(Ent) /\ EL \in Seq(Ent) /\ ER \in Seq(Ent) /\ EA \in Seq(Ent)
       /\ K0 \in Seq(Nat) /\ K \in Seq(Nat) /\ KL \in Seq(Nat) /\ KR \in Seq(Nat) /\ KA \in Seq(Nat)
       /\ a.kind = "key" /\ b.kind = "key" /\ c.kind = "key" /\ a.ents = EA /\ b.ents = EL /\ c.ents = ER
       /\ Len(KR) = Len(ER) + 1
  <2>1. E0 \in Seq(Ent) /\ E \in Seq(Ent) /\ EL \in Seq(Ent) /\ ER \in Seq(Ent) /\ EA \in Seq(Ent)
    BY <1>3, <1>6 DEF NodeAt
  <2>2. K0 \in Seq(Nat) /\ K \in Seq(Nat) /\ KL \in Seq(Nat) /\ KR \in Seq(Nat) /\ KA \in Seq(Nat)
    BY <1>3, <1>6 DEF NodeAt
  <2>3. a.kind = "key" /\ b.kind = "key" /\ c.kind = "key" /\ a.ents = EA /\ b.ents = EL /\ c.ents = ER
    BY <1>6 DEF NodeAt, KeyFacts
  <2>4. Len(KR) = Len(ER) + 1
    BY <1>6 DEF NodeAt
  <2> QED BY <2>1, <2>2, <2>3, <2>4
<1>11. ASSUME NEW P
       PROVE  WEnts(P)[a] + WEnts(P)[b] + WEnts(P)[c] = WEnts(P)[B[n0]] + WEnts(P)[B[nx]] + WEnts(P)[B[ny]]
  <2> DEFINE e0 == Cnt(E0, P)
             e == Cnt(E, P)
             el == Cnt(EL, P)
             er == Cnt(ER, P)
             o == One(v, P)
  <2>1. e0 \in Nat /\ e \in Nat /\ el \in Nat /\ er \in Nat
    BY <1>10, CntType
  <2>2. o \in Nat
    BY DEF One
  <2>3. Cnt(EA, P) = e0 + o /\ e = el + o + er
    BY <1>7, <1>8 DEF v
  <2>4. /\ WEnts(P)[a] = e0 + o /\ WEnts(P)[b] = el /\ WEnts(P)[c] = er
        /\ WEnts(P)[B[n0]] = e0 /\ WEnts(P)[B[nx]] = e /\ WEnts(P)[B[ny]] = 0
    BY <1>4, <1>9, <2>3
  <2> HIDE DEF e0, e, el, er, o
  <2>5. (e0 + o) + el + er = e0 + e + 0
    BY ONLY <2>1, <2>2, <2>3
  <2> QED BY <2>4, <2>5
<1>12. ASSUME NEW x \in Nat \ {0} PROVE Weigh(C, WKids(x)) = Weigh(B, WKids(x)) + One(ny, {x})
  <2> DEFINE f == WKids(x)
             k0 == Cnt(K0, {x})
             k == Cnt(K, {x})
             kl == Cnt(KL, {x})
             kr == Cnt(KR, {x})
             o == One(ny, {x})
             w == Weigh(B, f)
  <2>1. k0 \in Nat /\ k \in Nat /\ kl \in Nat /\ kr \in Nat
    BY <1>10, CntType
  <2>2. o \in Nat
    BY DEF One
  <2>3. Cnt(KA, {x}) = k0 + o /\ k = kl + kr
    BY <1>7, <1>8
  <2>4. f[a] = k0 + o /\ f[b] = kl /\ f[c] = kr /\ f[B[n0]] = k0 /\ f[B[nx]] = k /\ f[B[ny]] = 0
    BY <1>4, <1>9, <2>3
  <2>5. f \in [Blocks -> Nat] /\ w \in Nat
    BY <1>1, WeightTypes, WeighType
  <2>6. Weigh(C, f) = w - f[B[n0]] - f[B[nx]] - f[B[ny]] + f[a] + f[b] + f[c]
    BY <2>5 DEF Three
  <2> HIDE DEF f, k0, k, kl, kr, o, w
  <2>7. Weigh(C, f) = w - k0 - k - 0 + (k0 + o) + kl + kr
    BY <2>4, <2>6
  <2>8. w - k0 - k - 0 + (k0 + o) + kl + kr = w + o
    BY ONLY <2>1, <2>2, <2>3, <2>5
  <2> QED BY <2>7, <2>8 DEF f, w, o
<1>13. /\ Len(C) = N /\ C[n0] = a /\ C[nx] = b /\ C[ny] = c
       /\ \A i \in 1 .. N : i \notin {n0, nx, ny} => C[i] = B[i]
  BY DEF Three, N
<1>14. n0 \in 1 .. N /\ ny \in 1 .. N
  BY DEF Live, IsKey, N
<1>15. a.ents # <<>> /\ b.ents # <<>> /\ c.ents # <<>>
  <2>1. Len(<<>>) = 0
    BY EmptySeq
  <2>2. Len(EA) # 0
    <3>1. Len(E0) \in Nat /\ Len(EA) = Len(E0) + 1
      BY <1>7, <1>10
    <3> QED BY ONLY <3>1
  <2>3. Len(EL) # 0
    <3>1. Len(EL) = n /\ n >= 1
      BY <1>8
    <3> QED BY ONLY <3>1
  <2>4. Len(ER) # 0
    BY ONLY <1>7
  <2> QED BY <1>10, <2>1, <2>2, <2>3, <2>4
<1>16. Live(C, n0) /\ Live(C, nx) /\ Live(C, ny)
  BY <1>2, <1>10, <1>13, <1>14, <1>15 DEF Live, IsKey
<1>17. ASSUME NEW i \in Nat, i \notin {n0, nx, ny} PROVE Live(C, i) <=> Live(B, i)
  BY <1>13, <1>17 DEF Live, IsKey, N
<1>18. ASSUME NEW x \in Nat \ {0} PROVE Weigh(C, WKids(x)) = IF Live(C, x) /\ x # Root THEN 1 ELSE 0
  <2>1. Weigh(B, WKids(x)) = IF Live(B, x) /\ x # Root THEN 1 ELSE 0
    BY DEF TreeOK
  <2>2. Weigh(C, WKids(x)) = Weigh(B, WKids(x)) + One(ny, {x})
    BY <1>12
  <2>3. CASE x = ny
    <3>1. One(ny, {x}) = 1
      BY <2>3 DEF One
    <3> QED BY <1>4, <1>16, <2>1, <2>2, <2>3, <3>1
  <2>4. CASE x # ny
    <3>1. One(ny, {x}) = 0
      BY <2>4 DEF One
    <3>2. Live(C, x) <=> Live(B, x)
      BY <1>2, <1>16, <1>17, <2>4
    <3> QED BY <2>1, <2>2, <3>1, <3>2
  <2> QED BY <2>3, <2>4
<1>19. TreeOK(m, C, h)
  <2>1. \A i \in Nat : i \notin {n0, nx, ny} /\ Live(B, i) => NodeOK(m, h, N, B[i])
    BY DEF TreeOK, N
  <2>2. NodeOK(m, h, N, a) /\ NodeOK(m, h, N, b) /\ NodeOK(m, h, N, c)
    BY <1>6 DEF NodeAt
  <2> QED BY <1>1, <1>2, <1>14, <1>16, <1>18, <2>1, <2>2, TreeByThree DEF N
<1>20. B[n0].kind = "key" /\ B[nx].kind = "key"
  BY <1>2 DEF Live, IsKey
<1>21. a \in Blocks /\ b \in Blocks /\ c \in Blocks /\ a.self = n0 /\ b.self = nx /\ c.self = ny
  BY <1>6 DEF NodeAt, KeyFacts
<1>22. Swap(B, C, n0, a, nx, b, ny, c)
  BY <1>2, <1>4, <1>10, <1>11, <1>14, <1>20, <1>21 DEF Swap, N
<1> QED BY <1>10, <1>16, <1>19, <1>22 DEF Regrown

SplitWrites(m, d, B, C, h, fl, n0, a, nx, b, ny, c) ==
  /\ Rewritten(m, d, B, C, h, fl, n0, a, nx, b, ny, c, FALSE)
  /\ Spare(C, fl) \subseteq Spare(B, fl) \ {ny}
  /\ Live(C, nx) /\ Live(C, ny) /\ Len(C[nx].ents) < m - 1 /\ Len(C[ny].ents) < m - 1

LEMMA SplitRewritten ==
  ASSUME NEW m \in Nat, m >= 4, NEW d, NEW B, NEW h, NEW fl, Good(m, d, B, h, fl),
         NEW n0 \in Nat, Live(B, n0), ~B[n0].leaf, Len(B[n0].ents) < m,
         NEW p \in 1 .. Len(B[n0].kids), NEW nx, nx = B[n0].kids[p], Len(B[nx].ents) >= m - 1,
         NEW ny \in 1 .. Len(B), h[ny] = h[nx], B[ny].kind = "key", ~Live(B, ny), NEW n, n = ceil(m),
         NEW a, a = SplitUp(B, n0, p, n, nx, ny), NEW b, b = SplitLeft(B, n, nx),
         NEW c, c = SplitRight(B, n, nx, ny), NEW C, C = Blk(Blk(Blk(B, n0, a), nx, b), ny, c)
  PROVE  SplitWrites(m, d, B, C, h, fl, n0, a, nx, b, ny, c)
<1>1. Placed(B) /\ TreeOK(m, B, h) /\ B \in Seq(Blocks) /\ Len(B) \in Nat
  BY GoodTypes DEF Good
<1>2. SplitNodes(m, h, B, n0, p, n, nx, ny)
  BY <1>1, SplitNodesOf
<1>3. n \in Nat /\ n >= 1 /\ n <= m - 3
  BY CeilFacts
<1>4. nx \in 1 .. Len(B) /\ nx \in Nat /\ Live(B, nx) /\ nx # Root /\ nx # n0
  <2>1w. KidIs(B, h, n0, p)
    BY <1>1, KidFacts
  <2>1. /\ B[n0].kids[p] \in 1 .. Len(B) /\ Live(B, B[n0].kids[p]) /\ B[n0].kids[p] # Root /\ B[n0].kids[p] # n0
    BY <1>1, <2>1w DEF KidIs
  <2> QED BY <2>1
<1>5. n0 \in 1 .. Len(B) /\ ny # n0 /\ ny # nx /\ B[n0].kind = "key" /\ B[nx].kind = "key"
  BY <1>4 DEF Live, IsKey
<1> DEFINE E0 == B[n0].ents
           K0 == B[n0].kids
           E == B[nx].ents
           K == B[nx].kids
           EA == InsertAt(E0, p, E[n + 1])
           EL == SubSeq(E, 1, n)
           ER == SubSeq(E, n + 2, Len(E))
<1>6. /\ NodeAt(m, h, Len(B), a, n0, B[n0].leaf, EA, InsertAt(K0, p + 1, ny))
      /\ NodeAt(m, h, Len(B), b, nx, B[nx].leaf, EL, SubSeq(K, 1, n + 1))
      /\ NodeAt(m, h, Len(B), c, ny, B[nx].leaf, ER, SubSeq(K, n + 2, Len(K)))
      /\ Len(EA) = Len(E0) + 1 /\ SplitParts(E, K, n, Ent, Below(h, Len(B), h[nx]))
  BY <1>2 DEF SplitNodes
<1>7. NodeAt(m, h, Len(B), B[n0], n0, B[n0].leaf, E0, K0) /\ NodeAt(m, h, Len(B), B[nx], nx, B[nx].leaf, E, K)
  BY <1>1, <1>4, NodeOf
<1>8. Len(EL) = n /\ Len(ER) = Len(E) - n - 1
  BY <1>6 DEF SplitParts
<1> HIDE DEF E0, K0, E, K, EA, EL, ER
<1>9. /\ a \in Blocks /\ a.self = n0 /\ a.kind = "key" /\ WCount("keys")[a] = Len(EA)
      /\ b \in Blocks /\ b.self = nx /\ b.kind = "key" /\ WCount("keys")[b] = Len(EL) /\ b.ents = EL
      /\ c \in Blocks /\ c.self = ny /\ c.kind = "key" /\ c.ents = ER
  <2>1. KeyFacts(a, n0, B[n0].leaf, EA, InsertAt(K0, p + 1, ny))
    BY <1>6 DEF NodeAt
  <2>2. KeyFacts(b, nx, B[nx].leaf, EL, SubSeq(K, 1, n + 1))
    BY <1>6 DEF NodeAt
  <2>3. KeyFacts(c, ny, B[nx].leaf, ER, SubSeq(K, n + 2, Len(K)))
    BY <1>6 DEF NodeAt
  <2>4. a \in Blocks /\ a.self = n0 /\ a.kind = "key" /\ WCount("keys")[a] = Len(EA)
    BY <2>1 DEF KeyFacts
  <2>5. b \in Blocks /\ b.self = nx /\ b.kind = "key" /\ WCount("keys")[b] = Len(EL) /\ b.ents = EL
    BY <2>2 DEF KeyFacts
  <2>6. c \in Blocks /\ c.self = ny /\ c.kind = "key" /\ c.ents = ER
    BY <2>3 DEF KeyFacts
  <2> QED BY <2>4, <2>5, <2>6
<1>10. /\ WCount("keys")[B[n0]] = Len(E0) /\ WCount("keys")[B[nx]] = Len(E)
       /\ Len(E0) \in Nat /\ Len(E) \in Nat /\ Len(E) <= m
  BY <1>7 DEF NodeAt, KeyFacts
<1>11. Three(B, C, n0, a, nx, b, ny, c)
  BY <1>1, <1>4, <1>5, <1>9, WeighThree
<1>12. Regrown(m, B, C, h, n0, a, nx, b, ny, c)
  BY <1>1, <1>2, <1>3, <1>11, SplitTree
<1>13. Good(m, d, C, h, fl) /\ Spare(C, fl) \subseteq Spare(B, fl) \ {n0, nx, ny}
  BY <1>12, Rebuilt
<1>18. Live(C, nx) /\ Live(C, ny)
  BY <1>12 DEF Regrown
<1>14. Len(E) >= m - 1
  BY DEF E
<1>15. /\ Len(EA) # Len(E0) /\ Len(EA) + Len(EL) # Len(E0) + Len(E)
       /\ Len(EL) < m - 1 /\ Len(ER) < m - 1
  <2>1. m \in Nat /\ Len(EA) = Len(E0) + 1 /\ Len(E0) \in Nat /\ Len(E) \in Nat /\ Len(E) <= m
    BY <1>6, <1>10
  <2> QED BY ONLY <1>3, <1>8, <1>14, <2>1
<1>16. C[nx] = b /\ C[ny] = c
  BY <1>11 DEF Three
<1>17. Rewritten(m, d, B, C, h, fl, n0, a, nx, b, ny, c, FALSE)
  BY <1>4, <1>5, <1>9, <1>10, <1>13, <1>15 DEF Rewritten
<1> QED BY <1>9, <1>13, <1>15, <1>16, <1>17, <1>18 DEF SplitWrites

\* What a split achieves.
SplitDone(m, t, d, B, fl, nx, ny, C, g) ==
  /\ Is(m, t, d, d, C) /\ Good(m, d, C, g, fl) /\ Spare(C, fl) \subseteq Spare(B, fl) \ {ny}
  /\ Live(C, nx) /\ Live(C, ny) /\ Len(C[nx].ents) < m - 1 /\ Len(C[ny].ents) < m - 1

LEMMA SplitChild ==
  ASSUME NEW m \in Nat, m >= 4, m = M, NEW s, NEW d, NEW B, NEW h, NEW fl, Good(m, d, B, h, fl), Is(m, s, d, d, B),
         NEW n0 \in Nat, Live(B, n0), ~B[n0].leaf, Len(B[n0].ents) < m,
         NEW p \in 1 .. Len(B[n0].kids), NEW nx, nx = B[n0].kids[p], Len(B[nx].ents) >= m - 1,
         NEW ny \in 1 .. Len(B), B[ny].kind = "key", ~Live(B, ny), B[ny] = NewKeyBlock(ny, B[nx].leaf)
  PROVE  \E C, g : SplitDone(m, btree_split_child(s, B[n0], p, B[nx], B[ny]), d, B, fl, nx, ny, C, g)
<1> DEFINE g == [h EXCEPT ![ny] = h[nx]]
           n == ceil(m)
           a == SplitUp(B, n0, p, n, nx, ny)
           b == SplitLeft(B, n, nx)
           c == SplitRight(B, n, nx, ny)
           C == Blk(Blk(Blk(B, n0, a), nx, b), ny, c)
           t == btree_split_child(s, B[n0], p, B[nx], B[ny])
<1>0. Placed(B)
  BY DEF Good
<1>1. /\ Placed(B) /\ TreeOK(m, B, h) /\ B \in Seq(Blocks) /\ Len(B) \in Nat /\ h \in [1 .. Len(B) -> Nat]
      /\ d \in Handles /\ CountsOK(d, B) /\ \A i \in 1 .. Len(B) : B[i].self = i
  BY <1>0, GoodTypes
<1>2w. KidIs(B, h, n0, p)
  BY <1>1, KidFacts
<1>2. nx \in 1 .. Len(B) /\ Live(B, nx) /\ n0 \in 1 .. Len(B)
  BY <1>1, <1>2w DEF KidIs, Live, IsKey
<1>3. h[nx] \in Nat /\ nx # ny
  BY <1>1, <1>2
<1>4. Good(m, d, B, g, fl)
  BY <1>3, RehangGood
<1>5. g[ny] = g[nx]
  BY <1>1, <1>2
<1>6. B[n0].self = n0 /\ B[nx].self = nx /\ B[ny].self = ny /\ B[ny].leaf = B[nx].leaf
  <2>1. B[ny].leaf = B[nx].leaf
    BY DEF NewKeyBlock, KeyBlock
  <2> QED BY <1>1, <1>2, <2>1
<1>7. t = node_flush(node_flush(Put(s, a, FALSE), b), c)
  BY <1>6 DEF btree_split_child, SplitUp, SplitLeft, SplitRight, Filled, node_flush
<1> HIDE DEF g, n, a, b, c, t
<1>8. n = ceil(m) /\ a = SplitUp(B, n0, p, n, nx, ny) /\ b = SplitLeft(B, n, nx) /\ c = SplitRight(B, n, nx, ny)
  BY DEF n, a, b, c
<1>9. /\ Rewritten(m, d, B, C, g, fl, n0, a, nx, b, ny, c, FALSE)
      /\ Spare(C, fl) \subseteq Spare(B, fl) \ {ny}
      /\ Live(C, nx) /\ Live(C, ny) /\ Len(C[nx].ents) < m - 1 /\ Len(C[ny].ents) < m - 1
  <2>1. SplitWrites(m, d, B, C, g, fl, n0, a, nx, b, ny, c)
    BY <1>4, <1>5, <1>8, SplitRewritten
  <2> HIDE DEF C
  <2> QED BY <2>1 DEF SplitWrites
<1> HIDE DEF C
<1>10. Good(m, d, C, g, fl) /\ Weigh(B, WCount("keys")) = d.total
  BY <1>1, <1>9 DEF Rewritten, CountsOK
<1>11. FALSE \in BOOLEAN
  OBVIOUS
<1>12. Is(m, t, d, d, C)
  BY <1>1, <1>7, <1>9, <1>10, <1>11, WriteRewritten
<1>13. SplitDone(m, t, d, B, fl, nx, ny, C, g)
  BY <1>9, <1>10, <1>12 DEF SplitDone
<1> QED BY <1>13 DEF t

-----------------------------------------------------------------------------
(* The root is split: its contents go to the new blocks nx and ny.         *)

RootUp(B, n, nx, ny) ==
  KeyBlock(Root, FALSE, InsertAt(<<>>, 1, B[Root].ents[n + 1]), InsertAt(<<nx>>, 2, ny))
RootLeft(B, n, nx) ==
  KeyBlock(nx, B[Root].leaf, SubSeq(B[Root].ents, 1, n), SubSeq(B[Root].kids, 1, n + 1))
RootRight(B, n, ny) ==
  KeyBlock(ny, B[Root].leaf, SubSeq(B[Root].ents, n + 2, Len(B[Root].ents)),
           SubSeq(B[Root].kids, n + 2, Len(B[Root].kids)))

\* The root gets one level more.
Raised(h, g, N) == /\ g \in [1 .. N -> Nat] /\ g[Root] = h[Root] + 1
                   /\ \A i \in 1 .. N : i # Root => g[i] = h[i]

RootNodes(m, h, g, B, n, nx, ny) ==
  LET E == B[Root].ents
      K == B[Root].kids
  IN  /\ NodeAt(m, g, Len(B), RootUp(B, n, nx, ny), Root, FALSE,
                InsertAt(<<>>, 1, E[n + 1]), InsertAt(<<nx>>, 2, ny))
      /\ NodeAt(m, g, Len(B), RootLeft(B, n, nx), nx, B[Root].leaf, SubSeq(E, 1, n), SubSeq(K, 1, n + 1))
      /\ NodeAt(m, g, Len(B), RootRight(B, n, ny), ny, B[Root].leaf,
                SubSeq(E, n + 2, Len(E)), SubSeq(K, n + 2, Len(K)))
      /\ \A P : Cnt(InsertAt(<<>>, 1, E[n + 1]), P) = One(E[n + 1], P)
      /\ \A P : Cnt(InsertAt(<<nx>>, 2, ny), P) = One(nx, P) + One(ny, P)
      /\ SplitParts(E, K, n, Ent, Below(h, Len(B), h[Root]))
      /\ Len(InsertAt(<<>>, 1, E[n + 1])) = 1
      /\ Len(SubSeq(E, n + 2, Len(E))) > 0

LEMMA RootNodesOf ==
  ASSUME NEW m \in Nat, m >= 4, NEW B, NEW h, Placed(B), TreeOK(m, B, h), Len(B[Root].ents) >= m - 1,
         NEW nx \in 1 .. Len(B), NEW ny \in 1 .. Len(B), nx # Root, ny # Root, h[nx] = h[Root], h[ny] = h[Root],
         NEW n, n = ceil(m), NEW g, Raised(h, g, Len(B))
  PROVE  RootNodes(m, h, g, B, n, nx, ny)
<1> DEFINE N == Len(B)
           E == B[Root].ents
           K == B[Root].kids
           l == B[Root].leaf
<1>1. B \in Seq(Blocks) /\ N \in Nat /\ h \in [1 .. N -> Nat] /\ Root \in 1 .. N /\ Live(B, Root) /\ Root \in Nat
  BY DEF Placed, TreeOK, Live, IsKey, Root
<1>2. NodeAt(m, h, N, B[Root], Root, l, E, K)
  BY <1>1, NodeOf
<1>3. n \in Nat /\ n >= 1 /\ n <= m - 3
  BY CeilFacts
<1>4. /\ E \in Seq(Ent) /\ K \in Seq(Below(h, N, h[Root])) /\ Len(K) = Len(E) + 1 /\ Len(E) \in Nat
      /\ l \in BOOLEAN /\ (l <=> h[Root] = 0) /\ h[Root] \in Nat /\ Len(E) <= m /\ Len(E) >= m - 1
  BY <1>2 DEF NodeAt
<1>5. /\ g \in [1 .. N -> Nat] /\ g[Root] = h[Root] + 1 /\ g[nx] = h[Root] /\ g[ny] = h[Root]
      /\ \A i \in 1 .. N : i # Root => g[i] = h[i]
  BY DEF Raised
<1> HIDE DEF E, K, l, N
<1>6. SplitParts(E, K, n, Ent, Below(h, N, h[Root]))
  <2>1. n + 1 <= Len(E)
    <3>1. Len(E) \in Nat /\ Len(E) >= m - 1 /\ m \in Nat
      BY <1>4
    <3> QED BY ONLY <1>3, <3>1
  <2> QED BY <1>3, <1>4, <2>1, SplitPartsOf
<1> DEFINE v == E[n + 1]
           EL == SubSeq(E, 1, n)
           ER == SubSeq(E, n + 2, Len(E))
           KL == SubSeq(K, 1, n + 1)
           KR == SubSeq(K, n + 2, Len(K))
           Sub == Below(g, N, h[Root])
<1>7. /\ v \in Ent /\ EL \in Seq(Ent) /\ ER \in Seq(Ent) /\ Len(EL) = n /\ Len(ER) = Len(E) - n - 1
      /\ KL \in Seq(Below(h, N, h[Root])) /\ Len(KL) = n + 1
      /\ KR \in Seq(Below(h, N, h[Root])) /\ Len(KR) = Len(E) - n
  BY <1>6 DEF SplitParts
<1> HIDE DEF v, EL, ER, KL, KR, Sub
<1>8. Below(h, N, h[Root]) \subseteq Sub
  BY <1>1, <1>4, <1>5 DEF Below, Sub
<1>9. KL \in Seq(Sub) /\ KR \in Seq(Sub)
  BY <1>7, <1>8, SeqMonotonic
<1> DEFINE E0 == <<>>
           K0 == <<nx>>
           one == 1
           two == 2
           EA == InsertAt(E0, one, v)
           KA == InsertAt(K0, two, ny)
           T == Below(g, N, g[Root])
<1>10. EA \in Seq(Ent) /\ Len(EA) = 1 /\ \A P : Cnt(EA, P) = One(v, P)
  <2>1. E0 \in Seq(Ent) /\ Len(E0) = 0 /\ one \in 1 .. Len(E0) + 1
    BY EmptySeq
  <2>2. \A P : Cnt(E0, P) = 0 /\ One(v, P) \in Nat
    BY CntEmpty DEF One
  <2>4. v \in Ent
    BY <1>7
  <2>5. E0 \in Seq(Ent) /\ one \in 1 .. Len(E0) + 1
    BY <2>1
  <2> HIDE DEF E0, one
  <2>3. EA \in Seq(Ent) /\ Len(EA) = Len(E0) + 1 /\ \A P : Cnt(EA, P) = Cnt(E0, P) + One(v, P)
    BY ONLY <2>5, <2>4, InsertAtFacts
  <2> HIDE DEF EA
  <2> QED BY <2>1, <2>2, <2>3
<1>11. nx \in T /\ ny \in T
  <2>1. /\ nx \in 1 .. N /\ ny \in 1 .. N /\ g[Root] # 0 /\ g[nx] = g[Root] - 1 /\ g[ny] = g[Root] - 1
    BY <1>4, <1>5 DEF N
  <2> QED BY <2>1 DEF Below
<1> HIDE DEF T
<1>12. KA \in Seq(T) /\ Len(KA) = 2 /\ \A P : Cnt(KA, P) = One(nx, P) + One(ny, P)
  <2>1. K0 \in Seq(T) /\ Len(K0) = 1 /\ two \in 1 .. Len(K0) + 1
    BY <1>11
  <2>2. \A P : Cnt(K0, P) = One(nx, P)
    BY CntOne
  <2>5. K0 \in Seq(T) /\ two \in 1 .. Len(K0) + 1
    BY <2>1
  <2> HIDE DEF K0, two
  <2>3. KA \in Seq(T) /\ Len(KA) = Len(K0) + 1 /\ \A P : Cnt(KA, P) = Cnt(K0, P) + One(ny, P)
    BY ONLY <1>11, <2>5, InsertAtFacts
  <2> HIDE DEF KA
  <2> QED BY <2>1, <2>2, <2>3
<1> HIDE DEF EA, KA
<1>13. h[Root] <= g[Root] /\ g[Root] <= g[Root] /\ g[Root] # 0 /\ Len(EA) <= m /\ Len(EA) > 0 /\ Len(KA) = Len(EA) + 1
  BY <1>4, <1>5, <1>10, <1>12
<1>14. NodeAt(m, g, N, KeyBlock(Root, FALSE, EA, KA), Root, FALSE, EA, KA)
  <2>1. KA \in Seq(Below(g, N, g[Root])) /\ FALSE \in BOOLEAN /\ (FALSE <=> g[Root] = 0)
    BY <1>12, <1>13 DEF T
  <2> QED BY <1>1, <1>5, <1>10, <1>13, <2>1, NodeMade
<1>15. NodeAt(m, g, N, KeyBlock(nx, l, EL, KL), nx, l, EL, KL)
  <2>0. Len(EL) = n /\ Len(KL) = n + 1 /\ m \in Nat
    BY <1>7
  <2>1. Len(KL) = Len(EL) + 1 /\ Len(EL) <= m /\ Len(EL) > 0
    BY ONLY <1>3, <2>0
  <2>2. KL \in Seq(Below(g, N, g[nx])) /\ (l <=> g[nx] = 0) /\ g[nx] <= g[Root] /\ nx \in 1 .. N
    BY <1>4, <1>5, <1>9, <1>13 DEF Sub, N
  <2>3. m \in Nat /\ N \in Nat /\ g \in [1 .. N -> Nat] /\ l \in BOOLEAN /\ EL \in Seq(Ent)
    BY <1>1, <1>4, <1>5, <1>7
  <2> QED BY ONLY <2>1, <2>2, <2>3, NodeMade
<1>17. Len(KR) = Len(ER) + 1 /\ Len(ER) <= m /\ Len(ER) > 0
  <2>1. Len(ER) = Len(E) - n - 1 /\ Len(KR) = Len(E) - n /\ Len(E) \in Nat /\ Len(E) <= m /\ Len(E) >= m - 1 /\ m \in Nat
    BY <1>4, <1>7
  <2> QED BY ONLY <1>3, <2>1, SplitLengths
<1>16. NodeAt(m, g, N, KeyBlock(ny, l, ER, KR), ny, l, ER, KR)
  <2>2. KR \in Seq(Below(g, N, g[ny])) /\ (l <=> g[ny] = 0) /\ g[ny] <= g[Root] /\ ny \in 1 .. N
    BY <1>4, <1>5, <1>9, <1>13 DEF Sub, N
  <2>3. m \in Nat /\ N \in Nat /\ g \in [1 .. N -> Nat] /\ l \in BOOLEAN /\ ER \in Seq(Ent)
    BY <1>1, <1>4, <1>5, <1>7
  <2> QED BY ONLY <1>17, <2>2, <2>3, NodeMade
<1> QED BY <1>6, <1>10, <1>12, <1>14, <1>15, <1>16, <1>17
        DEF RootNodes, RootUp, RootLeft, RootRight, N, E, K, l, EA, KA, EL, ER, KL, KR, v, E0, K0, one, two

LEMMA NodeRaised ==
  ASSUME NEW m \in Nat, NEW B, NEW h, Placed(B), TreeOK(m, B, h), NEW g, Raised(h, g, Len(B)),
         NEW i \in Nat, i # Root, Live(B, i)
  PROVE  NodeOK(m, g, Len(B), B[i])
<1> DEFINE N == Len(B)
           b == B[i]
           T == Below(h, N, h[i]) \ {Root}
<1>1. NodeAt(m, h, N, b, i, b.leaf, b.ents, b.kids)
  BY NodeOf
<1>2. N \in Nat /\ h \in [1 .. N -> Nat] /\ Root \in Nat \ {0}
  BY DEF Placed, TreeOK, Root
<1>3. Cnt(b.kids, {Root}) = 0
  BY <1>2, NoParent
<1>4. /\ NodeOK(m, h, N, b) /\ b.kids \in Seq(Below(h, N, h[i])) /\ i \in 1 .. N /\ b.self = i
      /\ h[i] \in Nat /\ h[i] <= h[Root]
  BY <1>1 DEF NodeAt, KeyFacts
<1>5. b.kids \in Seq(T)
  BY <1>3, <1>4, SeqAvoids
<1>6. g[i] = h[i] /\ h[i] <= g[Root]
  <2>1. Root \in 1 .. N /\ h[Root] \in Nat /\ g[Root] = h[Root] + 1 /\ g[i] = h[i]
    BY <1>2, <1>4 DEF Raised, Root, Placed
  <2> QED BY ONLY <1>4, <2>1
<1>7. T \subseteq Below(g, N, g[i])
  BY <1>2, <1>4, <1>6 DEF Below, Raised
<1> HIDE DEF T, b, N
<1>8. NodeOK(m, g, N, b)
  BY <1>2, <1>4, <1>5, <1>6, <1>7, NodeWith
<1> QED BY <1>8 DEF b, N

LEMMA RootTree ==
  ASSUME NEW m \in Nat, m >= 4, NEW B, NEW h, Placed(B), TreeOK(m, B, h), NEW g, Raised(h, g, Len(B)),
         NEW nx \in 1 .. Len(B), B[nx].kind = "key", ~Live(B, nx),
         NEW ny \in 1 .. Len(B), B[ny].kind = "key", ~Live(B, ny), nx # ny, NEW n \in Nat, n >= 1,
         NEW a, a = RootUp(B, n, nx, ny), NEW b, b = RootLeft(B, n, nx),
         NEW c, c = RootRight(B, n, ny), NEW C, Three(B, C, Root, a, nx, b, ny, c),
         RootNodes(m, h, g, B, n, nx, ny)
  PROVE  Regrown(m, B, C, g, Root, a, nx, b, ny, c)
<1> DEFINE N == Len(B)
           E == B[Root].ents
           K == B[Root].kids
           EA == InsertAt(<<>>, 1, E[n + 1])
           KA == InsertAt(<<nx>>, 2, ny)
           EL == SubSeq(E, 1, n)
           ER == SubSeq(E, n + 2, Len(E))
           KL == SubSeq(K, 1, n + 1)
           KR == SubSeq(K, n + 2, Len(K))
<1>1. B \in Seq(Blocks) /\ N \in Nat /\ h \in [1 .. N -> Nat] /\ g \in [1 .. N -> Nat]
  BY DEF Placed, TreeOK, Raised
<1>2. Root \in 1 .. N /\ Live(B, Root) /\ Root \in Nat /\ B[Root].kind = "key"
  BY DEF Placed, Live, IsKey, Root
<1>3. NodeAt(m, h, N, B[Root], Root, B[Root].leaf, E, K)
  BY <1>2, NodeOf
<1>4. /\ ny # Root /\ ny \in Nat \ {0} /\ B[ny] \in Blocks
      /\ (\A P : WEnts(P)[B[ny]] = 0) /\ \A x \in Nat \ {0} : WKids(x)[B[ny]] = 0
  BY NotLive
<1>5. /\ nx # Root /\ nx \in Nat \ {0} /\ B[nx] \in Blocks
      /\ (\A P : WEnts(P)[B[nx]] = 0) /\ \A x \in Nat \ {0} : WKids(x)[B[nx]] = 0
  BY NotLive
<1>6. /\ NodeAt(m, g, N, a, Root, FALSE, EA, KA)
      /\ NodeAt(m, g, N, b, nx, B[Root].leaf, EL, KL)
      /\ NodeAt(m, g, N, c, ny, B[Root].leaf, ER, KR)
  BY DEF RootNodes
<1>7. /\ \A P : Cnt(EA, P) = One(E[n + 1], P)
      /\ \A P : Cnt(KA, P) = One(nx, P) + One(ny, P)
      /\ SplitParts(E, K, n, Ent, Below(h, N, h[Root]))
      /\ Len(EA) = 1 /\ Len(ER) > 0
  BY DEF RootNodes
<1>8. /\ \A P : Cnt(E, P) = Cnt(EL, P) + One(E[n + 1], P) + Cnt(ER, P)
      /\ \A P : Cnt(K, P) = Cnt(KL, P) + Cnt(KR, P)
      /\ Len(EL) = n
  BY <1>7 DEF SplitParts
<1> DEFINE v == E[n + 1]
<1> HIDE DEF E, K, EA, KA, EL, ER, KL, KR, N, v
<1>9. /\ \A P : WEnts(P)[B[Root]] = Cnt(E, P)
      /\ \A P : WEnts(P)[a] = Cnt(EA, P) /\ WEnts(P)[b] = Cnt(EL, P) /\ WEnts(P)[c] = Cnt(ER, P)
      /\ \A x : WKids(x)[B[Root]] = Cnt(K, {x})
      /\ \A x : WKids(x)[a] = Cnt(KA, {x}) /\ WKids(x)[b] = Cnt(KL, {x}) /\ WKids(x)[c] = Cnt(KR, {x})
  <2>2. (\A P : WEnts(P)[B[Root]] = Cnt(E, P)) /\ \A x : WKids(x)[B[Root]] = Cnt(K, {x})
    BY <1>3 DEF NodeAt, KeyFacts
  <2>3. (\A P : WEnts(P)[a] = Cnt(EA, P)) /\ \A x : WKids(x)[a] = Cnt(KA, {x})
    BY <1>6 DEF NodeAt, KeyFacts
  <2>4. (\A P : WEnts(P)[b] = Cnt(EL, P)) /\ \A x : WKids(x)[b] = Cnt(KL, {x})
    BY <1>6 DEF NodeAt, KeyFacts
  <2>5. (\A P : WEnts(P)[c] = Cnt(ER, P)) /\ \A x : WKids(x)[c] = Cnt(KR, {x})
    BY <1>6 DEF NodeAt, KeyFacts
  <2> QED BY <2>2, <2>3, <2>4, <2>5
<1>10. /\ E \in Seq(Ent) /\ EL \in Seq(Ent) /\ ER \in Seq(Ent)
       /\ K \in Seq(Nat) /\ KL \in Seq(Nat) /\ KR \in Seq(Nat)
       /\ a.kind = "key" /\ b.kind = "key" /\ c.kind = "key" /\ a.ents = EA /\ b.ents = EL /\ c.ents = ER
  <2>1. E \in Seq(Ent) /\ EL \in Seq(Ent) /\ ER \in Seq(Ent)
    BY <1>3, <1>6 DEF NodeAt
  <2>2. K \in Seq(Nat) /\ KL \in Seq(Nat) /\ KR \in Seq(Nat)
    BY <1>3, <1>6 DEF NodeAt
  <2>3. a.kind = "key" /\ b.kind = "key" /\ c.kind = "key" /\ a.ents = EA /\ b.ents = EL /\ c.ents = ER
    BY <1>6 DEF NodeAt, KeyFacts
  <2> QED BY <2>1, <2>2, <2>3
<1>11. ASSUME NEW P
       PROVE  WEnts(P)[a] + WEnts(P)[b] + WEnts(P)[c] = WEnts(P)[B[Root]] + WEnts(P)[B[nx]] + WEnts(P)[B[ny]]
  <2> DEFINE e == Cnt(E, P)
             el == Cnt(EL, P)
             er == Cnt(ER, P)
             o == One(v, P)
  <2>1. e \in Nat /\ el \in Nat /\ er \in Nat
    BY <1>10, CntType
  <2>2. o \in Nat
    BY DEF One
  <2>3. Cnt(EA, P) = o /\ e = el + o + er
    BY <1>7, <1>8 DEF v
  <2>4. /\ WEnts(P)[a] = o /\ WEnts(P)[b] = el /\ WEnts(P)[c] = er
        /\ WEnts(P)[B[Root]] = e /\ WEnts(P)[B[nx]] = 0 /\ WEnts(P)[B[ny]] = 0
    BY <1>4, <1>5, <1>9, <2>3
  <2> HIDE DEF e, el, er, o
  <2>5. o + el + er = e + 0 + 0
    BY ONLY <2>1, <2>2, <2>3
  <2> QED BY <2>4, <2>5
<1>12. ASSUME NEW x \in Nat \ {0} PROVE Weigh(C, WKids(x)) = Weigh(B, WKids(x)) + One(nx, {x}) + One(ny, {x})
  <2> DEFINE f == WKids(x)
             k == Cnt(K, {x})
             kl == Cnt(KL, {x})
             kr == Cnt(KR, {x})
             o == One(nx, {x})
             q == One(ny, {x})
             w == Weigh(B, f)
  <2>1. k \in Nat /\ kl \in Nat /\ kr \in Nat
    BY <1>10, CntType
  <2>2. o \in Nat /\ q \in Nat
    BY DEF One
  <2>3. Cnt(KA, {x}) = o + q /\ k = kl + kr
    BY <1>7, <1>8
  <2>4. f[a] = o + q /\ f[b] = kl /\ f[c] = kr /\ f[B[Root]] = k /\ f[B[nx]] = 0 /\ f[B[ny]] = 0
    BY <1>4, <1>5, <1>9, <2>3
  <2>5. f \in [Blocks -> Nat] /\ w \in Nat
    BY <1>1, WeightTypes, WeighType
  <2>6. Weigh(C, f) = w - f[B[Root]] - f[B[nx]] - f[B[ny]] + f[a] + f[b] + f[c]
    BY <2>5 DEF Three
  <2> HIDE DEF f, k, kl, kr, o, q, w
  <2>7. Weigh(C, f) = w - k - 0 - 0 + (o + q) + kl + kr
    BY <2>4, <2>6
  <2>8. w - k - 0 - 0 + (o + q) + kl + kr = w + o + q
    BY ONLY <2>1, <2>2, <2>3, <2>5
  <2> QED BY <2>7, <2>8 DEF f, w, o, q
<1>13. /\ Len(C) = N /\ C[Root] = a /\ C[nx] = b /\ C[ny] = c
       /\ \A i \in 1 .. N : i \notin {Root, nx, ny} => C[i] = B[i]
  BY DEF Three, N
<1>14. nx \in 1 .. N /\ ny \in 1 .. N
  BY DEF N
<1>15. b.ents # <<>> /\ c.ents # <<>>
  <2>1. Len(<<>>) = 0
    BY EmptySeq
  <2>3. Len(EL) # 0
    <3>1. Len(EL) = n /\ n >= 1
      BY <1>8
    <3> QED BY ONLY <3>1
  <2>4. Len(ER) # 0
    BY ONLY <1>7
  <2> QED BY <1>10, <2>1, <2>3, <2>4
<1>16. Live(C, Root) /\ Live(C, nx) /\ Live(C, ny)
  BY <1>2, <1>10, <1>13, <1>14, <1>15 DEF Live, IsKey
<1>17. ASSUME NEW i \in Nat, i \notin {Root, nx, ny} PROVE Live(C, i) <=> Live(B, i)
  BY <1>13, <1>17 DEF Live, IsKey, N
<1>18. ASSUME NEW x \in Nat \ {0} PROVE Weigh(C, WKids(x)) = IF Live(C, x) /\ x # Root THEN 1 ELSE 0
  <2>1. Weigh(B, WKids(x)) = IF Live(B, x) /\ x # Root THEN 1 ELSE 0
    BY DEF TreeOK
  <2>2. Weigh(C, WKids(x)) = Weigh(B, WKids(x)) + One(nx, {x}) + One(ny, {x})
    BY <1>12
  <2>3. CASE x \in {nx, ny}
    <3>1. One(nx, {x}) + One(ny, {x}) = 1 /\ One(nx, {x}) \in Nat /\ One(ny, {x}) \in Nat
      BY <2>3 DEF One
    <3>2. Weigh(B, WKids(x)) = 0
      BY <2>1, <2>3
    <3>3. Weigh(C, WKids(x)) = 1
      BY ONLY <2>2, <3>1, <3>2
    <3> QED BY <1>4, <1>5, <1>16, <2>3, <3>3
  <2>4. CASE x \notin {nx, ny}
    <3>1. One(nx, {x}) = 0 /\ One(ny, {x}) = 0
      BY <2>4 DEF One
    <3>2. Live(C, x) <=> Live(B, x)
      BY <1>2, <1>16, <1>17, <2>4
    <3> QED BY <2>1, <2>2, <3>1, <3>2
  <2> QED BY <2>3, <2>4
<1>19. TreeOK(m, C, g)
  <2>1. \A i \in Nat : i \notin {Root, nx, ny} /\ Live(B, i) => NodeOK(m, g, N, B[i])
    BY NodeRaised DEF N
  <2>2. NodeOK(m, g, N, a) /\ NodeOK(m, g, N, b) /\ NodeOK(m, g, N, c)
    BY <1>6 DEF NodeAt
  <2> QED BY <1>1, <1>2, <1>14, <1>16, <1>18, <2>1, <2>2, TreeByThree DEF N
<1>21. a \in Blocks /\ b \in Blocks /\ c \in Blocks /\ a.self = Root /\ b.self = nx /\ c.self = ny
  BY <1>6 DEF NodeAt, KeyFacts
<1>22. Swap(B, C, Root, a, nx, b, ny, c)
  BY <1>2, <1>4, <1>5, <1>10, <1>11, <1>14, <1>21 DEF Swap, N
<1> QED BY <1>10, <1>16, <1>19, <1>22 DEF Regrown

RootWrites(m, d, B, C, g, fl, a, nx, b, ny, c) ==
  /\ Rewritten(m, d, B, C, g, fl, Root, a, nx, b, ny, c, FALSE)
  /\ Spare(C, fl) \subseteq Spare(B, fl) \ {nx, ny}
  /\ Live(C, Root) /\ Len(C[Root].ents) = 1

LEMMA RootRewritten ==
  ASSUME NEW m \in Nat, m >= 4, NEW d, NEW B, NEW h, NEW fl, Good(m, d, B, h, fl), Len(B[Root].ents) >= m - 1,
         NEW nx \in 1 .. Len(B), B[nx].kind = "key", ~Live(B, nx), h[nx] = h[Root],
         NEW ny \in 1 .. Len(B), B[ny].kind = "key", ~Live(B, ny), h[ny] = h[Root], nx # ny,
         NEW n, n = ceil(m), NEW g, Raised(h, g, Len(B)),
         NEW a, a = RootUp(B, n, nx, ny), NEW b, b = RootLeft(B, n, nx),
         NEW c, c = RootRight(B, n, ny), NEW C, C = Blk(Blk(Blk(B, Root, a), nx, b), ny, c)
  PROVE  RootWrites(m, d, B, C, g, fl, a, nx, b, ny, c)
<1>0. Placed(B)
  BY DEF Good
<1>1. Placed(B) /\ TreeOK(m, B, h) /\ B \in Seq(Blocks) /\ Len(B) \in Nat /\ Root \in 1 .. Len(B) /\ Root \in Nat
  BY <1>0, GoodTypes
<1>2. Live(B, Root) /\ nx # Root /\ ny # Root
  BY <1>1 DEF Live, IsKey, Placed
<1>3. n \in Nat /\ n >= 1 /\ n <= m - 3
  BY CeilFacts
<1>4. RootNodes(m, h, g, B, n, nx, ny)
  BY <1>1, <1>2, RootNodesOf
<1> DEFINE E == B[Root].ents
           K == B[Root].kids
           EA == InsertAt(<<>>, 1, E[n + 1])
           EL == SubSeq(E, 1, n)
           ER == SubSeq(E, n + 2, Len(E))
<1>6. /\ NodeAt(m, g, Len(B), a, Root, FALSE, EA, InsertAt(<<nx>>, 2, ny))
      /\ NodeAt(m, g, Len(B), b, nx, B[Root].leaf, EL, SubSeq(K, 1, n + 1))
      /\ NodeAt(m, g, Len(B), c, ny, B[Root].leaf, ER, SubSeq(K, n + 2, Len(K)))
      /\ Len(EA) = 1 /\ SplitParts(E, K, n, Ent, Below(h, Len(B), h[Root]))
  BY <1>4 DEF RootNodes
<1>7. NodeAt(m, h, Len(B), B[Root], Root, B[Root].leaf, E, K)
  BY <1>1, <1>2, NodeOf
<1>8. Len(EL) = n
  BY <1>6 DEF SplitParts
<1> HIDE DEF E, K, EA, EL, ER
<1>9. /\ a \in Blocks /\ a.self = Root /\ a.kind = "key" /\ WCount("keys")[a] = Len(EA) /\ a.ents = EA
      /\ b \in Blocks /\ b.self = nx /\ b.kind = "key" /\ WCount("keys")[b] = Len(EL)
      /\ c \in Blocks /\ c.self = ny
  <2>1. KeyFacts(a, Root, FALSE, EA, InsertAt(<<nx>>, 2, ny))
    BY <1>6 DEF NodeAt
  <2>2. KeyFacts(b, nx, B[Root].leaf, EL, SubSeq(K, 1, n + 1))
    BY <1>6 DEF NodeAt
  <2>3. KeyFacts(c, ny, B[Root].leaf, ER, SubSeq(K, n + 2, Len(K)))
    BY <1>6 DEF NodeAt
  <2>4. a \in Blocks /\ a.self = Root /\ a.kind = "key" /\ WCount("keys")[a] = Len(EA) /\ a.ents = EA
    BY <2>1 DEF KeyFacts
  <2>5. b \in Blocks /\ b.self = nx /\ b.kind = "key" /\ WCount("keys")[b] = Len(EL)
    BY <2>2 DEF KeyFacts
  <2>6. c \in Blocks /\ c.self = ny
    BY <2>3 DEF KeyFacts
  <2> QED BY <2>4, <2>5, <2>6
<1>10. WCount("keys")[B[Root]] = Len(E) /\ Len(E) \in Nat /\ Len(E) <= m /\ WCount("keys")[B[nx]] = 0
  <2>1. WCount("keys")[B[nx]] = 0
    BY <1>1, NotLive
  <2> QED BY <1>7, <2>1 DEF NodeAt, KeyFacts
<1>11. Three(B, C, Root, a, nx, b, ny, c)
  BY <1>1, <1>2, <1>9, WeighThree
<1>12. Regrown(m, B, C, g, Root, a, nx, b, ny, c)
  BY <1>1, <1>3, <1>4, <1>11, RootTree
<1>13. Good(m, d, C, g, fl) /\ Spare(C, fl) \subseteq Spare(B, fl) \ {Root, nx, ny}
  BY <1>12, Rebuilt
<1>14. Len(E) >= m - 1
  BY DEF E
<1>15. Len(EA) # Len(E) /\ Len(EA) + Len(EL) # Len(E) + 0
  <2>1. m \in Nat /\ m >= 4 /\ Len(EA) = 1 /\ Len(E) \in Nat /\ Len(EL) = n
    BY <1>6, <1>8, <1>10
  <2> DEFINE u == Len(E)
  <2>2. u \in Nat /\ u >= m - 1
    BY <1>14, <2>1
  <2> HIDE DEF u
  <2>3. 1 # u /\ 1 + n # u + 0
    BY ONLY <1>3, <2>1, <2>2
  <2> QED BY <2>1, <2>3 DEF u
<1>16. C[Root] = a /\ Live(C, Root)
  BY <1>11, <1>12 DEF Three, Regrown
<1>17. Rewritten(m, d, B, C, g, fl, Root, a, nx, b, ny, c, FALSE)
  BY <1>1, <1>2, <1>9, <1>10, <1>13, <1>15 DEF Rewritten
<1> QED BY <1>6, <1>9, <1>13, <1>16, <1>17 DEF RootWrites

RootDone(m, t, d, B, fl, nx, ny, C, g) ==
  /\ Is(m, t, d, d, C) /\ Good(m, d, C, g, fl) /\ Spare(C, fl) \subseteq Spare(B, fl) \ {nx, ny}
  /\ Live(C, Root) /\ Len(C[Root].ents) = 1

LEMMA SplitOfRoot ==
  ASSUME NEW m \in Nat, m >= 4, m = M, NEW s, NEW d, NEW B, NEW h, NEW fl, Good(m, d, B, h, fl), Is(m, s, d, d, B),
         Len(B[Root].ents) >= m - 1,
         NEW nx \in 1 .. Len(B), B[nx].kind = "key", ~Live(B, nx), B[nx] = NewKeyBlock(nx, B[Root].leaf),
         NEW ny \in 1 .. Len(B), B[ny].kind = "key", ~Live(B, ny), B[ny] = NewKeyBlock(ny, B[Root].leaf), nx # ny
  PROVE  \E C, g : RootDone(m, btree_split_child(s, KeyBlock(Root, FALSE, <<>>, <<nx>>), 1,
                                                 Filled(B[nx], B[Root].ents, B[Root].kids), B[ny]),
                            d, B, fl, nx, ny, C, g)
<1> DEFINE l == h[Root]
           h1 == [h EXCEPT ![nx] = l]
           h2 == [h1 EXCEPT ![ny] = l]
           g == [h2 EXCEPT ![Root] = l + 1]
           n == ceil(m)
           a == RootUp(B, n, nx, ny)
           b == RootLeft(B, n, nx)
           c == RootRight(B, n, ny)
           C == Blk(Blk(Blk(B, Root, a), nx, b), ny, c)
           r == KeyBlock(Root, FALSE, <<>>, <<nx>>)
           x == Filled(B[nx], B[Root].ents, B[Root].kids)
           t == btree_split_child(s, r, 1, x, B[ny])
<1>0. Placed(B)
  BY DEF Good
<1>1. /\ TreeOK(m, B, h) /\ B \in Seq(Blocks) /\ Len(B) \in Nat /\ h \in [1 .. Len(B) -> Nat]
      /\ d \in Handles /\ CountsOK(d, B) /\ Root \in 1 .. Len(B)
  BY GoodTypes
<1>2. l \in Nat /\ l + 1 \in Nat /\ Live(B, Root) /\ nx # Root /\ ny # Root
  BY <1>0, <1>1 DEF Live, IsKey, Placed
<1> HIDE DEF l
<1>3. Good(m, d, B, h1, fl) /\ h1 \in [1 .. Len(B) -> Nat] /\ h1[Root] = l /\ h1[nx] = l
  <2>1. Good(m, d, B, h1, fl)
    BY <1>2, RehangGood
  <2> QED BY <1>1, <1>2, <2>1 DEF l
<1> HIDE DEF h1
<1>4. Good(m, d, B, h2, fl) /\ h2 \in [1 .. Len(B) -> Nat] /\ h2[Root] = l /\ h2[nx] = l /\ h2[ny] = l
  <2>1. Good(m, d, B, h2, fl)
    BY <1>2, <1>3, RehangGood
  <2> QED BY <1>1, <1>2, <1>3, <2>1
<1> HIDE DEF h2
<1>5. Raised(h2, g, Len(B))
  BY <1>1, <1>2, <1>4 DEF Raised
<1>6. /\ r.self = Root /\ r.leaf = FALSE /\ r.ents = <<>> /\ r.kids = <<nx>>
      /\ x.self = nx /\ x.leaf = B[Root].leaf /\ x.ents = B[Root].ents /\ x.kids = B[Root].kids
      /\ B[ny].self = ny /\ B[ny].leaf = B[Root].leaf
  BY DEF NewKeyBlock, KeyBlock, Filled
<1> HIDE DEF r, x
<1>7. t = node_flush(node_flush(Put(s, a, FALSE), b), c)
  <2>1. 1 + 1 = 2
    OBVIOUS
  <2>2. KeyBlock(r.self, r.leaf, InsertAt(r.ents, 1, x.ents[n + 1]), InsertAt(r.kids, 1 + 1, B[ny].self)) = a
    BY <1>6, <2>1 DEF RootUp
  <2>3. KeyBlock(x.self, x.leaf, SubSeq(x.ents, 1, n), SubSeq(x.kids, 1, n + 1)) = b
    BY <1>6 DEF RootLeft
  <2>4. KeyBlock(B[ny].self, B[ny].leaf, SubSeq(x.ents, n + 2, Len(x.ents)), SubSeq(x.kids, n + 2, Len(x.kids))) = c
    BY <1>6 DEF RootRight
  <2>5. n = ceil(M)
    OBVIOUS
  <2> HIDE DEF a, b, c, n
  <2> QED BY <2>2, <2>3, <2>4, <2>5 DEF btree_split_child, Filled, node_flush
<1> HIDE DEF g, n, a, b, c, t
<1>8. n = ceil(m) /\ a = RootUp(B, n, nx, ny) /\ b = RootLeft(B, n, nx) /\ c = RootRight(B, n, ny)
  BY DEF n, a, b, c
<1>9. RootWrites(m, d, B, C, g, fl, a, nx, b, ny, c)
  <2>1. h2[nx] = h2[Root] /\ h2[ny] = h2[Root]
    BY <1>4
  <2> QED BY <1>4, <1>5, <1>8, <2>1, RootRewritten
<1> HIDE DEF C
<1>10. Good(m, d, C, g, fl) /\ Weigh(B, WCount("keys")) = d.total /\ Rewritten(m, d, B, C, g, fl, Root, a, nx, b, ny, c, FALSE)
  BY <1>1, <1>9 DEF Rewritten, CountsOK, RootWrites
<1>11. FALSE \in BOOLEAN
  OBVIOUS
<1>12. Is(m, t, d, d, C)
  BY <1>1, <1>7, <1>10, <1>11, WriteRewritten
<1>13. RootDone(m, t, d, B, fl, nx, ny, C, g)
  BY <1>9, <1>10, <1>12 DEF RootDone, RootWrites
<1> QED BY <1>13 DEF t, r, x

-----------------------------------------------------------------------------
(* An entry goes down from a block to one child, and one comes up from     *)
(* another child: BorrowRight and BorrowLeft.                              *)

\* Entries E2 and children K2 are E and K with entry u and child k.
Grown(E, K, E2, K2, T, u, k) ==
  /\ E \in Seq(Ent) /\ E2 \in Seq(Ent) /\ K \in Seq(T) /\ K2 \in Seq(T) /\ u \in Ent
  /\ Len(E2) = Len(E) + 1 /\ Len(K2) = Len(K) + 1
  /\ \A P : Cnt(E2, P) = Cnt(E, P) + One(u, P)
  /\ \A P : Cnt(K2, P) = Cnt(K, P) + One(k, P)

\* Block n0 has E0 but for entry q, which goes to nx; nz gives an entry to n0
\* and a child to nx.
Moved(m, h, B, n0, q, nx, EB, KB, nz, EC, KC, v, k) ==
  /\ n0 \in Nat /\ Live(B, n0) /\ ~B[n0].leaf /\ q \in 1 .. Len(B[n0].ents)
  /\ nx \in Nat /\ Live(B, nx) /\ nx # Root /\ nx # n0 /\ h[nx] = h[nz]
  /\ nz \in Nat /\ Live(B, nz) /\ nz # Root /\ nz # n0 /\ nz # nx
  /\ Grown(B[nx].ents, B[nx].kids, EB, KB, Below(h, Len(B), h[nx]), B[n0].ents[q], k)
  /\ Grown(EC, KC, B[nz].ents, B[nz].kids, Below(h, Len(B), h[nz]), v, k)
  /\ Len(B[nx].ents) + 1 <= m /\ Len(B[nz].ents) >= 2

MovedUp(B, n0, q, v) == KeyBlock(n0, B[n0].leaf, [B[n0].ents EXCEPT ![q] = v], B[n0].kids)
MovedTo(B, n, E, K) == KeyBlock(n, B[n].leaf, E, K)

MovedNodes(m, h, B, n0, q, nx, EB, KB, nz, EC, KC, v, k) ==
  LET E == [B[n0].ents EXCEPT ![q] = v]
      u == B[n0].ents[q]
  IN  /\ NodeAt(m, h, Len(B), MovedUp(B, n0, q, v), n0, B[n0].leaf, E, B[n0].kids)
      /\ NodeAt(m, h, Len(B), MovedTo(B, nx, EB, KB), nx, B[nx].leaf, EB, KB)
      /\ NodeAt(m, h, Len(B), MovedTo(B, nz, EC, KC), nz, B[nz].leaf, EC, KC)
      /\ \A P : Cnt(E, P) = Cnt(B[n0].ents, P) - One(u, P) + One(v, P)
      /\ Len(E) = Len(B[n0].ents) /\ Len(EB) = Len(B[nx].ents) + 1 /\ Len(EC) > 0

LEMMA MovedNodesOf ==
  ASSUME NEW m \in Nat, NEW B, NEW h, Placed(B), TreeOK(m, B, h), NEW n0, NEW q, NEW nx, NEW EB, NEW KB,
         NEW nz, NEW EC, NEW KC, NEW v, NEW k, Moved(m, h, B, n0, q, nx, EB, KB, nz, EC, KC, v, k)
  PROVE  MovedNodes(m, h, B, n0, q, nx, EB, KB, nz, EC, KC, v, k)
<1> DEFINE N == Len(B)
           E0 == B[n0].ents
           K0 == B[n0].kids
           l0 == B[n0].leaf
           EX == B[nx].ents
           KX == B[nx].kids
           lx == B[nx].leaf
           EZ == B[nz].ents
           KZ == B[nz].kids
           lz == B[nz].leaf
           u == E0[q]
           EA == [E0 EXCEPT ![q] = v]
<1>1. N \in Nat /\ h \in [1 .. N -> Nat]
  BY DEF Placed, TreeOK
<1>2. n0 \in Nat /\ Live(B, n0) /\ nx \in Nat /\ Live(B, nx) /\ nz \in Nat /\ Live(B, nz) /\ q \in 1 .. Len(E0) /\ ~l0
  BY DEF Moved
<1>3. Grown(EX, KX, EB, KB, Below(h, N, h[nx]), u, k) /\ Grown(EC, KC, EZ, KZ, Below(h, N, h[nz]), v, k)
  BY DEF Moved
<1>4. Len(EX) + 1 <= m /\ Len(EZ) >= 2
  BY DEF Moved
<1>5. NodeAt(m, h, N, B[n0], n0, l0, E0, K0)
  BY <1>2, NodeOf
<1>6. NodeAt(m, h, N, B[nx], nx, lx, EX, KX)
  BY <1>2, NodeOf
<1>7. NodeAt(m, h, N, B[nz], nz, lz, EZ, KZ)
  BY <1>2, NodeOf
<1> HIDE DEF N, E0, K0, l0, EX, KX, lx, EZ, KZ, lz, u
<1>8. EA \in Seq(Ent) /\ Len(EA) = Len(E0) /\ \A P : Cnt(EA, P) = Cnt(E0, P) - One(u, P) + One(v, P)
  <2>1. E0 \in Seq(Ent) /\ v \in Ent
    BY <1>3, <1>5 DEF NodeAt, Grown
  <2> QED BY <1>2, <2>1, ExceptFacts DEF u
<1> HIDE DEF EA
<1>9. NodeAt(m, h, N, KeyBlock(n0, l0, EA, K0), n0, l0, EA, K0)
  <2>1. /\ n0 \in 1 .. N /\ l0 \in BOOLEAN /\ K0 \in Seq(Below(h, N, h[n0])) /\ Len(K0) = Len(E0) + 1
        /\ (l0 <=> h[n0] = 0) /\ h[n0] <= h[Root] /\ Len(E0) <= m /\ (l0 \/ Len(E0) > 0)
    BY <1>5 DEF NodeAt
  <2>2. m \in Nat /\ Len(K0) = Len(EA) + 1 /\ Len(EA) <= m /\ (l0 \/ Len(EA) > 0)
    BY <1>8, <2>1
  <2> QED BY ONLY <1>1, <1>8, <2>1, <2>2, NodeMade
<1>10. NodeAt(m, h, N, KeyBlock(nx, lx, EB, KB), nx, lx, EB, KB)
  <2>1. /\ nx \in 1 .. N /\ lx \in BOOLEAN /\ (lx <=> h[nx] = 0) /\ h[nx] <= h[Root]
        /\ Len(KX) = Len(EX) + 1 /\ Len(EX) \in Nat
    BY <1>6 DEF NodeAt
  <2>2. EB \in Seq(Ent) /\ KB \in Seq(Below(h, N, h[nx])) /\ Len(EB) = Len(EX) + 1 /\ Len(KB) = Len(KX) + 1
    BY <1>3 DEF Grown
  <2>3. m \in Nat /\ Len(KB) = Len(EB) + 1 /\ Len(EB) <= m /\ (lx \/ Len(EB) > 0)
    BY <1>4, <2>1, <2>2
  <2> QED BY ONLY <1>1, <2>1, <2>2, <2>3, NodeMade
<1>11. Len(KC) = Len(EC) + 1 /\ Len(EC) <= m /\ Len(EC) > 0 /\ EC \in Seq(Ent) /\ KC \in Seq(Below(h, N, h[nz]))
  <2>1. Len(KZ) = Len(EZ) + 1 /\ Len(EZ) \in Nat /\ Len(EZ) <= m
    BY <1>7 DEF NodeAt
  <2>2. EC \in Seq(Ent) /\ KC \in Seq(Below(h, N, h[nz])) /\ Len(EZ) = Len(EC) + 1 /\ Len(KZ) = Len(KC) + 1
    BY <1>3 DEF Grown
  <2>3. Len(EC) \in Nat /\ Len(KC) \in Nat /\ m \in Nat
    BY <2>2
  <2> DEFINE ez == Len(EZ)
             kz == Len(KZ)
             ec == Len(EC)
             kc == Len(KC)
  <2>4. kz = ez + 1 /\ ez <= m /\ ez >= 2 /\ ez = ec + 1 /\ kz = kc + 1 /\ ez \in Nat /\ ec \in Nat /\ kc \in Nat /\ m \in Nat
    BY <1>4, <2>1, <2>2, <2>3
  <2> HIDE DEF ez, kz, ec, kc
  <2>5. kc = ec + 1 /\ ec <= m /\ ec > 0
    BY ONLY <2>4
  <2> QED BY <2>2, <2>5 DEF ec, kc
<1>12. NodeAt(m, h, N, KeyBlock(nz, lz, EC, KC), nz, lz, EC, KC)
  <2>1. nz \in 1 .. N /\ lz \in BOOLEAN /\ (lz <=> h[nz] = 0) /\ h[nz] <= h[Root] /\ m \in Nat
    BY <1>7 DEF NodeAt
  <2> QED BY ONLY <1>1, <1>11, <2>1, NodeMade
<1>13. Len(EB) = Len(EX) + 1
  BY <1>3 DEF Grown
<1> QED BY <1>8, <1>9, <1>10, <1>11, <1>12, <1>13
        DEF MovedNodes, MovedUp, MovedTo, N, E0, K0, l0, EX, KX, lx, EZ, KZ, lz, u, EA

LEMMA MovedTree ==
  ASSUME NEW m \in Nat, NEW B, NEW h, Placed(B), TreeOK(m, B, h), NEW n0, NEW q, NEW nx, NEW EB, NEW KB,
         NEW nz, NEW EC, NEW KC, NEW v, NEW k, Moved(m, h, B, n0, q, nx, EB, KB, nz, EC, KC, v, k),
         MovedNodes(m, h, B, n0, q, nx, EB, KB, nz, EC, KC, v, k),
         NEW a, a = MovedUp(B, n0, q, v), NEW b, b = MovedTo(B, nx, EB, KB), NEW c, c = MovedTo(B, nz, EC, KC),
         NEW C, Three(B, C, n0, a, nx, b, nz, c)
  PROVE  Regrown(m, B, C, h, n0, a, nx, b, nz, c)
<1> DEFINE N == Len(B)
           E0 == B[n0].ents
           K0 == B[n0].kids
           EX == B[nx].ents
           KX == B[nx].kids
           EZ == B[nz].ents
           KZ == B[nz].kids
           u == E0[q]
           EA == [E0 EXCEPT ![q] = v]
<1>1. B \in Seq(Blocks) /\ N \in Nat /\ h \in [1 .. N -> Nat]
  BY DEF Placed, TreeOK
<1>2. /\ n0 \in Nat /\ Live(B, n0) /\ nx \in Nat /\ Live(B, nx) /\ nx # Root /\ nx # n0
      /\ nz \in Nat /\ Live(B, nz) /\ nz # Root /\ nz # n0 /\ nz # nx
      /\ q \in 1 .. Len(E0) /\ ~B[n0].leaf
  BY DEF Moved
<1>3. Grown(EX, KX, EB, KB, Below(h, N, h[nx]), u, k) /\ Grown(EC, KC, EZ, KZ, Below(h, N, h[nz]), v, k)
  BY DEF Moved
<1>4. /\ NodeAt(m, h, N, B[n0], n0, B[n0].leaf, E0, K0) /\ NodeAt(m, h, N, B[nx], nx, B[nx].leaf, EX, KX)
      /\ NodeAt(m, h, N, B[nz], nz, B[nz].leaf, EZ, KZ)
  BY <1>2, NodeOf
<1>5. /\ NodeAt(m, h, N, a, n0, B[n0].leaf, EA, K0)
      /\ NodeAt(m, h, N, b, nx, B[nx].leaf, EB, KB)
      /\ NodeAt(m, h, N, c, nz, B[nz].leaf, EC, KC)
      /\ \A P : Cnt(EA, P) = Cnt(E0, P) - One(u, P) + One(v, P)
      /\ Len(EA) = Len(E0) /\ Len(EB) = Len(EX) + 1 /\ Len(EC) > 0
  BY DEF MovedNodes
<1> HIDE DEF N, E0, K0, EX, KX, EZ, KZ, u, EA
<1>6. (\A P : WEnts(P)[B[n0]] = Cnt(E0, P)) /\ \A x : WKids(x)[B[n0]] = Cnt(K0, {x})
  BY <1>4 DEF NodeAt, KeyFacts
<1>7. (\A P : WEnts(P)[B[nx]] = Cnt(EX, P)) /\ \A x : WKids(x)[B[nx]] = Cnt(KX, {x})
  BY <1>4 DEF NodeAt, KeyFacts
<1>8. (\A P : WEnts(P)[B[nz]] = Cnt(EZ, P)) /\ \A x : WKids(x)[B[nz]] = Cnt(KZ, {x})
  BY <1>4 DEF NodeAt, KeyFacts
<1>9. (\A P : WEnts(P)[a] = Cnt(EA, P)) /\ \A x : WKids(x)[a] = Cnt(K0, {x})
  BY <1>5 DEF NodeAt, KeyFacts
<1>10. (\A P : WEnts(P)[b] = Cnt(EB, P)) /\ \A x : WKids(x)[b] = Cnt(KB, {x})
  BY <1>5 DEF NodeAt, KeyFacts
<1>11. (\A P : WEnts(P)[c] = Cnt(EC, P)) /\ \A x : WKids(x)[c] = Cnt(KC, {x})
  BY <1>5 DEF NodeAt, KeyFacts
<1>12. /\ E0 \in Seq(Ent) /\ EX \in Seq(Ent) /\ EC \in Seq(Ent)
       /\ K0 \in Seq(Nat) /\ KX \in Seq(Nat) /\ KC \in Seq(Nat)
       /\ Len(E0) \in Nat /\ Len(EX) \in Nat
  BY <1>4, <1>5 DEF NodeAt
<1>13. a.kind = "key" /\ b.kind = "key" /\ c.kind = "key" /\ a.ents = EA /\ b.ents = EB /\ c.ents = EC
  BY <1>5 DEF NodeAt, KeyFacts
<1>14. a \in Blocks /\ b \in Blocks /\ c \in Blocks /\ a.self = n0 /\ b.self = nx /\ c.self = nz
  BY <1>5 DEF NodeAt, KeyFacts
<1>15. ASSUME NEW P
       PROVE  WEnts(P)[a] + WEnts(P)[b] + WEnts(P)[c] = WEnts(P)[B[n0]] + WEnts(P)[B[nx]] + WEnts(P)[B[nz]]
  <2> DEFINE e0 == Cnt(E0, P)
             ex == Cnt(EX, P)
             ec == Cnt(EC, P)
             o == One(u, P)
             w == One(v, P)
  <2>1. e0 \in Nat /\ ex \in Nat /\ ec \in Nat
    BY <1>12, CntType
  <2>2. o \in Nat /\ w \in Nat
    BY DEF One
  <2>3. Cnt(EA, P) = e0 - o + w /\ Cnt(EB, P) = ex + o /\ Cnt(EZ, P) = ec + w
    BY <1>3, <1>5 DEF Grown
  <2>4. /\ WEnts(P)[a] = e0 - o + w /\ WEnts(P)[b] = ex + o /\ WEnts(P)[c] = ec
        /\ WEnts(P)[B[n0]] = e0 /\ WEnts(P)[B[nx]] = ex /\ WEnts(P)[B[nz]] = ec + w
    BY <1>6, <1>7, <1>8, <1>9, <1>10, <1>11, <2>3
  <2> HIDE DEF e0, ex, ec, o, w
  <2>5. (e0 - o + w) + (ex + o) + ec = e0 + ex + (ec + w)
    BY ONLY <2>1, <2>2
  <2> QED BY <2>4, <2>5
<1>16. ASSUME NEW x PROVE Weigh(C, WKids(x)) = Weigh(B, WKids(x))
  <2> DEFINE f == WKids(x)
             k0 == Cnt(K0, {x})
             kx == Cnt(KX, {x})
             kc == Cnt(KC, {x})
             o == One(k, {x})
             w == Weigh(B, f)
  <2>1. k0 \in Nat /\ kx \in Nat /\ kc \in Nat
    BY <1>12, CntType
  <2>2. o \in Nat
    BY DEF One
  <2>3. Cnt(KB, {x}) = kx + o /\ Cnt(KZ, {x}) = kc + o
    BY <1>3 DEF Grown
  <2>4. f[a] = k0 /\ f[b] = kx + o /\ f[c] = kc /\ f[B[n0]] = k0 /\ f[B[nx]] = kx /\ f[B[nz]] = kc + o
    BY <1>6, <1>7, <1>8, <1>9, <1>10, <1>11, <2>3
  <2>5. f \in [Blocks -> Nat] /\ w \in Nat
    BY <1>1, WeightTypes, WeighType
  <2>6. Weigh(C, f) = w - f[B[n0]] - f[B[nx]] - f[B[nz]] + f[a] + f[b] + f[c]
    BY <2>5 DEF Three
  <2> HIDE DEF f, k0, kx, kc, o, w
  <2>7. Weigh(C, f) = w - k0 - kx - (kc + o) + k0 + (kx + o) + kc
    BY <2>4, <2>6
  <2>8. w - k0 - kx - (kc + o) + k0 + (kx + o) + kc = w
    BY ONLY <2>1, <2>2, <2>5
  <2> QED BY <2>7, <2>8 DEF f, w
<1>17. /\ Len(C) = N /\ C[n0] = a /\ C[nx] = b /\ C[nz] = c
       /\ \A i \in 1 .. N : i \notin {n0, nx, nz} => C[i] = B[i]
  BY DEF Three, N
<1>18. /\ n0 \in 1 .. N /\ nx \in 1 .. N /\ nz \in 1 .. N
       /\ B[n0].kind = "key" /\ B[nx].kind = "key" /\ B[nz].kind = "key"
  BY <1>2 DEF Live, IsKey, N
<1>19. a.ents # <<>> /\ b.ents # <<>> /\ c.ents # <<>>
  <2>1. Len(<<>>) = 0
    BY EmptySeq
  <2>2. Len(EA) # 0
    BY <1>2, <1>5, <1>12
  <2>3. Len(EB) # 0
    BY <1>5, <1>12
  <2>4. Len(EC) # 0
    BY ONLY <1>5
  <2> QED BY <1>13, <2>1, <2>2, <2>3, <2>4
<1>20. Live(C, n0) /\ Live(C, nx) /\ Live(C, nz)
  BY <1>13, <1>17, <1>18, <1>19 DEF Live, IsKey
<1>21. ASSUME NEW i \in Nat PROVE Live(C, i) <=> Live(B, i)
  <2>1. CASE i \in {n0, nx, nz}
    BY <1>2, <1>20, <2>1
  <2>2. CASE i \notin {n0, nx, nz}
    BY <1>17, <2>2 DEF Live, IsKey, N
  <2> QED BY <2>1, <2>2
<1>22. TreeOK(m, C, h)
  <2>1. \A i \in Nat : i \notin {n0, nx, nz} /\ Live(B, i) => NodeOK(m, h, N, B[i])
    BY DEF TreeOK, N
  <2>2. NodeOK(m, h, N, a) /\ NodeOK(m, h, N, b) /\ NodeOK(m, h, N, c)
    BY <1>5 DEF NodeAt
  <2>3. \A x \in Nat \ {0} : Weigh(C, WKids(x)) = IF Live(C, x) /\ x # Root THEN 1 ELSE 0
    <3> SUFFICES ASSUME NEW x \in Nat \ {0} PROVE Weigh(C, WKids(x)) = IF Live(C, x) /\ x # Root THEN 1 ELSE 0
      OBVIOUS
    <3>1. Weigh(B, WKids(x)) = IF Live(B, x) /\ x # Root THEN 1 ELSE 0
      BY DEF TreeOK
    <3> QED BY <1>16, <1>21, <3>1
  <2> QED BY <1>1, <1>18, <1>20, <2>1, <2>2, <2>3, TreeByThree DEF N
<1>23. Swap(B, C, n0, a, nx, b, nz, c)
  BY <1>2, <1>13, <1>14, <1>15, <1>18 DEF Swap, N
<1> QED BY <1>13, <1>20, <1>22, <1>23 DEF Regrown

\* What a move achieves: block nx can spare an entry.
MovedDone(m, t, d, B, h, fl, n0, nx, nz, C) ==
  /\ Is(m, t, d, d, C) /\ Good(m, d, C, h, fl) /\ Spare(C, fl) \subseteq Spare(B, fl)
  /\ Live(C, nx) /\ Len(C[nx].ents) >= 2
  /\ Len(C) = Len(B) /\ \A i \in 1 .. Len(B) : i \notin {n0, nx, nz} => C[i] = B[i]

MoveEnds(m, s, d, B, h, fl, n0, q, nx, EB, KB, nz, EC, KC, v) ==
  \E C : MovedDone(m, node_flush(node_flush(Put(s, MovedUp(B, n0, q, v), TRUE), MovedTo(B, nx, EB, KB)),
                                 MovedTo(B, nz, EC, KC)), d, B, h, fl, n0, nx, nz, C)

LEMMA MoveEntry ==
  ASSUME NEW m \in Nat, NEW s, NEW d, NEW B, NEW h, NEW fl, Good(m, d, B, h, fl), Is(m, s, d, d, B),
         NEW n0, NEW q, NEW nx, NEW EB, NEW KB, NEW nz, NEW EC, NEW KC, NEW v, NEW k,
         Moved(m, h, B, n0, q, nx, EB, KB, nz, EC, KC, v, k)
  PROVE  MoveEnds(m, s, d, B, h, fl, n0, q, nx, EB, KB, nz, EC, KC, v)
<1> DEFINE a == MovedUp(B, n0, q, v)
           b == MovedTo(B, nx, EB, KB)
           c == MovedTo(B, nz, EC, KC)
           C == Blk(Blk(Blk(B, n0, a), nx, b), nz, c)
           t == node_flush(node_flush(Put(s, a, TRUE), b), c)
<1>0. Placed(B)
  BY DEF Good
<1>1. /\ TreeOK(m, B, h) /\ B \in Seq(Blocks) /\ Len(B) \in Nat /\ d \in Handles /\ CountsOK(d, B)
  BY GoodTypes
<1>2. /\ n0 \in Nat /\ Live(B, n0) /\ nx \in Nat /\ Live(B, nx) /\ nx # n0
      /\ nz \in Nat /\ Live(B, nz) /\ nz # n0 /\ nz # nx
  BY DEF Moved
<1>3. n0 \in 1 .. Len(B) /\ nx \in 1 .. Len(B) /\ nz \in 1 .. Len(B) /\ B[nx].ents # <<>>
  BY <1>2 DEF Live, IsKey, Moved
<1>4. MovedNodes(m, h, B, n0, q, nx, EB, KB, nz, EC, KC, v, k)
  BY <1>0, <1>1, MovedNodesOf
<1> DEFINE E0 == B[n0].ents
           EX == B[nx].ents
           EA == [E0 EXCEPT ![q] = v]
<1>5. /\ NodeAt(m, h, Len(B), a, n0, B[n0].leaf, EA, B[n0].kids)
      /\ NodeAt(m, h, Len(B), b, nx, B[nx].leaf, EB, KB)
      /\ NodeAt(m, h, Len(B), c, nz, B[nz].leaf, EC, KC)
      /\ Len(EA) = Len(E0) /\ Len(EB) = Len(EX) + 1
  BY <1>4 DEF MovedNodes
<1>6. NodeAt(m, h, Len(B), B[n0], n0, B[n0].leaf, E0, B[n0].kids)
  BY <1>0, <1>1, <1>2, NodeOf
<1>7. NodeAt(m, h, Len(B), B[nx], nx, B[nx].leaf, EX, B[nx].kids)
  BY <1>0, <1>1, <1>2, NodeOf
<1>8. a = MovedUp(B, n0, q, v) /\ b = MovedTo(B, nx, EB, KB) /\ c = MovedTo(B, nz, EC, KC)
  OBVIOUS
<1> HIDE DEF a, b, c, EA, E0, EX
<1>9. /\ a \in Blocks /\ a.self = n0 /\ WCount("keys")[a] = Len(EA)
      /\ b \in Blocks /\ b.self = nx /\ WCount("keys")[b] = Len(EB) /\ b.ents = EB
      /\ c \in Blocks /\ c.self = nz
  <2>1. a \in Blocks /\ a.self = n0 /\ WCount("keys")[a] = Len(EA)
    BY <1>5 DEF NodeAt, KeyFacts
  <2>2. b \in Blocks /\ b.self = nx /\ WCount("keys")[b] = Len(EB) /\ b.ents = EB
    BY <1>5 DEF NodeAt, KeyFacts
  <2>3. c \in Blocks /\ c.self = nz
    BY <1>5 DEF NodeAt, KeyFacts
  <2> QED BY <2>1, <2>2, <2>3
<1>10. WCount("keys")[B[n0]] = Len(E0) /\ Len(E0) \in Nat
  BY <1>6 DEF NodeAt, KeyFacts
<1>11. WCount("keys")[B[nx]] = Len(EX) /\ Len(EX) \in Nat /\ EX \in Seq(Ent)
  BY <1>7 DEF NodeAt, KeyFacts
<1>12. Three(B, C, n0, a, nx, b, nz, c)
  BY <1>1, <1>2, <1>3, <1>9, WeighThree
<1> HIDE DEF C
<1>13. Regrown(m, B, C, h, n0, a, nx, b, nz, c)
  BY <1>0, <1>1, <1>4, <1>8, <1>12, MovedTree
<1>14. Good(m, d, C, h, fl) /\ Spare(C, fl) \subseteq Spare(B, fl) \ {n0, nx, nz}
  BY <1>13, Rebuilt
<1>15. WCount("keys")[a] + WCount("keys")[b] # WCount("keys")[B[n0]] + WCount("keys")[B[nx]]
  <2>1. Len(EA) = Len(E0) /\ Len(EB) = Len(EX) + 1 /\ Len(E0) \in Nat /\ Len(EX) \in Nat
    BY <1>5, <1>10, <1>11
  <2>2. Len(EA) + Len(EB) # Len(E0) + Len(EX)
    BY ONLY <2>1
  <2> QED BY <1>9, <1>10, <1>11, <2>2
<1>16. Rewritten(m, d, B, C, h, fl, n0, a, nx, b, nz, c, TRUE)
  BY <1>2, <1>3, <1>9, <1>14, <1>15 DEF Rewritten, C
<1>17. Weigh(B, WCount("keys")) = d.total /\ TRUE \in BOOLEAN
  BY <1>1 DEF CountsOK
<1>18. Is(m, t, d, d, C)
  BY <1>1, <1>16, <1>17, WriteRewritten
<1>19. C[nx] = b /\ Len(C) = Len(B) /\ \A i \in 1 .. Len(B) : i \notin {n0, nx, nz} => C[i] = B[i]
  BY <1>12 DEF Three
<1>20. Len(C[nx].ents) >= 2
  <2>1. Len(EX) # 0
    BY <1>3, <1>11, EmptySeq DEF EX
  <2>2. Len(EB) = Len(EX) + 1 /\ Len(EX) \in Nat
    BY <1>5, <1>11
  <2>3. Len(EB) >= 2
    BY ONLY <2>1, <2>2
  <2> QED BY <1>9, <1>19, <2>3
<1>21. Live(C, nx)
  BY <1>13 DEF Regrown
<1>22. MovedDone(m, t, d, B, h, fl, n0, nx, nz, C)
  BY <1>14, <1>18, <1>19, <1>20, <1>21 DEF MovedDone
<1> QED BY <1>22 DEF MoveEnds, t, a, b, c

\* An entry and a child more, at the end or at the beginning.
LEMMA GrownByAppend ==
  ASSUME NEW T, NEW E \in Seq(Ent), NEW K \in Seq(T), NEW u \in Ent, NEW k \in T
  PROVE  Grown(E, K, Append(E, u), Append(K, k), T, u, k)
<1>1. Append(E, u) \in Seq(Ent) /\ Len(Append(E, u)) = Len(E) + 1 /\ \A P : Cnt(Append(E, u), P) = Cnt(E, P) + One(u, P)
  BY AppendFacts
<1>2. Append(K, k) \in Seq(T) /\ Len(Append(K, k)) = Len(K) + 1 /\ \A P : Cnt(Append(K, k), P) = Cnt(K, P) + One(k, P)
  BY AppendFacts
<1> QED BY <1>1, <1>2 DEF Grown

LEMMA GrownByPrepend ==
  ASSUME NEW T, NEW E \in Seq(Ent), NEW K \in Seq(T), NEW u \in Ent, NEW k \in T
  PROVE  Grown(E, K, <<u>> \o E, <<k>> \o K, T, u, k)
<1> DEFINE E2 == <<u>> \o E
           K2 == <<k>> \o K
<1>1. E2 \in Seq(Ent) /\ Len(E2) = Len(E) + 1 /\ \A P : Cnt(E2, P) = Cnt(E, P) + One(u, P)
  BY PrependFacts
<1>2. K2 \in Seq(T) /\ Len(K2) = Len(K) + 1 /\ \A P : Cnt(K2, P) = Cnt(K, P) + One(k, P)
  BY PrependFacts
<1> HIDE DEF E2, K2
<1>3. Grown(E, K, E2, K2, T, u, k)
  BY <1>1, <1>2 DEF Grown
<1> QED BY <1>3 DEF E2, K2

LEMMA GrownFromTail ==
  ASSUME NEW T, NEW E \in Seq(Ent), NEW K \in Seq(T), Len(E) > 0, Len(K) > 0
  PROVE  Grown(Tail(E), Tail(K), E, K, T, Head(E), Head(K)) /\ Head(K) \in T /\ Head(E) \in Ent
<1> DEFINE E2 == Tail(E)
           K2 == Tail(K)
           u == Head(E)
           k == Head(K)
<1>0. ASSUME NEW S, NEW s \in Seq(S), NEW P PROVE Cnt(s, P) \in Nat /\ \A e : One(e, P) \in Nat
  BY CntType DEF One
<1>1. E2 \in Seq(Ent) /\ Len(E2) = Len(E) - 1 /\ u \in Ent /\ \A P : Cnt(E2, P) = Cnt(E, P) - One(u, P)
  BY TailFacts
<1>2. K2 \in Seq(T) /\ Len(K2) = Len(K) - 1 /\ k \in T /\ \A P : Cnt(K2, P) = Cnt(K, P) - One(k, P)
  BY TailFacts
<1> HIDE DEF E2, K2, u, k
<1>3. Len(E) = Len(E2) + 1 /\ Len(K) = Len(K2) + 1
  BY <1>1, <1>2
<1>4. ASSUME NEW P PROVE Cnt(E, P) = Cnt(E2, P) + One(u, P)
  <2> DEFINE x == Cnt(E, P)
             y == Cnt(E2, P)
             o == One(u, P)
  <2>1. x \in Nat /\ o \in Nat
    BY <1>0
  <2>2. y = x - o
    BY <1>1
  <2> HIDE DEF x, y, o
  <2>3. x = y + o
    BY ONLY <2>1, <2>2
  <2> QED BY <2>3 DEF x, y, o
<1>5. ASSUME NEW P PROVE Cnt(K, P) = Cnt(K2, P) + One(k, P)
  <2> DEFINE x == Cnt(K, P)
             y == Cnt(K2, P)
             o == One(k, P)
  <2>1. x \in Nat /\ o \in Nat
    BY <1>0
  <2>2. y = x - o
    BY <1>2
  <2> HIDE DEF x, y, o
  <2>3. x = y + o
    BY ONLY <2>1, <2>2
  <2> QED BY <2>3 DEF x, y, o
<1>6. Grown(E2, K2, E, K, T, u, k)
  BY <1>1, <1>2, <1>3, <1>4, <1>5 DEF Grown
<1> QED BY <1>1, <1>2, <1>6 DEF E2, K2, u, k

LEMMA GrownFromFront ==
  ASSUME NEW T, NEW E \in Seq(Ent), NEW K \in Seq(T), Len(E) > 0, Len(K) > 0
  PROVE  Grown(Front(E), Front(K), E, K, T, Last(E), Last(K)) /\ Last(K) \in T /\ Last(E) \in Ent
<1> DEFINE E2 == Front(E)
           K2 == Front(K)
           u == Last(E)
           k == Last(K)
<1>0. ASSUME NEW S, NEW s \in Seq(S), NEW P PROVE Cnt(s, P) \in Nat /\ \A e : One(e, P) \in Nat
  BY CntType DEF One
<1>1. E2 \in Seq(Ent) /\ Len(E2) = Len(E) - 1 /\ u \in Ent /\ \A P : Cnt(E2, P) = Cnt(E, P) - One(u, P)
  BY FrontFacts
<1>2. K2 \in Seq(T) /\ Len(K2) = Len(K) - 1 /\ k \in T /\ \A P : Cnt(K2, P) = Cnt(K, P) - One(k, P)
  BY FrontFacts
<1> HIDE DEF E2, K2, u, k
<1>3. Len(E) = Len(E2) + 1 /\ Len(K) = Len(K2) + 1
  BY <1>1, <1>2
<1>4. ASSUME NEW P PROVE Cnt(E, P) = Cnt(E2, P) + One(u, P)
  <2> DEFINE x == Cnt(E, P)
             y == Cnt(E2, P)
             o == One(u, P)
  <2>1. x \in Nat /\ o \in Nat
    BY <1>0
  <2>2. y = x - o
    BY <1>1
  <2> HIDE DEF x, y, o
  <2>3. x = y + o
    BY ONLY <2>1, <2>2
  <2> QED BY <2>3 DEF x, y, o
<1>5. ASSUME NEW P PROVE Cnt(K, P) = Cnt(K2, P) + One(k, P)
  <2> DEFINE x == Cnt(K, P)
             y == Cnt(K2, P)
             o == One(k, P)
  <2>1. x \in Nat /\ o \in Nat
    BY <1>0
  <2>2. y = x - o
    BY <1>2
  <2> HIDE DEF x, y, o
  <2>3. x = y + o
    BY ONLY <2>1, <2>2
  <2> QED BY <2>3 DEF x, y, o
<1>6. Grown(E2, K2, E, K, T, u, k)
  BY <1>1, <1>2, <1>3, <1>4, <1>5 DEF Grown
<1> QED BY <1>1, <1>2, <1>6 DEF E2, K2, u, k

\* Two children of block n0, of which nx is short of entries.
Siblings(m, h, B, n0, nx, nz) ==
  /\ nx \in Nat /\ Live(B, nx) /\ nx # Root /\ nx # n0 /\ h[nx] = h[nz] /\ h[n0] = h[nx] + 1
  /\ nz \in Nat /\ Live(B, nz) /\ nz # Root /\ nz # n0 /\ nz # nx
  /\ NodeAt(m, h, Len(B), B[nx], nx, B[nx].leaf, B[nx].ents, B[nx].kids)
  /\ NodeAt(m, h, Len(B), B[nz], nz, B[nz].leaf, B[nz].ents, B[nz].kids)
  /\ NodeAt(m, h, Len(B), B[n0], n0, B[n0].leaf, B[n0].ents, B[n0].kids)

LEMMA SiblingsOf ==
  ASSUME NEW m \in Nat, NEW B, NEW h, Placed(B), TreeOK(m, B, h), NEW n0 \in Nat, Live(B, n0), ~B[n0].leaf,
         NEW i \in 1 .. Len(B[n0].kids), NEW j \in 1 .. Len(B[n0].kids), i # j,
         NEW nx, nx = B[n0].kids[i], NEW nz, nz = B[n0].kids[j]
  PROVE  Siblings(m, h, B, n0, nx, nz)
<1>1. nx \in 1 .. Len(B) /\ h[n0] # 0 /\ h[nx] = h[n0] - 1 /\ Live(B, nx) /\ nx # Root /\ nx # n0
  <2>1w. KidIs(B, h, n0, i)
    BY KidFacts
  <2>1. /\ B[n0].kids[i] \in 1 .. Len(B) /\ h[n0] # 0 /\ h[B[n0].kids[i]] = h[n0] - 1
        /\ Live(B, B[n0].kids[i]) /\ B[n0].kids[i] # Root /\ B[n0].kids[i] # n0
    BY <2>1w DEF KidIs
  <2> QED BY <2>1
<1>2. nz \in 1 .. Len(B) /\ h[nz] = h[n0] - 1 /\ Live(B, nz) /\ nz # Root /\ nz # n0
  <2>1w. KidIs(B, h, n0, j)
    BY KidFacts
  <2>1. /\ B[n0].kids[j] \in 1 .. Len(B) /\ h[n0] # 0 /\ h[B[n0].kids[j]] = h[n0] - 1
        /\ Live(B, B[n0].kids[j]) /\ B[n0].kids[j] # Root /\ B[n0].kids[j] # n0
    BY <2>1w DEF KidIs
  <2> QED BY <2>1
<1>3. nz # nx
  <2>1. B[n0].kids[i] # B[n0].kids[j]
    BY KidsDiffer
  <2> QED BY <2>1
<1>4. nx \in Nat /\ nz \in Nat
  BY <1>1, <1>2
<1>5. NodeAt(m, h, Len(B), B[nx], nx, B[nx].leaf, B[nx].ents, B[nx].kids)
  BY <1>1, <1>4, NodeOf
<1>6. NodeAt(m, h, Len(B), B[nz], nz, B[nz].leaf, B[nz].ents, B[nz].kids)
  BY <1>2, <1>4, NodeOf
<1>7. NodeAt(m, h, Len(B), B[n0], n0, B[n0].leaf, B[n0].ents, B[n0].kids)
  BY NodeOf
<1>8. h[n0] \in Nat
  BY <1>7 DEF NodeAt
<1>9. h[n0] = h[nx] + 1 /\ h[nx] = h[nz]
  <2>1. h[nx] = h[n0] - 1 /\ h[nz] = h[n0] - 1
    BY <1>1, <1>2
  <2> QED BY ONLY <1>8, <2>1
<1> QED BY <1>1, <1>2, <1>3, <1>4, <1>5, <1>6, <1>7, <1>9 DEF Siblings

\* What Enough says of the number of entries.
LEMMA EnoughFacts ==
  ASSUME NEW m \in Nat, m >= 4, m = M, NEW b, Len(b.ents) \in Nat
  PROVE  /\ Enough(b) => Len(b.ents) >= 2
         /\ ~Enough(b) => Len(b.ents) <= ceil(m) /\ Len(b.ents) + 1 <= m
<1>1. ceil(m) \in Nat /\ ceil(m) >= 1 /\ ceil(m) <= m - 3 /\ ceil(m) = ceil(M)
  BY CeilFacts
<1> DEFINE n == Len(b.ents)
           c == ceil(m)
<1>2. n \in Nat /\ c \in Nat /\ c >= 1 /\ c <= m - 3 /\ (Enough(b) <=> n > c)
  BY <1>1 DEF Enough
<1> HIDE DEF n, c
<1>3. /\ Enough(b) => n >= 2
      /\ ~Enough(b) => n <= c /\ n + 1 <= m
  BY ONLY <1>2, m \in Nat
<1> QED BY <1>3 DEF n, c

LEMMA BorrowFromRight ==
  ASSUME NEW m \in Nat, m >= 4, m = M, NEW s, NEW d, NEW B, NEW h, NEW fl, Good(m, d, B, h, fl), Is(m, s, d, d, B),
         NEW n0 \in Nat, Live(B, n0), ~B[n0].leaf, NEW p \in 1 .. Len(B[n0].ents),
         NEW nx, nx = B[n0].kids[p], NEW nz, nz = B[n0].kids[p + 1], ~Enough(B[nx]), Enough(B[nz])
  PROVE  \E C : MovedDone(m, BorrowRight(s, B[n0], p, B[nx], B[nz]), d, B, h, fl, n0, nx, nz, C)
<1>0. Placed(B)
  BY DEF Good
<1>1. TreeOK(m, B, h)
  BY GoodTypes
<1> DEFINE N == Len(B)
           E0 == B[n0].ents
           EX == B[nx].ents
           KX == B[nx].kids
           EZ == B[nz].ents
           KZ == B[nz].kids
           q == p + 1
<1>2. NodeAt(m, h, N, B[n0], n0, B[n0].leaf, E0, B[n0].kids)
  BY <1>0, <1>1, NodeOf
<1>3. p \in 1 .. Len(B[n0].kids) /\ q \in 1 .. Len(B[n0].kids) /\ p # q /\ E0 \in Seq(Ent) /\ p \in 1 .. Len(E0)
  <2>1. Len(B[n0].kids) = Len(E0) + 1 /\ Len(E0) \in Nat /\ E0 \in Seq(Ent)
    BY <1>2 DEF NodeAt
  <2> QED BY <2>1
<1> HIDE DEF q
<1>4. nz = B[n0].kids[q]
  BY DEF q
<1>5. Siblings(m, h, B, n0, nx, nz)
  BY <1>0, <1>1, <1>3, <1>4, SiblingsOf
<1> DEFINE T == Below(h, N, h[nx])
<1>6. EX \in Seq(Ent) /\ Len(EX) \in Nat /\ KX \in Seq(T)
  BY <1>5 DEF Siblings, NodeAt
<1>7. h[nx] = h[nz] /\ EZ \in Seq(Ent) /\ Len(EZ) \in Nat /\ KZ \in Seq(Below(h, N, h[nz])) /\ Len(KZ) = Len(EZ) + 1
  BY <1>5 DEF Siblings, NodeAt
<1>8. KZ \in Seq(T) /\ Len(EX) + 1 <= m /\ Len(EZ) >= 2 /\ Len(EZ) > 0 /\ Len(KZ) > 0
  <2>1. Len(EX) + 1 <= m /\ Len(EZ) >= 2
    BY <1>6, <1>7, EnoughFacts
  <2>2. Len(EZ) > 0 /\ Len(KZ) > 0
    BY ONLY <1>7, <2>1
  <2>3. KZ \in Seq(T)
    BY <1>7
  <2> QED BY <2>1, <2>2, <2>3
<1> DEFINE u == E0[p]
           v == Head(EZ)
           k == Head(KZ)
<1>9. B[nx].self = nx /\ B[nz].self = nz /\ B[n0].self = n0
  BY <1>5 DEF Siblings, NodeAt, KeyFacts
<1>a. T = Below(h, Len(B), h[nx]) /\ T = Below(h, Len(B), h[nz])
  BY <1>7
<1> HIDE DEF T, EX, KX, EZ, KZ, E0, N
<1>10. u \in Ent
  BY <1>3
<1>11. Grown(Tail(EZ), Tail(KZ), EZ, KZ, T, v, k) /\ k \in T
  BY <1>7, <1>8, GrownFromTail
<1>12. Grown(EX, KX, Append(EX, u), Append(KX, k), T, u, k)
  BY <1>6, <1>10, <1>11, GrownByAppend
<1> DEFINE EB == Append(EX, u)
           KB == Append(KX, k)
           EC == Tail(EZ)
           KC == Tail(KZ)
<1>13. Moved(m, h, B, n0, p, nx, EB, KB, nz, EC, KC, v, k)
  <2>1. /\ nx \in Nat /\ Live(B, nx) /\ nx # Root /\ nx # n0 /\ h[nx] = h[nz]
        /\ nz \in Nat /\ Live(B, nz) /\ nz # Root /\ nz # n0 /\ nz # nx
    BY <1>5 DEF Siblings
  <2>2. u = B[n0].ents[p]
    BY DEF E0
  <2>3. Grown(EX, KX, EB, KB, T, u, k) /\ Grown(EC, KC, EZ, KZ, T, v, k)
    BY <1>11, <1>12
  <2> HIDE DEF u, v, k, EB, KB, EC, KC
  <2> QED BY <1>8, <1>a, <2>1, <2>2, <2>3 DEF Moved, EX, KX, EZ, KZ
<1> DEFINE t == node_flush(node_flush(Put(s, MovedUp(B, n0, p, v), TRUE), MovedTo(B, nx, EB, KB)),
                           MovedTo(B, nz, EC, KC))
<1>14. \E C : MovedDone(m, t, d, B, h, fl, n0, nx, nz, C)
  <2> HIDE DEF u, v, k, EB, KB, EC, KC
  <2>1. MoveEnds(m, s, d, B, h, fl, n0, p, nx, EB, KB, nz, EC, KC, v)
    BY ONLY <1>13, MoveEntry, m \in Nat, Good(m, d, B, h, fl), Is(m, s, d, d, B)
  <2> QED BY ONLY <2>1 DEF MoveEnds, t
<1>15. BorrowRight(s, B[n0], p, B[nx], B[nz]) = t
  <2>1. Filled(B[n0], [B[n0].ents EXCEPT ![p] = Head(B[nz].ents)], B[n0].kids) = MovedUp(B, n0, p, v)
    BY <1>9 DEF Filled, MovedUp, EZ
  <2>2. Filled(B[nx], Append(B[nx].ents, B[n0].ents[p]), Append(B[nx].kids, Head(B[nz].kids))) = MovedTo(B, nx, EB, KB)
    BY <1>9 DEF Filled, MovedTo, EX, KX, E0, KZ
  <2>3. Filled(B[nz], Tail(B[nz].ents), Tail(B[nz].kids)) = MovedTo(B, nz, EC, KC)
    BY <1>9 DEF Filled, MovedTo, EZ, KZ
  <2> QED BY <2>1, <2>2, <2>3 DEF BorrowRight
<1> QED BY <1>14, <1>15

LEMMA BorrowFromLeft ==
  ASSUME NEW m \in Nat, m >= 4, m = M, NEW s, NEW d, NEW B, NEW h, NEW fl, Good(m, d, B, h, fl), Is(m, s, d, d, B),
         NEW n0 \in Nat, Live(B, n0), ~B[n0].leaf, NEW p \in 2 .. Len(B[n0].kids),
         NEW nx, nx = B[n0].kids[p], NEW nz, nz = B[n0].kids[p - 1], ~Enough(B[nx]), Enough(B[nz])
  PROVE  \E C : MovedDone(m, BorrowLeft(s, B[n0], p, B[nx], B[nz]), d, B, h, fl, n0, nx, nz, C)
<1>0. Placed(B)
  BY DEF Good
<1>1. TreeOK(m, B, h)
  BY GoodTypes
<1> DEFINE N == Len(B)
           E0 == B[n0].ents
           EX == B[nx].ents
           KX == B[nx].kids
           EZ == B[nz].ents
           KZ == B[nz].kids
           q == p - 1
<1>2. NodeAt(m, h, N, B[n0], n0, B[n0].leaf, E0, B[n0].kids)
  BY <1>0, <1>1, NodeOf
<1>3. p \in 1 .. Len(B[n0].kids) /\ q \in 1 .. Len(B[n0].kids) /\ p # q /\ E0 \in Seq(Ent) /\ q \in 1 .. Len(E0)
  <2>1. Len(B[n0].kids) = Len(E0) + 1 /\ Len(E0) \in Nat /\ E0 \in Seq(Ent)
    BY <1>2 DEF NodeAt
  <2> QED BY <2>1
<1> HIDE DEF q
<1>4. nz = B[n0].kids[q]
  BY DEF q
<1>5. Siblings(m, h, B, n0, nx, nz)
  BY <1>0, <1>1, <1>3, <1>4, SiblingsOf
<1> DEFINE T == Below(h, N, h[nx])
<1>6. EX \in Seq(Ent) /\ Len(EX) \in Nat /\ KX \in Seq(T)
  BY <1>5 DEF Siblings, NodeAt
<1>7. h[nx] = h[nz] /\ EZ \in Seq(Ent) /\ Len(EZ) \in Nat /\ KZ \in Seq(Below(h, N, h[nz])) /\ Len(KZ) = Len(EZ) + 1
  BY <1>5 DEF Siblings, NodeAt
<1>8. KZ \in Seq(T) /\ Len(EX) + 1 <= m /\ Len(EZ) >= 2 /\ Len(EZ) > 0 /\ Len(KZ) > 0
  <2>1. Len(EX) + 1 <= m /\ Len(EZ) >= 2
    BY <1>6, <1>7, EnoughFacts
  <2>2. Len(EZ) > 0 /\ Len(KZ) > 0
    BY ONLY <1>7, <2>1
  <2>3. KZ \in Seq(T)
    BY <1>7
  <2> QED BY <2>1, <2>2, <2>3
<1> DEFINE u == E0[q]
           v == Last(EZ)
           k == Last(KZ)
<1>9. B[nx].self = nx /\ B[nz].self = nz /\ B[n0].self = n0
  BY <1>5 DEF Siblings, NodeAt, KeyFacts
<1>a. T = Below(h, Len(B), h[nx]) /\ T = Below(h, Len(B), h[nz])
  BY <1>7
<1> HIDE DEF T, EX, KX, EZ, KZ, E0, N
<1>10. u \in Ent
  BY <1>3
<1>11. Grown(Front(EZ), Front(KZ), EZ, KZ, T, v, k) /\ k \in T
  BY <1>7, <1>8, GrownFromFront
<1>12. Grown(EX, KX, <<u>> \o EX, <<k>> \o KX, T, u, k)
  BY <1>6, <1>10, <1>11, GrownByPrepend
<1> DEFINE EB == <<u>> \o EX
           KB == <<k>> \o KX
           EC == Front(EZ)
           KC == Front(KZ)
<1>13. Moved(m, h, B, n0, q, nx, EB, KB, nz, EC, KC, v, k)
  <2>1. /\ nx \in Nat /\ Live(B, nx) /\ nx # Root /\ nx # n0 /\ h[nx] = h[nz]
        /\ nz \in Nat /\ Live(B, nz) /\ nz # Root /\ nz # n0 /\ nz # nx
    BY <1>5 DEF Siblings
  <2>2. u = B[n0].ents[q] /\ q \in 1 .. Len(B[n0].ents)
    BY <1>3 DEF E0
  <2>3. Grown(EX, KX, EB, KB, T, u, k) /\ Grown(EC, KC, EZ, KZ, T, v, k)
    BY <1>11, <1>12
  <2> HIDE DEF u, v, k, EB, KB, EC, KC
  <2> QED BY <1>8, <1>a, <2>1, <2>2, <2>3 DEF Moved, EX, KX, EZ, KZ
<1> DEFINE t == node_flush(node_flush(Put(s, MovedUp(B, n0, q, v), TRUE), MovedTo(B, nx, EB, KB)),
                           MovedTo(B, nz, EC, KC))
<1>14. \E C : MovedDone(m, t, d, B, h, fl, n0, nx, nz, C)
  <2> HIDE DEF u, v, k, EB, KB, EC, KC
  <2>1. MoveEnds(m, s, d, B, h, fl, n0, q, nx, EB, KB, nz, EC, KC, v)
    BY ONLY <1>13, MoveEntry, m \in Nat, Good(m, d, B, h, fl), Is(m, s, d, d, B)
  <2> QED BY ONLY <2>1 DEF MoveEnds, t
<1>15. BorrowLeft(s, B[n0], p, B[nx], B[nz]) = t
  <2>0. p - 1 = q
    BY DEF q
  <2>1. Filled(B[n0], [B[n0].ents EXCEPT ![p - 1] = Last(B[nz].ents)], B[n0].kids) = MovedUp(B, n0, q, v)
    BY <1>9, <2>0 DEF Filled, MovedUp, EZ
  <2>2. Filled(B[nx], <<B[n0].ents[p - 1]>> \o B[nx].ents, <<Last(B[nz].kids)>> \o B[nx].kids) = MovedTo(B, nx, EB, KB)
    BY <1>9, <2>0 DEF Filled, MovedTo, EX, KX, E0, KZ
  <2>3. Filled(B[nz], Front(B[nz].ents), Front(B[nz].kids)) = MovedTo(B, nz, EC, KC)
    BY <1>9 DEF Filled, MovedTo, EZ, KZ
  <2> QED BY <2>1, <2>2, <2>3 DEF BorrowLeft
<1> QED BY <1>14, <1>15
=============================================================================
