--------------------------- MODULE TFParserProofs ---------------------------
(***************************************************************************)
(* The parser of tf_demo/TinyFrame.c, for bytes and fields of any width,   *)
(* payloads of any length, any timeout and any checksum of one byte: its   *)
(* fields keep their widths, it delivers nothing but the frames that       *)
(* arrived, every frame that arrives unharmed while it waits for one, and  *)
(* no frame with one changed byte.                                         *)
(***************************************************************************)
EXTENDS TFParser, WellFoundedInduction, TLAPS

-----------------------------------------------------------------------------
(* Induction, with sets of numbers in the place of predicates. *)

LEMMA LeastNumber ==
  ASSUME NEW S, S \subseteq Nat, S # {}
  PROVE  \E x \in S : \A y \in S : x <= y
<1> DEFINE R == OpToRel(<, Nat)
<1>1. IsWellFoundedOn(R, Nat)
  BY NatLessThanWellFounded
<1>2. \A x, y \in Nat : <<y, x>> \in R <=> y < x
  BY DEF OpToRel
<1> HIDE DEF R
<1>3. PICK x \in S : \A y \in S : <<y, x>> \notin R
  BY <1>1, WFMin
<1>4. ASSUME NEW y \in S PROVE x <= y
  <2>1. x \in Nat /\ y \in Nat /\ ~(y < x)
    BY <1>2, <1>3
  <2> QED BY <2>1
<1> QED BY <1>4

LEMMA SetInduction ==
  ASSUME NEW S, 0 \in S, \A n \in Nat : n \in S => n + 1 \in S
  PROVE  Nat \subseteq S
<1> SUFFICES ASSUME Nat \ S # {} PROVE FALSE
  OBVIOUS
<1>1. PICK x \in Nat \ S : \A y \in Nat \ S : x <= y
  BY LeastNumber
<1>2. x - 1 \in Nat /\ x - 1 \notin S
  BY <1>1
<1> QED BY <1>1, <1>2

-----------------------------------------------------------------------------
(* Powers of Base. *)

\* f[k] is the k-th power, for k up to n.
Powers(n, f) == f = [k \in 0 .. n |-> IF k = 0 THEN 1 ELSE f[k - 1] * Base]

LEMMA PowersStep ==
  ASSUME NEW n \in Nat, NEW f, Powers(n, f), NEW k \in Nat, k + 1 <= n
  PROVE  f[k + 1] = f[k] * Base
<1>1. k + 1 \in 0 .. n /\ k + 1 # 0 /\ (k + 1) - 1 = k
  OBVIOUS
<1> QED BY <1>1 DEF Powers

LEMMA PowersExist == \A n \in Nat : \E f : Powers(n, f)
<1> DEFINE S == {n \in Nat : \E f : Powers(n, f)}
<1>1. 0 \in S
  <2>1. Powers(0, [k \in 0 .. 0 |-> 1])
    BY DEF Powers
  <2> QED BY <2>1
<1>2. ASSUME NEW n \in Nat, n \in S PROVE n + 1 \in S
  <2>1. PICK f : Powers(n, f)
    BY <1>2
  <2> DEFINE g == [k \in 0 .. n + 1 |-> IF k = n + 1 THEN f[n] * Base ELSE f[k]]
  <2>2. Powers(n + 1, g)
    <3> DEFINE next == f[n] * Base
    <3>1. /\ g = [k \in 0 .. n + 1 |-> IF k = n + 1 THEN next ELSE f[k]]
          /\ next = f[n] * Base
      OBVIOUS
    <3> HIDE DEF g, next
    <3>2. \A k \in 0 .. n + 1 : k # n + 1 => k \in 0 .. n /\ g[k] = f[k]
      BY <3>1
    <3>3. \A k \in 0 .. n + 1 : g[k] = IF k = 0 THEN 1 ELSE g[k - 1] * Base
      <4> SUFFICES ASSUME NEW k \in 0 .. n + 1
                   PROVE  g[k] = IF k = 0 THEN 1 ELSE g[k - 1] * Base
        OBVIOUS
      <4>1. CASE k = n + 1
        <5>1. k # 0 /\ k - 1 = n /\ n \in 0 .. n + 1 /\ n # n + 1
          BY <4>1
        <5> QED BY <3>1, <3>2, <4>1, <5>1
      <4>2. CASE k # n + 1
        <5>1. k \in 0 .. n /\ g[k] = f[k] /\ f[k] = IF k = 0 THEN 1 ELSE f[k - 1] * Base
          BY <2>1, <3>2, <4>2 DEF Powers
        <5>2. k # 0 => k - 1 \in 0 .. n + 1 /\ k - 1 # n + 1
          BY <5>1
        <5> QED BY <3>2, <5>1, <5>2
      <4> QED BY <4>1, <4>2
    <3> QED BY <3>1, <3>3 DEF Powers
  <2> QED BY <2>2
<1>3. Nat \subseteq S
  <2> HIDE DEF S
  <2> QED BY <1>1, <1>2, SetInduction
<1> QED BY <1>3

LEMMA PowersAgree ==
  ASSUME NEW m \in Nat, NEW n \in Nat, m <= n, NEW f, Powers(m, f), NEW g, Powers(n, g)
  PROVE  f[m] = g[m] /\ f[m] \in Nat \ {0}
<1> DEFINE S == {k \in Nat : k <= m => f[k] = g[k] /\ f[k] \in Nat \ {0}}
<1>1. 0 \in S
  BY DEF Powers
<1>2. ASSUME NEW k \in Nat, k \in S, k + 1 <= m
      PROVE  f[k + 1] = g[k + 1] /\ f[k + 1] \in Nat \ {0}
  <2>1. f[k] = g[k] /\ f[k] \in Nat \ {0} /\ Base \in Nat \ {0}
    BY <1>2, FormatAssumption
  <2>2. f[k + 1] = f[k] * Base
    BY <1>2, PowersStep
  <2>3. g[k + 1] = g[k] * Base
    BY <1>2, PowersStep
  <2>4. f[k] * Base \in Nat \ {0}
    BY <2>1
  <2> QED BY <2>1, <2>2, <2>3, <2>4
<1>3. Nat \subseteq S
  <2>1. \A k \in Nat : k \in S => k + 1 \in S
    BY <1>2
  <2> HIDE DEF S
  <2> QED BY <1>1, <2>1, SetInduction
<1> QED BY <1>3

LEMMA PowIs ==
  ASSUME NEW n \in Nat
  PROVE  \E f : Powers(n, f) /\ Pow(n) = f[n]
<1>1. PICK f : Powers(n, f)
  BY PowersExist
<1> QED BY <1>1 DEF Powers, Pow

LEMMA PowType == \A n \in Nat : Pow(n) \in Nat \ {0}
<1> SUFFICES ASSUME NEW n \in Nat PROVE Pow(n) \in Nat \ {0}
  OBVIOUS
<1>1. PICK f : Powers(n, f) /\ Pow(n) = f[n]
  BY PowIs
<1> QED BY <1>1, PowersAgree

LEMMA PowZero == Pow(0) = 1
<1>1. PICK f : Powers(0, f) /\ Pow(0) = f[0]
  BY PowIs
<1> QED BY <1>1 DEF Powers

LEMMA PowNext == \A n \in Nat : Pow(n + 1) = Pow(n) * Base
<1> SUFFICES ASSUME NEW n \in Nat PROVE Pow(n + 1) = Pow(n) * Base
  OBVIOUS
<1>1. PICK f : Powers(n, f) /\ Pow(n) = f[n]
  BY PowIs
<1>2. PICK g : Powers(n + 1, g) /\ Pow(n + 1) = g[n + 1]
  BY PowIs
<1>3. f[n] = g[n]
  BY <1>1, <1>2, PowersAgree
<1>4. g[n + 1] = g[n] * Base
  BY <1>2, PowersStep
<1> QED BY <1>1, <1>2, <1>3, <1>4

\* More bytes hold more numbers, and at least as many as there are bytes.
LEMMA PowGrows ==
  /\ \A m, n \in Nat : m <= n => Pow(m) <= Pow(n)
  /\ \A n \in Nat : n < Pow(n)
<1>1. ASSUME NEW n \in Nat PROVE Pow(n + 1) >= Pow(n) + 1 /\ Pow(n) \in Nat
  <2>1. Pow(n) \in Nat \ {0} /\ Base \in Nat /\ Base >= 2 /\ Pow(n + 1) = Pow(n) * Base
    BY PowType, PowNext, FormatAssumption
  <2>2. Pow(n) * Base = 2 * Pow(n) + Pow(n) * (Base - 2) /\ Pow(n) * (Base - 2) \in Nat
    BY <2>1
  <2> DEFINE a == Pow(n)
             r == Pow(n) * (Base - 2)
  <2>3. a \in Nat \ {0} /\ r \in Nat /\ Pow(n + 1) = 2 * a + r
    BY <2>1, <2>2
  <2> HIDE DEF a, r
  <2>4. Pow(n + 1) >= a + 1 /\ a \in Nat
    BY <2>3
  <2> QED BY <2>4 DEF a
<1>2. ASSUME NEW m \in Nat, NEW n \in Nat, m <= n PROVE Pow(m) <= Pow(n)
  <2> DEFINE S == {k \in Nat : Pow(m) <= Pow(m + k)}
  <2>1. 0 \in S
    BY PowType
  <2>2. ASSUME NEW k \in Nat, k \in S PROVE k + 1 \in S
    <3>1. m + k \in Nat /\ m + (k + 1) = (m + k) + 1
      OBVIOUS
    <3>2. Pow((m + k) + 1) >= Pow(m + k) + 1 /\ Pow(m + k) \in Nat
      BY <1>1, <3>1
    <3>3. Pow(m) \in Nat /\ Pow((m + k) + 1) \in Nat
      BY <3>1, PowType
    <3> QED BY <2>2, <3>1, <3>2, <3>3
  <2>3. Nat \subseteq S
    <3> HIDE DEF S
    <3> QED BY <2>1, <2>2, SetInduction
  <2>4. n - m \in Nat /\ m + (n - m) = n
    BY <1>2
  <2> QED BY <2>3, <2>4
<1>3. ASSUME NEW n \in Nat PROVE n < Pow(n)
  <2> DEFINE S == {k \in Nat : k < Pow(k)}
  <2>1. 0 \in S
    BY PowZero
  <2>2. ASSUME NEW k \in Nat, k \in S PROVE k + 1 \in S
    <3>1. Pow(k + 1) \in Nat
      BY PowType
    <3> QED BY <1>1, <2>2, <3>1
  <2>3. Nat \subseteq S
    <3> HIDE DEF S
    <3> QED BY <2>1, <2>2, SetInduction
  <2> QED BY <2>3
<1> QED BY <1>2, <1>3

-----------------------------------------------------------------------------
(* The bytes of numbers. *)

LEMMA DivShift ==
  ASSUME NEW a \in Nat, NEW c \in Nat, NEW b \in Nat, NEW q \in Nat, c < b, q > 0
  PROVE  (a * b + c) \div (q * b) = a \div q
OBVIOUS

LEMMA ModShift ==
  ASSUME NEW a \in Nat, NEW c \in Nat, NEW b \in Nat, c < b
  PROVE  (a * b + c) % b = c
OBVIOUS

LEMMA DivMod ==
  ASSUME NEW a \in Nat, NEW b \in Nat \ {0}
  PROVE  a = (a \div b) * b + (a % b) /\ a \div b \in Nat /\ a % b \in 0 .. b - 1
<1>1. a \div b \in Nat
  OBVIOUS
<1>2. a % b \in 0 .. b - 1
  OBVIOUS
<1>3. a = b * (a \div b) + (a % b)
  OBVIOUS
<1>4. b * (a \div b) = (a \div b) * b
  BY <1>1
<1> QED BY <1>1, <1>2, <1>3, <1>4

LEMMA WriteNumType ==
  ASSUME NEW x \in Nat, NEW w \in Nat
  PROVE  WriteNum(x, w) \in Seq(Byte) /\ Len(WriteNum(x, w)) = w
<1>1. \A k \in 1 .. w : (x \div Pow(w - k)) % Base \in Byte
  <2> SUFFICES ASSUME NEW k \in 1 .. w PROVE (x \div Pow(w - k)) % Base \in Byte
    OBVIOUS
  <2>1. Pow(w - k) \in Nat \ {0} /\ Base \in Nat \ {0}
    BY PowType, FormatAssumption
  <2>2. x \div Pow(w - k) \in Nat
    BY <2>1, DivMod
  <2> QED BY <2>1, <2>2, DivMod DEF Byte
<1>2. WriteNum(x, w) \in [1 .. w -> Byte]
  BY <1>1 DEF WriteNum
<1> QED BY <1>2

\* A byte shifted into a number is written behind the others.
LEMMA WriteNumNext ==
  ASSUME NEW x \in Nat, NEW c \in Byte, NEW k \in Nat
  PROVE  WriteNum(x * Base + c, k + 1) = Append(WriteNum(x, k), c)
<1> DEFINE y == x * Base + c
           s == WriteNum(y, k + 1)
           t == Append(WriteNum(x, k), c)
<1>0. Base \in Nat \ {0} /\ c \in Nat /\ c < Base /\ y \in Nat
  BY FormatAssumption DEF Byte
<1>1. s \in Seq(Byte) /\ Len(s) = k + 1
  BY <1>0, WriteNumType
<1>2. /\ t \in Seq(Byte) /\ Len(t) = k + 1 /\ t[k + 1] = c
      /\ \A j \in 1 .. k : t[j] = WriteNum(x, k)[j]
  <2> DEFINE u == WriteNum(x, k)
  <2>1. u \in Seq(Byte) /\ Len(u) = k
    BY WriteNumType
  <2> HIDE DEF u
  <2>2. Append(u, c) \in Seq(Byte) /\ Len(Append(u, c)) = k + 1 /\ Append(u, c)[k + 1] = c
    BY <2>1
  <2>3. \A j \in 1 .. k : Append(u, c)[j] = u[j]
    BY <2>1
  <2> QED BY <2>2, <2>3 DEF u
<1>3. ASSUME NEW j \in 1 .. k PROVE s[j] = t[j]
  <2>1. /\ k - j \in Nat /\ (k + 1) - j = (k - j) + 1 /\ j \in 1 .. k + 1
        /\ Pow(k - j) \in Nat /\ Pow(k - j) > 0
    BY PowType
  <2>2. Pow((k + 1) - j) = Pow(k - j) * Base
    BY <2>1, PowNext
  <2>3. y \div Pow((k + 1) - j) = x \div Pow(k - j)
    <3> DEFINE q == Pow(k - j)
    <3>1. q \in Nat /\ q > 0
      BY <2>1
    <3> HIDE DEF q
    <3>2. (x * Base + c) \div (q * Base) = x \div q
      BY <1>0, <3>1, DivShift
    <3> QED BY <2>2, <3>2 DEF q
  <2>4. s[j] = (y \div Pow((k + 1) - j)) % Base
    BY <2>1 DEF WriteNum
  <2>5. WriteNum(x, k)[j] = (x \div Pow(k - j)) % Base
    BY DEF WriteNum
  <2> QED BY <1>2, <2>3, <2>4, <2>5
<1>4. s[k + 1] = c
  <2>1. k + 1 \in 1 .. k + 1 /\ (k + 1) - (k + 1) = 0
    OBVIOUS
  <2>2. s[k + 1] = (y \div Pow(0)) % Base
    BY <2>1 DEF WriteNum
  <2>3. y \div 1 = y
    BY <1>0
  <2>4. y % Base = c
    BY <1>0, ModShift
  <2> QED BY <2>2, <2>3, <2>4, PowZero
<1> HIDE DEF s, t
<1>5. s = t
  <2>1. \A j \in 1 .. k + 1 : s[j] = t[j]
    BY <1>2, <1>3, <1>4
  <2> QED BY <1>1, <1>2, <2>1
<1> QED BY <1>5 DEF s, t

\* COLLECT_NUMBER loses nothing as long as the number is not complete.
LEMMA CollectFits ==
  ASSUME NEW w \in Nat, NEW k \in Nat, k + 1 <= w, NEW x \in 0 .. Pow(k) - 1, NEW c \in Byte
  PROVE  /\ Collect(x, c, w) = x * Base + c
         /\ Collect(x, c, w) \in 0 .. Pow(k + 1) - 1
<1> DEFINE y == x * Base + c
<1>1. /\ Base \in Nat \ {0} /\ c \in Nat /\ c < Base /\ y \in Nat /\ x \in Nat
      /\ Pow(k) \in Nat /\ Pow(k + 1) \in Nat /\ Pow(w) \in Nat \ {0}
      /\ Pow(k + 1) = Pow(k) * Base /\ x <= Pow(k) - 1 /\ Pow(k + 1) <= Pow(w)
  <2>1. Base \in Nat \ {0} /\ c \in Nat /\ c < Base /\ x \in Nat /\ k + 1 \in Nat
    BY FormatAssumption, PowType DEF Byte
  <2>2. y \in Nat
    BY <2>1
  <2>3. Pow(k) \in Nat /\ Pow(k + 1) \in Nat /\ Pow(w) \in Nat \ {0}
    BY <2>1, PowType
  <2>4. Pow(k + 1) = Pow(k) * Base /\ Pow(k + 1) <= Pow(w)
    BY <2>1, PowNext, PowGrows
  <2>5. x <= Pow(k) - 1
    BY <2>3
  <2> QED BY <2>1, <2>2, <2>3, <2>4, <2>5
<1>2. y < Pow(k + 1)
  <2>1. Pow(k) * Base = x * Base + Base + (Pow(k) - 1 - x) * Base
    BY <1>1
  <2>2. (Pow(k) - 1 - x) * Base \in Nat
    BY <1>1
  <2> DEFINE r == (Pow(k) - 1 - x) * Base
             z == x * Base
  <2>3. r \in Nat /\ z \in Nat /\ Pow(k + 1) = z + Base + r /\ y = z + c
    BY <1>1, <2>1, <2>2
  <2> HIDE DEF r, z, y
  <2> QED BY <1>1, <2>3
<1> HIDE DEF y
<1>3. y % Pow(w) = y
  BY <1>1, <1>2
<1> QED BY <1>1, <1>2, <1>3 DEF Collect, y

\* Different numbers have different bytes.
LEMMA WriteNumInjective ==
  ASSUME NEW w \in Nat, NEW x \in 0 .. Pow(w) - 1, NEW y \in 0 .. Pow(w) - 1,
         WriteNum(x, w) = WriteNum(y, w)
  PROVE  x = y
<1> DEFINE Same(k) == \A a, b \in 0 .. Pow(k) - 1 : WriteNum(a, k) = WriteNum(b, k) => a = b
           S == {k \in Nat : Same(k)}
<1>1. 0 \in S
  BY PowZero
<1>2. ASSUME NEW k \in Nat, k \in S PROVE k + 1 \in S
  <2> SUFFICES ASSUME NEW a \in 0 .. Pow(k + 1) - 1, NEW b \in 0 .. Pow(k + 1) - 1,
                      WriteNum(a, k + 1) = WriteNum(b, k + 1)
               PROVE  a = b
    OBVIOUS
  <2>1. /\ Base \in Nat \ {0} /\ Pow(k) \in Nat /\ Pow(k + 1) = Pow(k) * Base
        /\ Pow(k + 1) \in Nat
    BY FormatAssumption, PowType, PowNext
  <2>2. ASSUME NEW n \in 0 .. Pow(k + 1) - 1
        PROVE  /\ n \div Base \in 0 .. Pow(k) - 1 /\ n % Base \in Byte
               /\ n = (n \div Base) * Base + (n % Base)
               /\ WriteNum(n, k + 1) = Append(WriteNum(n \div Base, k), n % Base)
    <3>1. n \in Nat /\ n < Pow(k) * Base
      BY <2>1
    <3>2. n = (n \div Base) * Base + (n % Base) /\ n \div Base \in Nat /\ n % Base \in Byte
      BY <2>1, <3>1, DivMod DEF Byte
    <3>3. n \div Base < Pow(k)
      <4> SUFFICES ASSUME n \div Base >= Pow(k) PROVE FALSE
        BY <2>1, <3>2
      <4> DEFINE d == n \div Base
      <4>1. d * Base = Pow(k) * Base + (d - Pow(k)) * Base /\ (d - Pow(k)) * Base \in Nat
        BY <2>1, <3>2
      <4>2. n >= d * Base
        BY <2>1, <3>2 DEF Byte
      <4> DEFINE r == (d - Pow(k)) * Base
                 z == Pow(k) * Base
                 u == d * Base
      <4>3. u = z + r /\ r \in Nat /\ z \in Nat /\ n >= u /\ n < z /\ n \in Nat
        BY <2>1, <3>1, <4>1, <4>2
      <4> HIDE DEF r, z, u
      <4> QED BY <4>3
    <3>4. WriteNum(n, k + 1) = Append(WriteNum(n \div Base, k), n % Base)
      <4> DEFINE d == n \div Base
                 r == n % Base
      <4>1. n = d * Base + r /\ d \in Nat /\ r \in Byte
        BY <3>2
      <4> HIDE DEF d, r
      <4>2. WriteNum(d * Base + r, k + 1) = Append(WriteNum(d, k), r)
        BY <4>1, WriteNumNext
      <4>3. WriteNum(n, k + 1) = Append(WriteNum(d, k), r)
        BY <4>1, <4>2
      <4> QED BY <4>3 DEF d, r
    <3> QED BY <2>1, <3>2, <3>3, <3>4
  <2>3. /\ WriteNum(a \div Base, k) \in Seq(Byte) /\ WriteNum(b \div Base, k) \in Seq(Byte)
        /\ Append(WriteNum(a \div Base, k), a % Base) = Append(WriteNum(b \div Base, k), b % Base)
    <3>1. a \div Base \in Nat /\ b \div Base \in Nat
      <4>1. a \in Nat /\ b \in Nat
        BY <2>1
      <4> QED BY <2>1, <4>1, DivMod
    <3> QED BY <2>2, <3>1, WriteNumType
  <2>4. WriteNum(a \div Base, k) = WriteNum(b \div Base, k) /\ a % Base = b % Base
    <3> DEFINE s == WriteNum(a \div Base, k)
               t == WriteNum(b \div Base, k)
    <3>1. s \in Seq(Byte) /\ t \in Seq(Byte) /\ Append(s, a % Base) = Append(t, b % Base)
      BY <2>3
    <3> HIDE DEF s, t
    <3>2. s = t /\ a % Base = b % Base
      <4>1. Len(s) = Len(t)
        BY <3>1
      <4> QED BY <3>1, <4>1
    <3> QED BY <3>2 DEF s, t
  <2>5. a \div Base = b \div Base
    BY <1>2, <2>2, <2>4
  <2>6. a = (a \div Base) * Base + (a % Base) /\ b = (b \div Base) * Base + (b % Base)
    BY <2>2
  <2> QED BY <2>4, <2>5, <2>6, Zenon
<1>3. Nat \subseteq S
  <2> HIDE DEF S
  <2> QED BY <1>1, <1>2, SetInduction
<1> QED BY <1>3

-----------------------------------------------------------------------------
(* The checksum of a sequence of bytes. *)

\* f[k] is what the checksum functions make of the first k bytes of s.
Sums(s, n, f) ==
  f = [k \in 0 .. n |-> IF k = 0 THEN TF_CksumStart ELSE TF_CksumAdd(f[k - 1], s[k])]

LEMMA SumsStep ==
  ASSUME NEW s, NEW n \in Nat, NEW f, Sums(s, n, f), NEW k \in Nat, k + 1 <= n
  PROVE  f[k + 1] = TF_CksumAdd(f[k], s[k + 1])
<1>1. k + 1 \in 0 .. n /\ k + 1 # 0 /\ (k + 1) - 1 = k
  OBVIOUS
<1> QED BY <1>1 DEF Sums

LEMMA SumsExist == \A s : \A n \in Nat : \E f : Sums(s, n, f)
<1> SUFFICES ASSUME NEW s PROVE \A n \in Nat : \E f : Sums(s, n, f)
  OBVIOUS
<1> DEFINE S == {n \in Nat : \E f : Sums(s, n, f)}
<1>1. 0 \in S
  <2>1. Sums(s, 0, [k \in 0 .. 0 |-> TF_CksumStart])
    BY DEF Sums
  <2> QED BY <2>1
<1>2. ASSUME NEW n \in Nat, n \in S PROVE n + 1 \in S
  <2>1. PICK f : Sums(s, n, f)
    BY <1>2
  <2> DEFINE next == TF_CksumAdd(f[n], s[n + 1])
             g == [k \in 0 .. n + 1 |-> IF k = n + 1 THEN next ELSE f[k]]
  <2>2. Sums(s, n + 1, g)
    <3>1. /\ g = [k \in 0 .. n + 1 |-> IF k = n + 1 THEN next ELSE f[k]]
          /\ next = TF_CksumAdd(f[n], s[n + 1])
      OBVIOUS
    <3> HIDE DEF g, next
    <3>2. \A k \in 0 .. n + 1 : k # n + 1 => k \in 0 .. n /\ g[k] = f[k]
      BY <3>1
    <3>3. \A k \in 0 .. n + 1 : g[k] = IF k = 0 THEN TF_CksumStart ELSE TF_CksumAdd(g[k - 1], s[k])
      <4> SUFFICES ASSUME NEW k \in 0 .. n + 1
                   PROVE  g[k] = IF k = 0 THEN TF_CksumStart ELSE TF_CksumAdd(g[k - 1], s[k])
        OBVIOUS
      <4>1. CASE k = n + 1
        <5>1. k # 0 /\ k - 1 = n /\ n \in 0 .. n + 1 /\ n # n + 1
          BY <4>1
        <5> QED BY <3>1, <3>2, <4>1, <5>1
      <4>2. CASE k # n + 1
        <5>1. /\ k \in 0 .. n /\ g[k] = f[k]
              /\ f[k] = IF k = 0 THEN TF_CksumStart ELSE TF_CksumAdd(f[k - 1], s[k])
          BY <2>1, <3>2, <4>2 DEF Sums
        <5>2. k # 0 => k - 1 \in 0 .. n + 1 /\ k - 1 # n + 1
          BY <5>1
        <5> QED BY <3>2, <5>1, <5>2
      <4> QED BY <4>1, <4>2
    <3> QED BY <3>1, <3>3 DEF Sums
  <2> QED BY <2>2
<1>3. Nat \subseteq S
  <2> HIDE DEF S
  <2> QED BY <1>1, <1>2, SetInduction
<1> QED BY <1>3

\* Sums of sequences with a common prefix agree on it.
LEMMA SumsAgree ==
  ASSUME NEW s, NEW t, NEW m \in Nat, NEW n \in Nat, m <= n,
         \A k \in 1 .. m : s[k] = t[k] /\ s[k] \in Byte,
         NEW f, Sums(s, m, f), NEW g, Sums(t, n, g)
  PROVE  f[m] = g[m] /\ f[m] \in Byte
<1> DEFINE S == {k \in Nat : k <= m => f[k] = g[k] /\ f[k] \in Byte}
<1>1. 0 \in S
  <2>1. 0 \in Byte
    BY FormatAssumption DEF Byte
  <2> QED BY <2>1 DEF Sums, TF_CksumStart
<1>2. ASSUME NEW k \in Nat, k \in S, k + 1 <= m
      PROVE  f[k + 1] = g[k + 1] /\ f[k + 1] \in Byte
  <2>1. f[k] = g[k] /\ f[k] \in Byte /\ s[k + 1] = t[k + 1] /\ s[k + 1] \in Byte
    BY <1>2
  <2>2. f[k + 1] = TF_CksumAdd(f[k], s[k + 1])
    BY <1>2, SumsStep
  <2>3. g[k + 1] = TF_CksumAdd(g[k], t[k + 1])
    BY <1>2, SumsStep
  <2> QED BY <2>1, <2>2, <2>3, CksumAssumption
<1>3. Nat \subseteq S
  <2>1. \A k \in Nat : k \in S => k + 1 \in S
    BY <1>2
  <2> HIDE DEF S
  <2> QED BY <1>1, <2>1, SetInduction
<1> QED BY <1>3

LEMMA CksumIs ==
  ASSUME NEW s \in Seq(Byte)
  PROVE  \E f : Sums(s, Len(s), f) /\ CksumAdded(s) = f[Len(s)]
<1>0. Len(s) \in Nat
  OBVIOUS
<1>1. PICK f : Sums(s, Len(s), f)
  BY <1>0, SumsExist, Zenon
<1> QED BY <1>1 DEF Sums, CksumAdded

\* A checksum is one byte; each byte more is one step more.
LEMMA CksumFacts ==
  /\ CksumAdded(<<>>) = TF_CksumStart
  /\ \A s \in Seq(Byte) : CksumAdded(s) \in Byte /\ Cksum(s) \in Byte
  /\ \A s \in Seq(Byte) : \A c \in Byte :
       CksumAdded(Append(s, c)) = TF_CksumAdd(CksumAdded(s), c)
<1>1. CksumAdded(<<>>) = TF_CksumStart
  <2>1. <<>> \in Seq(Byte) /\ Len(<<>>) = 0
    OBVIOUS
  <2>2. PICK f : Sums(<<>>, 0, f) /\ CksumAdded(<<>>) = f[0]
    BY <2>1, CksumIs
  <2> QED BY <2>2 DEF Sums
<1>2. ASSUME NEW s \in Seq(Byte) PROVE CksumAdded(s) \in Byte /\ Cksum(s) \in Byte
  <2>1. PICK f : Sums(s, Len(s), f) /\ CksumAdded(s) = f[Len(s)]
    BY CksumIs
  <2>2. f[Len(s)] \in Byte
    <3>1. Len(s) \in Nat /\ \A k \in 1 .. Len(s) : s[k] = s[k] /\ s[k] \in Byte
      OBVIOUS
    <3> QED BY <2>1, <3>1, SumsAgree
  <2> QED BY <2>1, <2>2, CksumAssumption DEF Cksum
<1>3. ASSUME NEW s \in Seq(Byte), NEW c \in Byte
      PROVE  CksumAdded(Append(s, c)) = TF_CksumAdd(CksumAdded(s), c)
  <2> DEFINE t == Append(s, c)
             n == Len(s)
  <2>1. /\ t \in Seq(Byte) /\ Len(t) = n + 1 /\ t[n + 1] = c /\ n \in Nat
        /\ \A k \in 1 .. n : s[k] = t[k] /\ s[k] \in Byte
    OBVIOUS
  <2>2. PICK f : Sums(s, n, f) /\ CksumAdded(s) = f[n]
    BY CksumIs
  <2> HIDE DEF t
  <2>3. PICK g : Sums(t, n + 1, g) /\ CksumAdded(t) = g[n + 1]
    BY <2>1, CksumIs
  <2> HIDE DEF n
  <2>4. f[n] = g[n]
    BY <2>1, <2>2, <2>3, SumsAgree
  <2>5. g[n + 1] = TF_CksumAdd(g[n], t[n + 1])
    BY <2>1, <2>3, SumsStep
  <2>6. CksumAdded(t) = TF_CksumAdd(CksumAdded(s), c)
    BY <2>1, <2>2, <2>3, <2>4, <2>5
  <2> QED BY <2>6 DEF t
<1> QED BY <1>1, <1>2, <1>3

-----------------------------------------------------------------------------
(* The frame, byte by byte. *)

LEMMA AppendConcat ==
  ASSUME NEW a \in Seq(Byte), NEW b \in Seq(Byte), NEW c \in Byte
  PROVE  Append(a \o b, c) = a \o Append(b, c)
<1> DEFINE s == Append(a \o b, c)
           t == a \o Append(b, c)
<1>1. s \in Seq(Byte) /\ t \in Seq(Byte) /\ Len(s) = Len(t) /\ Len(s) = Len(a) + Len(b) + 1
  OBVIOUS
<1>2. ASSUME NEW i \in 1 .. Len(s) PROVE s[i] = t[i]
  BY <1>1
<1> HIDE DEF s, t
<1>3. s = t
  <2>1. s \in Seq(Byte) /\ t \in Seq(Byte) /\ Len(s) = Len(t)
    BY <1>1
  <2>2. \A i \in 1 .. Len(s) : s[i] = t[i]
    BY <1>2
  <2> QED BY <2>1, <2>2
<1> QED BY <1>3 DEF s, t

LEMMA ConcatEmpty ==
  ASSUME NEW a \in Seq(Byte)
  PROVE  a \o <<>> = a
OBVIOUS

LEMMA WriteNothing == \A x \in Nat : WriteNum(x, 0) = <<>>
<1> SUFFICES ASSUME NEW x \in Nat PROVE WriteNum(x, 0) = <<>>
  OBVIOUS
<1>1. WriteNum(x, 0) \in Seq(Byte) /\ Len(WriteNum(x, 0)) = 0
  BY WriteNumType
<1> QED BY <1>1

\* A byte behind the bytes a and the first k bytes of a field of w bytes is
\* the next byte of that field.
LEMMA FieldStep ==
  ASSUME NEW a \in Seq(Byte), NEW w \in Nat, NEW k \in Nat, k + 1 <= w,
         NEW x \in 0 .. Pow(k) - 1, NEW c \in Byte
  PROVE  /\ Append(a \o WriteNum(x, k), c) = a \o WriteNum(Collect(x, c, w), k + 1)
         /\ Collect(x, c, w) \in 0 .. Pow(k + 1) - 1
<1>1. Collect(x, c, w) = x * Base + c /\ Collect(x, c, w) \in 0 .. Pow(k + 1) - 1
  BY CollectFits
<1>2. x \in Nat
  BY PowType
<1>3. WriteNum(x * Base + c, k + 1) = Append(WriteNum(x, k), c)
  BY <1>2, WriteNumNext
<1>4. WriteNum(x, k) \in Seq(Byte)
  BY <1>2, WriteNumType
<1>5. Append(a \o WriteNum(x, k), c) = a \o Append(WriteNum(x, k), c)
  <2> DEFINE b == WriteNum(x, k)
  <2>1. b \in Seq(Byte)
    BY <1>4
  <2> HIDE DEF b
  <2>2. Append(a \o b, c) = a \o Append(b, c)
    BY <2>1, AppendConcat
  <2> QED BY <2>2 DEF b
<1> QED BY <1>1, <1>3, <1>5

\* The start of a frame up to the k-th byte of its id, its length, its type.
WithId(id, k) == <<SOF>> \o WriteNum(id, k)
WithLen(id, len, k) == WithId(id, IdBytes) \o WriteNum(len, k)
WithType(id, len, type, k) == WithLen(id, len, LenBytes) \o WriteNum(type, k)
HeadBytes(id, len, type) == WithType(id, len, type, TypeBytes)

LEMMA PrefixTypes ==
  /\ \A id, k \in Nat :
       WithId(id, k) \in Seq(Byte) /\ Len(WithId(id, k)) = 1 + k
  /\ \A id, len, k \in Nat :
       WithLen(id, len, k) \in Seq(Byte) /\ Len(WithLen(id, len, k)) = 1 + IdBytes + k
  /\ \A id, len, type, k \in Nat :
       /\ WithType(id, len, type, k) \in Seq(Byte)
       /\ Len(WithType(id, len, type, k)) = 1 + IdBytes + LenBytes + k
<1>0. IdBytes \in Nat /\ LenBytes \in Nat /\ TypeBytes \in Nat /\ SOF \in Byte
  BY FormatAssumption
<1>1. ASSUME NEW id \in Nat, NEW k \in Nat
      PROVE  WithId(id, k) \in Seq(Byte) /\ Len(WithId(id, k)) = 1 + k
  <2> DEFINE s == WriteNum(id, k)
  <2>1. s \in Seq(Byte) /\ Len(s) = k
    BY WriteNumType
  <2> HIDE DEF s
  <2>2. <<SOF>> \o s \in Seq(Byte) /\ Len(<<SOF>> \o s) = 1 + k
    BY <1>0, <2>1
  <2> QED BY <2>2 DEF WithId, s
<1>2. ASSUME NEW id \in Nat, NEW len \in Nat, NEW k \in Nat
      PROVE  WithLen(id, len, k) \in Seq(Byte) /\ Len(WithLen(id, len, k)) = 1 + IdBytes + k
  <2> DEFINE s == WriteNum(len, k)
             a == WithId(id, IdBytes)
  <2>1. s \in Seq(Byte) /\ Len(s) = k /\ a \in Seq(Byte) /\ Len(a) = 1 + IdBytes
    BY <1>0, <1>1, WriteNumType
  <2> HIDE DEF s, a
  <2>2. a \o s \in Seq(Byte) /\ Len(a \o s) = 1 + IdBytes + k
    BY <1>0, <2>1
  <2> QED BY <2>2 DEF WithLen, s, a
<1>3. ASSUME NEW id \in Nat, NEW len \in Nat, NEW type \in Nat, NEW k \in Nat
      PROVE  /\ WithType(id, len, type, k) \in Seq(Byte)
             /\ Len(WithType(id, len, type, k)) = 1 + IdBytes + LenBytes + k
  <2> DEFINE s == WriteNum(type, k)
             a == WithLen(id, len, LenBytes)
  <2>1. s \in Seq(Byte) /\ Len(s) = k /\ a \in Seq(Byte) /\ Len(a) = 1 + IdBytes + LenBytes
    BY <1>0, <1>2, WriteNumType
  <2> HIDE DEF s, a
  <2>2. a \o s \in Seq(Byte) /\ Len(a \o s) = 1 + IdBytes + LenBytes + k
    BY <1>0, <2>1
  <2> QED BY <2>2 DEF WithType, s, a
<1> QED BY <1>1, <1>2, <1>3

\* The head is its bytes and their checksum.
LEMMA HeadIs ==
  ASSUME NEW id \in Nat, NEW len \in Nat, NEW type \in Nat
  PROVE  /\ HeadBytes(id, len, type) \in Seq(Byte)
         /\ Len(HeadBytes(id, len, type)) = HeadLen - 1 /\ HeadLen \in Nat
         /\ ComposeHead(id, len, type) =
              Append(HeadBytes(id, len, type), Cksum(HeadBytes(id, len, type)))
         /\ ComposeHead(id, len, type) \in Seq(Byte)
         /\ Len(ComposeHead(id, len, type)) = HeadLen
<1> DEFINE h == HeadBytes(id, len, type)
<1>0. IdBytes \in Nat /\ LenBytes \in Nat /\ TypeBytes \in Nat
  BY FormatAssumption
<1>1. h \in Seq(Byte) /\ Len(h) = HeadLen - 1 /\ HeadLen \in Nat
  <2>1. h \in Seq(Byte) /\ Len(h) = 1 + IdBytes + LenBytes + TypeBytes
    <3>1. \A k \in Nat : /\ WithType(id, len, type, k) \in Seq(Byte)
                          /\ Len(WithType(id, len, type, k)) = 1 + IdBytes + LenBytes + k
      BY PrefixTypes
    <3> QED BY <1>0, <3>1, Zenon DEF HeadBytes
  <2> HIDE DEF h
  <2> QED BY <1>0, <2>1 DEF HeadLen
<1>2. ComposeHead(id, len, type) = Append(h, Cksum(h))
  BY DEF ComposeHead, HeadBytes, WithType, WithLen, WithId
<1>3. Cksum(h) \in Byte
  BY <1>1, CksumFacts
<1> HIDE DEF h
<1>4. Append(h, Cksum(h)) \in Seq(Byte) /\ Len(Append(h, Cksum(h))) = HeadLen
  BY <1>1, <1>3
<1>5. h = HeadBytes(id, len, type)
  BY DEF h
<1> QED BY <1>1, <1>2, <1>4, <1>5

-----------------------------------------------------------------------------
(* The parser and the bytes of the frame it is in. *)

States == {"SOF", "ID", "LEN", "TYPE", "HEAD_CKSUM", "DATA", "DATA_CKSUM"}
Fields == [state : States, rxi : Nat, id : Nat, len : Nat, type : Nat, cksum : Byte,
           data : Seq(Byte), discard : BOOLEAN, ticks : Nat]

Widths(q) ==
  /\ q.id < Pow(IdBytes) /\ q.len < Pow(LenBytes) /\ q.type < Pow(TypeBytes)
  /\ q.rxi < Pow(LenBytes) /\ q.ticks <= TimeoutTicks /\ Len(q.data) <= MaxPayload

\* The parser q has read the bytes h: what each state knows of them.
Summed(q, h) == q.cksum = CksumAdded(h) /\ q.data = <<>> /\ q.discard = FALSE
InId(q, h) ==
  /\ Summed(q, h) /\ q.rxi + 1 <= IdBytes /\ q.id < Pow(q.rxi) /\ q.len = 0 /\ q.type = 0
  /\ h = WithId(q.id, q.rxi)
InLen(q, h) ==
  /\ Summed(q, h) /\ q.rxi + 1 <= LenBytes /\ q.len < Pow(q.rxi) /\ q.type = 0
  /\ h = WithLen(q.id, q.len, q.rxi)
InType(q, h) ==
  /\ Summed(q, h) /\ q.rxi + 1 <= TypeBytes /\ q.type < Pow(q.rxi)
  /\ h = WithType(q.id, q.len, q.type, q.rxi)
AtHeadCksum(q, h) == Summed(q, h) /\ q.rxi = 0 /\ h = HeadBytes(q.id, q.len, q.type)
Stored(q, d) ==
  /\ q.discard <=> q.len > MaxPayload
  /\ IF q.discard THEN q.data = <<>> ELSE q.data = d /\ q.cksum = CksumAdded(d)
InData(q, h) ==
  \E d \in Seq(Byte) :
    /\ h = ComposeHead(q.id, q.len, q.type) \o d
    /\ Len(d) = q.rxi /\ q.rxi < q.len /\ Stored(q, d)
AtDataCksum(q, h) ==
  \E d \in Seq(Byte) :
    /\ h = ComposeHead(q.id, q.len, q.type) \o d
    /\ Len(d) = q.len /\ q.len > 0 /\ q.rxi = 0 /\ Stored(q, d)

Reads(q, h) ==
  /\ q.state = "ID" => InId(q, h)
  /\ q.state = "LEN" => InLen(q, h)
  /\ q.state = "TYPE" => InType(q, h)
  /\ q.state = "HEAD_CKSUM" => AtHeadCksum(q, h)
  /\ q.state = "DATA" => InData(q, h)
  /\ q.state = "DATA_CKSUM" => AtDataCksum(q, h)

PInv(q, h) == q \in Fields /\ Widths(q) /\ Reads(q, h)

LEMMA ConstantTypes ==
  /\ Base \in Nat \ {0, 1} /\ SOF \in Byte /\ 0 \in Byte /\ Byte \subseteq Nat
  /\ IdBytes \in Nat \ {0} /\ LenBytes \in Nat \ {0} /\ TypeBytes \in Nat \ {0}
  /\ IdBytes <= Pow(LenBytes) /\ LenBytes < Pow(LenBytes) /\ TypeBytes <= Pow(LenBytes)
  /\ MaxPayload \in Nat /\ TimeoutTicks \in Nat \ {0}
  /\ Pow(IdBytes) \in Nat \ {0} /\ Pow(LenBytes) \in Nat \ {0} /\ Pow(TypeBytes) \in Nat \ {0}
<1>1. Base \in Nat \ {0, 1} /\ SOF \in Byte /\ 0 \in Byte /\ Byte \subseteq Nat
  BY FormatAssumption DEF Byte
<1>2. IdBytes \in Nat \ {0} /\ LenBytes \in Nat \ {0} /\ TypeBytes \in Nat \ {0}
  BY FormatAssumption
<1>3. LenBytes < Pow(LenBytes)
  BY <1>2, PowGrows
<1>4. Pow(IdBytes) \in Nat \ {0} /\ Pow(LenBytes) \in Nat \ {0} /\ Pow(TypeBytes) \in Nat \ {0}
  BY <1>2, PowType
<1> QED BY <1>1, <1>2, <1>3, <1>4, FormatAssumption

\* TF_ResetParser and pars_begin_frame.
LEMMA ResetReads ==
  ASSUME NEW h
  PROVE  PInv(TF_ResetParser, h) /\ TF_ResetParser.state = "SOF"
<1>1. TF_ResetParser \in Fields
  BY ConstantTypes DEF TF_ResetParser, Fields, States
<1>2. Widths(TF_ResetParser)
  BY ConstantTypes DEF TF_ResetParser, Widths
<1> QED BY <1>1, <1>2 DEF PInv, Reads, TF_ResetParser

LEMMA BeginReads == PInv(pars_begin_frame, <<SOF>>) /\ pars_begin_frame.state = "ID"
<1> DEFINE k == TF_CksumAdd(TF_CksumStart, SOF)
<1>1. k \in Byte
  BY ConstantTypes, CksumAssumption DEF TF_CksumStart
<1>2. k = CksumAdded(<<SOF>>)
  <2>1. <<>> \in Seq(Byte) /\ Append(<<>>, SOF) = <<SOF>> /\ SOF \in Byte
    BY ConstantTypes
  <2> QED BY <2>1, CksumFacts
<1> DEFINE b == pars_begin_frame
<1>3. /\ b.state = "ID" /\ b.rxi = 0 /\ b.id = 0 /\ b.len = 0 /\ b.type = 0 /\ b.cksum = k
      /\ b.data = <<>> /\ b.discard = FALSE /\ b.ticks = 0
  BY DEF pars_begin_frame, TF_ResetParser
<1>4. pars_begin_frame \in Fields
  <2>1. TF_ResetParser \in Fields
    BY ResetReads DEF PInv
  <2>2. "ID" \in States
    BY DEF States
  <2> HIDE DEF k
  <2>3. [TF_ResetParser EXCEPT !.state = "ID", !.cksum = k] \in Fields
    BY <1>1, <2>1, <2>2 DEF Fields
  <2> QED BY <2>3 DEF k, pars_begin_frame
<1> HIDE DEF k
<1>5. Widths(pars_begin_frame)
  BY <1>3, ConstantTypes DEF Widths
<1>6. <<SOF>> = WithId(0, 0)
  <2>1. WriteNum(0, 0) = <<>> /\ <<SOF>> \in Seq(Byte)
    BY WriteNothing, ConstantTypes
  <2> QED BY <2>1, ConcatEmpty DEF WithId
<1>7. InId(pars_begin_frame, <<SOF>>)
  BY <1>2, <1>3, <1>6, PowZero, ConstantTypes DEF InId, Summed
<1> QED BY <1>3, <1>4, <1>5, <1>7 DEF PInv, Reads

\* What COLLECT_NUMBER and the checksum do to the parser.
LEMMA NumberFields ==
  ASSUME NEW q \in Fields, NEW c \in Byte, NEW w \in Nat, NEW next \in States,
         NEW f \in {"id", "len", "type"}, Collect(q[f], c, w) \in Nat,
         NEW n, n = AcceptNumber(q, c, f, w, next)
  PROVE  /\ n \in Fields
         /\ n.state = (IF q.rxi + 1 = w THEN next ELSE q.state)
         /\ n.rxi = (IF q.rxi + 1 = w THEN 0 ELSE q.rxi + 1)
         /\ n.id = (IF f = "id" THEN Collect(q.id, c, w) ELSE q.id)
         /\ n.len = (IF f = "len" THEN Collect(q.len, c, w) ELSE q.len)
         /\ n.type = (IF f = "type" THEN Collect(q.type, c, w) ELSE q.type)
         /\ n.cksum = TF_CksumAdd(q.cksum, c) /\ n.cksum \in Byte
         /\ n.data = q.data /\ n.discard = q.discard /\ n.ticks = q.ticks
<1> DEFINE v == Collect(q[f], c, w)
           k == TF_CksumAdd(q.cksum, c)
           st == IF q.rxi + 1 = w THEN next ELSE q.state
           rx == IF q.rxi + 1 = w THEN 0 ELSE q.rxi + 1
<1>1. v \in Nat /\ st \in States /\ rx \in Nat
  BY DEF Fields
<1>2. k \in Byte
  BY CksumAssumption DEF Fields
<1>3. n = [q EXCEPT ![f] = v, !.cksum = k, !.state = st, !.rxi = rx]
  BY DEF AcceptNumber
<1>4. /\ v = Collect(q[f], c, w) /\ k = TF_CksumAdd(q.cksum, c)
      /\ st = (IF q.rxi + 1 = w THEN next ELSE q.state)
      /\ rx = (IF q.rxi + 1 = w THEN 0 ELSE q.rxi + 1)
  OBVIOUS
<1> HIDE DEF v, k, st, rx
<1>5. CASE f = "id"
  <2>1. n = [q EXCEPT !.id = v, !.cksum = k, !.state = st, !.rxi = rx]
    BY <1>3, <1>5
  <2>2. n \in Fields
    BY <1>1, <1>2, <2>1 DEF Fields
  <2>3. /\ n.state = st /\ n.rxi = rx /\ n.id = v /\ n.len = q.len /\ n.type = q.type
        /\ n.cksum = k /\ n.data = q.data /\ n.discard = q.discard /\ n.ticks = q.ticks
    BY <2>1 DEF Fields
  <2> QED BY <1>2, <1>4, <1>5, <2>2, <2>3
<1>6. CASE f = "len"
  <2>1. n = [q EXCEPT !.len = v, !.cksum = k, !.state = st, !.rxi = rx]
    BY <1>3, <1>6
  <2>2. n \in Fields
    BY <1>1, <1>2, <2>1 DEF Fields
  <2>3. /\ n.state = st /\ n.rxi = rx /\ n.len = v /\ n.id = q.id /\ n.type = q.type
        /\ n.cksum = k /\ n.data = q.data /\ n.discard = q.discard /\ n.ticks = q.ticks
    BY <2>1 DEF Fields
  <2> QED BY <1>2, <1>4, <1>6, <2>2, <2>3
<1>7. CASE f = "type"
  <2>1. n = [q EXCEPT !.type = v, !.cksum = k, !.state = st, !.rxi = rx]
    BY <1>3, <1>7
  <2>2. n \in Fields
    BY <1>1, <1>2, <2>1 DEF Fields
  <2>3. /\ n.state = st /\ n.rxi = rx /\ n.type = v /\ n.id = q.id /\ n.len = q.len
        /\ n.cksum = k /\ n.data = q.data /\ n.discard = q.discard /\ n.ticks = q.ticks
    BY <2>1 DEF Fields
  <2> QED BY <1>2, <1>4, <1>7, <2>2, <2>3
<1> QED BY <1>5, <1>6, <1>7

\* A byte in a number field: the parser has read one byte more of the frame.
LEMMA SummedStep ==
  ASSUME NEW q \in Fields, NEW h \in Seq(Byte), NEW c \in Byte, Summed(q, h), NEW n,
         n.cksum = TF_CksumAdd(q.cksum, c), n.data = q.data, n.discard = q.discard
  PROVE  Summed(n, Append(h, c))
<1>1. CksumAdded(Append(h, c)) = TF_CksumAdd(CksumAdded(h), c)
  BY CksumFacts
<1> QED BY <1>1 DEF Summed

LEMMA AcceptsId ==
  ASSUME NEW q, NEW h, NEW c \in Byte, PInv(q, h), q.state = "ID",
         NEW n, n = AcceptNumber(q, c, "id", IdBytes, "LEN")
  PROVE  PInv(n, Append(h, c)) /\ n.state # "SOF"
<1> DEFINE k == q.rxi
           x == Collect(q.id, c, IdBytes)
<1>1. /\ q \in Fields /\ Widths(q) /\ InId(q, h) /\ Summed(q, h)
      /\ k \in Nat /\ k + 1 <= IdBytes /\ q.id \in Nat /\ q.id < Pow(k)
  BY DEF PInv, Reads, InId, Fields
<1>2. h \in Seq(Byte)
  BY <1>1, PrefixTypes DEF InId
<1>3. q.id \in 0 .. Pow(k) - 1 /\ IdBytes \in Nat /\ <<SOF>> \in Seq(Byte) /\ Pow(k + 1) \in Nat
  BY <1>1, PowType, ConstantTypes
<1>4. /\ Append(<<SOF>> \o WriteNum(q.id, k), c) = <<SOF>> \o WriteNum(x, k + 1)
      /\ x \in 0 .. Pow(k + 1) - 1
  BY <1>1, <1>3, FieldStep
<1>5. x \in Nat /\ x < Pow(k + 1) /\ Append(h, c) = WithId(x, k + 1)
  <2>1. h = <<SOF>> \o WriteNum(q.id, k)
    BY <1>1, Zenon DEF InId, WithId
  <2>2. Append(h, c) = WithId(x, k + 1)
    BY <1>4, <2>1, Zenon DEF WithId
  <2>3. x \in Nat /\ x < Pow(k + 1)
    <3> HIDE DEF x
    <3> QED BY <1>3, <1>4
  <2> QED BY <2>2, <2>3
<1>6. /\ n \in Fields
      /\ n.state = (IF k + 1 = IdBytes THEN "LEN" ELSE "ID")
      /\ n.rxi = (IF k + 1 = IdBytes THEN 0 ELSE k + 1)
      /\ n.id = x /\ n.len = 0 /\ n.type = 0
      /\ n.cksum = TF_CksumAdd(q.cksum, c) /\ n.data = q.data /\ n.discard = q.discard
      /\ n.ticks = q.ticks
  <2>1. "LEN" \in States /\ "id" \in {"id", "len", "type"}
    BY DEF States
  <2>2. Collect(q["id"], c, IdBytes) \in Nat
    BY <1>5
  <2>3. q.len = 0 /\ q.type = 0
    BY <1>1 DEF InId
  <2> QED BY <1>1, <1>3, <2>1, <2>2, <2>3, NumberFields
<1>7. Summed(n, Append(h, c))
  BY <1>1, <1>2, <1>6, SummedStep
<1>8. Pow(k + 1) <= Pow(IdBytes)
  BY <1>1, <1>3, PowGrows
<1> HIDE DEF x, k
<1>9. Widths(n)
  <2>1. n.rxi < Pow(LenBytes)
    BY <1>1, <1>3, <1>6, ConstantTypes
  <2>2. n.id < Pow(IdBytes)
    BY <1>3, <1>5, <1>6, <1>8, ConstantTypes
  <2> QED BY <1>1, <1>6, <2>1, <2>2, ConstantTypes DEF Widths
<1>10. Reads(n, Append(h, c))
  <2>1. CASE k + 1 = IdBytes
    <3>1. WithLen(x, 0, 0) = WithId(x, IdBytes)
      <4>1. WriteNum(0, 0) = <<>>
        BY WriteNothing
      <4>2. WithId(x, IdBytes) \in Seq(Byte)
        BY <1>3, <1>5, PrefixTypes
      <4> QED BY <4>1, <4>2, ConcatEmpty DEF WithLen
    <3>2. InLen(n, Append(h, c))
      BY <1>5, <1>6, <1>7, <2>1, <3>1, PowZero, ConstantTypes DEF InLen
    <3> QED BY <1>6, <2>1, <3>2 DEF Reads
  <2>2. CASE k + 1 # IdBytes
    <3>1. InId(n, Append(h, c))
      BY <1>1, <1>3, <1>5, <1>6, <1>7, <2>2 DEF InId
    <3> QED BY <1>6, <2>2, <3>1 DEF Reads
  <2> QED BY <2>1, <2>2
<1> QED BY <1>6, <1>9, <1>10 DEF PInv

LEMMA AcceptsLen ==
  ASSUME NEW q, NEW h, NEW c \in Byte, PInv(q, h), q.state = "LEN",
         NEW n, n = AcceptNumber(q, c, "len", LenBytes, "TYPE")
  PROVE  PInv(n, Append(h, c)) /\ n.state # "SOF"
<1> DEFINE k == q.rxi
           x == Collect(q.len, c, LenBytes)
           a == WithId(q.id, IdBytes)
<1>1. /\ q \in Fields /\ Widths(q) /\ InLen(q, h) /\ Summed(q, h) /\ q.id \in Nat
      /\ k \in Nat /\ k + 1 <= LenBytes /\ q.len \in Nat /\ q.len < Pow(k)
  BY DEF PInv, Reads, InLen, Fields
<1>2. h \in Seq(Byte) /\ a \in Seq(Byte)
  BY <1>1, PrefixTypes, ConstantTypes DEF InLen
<1>3. q.len \in 0 .. Pow(k) - 1 /\ LenBytes \in Nat /\ Pow(k + 1) \in Nat
  BY <1>1, PowType, ConstantTypes
<1>4. /\ Append(a \o WriteNum(q.len, k), c) = a \o WriteNum(x, k + 1)
      /\ x \in 0 .. Pow(k + 1) - 1
  <2> HIDE DEF a
  <2> QED BY <1>1, <1>2, <1>3, FieldStep
<1>5. x \in Nat /\ x < Pow(k + 1) /\ Append(h, c) = WithLen(q.id, x, k + 1)
  BY <1>1, <1>3, <1>4 DEF InLen, WithLen
<1>6. /\ n \in Fields
      /\ n.state = (IF k + 1 = LenBytes THEN "TYPE" ELSE "LEN")
      /\ n.rxi = (IF k + 1 = LenBytes THEN 0 ELSE k + 1)
      /\ n.id = q.id /\ n.len = x /\ n.type = 0
      /\ n.cksum = TF_CksumAdd(q.cksum, c) /\ n.data = q.data /\ n.discard = q.discard
      /\ n.ticks = q.ticks
  <2>1. "TYPE" \in States /\ "len" \in {"id", "len", "type"}
    BY DEF States
  <2>2. Collect(q["len"], c, LenBytes) \in Nat
    BY <1>5
  <2>3. q.type = 0
    BY <1>1 DEF InLen
  <2> QED BY <1>1, <1>3, <2>1, <2>2, <2>3, NumberFields
<1>7. Summed(n, Append(h, c))
  BY <1>1, <1>2, <1>6, SummedStep
<1>8. Pow(k + 1) <= Pow(LenBytes)
  BY <1>1, <1>3, PowGrows
<1> HIDE DEF x, k
<1>9. Widths(n)
  <2>1. n.rxi < Pow(LenBytes)
    BY <1>1, <1>3, <1>6, ConstantTypes
  <2>2. n.len < Pow(LenBytes)
    BY <1>3, <1>5, <1>6, <1>8, ConstantTypes
  <2> QED BY <1>1, <1>6, <2>1, <2>2, ConstantTypes DEF Widths
<1>10. Reads(n, Append(h, c))
  <2>1. CASE k + 1 = LenBytes
    <3>1. WithType(q.id, x, 0, 0) = WithLen(q.id, x, LenBytes)
      <4>1. WriteNum(0, 0) = <<>>
        BY WriteNothing
      <4>2. WithLen(q.id, x, LenBytes) \in Seq(Byte)
        BY <1>1, <1>3, <1>5, PrefixTypes
      <4> QED BY <4>1, <4>2, ConcatEmpty DEF WithType
    <3>2. InType(n, Append(h, c))
      BY <1>5, <1>6, <1>7, <2>1, <3>1, PowZero, ConstantTypes DEF InType
    <3> QED BY <1>6, <2>1, <3>2 DEF Reads
  <2>2. CASE k + 1 # LenBytes
    <3>1. InLen(n, Append(h, c))
      BY <1>1, <1>3, <1>5, <1>6, <1>7, <2>2 DEF InLen
    <3> QED BY <1>6, <2>2, <3>1 DEF Reads
  <2> QED BY <2>1, <2>2
<1> QED BY <1>6, <1>9, <1>10 DEF PInv

LEMMA AcceptsType ==
  ASSUME NEW q, NEW h, NEW c \in Byte, PInv(q, h), q.state = "TYPE",
         NEW n, n = AcceptNumber(q, c, "type", TypeBytes, "HEAD_CKSUM")
  PROVE  PInv(n, Append(h, c)) /\ n.state # "SOF"
<1> DEFINE k == q.rxi
           x == Collect(q.type, c, TypeBytes)
           a == WithLen(q.id, q.len, LenBytes)
<1>1. /\ q \in Fields /\ Widths(q) /\ InType(q, h) /\ Summed(q, h) /\ q.id \in Nat
      /\ k \in Nat /\ k + 1 <= TypeBytes /\ q.len \in Nat /\ q.type \in Nat /\ q.type < Pow(k)
  BY DEF PInv, Reads, InType, Fields
<1>2. h \in Seq(Byte) /\ a \in Seq(Byte)
  BY <1>1, PrefixTypes, ConstantTypes DEF InType
<1>3. q.type \in 0 .. Pow(k) - 1 /\ TypeBytes \in Nat /\ Pow(k + 1) \in Nat
  BY <1>1, PowType, ConstantTypes
<1>4. /\ Append(a \o WriteNum(q.type, k), c) = a \o WriteNum(x, k + 1)
      /\ x \in 0 .. Pow(k + 1) - 1
  <2> HIDE DEF a
  <2> QED BY <1>1, <1>2, <1>3, FieldStep
<1>5. x \in Nat /\ x < Pow(k + 1) /\ Append(h, c) = WithType(q.id, q.len, x, k + 1)
  BY <1>1, <1>3, <1>4 DEF InType, WithType
<1>6. /\ n \in Fields
      /\ n.state = (IF k + 1 = TypeBytes THEN "HEAD_CKSUM" ELSE "TYPE")
      /\ n.rxi = (IF k + 1 = TypeBytes THEN 0 ELSE k + 1)
      /\ n.id = q.id /\ n.len = q.len /\ n.type = x
      /\ n.cksum = TF_CksumAdd(q.cksum, c) /\ n.data = q.data /\ n.discard = q.discard
      /\ n.ticks = q.ticks
  <2>1. "HEAD_CKSUM" \in States /\ "type" \in {"id", "len", "type"}
    BY DEF States
  <2>2. Collect(q["type"], c, TypeBytes) \in Nat
    BY <1>5
  <2> QED BY <1>1, <1>3, <2>1, <2>2, NumberFields
<1>7. Summed(n, Append(h, c))
  BY <1>1, <1>2, <1>6, SummedStep
<1>8. Pow(k + 1) <= Pow(TypeBytes)
  BY <1>1, <1>3, PowGrows
<1> HIDE DEF x, k
<1>9. Widths(n)
  <2>1. n.rxi < Pow(LenBytes)
    BY <1>1, <1>3, <1>6, ConstantTypes
  <2>2. n.type < Pow(TypeBytes)
    BY <1>3, <1>5, <1>6, <1>8, ConstantTypes
  <2> QED BY <1>1, <1>6, <2>1, <2>2, ConstantTypes DEF Widths
<1>10. Reads(n, Append(h, c))
  <2>1. CASE k + 1 = TypeBytes
    <3>1. AtHeadCksum(n, Append(h, c))
      BY <1>5, <1>6, <1>7, <2>1 DEF AtHeadCksum, HeadBytes
    <3> QED BY <1>6, <2>1, <3>1 DEF Reads
  <2>2. CASE k + 1 # TypeBytes
    <3>1. InType(n, Append(h, c))
      BY <1>1, <1>3, <1>5, <1>6, <1>7, <2>2 DEF InType
    <3> QED BY <1>6, <2>2, <3>1 DEF Reads
  <2> QED BY <2>1, <2>2
<1> QED BY <1>6, <1>9, <1>10 DEF PInv

\* The frame around a message, without and with a payload.
LEMMA ComposeIs ==
  ASSUME NEW m \in Message
  PROVE  /\ Compose(m) \in Seq(Byte)
         /\ m.data = <<>> => Compose(m) = ComposeHead(m.id, 0, m.type)
         /\ m.data # <<>> =>
              Compose(m) = Append(ComposeHead(m.id, Len(m.data), m.type) \o m.data,
                                  Cksum(m.data))
         /\ Len(Compose(m)) =
              HeadLen + Len(m.data) + (IF m.data = <<>> THEN 0 ELSE 1)
<1> DEFINE a == ComposeHead(m.id, Len(m.data), m.type)
           d == m.data
           k == Cksum(d)
<1>1. /\ m.id \in Nat /\ m.type \in Nat /\ d \in Seq(Byte) /\ Len(d) \in Nat
  BY ConstantTypes DEF Message
<1>2. a \in Seq(Byte) /\ Len(a) = HeadLen /\ HeadLen \in Nat
  BY <1>1, HeadIs
<1>3. k \in Byte
  BY <1>1, CksumFacts
<1>4. Compose(m) = a \o d \o (IF d = <<>> THEN <<>> ELSE <<k>>)
  BY DEF Compose
<1>5. a = ComposeHead(m.id, Len(d), m.type)
  OBVIOUS
<1> HIDE DEF a, k
<1>6. CASE d = <<>>
  <2>1. Len(d) = 0
    BY <1>6
  <2>2. Compose(m) = a \o <<>> \o <<>>
    BY <1>4, <1>6
  <2>3. a \o <<>> = a
    BY <1>2, ConcatEmpty
  <2>4. Compose(m) = a
    BY <2>2, <2>3
  <2> QED BY <1>2, <1>5, <1>6, <2>1, <2>4
<1>7. CASE d # <<>>
  <2> HIDE DEF d
  <2>1. Compose(m) = (a \o d) \o <<k>>
    BY <1>4, <1>7
  <2>2. (a \o d) \o <<k>> = Append(a \o d, k) /\ a \o d \in Seq(Byte)
    BY <1>1, <1>2, <1>3
  <2>3. Len(Append(a \o d, k)) = HeadLen + Len(d) + 1 /\ Append(a \o d, k) \in Seq(Byte)
    BY <1>1, <1>2, <1>3
  <2>4. /\ Compose(m) = Append(a \o d, k) /\ Compose(m) \in Seq(Byte)
        /\ Len(Compose(m)) = HeadLen + Len(d) + 1
    BY <2>1, <2>2, <2>3
  <2> QED BY <1>5, <1>7, <2>4 DEF d, k
<1> QED BY <1>6, <1>7

\* How many bytes the parser has read tells which states it can be in.
LEMMA LengthTells ==
  ASSUME NEW q, NEW h, PInv(q, h), q.state # "SOF"
  PROVE  /\ h \in Seq(Byte)
         /\ q.state \in {"ID", "LEN", "TYPE"} => Len(h) < HeadLen - 1
         /\ q.state = "HEAD_CKSUM" => Len(h) = HeadLen - 1
         /\ q.state \in {"DATA", "DATA_CKSUM"} => Len(h) >= HeadLen
<1>1. /\ q.state \in {"ID", "LEN", "TYPE", "HEAD_CKSUM", "DATA", "DATA_CKSUM"}
      /\ q.id \in Nat /\ q.len \in Nat /\ q.type \in Nat /\ q.rxi \in Nat
  BY DEF PInv, Fields, States
<1>2. IdBytes \in Nat /\ LenBytes \in Nat /\ TypeBytes \in Nat
  BY ConstantTypes
<1>3. HeadLen = IdBytes + LenBytes + TypeBytes + 2
  BY <1>2 DEF HeadLen
<1>4. CASE q.state = "ID"
  <2>1. h = WithId(q.id, q.rxi) /\ q.rxi + 1 <= IdBytes
    BY <1>4 DEF PInv, Reads, InId
  <2>2. h \in Seq(Byte) /\ Len(h) = 1 + q.rxi
    BY <1>1, <2>1, PrefixTypes
  <2> QED BY <1>1, <1>2, <1>3, <1>4, <2>1, <2>2
<1>5. CASE q.state = "LEN"
  <2>1. h = WithLen(q.id, q.len, q.rxi) /\ q.rxi + 1 <= LenBytes
    BY <1>5 DEF PInv, Reads, InLen
  <2>2. h \in Seq(Byte) /\ Len(h) = 1 + IdBytes + q.rxi
    BY <1>1, <2>1, PrefixTypes
  <2> QED BY <1>1, <1>2, <1>3, <1>5, <2>1, <2>2
<1>6. CASE q.state = "TYPE"
  <2>1. h = WithType(q.id, q.len, q.type, q.rxi) /\ q.rxi + 1 <= TypeBytes
    BY <1>6 DEF PInv, Reads, InType
  <2>2. h \in Seq(Byte) /\ Len(h) = 1 + IdBytes + LenBytes + q.rxi
    <3>1. \A k \in Nat : /\ WithType(q.id, q.len, q.type, k) \in Seq(Byte)
                          /\ Len(WithType(q.id, q.len, q.type, k)) = 1 + IdBytes + LenBytes + k
      BY <1>1, PrefixTypes, Zenon
    <3> QED BY <1>1, <2>1, <3>1, Zenon
  <2> QED BY <1>1, <1>2, <1>3, <1>6, <2>1, <2>2
<1>7. CASE q.state = "HEAD_CKSUM"
  <2>1. h = HeadBytes(q.id, q.len, q.type)
    BY <1>7 DEF PInv, Reads, AtHeadCksum
  <2> QED BY <1>1, <1>7, <2>1, HeadIs
<1>8. CASE q.state \in {"DATA", "DATA_CKSUM"}
  <2>1. PICK d \in Seq(Byte) : h = ComposeHead(q.id, q.len, q.type) \o d
    BY <1>8 DEF PInv, Reads, InData, AtDataCksum
  <2> DEFINE a == ComposeHead(q.id, q.len, q.type)
  <2>2. a \in Seq(Byte) /\ Len(a) = HeadLen /\ HeadLen \in Nat
    BY <1>1, HeadIs
  <2>3. h = a \o d
    BY <2>1
  <2> HIDE DEF a
  <2>4. h \in Seq(Byte) /\ Len(h) >= HeadLen
    BY <2>2, <2>3
  <2> QED BY <1>8, <2>4
<1> QED BY <1>1, <1>4, <1>5, <1>6, <1>7, <1>8

LEMMA AcceptsHeadCksum ==
  ASSUME NEW q, NEW h, NEW c \in Byte, PInv(q, h), q.state = "HEAD_CKSUM",
         NEW s, s = AcceptHeadCksum(q, c)
  PROVE  /\ c # Cksum(h) => s.p = TF_ResetParser /\ s.out = NoMsg
         /\ c = Cksum(h) /\ q.len = 0 =>
              /\ s.p = TF_ResetParser
              /\ s.out = [id |-> q.id, type |-> q.type, data |-> <<>>]
              /\ s.out \in Message /\ Append(h, c) = Compose(s.out)
         /\ c = Cksum(h) /\ q.len # 0 =>
              /\ s.out = NoMsg /\ s.p.state = "DATA" /\ PInv(s.p, Append(h, c))
<1>1. /\ q \in Fields /\ Widths(q) /\ Summed(q, h) /\ q.rxi = 0
      /\ h = HeadBytes(q.id, q.len, q.type)
      /\ q.id \in Nat /\ q.len \in Nat /\ q.type \in Nat
  BY DEF PInv, Reads, AtHeadCksum, Fields
<1>2. TF_CksumEnd(q.cksum) = Cksum(h)
  BY <1>1 DEF Summed, Cksum
<1>3. CASE c # Cksum(h)
  BY <1>2, <1>3 DEF AcceptHeadCksum, Goes
<1>4. ASSUME c = Cksum(h)
      PROVE  /\ Append(h, c) = ComposeHead(q.id, q.len, q.type)
             /\ ComposeHead(q.id, q.len, q.type) \in Seq(Byte)
  BY <1>1, <1>4, HeadIs
<1>5. CASE c = Cksum(h) /\ q.len = 0
  <2> DEFINE m == [id |-> q.id, type |-> q.type, data |-> <<>>]
  <2>1. s.p = TF_ResetParser /\ s.out = m
    BY <1>1, <1>2, <1>5 DEF AcceptHeadCksum, Delivers, Summed
  <2>2. m \in Message /\ m.id = q.id /\ m.type = q.type /\ m.data = <<>>
    BY <1>1, ConstantTypes DEF Message, Widths
  <2> HIDE DEF m
  <2>3. Compose(m) = ComposeHead(q.id, 0, q.type)
    BY <2>2, ComposeIs
  <2>4. Append(h, c) = Compose(m)
    BY <1>4, <1>5, <2>3
  <2> QED BY <1>5, <2>1, <2>2, <2>4 DEF m
<1>6. CASE c = Cksum(h) /\ q.len # 0
  <2> DEFINE n == [q EXCEPT !.state = "DATA", !.cksum = TF_CksumStart,
                            !.discard = q.len > MaxPayload]
  <2>1. s.p = n /\ s.out = NoMsg
    BY <1>1, <1>2, <1>6 DEF AcceptHeadCksum, Goes
  <2>2. n \in Fields
    <3>1. "DATA" \in States /\ TF_CksumStart \in Byte /\ (q.len > MaxPayload) \in BOOLEAN
      BY ConstantTypes DEF States, TF_CksumStart
    <3> QED BY <1>1, <3>1 DEF Fields
  <2>3. /\ n.state = "DATA" /\ n.cksum = TF_CksumStart /\ n.discard = (q.len > MaxPayload)
        /\ n.rxi = 0 /\ n.id = q.id /\ n.len = q.len /\ n.type = q.type
        /\ n.data = <<>> /\ n.ticks = q.ticks
    BY <1>1 DEF Fields, Summed
  <2> HIDE DEF n
  <2>4. Widths(n)
    BY <1>1, <2>3 DEF Widths, Summed
  <2>5. InData(n, Append(h, c))
    <3>1. Append(h, c) = ComposeHead(n.id, n.len, n.type) \o <<>>
      BY <1>4, <1>6, <2>3, ConcatEmpty
    <3>2. Stored(n, <<>>)
      BY <2>3, CksumFacts DEF Stored
    <3>3. <<>> \in Seq(Byte) /\ Len(<<>>) = n.rxi /\ n.rxi < n.len
      BY <1>1, <1>6, <2>3
    <3> QED BY <3>1, <3>2, <3>3 DEF InData
  <2>6. PInv(n, Append(h, c))
    BY <2>2, <2>3, <2>4, <2>5 DEF PInv, Reads
  <2> QED BY <1>6, <2>1, <2>3, <2>6
<1> QED BY <1>3, <1>5, <1>6

LEMMA AcceptsData ==
  ASSUME NEW q, NEW h, NEW c \in Byte, PInv(q, h), q.state = "DATA",
         NEW n, n = AcceptData(q, c)
  PROVE  PInv(n, Append(h, c)) /\ n.state # "SOF"
<1>1. /\ q \in Fields /\ Widths(q)
      /\ q.id \in Nat /\ q.len \in Nat /\ q.type \in Nat /\ q.rxi \in Nat
      /\ q.data \in Seq(Byte) /\ q.cksum \in Byte /\ q.discard \in BOOLEAN
  BY DEF PInv, Fields
<1>2. PICK d \in Seq(Byte) :
        /\ h = ComposeHead(q.id, q.len, q.type) \o d
        /\ Len(d) = q.rxi /\ q.rxi < q.len /\ Stored(q, d)
  BY DEF PInv, Reads, InData
<1> DEFINE a == ComposeHead(q.id, q.len, q.type)
           e == Append(d, c)
           full == q.rxi + 1 = q.len
           k == IF q.discard THEN q.cksum ELSE TF_CksumAdd(q.cksum, c)
           b == IF q.discard THEN q.data ELSE Append(q.data, c)
           st == IF full THEN "DATA_CKSUM" ELSE "DATA"
           rx == IF full THEN 0 ELSE q.rxi + 1
<1>3. n = [q EXCEPT !.cksum = k, !.data = b, !.state = st, !.rxi = rx]
  BY DEF AcceptData
<1>4. k \in Byte /\ b \in Seq(Byte) /\ st \in States /\ rx \in Nat
  <2>1. k \in Byte
    BY <1>1, CksumAssumption
  <2>2. b \in Seq(Byte)
    BY <1>1
  <2>3. st \in States /\ rx \in Nat
    BY <1>1 DEF States
  <2> QED BY <2>1, <2>2, <2>3
<1>5. /\ q.discard = TRUE => k = q.cksum /\ b = q.data
      /\ q.discard = FALSE => k = TF_CksumAdd(q.cksum, c) /\ b = Append(q.data, c)
      /\ q.rxi + 1 = q.len => st = "DATA_CKSUM" /\ rx = 0
      /\ q.rxi + 1 # q.len => st = "DATA" /\ rx = q.rxi + 1
  OBVIOUS
<1>6. /\ e \in Seq(Byte) /\ Len(e) = q.rxi + 1
      /\ CksumAdded(e) = TF_CksumAdd(CksumAdded(d), c)
  BY <1>2, CksumFacts
<1>7. Append(h, c) = a \o e
  <2>1. a \in Seq(Byte)
    BY <1>1, HeadIs
  <2> HIDE DEF a
  <2>2. Append(a \o d, c) = a \o e
    BY <2>1, AppendConcat
  <2> QED BY <1>2, <2>2 DEF a
<1> HIDE DEF k, b, st, rx, full
<1>8. /\ n \in Fields /\ n.cksum = k /\ n.data = b /\ n.state = st /\ n.rxi = rx
      /\ n.id = q.id /\ n.len = q.len /\ n.type = q.type /\ n.discard = q.discard
      /\ n.ticks = q.ticks
  BY <1>1, <1>3, <1>4 DEF Fields
<1>9. Stored(n, e)
  <2> HIDE DEF e
  <2>1. (q.discard <=> q.len > MaxPayload)
    BY <1>2 DEF Stored
  <2>2. CASE q.discard = TRUE
    <3>1. n.data = <<>>
      BY <1>2, <1>5, <1>8, <2>2 DEF Stored
    <3> QED BY <1>8, <2>1, <2>2, <3>1 DEF Stored
  <2>3. CASE q.discard = FALSE
    <3>1. q.data = d /\ q.cksum = CksumAdded(d)
      BY <1>2, <2>3 DEF Stored
    <3>2. n.data = e /\ n.cksum = CksumAdded(e)
      BY <1>5, <1>6, <1>8, <2>3, <3>1 DEF e
    <3> QED BY <1>8, <2>1, <2>3, <3>2 DEF Stored
  <2> QED BY <1>1, <2>2, <2>3
<1> HIDE DEF e
<1>10. Widths(n)
  <2>1. n.rxi < Pow(LenBytes)
    <3>1. /\ q.rxi \in Nat /\ q.len \in Nat /\ q.rxi < q.len /\ q.len < Pow(LenBytes)
          /\ Pow(LenBytes) \in Nat /\ (rx = 0 \/ (rx = q.rxi + 1 /\ rx # q.len))
      BY <1>1, <1>2, <1>5, ConstantTypes DEF Widths
    <3>2. rx < Pow(LenBytes)
      BY <3>1
    <3> QED BY <1>8, <3>2
  <2>2. Len(n.data) <= MaxPayload
    <3>1. CASE q.len > MaxPayload
      BY <1>8, <1>9, <3>1, ConstantTypes DEF Stored
    <3>2. CASE ~(q.len > MaxPayload)
      <4>1. n.data = e
        BY <1>8, <1>9, <3>2 DEF Stored
      <4>2. q.rxi \in Nat /\ q.len \in Nat /\ q.rxi < q.len /\ MaxPayload \in Nat
        BY <1>1, <1>2, ConstantTypes
      <4>3. q.rxi + 1 <= MaxPayload
        BY <3>2, <4>2
      <4> QED BY <1>6, <4>1, <4>3
    <3> QED BY <3>1, <3>2
  <2> QED BY <1>1, <1>8, <2>1, <2>2 DEF Widths
<1>11. Append(h, c) = ComposeHead(n.id, n.len, n.type) \o e
  BY <1>7, <1>8
<1>12. CASE q.rxi + 1 = q.len
  <2>1. Len(e) = n.len /\ n.len > 0 /\ n.rxi = 0 /\ n.state = "DATA_CKSUM"
    BY <1>1, <1>5, <1>6, <1>8, <1>12
  <2>2. AtDataCksum(n, Append(h, c))
    BY <1>6, <1>9, <1>11, <2>1 DEF AtDataCksum
  <2> QED BY <1>8, <1>10, <2>1, <2>2 DEF PInv, Reads
<1>13. CASE q.rxi + 1 # q.len
  <2>1. Len(e) = n.rxi /\ n.rxi < n.len /\ n.state = "DATA"
    BY <1>1, <1>2, <1>5, <1>6, <1>8, <1>13
  <2>2. InData(n, Append(h, c))
    BY <1>6, <1>9, <1>11, <2>1 DEF InData
  <2> QED BY <1>8, <1>10, <2>1, <2>2 DEF PInv, Reads
<1> QED BY <1>12, <1>13

\* The payload is complete.
Complete(q, h, d) ==
  /\ h = ComposeHead(q.id, q.len, q.type) \o d
  /\ Len(d) = q.len /\ q.len > 0 /\ Stored(q, d)

FrameEnd(q, h, d, c, s) ==
  /\ s.p = TF_ResetParser
  /\ IF q.len <= MaxPayload /\ c = Cksum(d)
     THEN /\ s.out = [id |-> q.id, type |-> q.type, data |-> d]
          /\ s.out \in Message /\ Append(h, c) = Compose(s.out)
     ELSE s.out = NoMsg

LEMMA AcceptsDataCksum ==
  ASSUME NEW q, NEW h, NEW c \in Byte, PInv(q, h), NEW d \in Seq(Byte), Complete(q, h, d),
         NEW s, s = AcceptDataCksum(q, c)
  PROVE  FrameEnd(q, h, d, c, s)
<1> USE DEF FrameEnd
<1>1. /\ q \in Fields /\ Widths(q) /\ q.len \in Nat /\ q.id \in Nat /\ q.type \in Nat
      /\ q.discard \in BOOLEAN /\ MaxPayload \in Nat
  BY ConstantTypes DEF PInv, Fields
<1>0. /\ h = ComposeHead(q.id, q.len, q.type) \o d
      /\ Len(d) = q.len /\ q.len > 0 /\ Stored(q, d)
  BY DEF Complete
<1>2. q.discard <=> q.len > MaxPayload
  BY <1>0 DEF Stored
<1>3. ~q.discard => q.data = d /\ TF_CksumEnd(q.cksum) = Cksum(d)
  BY <1>0 DEF Stored, Cksum
<1>4. CASE q.len <= MaxPayload /\ c = Cksum(d)
  <2> DEFINE m == [id |-> q.id, type |-> q.type, data |-> d]
  <2>1. ~q.discard
    BY <1>1, <1>2, <1>4
  <2>2. s.p = TF_ResetParser /\ s.out = m
    BY <1>3, <1>4, <2>1 DEF AcceptDataCksum, Delivers
  <2>3. m \in Message /\ m.id = q.id /\ m.type = q.type /\ m.data = d
    BY <1>1, ConstantTypes DEF Message, Widths
  <2> HIDE DEF m
  <2>4. d # <<>>
    BY <1>0, <1>1
  <2>5. Compose(m) = Append(ComposeHead(q.id, Len(d), q.type) \o d, Cksum(d))
    BY <2>3, <2>4, ComposeIs
  <2>6. Append(h, c) = Compose(m)
    BY <1>0, <1>4, <2>5
  <2> QED BY <1>4, <2>2, <2>3, <2>6 DEF m
<1>5. CASE ~(q.len <= MaxPayload /\ c = Cksum(d))
  <2>1. q.discard \/ TF_CksumEnd(q.cksum) # c
    BY <1>1, <1>2, <1>3, <1>5
  <2> QED BY <1>5, <2>1 DEF AcceptDataCksum, Goes
<1> QED BY <1>4, <1>5

-----------------------------------------------------------------------------
(* One byte. *)

Begins(r) == r.state = "SOF" \/ TimedOut(r)

\* The state the parser switches on has read what the parser has read.
LEMMA SwitchReads ==
  ASSUME NEW r, NEW h, PInv(r, h)
  PROVE  /\ Begins(r) => Switch(r).state = "SOF"
         /\ ~Begins(r) =>
              /\ PInv(Switch(r), h) /\ Switch(r).state = r.state /\ r.state # "SOF"
              /\ Switch(r).id = r.id /\ Switch(r).len = r.len /\ Switch(r).type = r.type
<1>1. CASE TimedOut(r)
  BY <1>1 DEF Begins, Switch, TF_ResetParser
<1>2. CASE ~TimedOut(r)
  <2> DEFINE q == [r EXCEPT !.ticks = 0]
  <2>1. Switch(r) = q
    BY <1>2 DEF Switch
  <2>2. r \in Fields /\ Widths(r) /\ Reads(r, h) /\ TimeoutTicks \in Nat
    BY ConstantTypes DEF PInv
  <2>3. /\ q \in Fields /\ q.ticks = 0 /\ q.state = r.state /\ q.rxi = r.rxi /\ q.id = r.id
        /\ q.len = r.len /\ q.type = r.type /\ q.cksum = r.cksum /\ q.data = r.data
        /\ q.discard = r.discard
    BY <2>2 DEF Fields
  <2> HIDE DEF q
  <2>4. Widths(q)
    BY <2>2, <2>3 DEF Widths
  <2>5. Reads(q, h)
    <3>1. \A d : Stored(r, d) => Stored(q, d)
      BY <2>3 DEF Stored
    <3>2. Summed(r, h) => Summed(q, h)
      BY <2>3 DEF Summed
    <3>3. InData(r, h) => InData(q, h)
      BY <2>3, <3>1 DEF InData
    <3>4. AtDataCksum(r, h) => AtDataCksum(q, h)
      BY <2>3, <3>1 DEF AtDataCksum
    <3>5. /\ InId(r, h) => InId(q, h)
          /\ InLen(r, h) => InLen(q, h)
          /\ InType(r, h) => InType(q, h)
          /\ AtHeadCksum(r, h) => AtHeadCksum(q, h)
      BY <2>3, <3>2 DEF InId, InLen, InType, AtHeadCksum
    <3> QED BY <2>2, <2>3, <3>3, <3>4, <3>5 DEF Reads
  <2> QED BY <1>2, <2>1, <2>3, <2>4, <2>5 DEF Begins, PInv
<1> QED BY <1>1, <1>2

\* What TF_AcceptChar does in each of its states.
LEMMA CharSteps ==
  ASSUME ~Fork, NEW r, NEW c, NEW q, q = Switch(r), NEW s, s = TF_AcceptChar(r, c)
  PROVE  /\ q.state = "SOF" => s = Goes(IF c = SOF THEN pars_begin_frame ELSE TF_ResetParser)
         /\ q.state = "ID" => s = Goes(AcceptNumber(q, c, "id", IdBytes, "LEN"))
         /\ q.state = "LEN" => s = Goes(AcceptNumber(q, c, "len", LenBytes, "TYPE"))
         /\ q.state = "TYPE" => s = Goes(AcceptNumber(q, c, "type", TypeBytes, "HEAD_CKSUM"))
         /\ q.state = "HEAD_CKSUM" => s = AcceptHeadCksum(q, c)
         /\ q.state = "DATA" => s = Goes(AcceptData(q, c))
         /\ q.state = "DATA_CKSUM" => s = AcceptDataCksum(q, c)
BY DEF TF_AcceptChar

\* The step s goes on with the frame; it drops the frame; it delivers m.
GoesOn(s, h1) == s.out = NoMsg /\ s.p.state # "SOF" /\ PInv(s.p, h1)
Drops(s) == s.out = NoMsg /\ s.p = TF_ResetParser
DeliversMsg(s, m, h1) ==
  s.out = m /\ m \in Message /\ s.p = TF_ResetParser /\ h1 = Compose(m)

\* What becomes of a frame with the next byte depends on the bytes of it that
\* have been read: before its head is complete, with the head's checksum, and
\* behind it.
HeadStep(r, h, c, s) ==
  /\ h = HeadBytes(r.id, r.len, r.type)
  /\ c # Cksum(h) => Drops(s)
  /\ c = Cksum(h) /\ r.len = 0 =>
       DeliversMsg(s, [id |-> r.id, type |-> r.type, data |-> <<>>], Append(h, c))
  /\ c = Cksum(h) /\ r.len # 0 => GoesOn(s, Append(h, c))
DataStep(r, h, c, s) ==
  \E d \in Seq(Byte) :
    /\ h = ComposeHead(r.id, r.len, r.type) \o d /\ Len(d) <= r.len /\ r.len > 0
    /\ Len(d) < r.len => GoesOn(s, Append(h, c))
    /\ Len(d) = r.len /\ r.len <= MaxPayload /\ c = Cksum(d) =>
         DeliversMsg(s, [id |-> r.id, type |-> r.type, data |-> d], Append(h, c))
    /\ Len(d) = r.len /\ (r.len > MaxPayload \/ c # Cksum(d)) => Drops(s)

LEMMA FrameStep ==
  ASSUME ~Fork, NEW r, NEW h, PInv(r, h), ~Begins(r), NEW c \in Byte,
         NEW s, s = TF_AcceptChar(r, c)
  PROVE  /\ h \in Seq(Byte)
         /\ \/ Len(h) < HeadLen - 1 /\ GoesOn(s, Append(h, c))
            \/ Len(h) = HeadLen - 1 /\ HeadStep(r, h, c, s)
            \/ Len(h) >= HeadLen /\ DataStep(r, h, c, s)
<1> DEFINE q == Switch(r)
<1>1. /\ PInv(q, h) /\ q.state = r.state /\ r.state # "SOF"
      /\ q.id = r.id /\ q.len = r.len /\ q.type = r.type
  BY SwitchReads
<1>2. \A n : Goes(n).p = n /\ Goes(n).out = NoMsg
  BY DEF Goes
<1>3. /\ q.state = "ID" => s = Goes(AcceptNumber(q, c, "id", IdBytes, "LEN"))
      /\ q.state = "LEN" => s = Goes(AcceptNumber(q, c, "len", LenBytes, "TYPE"))
      /\ q.state = "TYPE" => s = Goes(AcceptNumber(q, c, "type", TypeBytes, "HEAD_CKSUM"))
      /\ q.state = "HEAD_CKSUM" => s = AcceptHeadCksum(q, c)
      /\ q.state = "DATA" => s = Goes(AcceptData(q, c))
      /\ q.state = "DATA_CKSUM" => s = AcceptDataCksum(q, c)
  BY CharSteps
<1> HIDE DEF q
<1>4. /\ h \in Seq(Byte)
      /\ q.state \in {"ID", "LEN", "TYPE"} => Len(h) < HeadLen - 1
      /\ q.state = "HEAD_CKSUM" => Len(h) = HeadLen - 1
      /\ q.state \in {"DATA", "DATA_CKSUM"} => Len(h) >= HeadLen
  BY <1>1, LengthTells
<1>5. /\ q.state \in {"ID", "LEN", "TYPE", "HEAD_CKSUM", "DATA", "DATA_CKSUM"}
      /\ q.id \in Nat /\ q.len \in Nat /\ q.type \in Nat /\ q.rxi \in Nat
  BY <1>1 DEF PInv, Fields, States
<1>6. CASE q.state = "ID"
  <2> DEFINE n == AcceptNumber(q, c, "id", IdBytes, "LEN")
  <2>1. PInv(n, Append(h, c)) /\ n.state # "SOF"
    BY <1>1, <1>6, AcceptsId
  <2>2. s.p = n /\ s.out = NoMsg
    BY <1>2, <1>3, <1>6
  <2> QED BY <1>4, <1>6, <2>1, <2>2 DEF GoesOn
<1>7. CASE q.state = "LEN"
  <2> DEFINE n == AcceptNumber(q, c, "len", LenBytes, "TYPE")
  <2>1. PInv(n, Append(h, c)) /\ n.state # "SOF"
    BY <1>1, <1>7, AcceptsLen
  <2>2. s.p = n /\ s.out = NoMsg
    BY <1>2, <1>3, <1>7
  <2> QED BY <1>4, <1>7, <2>1, <2>2 DEF GoesOn
<1>8. CASE q.state = "TYPE"
  <2> DEFINE n == AcceptNumber(q, c, "type", TypeBytes, "HEAD_CKSUM")
  <2>1. PInv(n, Append(h, c)) /\ n.state # "SOF"
    BY <1>1, <1>8, AcceptsType
  <2>2. s.p = n /\ s.out = NoMsg
    BY <1>2, <1>3, <1>8
  <2> QED BY <1>4, <1>8, <2>1, <2>2 DEF GoesOn
<1>9. CASE q.state = "HEAD_CKSUM"
  <2>1. h = HeadBytes(q.id, q.len, q.type)
    BY <1>1, <1>9 DEF PInv, Reads, AtHeadCksum
  <2>2. /\ c # Cksum(h) => s.p = TF_ResetParser /\ s.out = NoMsg
        /\ c = Cksum(h) /\ q.len = 0 =>
             /\ s.p = TF_ResetParser
             /\ s.out = [id |-> q.id, type |-> q.type, data |-> <<>>]
             /\ s.out \in Message /\ Append(h, c) = Compose(s.out)
        /\ c = Cksum(h) /\ q.len # 0 =>
             /\ s.out = NoMsg /\ s.p.state = "DATA" /\ PInv(s.p, Append(h, c))
    <3>1. PInv(q, h) /\ s = AcceptHeadCksum(q, c)
      BY <1>1, <1>3, <1>9
    <3> QED BY <1>9, <3>1, AcceptsHeadCksum, Zenon
  <2>3. HeadStep(r, h, c, s)
    BY <1>1, <2>1, <2>2 DEF HeadStep, Drops, DeliversMsg, GoesOn
  <2> QED BY <1>4, <1>9, <2>3
<1>10. CASE q.state = "DATA"
  <2> DEFINE n == AcceptData(q, c)
  <2>1. PInv(n, Append(h, c)) /\ n.state # "SOF"
    BY <1>1, <1>10, AcceptsData
  <2>2. s.p = n /\ s.out = NoMsg
    BY <1>2, <1>3, <1>10
  <2>3. GoesOn(s, Append(h, c))
    BY <2>1, <2>2 DEF GoesOn
  <2>4. PICK d \in Seq(Byte) :
          h = ComposeHead(q.id, q.len, q.type) \o d /\ Len(d) = q.rxi /\ q.rxi < q.len
    BY <1>1, <1>10 DEF PInv, Reads, InData
  <2>5. Len(d) <= q.len /\ q.len > 0 /\ ~(Len(d) = q.len)
    BY <1>5, <2>4
  <2>6. DataStep(r, h, c, s)
    BY <1>1, <2>3, <2>4, <2>5 DEF DataStep
  <2> QED BY <1>4, <1>10, <2>6
<1>11. CASE q.state = "DATA_CKSUM"
  <2>0. PICK d \in Seq(Byte) : Complete(q, h, d)
    BY <1>1, <1>11 DEF PInv, Reads, AtDataCksum, Complete
  <2>1. h = ComposeHead(q.id, q.len, q.type) \o d /\ Len(d) = q.len /\ q.len > 0
    BY <2>0 DEF Complete
  <2>2. FrameEnd(q, h, d, c, s)
    <3>1. PInv(q, h) /\ s = AcceptDataCksum(q, c)
      BY <1>1, <1>3, <1>11
    <3> QED BY <2>0, <3>1, AcceptsDataCksum, Zenon
  <2>3. /\ Len(d) <= q.len /\ ~(Len(d) < q.len)
        /\ (q.len > MaxPayload \/ c # Cksum(d)) => ~(q.len <= MaxPayload /\ c = Cksum(d))
    BY <1>5, <2>1, ConstantTypes
  <2>4. q.len <= MaxPayload /\ c = Cksum(d) =>
          DeliversMsg(s, [id |-> q.id, type |-> q.type, data |-> d], Append(h, c))
    BY <2>2 DEF DeliversMsg, FrameEnd
  <2>5. (q.len > MaxPayload \/ c # Cksum(d)) => Drops(s)
    BY <2>2, <2>3 DEF Drops, FrameEnd
  <2>6. DataStep(r, h, c, s)
    BY <1>1, <2>1, <2>3, <2>4, <2>5 DEF DataStep
  <2> QED BY <1>4, <1>11, <2>6
<1> QED BY <1>5, <1>6, <1>7, <1>8, <1>9, <1>10, <1>11

\* A byte that comes first: the start of a frame, or noise.
LEMMA FirstStep ==
  ASSUME ~Fork, NEW r, NEW h, PInv(r, h), Begins(r), NEW c, NEW s, s = TF_AcceptChar(r, c)
  PROVE  /\ c = SOF => GoesOn(s, <<c>>)
         /\ c # SOF => Drops(s)
<1>1. Switch(r).state = "SOF"
  BY SwitchReads
<1>2. s = Goes(IF c = SOF THEN pars_begin_frame ELSE TF_ResetParser)
  BY <1>1, CharSteps
<1>3. CASE c = SOF
  <2>1. s.p = pars_begin_frame /\ s.out = NoMsg
    BY <1>2, <1>3 DEF Goes
  <2> QED BY <1>3, <2>1, BeginReads DEF GoesOn
<1>4. CASE c # SOF
  <2>1. s.p = TF_ResetParser /\ s.out = NoMsg
    BY <1>2, <1>4 DEF Goes
  <2> QED BY <1>4, <2>1 DEF Drops
<1> QED BY <1>3, <1>4

\* Every byte goes on with a frame, ends it without a message, or delivers.
Outcome(s, h1) == GoesOn(s, h1) \/ Drops(s) \/ (\E m : DeliversMsg(s, m, h1))

LEMMA Outcomes ==
  ASSUME ~Fork, NEW r, NEW h, PInv(r, h), NEW c \in Byte, NEW s, s = TF_AcceptChar(r, c)
  PROVE  Outcome(s, IF Begins(r) THEN <<c>> ELSE Append(h, c))
<1>1. CASE Begins(r)
  <2>1. GoesOn(s, <<c>>) \/ Drops(s)
    BY <1>1, FirstStep
  <2> QED BY <1>1, <2>1 DEF Outcome
<1>2. CASE ~Begins(r)
  <2> DEFINE h1 == Append(h, c)
  <2>1. \/ GoesOn(s, h1)
        \/ HeadStep(r, h, c, s)
        \/ DataStep(r, h, c, s)
    BY <1>2, FrameStep
  <2>2. CASE HeadStep(r, h, c, s)
    <3>1. GoesOn(s, h1) \/ Drops(s)
            \/ DeliversMsg(s, [id |-> r.id, type |-> r.type, data |-> <<>>], h1)
      BY <2>2 DEF HeadStep
    <3> QED BY <1>2, <3>1 DEF Outcome
  <2>3. CASE DataStep(r, h, c, s)
    <3>1. PICK d \in Seq(Byte) :
            /\ Len(d) <= r.len
            /\ Len(d) < r.len => GoesOn(s, h1)
            /\ Len(d) = r.len /\ r.len <= MaxPayload /\ c = Cksum(d) =>
                 DeliversMsg(s, [id |-> r.id, type |-> r.type, data |-> d], h1)
            /\ Len(d) = r.len /\ (r.len > MaxPayload \/ c # Cksum(d)) => Drops(s)
      BY <2>3 DEF DataStep
    <3>2. r.len \in Nat /\ MaxPayload \in Nat /\ Len(d) \in Nat
      BY ConstantTypes DEF PInv, Fields
    <3>3. Len(d) < r.len \/ Len(d) = r.len
      BY <3>1, <3>2
    <3>4. r.len <= MaxPayload \/ r.len > MaxPayload
      BY <3>2
    <3>5. GoesOn(s, h1) \/ Drops(s)
            \/ DeliversMsg(s, [id |-> r.id, type |-> r.type, data |-> d], h1)
      BY <3>1, <3>3, <3>4
    <3> QED BY <1>2, <3>5 DEF Outcome
  <2>4. CASE GoesOn(s, h1)
    BY <1>2, <2>4 DEF Outcome
  <2> QED BY <2>1, <2>2, <2>3, <2>4
<1> QED BY <1>1, <1>2

LEMMA MessageIsMsg == NoMsg \notin Message
<1>1. NoMsg.id \notin 0 .. Pow(IdBytes) - 1
  BY ConstantTypes DEF NoMsg
<1> QED BY <1>1 DEF Message

\* What the byte c does to the variables.
LEMMA AcceptReads ==
  ASSUME ~Fork, PInv(p, hist), NEW c \in Byte, TF_Accept(c)
  PROVE  PInv(p', hist') /\ (out' = NoMsg \/ (out' \in Message /\ hist' = Compose(out')))
<1> DEFINE s == TF_AcceptChar(p, c)
           h1 == IF Begins(p) THEN <<c>> ELSE Append(hist, c)
<1>1. /\ p' = s.p /\ out' = s.out
      /\ hist' = IF s.p.state = "SOF" /\ s.out = NoMsg THEN <<>> ELSE h1
  BY DEF TF_Accept, Begins
<1>2. Outcome(s, h1)
  BY Outcomes
<1> HIDE DEF s, h1
<1>3. CASE GoesOn(s, h1)
  BY <1>1, <1>3 DEF GoesOn
<1>4. CASE Drops(s)
  <2>1. PInv(TF_ResetParser, hist')
    BY ResetReads
  <2> QED BY <1>1, <1>4, <2>1 DEF Drops
<1>5. CASE \E m : DeliversMsg(s, m, h1)
  <2>1. PICK m : DeliversMsg(s, m, h1)
    BY <1>5
  <2>2. s.out \in Message /\ s.out # NoMsg /\ h1 = Compose(s.out) /\ s.p = TF_ResetParser
    BY <2>1, MessageIsMsg DEF DeliversMsg
  <2>3. PInv(TF_ResetParser, hist')
    BY ResetReads
  <2> QED BY <1>1, <2>2, <2>3
<1> QED BY <1>2, <1>3, <1>4, <1>5 DEF Outcome

-----------------------------------------------------------------------------
(* The parser never delivers anything but a frame. *)

RInv ==
  /\ PInv(p, hist) /\ feed \in Seq(Byte)
  /\ out = NoMsg \/ hist = Compose(out)

LEMMA RInvInit == Init => RInv
<1> SUFFICES ASSUME Init PROVE RInv
  OBVIOUS
<1>1. PInv(p, hist)
  BY ResetReads DEF Init
<1> QED BY <1>1 DEF Init, RInv

LEMMA TickReads ==
  ASSUME PInv(p, hist), TF_Tick
  PROVE  PInv(p', hist') /\ p'.state = p.state
<1>1. p \in Fields /\ Widths(p) /\ Reads(p, hist) /\ TimeoutTicks \in Nat
  BY ConstantTypes DEF PInv
<1>2. hist' = hist /\ p' = [p EXCEPT !.ticks = p.ticks + 1] /\ ~(p.ticks >= TimeoutTicks)
  BY DEF TF_Tick, TimedOut
<1>3. p.ticks \in Nat
  BY <1>1 DEF Fields
<1>4. /\ p' \in Fields /\ p'.ticks = p.ticks + 1 /\ p'.state = p.state /\ p'.rxi = p.rxi
      /\ p'.id = p.id /\ p'.len = p.len /\ p'.type = p.type /\ p'.cksum = p.cksum
      /\ p'.data = p.data /\ p'.discard = p.discard
  BY <1>1, <1>2, <1>3 DEF Fields
<1>5. Widths(p')
  BY <1>1, <1>2, <1>3, <1>4 DEF Widths
<1>6. Reads(p', hist')
  <2>1. \A d : Stored(p, d) => Stored(p', d)
    BY <1>4 DEF Stored
  <2>2. Summed(p, hist) => Summed(p', hist')
    BY <1>2, <1>4 DEF Summed
  <2>3. InData(p, hist) => InData(p', hist')
    BY <1>2, <1>4, <2>1 DEF InData
  <2>4. AtDataCksum(p, hist) => AtDataCksum(p', hist')
    BY <1>2, <1>4, <2>1 DEF AtDataCksum
  <2>5. /\ InId(p, hist) => InId(p', hist')
        /\ InLen(p, hist) => InLen(p', hist')
        /\ InType(p, hist) => InType(p', hist')
        /\ AtHeadCksum(p, hist) => AtHeadCksum(p', hist')
    BY <1>2, <1>4, <2>2 DEF InId, InLen, InType, AtHeadCksum
  <2> QED BY <1>1, <1>4, <2>3, <2>4, <2>5 DEF Reads
<1> QED BY <1>4, <1>5, <1>6 DEF PInv

LEMMA RInvNext ==
  ASSUME ~Fork, RInv, [Next]_vars
  PROVE  RInv'
<1>1. PInv(p, hist) /\ feed \in Seq(Byte) /\ (out = NoMsg \/ hist = Compose(out))
  BY DEF RInv
<1>2. ASSUME NEW c \in Byte, TF_Accept(c)
      PROVE  PInv(p', hist') /\ (out' = NoMsg \/ hist' = Compose(out'))
  BY <1>1, <1>2, AcceptReads
<1>3. ASSUME NEW c \in Byte, Noise(c) PROVE RInv'
  <2>1. TF_Accept(c) /\ feed' = feed
    BY <1>3 DEF Noise
  <2> QED BY <1>1, <1>2, <2>1 DEF RInv
<1>4. ASSUME NEW c \in Byte, Corrupt(c) PROVE RInv'
  <2>1. TF_Accept(c) /\ feed' = Tail(feed) /\ feed # <<>>
    BY <1>4 DEF Corrupt
  <2>2. Tail(feed) \in Seq(Byte)
    BY <1>1, <2>1
  <2> QED BY <1>2, <2>1, <2>2 DEF RInv
<1>5. ASSUME NEW m \in Frames, Send(m) PROVE RInv'
  <2>1. feed' = Compose(m) /\ out' = NoMsg /\ p' = p /\ hist' = hist
    BY <1>5 DEF Send
  <2>2. m \in Message
    BY FramesAssumption
  <2>3. Compose(m) \in Seq(Byte)
    BY <2>2, ComposeIs
  <2> QED BY <1>1, <2>1, <2>3 DEF RInv
<1>6. CASE Receive
  <2>1. feed # <<>> /\ TF_Accept(Head(feed)) /\ feed' = Tail(feed)
    BY <1>6 DEF Receive
  <2>2. Head(feed) \in Byte /\ Tail(feed) \in Seq(Byte)
    BY <1>1, <2>1
  <2> QED BY <1>2, <2>1, <2>2 DEF RInv
<1>7. CASE Lose
  <2>1. feed # <<>> /\ feed' = Tail(feed) /\ out' = NoMsg /\ p' = p /\ hist' = hist
    BY <1>7 DEF Lose
  <2>2. Tail(feed) \in Seq(Byte)
    BY <1>1, <2>1
  <2> QED BY <1>1, <2>1, <2>2 DEF RInv
<1>8. CASE TF_Tick
  <2>1. PInv(p', hist')
    BY <1>1, <1>8, TickReads
  <2>2. out' = out /\ hist' = hist /\ feed' = feed
    BY <1>8 DEF TF_Tick
  <2> QED BY <1>1, <2>1, <2>2 DEF RInv
<1>9. CASE UNCHANGED vars
  BY <1>1, <1>9 DEF RInv, vars
<1> QED BY <1>3, <1>4, <1>5, <1>6, <1>7, <1>8, <1>9 DEF Next

LEMMA RInvMeans == RInv => TypeOK /\ DeliveredIsFrame
<1> SUFFICES ASSUME RInv PROVE TypeOK /\ DeliveredIsFrame
  OBVIOUS
<1>1. p \in Fields /\ Widths(p)
  BY DEF RInv, PInv
<1>2. TypeOK
  BY <1>1, ConstantTypes DEF TypeOK, Fields, States, Widths
<1> QED BY <1>2 DEF RInv, DeliveredIsFrame

LEMMA SpecRInv ==
  ASSUME ~Fork
  PROVE  Spec => []RInv
<1>1. RInv /\ [Next]_vars => RInv'
  BY RInvNext
<1> QED BY <1>1, RInvInit, PTL DEF Spec

\* The parser's numbers never exceed the C types that hold them, whatever the
\* line does, and no payload is stored beyond the buffer (TF_AcceptChar and
\* its discard_data flag).
THEOREM ParserTypes ==
  ASSUME ~Fork
  PROVE  Spec => []TypeOK
BY SpecRInv, RInvMeans, PTL

\* A message that TF_AcceptChar passes to TF_HandleReceivedMessage is the
\* content of a frame that arrived byte after byte, with the checksums of its
\* head and its payload, whatever noise, changed and lost bytes came before.
THEOREM DeliveriesAreFrames ==
  ASSUME ~Fork
  PROVE  Spec => []DeliveredIsFrame
BY SpecRInv, RInvMeans, PTL

-----------------------------------------------------------------------------
(* A frame determines its message. *)

\* s is the bytes a followed by the bytes b.
Joined(a, b, s) ==
  /\ s \in Seq(Byte) /\ Len(s) = Len(a) + Len(b)
  /\ \A i \in 1 .. Len(a) : s[i] = a[i]
  /\ \A i \in 1 .. Len(b) : s[Len(a) + i] = b[i]

LEMMA ConcatFacts ==
  ASSUME NEW a \in Seq(Byte), NEW b \in Seq(Byte)
  PROVE  Joined(a, b, a \o b)
<1>1. a \o b \in Seq(Byte) /\ Len(a \o b) = Len(a) + Len(b)
  OBVIOUS
<1>2. ASSUME NEW i \in 1 .. Len(a) PROVE (a \o b)[i] = a[i]
  OBVIOUS
<1>3. ASSUME NEW i \in 1 .. Len(b) PROVE (a \o b)[Len(a) + i] = b[i]
  OBVIOUS
<1> QED BY <1>1, <1>2, <1>3 DEF Joined

LEMMA SeqEqual ==
  ASSUME NEW a \in Seq(Byte), NEW b \in Seq(Byte), Len(a) = Len(b),
         \A i \in 1 .. Len(a) : a[i] = b[i]
  PROVE  a = b
OBVIOUS

LEMMA AppendInjective ==
  ASSUME NEW a \in Seq(Byte), NEW b \in Seq(Byte), NEW x \in Byte, NEW y \in Byte,
         Append(a, x) = Append(b, y)
  PROVE  a = b /\ x = y
<1>1. Len(a) = Len(b)
  OBVIOUS
<1> QED BY <1>1

LEMMA ConcatInjective ==
  ASSUME NEW a \in Seq(Byte), NEW b \in Seq(Byte), NEW x \in Seq(Byte), NEW y \in Seq(Byte),
         Len(a) = Len(x), a \o b = x \o y
  PROVE  a = x /\ b = y
<1> DEFINE s == a \o b
<1>1. Joined(a, b, s) /\ Joined(x, y, s)
  BY ConcatFacts, Zenon
<1> HIDE DEF s
<1>2. Len(a) \in Nat /\ Len(b) \in Nat /\ Len(y) \in Nat
  OBVIOUS
<1>3. a = x
  <2>1. \A i \in 1 .. Len(a) : a[i] = x[i]
    BY <1>1 DEF Joined
  <2> QED BY <2>1
<1>4. b = y
  <2>1. Len(b) = Len(y)
    <3>1. Len(a) + Len(b) = Len(a) + Len(y)
      BY <1>1 DEF Joined
    <3> QED BY <1>2, <3>1
  <2>2. \A i \in 1 .. Len(b) : b[i] = y[i]
    BY <1>1, <2>1 DEF Joined
  <2> QED BY <2>1, <2>2, SeqEqual, Zenon
<1> QED BY <1>3, <1>4

LEMMA HeadInjective ==
  ASSUME NEW i \in 0 .. Pow(IdBytes) - 1, NEW l \in 0 .. Pow(LenBytes) - 1,
         NEW t \in 0 .. Pow(TypeBytes) - 1,
         NEW i2 \in 0 .. Pow(IdBytes) - 1, NEW l2 \in 0 .. Pow(LenBytes) - 1,
         NEW t2 \in 0 .. Pow(TypeBytes) - 1,
         HeadBytes(i, l, t) = HeadBytes(i2, l2, t2)
  PROVE  i = i2 /\ l = l2 /\ t = t2
<1>0. /\ IdBytes \in Nat /\ LenBytes \in Nat /\ TypeBytes \in Nat
      /\ i \in Nat /\ l \in Nat /\ t \in Nat /\ i2 \in Nat /\ l2 \in Nat /\ t2 \in Nat
  BY ConstantTypes
<1>1. ASSUME NEW x \in Nat, NEW k \in Nat
      PROVE  WriteNum(x, k) \in Seq(Byte) /\ Len(WriteNum(x, k)) = k
  BY WriteNumType
<1>2. WithLen(i, l, LenBytes) = WithLen(i2, l2, LenBytes)
        /\ WriteNum(t, TypeBytes) = WriteNum(t2, TypeBytes)
  <2> DEFINE a == WithLen(i, l, LenBytes)
             b == WriteNum(t, TypeBytes)
             x == WithLen(i2, l2, LenBytes)
             y == WriteNum(t2, TypeBytes)
  <2>1. /\ a \in Seq(Byte) /\ x \in Seq(Byte) /\ Len(a) = Len(x)
    <3>1. \A id, len, k \in Nat : /\ WithLen(id, len, k) \in Seq(Byte)
                                   /\ Len(WithLen(id, len, k)) = 1 + IdBytes + k
      BY PrefixTypes
    <3>2. a \in Seq(Byte) /\ Len(a) = 1 + IdBytes + LenBytes
      BY <1>0, <3>1, Zenon
    <3>3. x \in Seq(Byte) /\ Len(x) = 1 + IdBytes + LenBytes
      BY <1>0, <3>1, Zenon
    <3> QED BY <3>2, <3>3, Zenon
  <2>2. b \in Seq(Byte) /\ y \in Seq(Byte)
    BY <1>0, <1>1
  <2>3. a \o b = x \o y
    BY DEF HeadBytes, WithType
  <2> HIDE DEF a, b, x, y
  <2>4. a = x /\ b = y
    BY <2>1, <2>2, <2>3, ConcatInjective
  <2> QED BY <2>4 DEF a, b, x, y
<1>3. WithId(i, IdBytes) = WithId(i2, IdBytes)
        /\ WriteNum(l, LenBytes) = WriteNum(l2, LenBytes)
  <2> DEFINE a == WithId(i, IdBytes)
             b == WriteNum(l, LenBytes)
             x == WithId(i2, IdBytes)
             y == WriteNum(l2, LenBytes)
  <2>1. /\ a \in Seq(Byte) /\ x \in Seq(Byte) /\ Len(a) = Len(x)
    <3>1. \A j \in Nat : /\ WithId(j, IdBytes) \in Seq(Byte)
                          /\ Len(WithId(j, IdBytes)) = 1 + IdBytes
      BY <1>0, PrefixTypes
    <3>2. Len(a) = 1 + IdBytes /\ Len(x) = 1 + IdBytes
      BY <1>0, <3>1, Zenon
    <3> QED BY <1>0, <3>1, <3>2, Zenon
  <2>2. b \in Seq(Byte) /\ y \in Seq(Byte)
    BY <1>0, <1>1
  <2>3. a \o b = x \o y
    BY <1>2 DEF WithLen
  <2> HIDE DEF a, b, x, y
  <2>4. a = x /\ b = y
    BY <2>1, <2>2, <2>3, ConcatInjective
  <2> QED BY <2>4 DEF a, b, x, y
<1>4. WriteNum(i, IdBytes) = WriteNum(i2, IdBytes)
  <2> DEFINE a == <<SOF>>
             b == WriteNum(i, IdBytes)
             y == WriteNum(i2, IdBytes)
  <2>1. a \in Seq(Byte)
    BY ConstantTypes
  <2>2. b \in Seq(Byte) /\ y \in Seq(Byte)
    BY <1>0, <1>1
  <2>3. a \o b = a \o y
    BY <1>3 DEF WithId
  <2> HIDE DEF a, b, y
  <2>4. b = y
    BY <2>1, <2>2, <2>3, ConcatInjective
  <2> QED BY <2>4 DEF b, y
<1>5. i = i2
  BY <1>0, <1>4, WriteNumInjective
<1>6. l = l2
  BY <1>0, <1>3, WriteNumInjective
<1>7. t = t2
  BY <1>0, <1>2, WriteNumInjective
<1> QED BY <1>5, <1>6, <1>7

\* The bytes of a frame at each place.
LEMMA PrefixNext ==
  ASSUME NEW C \in Seq(Byte), NEW g \in 0 .. Len(C) - 1
  PROVE  /\ SubSeq(C, 1, g) \in Seq(Byte) /\ Len(SubSeq(C, 1, g)) = g /\ C[g + 1] \in Byte
         /\ SubSeq(C, 1, g + 1) = Append(SubSeq(C, 1, g), C[g + 1])
<1>1. g \in Nat /\ g + 1 <= Len(C)
  OBVIOUS
<1>2. SubSeq(C, 1, g) \in Seq(Byte) /\ Len(SubSeq(C, 1, g)) = g /\ C[g + 1] \in Byte
  BY <1>1
<1>3. SubSeq(C, 1, g + 1) \in Seq(Byte) /\ Len(SubSeq(C, 1, g + 1)) = g + 1
  BY <1>1
<1>4. \A i \in 1 .. g : SubSeq(C, 1, g)[i] = C[i]
  BY <1>1
<1>5. \A i \in 1 .. g + 1 : SubSeq(C, 1, g + 1)[i] = C[i]
  BY <1>1
<1> DEFINE a == SubSeq(C, 1, g)
           b == SubSeq(C, 1, g + 1)
<1> HIDE DEF a, b
<1>6. b = Append(a, C[g + 1])
  <2>1. /\ a \in Seq(Byte) /\ Len(a) = g /\ b \in Seq(Byte) /\ Len(b) = g + 1
        /\ \A i \in 1 .. g : a[i] = C[i]
        /\ \A i \in 1 .. g + 1 : b[i] = C[i]
    BY <1>2, <1>3, <1>4, <1>5 DEF a, b
  <2> DEFINE e == Append(a, C[g + 1])
  <2>2. e \in Seq(Byte) /\ Len(e) = g + 1 /\ e[g + 1] = C[g + 1]
    BY <1>1, <1>2, <2>1
  <2>3. \A i \in 1 .. g : e[i] = a[i]
    BY <2>1
  <2> HIDE DEF e
  <2>4. \A i \in 1 .. g + 1 : e[i] = b[i]
    BY <1>1, <2>1, <2>2, <2>3
  <2>5. e = b
    BY <2>1, <2>2, <2>4
  <2> QED BY <2>5 DEF e
<1> QED BY <1>2, <1>6 DEF a, b

IsFrame(C, m, n) ==
  /\ C \in Seq(Byte) /\ n \in Nat /\ HeadLen \in Nat /\ HeadLen > 2
  /\ Len(C) = (IF n = 0 THEN HeadLen ELSE HeadLen + n + 1) /\ C[1] = SOF
  /\ SubSeq(C, 1, HeadLen - 1) = HeadBytes(m.id, n, m.type)
  /\ C[HeadLen] = Cksum(HeadBytes(m.id, n, m.type))
  /\ \A g \in HeadLen .. HeadLen + n :
       SubSeq(C, 1, g) = ComposeHead(m.id, n, m.type) \o SubSeq(m.data, 1, g - HeadLen)
  /\ n > 0 => C[HeadLen + n + 1] = Cksum(m.data)

LEMMA FrameFacts ==
  ASSUME NEW m \in Message, NEW C, C = Compose(m), NEW n, n = Len(m.data)
  PROVE  IsFrame(C, m, n)
<1> DEFINE b == HeadBytes(m.id, n, m.type)
           a == ComposeHead(m.id, n, m.type)
           d == m.data
           k == Cksum(d)
<1>1. m.id \in Nat /\ m.type \in Nat /\ d \in Seq(Byte) /\ n \in Nat /\ Len(d) = n
  BY ConstantTypes DEF Message
<1>2. /\ b \in Seq(Byte) /\ Len(b) = HeadLen - 1 /\ HeadLen \in Nat
      /\ a = Append(b, Cksum(b)) /\ a \in Seq(Byte) /\ Len(a) = HeadLen
  BY <1>1, HeadIs
<1>3. HeadLen > 2
  BY ConstantTypes DEF HeadLen
<1>4. k \in Byte /\ Cksum(b) \in Byte
  BY <1>1, <1>2, CksumFacts
<1>5. b[1] = SOF
  <2> DEFINE u == WriteNum(m.id, IdBytes)
             v == WriteNum(n, LenBytes)
             w == WriteNum(m.type, TypeBytes)
  <2>1. u \in Seq(Byte) /\ v \in Seq(Byte) /\ w \in Seq(Byte) /\ SOF \in Byte
    BY <1>1, ConstantTypes, WriteNumType
  <2>2. b = <<SOF>> \o u \o v \o w
    BY DEF HeadBytes, WithType, WithLen, WithId
  <2> HIDE DEF u, v, w, b
  <2>3. (<<SOF>> \o u)[1] = SOF /\ <<SOF>> \o u \in Seq(Byte) /\ Len(<<SOF>> \o u) >= 1
    BY <2>1
  <2> DEFINE e == <<SOF>> \o u
  <2>4. b = e \o v \o w /\ e \in Seq(Byte) /\ Len(e) >= 1 /\ e[1] = SOF
    BY <2>2, <2>3
  <2> HIDE DEF e
  <2>5. (e \o v)[1] = SOF /\ e \o v \in Seq(Byte) /\ Len(e \o v) >= 1
    BY <2>1, <2>4
  <2> DEFINE f == e \o v
  <2>6. b = f \o w /\ f \in Seq(Byte) /\ Len(f) >= 1 /\ f[1] = SOF
    BY <2>4, <2>5
  <2> HIDE DEF f
  <2> QED BY <2>1, <2>6
<1>6. /\ d = <<>> => C = a
      /\ d # <<>> => C = Append(a \o d, k)
      /\ C \in Seq(Byte) /\ Len(C) = HeadLen + n + (IF d = <<>> THEN 0 ELSE 1)
  <2>1. n = 0 <=> d = <<>>
    BY <1>1
  <2> QED BY <1>1, <2>1, ComposeIs
<1>7. n = 0 <=> d = <<>>
  BY <1>1
<1> HIDE DEF b, a, d, k
<1>8. /\ Len(C) = (IF n = 0 THEN HeadLen ELSE HeadLen + n + 1)
      /\ Len(C) >= HeadLen + n
  <2>1. CASE n = 0
    <3>1. Len(C) = HeadLen + n + 0
      BY <1>6, <1>7, <2>1
    <3> QED BY <1>2, <2>1, <3>1
  <2>2. CASE n # 0
    <3>1. Len(C) = HeadLen + n + 1
      BY <1>6, <1>7, <2>2
    <3> QED BY <1>1, <1>2, <2>2, <3>1
  <2> QED BY <2>1, <2>2
<1>9. /\ \A j \in 1 .. HeadLen : C[j] = a[j]
      /\ \A j \in 1 .. n : C[HeadLen + j] = d[j]
      /\ n > 0 => C[HeadLen + n + 1] = k
  <2>1. CASE d = <<>>
    BY <1>1, <1>6, <1>7, <2>1
  <2>2. CASE d # <<>>
    <3> DEFINE e == a \o d
    <3>1. /\ e \in Seq(Byte) /\ Len(e) = HeadLen + n
          /\ \A j \in 1 .. HeadLen : e[j] = a[j]
          /\ \A j \in 1 .. n : e[HeadLen + j] = d[j]
      <4>1. Joined(a, d, e)
        BY <1>1, <1>2, ConcatFacts, Zenon
      <4> HIDE DEF e
      <4> QED BY <1>1, <1>2, <4>1 DEF Joined
    <3>2. C = Append(e, k)
      BY <1>6, <2>2
    <3> HIDE DEF e
    <3>3. /\ C[HeadLen + n + 1] = k
          /\ \A j \in 1 .. HeadLen + n : C[j] = e[j]
      BY <1>1, <1>2, <1>4, <3>1, <3>2
    <3>4. /\ \A j \in 1 .. HeadLen : j \in 1 .. HeadLen + n
          /\ \A j \in 1 .. n : HeadLen + j \in 1 .. HeadLen + n
      BY <1>1, <1>2
    <3> QED BY <3>1, <3>3, <3>4
  <2> QED BY <2>1, <2>2
<1>10. /\ a[HeadLen] = Cksum(b)
       /\ \A j \in 1 .. HeadLen - 1 : a[j] = b[j]
  BY <1>2, <1>3, <1>4
<1>11. C[1] = SOF /\ C[HeadLen] = Cksum(b)
  BY <1>2, <1>3, <1>5, <1>9, <1>10
<1>12. SubSeq(C, 1, HeadLen - 1) = b
  <2> DEFINE e == SubSeq(C, 1, HeadLen - 1)
  <2>0. HeadLen - 1 \in Nat /\ HeadLen - 1 <= Len(C)
    <3>1. Len(C) \in Nat /\ Len(C) >= HeadLen + n
      BY <1>6, <1>8
    <3> QED BY <1>1, <1>2, <1>3, <3>1
  <2>1. e \in Seq(Byte) /\ Len(e) = HeadLen - 1 /\ \A j \in 1 .. HeadLen - 1 : e[j] = C[j]
    <3> DEFINE z == HeadLen - 1
    <3>1. z \in Nat /\ z <= Len(C) /\ C \in Seq(Byte)
      BY <1>6, <2>0
    <3> HIDE DEF z
    <3>2. SubSeq(C, 1, z) \in Seq(Byte) /\ Len(SubSeq(C, 1, z)) = z
      BY <3>1
    <3>3. \A j \in 1 .. z : SubSeq(C, 1, z)[j] = C[j]
      BY <3>1
    <3> QED BY <3>2, <3>3 DEF z
  <2> HIDE DEF e
  <2>2. \A j \in 1 .. HeadLen - 1 : e[j] = b[j]
    BY <1>2, <1>9, <1>10, <2>1
  <2>3. e = b
    BY <1>2, <2>1, <2>2
  <2> QED BY <2>3 DEF e
<1>13. ASSUME NEW g \in HeadLen .. HeadLen + n
       PROVE  SubSeq(C, 1, g) = a \o SubSeq(d, 1, g - HeadLen)
  <2> DEFINE e == SubSeq(C, 1, g)
             f == SubSeq(d, 1, g - HeadLen)
  <2>0. g \in Nat /\ g - HeadLen \in 0 .. n /\ g <= Len(C)
    BY <1>1, <1>2, <1>8
  <2>1. e \in Seq(Byte) /\ Len(e) = g /\ \A j \in 1 .. g : e[j] = C[j]
    BY <1>6, <2>0
  <2>2. f \in Seq(Byte) /\ Len(f) = g - HeadLen /\ \A j \in 1 .. g - HeadLen : f[j] = d[j]
    BY <1>1, <2>0
  <2> HIDE DEF e, f
  <2> DEFINE u == a \o f
  <2>3. /\ u \in Seq(Byte) /\ Len(u) = g
        /\ \A j \in 1 .. HeadLen : u[j] = a[j]
        /\ \A j \in 1 .. g - HeadLen : u[HeadLen + j] = f[j]
    <3> DEFINE z == g - HeadLen
    <3>1. z \in Nat /\ Len(f) = z /\ HeadLen + z = g
      BY <1>2, <2>0, <2>2
    <3> HIDE DEF z
    <3>2. /\ u \in Seq(Byte) /\ Len(u) = HeadLen + z
          /\ \A j \in 1 .. HeadLen : u[j] = a[j]
          /\ \A j \in 1 .. z : u[HeadLen + j] = f[j]
      <4>1. Joined(a, f, u)
        BY <1>2, <2>2, ConcatFacts, Zenon
      <4> HIDE DEF u
      <4> QED BY <1>2, <3>1, <4>1 DEF Joined
    <3> QED BY <3>1, <3>2 DEF z
  <2> HIDE DEF u
  <2>4. ASSUME NEW j \in 1 .. g PROVE e[j] = u[j]
    <3>1. CASE j <= HeadLen
      <4>1. j \in 1 .. HeadLen
        BY <1>2, <3>1
      <4> QED BY <1>9, <2>1, <2>3, <4>1
    <3>2. CASE j > HeadLen
      <4> DEFINE i == j - HeadLen
      <4>1. i \in 1 .. g - HeadLen /\ j = HeadLen + i /\ i \in 1 .. n
        BY <1>1, <1>2, <2>0, <3>2
      <4>2. u[HeadLen + i] = f[i] /\ f[i] = d[i] /\ C[HeadLen + i] = d[i]
        BY <1>9, <2>2, <2>3, <4>1
      <4> QED BY <2>1, <4>1, <4>2
    <3> QED BY <1>2, <2>0, <3>1, <3>2
  <2>5. e = u
    <3>1. \A j \in 1 .. Len(e) : e[j] = u[j]
      BY <2>1, <2>4
    <3> QED BY <2>1, <2>3, <3>1
  <2> QED BY <2>5 DEF e, f, u
<1> QED BY <1>1, <1>2, <1>3, <1>6, <1>8, <1>9, <1>11, <1>12, <1>13 DEF IsFrame, a, b, d, k

-----------------------------------------------------------------------------
(* A frame that arrives unharmed. *)

Fits(m) == m \in Message /\ Len(m.data) < Pow(LenBytes)

\* The parser's fields have the values of the frame it is in.
Agree(q, m) == q.id = m.id /\ q.len = Len(m.data) /\ q.type = m.type

LEMMA FieldsAreFrames ==
  ASSUME NEW m, Fits(m), NEW q, q \in Fields, Widths(q),
         HeadBytes(q.id, q.len, q.type) = HeadBytes(m.id, Len(m.data), m.type)
  PROVE  Agree(q, m)
<1> DEFINE i == q.id
           l == q.len
           t == q.type
           i2 == m.id
           l2 == Len(m.data)
           t2 == m.type
<1>1. /\ i \in 0 .. Pow(IdBytes) - 1 /\ l \in 0 .. Pow(LenBytes) - 1
      /\ t \in 0 .. Pow(TypeBytes) - 1
  BY ConstantTypes DEF Fields, Widths
<1>2. /\ i2 \in 0 .. Pow(IdBytes) - 1 /\ l2 \in 0 .. Pow(LenBytes) - 1
      /\ t2 \in 0 .. Pow(TypeBytes) - 1
  BY ConstantTypes DEF Fits, Message
<1>3. HeadBytes(i, l, t) = HeadBytes(i2, l2, t2)
  OBVIOUS
<1> HIDE DEF i, l, t, i2, l2, t2
<1>4. i = i2 /\ l = l2 /\ t = t2
  BY <1>1, <1>2, <1>3, HeadInjective
<1> QED BY <1>4 DEF Agree, i, l, t, i2, l2, t2

\* The same once the head is complete, and the bytes behind it are payload.
LEMMA HeadsAreFrames ==
  ASSUME NEW m, Fits(m), NEW q, q \in Fields, Widths(q),
         NEW d \in Seq(Byte), NEW e \in Seq(Byte),
         ComposeHead(q.id, q.len, q.type) \o d = ComposeHead(m.id, Len(m.data), m.type) \o e
  PROVE  Agree(q, m) /\ d = e
<1> DEFINE a == ComposeHead(q.id, q.len, q.type)
           b == HeadBytes(q.id, q.len, q.type)
           a2 == ComposeHead(m.id, Len(m.data), m.type)
           b2 == HeadBytes(m.id, Len(m.data), m.type)
<1>1. /\ q.id \in Nat /\ q.len \in Nat /\ q.type \in Nat
      /\ m.id \in Nat /\ Len(m.data) \in Nat /\ m.type \in Nat
  BY ConstantTypes DEF Fields, Fits, Message
<1>2. /\ a \in Seq(Byte) /\ Len(a) = HeadLen /\ b \in Seq(Byte) /\ a = Append(b, Cksum(b))
  BY <1>1, HeadIs
<1>3. /\ a2 \in Seq(Byte) /\ Len(a2) = HeadLen /\ b2 \in Seq(Byte)
      /\ a2 = Append(b2, Cksum(b2))
  BY <1>1, HeadIs
<1>4. a \o d = a2 \o e
  OBVIOUS
<1> HIDE DEF a, b, a2, b2
<1>5. a = a2 /\ d = e
  BY <1>2, <1>3, <1>4, ConcatInjective, Zenon
<1>6. b = b2
  <2>1. Cksum(b) \in Byte /\ Cksum(b2) \in Byte
    BY <1>2, <1>3, CksumFacts
  <2> DEFINE x == Cksum(b)
             y == Cksum(b2)
  <2>2. x \in Byte /\ y \in Byte /\ Append(b, x) = Append(b2, y)
    BY <1>2, <1>3, <1>5, <2>1
  <2> HIDE DEF x, y
  <2> QED BY <1>2, <1>3, <2>2, AppendInjective, Zenon
<1>7. HeadBytes(q.id, q.len, q.type) = HeadBytes(m.id, Len(m.data), m.type)
  BY <1>6 DEF b, b2
<1> QED BY <1>5, <1>7, FieldsAreFrames

\* The end of a frame: the message, unless it is too long.
Ends(s, m) ==
  s.p = TF_ResetParser /\ s.out = IF Len(m.data) <= MaxPayload THEN m ELSE NoMsg

\* The next byte of a frame of which all bytes so far have been read.
LEMMA RightByte ==
  ASSUME ~Fork, NEW m, Fits(m), NEW C, C = Compose(m), NEW g \in 1 .. Len(C) - 1,
         NEW r, PInv(r, SubSeq(C, 1, g)), ~Begins(r),
         NEW s, s = TF_AcceptChar(r, C[g + 1])
  PROVE  IF g + 1 < Len(C) THEN GoesOn(s, SubSeq(C, 1, g + 1)) ELSE Ends(s, m)
<1> DEFINE h == SubSeq(C, 1, g)
           c == C[g + 1]
           n == Len(m.data)
<1>0. IsFrame(C, m, n) /\ n = Len(m.data)
  BY FrameFacts, Zenon DEF Fits
<1> HIDE DEF n
<1>1. /\ SubSeq(C, 1, HeadLen - 1) = HeadBytes(m.id, n, m.type)
      /\ C[HeadLen] = Cksum(HeadBytes(m.id, n, m.type))
      /\ \A j \in HeadLen .. HeadLen + n :
           SubSeq(C, 1, j) = ComposeHead(m.id, n, m.type) \o SubSeq(m.data, 1, j - HeadLen)
      /\ n > 0 => C[HeadLen + n + 1] = Cksum(m.data)
  BY <1>0 DEF IsFrame
<1>2. /\ C \in Seq(Byte) /\ n \in Nat /\ HeadLen \in Nat /\ HeadLen > 2
      /\ Len(C) = (IF n = 0 THEN HeadLen ELSE HeadLen + n + 1)
      /\ g \in Nat /\ g \in 0 .. Len(C) - 1 /\ g + 1 <= Len(C) /\ Len(C) \in Nat
  BY <1>0 DEF IsFrame
<1>3. /\ h \in Seq(Byte) /\ Len(h) = g /\ c \in Byte
      /\ SubSeq(C, 1, g + 1) = Append(h, c)
  <2>1. C \in Seq(Byte) /\ g \in 0 .. Len(C) - 1
    BY <1>2
  <2> QED BY <2>1, PrefixNext
<1>4. r \in Fields /\ Widths(r) /\ r.len \in Nat
  BY DEF PInv, Fields
<1>5. m.data \in Seq(Byte) /\ m \in Message
       /\ m = [id |-> m.id, type |-> m.type, data |-> m.data]
  BY DEF Fits, Message
<1> HIDE DEF h, c
<1>6. \/ g < HeadLen - 1 /\ GoesOn(s, Append(h, c))
      \/ g = HeadLen - 1 /\ HeadStep(r, h, c, s)
      \/ g >= HeadLen /\ DataStep(r, h, c, s)
  <2>1. PInv(r, h) /\ s = TF_AcceptChar(r, c)
    BY DEF h, c
  <2> QED BY <1>3, <2>1, FrameStep
<1>7. CASE g < HeadLen - 1 /\ GoesOn(s, Append(h, c))
  <2>1. g + 1 < Len(C)
    BY <1>2, <1>7
  <2> QED BY <1>3, <1>7, <2>1
<1>8. CASE g = HeadLen - 1 /\ HeadStep(r, h, c, s)
  <2>1. h = HeadBytes(m.id, n, m.type)
    BY <1>1, <1>8 DEF h
  <2>2. c = Cksum(h)
    <3>1. g + 1 = HeadLen
      BY <1>2, <1>8
    <3> QED BY <1>1, <2>1, <3>1 DEF c
  <2>3. r.id = m.id /\ r.len = n /\ r.type = m.type
    <3>1. HeadBytes(r.id, r.len, r.type) = HeadBytes(m.id, n, m.type)
      BY <1>8, <2>1 DEF HeadStep
    <3>2. Agree(r, m)
      BY <1>0, <1>4, <3>1, FieldsAreFrames
    <3> QED BY <1>0, <3>2 DEF Agree
  <2>4. CASE n = 0
    <3>1. m.data = <<>>
      <4>1. m.data \in Seq(Byte) /\ Len(m.data) = 0
        BY <1>0, <1>5, <2>4
      <4> QED BY <4>1
    <3>2. s.out = m /\ s.p = TF_ResetParser
      BY <1>5, <1>8, <2>2, <2>3, <2>4, <3>1 DEF HeadStep, DeliversMsg
    <3>3. ~(g + 1 < Len(C)) /\ n <= MaxPayload
      BY <1>2, <1>8, <2>4, ConstantTypes
    <3> QED BY <1>0, <3>2, <3>3 DEF Ends
  <2>5. CASE n # 0
    <3>1. GoesOn(s, Append(h, c))
      BY <1>8, <2>2, <2>3, <2>5 DEF HeadStep
    <3>2. g + 1 < Len(C)
      BY <1>2, <1>8, <2>5
    <3> QED BY <1>3, <3>1, <3>2
  <2> QED BY <2>4, <2>5
<1>9. CASE g >= HeadLen /\ DataStep(r, h, c, s)
  <2> DEFINE e == SubSeq(m.data, 1, g - HeadLen)
  <2>0. n > 0 /\ g \in HeadLen .. HeadLen + n /\ g - HeadLen \in 0 .. n /\ Len(C) = HeadLen + n + 1
    BY <1>2, <1>9
  <2>1. h = ComposeHead(m.id, n, m.type) \o e
    BY <1>1, <2>0 DEF h
  <2>2. e \in Seq(Byte) /\ Len(e) = g - HeadLen
    BY <1>0, <1>5, <2>0
  <2>3. PICK d \in Seq(Byte) :
          /\ h = ComposeHead(r.id, r.len, r.type) \o d
          /\ Len(d) < r.len => GoesOn(s, Append(h, c))
          /\ Len(d) = r.len /\ r.len <= MaxPayload /\ c = Cksum(d) =>
               DeliversMsg(s, [id |-> r.id, type |-> r.type, data |-> d], Append(h, c))
          /\ Len(d) = r.len /\ (r.len > MaxPayload \/ c # Cksum(d)) => Drops(s)
    BY <1>9 DEF DataStep
  <2> HIDE DEF e
  <2>4. r.id = m.id /\ r.len = n /\ r.type = m.type /\ d = e
    <3>1. ComposeHead(r.id, r.len, r.type) \o d = ComposeHead(m.id, Len(m.data), m.type) \o e
      BY <1>0, <2>1, <2>3
    <3>2. Agree(r, m) /\ d = e
      BY <1>4, <2>2, <3>1, HeadsAreFrames, Zenon
    <3> QED BY <1>0, <3>2 DEF Agree
  <2>5. CASE g - HeadLen < n
    <3>1. Len(d) < r.len /\ g + 1 < Len(C)
      BY <1>2, <2>0, <2>2, <2>4, <2>5
    <3> QED BY <1>3, <2>3, <3>1
  <2>6. CASE g - HeadLen = n
    <3>1. e = m.data
      <4>1. SubSeq(m.data, 1, n) = m.data
        BY <1>0, <1>5
      <4> QED BY <2>6, <4>1 DEF e
    <3>2. c = Cksum(d)
      <4>1. g + 1 = HeadLen + n + 1
        BY <1>2, <2>6
      <4> QED BY <1>1, <2>0, <2>4, <3>1, <4>1 DEF c
    <3>3. Len(d) = r.len /\ ~(g + 1 < Len(C)) /\ (n <= MaxPayload \/ n > MaxPayload)
      BY <1>2, <2>0, <2>2, <2>4, <2>6, ConstantTypes
    <3>4. CASE n <= MaxPayload
      <4>1. s.out = m /\ s.p = TF_ResetParser
        BY <1>5, <2>3, <2>4, <3>1, <3>2, <3>3, <3>4 DEF DeliversMsg
      <4> QED BY <1>0, <3>3, <3>4, <4>1 DEF Ends
    <3>5. CASE n > MaxPayload
      <4>1. s.out = NoMsg /\ s.p = TF_ResetParser
        BY <2>3, <2>4, <3>3, <3>5 DEF Drops
      <4>2. ~(n <= MaxPayload)
        BY <1>2, <3>5, ConstantTypes
      <4> QED BY <1>0, <3>3, <4>1, <4>2 DEF Ends
    <3> QED BY <3>3, <3>4, <3>5
  <2> QED BY <1>2, <2>0, <2>5, <2>6
<1> QED BY <1>6, <1>7, <1>8, <1>9

\* The frame on the line, and what of it is still to come.
Feeds ==
  /\ ready \in BOOLEAN
  /\ cur = NoMsg => feed = <<>>
  /\ cur # NoMsg =>
       /\ cur \in Frames /\ Len(feed) <= Len(Compose(cur))
       /\ \A i \in 1 .. Len(feed) : feed[i] = Compose(cur)[Gone + i]
       /\ Gone = 0 => ~ready /\ flaw = "none"

\* A frame that is arriving unharmed has been read so far; at its end it is
\* delivered.
Whole ==
  cur # NoMsg /\ ready /\ flaw = "none" =>
    IF feed = <<>>
    THEN p.state = "SOF" /\ out = IF Len(cur.data) <= MaxPayload THEN cur ELSE NoMsg
    ELSE p.state # "SOF" /\ out = NoMsg /\ hist = SubSeq(Compose(cur), 1, Gone)

FInv == RInv /\ Feeds /\ Whole

LEMMA FrameFits ==
  ASSUME Feeds, cur # NoMsg
  PROVE  Fits(cur)
BY FramesAssumption DEF Feeds, Fits

\* The next byte leaves the line.
LEMMA FeedStep ==
  ASSUME Feeds, feed \in Seq(Byte), feed # <<>>, feed' = Tail(feed), cur' = cur,
         NEW g, g = Gone, NEW C, C = Compose(cur)
  PROVE  /\ cur # NoMsg /\ C \in Seq(Byte) /\ g \in 0 .. Len(C) - 1
         /\ Head(feed) = C[g + 1] /\ C[g + 1] \in Byte
         /\ Gone' = g + 1 /\ (feed' = <<>> <=> g + 1 = Len(C))
         /\ Len(feed') <= Len(C) /\ \A i \in 1 .. Len(feed') : feed'[i] = C[(g + 1) + i]
<1>1. cur # NoMsg
  BY DEF Feeds
<1>2. /\ Len(feed) <= Len(C) /\ \A i \in 1 .. Len(feed) : feed[i] = C[g + i]
      /\ g = Len(C) - Len(feed)
  BY <1>1 DEF Feeds, Gone
<1>3. C \in Seq(Byte)
  BY <1>1, FrameFits, ComposeIs DEF Fits
<1>4. /\ Len(feed) \in Nat /\ Len(feed) > 0 /\ Len(C) \in Nat
      /\ Tail(feed) \in Seq(Byte) /\ Len(Tail(feed)) = Len(feed) - 1
      /\ Head(feed) = feed[1]
      /\ \A i \in 1 .. Len(feed) - 1 : Tail(feed)[i] = feed[i + 1]
  BY <1>3
<1>5. g \in 0 .. Len(C) - 1
  BY <1>2, <1>4
<1>6. Head(feed) = C[g + 1] /\ C[g + 1] \in Byte
  BY <1>2, <1>3, <1>4, <1>5
<1>7. Gone' = Len(C) - Len(Tail(feed))
  BY DEF Gone
<1>8. Gone' = g + 1
  BY <1>2, <1>4, <1>7
<1>9. feed' = <<>> <=> g + 1 = Len(C)
  <2>1. Tail(feed) = <<>> <=> Len(Tail(feed)) = 0
    <3> DEFINE t == Tail(feed)
    <3>1. t \in Seq(Byte)
      BY <1>4
    <3> HIDE DEF t
    <3>2. t = <<>> <=> Len(t) = 0
      BY <3>1
    <3> QED BY <3>2 DEF t
  <2> QED BY <1>2, <1>4, <2>1
<1>10. ASSUME NEW i \in 1 .. Len(feed') PROVE feed'[i] = C[(g + 1) + i]
  <2>1. i \in 1 .. Len(feed) - 1 /\ i + 1 \in 1 .. Len(feed) /\ g + (i + 1) = (g + 1) + i
    BY <1>4, <1>5
  <2> QED BY <1>2, <1>4, <2>1
<1>11. Len(feed') <= Len(C)
  BY <1>2, <1>4
<1> QED BY <1>1, <1>3, <1>5, <1>6, <1>8, <1>9, <1>10, <1>11

\* The variables after a byte.
LEMMA AfterByte ==
  ASSUME NEW c, TF_Accept(c), NEW s, s = TF_AcceptChar(p, c)
  PROVE  /\ p' = s.p /\ out' = s.out
         /\ \A h1 : GoesOn(s, h1) /\ h1 = (IF Begins(p) THEN <<c>> ELSE Append(hist, c))
                      => p'.state # "SOF" /\ out' = NoMsg /\ hist' = h1
         /\ Drops(s) => p'.state = "SOF" /\ out' = NoMsg
<1>1. /\ p' = s.p /\ out' = s.out
      /\ hist' = IF s.p.state = "SOF" /\ s.out = NoMsg THEN <<>>
                 ELSE IF Begins(p) THEN <<c>> ELSE Append(hist, c)
  BY DEF TF_Accept, Begins
<1>2. Drops(s) => p'.state = "SOF" /\ out' = NoMsg
  BY <1>1 DEF Drops, TF_ResetParser
<1>3. ASSUME NEW h1, GoesOn(s, h1), h1 = (IF Begins(p) THEN <<c>> ELSE Append(hist, c))
      PROVE  p'.state # "SOF" /\ out' = NoMsg /\ hist' = h1
  BY <1>1, <1>3 DEF GoesOn
<1> QED BY <1>1, <1>2, <1>3

\* The first byte of a frame, its SOF.
LEMMA FirstByte ==
  ASSUME ~Fork, PInv(p, hist), Begins(p), NEW m, Fits(m), NEW C, C = Compose(m),
         TF_Accept(C[1])
  PROVE  p'.state # "SOF" /\ out' = NoMsg /\ hist' = SubSeq(C, 1, 1) /\ Len(C) > 2
<1> DEFINE s == TF_AcceptChar(p, C[1])
           n == Len(m.data)
<1>1. IsFrame(C, m, n)
  BY FrameFacts, Zenon DEF Fits
<1> HIDE DEF n
<1>2. C \in Seq(Byte) /\ Len(C) > 2 /\ C[1] = SOF
  BY <1>1 DEF IsFrame
<1>3. GoesOn(s, <<C[1]>>)
  BY <1>2, FirstStep
<1> HIDE DEF s
<1>4. p'.state # "SOF" /\ out' = NoMsg /\ hist' = <<C[1]>>
  BY <1>3, AfterByte DEF s
<1>5. SubSeq(C, 1, 1) = <<C[1]>>
  <2> HIDE DEF s
  <2>1. C \in Seq(Byte) /\ 0 \in 0 .. Len(C) - 1
    BY <1>2
  <2>2. /\ SubSeq(C, 1, 0) \in Seq(Byte) /\ Len(SubSeq(C, 1, 0)) = 0
        /\ SubSeq(C, 1, 0 + 1) = Append(SubSeq(C, 1, 0), C[0 + 1])
    BY <2>1, PrefixNext
  <2>3. SubSeq(C, 1, 0) = <<>>
    BY <2>2
  <2>4. Append(<<>>, C[1]) = <<C[1]>>
    OBVIOUS
  <2>5. 0 + 1 = 1
    OBVIOUS
  <2> QED BY <2>2, <2>3, <2>4, <2>5, Zenon
<1> QED BY <1>2, <1>4, <1>5

LEMMA WholeReceive ==
  ASSUME ~Fork, FInv, Receive
  PROVE  Whole'
<1> SUFFICES ASSUME cur' # NoMsg, ready', flaw' = "none"
             PROVE  IF feed' = <<>>
                    THEN /\ p'.state = "SOF"
                         /\ out' = IF Len(cur'.data) <= MaxPayload THEN cur' ELSE NoMsg
                    ELSE p'.state # "SOF" /\ out' = NoMsg
                           /\ hist' = SubSeq(Compose(cur'), 1, Gone')
  BY DEF Whole
<1> DEFINE C == Compose(cur)
           g == Gone
<1>1. /\ feed # <<>> /\ TF_Accept(Head(feed)) /\ feed' = Tail(feed) /\ ready' = StillReady
      /\ cur' = cur /\ flaw = "none"
  BY DEF Receive
<1>2. PInv(p, hist) /\ feed \in Seq(Byte) /\ Feeds /\ Whole
  BY DEF FInv, RInv
<1>3. /\ cur # NoMsg /\ C \in Seq(Byte) /\ g \in 0 .. Len(C) - 1
      /\ Head(feed) = C[g + 1] /\ C[g + 1] \in Byte
      /\ Gone' = g + 1 /\ (feed' = <<>> <=> g + 1 = Len(C))
  BY <1>1, <1>2, FeedStep
<1>4. Fits(cur)
  BY <1>2, <1>3, FrameFits
<1>5. StillReady = IF g = 0 THEN Begins(p) ELSE ready /\ ~TimedOut(p)
  BY DEF StillReady, Begins
<1>6. TF_Accept(C[g + 1])
  BY <1>1, <1>3
<1>7. C = Compose(cur)
  OBVIOUS
<1>8. ready => g # 0
  BY <1>2, <1>3 DEF Feeds
<1>9. g # 0 /\ ready => p.state # "SOF" /\ hist = SubSeq(C, 1, g)
  BY <1>1, <1>2, <1>3 DEF Whole
<1> HIDE DEF g, C
<1>10. CASE g = 0
  <2>1. Begins(p) /\ TF_Accept(C[1])
    BY <1>1, <1>5, <1>6, <1>10
  <2>2. p'.state # "SOF" /\ out' = NoMsg /\ hist' = SubSeq(C, 1, 1) /\ Len(C) > 2
    BY <1>2, <1>4, <1>7, <2>1, FirstByte, Zenon
  <2>3. feed' # <<>> /\ Gone' = 1
    <3>1. Len(C) \in Nat /\ g + 1 = 1
      BY <1>3, <1>10
    <3>2. g + 1 # Len(C)
      BY <2>2, <3>1
    <3> QED BY <1>3, <3>1, <3>2
  <2> QED BY <1>1, <1>7, <2>2, <2>3
<1>11. CASE g # 0
  <2>1. ready /\ ~TimedOut(p)
    BY <1>1, <1>5, <1>11
  <2>2. ~Begins(p) /\ hist = SubSeq(C, 1, g)
    BY <1>9, <1>11, <2>1 DEF Begins
  <2> DEFINE s == TF_AcceptChar(p, C[g + 1])
             c == C[g + 1]
  <2>3. g \in 1 .. Len(C) - 1 /\ PInv(p, SubSeq(C, 1, g))
    BY <1>2, <1>3, <1>11, <2>2
  <2>4. IF g + 1 < Len(C) THEN GoesOn(s, SubSeq(C, 1, g + 1)) ELSE Ends(s, cur)
    BY <1>4, <1>7, <2>2, <2>3, RightByte, Zenon
  <2>5. SubSeq(C, 1, g + 1) = Append(hist, c)
    BY <1>3, <2>2, PrefixNext
  <2>6. /\ p' = s.p /\ out' = s.out
        /\ \A h1 : GoesOn(s, h1) /\ h1 = (IF Begins(p) THEN <<c>> ELSE Append(hist, c))
                     => p'.state # "SOF" /\ out' = NoMsg /\ hist' = h1
    BY <1>6, AfterByte
  <2> HIDE DEF s, c
  <2>7. CASE g + 1 < Len(C)
    <3>1. p'.state # "SOF" /\ out' = NoMsg /\ hist' = SubSeq(C, 1, g + 1)
      BY <2>2, <2>4, <2>5, <2>6, <2>7
    <3>2. feed' # <<>>
      BY <1>3, <2>7
    <3> QED BY <1>1, <1>3, <1>7, <3>1, <3>2
  <2>8. CASE ~(g + 1 < Len(C))
    <3>1. Ends(s, cur)
      BY <2>4, <2>8
    <3>2. p'.state = "SOF" /\ out' = IF Len(cur.data) <= MaxPayload THEN cur ELSE NoMsg
      BY <2>6, <3>1 DEF Ends, TF_ResetParser
    <3>3. feed' = <<>>
      BY <1>3, <2>8
    <3> QED BY <1>1, <3>2, <3>3
  <2> QED BY <2>7, <2>8
<1> QED BY <1>10, <1>11

LEMMA FeedsNext ==
  ASSUME RInv, Feeds, [Next]_vars
  PROVE  Feeds'
<1>0. feed \in Seq(Byte)
  BY DEF RInv
<1>1. ASSUME feed # <<>>, feed' = Tail(feed), cur' = cur, ready' \in BOOLEAN
      PROVE  Feeds'
  <2> DEFINE C == Compose(cur)
             g == Gone
  <2>1. /\ cur # NoMsg /\ g \in 0 .. Len(C) - 1 /\ Gone' = g + 1
        /\ Len(feed') <= Len(C) /\ \A i \in 1 .. Len(feed') : feed'[i] = C[(g + 1) + i]
    BY <1>0, <1>1, FeedStep
  <2> HIDE DEF g
  <2>2. Gone' # 0
    BY <2>1
  <2>3. cur \in Frames
    BY <2>1 DEF Feeds
  <2> QED BY <1>1, <2>1, <2>2, <2>3 DEF Feeds
<1>2. ready \in BOOLEAN /\ StillReady \in BOOLEAN
  BY DEF Feeds, StillReady
<1>3. ASSUME NEW c \in Byte, Noise(c) PROVE Feeds'
  BY <1>3 DEF Noise, Feeds
<1>4. ASSUME NEW c \in Byte, Corrupt(c) PROVE Feeds'
  BY <1>1, <1>2, <1>4 DEF Corrupt
<1>5. ASSUME NEW m \in Frames, Send(m) PROVE Feeds'
  <2>1. feed' = Compose(m) /\ cur' = m /\ ready' = FALSE /\ flaw' = "none"
    BY <1>5 DEF Send
  <2>2. m \in Message /\ m # NoMsg
    BY FramesAssumption, MessageIsMsg
  <2> DEFINE C == Compose(m)
  <2>3. C \in Seq(Byte)
    BY <2>2, ComposeIs
  <2>4. Gone' = Len(C) - Len(C)
    BY <2>1 DEF Gone
  <2> HIDE DEF C
  <2>5. Gone' = 0 /\ \A i \in 1 .. Len(C) : C[i] = C[0 + i]
    BY <2>3, <2>4
  <2>6. \A i \in 1 .. Len(C) : C[i] = C[Gone' + i]
    BY <2>5
  <2>7. C = Compose(m) /\ Len(C) <= Len(C) /\ cur' \in Frames /\ cur' # NoMsg
    BY <2>1, <2>2, <2>3 DEF C
  <2> QED BY <2>1, <2>6, <2>7 DEF Feeds
<1>6. CASE Receive
  BY <1>1, <1>2, <1>6 DEF Receive
<1>7. CASE Lose
  BY <1>1, <1>2, <1>7 DEF Lose
<1>8. CASE TF_Tick
  <2>1. Gone' = Gone
    BY <1>8 DEF TF_Tick, Gone
  <2> QED BY <1>8, <2>1 DEF TF_Tick, Feeds
<1>9. CASE UNCHANGED vars
  <2>1. Gone' = Gone
    BY <1>9 DEF vars, Gone
  <2> QED BY <1>9, <2>1 DEF vars, Feeds
<1> QED BY <1>3, <1>4, <1>5, <1>6, <1>7, <1>8, <1>9 DEF Next

LEMMA FInvInit == Init => FInv
<1> SUFFICES ASSUME Init PROVE FInv
  OBVIOUS
<1>1. RInv
  BY RInvInit
<1>2. Feeds /\ Whole
  BY DEF Init, Feeds, Whole
<1> QED BY <1>1, <1>2 DEF FInv

LEMMA FInvNext ==
  ASSUME ~Fork, FInv, [Next]_vars
  PROVE  FInv'
<1>1. RInv' /\ Feeds'
  BY RInvNext, FeedsNext DEF FInv
<1>2. Whole'
  <2>1. ASSUME NEW c \in Byte, Noise(c) PROVE Whole'
    BY <2>1 DEF Noise, Whole
  <2>2. ASSUME NEW c \in Byte, Corrupt(c) PROVE Whole'
    BY <2>2 DEF Corrupt, Whole
  <2>3. ASSUME NEW m \in Frames, Send(m) PROVE Whole'
    BY <2>3 DEF Send, Whole
  <2>4. CASE Receive
    BY <2>4, WholeReceive
  <2>5. CASE Lose
    BY <2>5 DEF Lose, Whole
  <2>6. CASE TF_Tick
    <3>1. p'.state = p.state
      BY <2>6, TickReads DEF FInv, RInv
    <3>2. Gone' = Gone
      BY <2>6 DEF TF_Tick, Gone
    <3> QED BY <2>6, <3>1, <3>2 DEF TF_Tick, FInv, Whole
  <2>7. CASE UNCHANGED vars
    <3>1. Gone' = Gone
      BY <2>7 DEF vars, Gone
    <3> QED BY <2>7, <3>1 DEF vars, FInv, Whole
  <2> QED BY <2>1, <2>2, <2>3, <2>4, <2>5, <2>6, <2>7 DEF Next
<1> QED BY <1>1, <1>2 DEF FInv

LEMMA SpecFInv ==
  ASSUME ~Fork
  PROVE  Spec => []FInv
<1>1. FInv /\ [Next]_vars => FInv'
  BY FInvNext
<1> QED BY <1>1, FInvInit, PTL DEF Spec

\* A frame that arrives unharmed while TF_AcceptChar waits for one, or has
\* timed out inside an earlier one, reaches TF_HandleReceivedMessage with its
\* last byte and not before, unless its payload is longer than the buffer.
THEOREM FramesAreDelivered ==
  ASSUME ~Fork
  PROVE  Spec => []FrameDelivered
<1>1. FInv => FrameDelivered
  BY DEF FInv, Whole, FrameDelivered
<1> QED BY <1>1, SpecFInv, PTL

-----------------------------------------------------------------------------
(* A frame with one changed byte. *)

\* Checksums that differ keep differing, and one byte makes them differ.
LEMMA CksumDiffers ==
  ASSUME DetectsChange, NEW a \in Seq(Byte), NEW b \in Seq(Byte), NEW c \in Byte, NEW e \in Byte,
         \/ CksumAdded(a) # CksumAdded(b) /\ c = e
         \/ a = b /\ c # e
  PROVE  CksumAdded(Append(a, c)) # CksumAdded(Append(b, e))
<1> DEFINE x == CksumAdded(a)
           y == CksumAdded(b)
<1>1. x \in Byte /\ y \in Byte
  BY CksumFacts
<1>2. CksumAdded(Append(a, c)) = TF_CksumAdd(x, c)
  BY CksumFacts
<1>3. CksumAdded(Append(b, e)) = TF_CksumAdd(y, e)
  BY CksumFacts
<1>4. (x # y /\ c = e) \/ (x = y /\ c # e)
  OBVIOUS
<1> HIDE DEF x, y
<1>5. TF_CksumAdd(x, c) # TF_CksumAdd(y, e)
  BY <1>1, <1>4 DEF DetectsChange
<1> QED BY <1>2, <1>3, <1>5

LEMMA CksumShows ==
  ASSUME DetectsChange, NEW a \in Seq(Byte), NEW b \in Seq(Byte),
         CksumAdded(a) # CksumAdded(b)
  PROVE  Cksum(a) # Cksum(b)
<1>1. CksumAdded(a) \in Byte /\ CksumAdded(b) \in Byte
  BY CksumFacts
<1> QED BY <1>1 DEF Cksum, DetectsChange

\* After g bytes the parser's checksum is not that of the frame C; the same
\* for the payload of m.
HeadOff(h, C, g) ==
  h \in Seq(Byte) /\ Len(h) = g /\ CksumAdded(h) # CksumAdded(SubSeq(C, 1, g))
BodyOff(h, m, g) ==
  \E d \in Seq(Byte) :
    /\ h = ComposeHead(m.id, Len(m.data), m.type) \o d /\ Len(d) = g - HeadLen
    /\ CksumAdded(d) # CksumAdded(SubSeq(m.data, 1, g - HeadLen))

LEMMA OffHead ==
  ASSUME ~Fork, DetectsChange, NEW m, Fits(m), NEW C, C = Compose(m), NEW g \in 1 .. HeadLen - 1,
         NEW r, NEW h, PInv(r, h), ~Begins(r), NEW c \in Byte,
         NEW s, s = TF_AcceptChar(r, c),
         \/ HeadOff(h, C, g) /\ c = C[g + 1]
         \/ h = SubSeq(C, 1, g) /\ c # C[g + 1]
  PROVE  IF g + 1 < HeadLen THEN GoesOn(s, Append(h, c)) /\ HeadOff(Append(h, c), C, g + 1)
                            ELSE Drops(s)
<1> DEFINE n == Len(m.data)
           b == SubSeq(C, 1, g)
           e == C[g + 1]
<1>1. IsFrame(C, m, n)
  BY FrameFacts, Zenon DEF Fits
<1> HIDE DEF n
<1>2. C \in Seq(Byte) /\ Len(C) \in Nat /\ HeadLen \in Nat /\ HeadLen > 2 /\ Len(C) >= HeadLen
  BY <1>1 DEF IsFrame
<1>3. /\ b \in Seq(Byte) /\ Len(b) = g /\ e \in Byte /\ SubSeq(C, 1, g + 1) = Append(b, e)
  <2>1. g \in 0 .. Len(C) - 1
    BY <1>2
  <2> QED BY <1>2, <2>1, PrefixNext
<1> HIDE DEF b, e
<1>4. h \in Seq(Byte) /\ Len(h) = g /\ ((CksumAdded(h) # CksumAdded(b) /\ c = e) \/ (h = b /\ c # e))
  BY <1>3 DEF HeadOff, b, e
<1>5. \/ g < HeadLen - 1 /\ GoesOn(s, Append(h, c))
      \/ g = HeadLen - 1 /\ HeadStep(r, h, c, s)
      \/ g >= HeadLen /\ DataStep(r, h, c, s)
  BY <1>4, FrameStep
<1>6. CASE g < HeadLen - 1 /\ GoesOn(s, Append(h, c))
  <2>1. CksumAdded(Append(h, c)) # CksumAdded(Append(b, e))
    BY <1>3, <1>4, CksumDiffers
  <2>2. Append(h, c) \in Seq(Byte) /\ Len(Append(h, c)) = g + 1
    BY <1>4
  <2>3. HeadOff(Append(h, c), C, g + 1)
    BY <1>3, <2>1, <2>2 DEF HeadOff
  <2>4. g + 1 < HeadLen
    BY <1>2, <1>6
  <2> QED BY <1>6, <2>3, <2>4
<1>7. CASE g = HeadLen - 1 /\ HeadStep(r, h, c, s)
  <2>1. e = Cksum(b)
    <3>1. g + 1 = HeadLen
      BY <1>2, <1>7
    <3> QED BY <1>1, <1>7, <3>1 DEF IsFrame, b, e
  <2>2. c # Cksum(h)
    <3>1. CASE h = b /\ c # e
      BY <2>1, <3>1
    <3>2. CASE CksumAdded(h) # CksumAdded(b) /\ c = e
      BY <1>3, <1>4, <2>1, <3>2, CksumShows
    <3> QED BY <1>4, <3>1, <3>2
  <2>3. Drops(s) /\ ~(g + 1 < HeadLen)
    BY <1>2, <1>7, <2>2 DEF HeadStep
  <2> QED BY <2>3
<1>8. ~(g >= HeadLen)
  BY <1>2
<1> QED BY <1>5, <1>6, <1>7, <1>8

LEMMA OffBody ==
  ASSUME ~Fork, DetectsChange, NEW m, Fits(m), NEW C, C = Compose(m),
         NEW g \in HeadLen .. Len(C) - 1,
         NEW r, NEW h, PInv(r, h), ~Begins(r), NEW c \in Byte,
         NEW s, s = TF_AcceptChar(r, c),
         \/ BodyOff(h, m, g) /\ c = C[g + 1]
         \/ h = SubSeq(C, 1, g) /\ c # C[g + 1]
  PROVE  IF g + 1 < Len(C) THEN GoesOn(s, Append(h, c)) /\ BodyOff(Append(h, c), m, g + 1)
                           ELSE Drops(s)
<1> DEFINE n == Len(m.data)
           a == ComposeHead(m.id, n, m.type)
           k == g - HeadLen
           b == SubSeq(m.data, 1, k)
           e == C[g + 1]
<1>1. IsFrame(C, m, n)
  BY FrameFacts, Zenon DEF Fits
<1>2. m.id \in Nat /\ m.type \in Nat /\ m.data \in Seq(Byte) /\ n \in Nat
  BY ConstantTypes DEF Fits, Message
<1>3. a \in Seq(Byte) /\ Len(a) = HeadLen
  BY <1>2, HeadIs
<1>0. n = Len(m.data)
  OBVIOUS
<1> HIDE DEF n
<1>4. /\ C \in Seq(Byte) /\ Len(C) \in Nat /\ HeadLen \in Nat /\ HeadLen > 2
      /\ Len(C) = HeadLen + n + 1 /\ n > 0 /\ g \in Nat /\ g \in 0 .. Len(C) - 1
      /\ k \in 0 .. n /\ g = HeadLen + k /\ g \in HeadLen .. HeadLen + n
  <2>1. /\ C \in Seq(Byte) /\ Len(C) \in Nat /\ HeadLen \in Nat /\ HeadLen > 2
        /\ Len(C) = (IF n = 0 THEN HeadLen ELSE HeadLen + n + 1)
    BY <1>1 DEF IsFrame
  <2>2. n > 0 /\ Len(C) = HeadLen + n + 1
    BY <1>2, <2>1
  <2> QED BY <1>2, <2>1, <2>2
<1>5. e \in Byte /\ SubSeq(C, 1, g + 1) = Append(SubSeq(C, 1, g), e)
  BY <1>4, PrefixNext
<1>6. SubSeq(C, 1, g) = a \o b
  BY <1>1, <1>4 DEF IsFrame
<1>7. b \in Seq(Byte) /\ Len(b) = k
  BY <1>0, <1>2, <1>4
<1>8. k < n => SubSeq(m.data, 1, k + 1) = Append(b, e)
  <2> SUFFICES ASSUME k < n PROVE SubSeq(m.data, 1, k + 1) = Append(b, e)
    OBVIOUS
  <2> DEFINE b1 == SubSeq(m.data, 1, k + 1)
  <2>1. b1 \in Seq(Byte)
    BY <1>0, <1>2, <1>4
  <2>2. SubSeq(C, 1, g + 1) = a \o b1
    <3>1. g + 1 \in HeadLen .. HeadLen + n /\ (g + 1) - HeadLen = k + 1
      BY <1>2, <1>4
    <3> QED BY <1>1, <3>1 DEF IsFrame
  <2> HIDE DEF b1, a, b, e
  <2>3. Append(a \o b, e) = a \o Append(b, e)
    BY <1>3, <1>5, <1>7, AppendConcat
  <2>4. a \o b1 = a \o Append(b, e)
    BY <1>5, <1>6, <2>2, <2>3
  <2>5. Append(b, e) \in Seq(Byte)
    BY <1>5, <1>7
  <2> DEFINE z == Append(b, e)
  <2> HIDE DEF z
  <2>6. z \in Seq(Byte) /\ a \o b1 = a \o z
    BY <2>4, <2>5 DEF z
  <2>7. b1 = z
    BY <1>3, <2>1, <2>6, ConcatInjective, Zenon
  <2> QED BY <2>7 DEF b1, z
<1>9. k = n => b = m.data /\ e = Cksum(m.data)
  <2> SUFFICES ASSUME k = n PROVE b = m.data /\ e = Cksum(m.data)
    OBVIOUS
  <2>1. SubSeq(m.data, 1, n) = m.data
    BY <1>0, <1>2
  <2>2. g + 1 = HeadLen + n + 1
    BY <1>2, <1>4
  <2>3. C[HeadLen + n + 1] = Cksum(m.data)
    BY <1>1, <1>4 DEF IsFrame
  <2> QED BY <2>1, <2>2, <2>3
<1>10. PICK d \in Seq(Byte) :
         /\ h = a \o d /\ Len(d) = k
         /\ (CksumAdded(d) # CksumAdded(b) /\ c = e) \/ (d = b /\ c # e)
  <2>1. CASE BodyOff(h, m, g) /\ c = C[g + 1]
    BY <1>0, <2>1 DEF BodyOff
  <2>2. CASE h = SubSeq(C, 1, g) /\ c # C[g + 1]
    BY <1>6, <1>7, <2>2
  <2> QED BY <2>1, <2>2
<1> HIDE DEF b, e, k
<1>11. h \in Seq(Byte) /\ Len(h) = g
  <2>1. Joined(a, d, h)
    BY <1>3, <1>10, ConcatFacts
  <2> HIDE DEF a
  <2> QED BY <1>3, <1>4, <1>10, <2>1 DEF Joined
<1>12. DataStep(r, h, c, s)
  <2>1. \/ g < HeadLen - 1 /\ GoesOn(s, Append(h, c))
        \/ g = HeadLen - 1 /\ HeadStep(r, h, c, s)
        \/ g >= HeadLen /\ DataStep(r, h, c, s)
    BY <1>11, FrameStep
  <2>2. ~(g < HeadLen - 1) /\ g # HeadLen - 1
    BY <1>2, <1>4
  <2> QED BY <2>1, <2>2
<1>13. PICK f \in Seq(Byte) :
         /\ h = ComposeHead(r.id, r.len, r.type) \o f
         /\ Len(f) < r.len => GoesOn(s, Append(h, c))
         /\ Len(f) = r.len /\ (r.len > MaxPayload \/ c # Cksum(f)) => Drops(s)
  BY <1>12 DEF DataStep
<1>14. r.len = n /\ f = d
  <2>1. ComposeHead(r.id, r.len, r.type) \o f = ComposeHead(m.id, Len(m.data), m.type) \o d
    BY <1>0, <1>10, <1>13
  <2>2. r \in Fields /\ Widths(r)
    BY DEF PInv
  <2>3. Agree(r, m) /\ f = d
    BY <2>1, <2>2, HeadsAreFrames, Zenon
  <2> QED BY <1>0, <2>3 DEF Agree
<1>15. CASE k < n
  <2>1. GoesOn(s, Append(h, c))
    BY <1>10, <1>13, <1>14, <1>15
  <2>2. g + 1 < Len(C) /\ (g + 1) - HeadLen = k + 1
    BY <1>2, <1>4, <1>15
  <2>3. Append(h, c) = a \o Append(d, c)
    <3> HIDE DEF a
    <3> QED BY <1>3, <1>10, AppendConcat
  <2>4. Append(d, c) \in Seq(Byte) /\ Len(Append(d, c)) = k + 1
    BY <1>10
  <2>5. CksumAdded(Append(d, c)) # CksumAdded(Append(b, e))
    BY <1>5, <1>7, <1>10, CksumDiffers
  <2>6. BodyOff(Append(h, c), m, g + 1)
    BY <1>0, <1>8, <1>15, <2>2, <2>3, <2>4, <2>5 DEF BodyOff
  <2> QED BY <2>1, <2>2, <2>6
<1>16. CASE k = n
  <2>1. c # Cksum(d)
    <3>1. CASE d = b /\ c # e
      BY <1>9, <1>16, <3>1
    <3>2. CASE CksumAdded(d) # CksumAdded(b) /\ c = e
      BY <1>7, <1>9, <1>16, <3>2, CksumShows
    <3> QED BY <1>10, <3>1, <3>2
  <2>2. Drops(s)
    BY <1>10, <1>13, <1>14, <1>16, <2>1
  <2>3. ~(g + 1 < Len(C))
    BY <1>2, <1>4, <1>16
  <2> QED BY <2>2, <2>3
<1> QED BY <1>2, <1>4, <1>15, <1>16

\* Where the changed byte was in the head, the head's checksum is wrong until
\* the parser drops the frame with it; in the payload, the payload's.
HeadHit ==
  cur # NoMsg /\ ready /\ flaw = "head" =>
    IF Gone < HeadLen THEN p.state # "SOF" /\ HeadOff(hist, Compose(cur), Gone)
    ELSE Gone = HeadLen => out = NoMsg /\ p.state = "SOF"
BodyHit ==
  cur # NoMsg /\ ready /\ flaw = "body" =>
    /\ Gone > HeadLen /\ out = NoMsg
    /\ IF feed = <<>> THEN p.state = "SOF"
                      ELSE p.state # "SOF" /\ BodyOff(hist, cur, Gone)

EInv == FInv /\ HeadHit /\ BodyHit

\* The byte c arrives, the right one after a changed one or the changed one.
LEMMA HitStep ==
  ASSUME ~Fork, DetectsChange, FInv, HeadHit, BodyHit, feed # <<>>, NEW c \in Byte, TF_Accept(c),
         feed' = Tail(feed), cur' = cur, ready' = StillReady,
         \/ flaw \in {"head", "body"} /\ flaw' = flaw /\ c = Head(feed)
         \/ /\ flaw = "none" /\ c # Head(feed) /\ Gone > 0
            /\ flaw' = IF Gone < HeadLen THEN "head" ELSE "body"
  PROVE  HeadHit' /\ BodyHit'
<1> SUFFICES ASSUME ready' PROVE HeadHit' /\ BodyHit'
  BY DEF HeadHit, BodyHit
<1> DEFINE C == Compose(cur)
           g == Gone
           s == TF_AcceptChar(p, c)
<1>1. PInv(p, hist) /\ feed \in Seq(Byte) /\ Feeds /\ Whole
  BY DEF FInv, RInv
<1>2. /\ cur # NoMsg /\ C \in Seq(Byte) /\ g \in 0 .. Len(C) - 1
      /\ Head(feed) = C[g + 1] /\ C[g + 1] \in Byte
      /\ Gone' = g + 1 /\ (feed' = <<>> <=> g + 1 = Len(C))
  BY <1>1, FeedStep
<1>3. Fits(cur) /\ C = Compose(cur) /\ s = TF_AcceptChar(p, c)
  BY <1>1, <1>2, FrameFits
<1>4. HeadLen \in Nat /\ Len(C) \in Nat /\ Len(C) >= HeadLen
  <2>1. IsFrame(Compose(cur), cur, Len(cur.data))
    BY <1>3, FrameFacts, Zenon DEF Fits
  <2> QED BY <2>1 DEF IsFrame
<1>5. StillReady = IF g = 0 THEN Begins(p) ELSE ready /\ ~TimedOut(p)
  BY DEF StillReady, Begins
<1>6. ready => g # 0
  BY <1>1, <1>2 DEF Feeds
<1>7. g # 0
  <2>1. g = 0 => flaw = "none"
    BY <1>1, <1>2 DEF Feeds
  <2>2. flaw = "none" => g # 0
    BY <1>2
  <2> QED BY <2>1, <2>2
<1>8. ready /\ ~TimedOut(p)
  BY <1>5, <1>7
<1>9. /\ \A h1 : GoesOn(s, h1) /\ h1 = (IF Begins(p) THEN <<c>> ELSE Append(hist, c))
                  => p'.state # "SOF" /\ out' = NoMsg /\ hist' = h1
      /\ Drops(s) => p'.state = "SOF" /\ out' = NoMsg
  BY AfterByte
<1>10. /\ flaw = "none" => p.state # "SOF" /\ hist = SubSeq(C, 1, g) /\ c # C[g + 1]
       /\ flaw = "head" /\ g < HeadLen => p.state # "SOF" /\ HeadOff(hist, C, g)
       /\ flaw = "body" => g > HeadLen /\ p.state # "SOF" /\ BodyOff(hist, cur, g)
       /\ flaw \in {"head", "body"} => c = C[g + 1]
  <2>1. flaw = "none" => p.state # "SOF" /\ hist = SubSeq(C, 1, g)
    BY <1>1, <1>2, <1>8 DEF Whole
  <2>2. flaw = "head" /\ g < HeadLen => p.state # "SOF" /\ HeadOff(hist, C, g)
    BY <1>2, <1>8 DEF HeadHit
  <2>3. flaw = "body" => g > HeadLen /\ p.state # "SOF" /\ BodyOff(hist, cur, g)
    BY <1>2, <1>8 DEF BodyHit
  <2>4. (flaw = "none" => c # C[g + 1]) /\ (flaw \in {"head", "body"} => c = C[g + 1])
    BY <1>2
  <2> QED BY <2>1, <2>2, <2>3, <2>4
<1>11. flaw \in {"none", "head", "body"}
       /\ (flaw \in {"head", "body"} => flaw' = flaw)
       /\ (flaw = "none" => flaw' = IF g < HeadLen THEN "head" ELSE "body")
  OBVIOUS
<1> HIDE DEF C, g, s
<1>12. ASSUME g < HeadLen, flaw \in {"none", "head"} PROVE HeadHit' /\ BodyHit'
  <2>1. g \in 1 .. HeadLen - 1
    BY <1>2, <1>4, <1>7, <1>12
  <2>2. /\ p.state # "SOF"
        /\ \/ HeadOff(hist, C, g) /\ c = C[g + 1]
           \/ hist = SubSeq(C, 1, g) /\ c # C[g + 1]
    BY <1>10, <1>12
  <2>3. ~Begins(p)
    BY <1>8, <2>2 DEF Begins
  <2>4. IF g + 1 < HeadLen THEN GoesOn(s, Append(hist, c)) /\ HeadOff(Append(hist, c), C, g + 1)
                           ELSE Drops(s)
    BY <1>1, <1>3, <2>1, <2>2, <2>3, OffHead, Zenon
  <2>5. flaw' = "head"
    BY <1>11, <1>12
  <2>6. CASE g + 1 < HeadLen
    <3>1. p'.state # "SOF" /\ hist' = Append(hist, c) /\ HeadOff(Append(hist, c), C, g + 1)
      BY <1>9, <2>3, <2>4, <2>6
    <3> QED BY <1>2, <1>3, <2>5, <2>6, <3>1 DEF HeadHit, BodyHit
  <2>7. CASE ~(g + 1 < HeadLen)
    <3>1. p'.state = "SOF" /\ out' = NoMsg
      BY <1>9, <2>4, <2>7
    <3> QED BY <1>2, <2>5, <2>7, <3>1 DEF HeadHit, BodyHit
  <2> QED BY <2>6, <2>7
<1>13. ASSUME g >= HeadLen, flaw \in {"none", "body"} PROVE HeadHit' /\ BodyHit'
  <2>1. g \in HeadLen .. Len(C) - 1
    BY <1>2, <1>4, <1>13
  <2>2. /\ p.state # "SOF"
        /\ \/ BodyOff(hist, cur, g) /\ c = C[g + 1]
           \/ hist = SubSeq(C, 1, g) /\ c # C[g + 1]
    BY <1>10, <1>13
  <2>3. ~Begins(p)
    BY <1>8, <2>2 DEF Begins
  <2>4. IF g + 1 < Len(C) THEN GoesOn(s, Append(hist, c)) /\ BodyOff(Append(hist, c), cur, g + 1)
                          ELSE Drops(s)
    BY <1>1, <1>3, <2>1, <2>2, <2>3, OffBody, Zenon
  <2>5. flaw' = "body"
    <3>1. ~(g < HeadLen)
      BY <1>2, <1>4, <1>13
    <3> QED BY <1>11, <1>13, <3>1
  <2>6. Gone' > HeadLen
    BY <1>2, <1>4, <1>13
  <2>7. CASE g + 1 < Len(C)
    <3>1. /\ p'.state # "SOF" /\ out' = NoMsg /\ hist' = Append(hist, c)
          /\ BodyOff(Append(hist, c), cur, g + 1)
      BY <1>9, <2>3, <2>4, <2>7
    <3>2. feed' # <<>>
      BY <1>2, <1>4, <2>7
    <3> QED BY <1>2, <2>5, <2>6, <3>1, <3>2 DEF HeadHit, BodyHit
  <2>8. CASE ~(g + 1 < Len(C))
    <3>1. p'.state = "SOF" /\ out' = NoMsg
      BY <1>9, <2>4, <2>8
    <3>2. feed' = <<>>
      BY <1>2, <1>4, <2>8
    <3> QED BY <2>5, <2>6, <3>1, <3>2 DEF HeadHit, BodyHit
  <2> QED BY <2>7, <2>8
<1>14. ASSUME g >= HeadLen, flaw = "head" PROVE HeadHit' /\ BodyHit'
  <2>1. Gone' > HeadLen /\ Gone' \in Nat
    BY <1>2, <1>4, <1>14
  <2>2. flaw' = "head" /\ ~(Gone' < HeadLen) /\ Gone' # HeadLen
    BY <1>4, <1>11, <1>14, <2>1
  <2> QED BY <2>2 DEF HeadHit, BodyHit
<1>15. flaw = "body" => g >= HeadLen
  BY <1>2, <1>4, <1>10
<1>16. g < HeadLen \/ g >= HeadLen
  BY <1>2, <1>4
<1> QED BY <1>11, <1>12, <1>13, <1>14, <1>15, <1>16

LEMMA EInvInit == Init => EInv
<1> SUFFICES ASSUME Init PROVE EInv
  OBVIOUS
<1>1. FInv
  BY FInvInit
<1>2. HeadHit /\ BodyHit
  BY DEF Init, HeadHit, BodyHit
<1> QED BY <1>1, <1>2 DEF EInv

LEMMA EInvNext ==
  ASSUME ~Fork, DetectsChange, EInv, [Next]_vars
  PROVE  EInv'
<1>0. FInv /\ HeadHit /\ BodyHit /\ feed \in Seq(Byte) /\ PInv(p, hist)
  BY DEF EInv, FInv, RInv
<1>1. FInv'
  BY <1>0, FInvNext
<1>2. ASSUME NEW c \in Byte, Noise(c) PROVE HeadHit' /\ BodyHit'
  BY <1>2 DEF Noise, HeadHit, BodyHit
<1>3. ASSUME NEW c \in Byte, Corrupt(c) PROVE HeadHit' /\ BodyHit'
  <2>1. /\ feed # <<>> /\ TF_Accept(c) /\ feed' = Tail(feed) /\ cur' = cur /\ ready' = StillReady
        /\ flaw = "none" /\ c # Head(feed) /\ Gone > 0
        /\ flaw' = IF Gone < HeadLen THEN "head" ELSE "body"
    BY <1>3 DEF Corrupt
  <2> QED BY <1>0, <2>1, HitStep
<1>4. ASSUME NEW m \in Frames, Send(m) PROVE HeadHit' /\ BodyHit'
  BY <1>4 DEF Send, HeadHit, BodyHit
<1>5. ASSUME Receive PROVE HeadHit' /\ BodyHit'
  <2>1. /\ feed # <<>> /\ TF_Accept(Head(feed)) /\ feed' = Tail(feed) /\ cur' = cur
        /\ ready' = StillReady /\ flaw' = flaw
    BY <1>5 DEF Receive
  <2>2. Head(feed) \in Byte
    BY <1>0, <2>1
  <2>3. CASE flaw \in {"head", "body"}
    BY <1>0, <2>1, <2>2, <2>3, HitStep
  <2>4. CASE flaw \notin {"head", "body"}
    BY <2>1, <2>4 DEF HeadHit, BodyHit
  <2> QED BY <2>3, <2>4
<1>6. ASSUME Lose PROVE HeadHit' /\ BodyHit'
  BY <1>6 DEF Lose, HeadHit, BodyHit
<1>7. ASSUME TF_Tick PROVE HeadHit' /\ BodyHit'
  <2>1. p'.state = p.state
    BY <1>0, <1>7, TickReads
  <2>2. Gone' = Gone
    BY <1>7 DEF TF_Tick, Gone
  <2>3. out' = out /\ feed' = feed /\ cur' = cur /\ ready' = ready /\ flaw' = flaw /\ hist' = hist
    BY <1>7 DEF TF_Tick
  <2> QED BY <1>0, <2>1, <2>2, <2>3 DEF HeadHit, BodyHit
<1>8. ASSUME UNCHANGED vars PROVE HeadHit' /\ BodyHit'
  <2>1. Gone' = Gone
    BY <1>8 DEF vars, Gone
  <2> QED BY <1>0, <1>8, <2>1 DEF vars, HeadHit, BodyHit
<1>9. HeadHit' /\ BodyHit'
  BY <1>2, <1>3, <1>4, <1>5, <1>6, <1>7, <1>8 DEF Next
<1> QED BY <1>1, <1>9 DEF EInv

LEMMA EInvMeans == EInv => SingleErrorCaught
<1> SUFFICES ASSUME EInv, cur # NoMsg, ready
             PROVE  /\ (flaw = "head" /\ Gone = HeadLen) => out = NoMsg /\ p.state = "SOF"
                    /\ flaw = "body" => out = NoMsg /\ (feed = <<>> => p.state = "SOF")
  BY DEF SingleErrorCaught
<1>1. HeadLen \in Nat
  BY ConstantTypes DEF HeadLen
<1> QED BY <1>1 DEF EInv, HeadHit, BodyHit

\* A frame with one changed byte, anywhere behind its SOF, is dropped: with
\* the head's checksum where the byte was in the head, with the payload's
\* where it was behind it. It holds for every checksum that DetectsChange, as
\* the XOR of this build does.
THEOREM SingleErrorsAreCaught ==
  ASSUME ~Fork, DetectsChange
  PROVE  Spec => []SingleErrorCaught
<1>1. EInv /\ [Next]_vars => EInv'
  BY EInvNext
<1> QED BY <1>1, EInvInit, EInvMeans, PTL DEF Spec
=============================================================================
