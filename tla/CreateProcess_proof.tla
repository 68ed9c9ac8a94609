--------------------------- MODULE CreateProcess_proof ---------------------------
(***************************************************************************)
(* What the Reed-Solomon code computes, for any number of bits, generator, *)
(* blocks and recovery blocks: the tables of logarithms make a field, and  *)
(* whatever the elimination has solved gives back the blocks that are      *)
(* missing.                                                                *)
(*                                                                         *)
(* Then what a creation computes from the sizes of its files: sums,        *)
(* ComputeBlockSizeAndBlockCount and the search for a block size, for any  *)
(* sizes, and the lists that the files are cut into.                       *)
(***************************************************************************)
EXTENDS CreateProcess, TLAPS, FiniteSetTheorems, SequenceTheorems, WellFoundedInduction

-----------------------------------------------------------------------------
(* Induction and recursion over numbers *)

\* A set of natural numbers has a least one.
LEMMA Least ==
    ASSUME NEW T \in SUBSET Nat, T # {}
    PROVE  \E x \in T : \A y \in T : x <= y
<1>1. PICK R : /\ IsWellFoundedOn(R, Nat)
               /\ \A x, y \in Nat : y < x => <<y, x>> \in R
  <2> DEFINE less == OpToRel(<, Nat)
  <2>1. IsWellFoundedOn(less, Nat)
    BY NatLessThanWellFounded
  <2>2. \A x, y \in Nat : y < x => <<y, x>> \in less
    BY DEF OpToRel
  <2> HIDE DEF less
  <2> QED
    BY <2>1, <2>2
<1>2. \E x \in T : \A y \in T : ~(<<y, x>> \in R)
  BY <1>1, WFMin
<1>3. \A x \in T, y \in T : ~(<<y, x>> \in R) => x <= y
  BY <1>1
<1> QED
  BY <1>2, <1>3

\* Induction over a set of natural numbers.
LEMMA Induct ==
    ASSUME NEW T, 0 \in T, \A n \in Nat : n \in T => n + 1 \in T
    PROVE  Nat \subseteq T
<1> SUFFICES ASSUME Nat \ T # {} PROVE FALSE
  OBVIOUS
<1>1. Nat \ T \in SUBSET Nat
  OBVIOUS
<1>2. PICK m \in Nat \ T : \A n \in Nat \ T : m <= n
  BY <1>1, Least
<1>3. m \in Nat /\ m # 0 /\ m - 1 \in Nat
  BY <1>2
<1>4. m - 1 \in T
  BY <1>2, <1>3
<1>5. (m - 1) + 1 \in T
  BY <1>3, <1>4
<1> QED BY <1>2, <1>3, <1>5

\* A value for every number up to n, each computed from the one before.
Steps(F, V, n) == F \in [(1 .. n) \X V -> V]
Follows(f, F, V, first, n) ==
    f \in [0 .. n -> V] /\ f[0] = first /\ \A k \in 1 .. n : f[k] = F[<<k, f[k - 1]>>]
LEMMA Recursion ==
    ASSUME NEW V, NEW n \in Nat, NEW first \in V, NEW F, Steps(F, V, n)
    PROVE  \E f : Follows(f, F, V, first, n)
<1> DEFINE Good(f, m) == f[0] = first /\ \A k \in 1 .. m : f[k] = F[<<k, f[k - 1]>>]
           T == {m \in Nat : m <= n => \E f \in [0 .. m -> V] : Good(f, m)}
<1>0. F \in [(1 .. n) \X V -> V]
  BY DEF Steps
<1>1. 0 \in T
  <2> DEFINE f == [k \in 0 .. 0 |-> first]
  <2>1. f \in [0 .. 0 -> V] /\ f[0] = first /\ 1 .. 0 = {}
    OBVIOUS
  <2> HIDE DEF f
  <2>2. Good(f, 0)
    BY <2>1
  <2> QED BY <2>1, <2>2
<1>2. ASSUME NEW m \in Nat, m \in T PROVE m + 1 \in T
  <2> SUFFICES ASSUME m + 1 <= n PROVE \E h \in [0 .. m + 1 -> V] : Good(h, m + 1)
    OBVIOUS
  <2>1. PICK f \in [0 .. m -> V] : Good(f, m)
    BY <1>2
  <2>2. f[m] \in V /\ m + 1 \in 1 .. n
    BY <2>1
  <2>3. PICK new \in V : new = F[<<m + 1, f[m]>>]
    BY <1>0, <2>2
  <2> DEFINE h == [k \in 0 .. m + 1 |-> IF k = m + 1 THEN new ELSE f[k]]
  <2>4. h \in [0 .. m + 1 -> V] /\ h[m + 1] = new /\ \A k \in 0 .. m : h[k] = f[k]
    BY <2>1, <2>3
  <2> HIDE DEF h
  <2>5. h[0] = first
    BY <2>1, <2>4
  <2>6. ASSUME NEW k \in 1 .. m + 1 PROVE h[k] = F[<<k, h[k - 1]>>]
    <3>1. CASE k = m + 1
      <4>1. k - 1 = m /\ m \in 0 .. m
        BY <3>1
      <4> QED BY <3>1, <4>1, <2>3, <2>4
    <3>2. CASE k # m + 1
      <4>1. k \in 1 .. m /\ k \in 0 .. m /\ k - 1 \in 0 .. m
        BY <3>2
      <4> QED BY <4>1, <2>1, <2>4
    <3> QED BY <3>1, <3>2
  <2> QED BY <2>4, <2>5, <2>6
<1> HIDE DEF T
<1>3. n \in T
  BY <1>1, <1>2, Induct
<1> QED BY <1>3 DEF T, Follows

-----------------------------------------------------------------------------
(* Exclusive or *)

\* The powers of two.
LEMMA ShiftsAre ==
    /\ \A k \in 0 .. Bits : shift[k] \in Nat /\ shift[k] > 0
    /\ shift[0] = 1 /\ \A k \in 1 .. Bits : shift[k] = 2 * shift[k - 1]
<1> DEFINE F == [p \in (1 .. Bits) \X Nat |-> 2 * p[2]]
           Body(g) == [k \in 0 .. Bits |-> IF k = 0 THEN 1 ELSE 2 * g[k - 1]]
           s == CHOOSE g : g = Body(g)
<1>0. Bits \in Nat
  BY GaloisAssumption
<1>1. Steps(F, Nat, Bits)
  BY DEF Steps
<1>2. PICK f \in [0 .. Bits -> Nat] : f[0] = 1 /\ \A k \in 1 .. Bits : f[k] = F[<<k, f[k - 1]>>]
  <2> HIDE DEF F
  <2>1. 1 \in Nat
    OBVIOUS
  <2>2. \E f : Follows(f, F, Nat, 1, Bits)
    BY <1>0, <1>1, <2>1, Recursion
  <2> QED BY <2>2 DEF Follows
<1>3. \A k \in 1 .. Bits : k - 1 \in 0 .. Bits /\ k \in 0 .. Bits
  BY <1>0
<1>4. \A k \in 1 .. Bits : f[k - 1] \in Nat /\ f[k] = 2 * f[k - 1]
  BY <1>2, <1>3
<1>5. f = Body(f)
  <2>1. \A k \in 0 .. Bits : f[k] = IF k = 0 THEN 1 ELSE 2 * f[k - 1]
    <3> TAKE k \in 0 .. Bits
    <3>1. k = 0 \/ k \in 1 .. Bits
      BY <1>0
    <3> QED BY <3>1, <1>2, <1>4
  <2> QED BY <2>1, <1>2
<1>6. s = Body(s)
  <2> HIDE DEF Body
  <2> QED BY <1>5
<1>7. shift = s
  BY DEF shift
<1> HIDE DEF s
<1>8. \A k \in 0 .. Bits : shift[k] = IF k = 0 THEN 1 ELSE 2 * shift[k - 1]
  BY <1>6, <1>7
<1>9. shift[0] = 1 /\ \A k \in 1 .. Bits : shift[k] = 2 * shift[k - 1]
  <2>1. 0 \in 0 .. Bits /\ \A k \in 1 .. Bits : k # 0
    BY <1>0
  <2> QED BY <2>1, <1>3, <1>8
<1> DEFINE T == {k \in Nat : k <= Bits => shift[k] \in Nat /\ shift[k] > 0}
<1>10. 0 \in T
  BY <1>9
<1>11. ASSUME NEW k \in Nat, k \in T PROVE k + 1 \in T
  <2> SUFFICES ASSUME k + 1 <= Bits PROVE shift[k + 1] \in Nat /\ shift[k + 1] > 0
    OBVIOUS
  <2>1. k + 1 \in 1 .. Bits /\ (k + 1) - 1 = k /\ k <= Bits
    BY <1>0
  <2>2. shift[k + 1] = 2 * shift[k] /\ shift[k] \in Nat /\ shift[k] > 0
    BY <1>9, <1>11, <2>1
  <2> QED BY <2>2
<1> HIDE DEF T
<1>12. Nat \subseteq T
  BY <1>10, <1>11, Induct
<1> QED BY <1>0, <1>9, <1>12 DEF T

\* As many values as there are, and what has one bit more.
LEMMA Numbers ==
    /\ Count \in Nat /\ Count >= 4 /\ Limit \in Nat /\ Limit = Count - 1
    /\ \A v : v \in Values <=> v \in Nat /\ v < Count
    /\ \A w : w \in Wide <=> w \in Nat /\ w < 2 * Count
<1>1. Bits \in Nat /\ Bits >= 2
  BY GaloisAssumption
<1>2. Bits \in 1 .. Bits /\ Bits - 1 \in 1 .. Bits /\ Bits \in 0 .. Bits /\ Bits - 2 \in 0 .. Bits /\ (Bits - 1) - 1 = Bits - 2
  BY <1>1
<1>3. shift[Bits] = 2 * shift[Bits - 1] /\ shift[Bits - 1] = 2 * shift[Bits - 2]
  BY <1>2, ShiftsAre
<1>4. shift[Bits - 2] \in Nat /\ shift[Bits - 2] > 0
  BY <1>2, ShiftsAre
<1>5. Count \in Nat /\ Count >= 4
  BY <1>3, <1>4 DEF Count
<1> QED BY <1>5 DEF Limit, Values, Wide

\* What is known of the halves is known of the numbers.
LEMMA Halving ==
    ASSUME NEW P,
           \A a, b, c \in Nat : (a = 0 /\ b = 0 /\ c = 0) \/ <<a \div 2, b \div 2, c \div 2>> \in P => <<a, b, c>> \in P
    PROVE  \A a, b, c \in Nat : <<a, b, c>> \in P
<1> DEFINE T == {n \in Nat : \A a, b, c \in Nat : a <= n /\ b <= n /\ c <= n => <<a, b, c>> \in P}
<1>1. 0 \in T
  <2>1. \A a \in Nat : a <= 0 => a = 0
    OBVIOUS
  <2> QED BY <2>1
<1>2. ASSUME NEW n \in Nat, n \in T PROVE n + 1 \in T
  <2> SUFFICES ASSUME NEW a \in Nat, NEW b \in Nat, NEW c \in Nat, a <= n + 1, b <= n + 1, c <= n + 1
               PROVE  <<a, b, c>> \in P
    OBVIOUS
  <2>1. \A x \in Nat : x <= n + 1 => x \div 2 \in Nat /\ x \div 2 <= n
    OBVIOUS
  <2>2. <<a \div 2, b \div 2, c \div 2>> \in P
    BY <1>2, <2>1
  <2> QED BY <2>2
<1> HIDE DEF T
<1>3. Nat \subseteq T
  BY <1>1, <1>2, Induct
<1> SUFFICES ASSUME NEW a \in Nat, NEW b \in Nat, NEW c \in Nat PROVE <<a, b, c>> \in P
  OBVIOUS
<1>4. PICK n \in Nat : a <= n /\ b <= n /\ c <= n
  <2>1. a + b + c \in Nat /\ a <= a + b + c /\ b <= a + b + c /\ c <= a + b + c
    OBVIOUS
  <2> QED BY <2>1
<1> QED BY <1>3, <1>4 DEF T

\* The recursion is well founded: halves are smaller.
XorStep(g, a, b) == IF a = 0 /\ b = 0 THEN 0 ELSE 2 * g[<<a \div 2, b \div 2>>] + ((a + b) % 2)
LEMMA XorIs ==
    \A a, b \in Wide : /\ Xor(a, b) \in Nat /\ Xor(0, 0) = 0
                       /\ a \div 2 \in Wide /\ b \div 2 \in Wide
                       /\ Xor(a, b) = 2 * Xor(a \div 2, b \div 2) + ((a + b) % 2)
<1> DEFINE Body(g) == [p \in Wide \X Wide |->
                         IF p = <<0, 0>> THEN 0
                         ELSE 2 * g[<<p[1] \div 2, p[2] \div 2>>] + ((p[1] + p[2]) % 2)]
           x == CHOOSE g : g = Body(g)
           Good(g, n) == \A a, b \in 0 .. n : g[<<a, b>>] = XorStep(g, a, b)
           T == {n \in Nat : \E g \in [(0 .. n) \X (0 .. n) -> Nat] : Good(g, n)}
<1>1. 0 \in T
  <2> DEFINE g == [p \in (0 .. 0) \X (0 .. 0) |-> 0]
  <2>1. g \in [(0 .. 0) \X (0 .. 0) -> Nat]
    OBVIOUS
  <2>2. \A a, b \in 0 .. 0 : a = 0 /\ b = 0 /\ g[<<a, b>>] = 0
    OBVIOUS
  <2>3. Good(g, 0)
    BY <2>2 DEF XorStep
  <2> QED BY <2>1, <2>3
<1>2. ASSUME NEW n \in Nat, n \in T PROVE n + 1 \in T
  <2>1. PICK g \in [(0 .. n) \X (0 .. n) -> Nat] : Good(g, n)
    BY <1>2
  <2> DEFINE h == [p \in (0 .. n + 1) \X (0 .. n + 1) |-> XorStep(g, p[1], p[2])]
  <2>2. \A a, b \in 0 .. n + 1 :
          /\ a \div 2 \in 0 .. n /\ b \div 2 \in 0 .. n /\ a \div 2 \in 0 .. n + 1 /\ b \div 2 \in 0 .. n + 1
          /\ h[<<a, b>>] = XorStep(g, a, b)
    OBVIOUS
  <2>3. \A a, b \in 0 .. n : g[<<a, b>>] \in Nat
    BY <2>1
  <2>4. \A a, b \in 0 .. n + 1 : h[<<a, b>>] \in Nat
    <3> TAKE a, b \in 0 .. n + 1
    <3>1. g[<<a \div 2, b \div 2>>] \in Nat
      BY <2>2, <2>3
    <3>2. (a + b) % 2 \in Nat
      OBVIOUS
    <3> QED BY <2>2, <3>1, <3>2 DEF XorStep
  <2>5. h \in [(0 .. n + 1) \X (0 .. n + 1) -> Nat]
    BY <2>4
  <2>6. \A a, b \in 0 .. n : h[<<a, b>>] = g[<<a, b>>]
    <3>1. \A a \in 0 .. n : a \in 0 .. n + 1
      OBVIOUS
    <3> QED BY <2>1, <2>2, <3>1
  <2>7. \A a, b \in 0 .. n + 1 : h[<<a, b>>] = XorStep(h, a, b)
    <3> TAKE a, b \in 0 .. n + 1
    <3> HIDE DEF h
    <3>1. h[<<a \div 2, b \div 2>>] = g[<<a \div 2, b \div 2>>]
      BY <2>2, <2>6
    <3> QED BY <2>2, <3>1 DEF XorStep
  <2> HIDE DEF h
  <2>8. Good(h, n + 1)
    BY <2>7
  <2> QED BY <2>5, <2>8
<1> HIDE DEF T
<1>3. 2 * Count - 1 \in T
  BY <1>1, <1>2, Induct, Numbers
<1>4. PICK g \in [Wide \X Wide -> Nat] : \A a, b \in Wide : g[<<a, b>>] = XorStep(g, a, b)
  BY <1>3 DEF T, Wide
<1>5. g = Body(g)
  <2>1. \A p \in Wide \X Wide : p = <<p[1], p[2]>> /\ p[1] \in Wide /\ p[2] \in Wide
    OBVIOUS
  <2>2. \A p \in Wide \X Wide : g[p] = IF p = <<0, 0>> THEN 0 ELSE 2 * g[<<p[1] \div 2, p[2] \div 2>>] + ((p[1] + p[2]) % 2)
    BY <1>4, <2>1 DEF XorStep
  <2> QED BY <1>4, <2>2
<1>6. x = Body(x)
  <2> HIDE DEF Body
  <2> QED BY <1>5
<1>7. xor = x
  BY DEF xor
<1> HIDE DEF x
<1>8. \A a, b \in Wide : Xor(a, b) = XorStep(xor, a, b)
  <2> TAKE a, b \in Wide
  <2>1. <<a, b>> \in Wide \X Wide /\ <<a, b>>[1] = a /\ <<a, b>>[2] = b
    OBVIOUS
  <2>2. x[<<a, b>>] = IF <<a, b>> = <<0, 0>> THEN 0 ELSE 2 * x[<<a \div 2, b \div 2>>] + ((a + b) % 2)
    BY <1>6, <2>1
  <2>3. <<a, b>> = <<0, 0>> <=> a = 0 /\ b = 0
    OBVIOUS
  <2> QED BY <1>7, <2>2, <2>3 DEF XorStep, Xor
<1>9. \A a \in Wide : a \in Nat /\ a \div 2 \in Wide /\ 0 \in Wide
  BY Numbers
<1> DEFINE P == {t \in Nat \X Nat \X Nat : t[1] \in Wide /\ t[2] \in Wide => Xor(t[1], t[2]) \in Nat}
<1>10. \A a, b, c \in Nat : (a = 0 /\ b = 0 /\ c = 0) \/ <<a \div 2, b \div 2, c \div 2>> \in P => <<a, b, c>> \in P
  <2> SUFFICES ASSUME NEW a \in Nat, NEW b \in Nat, NEW c \in Nat, a \in Wide, b \in Wide,
                      (a = 0 /\ b = 0 /\ c = 0) \/ <<a \div 2, b \div 2, c \div 2>> \in P
               PROVE  Xor(a, b) \in Nat
    OBVIOUS
  <2>1. CASE a = 0 /\ b = 0
    BY <2>1, <1>8 DEF XorStep, Xor
  <2>2. CASE ~(a = 0 /\ b = 0)
    <3>1. Xor(a \div 2, b \div 2) \in Nat
      BY <1>9, <2>2
    <3>2. (a + b) % 2 \in Nat
      OBVIOUS
    <3> QED BY <3>1, <3>2, <2>2, <1>8 DEF XorStep, Xor
  <2> QED BY <2>1, <2>2
<1> HIDE DEF P
<1>11. \A a, b, c \in Nat : <<a, b, c>> \in P
  BY <1>10, Halving
<1>12. \A a, b \in Wide : Xor(a, b) \in Nat
  <2> TAKE a, b \in Wide
  <2>1. <<a, b, a>> \in P
    BY <1>9, <1>11
  <2> QED BY <2>1 DEF P
<1>13. Xor(0, 0) = 0
  BY <1>8, <1>9, Numbers DEF XorStep, Xor
<1>14. \A a, b \in Wide : Xor(a, b) = 2 * Xor(a \div 2, b \div 2) + ((a + b) % 2)
  <2> TAKE a, b \in Wide
  <2>1. CASE a = 0 /\ b = 0
    <3>1. a \div 2 = 0 /\ b \div 2 = 0 /\ (a + b) % 2 = 0
      BY <2>1
    <3> QED BY <2>1, <3>1, <1>13
  <2>2. CASE ~(a = 0 /\ b = 0)
    BY <2>2, <1>8 DEF XorStep, Xor
  <2> QED BY <2>1, <2>2
<1> QED BY <1>9, <1>12, <1>13, <1>14

\* The last bit and the others.
LEMMA XorHalf ==
    ASSUME NEW a \in Wide, NEW b \in Wide
    PROVE  /\ a \in Nat /\ b \in Nat /\ a \div 2 \in Wide /\ b \div 2 \in Wide
           /\ Xor(a, b) \in Nat /\ Xor(a, b) \div 2 = Xor(a \div 2, b \div 2)
           /\ Xor(a, b) % 2 = (a + b) % 2
<1>1. /\ a \div 2 \in Wide /\ b \div 2 \in Wide /\ Xor(a, b) \in Nat
      /\ Xor(a, b) = 2 * Xor(a \div 2, b \div 2) + ((a + b) % 2)
  BY XorIs
<1>2. Xor(a \div 2, b \div 2) \in Nat
  BY <1>1, XorIs
<1>3. a \in Nat /\ b \in Nat
  BY Numbers
<1>4. \A x, y \in Nat : (2 * x + (y % 2)) \div 2 = x /\ (2 * x + (y % 2)) % 2 = y % 2
  OBVIOUS
<1> QED BY <1>1, <1>2, <1>3, <1>4

\* A number is its last bit and the others.
LEMMA HalvesSame ==
    ASSUME NEW x \in Nat, NEW y \in Nat, x \div 2 = y \div 2, x % 2 = y % 2
    PROVE  x = y
OBVIOUS

\* The bits above the k-th: there are none unless one of the two has one.
LEMMA XorBits ==
    ASSUME NEW k \in 0 .. Bits, NEW a \in Wide, NEW b \in Wide, a < 2 * shift[k], b < 2 * shift[k]
    PROVE  /\ Xor(a, b) < 2 * shift[k]
           /\ Xor(a, b) >= shift[k] <=> ~(a >= shift[k] <=> b >= shift[k])
<1> DEFINE Law(i, x, y) == /\ Xor(x, y) < 2 * shift[i]
                           /\ Xor(x, y) >= shift[i] <=> ~(x >= shift[i] <=> y >= shift[i])
           T == {i \in Nat : i <= Bits => \A x, y \in Wide : x < 2 * shift[i] /\ y < 2 * shift[i] => Law(i, x, y)}
<1>0. Bits \in Nat
  BY GaloisAssumption
<1>1. 0 \in T
  <2>1. shift[0] = 1
    BY ShiftsAre
  <2> SUFFICES ASSUME NEW x \in Wide, NEW y \in Wide, x < 2, y < 2 PROVE Xor(x, y) < 2 /\ (Xor(x, y) >= 1 <=> ~(x >= 1 <=> y >= 1))
    BY <2>1
  <2>2. x \in {0, 1} /\ y \in {0, 1}
    BY Numbers
  <2>3. Xor(x \div 2, y \div 2) = 0
    <3>1. x \div 2 = 0 /\ y \div 2 = 0
      BY <2>2
    <3> QED BY <3>1, XorIs
  <2>4. Xor(x, y) = (x + y) % 2
    <3>1. Xor(x, y) = 2 * Xor(x \div 2, y \div 2) + ((x + y) % 2)
      BY XorIs
    <3> QED BY <2>2, <2>3, <3>1
  <2> QED BY <2>2, <2>4
<1>2. ASSUME NEW i \in Nat, i \in T PROVE i + 1 \in T
  <2> SUFFICES ASSUME i + 1 <= Bits, NEW x \in Wide, NEW y \in Wide, x < 2 * shift[i + 1], y < 2 * shift[i + 1]
               PROVE  Law(i + 1, x, y)
    OBVIOUS
  <2>1. i \in 0 .. Bits /\ i <= Bits /\ i + 1 \in 1 .. Bits /\ (i + 1) - 1 = i
    BY <1>0
  <2>2. shift[i] \in Nat /\ shift[i + 1] = 2 * shift[i]
    BY <2>1, ShiftsAre
  <2>3. /\ x \in Nat /\ y \in Nat /\ x \div 2 \in Wide /\ y \div 2 \in Wide
        /\ Xor(x, y) \in Nat /\ Xor(x, y) \div 2 = Xor(x \div 2, y \div 2)
    BY XorHalf
  <2>4. PICK s \in Nat : s = shift[i]
    BY <2>2
  <2>5. \A z \in Nat : (z < 2 * (2 * s) <=> z \div 2 < 2 * s) /\ (z >= 2 * s <=> z \div 2 >= s)
    OBVIOUS
  <2>6. x \div 2 < 2 * s /\ y \div 2 < 2 * s
    BY <2>2, <2>3, <2>4, <2>5
  <2>7. Law(i, x \div 2, y \div 2)
    BY <1>2, <2>1, <2>3, <2>4, <2>6
  <2> QED BY <2>2, <2>3, <2>4, <2>5, <2>7
<1> HIDE DEF T
<1>3. k \in T
  BY <1>0, <1>1, <1>2, Induct
<1> QED BY <1>0, <1>3 DEF T

\* What the bits of Count and of its double say.
LEMMA XorWide ==
    ASSUME NEW a \in Wide, NEW b \in Wide
    PROVE  /\ Xor(a, b) \in Wide /\ (Xor(a, b) \in Values <=> (a \in Values <=> b \in Values))
<1>1. Bits \in 0 .. Bits /\ shift[Bits] = Count
  BY GaloisAssumption DEF Count
<1>2. /\ Xor(a, b) < 2 * Count
      /\ Xor(a, b) >= Count <=> ~(a >= Count <=> b >= Count)
  BY <1>1, XorBits, Numbers
<1>3. Xor(a, b) \in Nat /\ a \in Nat /\ b \in Nat
  BY XorHalf
<1> QED BY <1>2, <1>3, Numbers

\* It is a group in which everything is its own inverse.
LEMMA XorLaws ==
    ASSUME NEW a \in Wide, NEW b \in Wide, NEW c \in Wide
    PROVE  /\ Xor(a, b) = Xor(b, a) /\ Xor(Xor(a, b), c) = Xor(a, Xor(b, c))
           /\ Xor(a, 0) = a /\ Xor(a, a) = 0
<1> DEFINE Laws(x, y, z) == /\ Xor(x, y) = Xor(y, x) /\ Xor(Xor(x, y), z) = Xor(x, Xor(y, z))
                            /\ Xor(x, 0) = x /\ Xor(x, x) = 0
           P == {t \in Nat \X Nat \X Nat : t[1] \in Wide /\ t[2] \in Wide /\ t[3] \in Wide => Laws(t[1], t[2], t[3])}
<1>0. 0 \in Wide
  BY Numbers
<1>1. \A x, y, z \in Nat :
        (x = 0 /\ y = 0 /\ z = 0) \/ <<x \div 2, y \div 2, z \div 2>> \in P => <<x, y, z>> \in P
  <2> SUFFICES ASSUME NEW x \in Wide, NEW y \in Wide, NEW z \in Wide,
                      (x = 0 /\ y = 0 /\ z = 0) \/ Laws(x \div 2, y \div 2, z \div 2)
               PROVE  Laws(x, y, z)
    <3>1. \A w \in Wide : w \div 2 \in Wide
      BY XorIs
    <3>2. \A w \in Nat : w \div 2 \in Nat
      OBVIOUS
    <3> HIDE DEF Laws
    <3>3. \A x, y, z \in Nat : <<x, y, z>> \in P <=> (x \in Wide /\ y \in Wide /\ z \in Wide => Laws(x, y, z))
      OBVIOUS
    <3> HIDE DEF P
    <3> TAKE x, y, z \in Nat
    <3>4. HAVE (x = 0 /\ y = 0 /\ z = 0) \/ <<x \div 2, y \div 2, z \div 2>> \in P
    <3>5. <<x \div 2, y \div 2, z \div 2>> \in P => (x \in Wide /\ y \in Wide /\ z \in Wide => Laws(x \div 2, y \div 2, z \div 2))
      BY <3>1, <3>2, <3>3
    <3> QED BY <3>3, <3>4, <3>5
  <2>1. CASE x = 0 /\ y = 0 /\ z = 0
    BY <2>1, <1>0, XorIs
  <2>2. CASE Laws(x \div 2, y \div 2, z \div 2)
    <3>1. x \in Nat /\ y \in Nat /\ z \in Nat
      BY Numbers
    <3>2. Xor(x, y) = Xor(y, x)
      <4>1. Xor(x, y) \in Nat /\ Xor(x, y) \div 2 = Xor(x \div 2, y \div 2) /\ Xor(x, y) % 2 = (x + y) % 2
        BY XorHalf
      <4>2. Xor(y, x) \in Nat /\ Xor(y, x) \div 2 = Xor(y \div 2, x \div 2) /\ Xor(y, x) % 2 = (y + x) % 2
        BY XorHalf
      <4>3. x + y = y + x
        BY <3>1
      <4> QED BY <4>1, <4>2, <4>3, <2>2, HalvesSame
    <3>3. Xor(x, 0) = x
      <4>1. Xor(x, 0) \in Nat /\ Xor(x, 0) \div 2 = Xor(x \div 2, 0 \div 2) /\ Xor(x, 0) % 2 = (x + 0) % 2
        BY <1>0, XorHalf
      <4>2. x + 0 = x /\ 0 \div 2 = 0
        BY <3>1
      <4> QED BY <3>1, <4>1, <4>2, <2>2, HalvesSame
    <3>4. Xor(x, x) = 0
      <4>1. Xor(x, x) \in Nat /\ Xor(x, x) \div 2 = Xor(x \div 2, x \div 2) /\ Xor(x, x) % 2 = (x + x) % 2
        BY XorHalf
      <4>2. (x + x) % 2 = 0 /\ 0 \div 2 = 0 /\ 0 % 2 = 0 /\ 0 \in Nat
        BY <3>1
      <4> QED BY <4>1, <4>2, <2>2, HalvesSame
    <3>5. Xor(Xor(x, y), z) = Xor(x, Xor(y, z))
      <4>1. /\ Xor(x, y) \in Wide /\ Xor(x, y) \in Nat
            /\ Xor(x, y) \div 2 = Xor(x \div 2, y \div 2) /\ Xor(x, y) % 2 = (x + y) % 2
        BY XorHalf, XorWide
      <4>2. /\ Xor(y, z) \in Wide /\ Xor(y, z) \in Nat
            /\ Xor(y, z) \div 2 = Xor(y \div 2, z \div 2) /\ Xor(y, z) % 2 = (y + z) % 2
        BY XorHalf, XorWide
      <4> DEFINE p == Xor(x, y)
                 q == Xor(y, z)
      <4> HIDE DEF p, q
      <4>3. /\ Xor(p, z) \in Nat /\ Xor(p, z) \div 2 = Xor(p \div 2, z \div 2) /\ Xor(p, z) % 2 = (p + z) % 2
        BY <4>1, XorHalf DEF p
      <4>4. /\ Xor(x, q) \in Nat /\ Xor(x, q) \div 2 = Xor(x \div 2, q \div 2) /\ Xor(x, q) % 2 = (x + q) % 2
        BY <4>2, XorHalf DEF q
      <4>5. (p + z) % 2 = (x + q) % 2
        BY <3>1, <4>1, <4>2 DEF p, q
      <4>6. Xor(p, z) \div 2 = Xor(x, q) \div 2
        BY <4>1, <4>2, <4>3, <4>4, <2>2 DEF p, q
      <4>7. Xor(p, z) = Xor(x, q)
        BY <4>3, <4>4, <4>5, <4>6, HalvesSame
      <4> QED BY <4>7 DEF p, q
    <3> QED BY <3>2, <3>3, <3>4, <3>5
  <2> QED BY <2>1, <2>2
<1> HIDE DEF P
<1>2. \A x, y, z \in Nat : <<x, y, z>> \in P
  BY <1>1, Halving
<1>3. <<a, b, c>> \in P
  BY <1>2, Numbers
<1> QED BY <1>3 DEF P

\* Shifted by a bit.
LEMMA XorDouble ==
    ASSUME NEW a \in Values, NEW b \in Values
    PROVE  2 * a \in Wide /\ 2 * b \in Wide /\ Xor(2 * a, 2 * b) = 2 * Xor(a, b)
<1>1. a \in Nat /\ b \in Nat /\ a < Count /\ b < Count /\ a \in Wide /\ b \in Wide
  BY Numbers
<1>2. 2 * a \in Wide /\ 2 * b \in Wide
  BY <1>1, Numbers
<1>3. (2 * a) \div 2 = a /\ (2 * b) \div 2 = b /\ (2 * a + 2 * b) % 2 = 0
  BY <1>1
<1>4. Xor(2 * a, 2 * b) = 2 * Xor((2 * a) \div 2, (2 * b) \div 2) + ((2 * a + 2 * b) % 2)
  BY <1>2, XorIs
<1>5. Xor(a, b) \in Nat
  BY <1>1, XorIs
<1> QED BY <1>2, <1>3, <1>4, <1>5

-----------------------------------------------------------------------------
(* The tables *)

\* Shifted by one, and reduced by the generator: linear.
LEMMA TwiceIs ==
    ASSUME NEW a \in Values, NEW b \in Values
    PROVE  /\ Xor(a, b) \in Values /\ Twice(a) \in Values /\ Twice(0) = 0
           /\ Twice(Xor(a, b)) = Xor(Twice(a), Twice(b))
<1>1. /\ Generator \in Wide /\ Generator \notin Values /\ 0 \in Values
      /\ \A v \in Values : v \in Wide /\ v \in Nat /\ 2 * v \in Wide
      /\ \A w \in Wide : w \in Nat /\ (w \in Values <=> ~(w >= Count))
  <2>1. Generator \in Nat /\ Generator >= Count /\ Generator < 2 * Count
    BY GaloisAssumption, Numbers
  <2> QED BY <2>1, Numbers
<1>2. Xor(a, b) \in Values
  BY <1>1, XorWide
<1>3. \A v \in Values : Twice(v) \in Values
  <2> TAKE v \in Values
  <2>1. 2 * v >= Count => Xor(2 * v, Generator) \in Values
    BY <1>1, XorWide
  <2> QED BY <1>1, <2>1 DEF Twice
<1>4. Twice(0) = 0
  BY Numbers DEF Twice
<1>5. Twice(Xor(a, b)) = Xor(Twice(a), Twice(b))
  <2> DEFINE p == 2 * a
             q == 2 * b
  <2>1. p \in Wide /\ q \in Wide /\ 2 * Xor(a, b) = Xor(p, q)
    BY XorDouble
  <2> HIDE DEF p, q
  <2>2. Twice(a) = IF p >= Count THEN Xor(p, Generator) ELSE p
    BY DEF Twice, p
  <2>3. Twice(b) = IF q >= Count THEN Xor(q, Generator) ELSE q
    BY DEF Twice, q
  <2>4. Twice(Xor(a, b)) = IF Xor(p, q) >= Count THEN Xor(Xor(p, q), Generator) ELSE Xor(p, q)
    BY <2>1 DEF Twice
  <2>5. Xor(p, q) >= Count <=> ~(p >= Count <=> q >= Count)
    BY <1>1, <2>1, XorWide
  <2>6. CASE ~(p >= Count) /\ ~(q >= Count)
    BY <2>2, <2>3, <2>4, <2>5, <2>6
  <2>7. CASE p >= Count /\ ~(q >= Count)
    <3>1. Xor(Xor(p, q), Generator) = Xor(Xor(p, Generator), q)
      <4>1. Xor(Xor(p, q), Generator) = Xor(p, Xor(q, Generator))
        BY <1>1, <2>1, XorLaws
      <4>2. Xor(q, Generator) = Xor(Generator, q)
        BY <1>1, <2>1, XorLaws
      <4>3. Xor(Xor(p, Generator), q) = Xor(p, Xor(Generator, q))
        BY <1>1, <2>1, XorLaws
      <4> QED BY <4>1, <4>2, <4>3
    <3> QED BY <2>2, <2>3, <2>4, <2>5, <2>7, <3>1
  <2>8. CASE ~(p >= Count) /\ q >= Count
    <3>1. Xor(Xor(p, q), Generator) = Xor(p, Xor(q, Generator))
      BY <1>1, <2>1, XorLaws
    <3> QED BY <2>2, <2>3, <2>4, <2>5, <2>8, <3>1
  <2>9. CASE p >= Count /\ q >= Count
    <3>1. Xor(Xor(p, Generator), Xor(q, Generator)) = Xor(p, q)
      <4> DEFINE r == Xor(q, Generator)
      <4>0. r \in Wide
        BY <1>1, <2>1, XorWide
      <4>1. Xor(Generator, r) = q
        <5>1. r = Xor(Generator, q)
          BY <1>1, <2>1, XorLaws
        <5>2. Xor(Generator, Xor(Generator, q)) = Xor(Xor(Generator, Generator), q)
          BY <1>1, <2>1, XorLaws
        <5>3. Xor(Generator, Generator) = 0
          BY <1>1, XorLaws
        <5>4. Xor(0, q) = Xor(q, 0) /\ Xor(q, 0) = q
          BY <1>1, <2>1, XorLaws
        <5> QED BY <5>1, <5>2, <5>3, <5>4
      <4>2. Xor(Xor(p, Generator), r) = Xor(p, Xor(Generator, r))
        BY <1>1, <2>1, <4>0, XorLaws
      <4> QED BY <4>1, <4>2
    <3> QED BY <2>2, <2>3, <2>4, <2>5, <2>9, <3>1
  <2> QED BY <2>6, <2>7, <2>8, <2>9
<1> QED BY <1>2, <1>3, <1>4, <1>5

\* The powers of the generator, as they are put into the table.
LEMMA AntilogIs ==
    /\ \A l \in 0 .. Limit : antilog[l] \in Values /\ AntilogTable[l] = antilog[l]
    /\ antilog[0] = 1 /\ antilog[Limit] = 0
    /\ \A l \in 0 .. Limit : l + 1 < Limit => antilog[l + 1] = Twice(antilog[l])
<1> DEFINE F == [p \in (1 .. Limit) \X Values |-> IF p[1] = Limit THEN 0 ELSE Twice(p[2])]
           Body(g) == [l \in 0 .. Limit |-> IF l = Limit THEN 0 ELSE IF l = 0 THEN 1 ELSE Twice(g[l - 1])]
           s == CHOOSE g : g = Body(g)
<1>0. Limit \in Nat /\ Limit >= 3 /\ 0 \in Values /\ 1 \in Values
  BY Numbers
<1>1. Steps(F, Values, Limit)
  BY <1>0, TwiceIs DEF Steps
<1>2. PICK f \in [0 .. Limit -> Values] : f[0] = 1 /\ \A k \in 1 .. Limit : f[k] = F[<<k, f[k - 1]>>]
  <2> HIDE DEF F
  <2>2. \E f : Follows(f, F, Values, 1, Limit)
    BY <1>0, <1>1, Recursion
  <2> QED BY <2>2 DEF Follows
<1>3. \A k \in 1 .. Limit : k - 1 \in 0 .. Limit /\ k \in 0 .. Limit
  BY <1>0
<1>4. \A k \in 1 .. Limit : f[k - 1] \in Values /\ f[k] = IF k = Limit THEN 0 ELSE Twice(f[k - 1])
  BY <1>2, <1>3
<1>5. f = Body(f)
  <2>1. \A k \in 0 .. Limit : f[k] = IF k = Limit THEN 0 ELSE IF k = 0 THEN 1 ELSE Twice(f[k - 1])
    <3> TAKE k \in 0 .. Limit
    <3>1. (k = 0 /\ k # Limit) \/ (k # 0 /\ k \in 1 .. Limit)
      BY <1>0
    <3> QED BY <3>1, <1>2, <1>4
  <2> QED BY <2>1, <1>2
<1>6. s = Body(s)
  <2> HIDE DEF Body
  <2> QED BY <1>5
<1>7. antilog = s
  BY DEF antilog
<1> HIDE DEF s
<1>8. \A l \in 0 .. Limit : antilog[l] = IF l = Limit THEN 0 ELSE IF l = 0 THEN 1 ELSE Twice(antilog[l - 1])
  BY <1>6, <1>7
<1>9. antilog[0] = 1 /\ antilog[Limit] = 0
  BY <1>0, <1>8
<1>10. \A l \in 0 .. Limit : l + 1 < Limit => antilog[l + 1] = Twice(antilog[l])
  <2> SUFFICES ASSUME NEW l \in 0 .. Limit, l + 1 < Limit PROVE antilog[l + 1] = Twice(antilog[l])
    OBVIOUS
  <2>1. l + 1 \in 0 .. Limit /\ l + 1 # Limit /\ l + 1 # 0 /\ (l + 1) - 1 = l
    BY <1>0
  <2> QED BY <2>1, <1>8
<1> DEFINE T == {l \in Nat : l < Limit => antilog[l] \in Values}
<1>11. 0 \in T
  BY <1>0, <1>9
<1>12. ASSUME NEW l \in Nat, l \in T PROVE l + 1 \in T
  <2> SUFFICES ASSUME l + 1 < Limit PROVE antilog[l + 1] \in Values
    OBVIOUS
  <2>1. l \in 0 .. Limit /\ l < Limit
    BY <1>0
  <2> QED BY <1>10, <1>12, <2>1, TwiceIs
<1> HIDE DEF T
<1>13. Nat \subseteq T
  BY <1>11, <1>12, Induct
<1>14. \A l \in 0 .. Limit : antilog[l] \in Values
  <2> TAKE l \in 0 .. Limit
  <2>1. l \in Nat /\ (l = Limit \/ l < Limit)
    BY <1>0
  <2> QED BY <2>1, <1>0, <1>9, <1>13 DEF T
<1> QED BY <1>9, <1>10, <1>14 DEF AntilogTable

\* As the generator's powers are all of the values, no two of them are the same.
LEMMA LogsAre ==
    /\ \A k, l \in 0 .. Limit : AntilogTable[k] = AntilogTable[l] => k = l
    /\ \A l \in 0 .. Limit : AntilogTable[l] \in Values /\ LogTable[AntilogTable[l]] = l
    /\ \A v \in Values : /\ LogTable[v] \in 0 .. Limit /\ AntilogTable[LogTable[v]] = v
                         /\ v # 0 => LogTable[v] < Limit
    /\ AntilogTable[0] = 1 /\ AntilogTable[Limit] = 0
<1>0. Limit \in Nat /\ Limit >= 3 /\ 0 \in 0 .. Limit /\ Limit \in 0 .. Limit
  BY Numbers
<1>1. AntilogTable \in Surjection(0 .. Limit, Values)
  <2>1. AntilogTable \in [0 .. Limit -> Values]
    BY AntilogIs DEF AntilogTable
  <2>2. \A v \in Values : \E l \in 0 .. Limit : AntilogTable[l] = v
    BY GaloisAssumption
  <2> QED BY <2>1, <2>2 DEF Surjection
<1>2. IsFiniteSet(0 .. Limit)
  BY <1>0, FS_Interval
<1>3. Cardinality(0 .. Limit) = Cardinality(Values)
  BY DEF Values
<1>4. AntilogTable \in Injection(0 .. Limit, Values)
  BY ONLY <1>1, <1>2, <1>3, FS_SurjSameCardinalityImpliesInj
<1>5. \A k, l \in 0 .. Limit : AntilogTable[k] = AntilogTable[l] => k = l
  BY <1>4 DEF Injection, IsInjective
<1>6. \A v \in Values : LogTable[v] \in 0 .. Limit /\ AntilogTable[LogTable[v]] = v
  <2> TAKE v \in Values
  <2>1. \E l \in 0 .. Limit : AntilogTable[l] = v
    BY GaloisAssumption
  <2>2. LogTable[v] = CHOOSE l \in 0 .. Limit : AntilogTable[l] = v
    BY DEF LogTable
  <2> QED BY <2>1, <2>2
<1>7. AntilogTable[0] = 1 /\ AntilogTable[Limit] = 0
  BY <1>0, AntilogIs
<1>8. \A l \in 0 .. Limit : AntilogTable[l] \in Values /\ LogTable[AntilogTable[l]] = l
  BY <1>5, <1>6, AntilogIs
<1>9. \A v \in Values : v # 0 => LogTable[v] < Limit
  BY <1>0, <1>6, <1>7
<1> QED BY <1>5, <1>6, <1>7, <1>8, <1>9

\* After the last of the powers comes the first: the generator is odd.
LEMMA Cycle ==
    ASSUME NEW l \in 0 .. Limit, l < Limit
    PROVE  AntilogTable[Wrap(l + 1)] = Twice(AntilogTable[l])
<1>0. Limit \in Nat /\ Limit >= 3 /\ 0 \in 0 .. Limit /\ Limit \in 0 .. Limit /\ Limit - 1 \in 0 .. Limit
  BY Numbers
<1>1. \A k \in 0 .. Limit : AntilogTable[k] \in Values /\ (k + 1 < Limit => AntilogTable[k + 1] = Twice(AntilogTable[k]))
  <2> TAKE k \in 0 .. Limit
  <2>1. k + 1 < Limit => k + 1 \in 0 .. Limit
    BY <1>0
  <2> QED BY <2>1, AntilogIs
<1>2. CASE l + 1 < Limit
  <2>1. Wrap(l + 1) = l + 1
    BY <1>0, <1>2 DEF Wrap
  <2> QED BY <1>1, <1>2, <2>1
<1>3. CASE ~(l + 1 < Limit)
  <2>1. l = Limit - 1 /\ Wrap(l + 1) = 0
    BY <1>0, <1>3 DEF Wrap
  <2>2. Generator \in Wide /\ Generator \in Nat /\ 0 \in Wide
    <3>1. Generator \in Nat /\ Generator >= Count /\ Generator < 2 * Count
      BY GaloisAssumption, Numbers
    <3> QED BY <3>1, Numbers
  <2>3. Generator % 2 = 1
    <3> SUFFICES ASSUME Generator % 2 = 0 PROVE FALSE
      BY <2>2
    <3>1. \A v \in Values : Twice(v) % 2 = 0
      <4> TAKE v \in Values
      <4>1. v \in Nat /\ 2 * v \in Wide /\ 2 * v \in Nat
        BY Numbers
      <4>2. Xor(2 * v, Generator) % 2 = (2 * v + Generator) % 2
        BY <2>2, <4>1, XorHalf
      <4>3. (2 * v + Generator) % 2 = 0 /\ (2 * v) % 2 = 0
        BY <2>2, <4>1
      <4> QED BY <4>2, <4>3 DEF Twice
    <3>2. PICK k \in 0 .. Limit : AntilogTable[k] = 3
      <4>1. 3 \in Values
        BY Numbers
      <4> QED BY <4>1, GaloisAssumption
    <3>3. k # 0 /\ k # Limit
      BY <3>2, LogsAre
    <3>4. k - 1 \in 0 .. Limit /\ (k - 1) + 1 = k /\ k < Limit
      BY <1>0, <3>3
    <3>5. 3 = Twice(AntilogTable[k - 1])
      BY <1>1, <3>2, <3>4
    <3>6. Twice(AntilogTable[k - 1]) % 2 = 0
      BY <1>1, <3>1, <3>4
    <3> QED BY <3>5, <3>6
  <2>4. \A v \in Values : Twice(v) = 0 => v = 0
    <3> SUFFICES ASSUME NEW v \in Values, Twice(v) = 0 PROVE v = 0
      OBVIOUS
    <3>1. v \in Nat /\ 2 * v \in Wide
      BY Numbers
    <3>2. CASE 2 * v >= Count
      <4>1. Xor(2 * v, Generator) = 0
        BY <3>2 DEF Twice
      <4>2. Xor(Xor(2 * v, Generator), Generator) = Xor(2 * v, Xor(Generator, Generator))
        BY <2>2, <3>1, XorLaws
      <4>3. Xor(Generator, Generator) = 0 /\ Xor(2 * v, 0) = 2 * v /\ Xor(0, Generator) = Xor(Generator, 0) /\ Xor(Generator, 0) = Generator
        BY <2>2, <3>1, XorLaws
      <4>4. Generator = 2 * v
        BY <4>1, <4>2, <4>3
      <4> QED BY <2>3, <3>1, <4>4
    <3>3. CASE ~(2 * v >= Count)
      BY <3>1, <3>3 DEF Twice
    <3> QED BY <3>2, <3>3
  <2>5. \A u, v \in Values : Twice(u) = Twice(v) => u = v
    <3> SUFFICES ASSUME NEW u \in Values, NEW v \in Values, Twice(u) = Twice(v) PROVE u = v
      OBVIOUS
    <3>1. Xor(u, v) \in Values /\ Twice(Xor(u, v)) = Xor(Twice(u), Twice(v)) /\ Twice(u) \in Values
      BY TwiceIs
    <3>2. \A w \in Values : w \in Wide
      BY Numbers
    <3>3. Xor(Twice(u), Twice(u)) = 0
      BY <3>1, <3>2, XorLaws
    <3>4. Xor(u, v) = 0
      BY <2>4, <3>1, <3>3
    <3>5. Xor(Xor(u, v), v) = Xor(u, Xor(v, v)) /\ Xor(v, v) = 0 /\ Xor(u, 0) = u /\ Xor(0, v) = Xor(v, 0) /\ Xor(v, 0) = v
      BY <2>2, <3>2, XorLaws, Zenon
    <3> QED BY <3>4, <3>5
  <2>6. AntilogTable[l] \in Values /\ Twice(AntilogTable[l]) \in Values
    BY <1>1, TwiceIs
  <2>7. PICK j \in 0 .. Limit : AntilogTable[j] = Twice(AntilogTable[l])
    BY <2>6, GaloisAssumption
  <2>8. j # Limit
    <3> SUFFICES ASSUME j = Limit PROVE FALSE
      OBVIOUS
    <3>1. AntilogTable[l] = AntilogTable[Limit]
      BY <2>4, <2>6, <2>7, LogsAre
    <3> QED BY <1>0, <2>1, <3>1, LogsAre
  <2>9. j = 0
    <3> SUFFICES ASSUME j # 0 PROVE FALSE
      OBVIOUS
    <3>1. j - 1 \in 0 .. Limit /\ (j - 1) + 1 = j /\ j < Limit
      BY <1>0, <2>8
    <3>2. AntilogTable[j - 1] = AntilogTable[l]
      BY <1>1, <2>5, <2>6, <2>7, <3>1
    <3>3. j - 1 = l
      BY <3>1, <3>2, LogsAre
    <3> QED BY <1>0, <2>1, <2>8, <3>3
  <2> QED BY <2>1, <2>7, <2>9
<1> QED BY <1>2, <1>3

-----------------------------------------------------------------------------
(* The field *)

LEMMA PlusIs ==
    ASSUME NEW a \in Values, NEW b \in Values
    PROVE  Plus(a, b) \in Values /\ Plus(a, b) = Xor(a, b) /\ Minus(a, b) = Plus(a, b)
<1>1. <<a, b>> \in Values \X Values /\ <<a, b>>[1] = a /\ <<a, b>>[2] = b
  OBVIOUS
<1>2. SumTable[<<a, b>>] = Xor(a, b)
  BY <1>1 DEF SumTable
<1> QED BY <1>2, TwiceIs DEF Plus, Minus

\* galois.h:80-86.
LEMMA PlusLaws ==
    ASSUME NEW a \in Values, NEW b \in Values, NEW c \in Values
    PROVE  /\ Plus(a, b) \in Values /\ Plus(a, b) = Plus(b, a)
           /\ Plus(Plus(a, b), c) = Plus(a, Plus(b, c))
           /\ Plus(a, 0) = a /\ Plus(0, a) = a /\ Plus(a, a) = 0
<1>1. 0 \in Values /\ \A v \in Values : v \in Wide
  BY Numbers
<1>2. Plus(a, b) \in Values /\ Plus(b, c) \in Values
  BY PlusIs
<1>3. Plus(a, b) = Xor(a, b) /\ Plus(b, c) = Xor(b, c) /\ Plus(b, a) = Xor(b, a)
  BY PlusIs
<1>4. Plus(Plus(a, b), c) = Xor(Xor(a, b), c) /\ Plus(a, Plus(b, c)) = Xor(a, Xor(b, c))
  BY <1>2, <1>3, PlusIs
<1>5. Plus(a, 0) = Xor(a, 0) /\ Plus(0, a) = Xor(0, a) /\ Plus(a, a) = Xor(a, a)
  BY <1>1, PlusIs
<1>6. Xor(a, b) = Xor(b, a) /\ Xor(Xor(a, b), c) = Xor(a, Xor(b, c)) /\ Xor(a, 0) = a /\ Xor(a, a) = 0
  BY <1>1, XorLaws
<1>7. Xor(0, a) = Xor(a, 0)
  BY <1>1, XorLaws
<1> QED BY <1>2, <1>3, <1>4, <1>5, <1>6, <1>7

\* Logarithms are added.
LEMMA TimesIs ==
    ASSUME NEW a \in Values, NEW b \in Values
    PROVE  /\ Times(a, b) \in Values /\ Times(a, b) = Times(b, a) /\ Times(a, 0) = 0 /\ Times(0, a) = 0
           /\ a # 0 /\ b # 0 => /\ Times(a, b) # 0 /\ Times(a, b) = AntilogTable[Wrap(LogTable[a] + LogTable[b])]
                                /\ LogTable[Times(a, b)] = Wrap(LogTable[a] + LogTable[b])
                                /\ Wrap(LogTable[a] + LogTable[b]) \in 0 .. Limit
                                /\ Wrap(LogTable[a] + LogTable[b]) < Limit
<1>0. Limit \in Nat /\ Limit \in 0 .. Limit /\ 0 \in Values
  BY Numbers
<1>1. LogTable[a] \in 0 .. Limit /\ LogTable[b] \in 0 .. Limit
  BY LogsAre
<1>2. Times(a, 0) = 0 /\ Times(0, a) = 0
  BY DEF Times
<1>3. CASE a = 0 \/ b = 0
  BY <1>0, <1>2, <1>3 DEF Times
<1>4. CASE a # 0 /\ b # 0
  <2>1. LogTable[a] < Limit /\ LogTable[b] < Limit
    BY <1>4, LogsAre
  <2> DEFINE w == Wrap(LogTable[a] + LogTable[b])
  <2>2. w \in 0 .. Limit /\ w < Limit /\ w = Wrap(LogTable[b] + LogTable[a])
    BY <1>0, <1>1, <2>1 DEF Wrap
  <2>3. Times(a, b) = AntilogTable[w] /\ Times(b, a) = AntilogTable[w]
    <3> HIDE DEF w
    <3>1. Times(b, a) = AntilogTable[Wrap(LogTable[b] + LogTable[a])]
      BY <1>4 DEF Times
    <3> QED BY <1>4, <2>2, <3>1 DEF Times, w
  <2> HIDE DEF w
  <2>4. AntilogTable[w] \in Values /\ AntilogTable[w] # 0 /\ LogTable[AntilogTable[w]] = w
    <3>1. w # Limit
      BY <1>0, <2>2
    <3> QED BY <1>0, <2>2, <3>1, LogsAre
  <2> QED BY <1>2, <1>4, <2>2, <2>3, <2>4 DEF w
<1> QED BY <1>3, <1>4

\* A field: galois.h's operators +, -, * and / have the laws of the arithmetic of
\* fractions.
LEMMA TimesOne ==
    ASSUME NEW a \in Values
    PROVE  Times(1, a) = a /\ Times(a, 1) = a
<1>0. 1 \in Values /\ Limit \in Nat /\ Limit >= 3 /\ 0 \in 0 .. Limit
  BY Numbers
<1>1. CASE a = 0
  BY <1>0, <1>1, TimesIs
<1>2. CASE a # 0
  <2>1. LogTable[1] = 0
    BY <1>0, LogsAre
  <2>2. LogTable[a] \in 0 .. Limit /\ LogTable[a] < Limit /\ AntilogTable[LogTable[a]] = a
    BY <1>2, LogsAre
  <2>3. Wrap(LogTable[1] + LogTable[a]) = LogTable[a]
    BY <1>0, <2>1, <2>2 DEF Wrap
  <2>4. Times(1, a) = AntilogTable[Wrap(LogTable[1] + LogTable[a])] /\ Times(a, 1) = Times(1, a)
    BY <1>0, <1>2, TimesIs
  <2> QED BY <2>2, <2>3, <2>4
<1> QED BY <1>1, <1>2

LEMMA TimesAssoc ==
    ASSUME NEW a \in Values, NEW b \in Values, NEW c \in Values
    PROVE  Times(Times(a, b), c) = Times(a, Times(b, c))
<1>0. Limit \in Nat /\ 0 \in Values
  BY Numbers
<1>1. Times(a, b) \in Values /\ Times(b, c) \in Values
  BY TimesIs
<1>2. CASE a = 0 \/ b = 0 \/ c = 0
  <2>1. Times(0, c) = 0 /\ Times(a, 0) = 0 /\ Times(b, 0) = 0 /\ Times(0, b) = 0 /\ Times(0, Times(b, c)) = 0 /\ Times(Times(a, b), 0) = 0
    BY <1>0, <1>1, TimesIs
  <2> QED BY <1>2, <2>1
<1>3. CASE a # 0 /\ b # 0 /\ c # 0
  <2> DEFINE i == LogTable[a]
             j == LogTable[b]
             k == LogTable[c]
  <2>1. i \in 0 .. Limit /\ j \in 0 .. Limit /\ k \in 0 .. Limit /\ i < Limit /\ j < Limit /\ k < Limit
    BY <1>3, LogsAre
  <2>2. Times(a, b) # 0 /\ LogTable[Times(a, b)] = Wrap(i + j)
    BY <1>3, TimesIs
  <2>3. Times(b, c) # 0 /\ LogTable[Times(b, c)] = Wrap(j + k)
    BY <1>3, TimesIs
  <2>4. Times(Times(a, b), c) = AntilogTable[Wrap(Wrap(i + j) + k)]
    BY <1>1, <1>3, <2>2, TimesIs
  <2>5. Times(a, Times(b, c)) = AntilogTable[Wrap(i + Wrap(j + k))]
    BY <1>1, <1>3, <2>3, TimesIs
  <2>6. Wrap(Wrap(i + j) + k) = Wrap(i + Wrap(j + k))
    <3> HIDE DEF i, j, k
    <3> QED BY <1>0, <2>1 DEF Wrap
  <2> QED BY <2>4, <2>5, <2>6
<1> QED BY <1>2, <1>3

\* A product is that of the factor's predecessor among the powers, doubled, which is linear.
LEMMA Distributes ==
    ASSUME NEW a \in Values, NEW b \in Values, NEW c \in Values
    PROVE  Times(a, Plus(b, c)) = Plus(Times(a, b), Times(a, c))
<1>0. Limit \in Nat /\ Limit >= 3 /\ 0 \in Values /\ 1 \in Values
  BY Numbers
<1> DEFINE Law(l) == \A u, v \in Values : Times(AntilogTable[l], Plus(u, v)) = Plus(Times(AntilogTable[l], u), Times(AntilogTable[l], v))
           T == {l \in Nat : l < Limit => Law(l)}
<1>1. 0 \in T
  <2>1. AntilogTable[0] = 1
    BY LogsAre
  <2>2. Law(0)
    BY <2>1, PlusIs, TimesOne
  <2> QED BY <2>2
<1>2. ASSUME NEW l \in Nat, l \in T PROVE l + 1 \in T
  <2> SUFFICES ASSUME l + 1 < Limit PROVE Law(l + 1)
    OBVIOUS
  <2>1. l \in 0 .. Limit /\ l + 1 \in 0 .. Limit /\ l < Limit /\ l # Limit /\ l + 1 # Limit
    BY <1>0
  <2> DEFINE p == AntilogTable[l]
             q == AntilogTable[l + 1]
  <2>2. p \in Values /\ q \in Values /\ p # 0 /\ q # 0 /\ LogTable[p] = l /\ LogTable[q] = l + 1
    <3>1. Limit \in 0 .. Limit
      BY <1>0
    <3> QED BY <2>1, <3>1, LogsAre
  <2>3. \A v \in Values : Times(q, v) = Twice(Times(p, v))
    <3> HIDE DEF p, q
    <3> TAKE v \in Values
    <3>1. CASE v = 0
      BY <1>0, <2>2, <3>1, TimesIs, TwiceIs
    <3>2. CASE v # 0
      <4> DEFINE j == LogTable[v]
      <4>1. j \in 0 .. Limit /\ j < Limit
        BY <3>2, LogsAre
      <4>2. Times(p, v) = AntilogTable[Wrap(l + j)] /\ Times(q, v) = AntilogTable[Wrap((l + 1) + j)]
        BY <2>2, <3>2, TimesIs
      <4>3. Wrap(l + j) \in 0 .. Limit /\ Wrap(l + j) < Limit /\ Wrap((l + 1) + j) = Wrap(Wrap(l + j) + 1)
        <5> HIDE DEF j
        <5> QED BY <1>0, <2>1, <4>1 DEF Wrap
      <4>4. AntilogTable[Wrap(Wrap(l + j) + 1)] = Twice(AntilogTable[Wrap(l + j)])
        BY <4>3, Cycle
      <4> QED BY <4>2, <4>3, <4>4
    <3> QED BY <3>1, <3>2
  <2> HIDE DEF p, q
  <2>4. \A u, v \in Values : Times(p, Plus(u, v)) = Plus(Times(p, u), Times(p, v))
    BY <1>2, <2>1 DEF p
  <2>5. \A u, v \in Values : Times(q, Plus(u, v)) = Plus(Times(q, u), Times(q, v))
    <3> TAKE u, v \in Values
    <3>1. Plus(u, v) \in Values
      BY PlusIs
    <3>2. Times(q, Plus(u, v)) = Twice(Plus(Times(p, u), Times(p, v)))
      BY <2>3, <2>4, <3>1
    <3>3. Times(p, u) \in Values /\ Times(p, v) \in Values
      BY <2>2, TimesIs
    <3>4. Plus(Times(p, u), Times(p, v)) = Xor(Times(p, u), Times(p, v))
      BY <3>3, PlusIs
    <3>5. /\ Twice(Xor(Times(p, u), Times(p, v))) = Xor(Twice(Times(p, u)), Twice(Times(p, v)))
          /\ Twice(Times(p, u)) \in Values /\ Twice(Times(p, v)) \in Values
      BY <3>3, TwiceIs
    <3>6. Xor(Twice(Times(p, u)), Twice(Times(p, v))) = Plus(Twice(Times(p, u)), Twice(Times(p, v)))
      BY <3>5, PlusIs
    <3> QED BY <2>3, <3>2, <3>4, <3>5, <3>6
  <2> QED BY <2>5 DEF q
<1> HIDE DEF T
<1>3. Nat \subseteq T
  BY <1>1, <1>2, Induct
<1>4. CASE a = 0
  <2>1. Plus(b, c) \in Values /\ Plus(0, 0) = 0
    BY <1>0, PlusLaws
  <2>2. Times(0, Plus(b, c)) = 0 /\ Times(0, b) = 0 /\ Times(0, c) = 0
    BY <2>1, TimesIs
  <2> QED BY <1>4, <2>1, <2>2
<1>5. CASE a # 0
  <2>1. LogTable[a] \in Nat /\ LogTable[a] < Limit /\ AntilogTable[LogTable[a]] = a
    BY <1>5, LogsAre
  <2>2. LogTable[a] \in T
    BY <1>3, <2>1
  <2>3. Law(LogTable[a])
    BY <2>1, <2>2 DEF T
  <2> QED BY <2>1, <2>3
<1> QED BY <1>4, <1>5

\* What is divided by something other than 0 is that times the quotient.
LEMMA OverIs ==
    ASSUME NEW a \in Values, NEW b \in Values, b # 0
    PROVE  /\ Over(a, b) \in Values /\ Times(Over(a, b), b) = a
           /\ Over(1, b) \in Values /\ Over(a, b) = Times(Over(1, b), a) /\ Over(b, b) = 1
<1>0. Limit \in Nat /\ Limit >= 3 /\ 0 \in Values /\ 1 \in Values
  BY Numbers
<1>1. \A v \in Values : Over(v, b) \in Values /\ Times(Over(v, b), b) = v
  <2> TAKE v \in Values
  <2>1. CASE v = 0
    BY <1>0, <2>1, TimesIs DEF Over
  <2>2. CASE v # 0
    <3> DEFINE i == LogTable[v]
               j == LogTable[b]
               d == IF i - j < 0 THEN (i - j) + Limit ELSE i - j
    <3>1. i \in 0 .. Limit /\ j \in 0 .. Limit /\ i < Limit /\ j < Limit /\ AntilogTable[i] = v
      BY <2>2, LogsAre
    <3>2. Over(v, b) = AntilogTable[d]
      BY <2>2 DEF Over
    <3>3. d \in 0 .. Limit /\ d < Limit /\ Wrap(d + j) = i
      <4> HIDE DEF i, j
      <4> QED BY <1>0, <3>1 DEF Wrap
    <3> HIDE DEF d
    <3>4. AntilogTable[d] \in Values /\ LogTable[AntilogTable[d]] = d /\ AntilogTable[d] # 0
      <4>1. Limit \in 0 .. Limit /\ d # Limit
        BY <1>0, <3>3
      <4> QED BY <3>3, <4>1, LogsAre
    <3>5. Times(AntilogTable[d], b) = AntilogTable[Wrap(d + j)]
      BY <3>4, TimesIs
    <3> QED BY <3>1, <3>2, <3>3, <3>4, <3>5
  <2> QED BY <2>1, <2>2
<1>2. \A u, v \in Values : Times(u, b) = Times(v, b) => u = v
  <2> SUFFICES ASSUME NEW u \in Values, NEW v \in Values, Times(u, b) = Times(v, b) PROVE u = v
    OBVIOUS
  <2>1. /\ Over(1, b) \in Values /\ Times(Over(1, b), b) = 1
        /\ Times(Times(u, b), Over(1, b)) = Times(u, Times(b, Over(1, b)))
        /\ Times(Times(v, b), Over(1, b)) = Times(v, Times(b, Over(1, b)))
    BY <1>0, <1>1, TimesAssoc
  <2>2. Times(b, Over(1, b)) = 1
    BY <2>1, TimesIs
  <2> QED BY <2>1, <2>2, TimesOne
<1>3. Over(a, b) = Times(Over(1, b), a)
  <2>1. Over(1, b) \in Values /\ Times(Over(1, b), b) = 1 /\ Over(a, b) \in Values /\ Times(Over(a, b), b) = a
    BY <1>0, <1>1
  <2>2. Times(Over(1, b), a) \in Values /\ Times(Over(1, b), a) = Times(a, Over(1, b))
    BY <2>1, TimesIs
  <2>3. Times(Times(a, Over(1, b)), b) = Times(a, Times(Over(1, b), b)) /\ Times(a, 1) = a
    BY <2>1, TimesAssoc, TimesOne
  <2>4. Times(Over(a, b), b) = Times(Times(Over(1, b), a), b)
    BY <2>1, <2>2, <2>3
  <2> QED BY <1>2, <2>1, <2>2, <2>4
<1>4. Over(b, b) = 1
  <2>1. Times(Over(b, b), b) = Times(1, b)
    BY <1>1, TimesOne
  <2> QED BY <1>0, <1>1, <1>2, <2>1
<1> QED BY <1>0, <1>1, <1>3, <1>4

\* The code's sums, products and quotients, by its tables, are those of a field of as many
\* values as there are words of Bits bits.  galois.h:80-255.
THEOREM Field ==
    ASSUME NEW a \in Values, NEW b \in Values, NEW c \in Values
    PROVE  /\ Plus(a, b) \in Values /\ Plus(a, b) = Plus(b, a) /\ Plus(Plus(a, b), c) = Plus(a, Plus(b, c))
           /\ Plus(a, 0) = a /\ Plus(a, a) = 0 /\ Minus(a, b) = Plus(a, b)
           /\ Times(a, b) \in Values /\ Times(a, b) = Times(b, a) /\ Times(Times(a, b), c) = Times(a, Times(b, c))
           /\ Times(a, 1) = a /\ Times(a, Plus(b, c)) = Plus(Times(a, b), Times(a, c))
           /\ b # 0 => Over(a, b) \in Values /\ Times(Over(a, b), b) = a
<1>1. Plus(a, b) \in Values /\ Plus(a, b) = Plus(b, a) /\ Minus(a, b) = Plus(a, b) /\ Plus(a, 0) = a /\ Plus(a, a) = 0
  BY PlusIs, PlusLaws
<1>2. Plus(Plus(a, b), c) = Plus(a, Plus(b, c))
  BY PlusLaws
<1>3. Times(a, b) \in Values /\ Times(a, b) = Times(b, a) /\ Times(a, 1) = a
  BY TimesIs, TimesOne
<1>4. Times(Times(a, b), c) = Times(a, Times(b, c))
  BY TimesAssoc
<1>5. Times(a, Plus(b, c)) = Plus(Times(a, b), Times(a, c))
  BY Distributes
<1>6. b # 0 => Over(a, b) \in Values /\ Times(Over(a, b), b) = a
  BY OverIs
<1> QED BY <1>1, <1>2, <1>3, <1>4, <1>5, <1>6

-----------------------------------------------------------------------------
(* Powers and the multiplication tables *)

LEMMA Divided ==
    ASSUME NEW c \in Nat, c > 0, NEW q \in Nat, NEW r \in Nat, r < c
    PROVE  (c * q + r) \div c = q /\ (c * q + r) % c = r
<1>1. PICK x \in Nat : x = c * q + r
  OBVIOUS
<1>2. x \div c \in Nat /\ x % c \in Nat /\ x % c < c /\ x = c * (x \div c) + (x % c)
  OBVIOUS
<1>3. PICK d \in Nat : d = x \div c
  BY <1>2
<1>4. PICK e \in Nat : e = x % c
  BY <1>2
<1>5. c * q + r = c * d + e /\ e < c
  BY <1>1, <1>2, <1>3, <1>4
<1>6. \A u, v, y, z \in Nat : y < c /\ z < c /\ u < v => c * u + y < c * v + z
  <2> TAKE u, v, y, z \in Nat
  <2> HAVE y < c /\ z < c /\ u < v
  <2>1. c * v >= c * (u + 1)
    OBVIOUS
  <2>2. c * (u + 1) = c * u + c
    OBVIOUS
  <2>3. c * u \in Nat /\ c * v \in Nat
    OBVIOUS
  <2> QED BY <2>1, <2>2, <2>3
<1>7. d = q
  <2>1. ~(d < q) /\ ~(q < d)
    <3>1. c * q + r \in Nat
      OBVIOUS
    <3> QED BY <1>5, <1>6, <3>1
  <2> QED BY <2>1
<1>8. e = r
  <2>1. c * q \in Nat
    OBVIOUS
  <2> QED BY <1>5, <1>7, <2>1
<1> QED BY <1>1, <1>3, <1>4, <1>7, <1>8

\* A multiple of a logarithm is reduced modulo Limit by adding its two halves.
Reduced(s) == Wrap((s \div Count) + (s % Count))
LEMMA ReducedIs ==
    ASSUME NEW s \in Nat, NEW t \in Nat, t < Limit, s + t < Count * (Limit - 1)
    PROVE  Reduced(s) \in 0 .. Limit - 1 /\ Reduced(s + t) = Wrap(Reduced(s) + t)
<1>0. Count \in Nat /\ Count >= 4 /\ Limit = Count - 1 /\ Limit \in Nat /\ Limit - 1 \in Nat
  BY Numbers
<1>1. PICK c \in Nat : c = Count /\ c >= 4
  BY <1>0
<1> DEFINE q == s \div c
           r == s % c
<1>2. q \in Nat /\ r \in Nat /\ r < c /\ s = c * q + r
  BY <1>1
<1> HIDE DEF q, r
<1>3. q < Limit - 1
  <2> SUFFICES ASSUME q >= Limit - 1 PROVE FALSE
    BY <1>0, <1>2
  <2>1. c * q >= c * (Limit - 1)
    <3>1. \A x, y \in Nat : x >= y => c * x >= c * y
      OBVIOUS
    <3> QED BY <1>0, <1>2, <3>1
  <2>2. c * q \in Nat /\ c * (Limit - 1) \in Nat
    BY <1>0, <1>2
  <2> QED BY <1>1, <1>2, <2>1, <2>2
<1>4. Reduced(s) = Wrap(q + r)
  BY <1>1 DEF Reduced, q, r
<1>5. CASE r + t < c
  <2>1. s + t = c * q + (r + t) /\ r + t \in Nat
    <3>1. c * q \in Nat
      BY <1>2
    <3> QED BY <1>2, <3>1
  <2>2. (s + t) \div c = q /\ (s + t) % c = r + t
    BY <1>1, <1>2, <1>5, <2>1, Divided
  <2>3. Reduced(s + t) = Wrap(q + (r + t))
    BY <1>1, <2>2 DEF Reduced
  <2> QED BY <1>0, <1>1, <1>2, <1>3, <1>4, <1>5, <2>3 DEF Wrap
<1>6. CASE ~(r + t < c)
  <2>1. s + t = c * (q + 1) + ((r + t) - c) /\ (r + t) - c \in Nat /\ (r + t) - c < c /\ q + 1 \in Nat
    <3>1. c * q \in Nat /\ c * (q + 1) = c * q + c
      BY <1>2
    <3> QED BY <1>0, <1>1, <1>2, <1>6, <3>1
  <2>2. (s + t) \div c = q + 1 /\ (s + t) % c = (r + t) - c
    <3>1. PICK d \in Nat : d = q + 1
      BY <2>1
    <3>2. PICK e \in Nat : e = (r + t) - c
      BY <2>1
    <3>3. e < c /\ s + t = c * d + e
      BY <2>1, <3>1, <3>2
    <3>4. (s + t) \div c = d /\ (s + t) % c = e
      BY <1>1, <3>3, Divided
    <3> QED BY <3>1, <3>2, <3>4
  <2>3. Reduced(s + t) = Wrap((q + 1) + ((r + t) - c))
    BY <1>1, <2>2 DEF Reduced
  <2> QED BY <1>0, <1>1, <1>2, <1>3, <1>4, <1>6, <2>3 DEF Wrap
<1> QED BY <1>5, <1>6

\* galois.h:276-294.  A power is that of one less, multiplied once more, for every
\* exponent that a recovery block may have.
THEOREM PowerIs ==
    ASSUME NEW a \in Values, NEW n \in Nat, n < Limit
    PROVE  /\ Power(a, 0) = 1 /\ Power(a, n) \in Values
           /\ Power(a, n + 1) = Times(Power(a, n), a)
<1>0. /\ Limit \in Nat /\ Limit >= 3 /\ Count = Limit + 1 /\ Count \in Nat /\ 0 \in Values /\ 1 \in Values
      /\ n + 1 # 0 /\ Limit \in 0 .. Limit
  BY Numbers
<1>1. Power(a, 0) = 1
  BY DEF Power
<1>2. CASE a = 0
  <2>1. \A k \in Nat : k # 0 => Power(a, k) = 0
    BY <1>2 DEF Power
  <2>2. Power(a, n) = 1 \/ Power(a, n) = 0
    BY <1>1, <2>1
  <2>3. Power(a, n + 1) = 0
    BY <1>0, <2>1
  <2> QED BY <1>0, <1>1, <1>2, <2>2, <2>3, TimesIs
<1>3. CASE a # 0
  <2>1. PICK l \in Nat : l = LogTable[a] /\ l < Limit /\ AntilogTable[l] = a
    BY <1>3, LogsAre
  <2>2. l * n \in Nat /\ l * (n + 1) = l * n + l
    <3>1. l \in Nat /\ n \in Nat
      OBVIOUS
    <3> QED BY ONLY <3>1
  <2>3. PICK s \in Nat : s = l * n
    BY <2>2
  <2>4. s + l < Count * (Limit - 1)
    <3>1. PICK m \in Nat : m = Limit - 1 /\ m >= 2
      BY <1>0
    <3>2. l <= m /\ n + 1 <= m + 1 /\ n + 1 \in Nat
      BY <1>0, <2>1, <3>1
    <3>3. l * (n + 1) <= m * (m + 1)
      <4>1. \A x, y, z \in Nat : x <= y => x * z <= y * z /\ z * x <= z * y
        OBVIOUS
      <4>2. l * (n + 1) <= m * (n + 1) /\ m * (n + 1) <= m * (m + 1)
        BY <3>2, <4>1
      <4>3. l * (n + 1) \in Nat /\ m * (n + 1) \in Nat /\ m * (m + 1) \in Nat
        BY <3>2
      <4> QED BY <4>2, <4>3
    <3>4. (m + 2) * m = m * (m + 1) + m /\ m * (m + 1) \in Nat
      OBVIOUS
    <3>5. Count = m + 2
      BY <1>0, <3>1
    <3> QED BY <2>2, <2>3, <3>1, <3>3, <3>4, <3>5
  <2>5. Reduced(s) \in 0 .. Limit - 1 /\ Reduced(s + l) = Wrap(Reduced(s) + l)
    BY <2>1, <2>3, <2>4, ReducedIs
  <2>6. Power(a, n) = AntilogTable[Reduced(s)]
    <3>1. CASE n = 0
      <4>1. s = 0
        BY <2>3, <3>1, <2>1
      <4>2. Count * 0 + 0 = 0
        BY <1>0
      <4>3. 0 \div Count = 0 /\ 0 % Count = 0
        BY <1>0, <4>2, Divided
      <4>4. Reduced(0) = 0
        BY <1>0, <4>3 DEF Reduced, Wrap
      <4> QED BY <1>1, <3>1, <4>1, <4>4, LogsAre
    <3>2. CASE n # 0
      BY <1>3, <2>1, <2>3, <3>2 DEF Power, Reduced
    <3> QED BY <3>1, <3>2
  <2>7. Power(a, n + 1) = AntilogTable[Reduced(s + l)]
    BY <1>0, <1>3, <2>1, <2>2, <2>3 DEF Power, Reduced
  <2>8. PICK d \in 0 .. Limit : d = Reduced(s) /\ d < Limit
    BY <1>0, <2>5
  <2>9. AntilogTable[d] \in Values /\ LogTable[AntilogTable[d]] = d /\ AntilogTable[d] # 0
    <3>1. d # Limit
      BY <1>0, <2>8
    <3> QED BY <1>0, <2>8, <3>1, LogsAre
  <2>10. Times(AntilogTable[d], a) = AntilogTable[Wrap(d + l)]
    BY <1>3, <2>1, <2>9, TimesIs
  <2> QED BY <1>1, <2>5, <2>6, <2>7, <2>8, <2>9, <2>10
<1> QED BY <1>2, <1>3

\* A number's low and high bits.
LEMMA XorSplit ==
    ASSUME NEW k \in 0 .. Bits, NEW x \in Nat, NEW y \in Nat, x < shift[k], x + shift[k] * y \in Wide
    PROVE  Xor(x, shift[k] * y) = x + shift[k] * y
<1> DEFINE T == {i \in Nat : i <= Bits =>
                   \A u, v \in Nat : u < shift[i] /\ u + shift[i] * v \in Wide => Xor(u, shift[i] * v) = u + shift[i] * v}
<1>0. Bits \in Nat /\ Count \in Nat /\ \A w : w \in Wide <=> w \in Nat /\ w < 2 * Count
  BY GaloisAssumption, Numbers
<1>1. 0 \in T
  <2> SUFFICES ASSUME NEW v \in Nat, v \in Wide PROVE Xor(0, v) = v
    <3>1. shift[0] = 1 /\ \A u, v \in Nat : u < 1 => u = 0 /\ u + 1 * v = v /\ 1 * v = v /\ 0 + v = v
      BY ShiftsAre
    <3> QED BY <3>1
  <2>1. 0 \in Wide
    BY <1>0
  <2>2. Xor(0, v) = Xor(v, 0) /\ Xor(v, 0) = v
    BY <2>1, XorLaws
  <2> QED BY <2>2
<1>2. ASSUME NEW i \in Nat, i \in T PROVE i + 1 \in T
  <2> SUFFICES ASSUME i + 1 <= Bits, NEW u \in Nat, NEW v \in Nat,
                      u < shift[i + 1], u + shift[i + 1] * v \in Wide
               PROVE  Xor(u, shift[i + 1] * v) = u + shift[i + 1] * v
    OBVIOUS
  <2>1. i \in 0 .. Bits /\ i <= Bits /\ i + 1 \in 1 .. Bits /\ (i + 1) - 1 = i
    BY <1>0
  <2>2. PICK s \in Nat : s = shift[i] /\ shift[i + 1] = 2 * s
    BY <2>1, ShiftsAre
  <2>3. PICK p \in Nat : p = s * v
    OBVIOUS
  <2>4. shift[i + 1] * v = 2 * p
    BY <2>2, <2>3
  <2>5. u \div 2 \in Nat /\ u \div 2 < s /\ (2 * p) \div 2 = p /\ (u \div 2) + p \in Wide /\ u \in Wide /\ 2 * p \in Wide
    BY <1>0, <2>2, <2>4
  <2>6. Xor(u \div 2, p) = (u \div 2) + p
    BY <1>2, <2>1, <2>2, <2>3, <2>5
  <2>7. Xor(u, 2 * p) = 2 * Xor(u \div 2, (2 * p) \div 2) + ((u + 2 * p) % 2)
    BY <2>5, XorIs
  <2>8. 2 * ((u \div 2) + p) + ((u + 2 * p) % 2) = u + 2 * p
    OBVIOUS
  <2> QED BY <2>4, <2>5, <2>6, <2>7, <2>8
<1> HIDE DEF T
<1>3. k \in T
  BY <1>0, <1>1, <1>2, Induct
<1> QED BY <1>0, <1>3 DEF T

LEMMA ShiftAdds ==
    ASSUME NEW j \in Nat, NEW k \in Nat, j + k <= Bits
    PROVE  shift[j + k] = shift[j] * shift[k]
<1> DEFINE T == {i \in Nat : i <= k => shift[j + i] = shift[j] * shift[i]}
<1>0. Bits \in Nat /\ j \in 0 .. Bits /\ shift[j] \in Nat
  BY GaloisAssumption, ShiftsAre
<1>1. 0 \in T
  BY <1>0, ShiftsAre
<1>2. ASSUME NEW i \in Nat, i \in T PROVE i + 1 \in T
  <2> SUFFICES ASSUME i + 1 <= k PROVE shift[j + (i + 1)] = shift[j] * shift[i + 1]
    OBVIOUS
  <2>1. /\ i + 1 \in 1 .. Bits /\ (i + 1) - 1 = i /\ i \in 0 .. Bits /\ i <= k
        /\ j + (i + 1) \in 1 .. Bits /\ (j + (i + 1)) - 1 = j + i
    BY <1>0
  <2>2. shift[i + 1] = 2 * shift[i] /\ shift[j + (i + 1)] = 2 * shift[j + i] /\ shift[i] \in Nat
    BY <2>1, ShiftsAre
  <2>3. shift[j + i] = shift[j] * shift[i]
    BY <1>2, <2>1
  <2>4. \A x, y \in Nat : 2 * (x * y) = x * (2 * y)
    OBVIOUS
  <2> QED BY <1>0, <2>2, <2>3, <2>4
<1> HIDE DEF T
<1>3. k \in T
  BY <1>1, <1>2, Induct
<1> QED BY <1>3 DEF T

LEMMA QuotientAndRest ==
    ASSUME NEW c \in Nat, c > 0, NEW x \in Nat
    PROVE  x \div c \in Nat /\ x % c \in Nat /\ x % c < c /\ x = c * (x \div c) + (x % c)
OBVIOUS

\* reedsolomon.cpp:486-600.  What is looked up for the two halves of a value and
\* added is the product.
THEOREM LongMultiplyIs ==
    ASSUME NEW f \in Values, NEW v \in Values
    PROVE  LongMultiply[f][v] = Times(f, v)
<1>0. Bits \in Nat /\ Bits >= 2 /\ Count \in Nat /\ \A w : w \in Values <=> w \in Nat /\ w < Count
  BY GaloisAssumption, Numbers
<1>1. PICK b \in 0 .. Bits : b = Bits \div 2
  BY <1>0
<1>2. PICK h \in Nat : h = shift[b] /\ h > 0 /\ HalfCount = h
  BY <1>1, ShiftsAre DEF HalfCount
<1>3. PICK g \in Nat : g > 0 /\ Count = h * g
  <2>1. b \in Nat /\ Bits - b \in Nat /\ b + (Bits - b) = Bits /\ Bits - b \in 0 .. Bits
    BY <1>0
  <2>2. shift[Bits] = shift[b] * shift[Bits - b] /\ shift[Bits - b] \in Nat /\ shift[Bits - b] > 0
    BY <1>0, <2>1, ShiftAdds, ShiftsAre
  <2> QED BY <1>2, <2>2 DEF Count
<1>4. Count \div h = g
  <2>1. h * g + 0 = Count
    BY <1>3
  <2>2. (h * g + 0) \div h = g
    BY <1>2, <1>3, Divided
  <2> QED BY <2>1, <2>2
<1>5. \A w \in Values : /\ w % h \in Nat /\ w % h < h /\ w \div h \in Nat /\ w \div h < g
                        /\ w = (w % h) + h * (w \div h) /\ (w \div h) * h = w - (w % h)
                        /\ w % h \in Values /\ w - (w % h) \in Values
                        /\ w = Plus(w % h, w - (w % h))
  <2> TAKE w \in Values
  <2>1. w \in Nat /\ w < h * g
    BY <1>0, <1>3
  <2>2. PICK q \in Nat, r \in Nat : q = w \div h /\ r = w % h /\ r < h /\ w = h * q + r
    <3>1. w \div h \in Nat /\ w % h \in Nat /\ w % h < h /\ w = h * (w \div h) + (w % h)
      BY <1>2, <2>1, QuotientAndRest
    <3> QED BY <3>1
  <2>3. q < g
    <3> SUFFICES ASSUME q >= g PROVE FALSE
      BY <2>2
    <3>1. h * q >= h * g /\ h * q \in Nat /\ h * g \in Nat
      <4>1. \A x, y \in Nat : x >= y => h * x >= h * y
        OBVIOUS
      <4> QED BY <4>1
    <3> QED BY <2>1, <2>2, <3>1
  <2>4. PICK p \in Nat : p = h * q /\ q * h = p
    OBVIOUS
  <2>5. w = p + r /\ w - r = p /\ r \in Values /\ p \in Values /\ r + p = w /\ w \in Wide
    BY <1>0, <2>1, <2>2, <2>4, Numbers
  <2>6. Xor(r, p) = r + p
    BY <1>2, <2>2, <2>4, <2>5, XorSplit
  <2>7. Plus(r, p) = w
    BY <2>5, <2>6, PlusIs
  <2> QED BY <2>2, <2>3, <2>4, <2>5, <2>7
<1> DEFINE fl == f % h
           fh == f - fl
           vl == v % h
           vh == v - vl
<1>6. fl \in Values /\ fh \in Values /\ vl \in Values /\ vh \in Values /\ f = Plus(fl, fh) /\ v = Plus(vl, vh)
  BY <1>5
<1>7. LongMultiply[f][v] = Plus(Plus(Times(fl, vl), Times(vl, fh)), Plus(Times(fl, vh), Times(fh, vh)))
  <2> DEFINE L == [i \in 0 .. h - 1 |-> Plus(Times(fl, i), Times(i, fh))]
             H == [i \in 0 .. g - 1 |-> Plus(Times(fl, i * h), Times(fh, i * h))]
  <2>1. Long(f) = [w \in Values |-> Plus(L[w % h], H[w \div h])]
    BY <1>2, <1>4 DEF Long
  <2>2. vl \in 0 .. h - 1 /\ v \div h \in 0 .. g - 1 /\ (v \div h) * h = vh
    BY <1>2, <1>3, <1>5
  <2>3. L[vl] = Plus(Times(fl, vl), Times(vl, fh))
    BY <2>2
  <2>4. H[v \div h] = Plus(Times(fl, vh), Times(fh, vh))
    <3>1. H[v \div h] = Plus(Times(fl, (v \div h) * h), Times(fh, (v \div h) * h))
      BY <2>2
    <3> QED BY <2>2, <3>1
  <2> HIDE DEF L, H
  <2>5. LongMultiply[f] = Long(f)
    BY DEF LongMultiply
  <2> QED BY <2>1, <2>3, <2>4, <2>5
<1> HIDE DEF fl, fh, vl, vh
<1>8. /\ Times(f, vl) = Times(vl, f) /\ Times(f, vh) = Times(vh, f) /\ Times(vl, fl) = Times(fl, vl)
      /\ Times(vh, fl) = Times(fl, vh) /\ Times(vh, fh) = Times(fh, vh)
  BY <1>6, TimesIs
<1>9. Times(f, v) = Plus(Times(f, vl), Times(f, vh))
  BY <1>6, Distributes
<1>10. Times(vl, f) = Plus(Times(vl, fl), Times(vl, fh))
  BY <1>6, Distributes
<1>11. Times(vh, f) = Plus(Times(vh, fl), Times(vh, fh))
  BY <1>6, Distributes
<1> QED BY <1>7, <1>8, <1>9, <1>10, <1>11

-----------------------------------------------------------------------------
(* Sums in the field *)

\* The sums of the first k of n terms, and of all of them.
SumsBody(s, t, n) == [k \in 0 .. n |-> IF k = 0 THEN 0 ELSE Plus(s[k - 1], t[k])]
PartialSums(t, n) == CHOOSE s : s = SumsBody(s, t, n)
FieldSum(t, n) == PartialSums(t, n)[n]
Adds(s, t, n) == s[0] = 0 /\ \A k \in 1 .. n : s[k] = Plus(s[k - 1], t[k])
Terms(t, n) == \A k \in 1 .. n : t[k] \in Values

LEMMA SumsAre ==
    ASSUME NEW n \in Nat, NEW t, Terms(t, n)
    PROVE  /\ Adds(PartialSums(t, n), t, n)
           /\ \A k \in 0 .. n : PartialSums(t, n)[k] \in Values
           /\ FieldSum(t, n) \in Values
<1> DEFINE F == [p \in (1 .. n) \X Values |-> Plus(p[2], t[p[1]])]
           sum == PartialSums(t, n)
<1>0. 0 \in Values
  BY Numbers
<1>1. Steps(F, Values, n)
  <2>1. \A p \in (1 .. n) \X Values : Plus(p[2], t[p[1]]) \in Values
    BY PlusIs DEF Terms
  <2> QED BY <2>1 DEF Steps
<1>2. PICK f \in [0 .. n -> Values] : f[0] = 0 /\ \A k \in 1 .. n : f[k] = F[<<k, f[k - 1]>>]
  <2> HIDE DEF F
  <2>1. \E f : Follows(f, F, Values, 0, n)
    BY <1>0, <1>1, Recursion
  <2> QED BY <2>1 DEF Follows
<1>3. \A k \in 1 .. n : k - 1 \in 0 .. n /\ k \in 0 .. n /\ k # 0
  OBVIOUS
<1>4. \A k \in 1 .. n : f[k] = Plus(f[k - 1], t[k])
  BY <1>2, <1>3
<1>5. f = SumsBody(f, t, n)
  <2>1. \A k \in 0 .. n : f[k] = IF k = 0 THEN 0 ELSE Plus(f[k - 1], t[k])
    <3> TAKE k \in 0 .. n
    <3>1. k = 0 \/ k \in 1 .. n
      OBVIOUS
    <3> QED BY <3>1, <1>2, <1>3, <1>4
  <2> QED BY <1>2, <2>1 DEF SumsBody
<1>6. sum = SumsBody(sum, t, n)
  BY <1>5 DEF PartialSums
<1> HIDE DEF sum
<1>7. \A k \in 0 .. n : sum[k] = IF k = 0 THEN 0 ELSE Plus(sum[k - 1], t[k])
  BY <1>6 DEF SumsBody
<1>8. Adds(sum, t, n)
  <2>1. 0 \in 0 .. n
    OBVIOUS
  <2> QED BY <1>3, <1>7, <2>1 DEF Adds
<1> DEFINE T == {k \in Nat : k <= n => sum[k] \in Values}
<1>9. 0 \in T
  BY <1>0, <1>8 DEF Adds
<1>10. ASSUME NEW k \in Nat, k \in T PROVE k + 1 \in T
  <2> SUFFICES ASSUME k + 1 <= n PROVE sum[k + 1] \in Values
    OBVIOUS
  <2>1. k + 1 \in 1 .. n /\ (k + 1) - 1 = k /\ k <= n
    OBVIOUS
  <2>2. sum[k + 1] = Plus(sum[k], t[k + 1]) /\ t[k + 1] \in Values /\ sum[k] \in Values
    BY <1>8, <1>10, <2>1 DEF Adds, Terms
  <2> QED BY <2>2, PlusIs
<1> HIDE DEF T
<1>11. Nat \subseteq T
  BY <1>9, <1>10, Induct
<1>12. \A k \in 0 .. n : sum[k] \in Values
  BY <1>11 DEF T
<1>13. n \in 0 .. n
  OBVIOUS
<1> QED BY <1>8, <1>12, <1>13 DEF sum, FieldSum

\* Whatever begins with 0 and gains the terms is the sums of them.
LEMMA SumsUnique ==
    ASSUME NEW n \in Nat, NEW t, Terms(t, n), NEW f, Adds(f, t, n)
    PROVE  \A k \in 0 .. n : f[k] = PartialSums(t, n)[k]
<1> DEFINE s == PartialSums(t, n)
           T == {k \in Nat : k <= n => f[k] = s[k]}
<1>1. Adds(s, t, n)
  BY SumsAre
<1> HIDE DEF s
<1>2. 0 \in T
  BY <1>1 DEF Adds
<1>3. ASSUME NEW k \in Nat, k \in T PROVE k + 1 \in T
  <2> SUFFICES ASSUME k + 1 <= n PROVE f[k + 1] = s[k + 1]
    OBVIOUS
  <2>1. k + 1 \in 1 .. n /\ (k + 1) - 1 = k /\ k <= n
    OBVIOUS
  <2> QED BY <1>1, <1>3, <2>1 DEF Adds
<1> HIDE DEF T
<1>4. Nat \subseteq T
  BY <1>2, <1>3, Induct
<1>5. \A k \in 0 .. n : f[k] = s[k]
  BY <1>4 DEF T
<1> QED BY <1>5 DEF s

LEMMA SumSame ==
    ASSUME NEW n \in Nat, NEW t, Terms(t, n), NEW u, \A k \in 1 .. n : u[k] = t[k]
    PROVE  FieldSum(u, n) = FieldSum(t, n)
<1>1. Terms(u, n)
  BY DEF Terms
<1>2. Adds(PartialSums(u, n), u, n)
  BY <1>1, SumsAre
<1>3. Adds(PartialSums(u, n), t, n)
  BY <1>2 DEF Adds
<1>4. \A k \in 0 .. n : PartialSums(u, n)[k] = PartialSums(t, n)[k]
  BY <1>3, SumsUnique
<1> QED BY <1>4 DEF FieldSum

\* (a + b) + (c + d) = (a + c) + (b + d)
LEMMA PlusSwap ==
    ASSUME NEW a \in Values, NEW b \in Values, NEW c \in Values, NEW d \in Values
    PROVE  Plus(Plus(a, b), Plus(c, d)) = Plus(Plus(a, c), Plus(b, d))
<1>1. Plus(c, d) \in Values /\ Plus(b, d) \in Values
  BY PlusIs
<1>2. Plus(Plus(a, b), Plus(c, d)) = Plus(a, Plus(b, Plus(c, d)))
  BY <1>1, PlusLaws
<1>3. Plus(Plus(a, c), Plus(b, d)) = Plus(a, Plus(c, Plus(b, d)))
  BY <1>1, PlusLaws
<1>4. Plus(b, Plus(c, d)) = Plus(Plus(b, c), d) /\ Plus(c, Plus(b, d)) = Plus(Plus(c, b), d) /\ Plus(b, c) = Plus(c, b)
  BY PlusLaws
<1> QED BY <1>2, <1>3, <1>4

LEMMA SumPlus ==
    ASSUME NEW n \in Nat, NEW t, Terms(t, n), NEW u, Terms(u, n),
           NEW w, \A k \in 1 .. n : w[k] = Plus(t[k], u[k])
    PROVE  FieldSum(w, n) = Plus(FieldSum(t, n), FieldSum(u, n))
<1> DEFINE a == PartialSums(t, n)
           b == PartialSums(u, n)
           f == [k \in 0 .. n |-> Plus(a[k], b[k])]
<1>1. Adds(a, t, n) /\ Adds(b, u, n) /\ \A k \in 0 .. n : a[k] \in Values /\ b[k] \in Values
  BY SumsAre
<1>2. Terms(w, n)
  BY PlusIs DEF Terms
<1> HIDE DEF a, b
<1>3. Adds(f, w, n)
  <2>1. f[0] = 0
    <3>1. 0 \in Values
      BY Numbers
    <3> QED BY <1>1, <3>1, PlusLaws DEF Adds
  <2>2. ASSUME NEW k \in 1 .. n PROVE f[k] = Plus(f[k - 1], w[k])
    <3>1. k \in 0 .. n /\ k - 1 \in 0 .. n
      OBVIOUS
    <3>2. a[k] = Plus(a[k - 1], t[k]) /\ b[k] = Plus(b[k - 1], u[k])
      BY <1>1 DEF Adds
    <3>3. a[k - 1] \in Values /\ b[k - 1] \in Values /\ t[k] \in Values /\ u[k] \in Values
      BY <1>1, <3>1 DEF Terms
    <3>4. Plus(Plus(a[k - 1], t[k]), Plus(b[k - 1], u[k])) = Plus(Plus(a[k - 1], b[k - 1]), Plus(t[k], u[k]))
      BY <3>3, PlusSwap
    <3> QED BY <3>1, <3>2, <3>4
  <2> HIDE DEF f
  <2> QED BY <2>1, <2>2 DEF Adds
<1>4. \A k \in 0 .. n : f[k] = PartialSums(w, n)[k]
  <2> HIDE DEF f
  <2> QED BY <1>2, <1>3, SumsUnique
<1>5. n \in 0 .. n /\ f[n] = Plus(a[n], b[n])
  OBVIOUS
<1> HIDE DEF f
<1> QED BY <1>4, <1>5 DEF FieldSum, a, b

LEMMA SumTimes ==
    ASSUME NEW n \in Nat, NEW t, Terms(t, n), NEW x \in Values,
           NEW w, \A k \in 1 .. n : w[k] = Times(x, t[k])
    PROVE  FieldSum(w, n) = Times(x, FieldSum(t, n))
<1> DEFINE a == PartialSums(t, n)
           f == [k \in 0 .. n |-> Times(x, a[k])]
<1>1. Adds(a, t, n) /\ \A k \in 0 .. n : a[k] \in Values
  BY SumsAre
<1>2. Terms(w, n)
  BY TimesIs DEF Terms
<1> HIDE DEF a
<1>3. Adds(f, w, n)
  <2>1. f[0] = 0
    BY <1>1, TimesIs DEF Adds
  <2>2. ASSUME NEW k \in 1 .. n PROVE f[k] = Plus(f[k - 1], w[k])
    <3>1. k \in 0 .. n /\ k - 1 \in 0 .. n
      OBVIOUS
    <3>2. a[k] = Plus(a[k - 1], t[k]) /\ a[k - 1] \in Values /\ t[k] \in Values
      BY <1>1, <3>1 DEF Adds, Terms
    <3>3. Times(x, Plus(a[k - 1], t[k])) = Plus(Times(x, a[k - 1]), Times(x, t[k]))
      BY <3>2, Distributes
    <3> QED BY <3>1, <3>2, <3>3
  <2> HIDE DEF f
  <2> QED BY <2>1, <2>2 DEF Adds
<1>4. \A k \in 0 .. n : f[k] = PartialSums(w, n)[k]
  <2> HIDE DEF f
  <2> QED BY <1>2, <1>3, SumsUnique
<1>5. n \in 0 .. n /\ f[n] = Times(x, a[n])
  OBVIOUS
<1> HIDE DEF f
<1> QED BY <1>4, <1>5 DEF FieldSum, a

\* One term, or none, that is not 0.
LEMMA SumSingle ==
    ASSUME NEW n \in Nat, NEW t, NEW j \in Nat, NEW v \in Values,
           \A k \in 1 .. n : t[k] = IF k = j THEN v ELSE 0
    PROVE  FieldSum(t, n) = IF j \in 1 .. n THEN v ELSE 0
<1> DEFINE f == [k \in 0 .. n |-> IF j \in 1 .. k THEN v ELSE 0]
<1>0. 0 \in Values
  BY Numbers
<1>1. Terms(t, n)
  BY <1>0 DEF Terms
<1>2. Adds(f, t, n)
  <2>1. f[0] = 0
    OBVIOUS
  <2>2. ASSUME NEW k \in 1 .. n PROVE f[k] = Plus(f[k - 1], t[k])
    <3>1. f[k] = (IF j \in 1 .. k THEN v ELSE 0) /\ f[k - 1] = (IF j \in 1 .. k - 1 THEN v ELSE 0)
      OBVIOUS
    <3>2. j \in 1 .. k <=> j \in 1 .. k - 1 \/ j = k
      OBVIOUS
    <3>3. j = k => j \notin 1 .. k - 1
      OBVIOUS
    <3>4. Plus(v, 0) = v /\ Plus(0, v) = v /\ Plus(0, 0) = 0
      BY <1>0, PlusLaws
    <3> HIDE DEF f
    <3> QED BY <3>1, <3>2, <3>3, <3>4
  <2> HIDE DEF f
  <2> QED BY <2>1, <2>2 DEF Adds
<1>3. \A k \in 0 .. n : f[k] = PartialSums(t, n)[k]
  <2> HIDE DEF f
  <2> QED BY <1>1, <1>2, SumsUnique
<1>4. n \in 0 .. n /\ f[n] = IF j \in 1 .. n THEN v ELSE 0
  OBVIOUS
<1> HIDE DEF f
<1> QED BY <1>3, <1>4 DEF FieldSum

\* The first a of the terms and the others.
LEMMA SumJoin ==
    ASSUME NEW a \in Nat, NEW b \in Nat, NEW t, Terms(t, a + b),
           NEW u, \A k \in 1 .. b : u[k] = t[a + k]
    PROVE  FieldSum(t, a + b) = Plus(FieldSum(t, a), FieldSum(u, b))
<1> DEFINE n == a + b
           p == PartialSums(t, a)
           q == PartialSums(u, b)
           f == [k \in 0 .. n |-> IF k <= a THEN p[k] ELSE Plus(p[a], q[k - a])]
<1>0. n \in Nat /\ (\A k \in 1 .. a : k \in 1 .. n) /\ (\A k \in 1 .. b : a + k \in 1 .. n) /\ a \in 0 .. a
  OBVIOUS
<1>1. Terms(t, a) /\ Terms(u, b)
  BY <1>0 DEF Terms
<1>2. /\ Adds(p, t, a) /\ \A k \in 0 .. a : p[k] \in Values
      /\ Adds(q, u, b) /\ \A k \in 0 .. b : q[k] \in Values
  BY <1>1, SumsAre
<1> HIDE DEF p, q
<1>3. Adds(f, t, n)
  <2>1. f[0] = 0
    BY <1>2 DEF Adds
  <2>2. ASSUME NEW k \in 1 .. n PROVE f[k] = Plus(f[k - 1], t[k])
    <3>1. k \in 0 .. n /\ k - 1 \in 0 .. n
      OBVIOUS
    <3>2. CASE k <= a
      <4>1. k \in 1 .. a /\ k - 1 <= a
        BY <3>2
      <4> QED BY <1>2, <3>1, <3>2, <4>1 DEF Adds
    <3>3. CASE k > a
      <4>1. k - a \in 1 .. b /\ a + (k - a) = k /\ (k - a) - 1 = (k - 1) - a /\ (k - a) - 1 \in 0 .. b
        BY <3>3
      <4>2. q[k - a] = Plus(q[(k - 1) - a], t[k])
        <5>1. u[k - a] = t[k] /\ q[k - a] = Plus(q[(k - a) - 1], u[k - a])
          BY <1>2, <4>1 DEF Adds
        <5> QED BY <4>1, <5>1
      <4>3. q[(k - 1) - a] \in Values /\ p[a] \in Values /\ t[k] \in Values
        BY <1>0, <1>2, <4>1 DEF Terms
      <4>4. f[k] = Plus(p[a], q[k - a])
        BY <3>1, <3>3
      <4>5. f[k - 1] = Plus(p[a], q[(k - 1) - a])
        <5>1. CASE k - 1 <= a
          <6>1. k - 1 = a /\ (k - 1) - a = 0
            BY <3>3, <5>1
          <6>2. Plus(p[a], 0) = p[a]
            BY <4>3, PlusLaws
          <6>3. q[0] = 0
            BY <1>2 DEF Adds
          <6> QED BY <3>1, <5>1, <6>1, <6>2, <6>3
        <5>2. CASE ~(k - 1 <= a)
          BY <3>1, <5>2
        <5> QED BY <5>1, <5>2
      <4> HIDE DEF f
      <4>6. Plus(Plus(p[a], q[(k - 1) - a]), t[k]) = Plus(p[a], Plus(q[(k - 1) - a], t[k]))
        BY <4>3, PlusLaws
      <4> QED BY <4>2, <4>4, <4>5, <4>6
    <3> QED BY <3>2, <3>3
  <2> HIDE DEF f
  <2> QED BY <2>1, <2>2 DEF Adds
<1>4. f[n] = PartialSums(t, n)[n]
  <2>1. n \in 0 .. n
    BY <1>0
  <2> HIDE DEF f, n
  <2> QED BY <1>0, <1>3, <2>1, SumsUnique DEF n
<1>5. f[n] = Plus(p[a], q[b])
  <2>1. CASE b = 0
    <3>1. q[b] = 0 /\ p[a] \in Values /\ n = a
      BY <1>0, <1>2, <2>1 DEF Adds
    <3>2. Plus(p[a], 0) = p[a]
      BY <3>1, PlusLaws
    <3> QED BY <3>1, <3>2
  <2>2. CASE b # 0
    <3>1. ~(n <= a) /\ n - a = b /\ n \in 0 .. n
      BY <2>2
    <3> QED BY <3>1
  <2> QED BY <2>1, <2>2
<1> HIDE DEF f
<1> QED BY <1>4, <1>5 DEF FieldSum, p, q

-----------------------------------------------------------------------------
(* The blocks that are present and those that are missing *)

LEMMA LenIs ==
    ASSUME NEW n \in Nat, NEW S, NEW f \in [1 .. n -> S]
    PROVE  Len(f) = n /\ DOMAIN f = 1 .. n /\ f \in Seq(S)
<1>1. f \in Seq(S) /\ DOMAIN f = 1 .. n
  OBVIOUS
<1>2. DOMAIN f = 1 .. Len(f) /\ Len(f) \in Nat
  BY <1>1
<1>3. \A x, y \in Nat : 1 .. x = 1 .. y => x = y
  <2> TAKE x, y \in Nat
  <2> HAVE 1 .. x = 1 .. y
  <2>1. x >= 1 => x \in 1 .. y
    OBVIOUS
  <2>2. y >= 1 => y \in 1 .. x
    OBVIOUS
  <2> QED BY <2>1, <2>2
<1> QED BY <1>1, <1>2, <1>3

LEMMA AppendIs ==
    ASSUME NEW S, NEW s \in Seq(S), NEW x \in S
    PROVE  /\ Append(s, x) \in Seq(S) /\ Len(Append(s, x)) = Len(s) + 1 /\ Len(s) \in Nat
           /\ Append(s, x)[Len(Append(s, x))] = x
           /\ \A c \in 1 .. Len(s) : Append(s, x)[c] = s[c]
OBVIOUS

\* count[k] of the first k blocks are there, or are missing; the last of them is k, if it is.
Tallied(count, index, present, which, n) ==
    /\ count[0] = 0 /\ count[n] = Len(index)
    /\ \A k \in 1 .. n :
         IF present[k] = which
         THEN count[k] = count[k - 1] + 1 /\ index[count[k]] = k
         ELSE count[k] = count[k - 1]
Tallying(index, present, which, n) ==
    \E count \in [0 .. n -> 0 .. Len(index)] : Tallied(count, index, present, which, n)
IndexBody(g, present, which, n) ==
    [k \in 0 .. n |-> IF k = 0 THEN << >>
                      ELSE IF present[k] = which THEN Append(g[k - 1], k) ELSE g[k - 1]]

LEMMA IndexesAre ==
    ASSUME NEW n \in Nat, NEW present \in [1 .. n -> BOOLEAN], NEW which \in BOOLEAN
    PROVE  /\ Indexes(present, which) \in Seq(1 .. n)
           /\ \A c \in 1 .. Len(Indexes(present, which)) : present[Indexes(present, which)[c]] = which
           /\ Tallying(Indexes(present, which), present, which, n)
<1> DEFINE F == [p \in (1 .. n) \X Seq(1 .. n) |-> IF present[p[1]] = which THEN Append(p[2], p[1]) ELSE p[2]]
           index == CHOOSE g : g = IndexBody(g, present, which, n)
<1>1. Steps(F, Seq(1 .. n), n)
  <2>1. \A p \in (1 .. n) \X Seq(1 .. n) :
          (IF present[p[1]] = which THEN Append(p[2], p[1]) ELSE p[2]) \in Seq(1 .. n)
    <3> TAKE p \in (1 .. n) \X Seq(1 .. n)
    <3>1. p[1] \in 1 .. n /\ p[2] \in Seq(1 .. n)
      OBVIOUS
    <3>2. Append(p[2], p[1]) \in Seq(1 .. n)
      BY <3>1, AppendIs
    <3> QED BY <3>1, <3>2
  <2> QED BY <2>1 DEF Steps
<1>2. PICK f \in [0 .. n -> Seq(1 .. n)] : f[0] = << >> /\ \A k \in 1 .. n : f[k] = F[<<k, f[k - 1]>>]
  <2> HIDE DEF F
  <2>1. << >> \in Seq(1 .. n)
    OBVIOUS
  <2>2. \E f : Follows(f, F, Seq(1 .. n), << >>, n)
    BY <1>1, <2>1, Recursion
  <2> QED BY <2>2 DEF Follows
<1>3. \A k \in 1 .. n : k - 1 \in 0 .. n /\ k \in 0 .. n /\ k # 0
  OBVIOUS
<1>4. \A k \in 1 .. n : f[k] = IF present[k] = which THEN Append(f[k - 1], k) ELSE f[k - 1]
  BY <1>2, <1>3
<1>5. f = IndexBody(f, present, which, n)
  <2>1. \A k \in 0 .. n : f[k] = IF k = 0 THEN << >> ELSE IF present[k] = which THEN Append(f[k - 1], k) ELSE f[k - 1]
    <3> TAKE k \in 0 .. n
    <3>1. k = 0 \/ k \in 1 .. n
      OBVIOUS
    <3> QED BY <3>1, <1>2, <1>3, <1>4
  <2> QED BY <1>2, <2>1 DEF IndexBody
<1>6. index = IndexBody(index, present, which, n)
  BY <1>5
<1>7. Indexes(present, which) = index[n]
  BY LenIs DEF Indexes, IndexBody
<1> HIDE DEF index
<1>8. index[0] = << >> /\ \A k \in 1 .. n : index[k] = IF present[k] = which THEN Append(index[k - 1], k) ELSE index[k - 1]
  <2>1. \A k \in 0 .. n : index[k] = IF k = 0 THEN << >> ELSE IF present[k] = which THEN Append(index[k - 1], k) ELSE index[k - 1]
    BY <1>6 DEF IndexBody
  <2>2. 0 \in 0 .. n
    OBVIOUS
  <2> QED BY <2>1, <2>2, <1>3
<1> DEFINE Good(m) == /\ index[m] \in Seq(1 .. n)
                      /\ \A c \in 1 .. Len(index[m]) : present[index[m][c]] = which
                      /\ \A k \in 1 .. m : /\ index[k] \in Seq(1 .. n) /\ Len(index[k]) <= Len(index[m])
                                           /\ present[k] = which => index[m][Len(index[k])] = k
           T == {m \in Nat : m <= n => Good(m)}
<1>9. 0 \in T
  <2>1. index[0] \in Seq(1 .. n) /\ Len(index[0]) = 0 /\ 1 .. 0 = {}
    BY <1>8
  <2>2. Good(0)
    BY <2>1
  <2> HIDE DEF Good
  <2> QED BY <2>2
<1>10. ASSUME NEW m \in Nat, m \in T PROVE m + 1 \in T
  <2> SUFFICES ASSUME m + 1 <= n PROVE Good(m + 1)
    OBVIOUS
  <2>1. m + 1 \in 1 .. n /\ (m + 1) - 1 = m /\ Good(m)
    <3> HIDE DEF Good
    <3> QED BY <1>10
  <2> DEFINE a == index[m]
             b == index[m + 1]
  <2>2. a \in Seq(1 .. n) /\ b = IF present[m + 1] = which THEN Append(a, m + 1) ELSE a
    BY <1>8, <2>1
  <2>3. /\ b \in Seq(1 .. n) /\ Len(a) <= Len(b) /\ Len(a) \in Nat /\ Len(b) \in Nat
        /\ \A c \in 1 .. Len(a) : b[c] = a[c]
        /\ present[m + 1] = which => b[Len(b)] = m + 1 /\ Len(b) = Len(a) + 1
        /\ present[m + 1] # which => b = a
    <3> HIDE DEF a, b
    <3>1. CASE present[m + 1] = which
      <4>1. b = Append(a, m + 1)
        BY <2>2, <3>1
      <4>2. /\ b \in Seq(1 .. n) /\ Len(b) = Len(a) + 1 /\ Len(a) \in Nat /\ b[Len(b)] = m + 1
            /\ \A c \in 1 .. Len(a) : b[c] = a[c]
        <5> DEFINE S == 1 .. n
                   e == m + 1
        <5>1. a \in Seq(S) /\ e \in S /\ b = Append(a, e)
          BY <2>1, <2>2, <4>1
        <5> HIDE DEF S, e
        <5>2. /\ b \in Seq(S) /\ Len(b) = Len(a) + 1 /\ Len(a) \in Nat /\ b[Len(b)] = e
              /\ \A c \in 1 .. Len(a) : b[c] = a[c]
          BY <5>1, AppendIs
        <5> QED BY <5>2 DEF S, e
      <4> QED BY <3>1, <4>2
    <3>2. CASE present[m + 1] # which
      BY <2>2, <3>2
    <3> QED BY <3>1, <3>2
  <2>4. \A c \in 1 .. Len(b) : present[b[c]] = which
    <3> HIDE DEF a, b
    <3> TAKE c \in 1 .. Len(b)
    <3>1. c \in 1 .. Len(a) \/ (present[m + 1] = which /\ c = Len(b))
      BY <2>3
    <3>2. \A d \in 1 .. Len(a) : present[a[d]] = which
      BY <2>1 DEF a
    <3> QED BY <2>3, <3>1, <3>2
  <2>5. ASSUME NEW k \in 1 .. m + 1
        PROVE  /\ index[k] \in Seq(1 .. n) /\ Len(index[k]) <= Len(b)
               /\ present[k] = which => b[Len(index[k])] = k
    <3>1. CASE k = m + 1
      BY <2>3, <3>1
    <3>2. CASE k # m + 1
      <4>1. k \in 1 .. m /\ k \in 1 .. n /\ k - 1 \in 0 .. n
        BY <3>2, <2>1
      <4>2. /\ index[k] \in Seq(1 .. n) /\ Len(index[k]) <= Len(a) /\ Len(index[k]) \in Nat
            /\ present[k] = which => a[Len(index[k])] = k
        BY <2>1, <4>1
      <4>3. present[k] = which => Len(index[k]) >= 1
        <5>1. CASE k = 1
          <6>1. index[k - 1] = << >> /\ << >> \in Seq(1 .. n)
            BY <1>8, <5>1
          <6>2. index[k] = IF present[k] = which THEN Append(index[k - 1], k) ELSE index[k - 1]
            BY <1>8, <4>1
          <6> QED BY <4>1, <6>1, <6>2, AppendIs
        <5>2. CASE k # 1
          <6>1. k - 1 \in 1 .. m
            BY <4>1, <5>2
          <6>2. index[k - 1] \in Seq(1 .. n)
            BY <2>1, <6>1
          <6>3. index[k] = IF present[k] = which THEN Append(index[k - 1], k) ELSE index[k - 1]
            BY <1>8, <4>1
          <6> QED BY <4>1, <6>2, <6>3, AppendIs
        <5> QED BY <5>1, <5>2
      <4> HIDE DEF a, b
      <4>4. present[k] = which => b[Len(index[k])] = a[Len(index[k])]
        <5>1. Len(a) \in Nat
          BY <2>3
        <5>2. present[k] = which => Len(index[k]) \in 1 .. Len(a)
          BY <4>2, <4>3, <5>1
        <5> QED BY <2>3, <5>2
      <4>5. Len(index[k]) <= Len(b)
        BY <2>3, <4>2
      <4> QED BY <4>2, <4>4, <4>5
    <3> QED BY <3>1, <3>2
  <2> QED BY <2>3, <2>4, <2>5
<1> HIDE DEF T, Good
<1>11. Good(n)
  <2>1. n \in T
    BY <1>9, <1>10, Induct
  <2> QED BY <2>1 DEF T
<1>12. index[n] \in Seq(1 .. n) /\ \A c \in 1 .. Len(index[n]) : present[index[n][c]] = which
  BY <1>11 DEF Good
<1> DEFINE count == [k \in 0 .. n |-> Len(index[k])]
<1>13. \A k \in 0 .. n : index[k] \in Seq(1 .. n) /\ Len(index[k]) \in 0 .. Len(index[n])
  <2> TAKE k \in 0 .. n
  <2>1. CASE k = 0
    BY <2>1, <1>8, <1>12
  <2>2. CASE k # 0
    <3>1. k \in 1 .. n
      BY <2>2
    <3> QED BY <3>1, <1>11, <1>12 DEF Good
  <2> QED BY <2>1, <2>2
<1>14. count \in [0 .. n -> 0 .. Len(index[n])]
  BY <1>13
<1>15. Tallied(count, index[n], present, which, n)
  <2>1. count[0] = 0 /\ count[n] = Len(index[n])
    BY <1>8
  <2>2. ASSUME NEW k \in 1 .. n
        PROVE  IF present[k] = which
               THEN count[k] = count[k - 1] + 1 /\ index[n][count[k]] = k
               ELSE count[k] = count[k - 1]
    <3>1. count[k] = Len(index[k]) /\ count[k - 1] = Len(index[k - 1]) /\ index[k - 1] \in Seq(1 .. n)
      BY <1>3, <1>13
    <3>2. index[k] = IF present[k] = which THEN Append(index[k - 1], k) ELSE index[k - 1]
      BY <1>8
    <3>3. present[k] = which => index[n][Len(index[k])] = k
      BY <1>11 DEF Good
    <3> HIDE DEF count
    <3> QED BY <3>1, <3>2, <3>3
  <2> HIDE DEF count
  <2> QED BY <2>1, <2>2 DEF Tallied
<1> HIDE DEF count
<1>16. Tallying(index[n], present, which, n)
  BY <1>14, <1>15 DEF Tallying
<1> QED BY <1>7, <1>12, <1>16

LEMMA EntryIs ==
    ASSUME NEW S, NEW s \in Seq(S)
    PROVE  Len(s) \in Nat /\ DOMAIN s = 1 .. Len(s) /\ \A c \in 1 .. Len(s) : s[c] \in S
OBVIOUS

Split(present, n, dpi, dmi) ==
    /\ n \in Nat /\ present \in [1 .. n -> BOOLEAN]
    /\ dpi = Indexes(present, TRUE) /\ dmi = Indexes(present, FALSE)
Picked(u, t, index) == \A c \in 1 .. Len(index) : u[c] = t[index[c]]

\* What is summed over all of the blocks is summed over those that are present and
\* those that are missing.
LEMMA SumSplit ==
    ASSUME NEW n, NEW present, NEW dpi, NEW dmi, Split(present, n, dpi, dmi), NEW t, Terms(t, n),
           NEW u, Picked(u, t, dpi), NEW w, Picked(w, t, dmi)
    PROVE  /\ FieldSum(t, n) = Plus(FieldSum(u, Len(dpi)), FieldSum(w, Len(dmi)))
           /\ Len(dpi) \in Nat /\ Len(dmi) \in Nat /\ Len(dpi) + Len(dmi) = n
<1> DEFINE d == Len(dpi)
           m == Len(dmi)
<1>0. /\ n \in Nat /\ present \in [1 .. n -> BOOLEAN]
      /\ dpi = Indexes(present, TRUE) /\ dmi = Indexes(present, FALSE)
  BY DEF Split
<1>1. dpi \in Seq(1 .. n) /\ Tallying(dpi, present, TRUE, n)
  BY <1>0, IndexesAre
<1>2. dmi \in Seq(1 .. n) /\ Tallying(dmi, present, FALSE, n)
  BY <1>0, IndexesAre
<1>3. d \in Nat /\ m \in Nat /\ (\A c \in 1 .. d : dpi[c] \in 1 .. n) /\ (\A c \in 1 .. m : dmi[c] \in 1 .. n)
  BY <1>1, <1>2, EntryIs
<1> HIDE DEF d, m
<1>4. PICK ct \in [0 .. n -> 0 .. d] : Tallied(ct, dpi, present, TRUE, n)
  BY <1>1 DEF Tallying, d
<1>5. PICK cf \in [0 .. n -> 0 .. m] : Tallied(cf, dmi, present, FALSE, n)
  BY <1>2 DEF Tallying, m
<1>6. ct[0] = 0 /\ ct[n] = d /\ cf[0] = 0 /\ cf[n] = m
  BY <1>4, <1>5 DEF Tallied, d, m
<1>7. \A k \in 1 .. n :
        /\ k \in 0 .. n /\ k - 1 \in 0 .. n
        /\ ct[k] \in 0 .. d /\ ct[k - 1] \in 0 .. d /\ cf[k] \in 0 .. m /\ cf[k - 1] \in 0 .. m
        /\ \/ present[k] = TRUE /\ ct[k] = ct[k - 1] + 1 /\ dpi[ct[k]] = k /\ cf[k] = cf[k - 1]
           \/ present[k] = FALSE /\ cf[k] = cf[k - 1] + 1 /\ dmi[cf[k]] = k /\ ct[k] = ct[k - 1]
  <2> TAKE k \in 1 .. n
  <2>1. k \in 0 .. n /\ k - 1 \in 0 .. n
    BY <1>0
  <2>2. present[k] \in BOOLEAN
    BY <1>0
  <2>3. IF present[k] = TRUE THEN ct[k] = ct[k - 1] + 1 /\ dpi[ct[k]] = k ELSE ct[k] = ct[k - 1]
    BY <1>4 DEF Tallied
  <2>4. IF present[k] = FALSE THEN cf[k] = cf[k - 1] + 1 /\ dmi[cf[k]] = k ELSE cf[k] = cf[k - 1]
    BY <1>5 DEF Tallied
  <2>5. ct[k] \in 0 .. d /\ ct[k - 1] \in 0 .. d /\ cf[k] \in 0 .. m /\ cf[k - 1] \in 0 .. m
    BY <2>1
  <2>6. CASE present[k] = TRUE
    BY <2>1, <2>3, <2>4, <2>5, <2>6
  <2>7. CASE present[k] = FALSE
    BY <2>1, <2>3, <2>4, <2>5, <2>7
  <2> QED BY <2>2, <2>6, <2>7
<1>8. d + m = n
  <2> DEFINE T == {k \in Nat : k <= n => ct[k] + cf[k] = k}
  <2>1. 0 \in T
    BY <1>0, <1>6
  <2>2. ASSUME NEW k \in Nat, k \in T PROVE k + 1 \in T
    <3> SUFFICES ASSUME k + 1 <= n PROVE ct[k + 1] + cf[k + 1] = k + 1
      OBVIOUS
    <3>1. k + 1 \in 1 .. n /\ (k + 1) - 1 = k /\ ct[k] + cf[k] = k
      BY <1>0, <2>2
    <3>2. /\ ct[k + 1] \in 0 .. d /\ ct[k] \in 0 .. d /\ cf[k + 1] \in 0 .. m /\ cf[k] \in 0 .. m
          /\ \/ ct[k + 1] = ct[k] + 1 /\ cf[k + 1] = cf[k]
             \/ cf[k + 1] = cf[k] + 1 /\ ct[k + 1] = ct[k]
      <4>1. PICK e \in 1 .. n : e = k + 1 /\ e - 1 = k
        BY <3>1
      <4>2. /\ ct[e] \in 0 .. d /\ ct[e - 1] \in 0 .. d /\ cf[e] \in 0 .. m /\ cf[e - 1] \in 0 .. m
            /\ \/ ct[e] = ct[e - 1] + 1 /\ cf[e] = cf[e - 1]
               \/ cf[e] = cf[e - 1] + 1 /\ ct[e] = ct[e - 1]
        BY <1>7
      <4> QED BY <4>1, <4>2
    <3>3. ct[k + 1] \in Nat /\ ct[k] \in Nat /\ cf[k + 1] \in Nat /\ cf[k] \in Nat
      BY ONLY <1>3, <3>2
    <3> QED BY ONLY <3>1, <3>2, <3>3, k \in Nat
  <2> HIDE DEF T
  <2>3. n \in T
    BY <1>0, <2>1, <2>2, Induct
  <2> QED BY <1>6, <2>3 DEF T
<1> DEFINE a == PartialSums(u, d)
           b == PartialSums(w, m)
           f == [k \in 0 .. n |-> Plus(a[ct[k]], b[cf[k]])]
<1>9. Terms(u, d) /\ Terms(w, m) /\ (\A c \in 1 .. d : u[c] = t[dpi[c]]) /\ (\A c \in 1 .. m : w[c] = t[dmi[c]])
  BY <1>3 DEF Terms, Picked, d, m
<1>10. /\ Adds(a, u, d) /\ \A k \in 0 .. d : a[k] \in Values
       /\ Adds(b, w, m) /\ \A k \in 0 .. m : b[k] \in Values
  BY <1>3, <1>9, SumsAre
<1> HIDE DEF a, b
<1>11. Adds(f, t, n)
  <2>1. f[0] = 0
    <3>1. a[0] = 0 /\ b[0] = 0
      BY <1>10 DEF Adds
    <3>2. 0 \in 0 .. n
      BY <1>0
    <3>3. 0 \in Values
      BY ONLY Numbers
    <3> QED BY <1>6, <3>1, <3>2, <3>3, PlusLaws
  <2>2. ASSUME NEW k \in 1 .. n PROVE f[k] = Plus(f[k - 1], t[k])
    <3>1. k \in 0 .. n /\ k - 1 \in 0 .. n /\ t[k] \in Values
      BY <1>0 DEF Terms
    <3>2. f[k] = Plus(a[ct[k]], b[cf[k]]) /\ f[k - 1] = Plus(a[ct[k - 1]], b[cf[k - 1]])
      BY <3>1
    <3>3. a[ct[k - 1]] \in Values /\ b[cf[k - 1]] \in Values
      BY <1>7, <1>10
    <3> HIDE DEF f
    <3>4. CASE ct[k] = ct[k - 1] + 1 /\ dpi[ct[k]] = k /\ cf[k] = cf[k - 1]
      <4>1. ct[k] \in 1 .. d /\ ct[k] - 1 = ct[k - 1]
        <5>1. ct[k] \in 0 .. d /\ ct[k - 1] \in 0 .. d
          BY <1>7
        <5>2. \A x, y \in 0 .. d : x = y + 1 => x \in 1 .. d /\ x - 1 = y
          BY <1>3
        <5> QED BY <3>4, <5>1, <5>2
      <4>2. a[ct[k]] = Plus(a[ct[k - 1]], t[k])
        <5>1. a[ct[k]] = Plus(a[ct[k] - 1], u[ct[k]]) /\ u[ct[k]] = t[k]
          BY <1>9, <1>10, <3>4, <4>1 DEF Adds
        <5> QED BY <4>1, <5>1
      <4> DEFINE x == a[ct[k - 1]]
                 y == b[cf[k - 1]]
                 z == t[k]
      <4>3. f[k] = Plus(Plus(x, z), y) /\ f[k - 1] = Plus(x, y) /\ x \in Values /\ y \in Values /\ z \in Values
        BY <3>1, <3>2, <3>3, <3>4, <4>2
      <4> HIDE DEF x, y, z
      <4>4. Plus(Plus(x, z), y) = Plus(x, Plus(z, y)) /\ Plus(z, y) = Plus(y, z) /\ Plus(Plus(x, y), z) = Plus(x, Plus(y, z))
        BY <4>3, PlusLaws
      <4> QED BY <4>3, <4>4 DEF z
    <3>5. CASE cf[k] = cf[k - 1] + 1 /\ dmi[cf[k]] = k /\ ct[k] = ct[k - 1]
      <4>1. cf[k] \in 1 .. m /\ cf[k] - 1 = cf[k - 1]
        <5>1. cf[k] \in 0 .. m /\ cf[k - 1] \in 0 .. m
          BY <1>7
        <5>2. \A x, y \in 0 .. m : x = y + 1 => x \in 1 .. m /\ x - 1 = y
          BY <1>3
        <5> QED BY <3>5, <5>1, <5>2
      <4>2. b[cf[k]] = Plus(b[cf[k - 1]], t[k])
        <5>1. b[cf[k]] = Plus(b[cf[k] - 1], w[cf[k]]) /\ w[cf[k]] = t[k]
          BY <1>9, <1>10, <3>5, <4>1 DEF Adds
        <5> QED BY <4>1, <5>1
      <4>3. Plus(Plus(a[ct[k - 1]], b[cf[k - 1]]), t[k]) = Plus(a[ct[k - 1]], Plus(b[cf[k - 1]], t[k]))
        BY <3>1, <3>3, PlusLaws
      <4> QED BY <3>2, <3>5, <4>2, <4>3
    <3> QED BY <1>7, <3>4, <3>5
  <2> HIDE DEF f
  <2> QED BY <2>1, <2>2 DEF Adds
<1>12. f[n] = FieldSum(t, n)
  <2>1. n \in 0 .. n
    BY <1>0
  <2> HIDE DEF f
  <2> QED BY <1>0, <1>11, <2>1, SumsUnique DEF FieldSum
<1>13. f[n] = Plus(FieldSum(u, d), FieldSum(w, m))
  BY <1>0, <1>6 DEF FieldSum, a, b
<1> QED BY <1>3, <1>8, <1>12, <1>13 DEF d, m


-----------------------------------------------------------------------------
(* The output blocks *)

Blocks(size) == [1 .. size -> Values]

\* reedsolomon.cpp:486-600.  A factor's products with a block are added to another.
LEMMA ProcessIs ==
    ASSUME NEW size \in Nat, NEW factor \in Values, NEW input \in Blocks(size), NEW output \in Blocks(size)
    PROVE  /\ Process(factor, input, output) \in Blocks(size)
           /\ \A k \in 1 .. size : Process(factor, input, output)[k] = Plus(output[k], Times(factor, input[k]))
<1>1. \A k \in 1 .. size : output[k] \in Values /\ input[k] \in Values /\ DOMAIN output = 1 .. size
  BY DEF Blocks
<1>2. CASE factor = 0
  <2>1. Process(factor, input, output) = output
    BY <1>2 DEF Process
  <2>2. \A k \in 1 .. size : Plus(output[k], Times(factor, input[k])) = output[k]
    BY <1>1, <1>2, TimesIs, PlusLaws
  <2> QED BY <2>1, <2>2
<1>3. CASE factor # 0
  <2>1. Process(factor, input, output) = [k \in 1 .. size |-> Plus(output[k], LongMultiply[factor][input[k]])]
    BY <1>1, <1>3 DEF Process, Blocks
  <2>2. \A k \in 1 .. size : LongMultiply[factor][input[k]] = Times(factor, input[k])
    BY <1>1, LongMultiplyIs
  <2>3. \A k \in 1 .. size : Plus(output[k], Times(factor, input[k])) \in Values
    BY <1>1, TimesIs, PlusIs
  <2> QED BY <2>1, <2>2, <2>3 DEF Blocks
<1> QED BY <1>2, <1>3

\* An output block is the sum of the input blocks, each times its factor.
OutBody(g, factors, inputs, size, n) ==
    [i \in 0 .. n |-> IF i = 0 THEN [k \in 1 .. size |-> 0] ELSE Process(factors[i], inputs[i], g[i - 1])]
LEMMA OutputIs ==
    ASSUME NEW n \in Nat, NEW size \in Nat, NEW factors, Terms(factors, n), NEW inputs \in [1 .. n -> Blocks(size)]
    PROVE  /\ OutputOf(factors, inputs, size) \in Blocks(size)
           /\ \A k \in 1 .. size :
                OutputOf(factors, inputs, size)[k] = FieldSum([i \in 1 .. n |-> Times(factors[i], inputs[i][k])], n)
<1> DEFINE zero == [k \in 1 .. size |-> 0]
           F == [p \in (1 .. n) \X Blocks(size) |-> Process(factors[p[1]], inputs[p[1]], p[2])]
           out == CHOOSE g : g = OutBody(g, factors, inputs, size, n)
<1>1. zero \in Blocks(size)
  BY Numbers DEF Blocks
<1>2. \A i \in 1 .. n : factors[i] \in Values /\ inputs[i] \in Blocks(size)
  BY DEF Terms
<1>3. Steps(F, Blocks(size), n)
  <2>1. \A p \in (1 .. n) \X Blocks(size) : Process(factors[p[1]], inputs[p[1]], p[2]) \in Blocks(size)
    BY <1>2, ProcessIs
  <2> QED BY <2>1 DEF Steps
<1> HIDE DEF zero
<1>4. PICK f \in [0 .. n -> Blocks(size)] : f[0] = zero /\ \A i \in 1 .. n : f[i] = F[<<i, f[i - 1]>>]
  <2> HIDE DEF F
  <2>1. \E f : Follows(f, F, Blocks(size), zero, n)
    BY <1>1, <1>3, Recursion
  <2> QED BY <2>1 DEF Follows
<1>5. \A i \in 1 .. n : i - 1 \in 0 .. n /\ i \in 0 .. n /\ i # 0
  OBVIOUS
<1>6. \A i \in 1 .. n : f[i] = Process(factors[i], inputs[i], f[i - 1])
  BY <1>4, <1>5
<1>7. f = OutBody(f, factors, inputs, size, n)
  <2>1. \A i \in 0 .. n : f[i] = IF i = 0 THEN zero ELSE Process(factors[i], inputs[i], f[i - 1])
    <3> TAKE i \in 0 .. n
    <3>1. i = 0 \/ i \in 1 .. n
      OBVIOUS
    <3> QED BY <3>1, <1>4, <1>5, <1>6
  <2> QED BY <1>4, <2>1 DEF OutBody, zero
<1>8. out = OutBody(out, factors, inputs, size, n)
  BY <1>7
<1>9. OutputOf(factors, inputs, size) = out[n]
  <2>1. Len(inputs) = n
    BY LenIs
  <2> QED BY <2>1 DEF OutputOf, OutBody
<1> HIDE DEF out
<1>10. out[0] = zero /\ \A i \in 1 .. n : out[i] = Process(factors[i], inputs[i], out[i - 1])
  <2>1. \A i \in 0 .. n : out[i] = IF i = 0 THEN zero ELSE Process(factors[i], inputs[i], out[i - 1])
    BY <1>8 DEF OutBody, zero
  <2>2. 0 \in 0 .. n
    OBVIOUS
  <2> QED BY <2>1, <2>2, <1>5
<1> DEFINE T == {i \in Nat : i <= n => out[i] \in Blocks(size)}
<1>11. 0 \in T
  BY <1>1, <1>10
<1>12. ASSUME NEW i \in Nat, i \in T PROVE i + 1 \in T
  <2> SUFFICES ASSUME i + 1 <= n PROVE out[i + 1] \in Blocks(size)
    OBVIOUS
  <2>1. i + 1 \in 1 .. n /\ (i + 1) - 1 = i /\ out[i] \in Blocks(size)
    BY <1>12
  <2>2. out[i + 1] = Process(factors[i + 1], inputs[i + 1], out[i])
    BY <1>10, <2>1
  <2> QED BY <1>2, <2>1, <2>2, ProcessIs
<1> HIDE DEF T
<1>13. \A i \in 0 .. n : out[i] \in Blocks(size)
  <2>1. Nat \subseteq T
    BY <1>11, <1>12, Induct
  <2> QED BY <2>1 DEF T
<1>14. ASSUME NEW k \in 1 .. size PROVE out[n][k] = FieldSum([i \in 1 .. n |-> Times(factors[i], inputs[i][k])], n)
  <2> DEFINE t == [i \in 1 .. n |-> Times(factors[i], inputs[i][k])]
             s == [i \in 0 .. n |-> out[i][k]]
  <2>1. \A i \in 1 .. n : inputs[i][k] \in Values /\ t[i] = Times(factors[i], inputs[i][k])
    BY <1>2 DEF Blocks
  <2>2. Terms(t, n)
    BY <1>2, <2>1, TimesIs DEF Terms
  <2>3. Adds(s, t, n)
    <3>1. s[0] = 0
      BY <1>10 DEF zero
    <3>2. ASSUME NEW i \in 1 .. n PROVE s[i] = Plus(s[i - 1], t[i])
      <4>1. s[i] = out[i][k] /\ s[i - 1] = out[i - 1][k] /\ t[i] = Times(factors[i], inputs[i][k])
        BY <1>5
      <4>2. out[i - 1] \in Blocks(size)
        BY <1>5, <1>13
      <4>3. Process(factors[i], inputs[i], out[i - 1])[k] = Plus(out[i - 1][k], Times(factors[i], inputs[i][k]))
        BY <1>2, <4>2, ProcessIs
      <4> QED BY <1>10, <4>1, <4>3
    <3> HIDE DEF s, t
    <3> QED BY <3>1, <3>2 DEF Adds
  <2> HIDE DEF t
  <2>4. s[n] = out[n][k] /\ n \in 0 .. n
    OBVIOUS
  <2> HIDE DEF s
  <2>5. s[n] = FieldSum(t, n)
    BY <2>2, <2>3, <2>4, SumsUnique DEF FieldSum
  <2> QED BY <2>4, <2>5 DEF t
<1>15. n \in 0 .. n
  OBVIOUS
<1> QED BY <1>9, <1>13, <1>14, <1>15

-----------------------------------------------------------------------------
(* The elimination *)

\* A matrix of so many rows and columns; a row times a vector.
Grid(m, rows, cols) == m \in [1 .. rows -> [1 .. cols -> Values]]
Dot(row, z, cols) == FieldSum([c \in 1 .. cols |-> Times(row[c], z[c])], cols)
Solves(z, m, rows, cols) == \A r \in 1 .. rows : Dot(m[r], z, cols) = 0

LEMMA EliminateIs ==
    ASSUME NEW R \in Nat, NEW W \in Nat, NEW m, Grid(m, R, W), NEW left \in Nat, NEW row \in 1 .. R,
           left + row \in 1 .. W, NEW e, e = Eliminate(m, row, left), e # NoMatrix,
           NEW p, p = m[row][left + row]
    PROVE  /\ Grid(e, R, W) /\ p \in Values /\ p # 0
           /\ \A c \in 1 .. W : e[row][c] = Over(m[row][c], p)
           /\ \A r \in 1 .. R : r # row => \A c \in 1 .. W :
                e[r][c] = Plus(m[r][c], Times(Over(m[row][c], p), m[r][left + row]))
<1> DEFINE q == left + row
           scaled == [c \in DOMAIN m[row] |-> Over(m[row][c], p)]
           body == [r \in DOMAIN m |->
                      IF r = row THEN scaled
                      ELSE [c \in DOMAIN m[r] |-> Minus(m[r][c], Times(scaled[c], m[r][q]))]]
<1>1. /\ DOMAIN m = 1 .. R /\ \A r \in 1 .. R : DOMAIN m[r] = 1 .. W /\ \A c \in 1 .. W : m[r][c] \in Values
  BY DEF Grid
<1>2. e = body /\ p # 0
  <2>1. e = IF m = NoMatrix \/ p = 0 THEN NoMatrix ELSE body
    BY DEF Eliminate
  <2> HIDE DEF body
  <2> QED BY <2>1
<1>3. q \in 1 .. W
  OBVIOUS
<1>4. p \in Values
  BY <1>1
<1> HIDE DEF q
<1>5. \A c \in 1 .. W : scaled[c] = Over(m[row][c], p) /\ scaled[c] \in Values
  BY <1>1, <1>2, <1>4, OverIs
<1>6. e[row] = scaled /\ scaled = [c \in 1 .. W |-> Over(m[row][c], p)]
  BY <1>1, <1>2
<1>7. ASSUME NEW r \in 1 .. R, r # row
      PROVE  /\ e[r] = [c \in 1 .. W |-> Minus(m[r][c], Times(scaled[c], m[r][q]))]
             /\ \A c \in 1 .. W : /\ Minus(m[r][c], Times(scaled[c], m[r][q])) \in Values
                                  /\ e[r][c] = Plus(m[r][c], Times(Over(m[row][c], p), m[r][q]))
  <2>1. e[r] = [c \in 1 .. W |-> Minus(m[r][c], Times(scaled[c], m[r][q]))]
    BY <1>1, <1>2, <1>7
  <2> HIDE DEF scaled, body
  <2>2. ASSUME NEW c \in 1 .. W
        PROVE  /\ Minus(m[r][c], Times(scaled[c], m[r][q])) \in Values
               /\ Minus(m[r][c], Times(scaled[c], m[r][q])) = Plus(m[r][c], Times(scaled[c], m[r][q]))
    <3>1. m[r][c] \in Values /\ m[r][q] \in Values /\ scaled[c] \in Values
      BY <1>1, <1>3, <1>5
    <3>2. Times(scaled[c], m[r][q]) \in Values
      BY <3>1, TimesIs
    <3> QED BY <3>1, <3>2, PlusIs
  <2> QED BY <1>5, <2>1, <2>2
<1>8. Grid(e, R, W)
  <2>1. DOMAIN e = 1 .. R /\ e = [r \in 1 .. R |-> e[r]]
    BY <1>1, <1>2
  <2> HIDE DEF body
  <2>2. e[row] \in [1 .. W -> Values]
    <3>1. \A c \in 1 .. W : Over(m[row][c], p) \in Values
      BY <1>5
    <3> HIDE DEF scaled
    <3> QED BY <1>6, <3>1
  <2>3. \A r \in 1 .. R : r # row => e[r] \in [1 .. W -> Values]
    <3> HIDE DEF scaled
    <3> TAKE r \in 1 .. R
    <3> HAVE r # row
    <3>1. \A c \in 1 .. W : Minus(m[r][c], Times(scaled[c], m[r][q])) \in Values
      BY <1>7
    <3>2. e[r] = [c \in 1 .. W |-> Minus(m[r][c], Times(scaled[c], m[r][q]))]
      BY <1>7
    <3> QED BY <3>1, <3>2
  <2> QED BY <2>1, <2>2, <2>3 DEF Grid
<1>9. \A c \in 1 .. W : e[row][c] = Over(m[row][c], p)
  BY <1>6
<1> HIDE DEF scaled, body
<1> QED BY <1>2, <1>4, <1>7, <1>8, <1>9 DEF q

\* What solves the equations of all rows solves them after another round.
LEMMA EliminateKeeps ==
    ASSUME NEW R \in Nat, NEW W \in Nat, NEW m, Grid(m, R, W), NEW left \in Nat, NEW row \in 1 .. R,
           left + row \in 1 .. W, NEW e, e = Eliminate(m, row, left), e # NoMatrix,
           NEW z \in [1 .. W -> Values], Solves(z, m, R, W)
    PROVE  Solves(z, e, R, W)
<1>1. PICK p : p = m[row][left + row]
  OBVIOUS
<1>2. /\ Grid(e, R, W) /\ p \in Values /\ p # 0
      /\ \A c \in 1 .. W : e[row][c] = Over(m[row][c], p)
      /\ \A r \in 1 .. R : r # row => \A c \in 1 .. W :
           e[r][c] = Plus(m[r][c], Times(Over(m[row][c], p), m[r][left + row]))
  BY <1>1, EliminateIs, SMTT(30)
<1>3. \A r \in 1 .. R, c \in 1 .. W : m[r][c] \in Values /\ e[r][c] \in Values /\ z[c] \in Values
  BY <1>2 DEF Grid
<1> DEFINE t(x) == [c \in 1 .. W |-> Times(x[c], z[c])]
<1>4. \A r \in 1 .. R : Terms(t(m[r]), W) /\ Terms(t(e[r]), W)
  BY <1>3, TimesIs DEF Terms
<1>0. \A r \in 1 .. R : Dot(m[r], z, W) = 0
  BY DEF Solves
<1>5. 1 \in Values /\ 0 \in Values
  BY ONLY Numbers
<1>6. PICK i \in Values : i = Over(1, p) /\ \A v \in Values : Over(v, p) = Times(i, v)
  BY <1>2, <1>5, OverIs
<1>7. Dot(e[row], z, W) = 0
  <2>1. ASSUME NEW c \in 1 .. W PROVE t(e[row])[c] = Times(i, t(m[row])[c])
    <3>1. t(e[row])[c] = Times(e[row][c], z[c]) /\ t(m[row])[c] = Times(m[row][c], z[c])
      OBVIOUS
    <3>2. e[row][c] = Times(i, m[row][c])
      BY <1>2, <1>3, <1>6
    <3>3. Times(Times(i, m[row][c]), z[c]) = Times(i, Times(m[row][c], z[c]))
      BY <1>3, TimesAssoc
    <3> QED BY <3>1, <3>2, <3>3
  <2> DEFINE x == t(e[row])
             y == t(m[row])
  <2>2. Terms(y, W) /\ (\A c \in 1 .. W : x[c] = Times(i, y[c]))
    BY <1>4, <2>1
  <2>3. FieldSum(y, W) = 0 /\ Dot(e[row], z, W) = FieldSum(x, W)
    BY <1>0 DEF Dot
  <2> HIDE DEF x, y
  <2>4. FieldSum(x, W) = Times(i, FieldSum(y, W))
    BY <2>2, SumTimes
  <2> QED BY <1>6, <2>3, <2>4, TimesIs
<1>8. ASSUME NEW r \in 1 .. R, r # row PROVE Dot(e[r], z, W) = 0
  <2>1. PICK k \in Values : k = m[r][left + row]
    BY <1>3
  <2> DEFINE x == t(e[r])
             y == t(m[r])
             s == t(e[row])
             w == [c \in 1 .. W |-> Times(k, s[c])]
  <2>2. ASSUME NEW c \in 1 .. W PROVE x[c] = Plus(y[c], w[c])
    <3>1. x[c] = Times(e[r][c], z[c]) /\ y[c] = Times(m[r][c], z[c]) /\ w[c] = Times(k, Times(e[row][c], z[c]))
      OBVIOUS
    <3> DEFINE a == m[r][c]
               b == e[row][c]
               d == z[c]
    <3>2. e[r][c] = Plus(a, Times(b, k)) /\ a \in Values /\ b \in Values /\ d \in Values
      BY <1>2, <1>3, <1>8, <2>1
    <3>3. x[c] = Times(Plus(a, Times(b, k)), d) /\ y[c] = Times(a, d) /\ w[c] = Times(k, Times(b, d))
      BY <3>1, <3>2
    <3> HIDE DEF a, b, d, x, y, w
    <3>4. Times(b, k) \in Values /\ Plus(a, Times(b, k)) \in Values /\ Times(b, k) = Times(k, b)
      <4>1. Times(b, k) \in Values /\ Times(b, k) = Times(k, b)
        BY <3>2, TimesIs
      <4> QED BY <3>2, <4>1, PlusIs
    <3>5. Times(Plus(a, Times(b, k)), d) = Times(d, Plus(a, Times(b, k)))
      BY <3>2, <3>4, TimesIs
    <3>6. Times(d, Plus(a, Times(b, k))) = Plus(Times(d, a), Times(d, Times(b, k)))
      BY <3>2, <3>4, Distributes
    <3>7. Times(d, a) = Times(a, d) /\ Times(d, Times(b, k)) = Times(Times(b, k), d)
      BY <3>2, <3>4, TimesIs
    <3>8. Times(Times(k, b), d) = Times(k, Times(b, d))
      BY <3>2, TimesAssoc
    <3> QED BY <3>3, <3>4, <3>5, <3>6, <3>7, <3>8
  <2>3. Terms(y, W) /\ Terms(s, W) /\ (\A c \in 1 .. W : w[c] = Times(k, s[c]))
    BY <1>4
  <2>4. FieldSum(y, W) = 0 /\ FieldSum(s, W) = 0 /\ Dot(e[r], z, W) = FieldSum(x, W)
    BY <1>0, <1>7 DEF Dot
  <2> HIDE DEF x, y, s, w
  <2>5. FieldSum(w, W) = Times(k, FieldSum(s, W))
    BY <2>3, SumTimes
  <2>6. Terms(w, W)
    BY <2>3, TimesIs DEF Terms
  <2>7. FieldSum(x, W) = Plus(FieldSum(y, W), FieldSum(w, W))
    BY <2>2, <2>3, <2>6, SumPlus
  <2>8. Times(k, 0) = 0 /\ Plus(0, 0) = 0
    BY <1>5, TimesIs, PlusLaws
  <2> QED BY <2>4, <2>5, <2>7, <2>8
<1> QED BY <1>7, <1>8 DEF Solves

\* Of the right matrix the first k columns and those from the missing blocks on are those of the identity.
Cleared(m, R, left, missing, k) ==
    \A r, j \in 1 .. R : j <= k \/ j > missing => m[r][left + j] = IF r = j THEN 1 ELSE 0
LEMMA EliminateClears ==
    ASSUME NEW R \in Nat, NEW left \in Nat, NEW W, W = left + R, NEW m, Grid(m, R, W),
           NEW missing \in Nat, NEW k \in Nat, k + 1 <= missing, missing <= R,
           Cleared(m, R, left, missing, k), NEW e, e = Eliminate(m, k + 1, left), e # NoMatrix
    PROVE  Cleared(e, R, left, missing, k + 1) /\ Grid(e, R, W)
<1>0. W \in Nat /\ \A j \in 1 .. R : left + j \in 1 .. W
  OBVIOUS
<1>1. PICK row \in 1 .. R : row = k + 1
  OBVIOUS
<1>2. PICK p : p = m[row][left + row]
  OBVIOUS
<1>3. /\ Grid(e, R, W) /\ p \in Values /\ p # 0
      /\ \A c \in 1 .. W : e[row][c] = Over(m[row][c], p)
      /\ \A r \in 1 .. R : r # row => \A c \in 1 .. W :
           e[r][c] = Plus(m[r][c], Times(Over(m[row][c], p), m[r][left + row]))
  <2>1. left + row \in 1 .. W /\ e = Eliminate(m, row, left)
    BY <1>0, <1>1
  <2> QED BY <1>0, <1>2, <2>1, EliminateIs
<1>4. \A r, j \in 1 .. R : m[r][left + j] \in Values
  BY <1>0 DEF Grid
<1>5. 0 \in Values /\ 1 \in Values
  BY Numbers
<1>6. Over(0, p) = 0 /\ Over(p, p) = 1
  BY <1>3, OverIs DEF Over
<1>7. ASSUME NEW r \in 1 .. R, NEW j \in 1 .. R, j <= k + 1 \/ j > missing
      PROVE  e[r][left + j] = IF r = j THEN 1 ELSE 0
  <2>1. /\ e[row][left + j] = Over(m[row][left + j], p)
        /\ r # row => e[r][left + j] = Plus(m[r][left + j], Times(Over(m[row][left + j], p), m[r][left + row]))
    BY <1>0, <1>3
  <2>2. m[r][left + j] \in Values /\ m[r][left + row] \in Values
    BY <1>4
  <2>3. CASE j = row
    <3>1. CASE r = row
      BY <1>2, <1>6, <2>1, <2>3, <3>1
    <3>2. CASE r # row
      <4>1. e[r][left + row] = Plus(m[r][left + row], Times(1, m[r][left + row]))
        BY <1>2, <1>6, <2>1, <2>3, <3>2
      <4>2. Times(1, m[r][left + row]) = m[r][left + row]
        BY <2>2, TimesOne
      <4>3. Plus(m[r][left + row], m[r][left + row]) = 0
        BY <2>2, PlusLaws
      <4> QED BY <2>3, <3>2, <4>1, <4>2, <4>3
    <3> QED BY <3>1, <3>2
  <2>4. CASE j # row
    <3>1. j <= k \/ j > missing
      BY <1>1, <1>7, <2>4
    <3>2. m[row][left + j] = 0 /\ m[r][left + j] = IF r = j THEN 1 ELSE 0
      BY <2>4, <3>1 DEF Cleared
    <3>3. CASE r = row
      BY <1>6, <2>1, <2>4, <3>2, <3>3
    <3>4. CASE r # row
      <4>1. Times(0, m[r][left + row]) = 0 /\ Plus(m[r][left + j], 0) = m[r][left + j]
        BY <1>5, <2>2, TimesIs, PlusLaws
      <4> QED BY <1>6, <2>1, <3>2, <3>4, <4>1
    <3> QED BY <3>3, <3>4
  <2> QED BY <2>3, <2>4
<1> QED BY <1>3, <1>7 DEF Cleared

\* After as many rounds as there are blocks missing, what is left solves every equation.
GaussBody(g, m, missing, left) ==
    [row \in 0 .. missing |-> IF row = 0 THEN m ELSE Eliminate(g[row - 1], row, left)]
LEMMA GaussElimIs ==
    ASSUME NEW R \in Nat, NEW left \in Nat, NEW W, W = left + R, NEW m, Grid(m, R, W),
           NEW missing \in Nat, missing <= R, Cleared(m, R, left, missing, 0),
           GaussElim(m, missing, left) # NoMatrix
    PROVE  /\ Grid(GaussElim(m, missing, left), R, W)
           /\ Cleared(GaussElim(m, missing, left), R, left, missing, missing)
           /\ \A z \in [1 .. W -> Values] : Solves(z, m, R, W) => Solves(z, GaussElim(m, missing, left), R, W)
<1> DEFINE V == {NoMatrix} \cup [1 .. R -> [1 .. W -> Values]]
           F == [p \in (1 .. missing) \X V |-> Eliminate(p[2], p[1], left)]
           solved == CHOOSE g : g = GaussBody(g, m, missing, left)
<1>0. W \in Nat /\ \A j \in 1 .. R : left + j \in 1 .. W
  OBVIOUS
<1>1. \A row \in 1 .. missing, x \in V : Eliminate(x, row, left) \in V
  <2> TAKE row \in 1 .. missing, x \in V
  <2>1. CASE Eliminate(x, row, left) = NoMatrix
    BY <2>1
  <2>2. CASE Eliminate(x, row, left) # NoMatrix
    <3>1. x # NoMatrix
      BY <2>2 DEF Eliminate
    <3>2. Grid(x, R, W)
      BY <3>1 DEF Grid
    <3>3. PICK e : e = Eliminate(x, row, left)
      OBVIOUS
    <3>4. row \in 1 .. R /\ left + row \in 1 .. W
      BY <1>0
    <3>5. Grid(e, R, W)
      BY <1>0, <2>2, <3>2, <3>3, <3>4, EliminateIs
    <3> QED BY <3>3, <3>5 DEF Grid
  <2> QED BY <2>1, <2>2
<1>2. m \in V
  BY DEF Grid
<1> HIDE DEF V
<1>3. Steps(F, V, missing)
  <2>1. \A p \in (1 .. missing) \X V : Eliminate(p[2], p[1], left) \in V
    BY <1>1
  <2> QED BY <2>1 DEF Steps
<1>4. PICK f \in [0 .. missing -> V] : f[0] = m /\ \A k \in 1 .. missing : f[k] = F[<<k, f[k - 1]>>]
  <2> HIDE DEF F
  <2>1. \E f : Follows(f, F, V, m, missing)
    BY <1>2, <1>3, Recursion
  <2> QED BY <2>1 DEF Follows
<1>5. \A k \in 1 .. missing : k - 1 \in 0 .. missing /\ k \in 0 .. missing /\ k # 0
  OBVIOUS
<1>6. \A k \in 1 .. missing : f[k] = Eliminate(f[k - 1], k, left)
  BY <1>4, <1>5
<1>7. f = GaussBody(f, m, missing, left)
  <2>1. \A k \in 0 .. missing : f[k] = IF k = 0 THEN m ELSE Eliminate(f[k - 1], k, left)
    <3> TAKE k \in 0 .. missing
    <3>1. k = 0 \/ k \in 1 .. missing
      OBVIOUS
    <3> QED BY <3>1, <1>4, <1>5, <1>6
  <2> QED BY <1>4, <2>1 DEF GaussBody
<1>8. solved = GaussBody(solved, m, missing, left)
  BY <1>7
<1>9. GaussElim(m, missing, left) = solved[missing]
  BY DEF GaussElim, GaussBody
<1> HIDE DEF solved
<1>10. solved[0] = m /\ \A k \in 1 .. missing : solved[k] = Eliminate(solved[k - 1], k, left)
  <2>1. \A k \in 0 .. missing : solved[k] = IF k = 0 THEN m ELSE Eliminate(solved[k - 1], k, left)
    BY <1>8 DEF GaussBody
  <2>2. 0 \in 0 .. missing
    OBVIOUS
  <2> QED BY <2>1, <2>2, <1>5
<1> DEFINE Keeps(e) == \A z \in [1 .. W -> Values] : Solves(z, m, R, W) => Solves(z, e, R, W)
           Good(k) == /\ Grid(solved[k], R, W) /\ Cleared(solved[k], R, left, missing, k)
                      /\ Keeps(solved[k])
           T == {k \in Nat : k <= missing => solved[k] = NoMatrix \/ Good(k)}
<1>11. 0 \in T
  <2>1. Good(0)
    BY <1>10
  <2> HIDE DEF Good
  <2> QED BY <2>1
<1>12. ASSUME NEW k \in Nat, k \in T PROVE k + 1 \in T
  <2> SUFFICES ASSUME k + 1 <= missing PROVE solved[k + 1] = NoMatrix \/ Good(k + 1)
    OBVIOUS
  <2>1. k + 1 \in 1 .. missing /\ (k + 1) - 1 = k /\ (solved[k] = NoMatrix \/ Good(k))
    <3> HIDE DEF Good
    <3> QED BY <1>12
  <2>2. solved[k + 1] = Eliminate(solved[k], k + 1, left)
    BY <1>10, <2>1
  <2> SUFFICES ASSUME solved[k + 1] # NoMatrix PROVE Good(k + 1)
    OBVIOUS
  <2>3. Good(k)
    <3>1. solved[k] # NoMatrix
      BY <2>2 DEF Eliminate
    <3> HIDE DEF Good
    <3> QED BY <2>1, <3>1
  <2> DEFINE x == solved[k]
             e == solved[k + 1]
  <2>4. Grid(x, R, W) /\ Cleared(x, R, left, missing, k) /\ Keeps(x)
    BY <2>3
  <2>5. e = Eliminate(x, k + 1, left) /\ e # NoMatrix
    BY <2>2
  <2> HIDE DEF x, e
  <2>6. Cleared(e, R, left, missing, k + 1) /\ Grid(e, R, W)
    <3> HIDE DEF Keeps
    <3> QED BY <2>4, <2>5, EliminateClears
  <2>7. Keeps(e)
    <3> SUFFICES ASSUME NEW z \in [1 .. W -> Values], Solves(z, m, R, W)
                 PROVE  Solves(z, e, R, W)
      OBVIOUS
    <3>1. Solves(z, x, R, W)
      BY <2>4
    <3>2. PICK row \in 1 .. R : row = k + 1 /\ left + row \in 1 .. W
      BY <1>0
    <3>3. e = Eliminate(x, row, left)
      BY <2>5, <3>2
    <3> HIDE DEF Keeps
    <3> QED BY <1>0, <2>4, <2>5, <3>1, <3>2, <3>3, EliminateKeeps
  <2> HIDE DEF Keeps
  <2> QED BY <2>6, <2>7 DEF e
<1> HIDE DEF T, Good
<1>13. Good(missing)
  <2>1. missing \in T
    BY <1>11, <1>12, Induct
  <2> QED BY <1>9, <2>1 DEF T
<1> QED BY <1>9, <1>13 DEF Good

\* A row of which the right half is that of the identity gives the block that belongs to it.
Solved(R, left, W, row, z, r) ==
    /\ R \in Nat /\ left \in Nat /\ W = left + R /\ r \in 1 .. R
    /\ Terms(row, W) /\ Terms(z, W) /\ Dot(row, z, W) = 0
    /\ \A j \in 1 .. R : row[left + j] = IF r = j THEN 1 ELSE 0
LEMMA ReadOff ==
    ASSUME NEW R, NEW left, NEW W, NEW row, NEW z, NEW r, Solved(R, left, W, row, z, r)
    PROVE  Dot(row, z, left) = z[left + r]
<1> DEFINE t == [c \in 1 .. W |-> Times(row[c], z[c])]
           u == [j \in 1 .. R |-> t[left + j]]
           v == [c \in 1 .. left |-> Times(row[c], z[c])]
<1>0. /\ R \in Nat /\ left \in Nat /\ W = left + R /\ r \in 1 .. R /\ Dot(row, z, W) = 0
      /\ \A j \in 1 .. R : row[left + j] = IF r = j THEN 1 ELSE 0
  BY DEF Solved
<1>1. \A c \in 1 .. W : row[c] \in Values /\ z[c] \in Values /\ t[c] = Times(row[c], z[c])
  BY DEF Solved, Terms
<1>2. Terms(t, left + R)
  BY <1>0, <1>1, TimesIs DEF Terms
<1>3. \A j \in 1 .. R : left + j \in 1 .. W /\ u[j] = IF j = r THEN z[left + r] ELSE 0
  <2> TAKE j \in 1 .. R
  <2>1. left + j \in 1 .. W
    BY <1>0
  <2>2. u[j] = Times(row[left + j], z[left + j])
    BY <2>1
  <2>3. z[left + j] \in Values
    BY <1>1, <2>1
  <2> HIDE DEF u
  <2>4. Times(1, z[left + j]) = z[left + j] /\ Times(0, z[left + j]) = 0
    BY <2>3, TimesOne, TimesIs
  <2> QED BY <1>0, <2>1, <2>2, <2>4
<1>4. z[left + r] \in Values
  BY <1>0, <1>1, <1>3
<1>5. FieldSum(u, R) = z[left + r]
  <2>1. PICK x \in Values : x = z[left + r]
    BY <1>4
  <2>2. r \in Nat /\ r \in 1 .. R /\ R \in Nat
    BY <1>0
  <2> HIDE DEF u
  <2>3. \A j \in 1 .. R : u[j] = IF j = r THEN x ELSE 0
    BY <1>3, <2>1
  <2>4. FieldSum(u, R) = IF r \in 1 .. R THEN x ELSE 0
    BY ONLY <2>1, <2>2, <2>3, SumSingle, Zenon
  <2> QED BY <1>0, <2>1, <2>2, <2>4
<1>6. Terms(v, left) /\ \A c \in 1 .. left : t[c] = v[c]
  <2>1. \A c \in 1 .. left : c \in 1 .. W /\ v[c] = Times(row[c], z[c])
    BY <1>0
  <2> HIDE DEF t, v
  <2> QED BY <1>1, <2>1, TimesIs DEF Terms
<1>7. FieldSum(t, left) = FieldSum(v, left)
  <2> HIDE DEF t, v
  <2> QED BY <1>0, <1>6, SumSame
<1>8. FieldSum(t, left + R) = Plus(FieldSum(t, left), FieldSum(u, R))
  <2>1. \A j \in 1 .. R : u[j] = t[left + j]
    OBVIOUS
  <2> HIDE DEF t, u
  <2> QED BY ONLY <1>0, <1>2, <2>1, SumJoin
<1>9. FieldSum(t, left + R) = 0
  BY <1>0 DEF Dot
<1>10. FieldSum(v, left) \in Values
  <2> HIDE DEF v
  <2> QED BY <1>0, <1>6, SumsAre
<1> DEFINE a == FieldSum(v, left)
           b == z[left + r]
<1>11. Plus(a, b) = 0 /\ a \in Values /\ b \in Values
  BY <1>4, <1>5, <1>7, <1>8, <1>9, <1>10
<1> HIDE DEF a, b, v
<1>12. Plus(Plus(a, b), b) = Plus(a, Plus(b, b)) /\ Plus(b, b) = 0 /\ Plus(a, 0) = a /\ Plus(0, b) = b
  BY <1>11, PlusLaws
<1>13. a = b
  BY <1>11, <1>12
<1> QED BY <1>13 DEF a, b, v, Dot

-----------------------------------------------------------------------------
(* What the matrix says of the blocks *)

\* The row of the matrix for a recovery block: the powers of the bases w, for the blocks
\* x that are present and, in the right half, for those that are missing; a 1 where
\* the recovery block itself stands, among the inputs or among the outputs.
RowOf(row, z, r, w, x, dpi, d, dmi, m, n, others, sum) ==
    /\ \A c \in 1 .. d : row[c] = w[dpi[c]] /\ z[c] = x[dpi[c]]
    /\ \A j \in 1 .. m : row[d + j] = (IF r = j THEN 1 ELSE 0) /\ (r = j => z[d + j] = sum)
    /\ \A j \in 1 .. m : row[n + j] = w[dmi[j]] /\ z[n + j] = x[dmi[j]]
    /\ \A j \in 1 .. others : /\ row[n + (m + j)] = IF r = m + j THEN 1 ELSE 0
                              /\ r = m + j => z[n + (m + j)] = sum

\* A single block among the others.
Single(t, row, z, r, sum, n) ==
    \A j \in 1 .. n : /\ t[j] = Times(row[j], z[j]) /\ z[j] \in Values
                      /\ row[j] = (IF r = j THEN 1 ELSE 0) /\ (r = j => z[j] = sum)
LEMMA OneOf ==
    ASSUME NEW n \in Nat, NEW row, NEW z, NEW t, NEW sum \in Values, NEW r \in Nat,
           Single(t, row, z, r, sum, n)
    PROVE  FieldSum(t, n) = IF r \in 1 .. n THEN sum ELSE 0
<1>1. \A j \in 1 .. n : t[j] = IF j = r THEN sum ELSE 0
  <2> TAKE j \in 1 .. n
  <2>0. z[j] \in Values
    BY DEF Single
  <2>1. Times(1, z[j]) = z[j] /\ Times(0, z[j]) = 0
    BY <2>0, TimesOne, TimesIs
  <2> QED BY <2>1 DEF Single
<1> QED BY ONLY <1>1, n \in Nat, r \in Nat, sum \in Values, SumSingle

\* A sum in four parts.
Part(a, t, from, n) == \A k \in 1 .. n : a[k] = t[from + k]
Shape(d, m, others, n, R, W) ==
    /\ n \in Nat /\ d \in Nat /\ m \in Nat /\ others \in Nat /\ R \in Nat /\ W \in Nat
    /\ n = d + m /\ R = m + others /\ W = n + R
LEMMA FourParts ==
    ASSUME NEW d, NEW m, NEW others, NEW n, NEW R, NEW W, Shape(d, m, others, n, R, W), NEW t, Terms(t, W),
           NEW a, Part(a, t, 0, d), NEW b, Part(b, t, d, m), NEW c, Part(c, t, n, m),
           NEW e, Part(e, t, n + m, others)
    PROVE  /\ FieldSum(t, W) = Plus(Plus(FieldSum(a, d), FieldSum(b, m)), Plus(FieldSum(c, m), FieldSum(e, others)))
           /\ FieldSum(a, d) \in Values /\ FieldSum(b, m) \in Values
           /\ FieldSum(c, m) \in Values /\ FieldSum(e, others) \in Values
<1> DEFINE rest == [k \in 1 .. R |-> t[n + k]]
<1>10. /\ n \in Nat /\ d \in Nat /\ m \in Nat /\ others \in Nat /\ R \in Nat /\ W \in Nat
       /\ n = d + m /\ R = m + others /\ W = n + R
  BY DEF Shape
<1>1. /\ \A k \in 1 .. n : k \in 1 .. W
      /\ \A k \in 1 .. R : n + k \in 1 .. W /\ rest[k] = t[n + k]
      /\ \A k \in 1 .. d : k \in 1 .. n
      /\ \A k \in 1 .. m : k \in 1 .. R /\ d + k \in 1 .. n
      /\ \A k \in 1 .. others : m + k \in 1 .. R
  BY <1>10
<1> HIDE DEF rest
<1>0. /\ \A k \in 1 .. d : a[k] = t[k]
      /\ \A k \in 1 .. m : b[k] = t[d + k] /\ c[k] = t[n + k]
      /\ \A k \in 1 .. others : e[k] = t[n + (m + k)]
  <2>1. (\A k \in 1 .. d : 0 + k = k) /\ \A k \in 1 .. others : (n + m) + k = n + (m + k)
    BY <1>10
  <2> QED BY <2>1 DEF Part
<1>2. Terms(t, n) /\ Terms(rest, R)
  BY <1>1 DEF Terms
<1>3. Terms(t, d) /\ Terms(a, d) /\ Terms(b, m)
  BY <1>0, <1>1, <1>2 DEF Terms
<1>4. Terms(rest, m) /\ Terms(c, m) /\ Terms(e, others)
  <2>1. (\A k \in 1 .. m : c[k] = rest[k]) /\ (\A k \in 1 .. others : e[k] = rest[m + k])
    BY <1>0, <1>1
  <2> QED BY <1>1, <1>2, <2>1 DEF Terms
<1>5. FieldSum(t, n + R) = Plus(FieldSum(t, n), FieldSum(rest, R))
  <2>1. Terms(t, n + R) /\ \A k \in 1 .. R : rest[k] = t[n + k]
    BY <1>1, <1>10
  <2> QED BY ONLY <1>10, <2>1, SumJoin
<1>6. FieldSum(t, d + m) = Plus(FieldSum(t, d), FieldSum(b, m))
  <2>1. Terms(t, d + m)
    BY <1>2, <1>10
  <2>2. \A k \in 1 .. m : b[k] = t[d + k]
    BY <1>0
  <2> QED BY ONLY <1>10, <2>1, <2>2, SumJoin
<1>7. FieldSum(rest, m + others) = Plus(FieldSum(rest, m), FieldSum(e, others))
  <2>1. Terms(rest, m + others) /\ \A k \in 1 .. others : e[k] = rest[m + k]
    BY <1>0, <1>1, <1>2, <1>10
  <2> QED BY ONLY <1>10, <2>1, SumJoin
<1>8. FieldSum(a, d) = FieldSum(t, d)
  BY <1>0, <1>3, <1>10, SumSame
<1>9. FieldSum(c, m) = FieldSum(rest, m)
  <2>1. \A k \in 1 .. m : c[k] = rest[k]
    BY <1>0, <1>1
  <2> QED BY <1>4, <1>10, <2>1, SumSame
<1> QED BY <1>3, <1>4, <1>5, <1>6, <1>7, <1>8, <1>9, <1>10, SumsAre

\* What is asked of the bases, the blocks, the row and the vector.
Equation(n, present, d, m, others, R, W, w, x, row, z, r, sum) ==
    /\ Shape(d, m, others, n, R, W) /\ r \in 1 .. R
    /\ present \in [1 .. n -> BOOLEAN]
    /\ d = Len(Indexes(present, TRUE)) /\ m = Len(Indexes(present, FALSE))
    /\ Terms(w, n) /\ Terms(x, n) /\ Terms(row, W) /\ Terms(z, W)
    /\ sum = FieldSum([i \in 1 .. n |-> Times(w[i], x[i])], n)
    /\ RowOf(row, z, r, w, x, Indexes(present, TRUE), d, Indexes(present, FALSE), m, n, others, sum)

LEMMA RowSolves ==
    ASSUME NEW n, NEW present, NEW d, NEW m, NEW others, NEW R, NEW W, NEW w, NEW x, NEW row, NEW z,
           NEW r, NEW sum, Equation(n, present, d, m, others, R, W, w, x, row, z, r, sum)
    PROVE  Dot(row, z, W) = 0
<1> DEFINE q == [i \in 1 .. n |-> Times(w[i], x[i])]
           t == [c \in 1 .. W |-> Times(row[c], z[c])]
<1>1. PICK dpi, dmi : dpi = Indexes(present, TRUE) /\ dmi = Indexes(present, FALSE)
  OBVIOUS
<1>2. /\ n \in Nat /\ d \in Nat /\ m \in Nat /\ others \in Nat /\ R \in Nat /\ W \in Nat
      /\ n = d + m /\ R = m + others /\ W = n + R /\ r \in 1 .. R
  BY DEF Equation, Shape
<1>3. present \in [1 .. n -> BOOLEAN] /\ d = Len(dpi) /\ m = Len(dmi) /\ sum = FieldSum(q, n)
  BY <1>1 DEF Equation
<1>4. Terms(w, n) /\ Terms(x, n) /\ Terms(row, W) /\ Terms(z, W)
  BY DEF Equation
<1>5. /\ \A c \in 1 .. d : row[c] = w[dpi[c]] /\ z[c] = x[dpi[c]]
      /\ \A j \in 1 .. m : row[d + j] = (IF r = j THEN 1 ELSE 0) /\ (r = j => z[d + j] = sum)
      /\ \A j \in 1 .. m : row[n + j] = w[dmi[j]] /\ z[n + j] = x[dmi[j]]
      /\ \A j \in 1 .. others : /\ row[n + (m + j)] = IF r = m + j THEN 1 ELSE 0
                                /\ r = m + j => z[n + (m + j)] = sum
  <2>1. RowOf(row, z, r, w, x, dpi, d, dmi, m, n, others, sum)
    BY <1>1 DEF Equation
  <2> QED BY <2>1 DEF RowOf
<1>6. Terms(q, n) /\ \A i \in 1 .. n : q[i] = Times(w[i], x[i])
  BY <1>4, TimesIs DEF Terms
<1>7. Terms(t, W) /\ \A c \in 1 .. W : t[c] = Times(row[c], z[c]) /\ z[c] \in Values
  BY <1>4, TimesIs DEF Terms
<1>8. Dot(row, z, W) = FieldSum(t, W)
  BY DEF Dot
<1> HIDE DEF q, t
<1>9. (\A c \in 1 .. d : dpi[c] \in 1 .. n) /\ (\A c \in 1 .. m : dmi[c] \in 1 .. n)
  <2>1. dpi \in Seq(1 .. n) /\ dmi \in Seq(1 .. n)
    BY <1>1, <1>2, <1>3, IndexesAre
  <2> QED BY <1>3, <2>1, EntryIs
<1>10. /\ \A c \in 1 .. d : c \in 1 .. W
       /\ \A j \in 1 .. m : d + j \in 1 .. W /\ n + j \in 1 .. W
       /\ \A j \in 1 .. others : n + (m + j) \in 1 .. W
       /\ r \in Nat
  BY <1>2
<1> DEFINE u == [c \in 1 .. d |-> t[c]]
           v == [j \in 1 .. m |-> t[n + j]]
           ones == [j \in 1 .. m |-> t[d + j]]
           outs == [j \in 1 .. others |-> t[n + (m + j)]]
<1>11. /\ \A c \in 1 .. d : u[c] = t[c]
       /\ \A j \in 1 .. m : v[j] = t[n + j] /\ ones[j] = t[d + j]
       /\ \A j \in 1 .. others : outs[j] = t[n + (m + j)]
  OBVIOUS
<1> HIDE DEF u, v, ones, outs
<1> DEFINE A == FieldSum(u, d)
           B == FieldSum(ones, m)
           C == FieldSum(v, m)
           E == FieldSum(outs, others)
<1>12. /\ FieldSum(t, W) = Plus(Plus(A, B), Plus(C, E))
       /\ A \in Values /\ B \in Values /\ C \in Values /\ E \in Values
  <2>1. Terms(t, W) /\ Shape(d, m, others, n, R, W)
    BY <1>7 DEF Equation
  <2>2. Part(u, t, 0, d)
    BY <1>2, <1>11 DEF Part
  <2>3. Part(ones, t, d, m) /\ Part(v, t, n, m)
    BY <1>11 DEF Part
  <2>4. Part(outs, t, n + m, others)
    <3>1. \A j \in 1 .. others : (n + m) + j = n + (m + j)
      BY <1>2
    <3> QED BY <1>11, <3>1 DEF Part
  <2> QED BY ONLY <2>1, <2>2, <2>3, <2>4, FourParts
<1>13. Plus(A, C) = sum
  <2>1. \A c \in 1 .. d : u[c] = q[dpi[c]]
    BY <1>5, <1>6, <1>7, <1>9, <1>10, <1>11
  <2>2. \A j \in 1 .. m : v[j] = q[dmi[j]]
    BY <1>5, <1>6, <1>7, <1>9, <1>10, <1>11
  <2>3. Picked(u, q, dpi) /\ Picked(v, q, dmi)
    BY <1>3, <2>1, <2>2 DEF Picked
  <2>4. FieldSum(q, n) = Plus(FieldSum(u, Len(dpi)), FieldSum(v, Len(dmi)))
    <3>1. Split(present, n, dpi, dmi) /\ Terms(q, n)
      BY <1>1, <1>2, <1>3, <1>6 DEF Split
    <3> QED BY ONLY <3>1, <2>3, SumSplit
  <2> QED BY <1>3, <2>4
<1>14. sum \in Values
  BY <1>2, <1>3, <1>6, SumsAre
<1>15. B = IF r \in 1 .. m THEN sum ELSE 0
  <2> DEFINE a == [j \in 1 .. m |-> row[d + j]]
             b == [j \in 1 .. m |-> z[d + j]]
  <2>1. \A j \in 1 .. m : a[j] = row[d + j] /\ b[j] = z[d + j]
    OBVIOUS
  <2> HIDE DEF a, b
  <2>2. Single(ones, a, b, r, sum, m)
    BY <1>5, <1>7, <1>10, <1>11, <2>1 DEF Single
  <2> QED BY ONLY <1>2, <1>10, <1>14, <2>2, OneOf
<1>16. E = IF r \in 1 .. m THEN 0 ELSE sum
  <2> DEFINE a == [j \in 1 .. others |-> row[n + (m + j)]]
             b == [j \in 1 .. others |-> z[n + (m + j)]]
  <2>1. \A j \in 1 .. others : a[j] = row[n + (m + j)] /\ b[j] = z[n + (m + j)]
    OBVIOUS
  <2>2. PICK k \in Nat : IF r \in 1 .. m THEN k = 0 ELSE k = r - m /\ k \in 1 .. others
    <3>1. CASE r \in 1 .. m
      BY <3>1
    <3>2. CASE r \notin 1 .. m
      <4>1. r - m \in Nat /\ r - m \in 1 .. others
        BY <1>2, <3>2
      <4> QED BY <3>2, <4>1
    <3> QED BY <3>1, <3>2
  <2>3. \A j \in 1 .. others : r = m + j <=> k = j
    BY <1>2, <2>2
  <2> HIDE DEF a, b
  <2>4. Single(outs, a, b, k, sum, others)
    <3> SUFFICES ASSUME NEW j \in 1 .. others
                 PROVE  /\ outs[j] = Times(a[j], b[j]) /\ b[j] \in Values
                        /\ a[j] = (IF k = j THEN 1 ELSE 0) /\ (k = j => b[j] = sum)
      BY DEF Single
    <3>1. outs[j] = Times(a[j], b[j]) /\ b[j] \in Values
      BY <1>7, <1>10, <1>11, <2>1
    <3>2. a[j] = (IF r = m + j THEN 1 ELSE 0) /\ (r = m + j => b[j] = sum)
      BY <1>5, <2>1
    <3> QED BY <2>3, <3>1, <3>2
  <2>5. E = IF k \in 1 .. others THEN sum ELSE 0
    BY ONLY <1>2, <1>14, <2>2, <2>4, OneOf
  <2>6. k = 0 => k \notin 1 .. others
    OBVIOUS
  <2> QED BY <2>2, <2>5, <2>6
<1> HIDE DEF A, B, C, E
<1>17. 0 \in Values
  BY ONLY Numbers
<1>18. Plus(B, E) = sum
  BY <1>14, <1>15, <1>16, <1>17, PlusLaws
<1>19. Plus(Plus(A, B), Plus(C, E)) = Plus(Plus(A, C), Plus(B, E)) /\ Plus(sum, sum) = 0
  BY <1>12, <1>14, PlusSwap, PlusLaws
<1> QED BY <1>8, <1>12, <1>13, <1>18, <1>19

-----------------------------------------------------------------------------
(* The matrix *)

OutputRows == [present : BOOLEAN, exponent : 0 .. Limit]

LEMMA PowerOf ==
    ASSUME NEW a \in Values, NEW e \in 0 .. Limit
    PROVE  Power(a, e) \in Values
<1>1. Limit \in Nat /\ Limit >= 3
  BY ONLY Numbers
<1>2. CASE e < Limit
  <2>1. e \in Nat
    BY <1>1
  <2> QED BY <1>2, <2>1, PowerIs
<1>3. CASE e = Limit
  <2>1. PICK n \in Nat : n = Limit - 1 /\ n < Limit /\ n + 1 = e
    BY <1>1, <1>3
  <2>2. Power(a, n) \in Values /\ Power(a, n + 1) = Times(Power(a, n), a)
    BY <2>1, PowerIs
  <2>3. Power(a, e) = Times(Power(a, n), a)
    BY <2>1, <2>2
  <2> QED BY <2>2, <2>3, TimesIs
<1> QED BY <1>1, <1>2, <1>3

LEMMA RowsAre ==
    ASSUME NEW outputrows \in Seq(OutputRows), NEW which \in BOOLEAN
    PROVE  Rows(outputrows, which) \in Seq(OutputRows)
<1>1. PICK n : n = Len(outputrows)
  OBVIOUS
<1>2. n \in Nat /\ DOMAIN outputrows = 1 .. n /\ \A k \in 1 .. n : outputrows[k] \in OutputRows
  BY <1>1
<1>3. PICK flags : flags = [r \in DOMAIN outputrows |-> outputrows[r].present]
  OBVIOUS
<1>4. flags \in [1 .. n -> BOOLEAN]
  BY <1>2, <1>3 DEF OutputRows
<1>5. PICK index : index = Indexes(flags, which)
  OBVIOUS
<1>6. index \in Seq(1 .. n)
  BY <1>2, <1>4, <1>5, IndexesAre
<1>7. Len(index) \in Nat /\ DOMAIN index = 1 .. Len(index) /\ \A c \in 1 .. Len(index) : index[c] \in 1 .. n
  BY <1>6, EntryIs
<1>8. Rows(outputrows, which) = [k \in 1 .. Len(index) |-> outputrows[index[k]]]
  BY <1>3, <1>5, <1>7 DEF Rows
<1>9. [k \in 1 .. Len(index) |-> outputrows[index[k]]] \in [1 .. Len(index) -> OutputRows]
  BY <1>2, <1>7
<1> QED BY <1>7, <1>8, <1>9, LenIs

\* The rows of the matrix: as many of the recovery blocks that are present as blocks are
\* missing, and those to be made.
Stacked(rows, a, m, b) ==
    /\ a \in Seq(OutputRows) /\ b \in Seq(OutputRows) /\ m \in Nat /\ m <= Len(a)
    /\ rows = SubSeq(a, 1, m) \o b
LEMMA RowsOfMatrix ==
    ASSUME NEW a, NEW b, NEW m, NEW rows, Stacked(rows, a, m, b)
    PROVE  /\ rows \in Seq(OutputRows) /\ Len(b) \in Nat /\ Len(rows) = m + Len(b)
           /\ \A r \in 1 .. m : rows[r] = a[r]
           /\ \A r \in 1 .. Len(b) : rows[m + r] = b[r]
           /\ \A r \in 1 .. m + Len(b) : rows[r].exponent \in 0 .. Limit
           /\ \A r \in 1 .. m : a[r].exponent \in 0 .. Limit
           /\ \A r \in 1 .. Len(b) : b[r].exponent \in 0 .. Limit
<1>0. /\ a \in Seq(OutputRows) /\ b \in Seq(OutputRows) /\ m \in Nat /\ m <= Len(a)
      /\ rows = SubSeq(a, 1, m) \o b
  BY DEF Stacked
<1>1. PICK c : c = SubSeq(a, 1, m)
  OBVIOUS
<1>2. c = [i \in 1 .. m |-> a[i]]
  <2>1. Len(c) = m /\ c \in Seq(OutputRows) /\ \A i \in 1 .. m : c[i] = a[i]
    BY ONLY <1>0, <1>1
  <2> QED BY ONLY <1>0, <2>1
<1>3. \A i \in 1 .. m : a[i] \in OutputRows
  BY <1>0
<1>4. c \in [1 .. m -> OutputRows]
  BY <1>2, <1>3
<1>5. c \in Seq(OutputRows) /\ Len(c) = m
  BY <1>0, <1>4, LenIs
<1>6. rows = c \o b
  BY <1>0, <1>1
<1>7. /\ rows \in Seq(OutputRows) /\ Len(b) \in Nat /\ Len(rows) = m + Len(b)
      /\ \A r \in 1 .. m : rows[r] = c[r]
      /\ \A r \in 1 .. Len(b) : rows[m + r] = b[r]
  <2>1. /\ c \o b \in Seq(OutputRows) /\ Len(c \o b) = Len(c) + Len(b)
        /\ \A i \in 1 .. Len(c) + Len(b) : (c \o b)[i] = IF i <= Len(c) THEN c[i] ELSE b[i - Len(c)]
    BY ONLY <1>0, <1>5, ConcatProperties
  <2>2. Len(b) \in Nat
    BY <1>0
  <2>3. \A i \in 1 .. m + Len(b) : rows[i] = IF i <= m THEN c[i] ELSE b[i - m]
    BY ONLY <1>5, <1>6, <2>1
  <2>4. \A r \in 1 .. m : r \in 1 .. m + Len(b) /\ r <= m
    BY ONLY <2>2, <1>0
  <2>5. \A r \in 1 .. Len(b) : m + r \in 1 .. m + Len(b) /\ ~(m + r <= m) /\ (m + r) - m = r
    BY ONLY <2>2, <1>0
  <2>6. \A r \in 1 .. m : rows[r] = c[r]
    BY ONLY <2>3, <2>4
  <2>7. \A r \in 1 .. Len(b) : rows[m + r] = b[r]
    <3> TAKE r \in 1 .. Len(b)
    <3>1. PICK i : i = m + r
      OBVIOUS
    <3>2. i \in 1 .. m + Len(b) /\ ~(i <= m) /\ i - m = r
      BY ONLY <2>5, <3>1, r \in 1 .. Len(b)
    <3> QED BY ONLY <2>3, <3>1, <3>2
  <2> QED BY ONLY <1>5, <1>6, <2>1, <2>2, <2>6, <2>7
<1>8. \A r \in 1 .. m + Len(b) : rows[r] \in OutputRows
  <2>1. \A r \in 1 .. Len(rows) : rows[r] \in OutputRows
    BY <1>7, EntryIs
  <2> QED BY <1>7, <2>1
<1>9. \A r \in 1 .. Len(b) : b[r] \in OutputRows
  BY <1>0, EntryIs
<1> QED BY <1>2, <1>3, <1>7, <1>8, <1>9 DEF OutputRows

\* A value of the matrix.
Entry(base, rows, dpi, dmi, n, row, col) ==
    IF col <= n
    THEN IF col <= Len(dpi) THEN Power(base[dpi[col]], rows[row].exponent)
         ELSE IF row = col - Len(dpi) THEN 1 ELSE 0
    ELSE IF col - n <= Len(dmi) THEN Power(base[dmi[col - n]], rows[row].exponent)
         ELSE IF row = col - n THEN 1 ELSE 0
RowsIn(rows, outputrows, dmi) ==
    rows = SubSeq(Rows(outputrows, TRUE), 1, Len(dmi)) \o Rows(outputrows, FALSE)
Entries(base, rows, dpi, dmi, n) ==
    [row \in 1 .. Len(rows) |-> [col \in 1 .. n + Len(rows) |-> Entry(base, rows, dpi, dmi, n, row, col)]]
LEMMA MatrixEntries ==
    ASSUME NEW base, NEW n, NEW present, NEW outputrows, NEW dpi, NEW dmi, Split(present, n, dpi, dmi),
           NEW rows, RowsIn(rows, outputrows, dmi)
    PROVE  Matrix(base, present, outputrows) = Entries(base, rows, dpi, dmi, n)
<1>1. /\ n \in Nat /\ present \in [1 .. n -> BOOLEAN]
      /\ dpi = Indexes(present, TRUE) /\ dmi = Indexes(present, FALSE)
  BY DEF Split
<1>2. Len(present) = n
  BY <1>1, LenIs
<1>3. rows = SubSeq(Rows(outputrows, TRUE), 1, Len(dmi)) \o Rows(outputrows, FALSE)
  BY DEF RowsIn
<1> QED BY <1>1, <1>2, <1>3 DEF Matrix, Entry, Entries

-----------------------------------------------------------------------------
(* Coding and decoding *)

\* What the recovery block of an exponent holds: the sum of the data blocks, each times
\* the power of its base.
Recovery(base, data, exponent, size) ==
    [k \in 1 .. size |->
       FieldSum([i \in 1 .. Len(data) |-> Times(Power(base[i], exponent), data[i][k])], Len(data))]

\* What is read: the data blocks that are present, and a recovery block for each that is
\* missing.
BlocksGiven(base, data, present, outputrows, size) ==
    LET dpi == Indexes(present, TRUE)
        used == Rows(outputrows, TRUE)
    IN  [c \in 1 .. Len(data) |->
           IF c <= Len(dpi) THEN data[dpi[c]]
           ELSE Recovery(base, data, used[c - Len(dpi)].exponent, size)]

\* What is to be made: the data blocks that are missing, and the recovery blocks that are
\* asked for.
BlocksWanted(base, data, present, outputrows, size) ==
    LET dmi == Indexes(present, FALSE)
        made == Rows(outputrows, FALSE)
    IN  [r \in 1 .. Len(dmi) + Len(made) |->
           IF r <= Len(dmi) THEN data[dmi[r]]
           ELSE Recovery(base, data, made[r - Len(dmi)].exponent, size)]

Coding(n, size, base, data, present, outputrows) ==
    /\ n \in Nat /\ size \in Nat /\ base \in [1 .. n -> Values] /\ data \in [1 .. n -> Blocks(size)]
    /\ present \in [1 .. n -> BOOLEAN] /\ outputrows \in Seq(OutputRows)

LEMMA RecoveryIs ==
    ASSUME NEW n, NEW size, NEW base, NEW data, NEW present, NEW outputrows,
           Coding(n, size, base, data, present, outputrows), NEW e \in 0 .. Limit
    PROVE  /\ Recovery(base, data, e, size) \in Blocks(size)
           /\ \A k \in 1 .. size : Recovery(base, data, e, size)[k] =
                FieldSum([i \in 1 .. n |-> Times(Power(base[i], e), data[i][k])], n)
<1>1. /\ n \in Nat /\ size \in Nat /\ base \in [1 .. n -> Values] /\ data \in [1 .. n -> Blocks(size)]
      /\ Len(data) = n
  BY LenIs DEF Coding
<1>2. \A i \in 1 .. n : Power(base[i], e) \in Values
  BY <1>1, PowerOf
<1>3. \A i \in 1 .. n : \A k \in 1 .. size : data[i][k] \in Values
  BY <1>1 DEF Blocks
<1> DEFINE sum(k) == FieldSum([i \in 1 .. n |-> Times(Power(base[i], e), data[i][k])], n)
<1>4. ASSUME NEW k \in 1 .. size PROVE sum(k) \in Values
  <2> DEFINE t == [i \in 1 .. n |-> Times(Power(base[i], e), data[i][k])]
  <2>1. Terms(t, n)
    BY <1>2, <1>3, TimesIs DEF Terms
  <2> HIDE DEF t
  <2>2. FieldSum(t, n) \in Values
    BY <1>1, <2>1, SumsAre
  <2> QED BY <2>2 DEF t
<1>5. Recovery(base, data, e, size) = [k \in 1 .. size |-> sum(k)]
  BY <1>1 DEF Recovery
<1> HIDE DEF sum
<1>6. [k \in 1 .. size |-> sum(k)] \in Blocks(size)
  BY <1>4 DEF Blocks
<1>7. \A k \in 1 .. size : Recovery(base, data, e, size)[k] = sum(k)
  BY <1>5
<1> QED BY <1>5, <1>6, <1>7 DEF sum

LEMMA SplitCounts ==
    ASSUME NEW n, NEW present, NEW dpi, NEW dmi, Split(present, n, dpi, dmi)
    PROVE  /\ Len(dpi) \in Nat /\ Len(dmi) \in Nat /\ Len(dpi) + Len(dmi) = n
           /\ \A c \in 1 .. Len(dpi) : dpi[c] \in 1 .. n
           /\ \A c \in 1 .. Len(dmi) : dmi[c] \in 1 .. n
<1> DEFINE t == [i \in 1 .. n |-> 0]
           u == [c \in 1 .. Len(dpi) |-> t[dpi[c]]]
           w == [c \in 1 .. Len(dmi) |-> t[dmi[c]]]
<1>1. /\ n \in Nat /\ present \in [1 .. n -> BOOLEAN]
      /\ dpi = Indexes(present, TRUE) /\ dmi = Indexes(present, FALSE)
  BY DEF Split
<1>2. 0 \in Values
  BY ONLY Numbers
<1>3. Terms(t, n)
  BY <1>2 DEF Terms
<1>4. Picked(u, t, dpi) /\ Picked(w, t, dmi)
  BY DEF Picked
<1> HIDE DEF t, u, w
<1>5. Len(dpi) \in Nat /\ Len(dmi) \in Nat /\ Len(dpi) + Len(dmi) = n
  BY <1>3, <1>4, SumSplit
<1>6. dpi \in Seq(1 .. n) /\ dmi \in Seq(1 .. n)
  BY <1>1, IndexesAre
<1> QED BY <1>5, <1>6, EntryIs

\* The blocks and the rows by name: d of them are present, m missing, others to be made.
Laid(n, size, base, data, present, outputrows, dpi, d, dmi, m, used, made, others, rows, R, W) ==
    /\ Coding(n, size, base, data, present, outputrows)
    /\ Split(present, n, dpi, dmi) /\ d = Len(dpi) /\ m = Len(dmi)
    /\ used = Rows(outputrows, TRUE) /\ made = Rows(outputrows, FALSE) /\ others = Len(made)
    /\ rows = SubSeq(used, 1, m) \o made /\ R = Len(rows) /\ W = n + R
    /\ Shape(d, m, others, n, R, W)

Named(outputrows, dpi, d, dmi, m, used, made) ==
    /\ d = Len(dpi) /\ m = Len(dmi)
    /\ used = Rows(outputrows, TRUE) /\ made = Rows(outputrows, FALSE)
LEMMA Laying ==
    ASSUME NEW n, NEW size, NEW base, NEW data, NEW present, NEW outputrows,
           Coding(n, size, base, data, present, outputrows),
           NEW dpi, NEW dmi, Split(present, n, dpi, dmi), NEW d, NEW m, NEW used, NEW made,
           Named(outputrows, dpi, d, dmi, m, used, made), NEW rows, Stacked(rows, used, m, made)
    PROVE  /\ Laid(n, size, base, data, present, outputrows, dpi, d, dmi, m, used, made, Len(made), rows,
                   Len(rows), n + Len(rows))
           /\ \A r \in 1 .. m : rows[r] = used[r] /\ used[r].exponent \in 0 .. Limit
           /\ \A r \in 1 .. Len(made) : rows[m + r] = made[r] /\ made[r].exponent \in 0 .. Limit
           /\ \A r \in 1 .. Len(rows) : rows[r].exponent \in 0 .. Limit
<1>0. /\ d = Len(dpi) /\ m = Len(dmi)
      /\ used = Rows(outputrows, TRUE) /\ made = Rows(outputrows, FALSE)
  BY DEF Named
<1>1. n \in Nat /\ outputrows \in Seq(OutputRows) /\ rows = SubSeq(used, 1, m) \o made
  BY DEF Coding, Stacked
<1>2. d \in Nat /\ m \in Nat /\ d + m = n
  BY <1>0, SplitCounts
<1>3. used \in Seq(OutputRows) /\ made \in Seq(OutputRows)
  BY <1>0, <1>1, RowsAre
<1>4. /\ Len(made) \in Nat /\ Len(rows) = m + Len(made)
      /\ \A r \in 1 .. m : rows[r] = used[r]
      /\ \A r \in 1 .. Len(made) : rows[m + r] = made[r]
      /\ \A r \in 1 .. m + Len(made) : rows[r].exponent \in 0 .. Limit
      /\ \A r \in 1 .. m : used[r].exponent \in 0 .. Limit
      /\ \A r \in 1 .. Len(made) : made[r].exponent \in 0 .. Limit
  <2>1. Stacked(rows, used, m, made)
    OBVIOUS
  <2> QED BY ONLY <2>1, RowsOfMatrix
<1>5. Shape(d, m, Len(made), n, Len(rows), n + Len(rows))
  <2>1. PICK others, R : others = Len(made) /\ R = Len(rows)
    OBVIOUS
  <2>2. others \in Nat /\ R = m + others
    BY ONLY <1>4, <2>1
  <2>3. R \in Nat /\ n + R \in Nat /\ n = d + m
    BY ONLY <1>1, <1>2, <2>2
  <2>4. Shape(d, m, others, n, R, n + R)
    BY ONLY <1>1, <1>2, <2>2, <2>3 DEF Shape
  <2> QED BY ONLY <2>1, <2>4
<1> QED BY <1>0, <1>1, <1>4, <1>5 DEF Laid

\* The input blocks and the output blocks.
LEMMA BlocksAre ==
    ASSUME NEW n, NEW size, NEW base, NEW data, NEW present, NEW outputrows, NEW dpi, NEW d, NEW dmi, NEW m,
           NEW used, NEW made, NEW others, NEW rows, NEW R, NEW W,
           Laid(n, size, base, data, present, outputrows, dpi, d, dmi, m, used, made, others, rows, R, W),
           \A r \in 1 .. m : used[r].exponent \in 0 .. Limit,
           \A r \in 1 .. others : made[r].exponent \in 0 .. Limit,
           NEW inputs, inputs = BlocksGiven(base, data, present, outputrows, size),
           NEW wanted, wanted = BlocksWanted(base, data, present, outputrows, size)
    PROVE  /\ inputs \in [1 .. n -> Blocks(size)] /\ wanted \in [1 .. R -> Blocks(size)]
           /\ \A c \in 1 .. d : inputs[c] = data[dpi[c]]
           /\ \A r \in 1 .. m : inputs[d + r] = Recovery(base, data, used[r].exponent, size)
           /\ \A r \in 1 .. m : wanted[r] = data[dmi[r]]
           /\ \A r \in 1 .. others : wanted[m + r] = Recovery(base, data, made[r].exponent, size)
<1>1. /\ Coding(n, size, base, data, present, outputrows) /\ Split(present, n, dpi, dmi)
      /\ d = Len(dpi) /\ m = Len(dmi) /\ used = Rows(outputrows, TRUE) /\ made = Rows(outputrows, FALSE)
      /\ others = Len(made)
  BY DEF Laid
<1>2. n \in Nat /\ d \in Nat /\ m \in Nat /\ others \in Nat /\ R \in Nat /\ n = d + m /\ R = m + others
  BY DEF Laid, Shape
<1>3. dpi = Indexes(present, TRUE) /\ dmi = Indexes(present, FALSE)
  BY <1>1 DEF Split
<1>4. Len(data) = n /\ \A i \in 1 .. n : data[i] \in Blocks(size)
  BY <1>1, LenIs DEF Coding
<1>5. (\A c \in 1 .. d : dpi[c] \in 1 .. n) /\ (\A c \in 1 .. m : dmi[c] \in 1 .. n)
  BY <1>1, SplitCounts
<1>6. /\ \A r \in 1 .. m : Recovery(base, data, used[r].exponent, size) \in Blocks(size)
      /\ \A r \in 1 .. others : Recovery(base, data, made[r].exponent, size) \in Blocks(size)
  BY <1>1, RecoveryIs
<1> DEFINE given(c) == IF c <= d THEN data[dpi[c]] ELSE Recovery(base, data, used[c - d].exponent, size)
           want(r) == IF r <= m THEN data[dmi[r]] ELSE Recovery(base, data, made[r - m].exponent, size)
<1>7. inputs = [c \in 1 .. n |-> given(c)] /\ wanted = [r \in 1 .. R |-> want(r)]
  BY <1>1, <1>2, <1>3, <1>4 DEF BlocksGiven, BlocksWanted
<1>8. /\ \A c \in 1 .. d : c \in 1 .. n /\ given(c) = data[dpi[c]]
      /\ \A r \in 1 .. m : d + r \in 1 .. n /\ given(d + r) = Recovery(base, data, used[r].exponent, size)
      /\ \A c \in 1 .. n : c \in 1 .. d \/ \E r \in 1 .. m : c = d + r
  <2>1. \A r \in 1 .. m : d + r \in 1 .. n /\ ~(d + r <= d) /\ (d + r) - d = r
    BY <1>2
  <2>2. \A c \in 1 .. n : c \in 1 .. d \/ (c - d \in 1 .. m /\ c = d + (c - d))
    BY <1>2
  <2>3. \A c \in 1 .. d : c \in 1 .. n /\ c <= d
    BY <1>2
  <2> QED BY <2>1, <2>2, <2>3
<1>9. /\ \A r \in 1 .. m : r \in 1 .. R /\ want(r) = data[dmi[r]]
      /\ \A r \in 1 .. others : m + r \in 1 .. R /\ want(m + r) = Recovery(base, data, made[r].exponent, size)
      /\ \A c \in 1 .. R : c \in 1 .. m \/ \E r \in 1 .. others : c = m + r
  <2>1. \A r \in 1 .. others : m + r \in 1 .. R /\ ~(m + r <= m) /\ (m + r) - m = r
    BY <1>2
  <2>2. \A c \in 1 .. R : c \in 1 .. m \/ (c - m \in 1 .. others /\ c = m + (c - m))
    BY <1>2
  <2>3. \A c \in 1 .. m : c \in 1 .. R /\ c <= m
    BY <1>2
  <2> QED BY <2>1, <2>2, <2>3
<1> HIDE DEF given, want
<1>10. (\A c \in 1 .. n : given(c) \in Blocks(size)) /\ (\A r \in 1 .. R : want(r) \in Blocks(size))
  BY <1>4, <1>5, <1>6, <1>8, <1>9
<1>11. inputs \in [1 .. n -> Blocks(size)] /\ wanted \in [1 .. R -> Blocks(size)]
  BY <1>7, <1>10
<1>12. (\A c \in 1 .. n : inputs[c] = given(c)) /\ (\A r \in 1 .. R : wanted[r] = want(r))
  BY <1>7
<1> QED BY <1>8, <1>9, <1>11, <1>12

\* The matrix has a value everywhere, and the right half for the blocks to be made is that
\* of the identity.
LEMMA MatrixLaid ==
    ASSUME NEW n, NEW size, NEW base, NEW data, NEW present, NEW outputrows, NEW dpi, NEW d, NEW dmi, NEW m,
           NEW used, NEW made, NEW others, NEW rows, NEW R, NEW W,
           Laid(n, size, base, data, present, outputrows, dpi, d, dmi, m, used, made, others, rows, R, W),
           \A r \in 1 .. R : rows[r].exponent \in 0 .. Limit,
           NEW a, a = Matrix(base, present, outputrows)
    PROVE  /\ Grid(a, R, W) /\ Cleared(a, R, n, m, 0)
           /\ \A r \in 1 .. R :
                /\ \A c \in 1 .. d : a[r][c] = Power(base[dpi[c]], rows[r].exponent)
                /\ \A j \in 1 .. m : a[r][d + j] = IF r = j THEN 1 ELSE 0
                /\ \A j \in 1 .. m : a[r][n + j] = Power(base[dmi[j]], rows[r].exponent)
                /\ \A j \in 1 .. others : a[r][n + (m + j)] = IF r = m + j THEN 1 ELSE 0
<1>1. /\ Coding(n, size, base, data, present, outputrows) /\ Split(present, n, dpi, dmi)
      /\ d = Len(dpi) /\ m = Len(dmi) /\ R = Len(rows)
      /\ rows = SubSeq(Rows(outputrows, TRUE), 1, Len(dmi)) \o Rows(outputrows, FALSE)
  BY DEF Laid
<1>2. /\ n \in Nat /\ d \in Nat /\ m \in Nat /\ others \in Nat /\ R \in Nat /\ W \in Nat
      /\ n = d + m /\ R = m + others /\ W = n + R
  BY DEF Laid, Shape
<1>3. /\ present \in [1 .. n -> BOOLEAN] /\ base \in [1 .. n -> Values]
      /\ dpi = Indexes(present, TRUE) /\ dmi = Indexes(present, FALSE)
  BY <1>1 DEF Coding, Split
<1> DEFINE entry(row, col) == Entry(base, rows, dpi, dmi, n, row, col)
<1>4. a = [row \in 1 .. R |-> [col \in 1 .. W |-> entry(row, col)]]
  <2>1. a = [row \in 1 .. Len(rows) |-> [col \in 1 .. n + Len(rows) |-> Entry(base, rows, dpi, dmi, n, row, col)]]
    <3>1. a = Entries(base, rows, dpi, dmi, n)
      <4>1. RowsIn(rows, outputrows, dmi)
        BY <1>1 DEF RowsIn
      <4>2. Split(present, n, dpi, dmi)
        BY <1>1
      <4>3. Matrix(base, present, outputrows) = Entries(base, rows, dpi, dmi, n)
        BY ONLY <4>1, <4>2, MatrixEntries
      <4> QED BY ONLY <4>3, a = Matrix(base, present, outputrows)
    <3> QED BY ONLY <3>1 DEF Entries
  <2> QED BY ONLY <1>1, <1>2, <2>1
<1>5. (\A c \in 1 .. d : dpi[c] \in 1 .. n) /\ (\A c \in 1 .. m : dmi[c] \in 1 .. n)
  BY <1>1, SplitCounts
<1>6. /\ 0 \in Values /\ 1 \in Values
  BY ONLY Numbers
<1>7. ASSUME NEW r \in 1 .. R
      PROVE  /\ \A c \in 1 .. d : entry(r, c) = Power(base[dpi[c]], rows[r].exponent)
             /\ \A j \in 1 .. m : entry(r, d + j) = IF r = j THEN 1 ELSE 0
             /\ \A j \in 1 .. m : entry(r, n + j) = Power(base[dmi[j]], rows[r].exponent)
             /\ \A j \in 1 .. others : entry(r, n + (m + j)) = IF r = m + j THEN 1 ELSE 0
  <2>0. \A c : entry(r, c) = IF c <= n THEN IF c <= d THEN Power(base[dpi[c]], rows[r].exponent)
                                            ELSE IF r = c - d THEN 1 ELSE 0
                             ELSE IF c - n <= m THEN Power(base[dmi[c - n]], rows[r].exponent)
                                  ELSE IF r = c - n THEN 1 ELSE 0
    BY <1>1 DEF Entry
  <2> HIDE DEF entry
  <2>1. \A c \in 1 .. d : c <= n /\ c <= d
    BY <1>2
  <2>2. \A j \in 1 .. m : d + j <= n /\ ~(d + j <= d) /\ (d + j) - d = j
    BY <1>2
  <2>3. \A j \in 1 .. m : ~(n + j <= n) /\ (n + j) - n = j /\ j <= m
    BY <1>2
  <2>4. \A j \in 1 .. others : ~(n + (m + j) <= n) /\ (n + (m + j)) - n = m + j /\ ~(m + j <= m)
    BY <1>2
  <2>5. \A c \in 1 .. d : entry(r, c) = Power(base[dpi[c]], rows[r].exponent)
    BY <2>0, <2>1
  <2>6. \A j \in 1 .. m : entry(r, d + j) = IF r = j THEN 1 ELSE 0
    BY <2>0, <2>2
  <2>7. \A j \in 1 .. m : entry(r, n + j) = Power(base[dmi[j]], rows[r].exponent)
    BY <2>0, <2>3
  <2>8. \A j \in 1 .. others : entry(r, n + (m + j)) = IF r = m + j THEN 1 ELSE 0
    BY <2>0, <2>4
  <2> QED BY <2>5, <2>6, <2>7, <2>8
<1> HIDE DEF entry
<1>8. \A c \in 1 .. W : \/ c \in 1 .. d
                        \/ \E j \in 1 .. m : c = d + j \/ c = n + j
                        \/ \E j \in 1 .. others : c = n + (m + j)
  <2> TAKE c \in 1 .. W
  <2>1. \/ c \in 1 .. d
        \/ c - d \in 1 .. m /\ c = d + (c - d)
        \/ c - n \in 1 .. m /\ c = n + (c - n)
        \/ (c - n) - m \in 1 .. others /\ c = n + (m + ((c - n) - m))
    BY <1>2
  <2> QED BY <2>1
<1>9. ASSUME NEW r \in 1 .. R, NEW c \in 1 .. W PROVE entry(r, c) \in Values
  <2>1. rows[r].exponent \in 0 .. Limit
    OBVIOUS
  <2>2. \A i \in 1 .. n : Power(base[i], rows[r].exponent) \in Values
    BY <1>3, <2>1, PowerOf
  <2>3. CASE c \in 1 .. d
    BY <1>5, <1>7, <2>2, <2>3
  <2>4. CASE \E j \in 1 .. m : c = d + j \/ c = n + j
    BY <1>5, <1>6, <1>7, <2>2, <2>4
  <2>5. CASE \E j \in 1 .. others : c = n + (m + j)
    BY <1>6, <1>7, <2>5
  <2> QED BY <1>8, <2>3, <2>4, <2>5
<1>10. Grid(a, R, W)
  BY <1>4, <1>9 DEF Grid
<1>11. /\ \A c \in 1 .. d : c \in 1 .. W
       /\ \A j \in 1 .. m : d + j \in 1 .. W /\ n + j \in 1 .. W
       /\ \A j \in 1 .. others : n + (m + j) \in 1 .. W
       /\ \A j \in 1 .. R : j > m => j - m \in 1 .. others /\ j = m + (j - m)
       /\ \A j \in 1 .. R : ~(j <= 0)
  BY <1>2
<1>12. \A r \in 1 .. R, c \in 1 .. W : a[r][c] = entry(r, c)
  BY <1>4
<1>13. \A r \in 1 .. R :
         /\ \A c \in 1 .. d : a[r][c] = Power(base[dpi[c]], rows[r].exponent)
         /\ \A j \in 1 .. m : a[r][d + j] = IF r = j THEN 1 ELSE 0
         /\ \A j \in 1 .. m : a[r][n + j] = Power(base[dmi[j]], rows[r].exponent)
         /\ \A j \in 1 .. others : a[r][n + (m + j)] = IF r = m + j THEN 1 ELSE 0
  BY <1>7, <1>11, <1>12
<1>14. Cleared(a, R, n, m, 0)
  <2> SUFFICES ASSUME NEW r \in 1 .. R, NEW j \in 1 .. R, j <= 0 \/ j > m
               PROVE  a[r][n + j] = IF r = j THEN 1 ELSE 0
    BY DEF Cleared
  <2>1. PICK i \in 1 .. others : j = m + i
    BY <1>11
  <2> QED BY <1>13, <2>1
<1> QED BY <1>10, <1>13, <1>14

\* A unit of every block: what is read and what is to be made solves the equations.
LEMMA Equations ==
    ASSUME NEW n, NEW size, NEW base, NEW data, NEW present, NEW outputrows, NEW dpi, NEW d, NEW dmi, NEW m,
           NEW used, NEW made, NEW others, NEW rows, NEW R, NEW W,
           Laid(n, size, base, data, present, outputrows, dpi, d, dmi, m, used, made, others, rows, R, W),
           \A r \in 1 .. m : rows[r] = used[r], \A r \in 1 .. others : rows[m + r] = made[r],
           \A r \in 1 .. m : used[r].exponent \in 0 .. Limit,
           \A r \in 1 .. others : made[r].exponent \in 0 .. Limit,
           \A r \in 1 .. R : rows[r].exponent \in 0 .. Limit,
           NEW inputs, inputs = BlocksGiven(base, data, present, outputrows, size),
           NEW wanted, wanted = BlocksWanted(base, data, present, outputrows, size),
           NEW a, a = Matrix(base, present, outputrows), NEW k \in 1 .. size,
           NEW z, z = [c \in 1 .. W |-> IF c <= n THEN inputs[c][k] ELSE wanted[c - n][k]]
    PROVE  z \in [1 .. W -> Values] /\ Solves(z, a, R, W)
<1>1. /\ Coding(n, size, base, data, present, outputrows) /\ Split(present, n, dpi, dmi)
      /\ d = Len(dpi) /\ m = Len(dmi) /\ Shape(d, m, others, n, R, W)
  BY DEF Laid
<1>2. /\ n \in Nat /\ d \in Nat /\ m \in Nat /\ others \in Nat /\ R \in Nat /\ W \in Nat
      /\ n = d + m /\ R = m + others /\ W = n + R
  BY <1>1 DEF Shape
<1>3. /\ present \in [1 .. n -> BOOLEAN] /\ base \in [1 .. n -> Values] /\ data \in [1 .. n -> Blocks(size)]
      /\ dpi = Indexes(present, TRUE) /\ dmi = Indexes(present, FALSE)
  BY <1>1 DEF Coding, Split
<1>4. /\ Grid(a, R, W)
      /\ \A r \in 1 .. R :
           /\ \A c \in 1 .. d : a[r][c] = Power(base[dpi[c]], rows[r].exponent)
           /\ \A j \in 1 .. m : a[r][d + j] = IF r = j THEN 1 ELSE 0
           /\ \A j \in 1 .. m : a[r][n + j] = Power(base[dmi[j]], rows[r].exponent)
           /\ \A j \in 1 .. others : a[r][n + (m + j)] = IF r = m + j THEN 1 ELSE 0
  BY MatrixLaid
<1>5. /\ inputs \in [1 .. n -> Blocks(size)] /\ wanted \in [1 .. R -> Blocks(size)]
      /\ \A c \in 1 .. d : inputs[c] = data[dpi[c]]
      /\ \A r \in 1 .. m : inputs[d + r] = Recovery(base, data, used[r].exponent, size)
      /\ \A r \in 1 .. m : wanted[r] = data[dmi[r]]
      /\ \A r \in 1 .. others : wanted[m + r] = Recovery(base, data, made[r].exponent, size)
  BY BlocksAre
<1>6. (\A c \in 1 .. d : dpi[c] \in 1 .. n) /\ (\A c \in 1 .. m : dmi[c] \in 1 .. n)
  BY <1>1, SplitCounts
<1>7. z \in [1 .. W -> Values]
  <2>1. \A c \in 1 .. W : IF c <= n THEN c \in 1 .. n ELSE c - n \in 1 .. R
    BY <1>2
  <2>2. (\A c \in 1 .. n : inputs[c][k] \in Values) /\ (\A c \in 1 .. R : wanted[c][k] \in Values)
    BY <1>5, Zenon DEF Blocks
  <2> QED BY <2>1, <2>2
<1>8. /\ \A c \in 1 .. d : z[c] = data[dpi[c]][k]
      /\ \A r \in 1 .. m : z[d + r] = Recovery(base, data, used[r].exponent, size)[k]
      /\ \A r \in 1 .. m : z[n + r] = data[dmi[r]][k]
      /\ \A r \in 1 .. others : z[n + (m + r)] = Recovery(base, data, made[r].exponent, size)[k]
  <2>0. (\A c \in 1 .. W : c <= n => z[c] = inputs[c][k]) /\ (\A c \in 1 .. W : ~(c <= n) => z[c] = wanted[c - n][k])
    OBVIOUS
  <2>1. \A c \in 1 .. d : c \in 1 .. W /\ c <= n
    BY <1>2
  <2>2. \A j \in 1 .. m : d + j \in 1 .. W /\ d + j <= n
    BY <1>2
  <2>3. \A j \in 1 .. m : n + j \in 1 .. W /\ ~(n + j <= n) /\ (n + j) - n = j
    BY <1>2
  <2>4. \A j \in 1 .. others : n + (m + j) \in 1 .. W /\ ~(n + (m + j) <= n) /\ (n + (m + j)) - n = m + j
    BY <1>2
  <2>5. \A c \in 1 .. d : z[c] = data[dpi[c]][k]
    BY ONLY <1>5, <2>0, <2>1
  <2>6. \A r \in 1 .. m : z[d + r] = Recovery(base, data, used[r].exponent, size)[k]
    BY ONLY <1>5, <2>0, <2>2
  <2>7. \A r \in 1 .. m : z[n + r] = data[dmi[r]][k]
    BY ONLY <1>5, <2>0, <2>3
  <2>8. \A r \in 1 .. others : z[n + (m + r)] = Recovery(base, data, made[r].exponent, size)[k]
    BY ONLY <1>5, <2>0, <2>4
  <2> QED BY <2>5, <2>6, <2>7, <2>8
<1>9. ASSUME NEW r \in 1 .. R PROVE Dot(a[r], z, W) = 0
  <2>1. PICK e \in 0 .. Limit : e = rows[r].exponent
    OBVIOUS
  <2> DEFINE w == [i \in 1 .. n |-> Power(base[i], e)]
             x == [i \in 1 .. n |-> data[i][k]]
             sum == FieldSum([i \in 1 .. n |-> Times(w[i], x[i])], n)
  <2>2. (\A i \in 1 .. n : w[i] = Power(base[i], e) /\ x[i] = data[i][k]) /\ Terms(w, n) /\ Terms(x, n)
    <3>1. \A i \in 1 .. n : Power(base[i], e) \in Values
      BY <1>3, <2>1, PowerOf
    <3>2. \A i \in 1 .. n : data[i][k] \in Values
      BY <1>3 DEF Blocks
    <3> QED BY <3>1, <3>2 DEF Terms
  <2>3. sum = Recovery(base, data, e, size)[k]
    <3>1. [i \in 1 .. n |-> Times(w[i], x[i])] = [i \in 1 .. n |-> Times(Power(base[i], e), data[i][k])]
      BY <2>2
    <3>2. Recovery(base, data, e, size)[k] = FieldSum([i \in 1 .. n |-> Times(Power(base[i], e), data[i][k])], n)
      BY <1>1, <2>1, RecoveryIs
    <3> QED BY <3>1, <3>2
  <2>4. Terms(a[r], W) /\ Terms(z, W)
    BY <1>4, <1>7 DEF Terms, Grid
  <2> HIDE DEF w, x
  <2>5. RowOf(a[r], z, r, w, x, dpi, d, dmi, m, n, others, sum)
    <3> HIDE DEF sum
    <3>1. \A c \in 1 .. d : a[r][c] = w[dpi[c]] /\ z[c] = x[dpi[c]]
      BY <1>4, <1>6, <1>8, <2>1, <2>2
    <3>2. \A j \in 1 .. m : a[r][d + j] = (IF r = j THEN 1 ELSE 0) /\ (r = j => z[d + j] = sum)
      <4>1. \A j \in 1 .. m : r = j => e = used[j].exponent
        BY <2>1
      <4>2. \A j \in 1 .. m : r = j => z[d + j] = sum
        BY ONLY <1>8, <2>3, <4>1
      <4>3. \A j \in 1 .. m : a[r][d + j] = IF r = j THEN 1 ELSE 0
        BY <1>4
      <4> QED BY ONLY <4>2, <4>3
    <3>3. \A j \in 1 .. m : a[r][n + j] = w[dmi[j]] /\ z[n + j] = x[dmi[j]]
      BY <1>4, <1>6, <1>8, <2>1, <2>2
    <3>4. \A j \in 1 .. others : /\ a[r][n + (m + j)] = IF r = m + j THEN 1 ELSE 0
                                 /\ r = m + j => z[n + (m + j)] = sum
      <4>1. \A j \in 1 .. others : r = m + j => e = made[j].exponent
        BY <2>1
      <4>2. \A j \in 1 .. others : r = m + j => z[n + (m + j)] = sum
        BY ONLY <1>8, <2>3, <4>1
      <4>3. \A j \in 1 .. others : a[r][n + (m + j)] = IF r = m + j THEN 1 ELSE 0
        BY <1>4
      <4> QED BY ONLY <4>2, <4>3
    <3> QED BY <3>1, <3>2, <3>3, <3>4 DEF RowOf
  <2>6. Equation(n, present, d, m, others, R, W, w, x, a[r], z, r, sum)
    BY <1>1, <1>3, <2>2, <2>4, <2>5 DEF Equation
  <2> HIDE DEF sum
  <2> QED BY ONLY <2>6, RowSolves
<1> QED BY <1>7, <1>9 DEF Solves

LEMMA Decoding ==
    ASSUME NEW n, NEW size, NEW base, NEW data, NEW present, NEW outputrows,
           Coding(n, size, base, data, present, outputrows),
           NEW matrix, matrix = Compute(base, present, outputrows), matrix # NoMatrix
    PROVE  Outputs(matrix, BlocksGiven(base, data, present, outputrows, size), size)
             = BlocksWanted(base, data, present, outputrows, size)
<1>1. PICK dpi, dmi : Split(present, n, dpi, dmi)
  BY DEF Coding, Split
<1>2. PICK d, m : d = Len(dpi) /\ m = Len(dmi)
  OBVIOUS
<1>3. PICK used, made : used = Rows(outputrows, TRUE) /\ made = Rows(outputrows, FALSE)
  OBVIOUS
<1>4. PICK rows : rows = SubSeq(used, 1, m) \o made
  OBVIOUS
<1>5. PICK others, R, W : others = Len(made) /\ R = Len(rows) /\ W = n + R
  OBVIOUS
<1>6. n \in Nat /\ size \in Nat /\ Len(present) = n /\ dmi = Indexes(present, FALSE)
  <2>1. n \in Nat /\ present \in [1 .. n -> BOOLEAN] /\ size \in Nat /\ dmi = Indexes(present, FALSE)
    BY <1>1 DEF Coding, Split
  <2> QED BY <2>1, LenIs
<1>7. PICK a : a = Matrix(base, present, outputrows)
  OBVIOUS
<1>8. PICK solved : solved = GaussElim(a, m, n)
  OBVIOUS
<1>9. /\ ~(m > Len(used))
      /\ matrix = [row \in DOMAIN solved |-> SubSeq(solved[row], 1, n)]
  BY <1>2, <1>3, <1>6, <1>7, <1>8 DEF Compute
<1>10. solved # NoMatrix
  <2> SUFFICES ASSUME solved = NoMatrix PROVE FALSE
    OBVIOUS
  <2>1. DOMAIN solved = {}
    BY DEF NoMatrix
  <2>2. matrix = << >>
    BY <1>9, <2>1
  <2> QED BY <2>2 DEF NoMatrix
<1>11. m \in Nat /\ m <= Len(used)
  <2>1. m \in Nat
    BY <1>1, <1>2, SplitCounts
  <2>2. used \in Seq(OutputRows)
    BY <1>3, RowsAre DEF Coding
  <2>3. Len(used) \in Nat
    BY <2>2, EntryIs
  <2> QED BY <1>9, <2>1, <2>3
<1>12. /\ Laid(n, size, base, data, present, outputrows, dpi, d, dmi, m, used, made, others, rows, R, W)
       /\ \A r \in 1 .. m : rows[r] = used[r] /\ used[r].exponent \in 0 .. Limit
       /\ \A r \in 1 .. others : rows[m + r] = made[r] /\ made[r].exponent \in 0 .. Limit
       /\ \A r \in 1 .. R : rows[r].exponent \in 0 .. Limit
  <2>1. PICK o, l : o = Len(made) /\ l = Len(rows)
    OBVIOUS
  <2>2. /\ Laid(n, size, base, data, present, outputrows, dpi, d, dmi, m, used, made, o, rows, l, n + l)
        /\ \A r \in 1 .. m : rows[r] = used[r] /\ used[r].exponent \in 0 .. Limit
        /\ \A r \in 1 .. o : rows[m + r] = made[r] /\ made[r].exponent \in 0 .. Limit
        /\ \A r \in 1 .. l : rows[r].exponent \in 0 .. Limit
    <3>1. Stacked(rows, used, m, made)
      <4>1. used \in Seq(OutputRows) /\ made \in Seq(OutputRows)
        BY <1>3, RowsAre DEF Coding
      <4> QED BY <1>4, <1>11, <4>1 DEF Stacked
    <3>2. Coding(n, size, base, data, present, outputrows)
      OBVIOUS
    <3>3. Named(outputrows, dpi, d, dmi, m, used, made)
      BY <1>2, <1>3 DEF Named
    <3> QED BY ONLY <1>1, <2>1, <3>1, <3>2, <3>3, Laying
  <2>3. o = others /\ l = R /\ n + l = W
    BY ONLY <1>5, <2>1
  <2> QED BY ONLY <2>2, <2>3
<1>13. /\ n \in Nat /\ m \in Nat /\ others \in Nat /\ R \in Nat /\ W \in Nat /\ R = m + others /\ W = n + R
  BY <1>12 DEF Laid, Shape
<1>14. Grid(a, R, W) /\ Cleared(a, R, n, m, 0)
  BY <1>7, <1>12, MatrixLaid
<1>15. /\ Grid(solved, R, W) /\ Cleared(solved, R, n, m, m)
       /\ \A z \in [1 .. W -> Values] : Solves(z, a, R, W) => Solves(z, solved, R, W)
  <2>1. m <= R
    BY <1>13
  <2> QED BY <1>8, <1>10, <1>13, <1>14, <2>1, GaussElimIs
<1>16. PICK inputs, wanted : /\ inputs = BlocksGiven(base, data, present, outputrows, size)
                             /\ wanted = BlocksWanted(base, data, present, outputrows, size)
  OBVIOUS
<1>17. inputs \in [1 .. n -> Blocks(size)] /\ wanted \in [1 .. R -> Blocks(size)]
  BY <1>12, <1>16, BlocksAre
<1>18. DOMAIN solved = 1 .. R /\ \A r \in 1 .. R : solved[r] \in [1 .. W -> Values]
  BY <1>15 DEF Grid
<1>19. /\ DOMAIN matrix = 1 .. R
       /\ \A r \in 1 .. R : Terms(matrix[r], n) /\ \A c \in 1 .. n : matrix[r][c] = solved[r][c]
  <2>1. DOMAIN matrix = 1 .. R /\ \A r \in 1 .. R : matrix[r] = SubSeq(solved[r], 1, n)
    BY <1>9, <1>18
  <2> SUFFICES ASSUME NEW r \in 1 .. R
               PROVE  Terms(matrix[r], n) /\ \A c \in 1 .. n : matrix[r][c] = solved[r][c]
    BY <2>1
  <2>2. PICK s : s = solved[r] /\ s \in [1 .. W -> Values] /\ matrix[r] = SubSeq(s, 1, n)
    BY <1>18, <2>1
  <2>3. s \in Seq(Values) /\ Len(s) = W /\ n <= W
    BY ONLY <1>13, <2>2, LenIs
  <2>4. PICK t : t = SubSeq(s, 1, n)
    OBVIOUS
  <2>5. Len(t) = n /\ t \in Seq(Values) /\ \A c \in 1 .. n : t[c] = s[c] /\ s[c] \in Values
    BY ONLY <1>13, <2>3, <2>4
  <2> QED BY <2>2, <2>4, <2>5 DEF Terms
<1>20. ASSUME NEW r \in 1 .. R PROVE OutputOf(matrix[r], inputs, size) = wanted[r]
  <2>1. PICK f : f = matrix[r]
    OBVIOUS
  <2>2. Terms(f, n) /\ \A c \in 1 .. n : f[c] = solved[r][c]
    BY <1>19, <2>1
  <2>3. PICK out : out = OutputOf(f, inputs, size)
    OBVIOUS
  <2>4. /\ out \in Blocks(size)
        /\ \A k \in 1 .. size : out[k] = FieldSum([i \in 1 .. n |-> Times(f[i], inputs[i][k])], n)
    BY <1>6, <1>17, <2>2, <2>3, OutputIs
  <2>5. ASSUME NEW k \in 1 .. size PROVE out[k] = wanted[r][k]
    <3> DEFINE z == [c \in 1 .. W |-> IF c <= n THEN inputs[c][k] ELSE wanted[c - n][k]]
    <3>1. z \in [1 .. W -> Values] /\ Solves(z, a, R, W)
      BY <1>7, <1>12, <1>16, Equations
    <3>2. (\A c \in 1 .. n : c \in 1 .. W /\ z[c] = inputs[c][k]) /\ z[n + r] = wanted[r][k]
      <4>1. \A c \in 1 .. n : c \in 1 .. W /\ c <= n
        BY <1>13
      <4>2. n + r \in 1 .. W /\ ~(n + r <= n) /\ (n + r) - n = r
        BY <1>13
      <4> QED BY <4>1, <4>2
    <3> HIDE DEF z
    <3>3. Dot(solved[r], z, W) = 0
      BY <1>15, <3>1 DEF Solves
    <3>4. \A j \in 1 .. R : solved[r][n + j] = IF r = j THEN 1 ELSE 0
      <4>1. \A j \in 1 .. R : j <= m \/ j > m
        BY <1>13
      <4> QED BY <1>15, <4>1 DEF Cleared
    <3>5. FieldSum([c \in 1 .. n |-> Times(solved[r][c], z[c])], n) = z[n + r]
      <4>1. PICK row \in [1 .. W -> Values] : row = solved[r]
        BY <1>18
      <4>2. Dot(row, z, W) = 0 /\ \A j \in 1 .. R : row[n + j] = IF r = j THEN 1 ELSE 0
        BY <3>3, <3>4, <4>1
      <4>3. Solved(R, n, W, row, z, r)
        BY <1>13, <3>1, <4>2 DEF Solved, Terms
      <4>4. Dot(row, z, n) = z[n + r]
        BY ONLY <4>3, ReadOff
      <4> QED BY <4>1, <4>4 DEF Dot
    <3>6. [c \in 1 .. n |-> Times(solved[r][c], z[c])] = [i \in 1 .. n |-> Times(f[i], inputs[i][k])]
      BY <2>2, <3>2
    <3> QED BY <2>4, <3>2, <3>5, <3>6
  <2>6. wanted[r] \in Blocks(size)
    BY <1>17
  <2>7. out = wanted[r]
    <3>1. PICK w : w = wanted[r]
      OBVIOUS
    <3>2. w \in [1 .. size -> Values] /\ out \in [1 .. size -> Values] /\ \A k \in 1 .. size : out[k] = w[k]
      BY <2>4, <2>5, <2>6, <3>1 DEF Blocks
    <3>3. w = [k \in 1 .. size |-> w[k]] /\ out = [k \in 1 .. size |-> out[k]]
      BY ONLY <3>2
    <3>4. [k \in 1 .. size |-> w[k]] = [k \in 1 .. size |-> out[k]]
      BY ONLY <3>2
    <3> QED BY ONLY <3>1, <3>3, <3>4
  <2> QED BY <2>1, <2>3, <2>7
<1>21. Outputs(matrix, inputs, size) = [r \in 1 .. R |-> OutputOf(matrix[r], inputs, size)]
  BY <1>19 DEF Outputs
<1>22. [r \in 1 .. R |-> OutputOf(matrix[r], inputs, size)] = [r \in 1 .. R |-> wanted[r]]
  BY <1>20
<1>23. wanted = [r \in 1 .. R |-> wanted[r]]
  BY <1>17
<1> QED BY ONLY <1>16, <1>21, <1>22, <1>23

\* Whatever data blocks are missing: if the matrix can be computed, what is made from the
\* data blocks that are present and as many recovery blocks as are missing is, unit by unit,
\* the missing data blocks, and the recovery blocks that were asked for.
\* reedsolomon.h:229-547, reedsolomon.cpp:486-600.
THEOREM Decodes ==
    ASSUME NEW n \in Nat, NEW size \in Nat, NEW base \in [1 .. n -> Values],
           NEW data \in [1 .. n -> Blocks(size)], NEW present \in [1 .. n -> BOOLEAN],
           NEW outputrows \in Seq(OutputRows), Compute(base, present, outputrows) # NoMatrix
    PROVE  Outputs(Compute(base, present, outputrows),
                   BlocksGiven(base, data, present, outputrows, size), size)
             = BlocksWanted(base, data, present, outputrows, size)
<1>1. Coding(n, size, base, data, present, outputrows)
  BY DEF Coding
<1>2. PICK matrix : matrix = Compute(base, present, outputrows)
  OBVIOUS
<1> QED BY <1>1, <1>2, Decoding

\* All of the blocks are present, or are missing.
Uniform(present, n, which, not) ==
    /\ n \in Nat /\ which \in BOOLEAN /\ not \in BOOLEAN /\ which # not
    /\ present \in [1 .. n -> BOOLEAN] /\ \A k \in 1 .. n : present[k] = which
CountingUp(n) == [i \in 1 .. n |-> i]
LEMMA AllListed ==
    ASSUME NEW n, NEW present, NEW which, NEW not, Uniform(present, n, which, not)
    PROVE  /\ Indexes(present, which) = CountingUp(n) /\ Len(Indexes(present, which)) = n
           /\ Indexes(present, not) = << >> /\ Len(Indexes(present, not)) = 0
<1>0. /\ n \in Nat /\ which \in BOOLEAN /\ not \in BOOLEAN /\ which # not
      /\ present \in [1 .. n -> BOOLEAN] /\ \A k \in 1 .. n : present[k] = which
  BY DEF Uniform
<1>a. PICK index : index = Indexes(present, which)
  OBVIOUS
<1>b. PICK other : other = Indexes(present, not)
  OBVIOUS
<1>1. index \in Seq(1 .. n) /\ Tallying(index, present, which, n)
  BY ONLY <1>0, <1>a, IndexesAre
<1>2. other \in Seq(1 .. n) /\ \A c \in 1 .. Len(other) : present[other[c]] = not
  BY ONLY <1>0, <1>b, IndexesAre
<1>3. PICK count \in [0 .. n -> 0 .. Len(index)] : Tallied(count, index, present, which, n)
  BY <1>1 DEF Tallying
<1>4. /\ count[0] = 0 /\ count[n] = Len(index)
      /\ \A k \in 1 .. n : count[k] = count[k - 1] + 1 /\ index[count[k]] = k
  BY <1>0, <1>3 DEF Tallied
<1> DEFINE T == {k \in Nat : k <= n => count[k] = k}
<1>5. 0 \in T
  BY <1>4
<1>6. ASSUME NEW k \in Nat, k \in T PROVE k + 1 \in T
  <2> SUFFICES ASSUME k + 1 <= n PROVE count[k + 1] = k + 1
    OBVIOUS
  <2>1. PICK e \in 1 .. n : e = k + 1 /\ e - 1 = k
    BY <1>0
  <2>2. count[k] = k
    BY <1>0, <1>6
  <2>3. count[e] = count[e - 1] + 1
    BY <1>4
  <2> QED BY <2>1, <2>2, <2>3
<1> HIDE DEF T
<1>7. \A k \in 0 .. n : count[k] = k
  <2>1. Nat \subseteq T
    BY <1>5, <1>6, Induct
  <2> QED BY <2>1 DEF T
<1>8. Len(index) = n /\ \A k \in 1 .. n : index[k] = k
  <2>1. n \in 0 .. n /\ \A k \in 1 .. n : k \in 0 .. n
    BY <1>0
  <2> QED BY <1>4, <1>7, <2>1
<1>9. index = CountingUp(n)
  <2>1. DOMAIN index = 1 .. n
    BY <1>1, <1>8, EntryIs
  <2>2. index = [i \in DOMAIN index |-> index[i]]
    <3>1. index \in Seq(1 .. n)
      BY <1>1
    <3> QED BY ONLY <3>1
  <2> QED BY ONLY <1>8, <2>1, <2>2 DEF CountingUp
<1>10. Len(other) = 0 /\ other = << >>
  <2>1. Len(other) \in Nat /\ \A c \in 1 .. Len(other) : other[c] \in 1 .. n
    BY <1>2, EntryIs
  <2>2. Len(other) = 0
    <3> SUFFICES ASSUME Len(other) # 0 PROVE FALSE
      OBVIOUS
    <3>1. 1 \in 1 .. Len(other)
      BY <2>1
    <3>2. other[1] \in 1 .. n /\ present[other[1]] = not
      BY <1>2, <2>1, <3>1
    <3> QED BY <1>0, <3>2
  <2> QED BY <1>2, <2>2
<1> QED BY <1>a, <1>b, <1>8, <1>9, <1>10

\* The matrix of a creation, and what it is to make.
Encoding(n, size, base, data, count, first) ==
    /\ n \in Nat /\ size \in Nat /\ base \in [1 .. n -> Values] /\ data \in [1 .. n -> Blocks(size)]
    /\ count \in Nat \ {0} /\ first \in Nat /\ first + count - 1 <= Limit
EncodingMatrix(n, base, count, first) ==
    Compute(base, [i \in 1 .. n |-> TRUE], [i \in 1 .. count |-> OutputRow(FALSE, first + i - 1)])
RecoveryBlocks(base, data, count, first, size) ==
    [i \in 1 .. count |-> Recovery(base, data, first + i - 1, size)]
LEMMA EncodingIs ==
    ASSUME NEW n, NEW size, NEW base, NEW data, NEW count, NEW first, Encoding(n, size, base, data, count, first)
    PROVE  Outputs(EncodingMatrix(n, base, count, first), data, size)
             = RecoveryBlocks(base, data, count, first, size)
<1> SUFFICES ASSUME n \in Nat, size \in Nat, base \in [1 .. n -> Values], data \in [1 .. n -> Blocks(size)],
                    count \in Nat \ {0}, first \in Nat, first + count - 1 <= Limit
             PROVE  Outputs(Compute(base, [i \in 1 .. n |-> TRUE],
                                    [i \in 1 .. count |-> OutputRow(FALSE, first + i - 1)]), data, size)
                      = [i \in 1 .. count |-> Recovery(base, data, first + i - 1, size)]
  BY DEF Encoding, EncodingMatrix, RecoveryBlocks
<1>1. PICK present : present = [i \in 1 .. n |-> TRUE]
  OBVIOUS
<1>2. PICK outputrows : outputrows = [i \in 1 .. count |-> OutputRow(FALSE, first + i - 1)]
  OBVIOUS
<1>3. Limit \in Nat
  BY ONLY Numbers
<1>4. \A i \in 1 .. count : OutputRow(FALSE, first + i - 1) \in OutputRows
  <2>1. \A i \in 1 .. count : first + i - 1 \in 0 .. Limit
    BY <1>3
  <2> QED BY <2>1 DEF OutputRow, OutputRows
<1>5. outputrows \in Seq(OutputRows) /\ Len(outputrows) = count /\ DOMAIN outputrows = 1 .. count
  <2>1. outputrows \in [1 .. count -> OutputRows]
    BY <1>2, <1>4
  <2> QED BY <2>1, LenIs
<1>6. PICK dpi, dmi : dpi = Indexes(present, TRUE) /\ dmi = Indexes(present, FALSE)
  OBVIOUS
<1>7. dpi = [i \in 1 .. n |-> i] /\ Len(dpi) = n /\ dmi = << >> /\ Len(dmi) = 0
  <2>1. Uniform(present, n, TRUE, FALSE)
    BY <1>1 DEF Uniform
  <2>2. PICK which, not : which = TRUE /\ not = FALSE /\ Uniform(present, n, which, not)
    BY <2>1
  <2>5. dpi = CountingUp(n) /\ dmi = << >>
    <3>1. dpi = Indexes(present, which) /\ dmi = Indexes(present, not)
      BY <1>6, <2>2
    <3>2. Indexes(present, which) = CountingUp(n) /\ Indexes(present, not) = << >>
      <4>1. Uniform(present, n, which, not)
        BY <2>2
      <4> QED BY ONLY <4>1, AllListed
    <3> QED BY <3>1, <3>2
  <2>3. CountingUp(n) \in [1 .. n -> Nat]
    BY DEF CountingUp
  <2>4. Len(dpi) = n
    BY <2>3, <2>5, LenIs
  <2> QED BY <2>4, <2>5 DEF CountingUp
<1>8. PICK used, made : used = Rows(outputrows, TRUE) /\ made = Rows(outputrows, FALSE)
  OBVIOUS
<1>9. used = << >> /\ Len(used) = 0 /\ made = outputrows
  <2>1. PICK flags : flags = [r \in DOMAIN outputrows |-> outputrows[r].present]
    OBVIOUS
  <2>2. flags = [i \in 1 .. count |-> FALSE]
    BY <1>2, <2>1 DEF OutputRow
  <2>3. PICK index, other : index = Indexes(flags, FALSE) /\ other = Indexes(flags, TRUE)
    OBVIOUS
  <2>4. index = [i \in 1 .. count |-> i] /\ other = << >>
    <3>1. Uniform(flags, count, FALSE, TRUE)
      BY <2>2 DEF Uniform
    <3>2. index = CountingUp(count) /\ other = << >>
      BY ONLY <2>3, <3>1, AllListed
    <3> QED BY <3>2 DEF CountingUp
  <2>5. made = [k \in DOMAIN index |-> outputrows[index[k]]]
    BY <1>8, <2>1, <2>3 DEF Rows
  <2>6. used = [k \in DOMAIN other |-> outputrows[other[k]]]
    BY <1>8, <2>1, <2>3 DEF Rows
  <2>7. made = [k \in 1 .. count |-> outputrows[k]]
    BY <2>4, <2>5
  <2>8. outputrows = [k \in 1 .. count |-> outputrows[k]]
    BY <1>2
  <2>9. DOMAIN other = {}
    BY <2>4
  <2>10. used = << >>
    BY <2>6, <2>9
  <2> QED BY <2>7, <2>8, <2>10
<1>10. Coding(n, size, base, data, present, outputrows)
  BY <1>1, <1>5 DEF Coding
<1>11. Len(present) = n /\ Len(data) = n
  BY <1>1, LenIs
<1>12. PICK matrix : matrix = Compute(base, present, outputrows)
  OBVIOUS
<1>13. matrix # NoMatrix
  <2>1. PICK a, solved : a = Matrix(base, present, outputrows) /\ solved = GaussElim(a, 0, n)
    OBVIOUS
  <2>2. solved = a
    <3> DEFINE g == [row \in 0 .. 0 |-> a]
               s == CHOOSE f : f = GaussBody(f, a, 0, n)
    <3>1. g = GaussBody(g, a, 0, n)
      BY DEF GaussBody
    <3> HIDE DEF g
    <3>2. s = GaussBody(s, a, 0, n)
      BY <3>1
    <3>3. GaussElim(a, 0, n) = s[0]
      BY DEF GaussElim, GaussBody
    <3> HIDE DEF s
    <3>4. s[0] = a
      BY <3>2 DEF GaussBody
    <3> QED BY <2>1, <3>3, <3>4
  <2>3. PICK rows : rows = SubSeq(used, 1, 0) \o made
    OBVIOUS
  <2>4. Len(rows) = count
    <3>1. Stacked(rows, used, 0, made)
      BY <1>5, <1>9, <2>3 DEF Stacked
    <3>2. Len(rows) = 0 + Len(made)
      BY ONLY <3>1, RowsOfMatrix
    <3> QED BY <1>5, <1>9, <3>2
  <2>5. a = Entries(base, rows, dpi, dmi, n)
    <3>1. Split(present, n, dpi, dmi)
      BY <1>1, <1>6 DEF Split
    <3>2. RowsIn(rows, outputrows, dmi)
      BY <1>7, <1>8, <2>3 DEF RowsIn
    <3>3. Matrix(base, present, outputrows) = Entries(base, rows, dpi, dmi, n)
      BY ONLY <3>1, <3>2, MatrixEntries
    <3> QED BY ONLY <2>1, <3>3
  <2>6. DOMAIN a = 1 .. count
    BY <2>4, <2>5 DEF Entries
  <2>7. 1 \in DOMAIN a
    BY <2>6
  <2>8. a # << >>
    BY <2>7
  <2>9. matrix = [row \in DOMAIN a |-> SubSeq(a[row], 1, n)]
    <3>1. PICK m, u : m = Len(dmi) /\ u = Len(used)
      OBVIOUS
    <3>2. m = 0 /\ u = 0 /\ ~(m > u)
      BY <1>7, <1>9, <3>1
    <3>3. GaussElim(a, m, n) = a
      BY <2>1, <2>2, <3>2
    <3>4. matrix = IF m > u \/ a = << >> THEN NoMatrix
                   ELSE [row \in DOMAIN GaussElim(a, m, n) |-> SubSeq(GaussElim(a, m, n)[row], 1, n)]
      BY <1>6, <1>8, <1>11, <1>12, <2>1, <3>1 DEF Compute
    <3> QED BY ONLY <2>8, <3>2, <3>3, <3>4
  <2>10. 1 \in DOMAIN matrix
    BY <2>7, <2>9
  <2> QED BY <2>10 DEF NoMatrix
<1>14. Outputs(matrix, BlocksGiven(base, data, present, outputrows, size), size)
         = BlocksWanted(base, data, present, outputrows, size)
  BY <1>10, <1>12, <1>13, Decoding
<1>15. BlocksGiven(base, data, present, outputrows, size) = data
  <2>1. \A c \in 1 .. n : c <= Len(dpi) /\ dpi[c] = c
    BY <1>7
  <2>2. BlocksGiven(base, data, present, outputrows, size) =
          [c \in 1 .. n |-> IF c <= Len(dpi) THEN data[dpi[c]]
                            ELSE Recovery(base, data, used[c - Len(dpi)].exponent, size)]
    BY <1>6, <1>8, <1>11 DEF BlocksGiven
  <2>3. BlocksGiven(base, data, present, outputrows, size) = [c \in 1 .. n |-> data[c]]
    BY ONLY <2>1, <2>2
  <2> QED BY <2>3
<1>16. BlocksWanted(base, data, present, outputrows, size)
         = [i \in 1 .. count |-> Recovery(base, data, first + i - 1, size)]
  <2>1. BlocksWanted(base, data, present, outputrows, size)
          = [r \in 1 .. count |-> Recovery(base, data, outputrows[r].exponent, size)]
    <3>1. BlocksWanted(base, data, present, outputrows, size) =
            [r \in 1 .. Len(dmi) + Len(made) |->
               IF r <= Len(dmi) THEN data[dmi[r]]
               ELSE Recovery(base, data, made[r - Len(dmi)].exponent, size)]
      BY <1>6, <1>8 DEF BlocksWanted
    <3>2. Len(dmi) + Len(made) = count /\ \A r \in 1 .. count : ~(r <= Len(dmi)) /\ r - Len(dmi) = r
      BY <1>5, <1>7, <1>9
    <3> QED BY ONLY <1>9, <3>1, <3>2
  <2>2. \A r \in 1 .. count : outputrows[r].exponent = first + r - 1
    BY <1>2 DEF OutputRow
  <2> QED BY <2>1, <2>2
<1> QED BY <1>1, <1>2, <1>12, <1>14, <1>15, <1>16

\* What creation makes of the source blocks is the recovery blocks of the exponents it was
\* given, each the sum of the source blocks, times the powers of their bases: no matter how
\* many blocks there are, the matrix can always be computed.
\* par2creator.cpp:1288-1306, reedsolomon.h:229-547, reedsolomon.cpp:486-600.
THEOREM Encodes ==
    ASSUME NEW n \in Nat, NEW size \in Nat, NEW base \in [1 .. n -> Values],
           NEW data \in [1 .. n -> Blocks(size)], NEW count \in Nat \ {0}, NEW first \in Nat,
           first + count - 1 <= Limit
    PROVE  Outputs(Compute(base, [i \in 1 .. n |-> TRUE],
                           [i \in 1 .. count |-> OutputRow(FALSE, first + i - 1)]), data, size)
             = [i \in 1 .. count |-> Recovery(base, data, first + i - 1, size)]
<1>1. Encoding(n, size, base, data, count, first)
  BY DEF Encoding
<1>2. Outputs(EncodingMatrix(n, base, count, first), data, size) = RecoveryBlocks(base, data, count, first, size)
  BY ONLY <1>1, EncodingIs
<1> QED BY <1>2 DEF EncodingMatrix, RecoveryBlocks

-----------------------------------------------------------------------------
(* Lists *)

IsList(list) == list \in Seq(ToSet(list))

\* ToSet, DOMAIN and Len of a list.
LEMMA ListFacts ==
    ASSUME NEW l, IsList(l)
    PROVE  /\ Len(l) \in Nat /\ DOMAIN l = 1 .. Len(l) /\ l = [i \in 1 .. Len(l) |-> l[i]]
           /\ \A i \in DOMAIN l : l[i] \in ToSet(l)
           /\ IsFiniteSet(DOMAIN l) /\ Cardinality(DOMAIN l) = Len(l)
<1>1. l \in Seq(ToSet(l))
  BY DEF IsList
<1>2. Len(l) \in Nat /\ DOMAIN l = 1 .. Len(l) /\ l = [i \in 1 .. Len(l) |-> l[i]]
  BY <1>1, LenProperties, ElementOfSeq
<1>3. \A i \in DOMAIN l : l[i] \in ToSet(l)
  BY DEF ToSet
<1>4. \A n \in Nat : IsFiniteSet(1 .. n) /\ Cardinality(1 .. n) = n
  <2> TAKE n \in Nat
  <2>1. 1 \in Int /\ n \in Int
    OBVIOUS
  <2>2. IsFiniteSet(1 .. n) /\ Cardinality(1 .. n) = IF 1 > n THEN 0 ELSE n - 1 + 1
    BY ONLY <2>1, FS_Interval
  <2> QED BY <2>2
<1> QED BY <1>2, <1>3, <1>4

\* What is a list.
LEMMA ListOf ==
    ASSUME NEW n \in Nat, NEW l, l = [i \in 1 .. n |-> l[i]]
    PROVE  IsList(l) /\ Len(l) = n /\ DOMAIN l = 1 .. n
<1>1. DOMAIN l = 1 .. n
  OBVIOUS
<1>2. \A i \in 1 .. n : l[i] \in ToSet(l)
  BY <1>1 DEF ToSet
<1>3. l \in Seq(ToSet(l))
  <2> DEFINE T == ToSet(l)
  <2>1. \A i \in 1 .. n : l[i] \in T
    BY <1>2
  <2> HIDE DEF T
  <2>2. l \in [1 .. n -> T]
    BY <2>1
  <2>3. l \in Seq(T)
    BY <2>2
  <2> QED BY <2>3 DEF T
<1>4. Len(l) = n
  BY <1>1, <1>3, LenProperties
<1> QED BY <1>1, <1>3, <1>4 DEF IsList

-----------------------------------------------------------------------------
(* Sums *)

\* The sums of the first k numbers.
Sums(f, numbers, n) ==
    f[0] = 0 /\ \A k \in 1 .. n : f[k - 1] \in Int /\ f[k] \in Int /\ f[k] = f[k - 1] + numbers[k]

LEMMA TotalIs ==
    ASSUME NEW n \in Nat, NEW numbers \in [1 .. n -> Int]
    PROVE  \E f \in [0 .. n -> Int] : Sums(f, numbers, n) /\ Total(numbers) = f[n]
<1> DEFINE F == [p \in (1 .. n) \X Int |-> p[2] + numbers[p[1]]]
           Sum(g) == [k \in 0 .. n |-> IF k = 0 THEN 0 ELSE g[k - 1] + numbers[k]]
           sum == CHOOSE g : g = Sum(g)
<1>1. Steps(F, Int, n)
  BY DEF Steps
<1>2. PICK f \in [0 .. n -> Int] : f[0] = 0 /\ \A k \in 1 .. n : f[k] = F[<<k, f[k - 1]>>]
  <2> HIDE DEF F
  <2>1. 0 \in Int
    OBVIOUS
  <2>2. \E f : Follows(f, F, Int, 0, n)
    BY <1>1, <2>1, Recursion
  <2> QED BY <2>2 DEF Follows
<1>3. \A k \in 1 .. n : k - 1 \in 0 .. n /\ k \in 0 .. n
  OBVIOUS
<1>4. \A k \in 1 .. n : f[k - 1] \in Int /\ f[k] \in Int /\ f[k] = f[k - 1] + numbers[k]
  BY <1>2, <1>3
<1>5. f = Sum(f)
  <2>1. \A k \in 0 .. n : f[k] = IF k = 0 THEN 0 ELSE f[k - 1] + numbers[k]
    <3> TAKE k \in 0 .. n
    <3>1. k = 0 \/ k \in 1 .. n
      OBVIOUS
    <3> QED BY <3>1, <1>2, <1>4
  <2> QED BY <2>1
<1>6. sum = Sum(sum)
  <2> HIDE DEF Sum
  <2> QED BY <1>5
<1>7. Len(numbers) = n
  <2>1. numbers = [i \in 1 .. n |-> numbers[i]]
    OBVIOUS
  <2> QED BY <2>1, ListOf
<1>8. Total(numbers) = sum[n]
  BY <1>7 DEF Total
<1>9. sum \in [0 .. n -> Int] /\ Sums(sum, numbers, n)
  <2>1. DOMAIN sum = 0 .. n /\ \A k \in 0 .. n : sum[k] = IF k = 0 THEN 0 ELSE sum[k - 1] + numbers[k]
    <3> HIDE DEF sum
    <3> QED BY <1>6
  <2> HIDE DEF sum
  <2> DEFINE T == {k \in Nat : k <= n => sum[k] \in Int}
  <2>2. 0 \in T
    BY <2>1
  <2>3. ASSUME NEW k \in Nat, k \in T PROVE k + 1 \in T
    <3> SUFFICES ASSUME k + 1 <= n PROVE sum[k + 1] \in Int
      OBVIOUS
    <3>1. k + 1 \in 0 .. n /\ k + 1 # 0 /\ (k + 1) - 1 = k /\ k <= n /\ k + 1 \in 1 .. n
      OBVIOUS
    <3>2. sum[k + 1] = sum[k] + numbers[k + 1] /\ sum[k] \in Int /\ numbers[k + 1] \in Int
      BY <3>1, <2>1, <2>3
    <3> QED BY <3>2
  <2> HIDE DEF T
  <2>4. Nat \subseteq T
    BY <2>2, <2>3, Induct
  <2>5. \A k \in 0 .. n : sum[k] \in Int
    BY <2>4 DEF T
  <2>6. \A k \in 1 .. n : k # 0
    OBVIOUS
  <2>7. sum = [k \in 0 .. n |-> sum[k]]
    BY <1>6 DEF Sum
  <2>8. sum \in [0 .. n -> Int]
    BY <2>5, <2>7
  <2>9. 0 \in 0 .. n
    OBVIOUS
  <2> QED BY <2>1, <2>5, <2>6, <2>8, <2>9, <1>3 DEF Sums
<1> HIDE DEF sum
<1> QED BY <1>8, <1>9

\* Something that is 0 and gains what a number gains.
LEMMA SumsSame ==
    ASSUME NEW n \in Nat, NEW a, NEW b, \A k \in 1 .. n : a[k] = b[k],
           NEW f, Sums(f, a, n), NEW g, Sums(g, b, n), NEW k \in 0 .. n
    PROVE  f[k] = g[k]
<1> DEFINE T == {m \in Nat : m <= n => f[m] = g[m]}
<1>1. 0 \in T
  BY DEF Sums
<1>2. ASSUME NEW m \in Nat, m \in T PROVE m + 1 \in T
  <2> SUFFICES ASSUME m + 1 <= n PROVE f[m + 1] = g[m + 1]
    OBVIOUS
  <2>1. m + 1 \in 1 .. n /\ (m + 1) - 1 = m /\ m <= n
    OBVIOUS
  <2>2. f[m + 1] = f[m] + a[m + 1] /\ g[m + 1] = g[m] + b[m + 1] /\ a[m + 1] = b[m + 1]
    BY <2>1 DEF Sums
  <2> QED BY <1>2, <2>1, <2>2
<1> HIDE DEF T
<1>3. k \in T
  BY <1>1, <1>2, Induct
<1> QED BY <1>3 DEF T

\* A list of numbers that are not negative.
LEMMA TotalNat ==
    ASSUME NEW n \in Nat, NEW numbers \in [1 .. n -> Nat]
    PROVE  Total(numbers) \in Nat
<1>1. PICK f \in [0 .. n -> Int] : Sums(f, numbers, n) /\ Total(numbers) = f[n]
  <2>1. numbers \in [1 .. n -> Int]
    OBVIOUS
  <2> QED BY <2>1, TotalIs
<1> DEFINE T == {m \in Nat : m <= n => f[m] \in Nat}
<1>2. 0 \in T
  BY <1>1 DEF Sums
<1>3. ASSUME NEW m \in Nat, m \in T PROVE m + 1 \in T
  <2> SUFFICES ASSUME m + 1 <= n PROVE f[m + 1] \in Nat
    OBVIOUS
  <2>1. m + 1 \in 1 .. n /\ (m + 1) - 1 = m /\ m <= n
    OBVIOUS
  <2>2. f[m + 1] = f[m] + numbers[m + 1] /\ numbers[m + 1] \in Nat
    BY <1>1, <2>1 DEF Sums
  <2> QED BY <1>3, <2>1, <2>2
<1> HIDE DEF T
<1>4. n \in T
  BY <1>2, <1>3, Induct
<1> QED BY <1>1, <1>4 DEF T

\* As many as there are.
LEMMA TotalOnes ==
    ASSUME NEW n \in Nat, NEW numbers \in [1 .. n -> Int], \A k \in 1 .. n : numbers[k] = 1
    PROVE  Total(numbers) = n
<1>1. PICK f \in [0 .. n -> Int] : Sums(f, numbers, n) /\ Total(numbers) = f[n]
  BY TotalIs
<1> DEFINE T == {m \in Nat : m <= n => f[m] = m}
<1>2. 0 \in T
  BY <1>1 DEF Sums
<1>3. ASSUME NEW m \in Nat, m \in T PROVE m + 1 \in T
  <2> SUFFICES ASSUME m + 1 <= n PROVE f[m + 1] = m + 1
    OBVIOUS
  <2>1. m + 1 \in 1 .. n /\ (m + 1) - 1 = m /\ m <= n
    OBVIOUS
  <2>2. f[m + 1] = f[m] + numbers[m + 1] /\ numbers[m + 1] = 1
    BY <1>1, <2>1 DEF Sums
  <2> QED BY <1>3, <2>1, <2>2
<1> HIDE DEF T
<1>4. n \in T
  BY <1>2, <1>3, Induct
<1> QED BY <1>1, <1>4 DEF T

LEMMA TotalSame ==
    ASSUME NEW n \in Nat, NEW a \in [1 .. n -> Int], NEW b \in [1 .. n -> Int], \A k \in 1 .. n : a[k] = b[k]
    PROVE  Total(a) = Total(b)
<1>1. a = b
  OBVIOUS
<1> QED BY <1>1

\* The number at j is taken out.
Without(a, j, n) == [i \in 1 .. n - 1 |-> IF i < j THEN a[i] ELSE a[i + 1]]
LEMMA TotalWithout ==
    ASSUME NEW n \in Nat, n > 0, NEW a \in [1 .. n -> Int], NEW j \in 1 .. n
    PROVE  Without(a, j, n) \in [1 .. n - 1 -> Int] /\ Total(a) = Total(Without(a, j, n)) + a[j]
<1> DEFINE b == Without(a, j, n)
<1>1. /\ b \in [1 .. n - 1 -> Int] /\ n - 1 \in Nat
      /\ \A i \in 1 .. n - 1 : b[i] = IF i < j THEN a[i] ELSE a[i + 1]
  BY DEF Without
<1> HIDE DEF b
<1>2. PICK f \in [0 .. n -> Int] : Sums(f, a, n) /\ Total(a) = f[n]
  BY TotalIs
<1>3. PICK g \in [0 .. n - 1 -> Int] : Sums(g, b, n - 1) /\ Total(b) = g[n - 1]
  BY <1>1, TotalIs
<1> DEFINE T == {m \in Nat : m <= n => IF m < j THEN g[m] = f[m] ELSE f[m] = g[m - 1] + a[j]}
<1>4. 0 \in T
  BY <1>2, <1>3 DEF Sums
<1>5. ASSUME NEW m \in Nat, m \in T PROVE m + 1 \in T
  <2> SUFFICES ASSUME m + 1 <= n
               PROVE  IF m + 1 < j THEN g[m + 1] = f[m + 1] ELSE f[m + 1] = g[m] + a[j]
    OBVIOUS
  <2>1. m + 1 \in 1 .. n /\ (m + 1) - 1 = m /\ m <= n
    OBVIOUS
  <2>2. f[m + 1] = f[m] + a[m + 1] /\ f[m] \in Int /\ f[m + 1] \in Int
    BY <1>2, <2>1 DEF Sums
  <2>3. a[m + 1] \in Int /\ a[j] \in Int
    BY <2>1
  <2>4. CASE m + 1 < j
    <3>1. m + 1 \in 1 .. n - 1 /\ m < j
      BY <2>4
    <3>2. g[m + 1] = g[m] + b[m + 1] /\ b[m + 1] = a[m + 1]
      BY <1>1, <1>3, <2>1, <2>4, <3>1 DEF Sums
    <3> QED BY <1>5, <2>1, <2>2, <2>4, <3>1, <3>2
  <2>5. CASE m + 1 = j
    <3>1. m < j /\ ~(m + 1 < j)
      BY <2>5
    <3>2. g[m] = f[m]
      BY <1>5, <2>1, <3>1
    <3> QED BY <2>2, <2>5, <3>1, <3>2
  <2>6. CASE m + 1 > j
    <3>1. m \in 1 .. n - 1 /\ ~(m < j)
      BY <2>1, <2>6
    <3>2. g[m] = g[m - 1] + b[m] /\ b[m] = a[m + 1] /\ g[m - 1] \in Int
      BY <1>1, <1>3, <3>1 DEF Sums
    <3> QED BY <1>5, <2>1, <2>2, <2>3, <2>6, <3>1, <3>2
  <2> QED BY <2>4, <2>5, <2>6
<1> HIDE DEF T
<1>6. n \in T
  BY <1>4, <1>5, Induct
<1>7. f[n] = g[n - 1] + a[j]
  BY <1>6 DEF T
<1> QED BY <1>1, <1>2, <1>3, <1>7 DEF b

\* Where a number is when the gap at j is closed.
Closed(u, j) == IF u < j THEN u ELSE u - 1
LEMMA ClosedIs ==
    ASSUME NEW j \in Int, NEW u \in Int, NEW v \in Int, u # j, v # j, Closed(u, j) = Closed(v, j)
    PROVE  u = v
BY DEF Closed

\* The same numbers in another order.
Shuffled(a, b, p, n) ==
    /\ a \in [1 .. n -> Int] /\ b \in [1 .. n -> Int] /\ p \in [1 .. n -> 1 .. n]
    /\ \A i, j \in 1 .. n : p[i] = p[j] => i = j
    /\ \A i \in 1 .. n : b[i] = a[p[i]]
LEMMA TotalShuffled ==
    ASSUME NEW n \in Nat, NEW a, NEW b, NEW p, Shuffled(a, b, p, n)
    PROVE  Total(a) = Total(b)
<1> DEFINE T == {m \in Nat : \A x, y, q : Shuffled(x, y, q, m) => Total(x) = Total(y)}
<1>1. 0 \in T
  <2> SUFFICES ASSUME NEW x, NEW y, NEW q, Shuffled(x, y, q, 0) PROVE Total(x) = Total(y)
    OBVIOUS
  <2>1. x \in [1 .. 0 -> Int] /\ y \in [1 .. 0 -> Int] /\ 1 .. 0 = {}
    BY DEF Shuffled
  <2>2. x = y
    BY <2>1
  <2> QED BY <2>2
<1>2. ASSUME NEW m \in Nat, m \in T PROVE m + 1 \in T
  <2> SUFFICES ASSUME NEW x, NEW y, NEW q, Shuffled(x, y, q, m + 1) PROVE Total(x) = Total(y)
    OBVIOUS
  <2>1. /\ x \in [1 .. m + 1 -> Int] /\ y \in [1 .. m + 1 -> Int] /\ q \in [1 .. m + 1 -> 1 .. m + 1]
        /\ \A i, k \in 1 .. m + 1 : q[i] = q[k] => i = k
        /\ \A i \in 1 .. m + 1 : y[i] = x[q[i]]
    BY DEF Shuffled
  <2> DEFINE j == q[m + 1]
             x2 == Without(x, j, m + 1)
             y2 == Without(y, m + 1, m + 1)
             q2 == [i \in 1 .. m |-> IF q[i] < j THEN q[i] ELSE q[i] - 1]
  <2>2. j \in 1 .. m + 1 /\ m + 1 \in 1 .. m + 1 /\ m + 1 > 0 /\ m + 1 \in Nat /\ y[m + 1] = x[j]
    BY <2>1
  <2> DEFINE N == m + 1
  <2>3. x2 \in [1 .. (m + 1) - 1 -> Int] /\ Total(x) = Total(x2) + x[j]
    <3>1. N \in Nat /\ N > 0 /\ x \in [1 .. N -> Int] /\ j \in 1 .. N
      BY <2>1, <2>2
    <3> HIDE DEF j, N
    <3>2. Without(x, j, N) \in [1 .. N - 1 -> Int] /\ Total(x) = Total(Without(x, j, N)) + x[j]
      BY <3>1, TotalWithout
    <3> QED BY <3>2 DEF N
  <2>4. y2 \in [1 .. (m + 1) - 1 -> Int] /\ Total(y) = Total(y2) + y[m + 1]
    <3>1. N \in Nat /\ N > 0 /\ y \in [1 .. N -> Int] /\ N \in 1 .. N
      BY <2>1, <2>2
    <3> HIDE DEF N
    <3>2. Without(y, N, N) \in [1 .. N - 1 -> Int] /\ Total(y) = Total(Without(y, N, N)) + y[N]
      BY <3>1, TotalWithout
    <3> QED BY <3>2 DEF N
  <2>5. (m + 1) - 1 = m
    OBVIOUS
  <2>6. \A i \in 1 .. m : i \in 1 .. m + 1 /\ q[i] \in 1 .. m + 1 /\ q[i] # j
    BY <2>1, <2>2
  <2>7. \A i \in 1 .. m : x2[i] = (IF i < j THEN x[i] ELSE x[i + 1]) /\ y2[i] = y[i]
    <3>1. \A i \in 1 .. m : i < m + 1
      OBVIOUS
    <3> HIDE DEF j
    <3> QED BY <2>5, <3>1 DEF Without
  <2> HIDE DEF j, x2, y2
  <2>8. q2 \in [1 .. m -> 1 .. m] /\ \A i \in 1 .. m : q2[i] = IF q[i] < j THEN q[i] ELSE q[i] - 1
    BY <2>2, <2>6
  <2> HIDE DEF q2
  <2>9. ASSUME NEW i \in 1 .. m, NEW k \in 1 .. m, q2[i] = q2[k] PROVE i = k
    <3>1. q[i] \in 1 .. m + 1 /\ q[k] \in 1 .. m + 1 /\ q[i] # j /\ q[k] # j
      BY <2>6
    <3>2. q2[i] = (IF q[i] < j THEN q[i] ELSE q[i] - 1) /\ q2[k] = IF q[k] < j THEN q[k] ELSE q[k] - 1
      BY <2>8
    <3>3. q2[i] = Closed(q[i], j) /\ q2[k] = Closed(q[k], j)
      BY <3>2 DEF Closed
    <3>4. q[i] \in Int /\ q[k] \in Int /\ j \in Int
      BY <2>2, <3>1
    <3>5. q[i] = q[k]
      BY <2>9, <3>1, <3>3, <3>4, ClosedIs
    <3> QED BY <2>1, <2>6, <3>5
  <2>10. ASSUME NEW i \in 1 .. m PROVE y2[i] = x2[q2[i]]
    <3>1. q[i] \in 1 .. m + 1 /\ q[i] # j /\ y2[i] = x[q[i]] /\ q2[i] \in 1 .. m
      BY <2>1, <2>6, <2>7, <2>8
    <3>2. CASE q[i] < j
      BY <2>7, <2>8, <3>1, <3>2
    <3>3. CASE ~(q[i] < j)
      <4>1. q2[i] = q[i] - 1 /\ ~(q2[i] < j) /\ q2[i] + 1 = q[i]
        BY <2>2, <2>8, <3>1, <3>3
      <4> QED BY <2>7, <3>1, <4>1
    <3> QED BY <3>2, <3>3
  <2>11. Shuffled(x2, y2, q2, m)
    BY <2>3, <2>4, <2>5, <2>8, <2>9, <2>10 DEF Shuffled
  <2>12. Total(x2) = Total(y2)
    BY <1>2, <2>11
  <2> QED BY <2>2, <2>3, <2>4, <2>12
<1> HIDE DEF T
<1>3. n \in T
  BY <1>1, <1>2, Induct
<1> QED BY <1>3 DEF T

\* A finite set of natural numbers has a greatest one.
LEMMA Greatest ==
    ASSUME NEW S \in SUBSET Nat, IsFiniteSet(S), S # {}
    PROVE  \E x \in S : \A y \in S : y <= x
<1> DEFINE T == {n \in Nat : \A U \in SUBSET Nat : IsFiniteSet(U) /\ U # {} /\ Cardinality(U) = n =>
                                \E x \in U : \A y \in U : y <= x}
<1>1. 0 \in T
  BY FS_EmptySet
<1>2. ASSUME NEW n \in Nat, n \in T PROVE n + 1 \in T
  <2> SUFFICES ASSUME NEW U \in SUBSET Nat, IsFiniteSet(U), U # {}, Cardinality(U) = n + 1
               PROVE  \E x \in U : \A y \in U : y <= x
    OBVIOUS
  <2>1. PICK a \in U : TRUE
    OBVIOUS
  <2> DEFINE W == U \ {a}
  <2>2. IsFiniteSet(W) /\ Cardinality(W) = n
    <3>1. IsFiniteSet(W) /\ Cardinality(W) = Cardinality(U) - 1
      BY <2>1, FS_RemoveElement
    <3> QED BY <3>1
  <2>3. CASE W = {}
    BY <2>1, <2>3
  <2>4. CASE W # {}
    <3>1. PICK b \in W : \A y \in W : y <= b
      BY <1>2, <2>2, <2>4
    <3>2. a \in Nat /\ b \in Nat /\ \A y \in U : y = a \/ y \in W
      OBVIOUS
    <3>3. CASE a <= b
      BY <3>1, <3>2, <3>3
    <3>4. CASE b < a
      <4>1. \A y \in W : y <= a
        <5> TAKE y \in W
        <5>1. y \in Nat /\ y <= b
          BY <3>1
        <5> QED BY <3>2, <3>4, <5>1
      <4> QED BY <3>2, <4>1
    <3> QED BY <3>2, <3>3, <3>4
  <2> QED BY <2>3, <2>4
<1>3. Cardinality(S) \in Nat
  BY FS_CardinalityType
<1> HIDE DEF T
<1>4. Cardinality(S) \in T
  BY <1>1, <1>2, <1>3, Induct
<1> QED BY <1>4 DEF T

\* A list has finitely many entries.
LEMMA SetIsFinite ==
    ASSUME NEW l, IsList(l)
    PROVE  IsFiniteSet(ToSet(l)) /\ Cardinality(ToSet(l)) <= Len(l)
<1> DEFINE S == DOMAIN l
           T == ToSet(l)
<1>1. IsFiniteSet(S) /\ Cardinality(S) = Len(l)
  BY ListFacts
<1>2. PICK f : f = [i \in S |-> l[i]]
  OBVIOUS
<1>3. f \in [S -> T] /\ \A t \in T : \E i \in S : f[i] = t
  BY <1>2 DEF ToSet
<1>4. f \in Surjection(S, T)
  BY <1>3 DEF Surjection
<1> HIDE DEF S, T
<1>5. IsFiniteSet(T) /\ Cardinality(T) <= Cardinality(S)
  BY <1>1, <1>4, FS_Surjection
<1> QED BY <1>1, <1>5 DEF T

-----------------------------------------------------------------------------
(* How many blocks *)

LEMMA CeilIs ==
    ASSUME NEW a \in Nat, NEW b \in Nat, b > 0
    PROVE  CeilDiv(a, b) \in Nat /\ a <= b * CeilDiv(a, b) /\ b * CeilDiv(a, b) < a + b
<1>1. CeilDiv(a, b) = (a + b - 1) \div b /\ a + b - 1 \in Nat
  BY DEF CeilDiv
<1>2. \A x, y \in Nat : y > 0 => x \div y \in Nat /\ y * (x \div y) <= x /\ x < y * (x \div y) + y
  OBVIOUS
<1>3. PICK q \in Nat : q = (a + b - 1) \div b /\ b * q <= a + b - 1 /\ a + b - 1 < b * q + b
  BY <1>1, <1>2
<1>4. b * q \in Int
  OBVIOUS
<1> QED BY <1>1, <1>3, <1>4

LEMMA CeilOnly ==
    ASSUME NEW a \in Nat, NEW b \in Nat, b > 0, NEW q \in Int, a <= b * q, b * q < a + b
    PROVE  q = CeilDiv(a, b)
<1>1. PICK r \in Nat : r = CeilDiv(a, b)
  BY CeilIs
<1>2. a <= b * r /\ b * r < a + b
  BY <1>1, CeilIs
<1>3. b * q \in Int /\ b * r \in Int
  OBVIOUS
<1>4. b * q < b * r + b /\ b * r < b * q + b
  BY <1>2, <1>3
<1>5. \A y \in Nat, u, v \in Int : y * u < y * v + y /\ y * v < y * u + y => u = v
  OBVIOUS
<1> QED BY <1>1, <1>4, <1>5

\* 4 cells make a quad, and b quads a block of 4 * b cells.
LEMMA CeilTwice ==
    ASSUME NEW s \in Nat, NEW b \in Nat, b > 0
    PROVE  CeilDiv(s, 4 * b) = CeilDiv(CeilDiv(s, 4), b)
<1>1. PICK q \in Nat : q = CeilDiv(s, 4) /\ s <= 4 * q /\ 4 * q < s + 4
  <2>1. 4 \in Nat /\ 4 > 0
    OBVIOUS
  <2>2. CeilDiv(s, 4) \in Nat /\ s <= 4 * CeilDiv(s, 4) /\ 4 * CeilDiv(s, 4) < s + 4
    BY ONLY <2>1, s \in Nat, CeilIs
  <2> QED BY <2>2
<1>2. PICK r \in Nat : r = CeilDiv(q, b) /\ q <= b * r /\ b * r < q + b
  BY CeilIs
<1>3. PICK w \in Nat : w = b * r
  OBVIOUS
<1>4. (4 * b) * r = 4 * w /\ 4 * b \in Nat /\ 4 * b > 0
  BY <1>3
<1>5. s <= 4 * w /\ 4 * w < s + 4 * b
  BY <1>1, <1>2, <1>3
<1>6. r = CeilDiv(s, 4 * b)
  BY <1>4, <1>5, CeilOnly
<1> QED BY <1>1, <1>2, <1>6

LEMMA CeilOne ==
    ASSUME NEW q \in Nat, NEW b \in Nat, 0 < q, q <= b
    PROVE  CeilDiv(q, b) = 1
<1>1. q <= b * 1 /\ b * 1 < q + b /\ b > 0
  OBVIOUS
<1> QED BY <1>1, CeilOnly

\* The numbers of blocks of the files.
Counts(sizes, blocksize) == [i \in DOMAIN sizes |-> CeilDiv(sizes[i], blocksize)]
LEMMA CountsAre ==
    ASSUME NEW n \in Nat, NEW sizes \in [1 .. n -> Nat], NEW b \in Nat, b > 0
    PROVE  /\ Counts(sizes, b) \in [1 .. n -> Nat] /\ CountOf(sizes, b) = Total(Counts(sizes, b))
           /\ CountOf(sizes, b) \in Nat
           /\ \A i \in 1 .. n : Counts(sizes, b)[i] = CeilDiv(sizes[i], b)
<1>1. \A i \in 1 .. n : CeilDiv(sizes[i], b) \in Nat
  BY CeilIs
<1>2. Counts(sizes, b) \in [1 .. n -> Nat] /\ CountOf(sizes, b) = Total(Counts(sizes, b))
      /\ \A i \in 1 .. n : Counts(sizes, b)[i] = CeilDiv(sizes[i], b)
  BY <1>1 DEF Counts, CountOf
<1>3. Total(Counts(sizes, b)) \in Nat
  <2> DEFINE c == Counts(sizes, b)
  <2>1. c \in [1 .. n -> Nat]
    BY <1>2
  <2> HIDE DEF c
  <2>2. Total(c) \in Nat
    BY <2>1, TotalNat
  <2> QED BY <2>2 DEF c
<1> QED BY <1>2, <1>3

\* The number of blocks of b quads is that of blocks of 4 * b cells.
LEMMA CountTwice ==
    ASSUME NEW n \in Nat, NEW sizes \in [1 .. n -> Nat], NEW quads \in [1 .. n -> Nat],
           \A i \in 1 .. n : quads[i] = CeilDiv(sizes[i], 4), NEW b \in Nat, b > 0
    PROVE  CountOf(sizes, 4 * b) = CountOf(quads, b)
<1> DEFINE x == Counts(sizes, 4 * b)
           y == Counts(quads, b)
<1>1. 4 * b \in Nat /\ 4 * b > 0
  OBVIOUS
<1>2. x \in [1 .. n -> Nat] /\ CountOf(sizes, 4 * b) = Total(x) /\ \A i \in 1 .. n : x[i] = CeilDiv(sizes[i], 4 * b)
  BY <1>1, CountsAre
<1>3. y \in [1 .. n -> Nat] /\ CountOf(quads, b) = Total(y) /\ \A i \in 1 .. n : y[i] = CeilDiv(quads[i], b)
  BY CountsAre
<1>4. \A i \in 1 .. n : x[i] = y[i]
  <2> HIDE DEF x, y
  <2> QED BY <1>2, <1>3, CeilTwice
<1> HIDE DEF x, y
<1>5. x = y
  BY <1>2, <1>3, <1>4
<1> QED BY <1>2, <1>3, <1>5

\* The binary search looks at sizes above 0 only.
Bounds == {b \in Nat \X Nat : b[1] > 0 /\ b[2] > 0}
LEMMA ProbesAre ==
    ASSUME NEW n \in Nat, NEW sizes \in [1 .. n -> Nat], NEW wanted \in Nat, wanted > n, wanted <= Total(sizes)
    PROVE  /\ IsList(Probes(sizes, wanted)) /\ 1 \in DOMAIN Probes(sizes, wanted)
           /\ \A i \in DOMAIN Probes(sizes, wanted) : Probes(sizes, wanted)[i] \in Nat \ {0}
<1> DEFINE total == Total(sizes)
           lower == total \div wanted
           upper == CeilDiv(total, wanted - Len(sizes))
           middle(b) == (b[1] + b[2]) \div 2
           Next1(b) == IF CountOf(sizes, middle(b)) > wanted THEN <<middle(b), b[2]>> ELSE <<b[1], middle(b)>>
           Eq(g) == [k \in 0 .. upper |-> IF k = 0 THEN <<lower, upper>> ELSE Next1(g[k - 1])]
           bounds == CHOOSE g : g = Eq(g)
           turns == {k \in 1 .. upper : bounds[k - 1][1] + 1 < bounds[k - 1][2]}
           rest == [k \in 1 .. Cardinality(turns) |-> middle(bounds[k - 1])]
<1>1. total \in Nat /\ Len(sizes) = n
  <2>1. sizes = [i \in 1 .. n |-> sizes[i]]
    OBVIOUS
  <2> QED BY <2>1, ListOf, TotalNat
<1>2. lower \in Nat \ {0}
  <2>1. \A x, y \in Nat : y > 0 /\ y <= x => x \div y \in Nat /\ x < y * (x \div y) + y
    OBVIOUS
  <2>0. wanted <= total
    OBVIOUS
  <2>2. PICK q \in Nat : q = lower /\ total < wanted * q + wanted
    <3> HIDE DEF total
    <3> QED BY <1>1, <2>0, <2>1
  <2>3. \A y \in Nat : y * 0 = 0
    OBVIOUS
  <2> HIDE DEF total, lower
  <2>4. q # 0
    BY <1>1, <2>0, <2>2, <2>3
  <2> QED BY <2>2, <2>4
<1>3. upper \in Nat \ {0}
  <2> DEFINE d == wanted - Len(sizes)
  <2>1. d \in Nat /\ d > 0 /\ total > 0
    BY <1>1
  <2> HIDE DEF d, total
  <2>2. CeilDiv(total, d) \in Nat /\ total <= d * CeilDiv(total, d)
    BY <1>1, <2>1, CeilIs
  <2>3. CeilDiv(total, d) # 0
    <3>1. \A y \in Nat : y * 0 = 0
      OBVIOUS
    <3> QED BY <1>1, <2>1, <2>2, <3>1
  <2> QED BY <2>2, <2>3 DEF d
<1> HIDE DEF lower, upper, total
<1>4. \A b \in Bounds : middle(b) \in Nat \ {0} /\ Next1(b) \in Bounds
  <2> TAKE b \in Bounds
  <2>1. b[1] \in Nat /\ b[2] \in Nat /\ b[1] > 0 /\ b[2] > 0 /\ b = <<b[1], b[2]>>
    BY DEF Bounds
  <2>2. \A x, y \in Nat : x > 0 /\ y > 0 => (x + y) \div 2 \in Nat /\ (x + y) \div 2 > 0
    OBVIOUS
  <2>3. middle(b) \in Nat /\ middle(b) > 0
    BY <2>1, <2>2
  <2> HIDE DEF middle
  <2> QED BY <2>1, <2>3 DEF Bounds
<1>5. bounds = Eq(bounds)
  <2> DEFINE F == [p \in (1 .. upper) \X Bounds |-> Next1(p[2])]
             start == <<lower, upper>>
  <2>1. Steps(F, Bounds, upper)
    <3> HIDE DEF Next1
    <3> QED BY <1>4 DEF Steps
  <2>2. start \in Bounds /\ upper \in Nat
    BY <1>2, <1>3 DEF Bounds
  <2>3. PICK f : Follows(f, F, Bounds, start, upper)
    <3> HIDE DEF F, start
    <3> QED BY <2>1, <2>2, Recursion
  <2>4. f \in [0 .. upper -> Bounds] /\ f[0] = start /\ \A k \in 1 .. upper : f[k] = F[<<k, f[k - 1]>>]
    BY <2>3 DEF Follows
  <2>5. \A k \in 0 .. upper : f[k] = IF k = 0 THEN start ELSE Next1(f[k - 1])
    <3> TAKE k \in 0 .. upper
    <3>1. CASE k = 0
      BY <3>1, <2>4
    <3>2. CASE k # 0
      <4>1. k \in 1 .. upper /\ k - 1 \in 0 .. upper
        BY <3>2, <2>2
      <4>2. f[k - 1] \in Bounds
        BY <2>4, <4>1
      <4> HIDE DEF Next1
      <4>3. F[<<k, f[k - 1]>>] = Next1(f[k - 1])
        BY <4>1, <4>2
      <4> HIDE DEF F
      <4> QED BY <3>2, <4>1, <4>3, <2>4
    <3> QED BY <3>1, <3>2
  <2>6. f = Eq(f)
    <3> HIDE DEF Next1
    <3> QED BY <2>4, <2>5
  <2> HIDE DEF Eq
  <2> QED BY <2>6
<1>6. \A k \in 0 .. upper : bounds[k] = IF k = 0 THEN <<lower, upper>> ELSE Next1(bounds[k - 1])
  <2> HIDE DEF bounds, Next1
  <2> QED BY <1>5
<1> HIDE DEF bounds, Next1
<1>7. \A k \in 0 .. upper : bounds[k] \in Bounds
  <2> DEFINE T == {k \in Nat : k <= upper => bounds[k] \in Bounds}
  <2>1. 0 \in T
    BY <1>2, <1>3, <1>6 DEF Bounds
  <2>2. ASSUME NEW k \in Nat, k \in T PROVE k + 1 \in T
    <3> SUFFICES ASSUME k + 1 <= upper PROVE bounds[k + 1] \in Bounds
      OBVIOUS
    <3>1. k + 1 \in 0 .. upper /\ k + 1 # 0 /\ (k + 1) - 1 = k /\ k <= upper
      BY <1>3
    <3> QED BY <1>4, <1>6, <2>2, <3>1
  <2> HIDE DEF T
  <2>3. Nat \subseteq T
    BY <2>1, <2>2, Induct
  <2> QED BY <2>3, <1>3 DEF T
<1>8. Cardinality(turns) \in Nat /\ Cardinality(turns) <= upper
  <2>1. turns \in SUBSET (1 .. upper) /\ 1 \in Int /\ upper \in Int
    BY <1>3
  <2> HIDE DEF turns
  <2>2. IsFiniteSet(1 .. upper) /\ Cardinality(1 .. upper) = upper
    <3>1. IsFiniteSet(1 .. upper) /\ Cardinality(1 .. upper) = IF 1 > upper THEN 0 ELSE upper - 1 + 1
      BY ONLY <2>1, FS_Interval
    <3> QED BY <3>1, <1>3
  <2>3. IsFiniteSet(turns) /\ Cardinality(turns) <= upper
    BY <2>1, <2>2, FS_Subset, Zenon
  <2>4. Cardinality(turns) \in Nat
    BY <2>3, FS_CardinalityType
  <2> QED BY <2>3, <2>4
<1>9. PICK m \in Nat : m = Cardinality(turns) /\ m <= upper
  BY <1>8
<1> HIDE DEF turns
<1>10. rest \in [1 .. m -> Nat \ {0}] /\ rest \in Seq(Nat \ {0}) /\ Len(rest) = m
  <2>1. \A k \in 1 .. m : k - 1 \in 0 .. upper
    BY <1>3, <1>9
  <2>2. \A k \in 1 .. m : middle(bounds[k - 1]) \in Nat \ {0}
    BY <1>4, <1>7, <2>1
  <2> DEFINE q == [k \in 1 .. m |-> middle(bounds[k - 1])]
  <2> HIDE DEF middle
  <2>3. q \in [1 .. m -> Nat \ {0}]
    BY <2>2
  <2>4. rest = q
    BY <1>9
  <2> HIDE DEF q, rest
  <2>5. q \in Seq(Nat \ {0}) /\ Len(q) = m
    BY <2>3, LenProperties
  <2> QED BY <2>3, <2>4, <2>5
<1>11. Probes(sizes, wanted) = <<lower, upper>> \o rest
  BY DEF Probes, bounds, turns, Next1, lower, upper, total
<1>12. PICK two \in Seq(Nat \ {0}) : two = <<lower, upper>> /\ Len(two) = 2
  <2>1. \A x, y \in Nat \ {0} : <<x, y>> \in Seq(Nat \ {0}) /\ Len(<<x, y>>) = 2
    OBVIOUS
  <2> QED BY <1>2, <1>3, <2>1
<1> DEFINE all == two \o rest
<1>13. all \in Seq(Nat \ {0}) /\ Len(all) = 2 + m
  <2> HIDE DEF rest
  <2> QED BY <1>10, <1>12, ConcatProperties
<1> HIDE DEF all
<1>14. all = [i \in 1 .. 2 + m |-> all[i]] /\ \A i \in 1 .. 2 + m : all[i] \in Nat \ {0}
  BY <1>13, LenProperties, ElementOfSeq
<1>15. IsList(all) /\ DOMAIN all = 1 .. 2 + m /\ 1 \in 1 .. 2 + m
  BY <1>14, ListOf
<1>16. Probes(sizes, wanted) = all
  BY <1>11, <1>12 DEF all
<1> QED BY <1>14, <1>15, <1>16

\* So the best is above 0.
LEMMA BestIs ==
    ASSUME NEW n \in Nat, NEW sizes \in [1 .. n -> Nat], NEW wanted \in Nat, wanted > n, wanted <= Total(sizes)
    PROVE  BestSize(sizes, wanted) \in Nat \ {0}
<1>1. PICK probes : probes = Probes(sizes, wanted)
  OBVIOUS
<1>2. IsList(probes) /\ 1 \in DOMAIN probes /\ \A i \in DOMAIN probes : probes[i] \in Nat \ {0}
  BY <1>1, ProbesAre
<1>3. DOMAIN probes \subseteq Nat
  BY <1>2, ListFacts
<1>4. \A i \in DOMAIN probes : Distance(sizes, wanted, probes[i]) \in Nat
  <2> TAKE i \in DOMAIN probes
  <2>1. CountOf(sizes, probes[i]) \in Nat
    BY <1>2, CountsAre
  <2> QED BY <2>1 DEF Distance
<1> DEFINE D == {Distance(sizes, wanted, probes[i]) : i \in DOMAIN probes}
<1>5. D \in SUBSET Nat /\ D # {}
  BY <1>2, <1>4
<1>6. PICK least \in D : \A d \in D : least <= d
  <2> HIDE DEF D
  <2> QED BY <1>5, Least
<1> DEFINE W == {i \in DOMAIN probes : Distance(sizes, wanted, probes[i]) = least}
<1>7. W \in SUBSET Nat /\ W # {}
  BY <1>3, <1>6
<1>8. PICK i \in W : \A j \in W : i <= j
  <2> HIDE DEF W
  <2> QED BY <1>7, Least
<1>9. Closest(sizes, wanted, probes, i)
  <2> SUFFICES ASSUME NEW j \in DOMAIN probes
               PROVE  /\ Distance(sizes, wanted, probes[i]) <= Distance(sizes, wanted, probes[j])
                      /\ j < i => Distance(sizes, wanted, probes[i]) < Distance(sizes, wanted, probes[j])
    BY DEF Closest
  <2>1. least <= Distance(sizes, wanted, probes[j]) /\ Distance(sizes, wanted, probes[i]) = least
    BY <1>6, <1>8
  <2>2. Distance(sizes, wanted, probes[j]) = least => i <= j
    BY <1>8
  <2>3. i \in Nat /\ j \in Nat /\ Distance(sizes, wanted, probes[j]) \in Nat /\ least \in Nat
    BY <1>3, <1>4, <1>5, <1>7
  <2> QED BY <2>1, <2>2, <2>3
<1>10. BestSize(sizes, wanted) = probes[CHOOSE k \in DOMAIN probes : Closest(sizes, wanted, probes, k)]
  BY <1>1 DEF BestSize
<1>11. (CHOOSE k \in DOMAIN probes : Closest(sizes, wanted, probes, k)) \in DOMAIN probes
  BY <1>8, <1>9
<1> QED BY <1>2, <1>10, <1>11

LEMMA CountIs == Count \in Int /\ Half \in Int
<1>1. Count \in Int
  BY Numbers
<1>2. \A x \in Int : x \div 2 \in Int
  OBVIOUS
<1> QED BY <1>1, <1>2 DEF Half

\* What is decided before the files are opened: a size, and the number of blocks
\* of that size that the files have.
LEMMA SizesAre ==
    ASSUME NEW n \in Nat, n > 0, NEW sizes \in [1 .. n -> Nat], \A i \in 1 .. n : sizes[i] > 0,
           NEW blocksize \in Nat, NEW blockcount \in Nat, blockcount <= Half,
           NEW z, z = Sizes(blocksize, blockcount, sizes), z # <<>>
    PROVE  z[1] \in Nat \ {0} /\ z[2] = CountOf(sizes, z[1]) /\ z[2] <= Half
<1> DEFINE quads == [i \in DOMAIN sizes |-> CeilDiv(sizes[i], 4)]
           best == BestSize(quads, blockcount)
           limited(size, count) == IF count > Half THEN <<>> ELSE <<size, count>>
<1>1. Len(sizes) = n
  <2>1. sizes = [i \in 1 .. n |-> sizes[i]]
    OBVIOUS
  <2> QED BY <2>1, ListOf
<1>2. \A i \in 1 .. n : CeilDiv(sizes[i], 4) \in Nat /\ CeilDiv(sizes[i], 4) > 0
  <2> TAKE i \in 1 .. n
  <2>1. PICK s \in Nat : s = sizes[i] /\ s > 0
    OBVIOUS
  <2>2. 4 \in Nat /\ 4 > 0
    OBVIOUS
  <2>3. CeilDiv(s, 4) \in Nat /\ s <= 4 * CeilDiv(s, 4)
    BY ONLY <2>2, s \in Nat, CeilIs
  <2> QED BY <2>1, <2>3
<1>3. quads \in [1 .. n -> Nat] /\ \A i \in 1 .. n : quads[i] = CeilDiv(sizes[i], 4) /\ quads[i] > 0
  BY <1>2
<1>4. z = IF blocksize > 0 THEN limited(blocksize, CountOf(sizes, blocksize))
          ELSE IF blockcount < n THEN <<>>
          ELSE IF blockcount = n THEN <<4 * Max(ToSet(quads)), blockcount>>
          ELSE IF blockcount > Total(quads) THEN <<4, Total(quads)>>
          ELSE limited(4 * best, CountOf(quads, best))
  BY <1>1 DEF Sizes
<1> HIDE DEF quads
<1>5. Total(quads) \in Nat
  BY <1>3, TotalNat
<1>6. Half \in Int
  BY CountIs
<1>7. CASE blocksize > 0
  <2>1. CountOf(sizes, blocksize) \in Nat
    BY <1>7, CountsAre
  <2> QED BY <1>4, <1>6, <1>7, <2>1
<1>8. CASE ~(blocksize > 0) /\ blockcount = n
  <2>1. ToSet(quads) \in SUBSET Nat /\ \A i \in 1 .. n : quads[i] \in ToSet(quads)
    BY <1>3 DEF ToSet
  <2>2. PICK m \in Nat : m = Max(ToSet(quads)) /\ \A i \in 1 .. n : quads[i] <= m
    <3>1. \E x \in ToSet(quads) : \A y \in ToSet(quads) : x >= y
      <4>1. ToSet(quads) # {} /\ IsFiniteSet(ToSet(quads))
        <5>1. 1 \in 1 .. n
          OBVIOUS
        <5>2. IsList(quads)
          <6>1. quads = [i \in 1 .. n |-> quads[i]]
            BY <1>3
          <6> QED BY <6>1, ListOf
        <5>3. IsFiniteSet(ToSet(quads))
          BY <5>2, SetIsFinite
        <5> QED BY <2>1, <5>1, <5>3
      <4> DEFINE S == ToSet(quads)
      <4>2. S # {} /\ IsFiniteSet(S) /\ S \in SUBSET Nat
        BY <2>1, <4>1
      <4> HIDE DEF S
      <4>3. \E x \in S : \A y \in S : y <= x
        BY <4>2, Greatest
      <4> QED BY <2>1, <4>3 DEF S
    <3>2. Max(ToSet(quads)) \in ToSet(quads) /\ \A y \in ToSet(quads) : Max(ToSet(quads)) >= y
      BY <3>1 DEF Max
    <3> QED BY <2>1, <3>2
  <2>3. m > 0
    <3>1. 1 \in 1 .. n
      OBVIOUS
    <3> QED BY <1>3, <2>2, <3>1
  <2>4. CountOf(sizes, 4 * m) = CountOf(quads, m)
    BY <1>3, <2>3, CountTwice
  <2>5. CountOf(quads, m) = n
    <3> DEFINE c == Counts(quads, m)
    <3>1. c \in [1 .. n -> Nat] /\ CountOf(quads, m) = Total(c) /\ \A i \in 1 .. n : c[i] = CeilDiv(quads[i], m)
      BY <1>3, <2>3, CountsAre
    <3> HIDE DEF c
    <3>2. \A i \in 1 .. n : c[i] = 1
      <4> TAKE i \in 1 .. n
      <4>1. quads[i] \in Nat /\ 0 < quads[i] /\ quads[i] <= m
        BY <1>3, <2>2
      <4>2. CeilDiv(quads[i], m) = 1
        BY <4>1, CeilOne
      <4> QED BY <3>1, <4>2
    <3>3. c \in [1 .. n -> Int]
      BY <3>1
    <3> QED BY <3>1, <3>2, <3>3, TotalOnes
  <2>6. z = <<4 * m, n>>
    BY <1>4, <1>8, <2>2
  <2> QED BY <1>6, <1>8, <2>3, <2>4, <2>5, <2>6
<1>9. CASE ~(blocksize > 0) /\ blockcount > n /\ blockcount > Total(quads)
  <2>1. z = <<4, Total(quads)>>
    BY <1>4, <1>9
  <2>2. CountOf(sizes, 4) = Total(quads)
    BY DEF CountOf, quads
  <2> QED BY <1>5, <1>6, <1>9, <2>1, <2>2
<1>10. CASE ~(blocksize > 0) /\ blockcount > n /\ ~(blockcount > Total(quads))
  <2>1. z = limited(4 * best, CountOf(quads, best))
    BY <1>4, <1>10
  <2>2. blockcount <= Total(quads)
    BY <1>5, <1>10
  <2>3. best \in Nat \ {0}
    BY <1>3, <1>10, <2>2, BestIs
  <2>4. PICK b \in Nat : b = best /\ b > 0
    BY <2>3
  <2> HIDE DEF best
  <2>5. CountOf(sizes, 4 * b) = CountOf(quads, b)
    BY <1>3, <2>4, CountTwice
  <2>6. CountOf(quads, b) \in Nat
    BY <1>3, <2>4, CountsAre
  <2>7. z = limited(4 * b, CountOf(quads, b))
    BY <2>1, <2>4
  <2>8. z = <<4 * b, CountOf(quads, b)>> /\ CountOf(quads, b) <= Half
    BY <1>6, <2>6, <2>7
  <2> QED BY <2>4, <2>5, <2>8
<1>11. blockcount < n \/ blockcount = n \/ blockcount > n
  OBVIOUS
<1> QED BY <1>4, <1>7, <1>8, <1>9, <1>10, <1>11

-----------------------------------------------------------------------------
(* Lists that are joined, and the order of the sources *)

Joined(f, T, seqs, n) ==
    /\ f \in [0 .. n -> Seq(T)] /\ f[0] = <<>> /\ FlattenSeq(seqs) = f[n]
    /\ \A k \in 1 .. n : f[k - 1] \in Seq(T) /\ f[k] = f[k - 1] \o seqs[k]
LEMMA FlattenIs ==
    ASSUME NEW T, NEW n \in Nat, NEW seqs \in [1 .. n -> Seq(T)]
    PROVE  \E f : Joined(f, T, seqs, n)
<1> DEFINE F == [p \in (1 .. n) \X Seq(T) |-> p[2] \o seqs[p[1]]]
           Eq(g) == [i \in 1 .. n |-> IF i = 1 THEN seqs[i] ELSE g[i - 1] \o seqs[i]]
           flatten == CHOOSE g : g = Eq(g)
<1>1. Steps(F, Seq(T), n) /\ <<>> \in Seq(T)
  BY DEF Steps
<1>2. PICK f : Follows(f, F, Seq(T), <<>>, n)
  <2> HIDE DEF F
  <2> QED BY <1>1, Recursion
<1>3. f \in [0 .. n -> Seq(T)] /\ f[0] = <<>> /\ \A k \in 1 .. n : f[k - 1] \in Seq(T) /\ f[k] = f[k - 1] \o seqs[k]
  <2>1. f \in [0 .. n -> Seq(T)] /\ f[0] = <<>> /\ \A k \in 1 .. n : f[k] = F[<<k, f[k - 1]>>]
    BY <1>2 DEF Follows
  <2>2. ASSUME NEW k \in 1 .. n PROVE f[k - 1] \in Seq(T) /\ f[k] = f[k - 1] \o seqs[k]
    <3>1. k - 1 \in 0 .. n
      OBVIOUS
    <3>2. f[k - 1] \in Seq(T)
      BY <2>1, <3>1
    <3>3. F[<<k, f[k - 1]>>] = f[k - 1] \o seqs[k]
      BY <3>2
    <3> QED BY <2>1, <3>2, <3>3
  <2> QED BY <2>1, <2>2
<1> HIDE DEF F
<1>4. Len(seqs) = n
  <2>1. seqs = [i \in 1 .. n |-> seqs[i]]
    OBVIOUS
  <2> QED BY <2>1, ListOf
<1>5. CASE n = 0
  <2>1. seqs = <<>>
    BY <1>4, <1>5
  <2>2. FlattenSeq(seqs) = seqs
    BY <1>4, <1>5 DEF FlattenSeq
  <2> QED BY <1>3, <1>5, <2>1, <2>2 DEF Joined
<1>6. CASE n # 0
  <2>1. FlattenSeq(seqs) = flatten[n]
    BY <1>4, <1>6 DEF FlattenSeq
  <2>2. flatten = Eq(flatten)
    <3> DEFINE h == [i \in 1 .. n |-> f[i]]
    <3>1. \A i \in 1 .. n : h[i] = IF i = 1 THEN seqs[i] ELSE h[i - 1] \o seqs[i]
      <4> TAKE i \in 1 .. n
      <4>1. CASE i = 1
        <5>1. i - 1 = 0 /\ seqs[i] \in Seq(T)
          BY <4>1
        <5>2. \A s \in Seq(T) : <<>> \o s = s
          OBVIOUS
        <5>3. f[i] = <<>> \o seqs[i]
          BY <1>3, <5>1
        <5> QED BY <4>1, <5>1, <5>2, <5>3
      <4>2. CASE i # 1
        <5>1. i - 1 \in 1 .. n
          BY <4>2
        <5>2. h[i - 1] = f[i - 1] /\ h[i] = f[i]
          BY <5>1
        <5> HIDE DEF h
        <5> QED BY <1>3, <4>2, <5>2
      <4> QED BY <4>1, <4>2
    <3>2. h = [i \in 1 .. n |-> h[i]]
      OBVIOUS
    <3> HIDE DEF h
    <3>3. h = Eq(h)
      BY <3>1, <3>2
    <3> HIDE DEF Eq
    <3> QED BY <3>3
  <2>3. \A i \in 1 .. n : flatten[i] = IF i = 1 THEN seqs[i] ELSE flatten[i - 1] \o seqs[i]
    <3> HIDE DEF flatten
    <3> QED BY <2>2
  <2> HIDE DEF flatten
  <2> DEFINE I == {i \in Nat : i + 1 <= n => flatten[i + 1] = f[i + 1]}
  <2>4. 0 \in I
    <3>1. 1 \in 1 .. n /\ 1 - 1 = 0
      BY <1>6
    <3>2. f[1] = <<>> \o seqs[1] /\ seqs[1] \in Seq(T)
      BY <1>3, <3>1
    <3>3. \A s \in Seq(T) : <<>> \o s = s
      OBVIOUS
    <3> QED BY <2>3, <3>1, <3>2, <3>3
  <2>5. ASSUME NEW i \in Nat, i \in I PROVE i + 1 \in I
    <3> SUFFICES ASSUME (i + 1) + 1 <= n PROVE flatten[(i + 1) + 1] = f[(i + 1) + 1]
      OBVIOUS
    <3>1. (i + 1) + 1 \in 1 .. n /\ (i + 1) + 1 # 1 /\ ((i + 1) + 1) - 1 = i + 1 /\ i + 1 <= n
      OBVIOUS
    <3>2. flatten[i + 1] = f[i + 1]
      BY <2>5, <3>1
    <3>3. f[(i + 1) + 1] = f[i + 1] \o seqs[(i + 1) + 1]
      BY <1>3, <3>1
    <3> QED BY <2>3, <3>1, <3>2, <3>3
  <2> HIDE DEF I
  <2>6. n - 1 \in I
    <3>1. n - 1 \in Nat
      BY <1>6
    <3> QED BY <2>4, <2>5, <3>1, Induct
  <2>7. flatten[n] = f[n]
    <3>1. (n - 1) + 1 = n
      OBVIOUS
    <3> QED BY <2>6, <3>1 DEF I
  <2> QED BY <1>3, <2>1, <2>7 DEF Joined
<1> QED BY <1>5, <1>6

\* As long as all of them together.
Parts(seqs, lengths, T, n) ==
    /\ n \in Nat /\ seqs \in [1 .. n -> Seq(T)] /\ lengths \in [1 .. n -> Int]
    /\ \A i \in 1 .. n : lengths[i] = Len(seqs[i])
LEMMA FlattenLength ==
    ASSUME NEW T, NEW n, NEW seqs, NEW lengths, Parts(seqs, lengths, T, n)
    PROVE  FlattenSeq(seqs) \in Seq(T) /\ Len(FlattenSeq(seqs)) = Total(lengths)
<1> SUFFICES ASSUME n \in Nat, seqs \in [1 .. n -> Seq(T)], lengths \in [1 .. n -> Int],
                    \A i \in 1 .. n : lengths[i] = Len(seqs[i])
             PROVE  FlattenSeq(seqs) \in Seq(T) /\ Len(FlattenSeq(seqs)) = Total(lengths)
  BY DEF Parts
<1>1. PICK f : Joined(f, T, seqs, n)
  BY FlattenIs
<1>2. f \in [0 .. n -> Seq(T)] /\ f[0] = <<>> /\ FlattenSeq(seqs) = f[n]
      /\ \A k \in 1 .. n : f[k - 1] \in Seq(T) /\ f[k] = f[k - 1] \o seqs[k]
  BY <1>1 DEF Joined
<1>3. PICK g \in [0 .. n -> Int] : Sums(g, lengths, n) /\ Total(lengths) = g[n]
  BY TotalIs
<1> DEFINE I == {k \in Nat : k <= n => Len(f[k]) = g[k]}
<1>4. 0 \in I
  <2>1. Len(<<>>) = 0
    OBVIOUS
  <2> QED BY <1>2, <1>3, <2>1 DEF Sums
<1>5. ASSUME NEW k \in Nat, k \in I PROVE k + 1 \in I
  <2> SUFFICES ASSUME k + 1 <= n PROVE Len(f[k + 1]) = g[k + 1]
    OBVIOUS
  <2>1. k + 1 \in 1 .. n /\ (k + 1) - 1 = k /\ k <= n
    OBVIOUS
  <2>2. f[k] \in Seq(T) /\ f[k + 1] = f[k] \o seqs[k + 1] /\ seqs[k + 1] \in Seq(T)
    BY <1>2, <2>1
  <2>3. Len(f[k + 1]) = Len(f[k]) + Len(seqs[k + 1])
    BY <2>2, ConcatProperties
  <2>4. g[k + 1] = g[k] + lengths[k + 1] /\ Len(f[k]) = g[k] /\ lengths[k + 1] = Len(seqs[k + 1])
    BY <1>3, <1>5, <2>1 DEF Sums
  <2> QED BY <2>3, <2>4
<1> HIDE DEF I
<1>6. n \in I
  BY <1>4, <1>5, Induct
<1>7. n \in 0 .. n
  OBVIOUS
<1> QED BY <1>2, <1>3, <1>6, <1>7 DEF I

\* Every place in the order is that of one source.
Rank(names, name) == Cardinality({n \in names : FileId[n] <= FileId[name]})
LEMMA Ranked ==
    ASSUME NEW names, IsFiniteSet(names), names \subseteq DOMAIN FileId, NEW k \in 1 .. Cardinality(names)
    PROVE  \E name \in names : Rank(names, name) = k
<1> DEFINE N == Cardinality(names)
           below(name) == {n \in names : FileId[n] <= FileId[name]}
           r == [name \in names |-> Rank(names, name)]
<1>1. \A m, n \in names : FileId[m] \in Int /\ (FileId[m] = FileId[n] => m = n)
  BY CreateAssumption
<1>2. N \in Nat
  BY FS_CardinalityType
<1>3. ASSUME NEW name \in names
      PROVE  /\ IsFiniteSet(below(name)) /\ Rank(names, name) \in 1 .. N /\ Rank(names, name) = Cardinality(below(name))
             /\ name \in below(name)
  <2>1. below(name) \in SUBSET names /\ name \in below(name)
    BY <1>1
  <2> DEFINE B == below(name)
  <2>2. Rank(names, name) = Cardinality(B)
    BY DEF Rank
  <2> HIDE DEF below
  <2>3. IsFiniteSet(B) /\ Cardinality(B) <= N
    BY <2>1, FS_Subset
  <2>4. Cardinality(B) \in Nat /\ Cardinality(B) # 0
    BY <2>1, <2>3, FS_CardinalityType, FS_EmptySet
  <2> QED BY <1>2, <2>1, <2>2, <2>3, <2>4
<1>4. ASSUME NEW x \in names, NEW y \in names, FileId[x] < FileId[y] PROVE Rank(names, x) < Rank(names, y)
  <2>1. below(x) \in SUBSET below(y) /\ y \notin below(x)
    BY <1>1, <1>4
  <2>2. y \in below(y) /\ IsFiniteSet(below(y)) /\ IsFiniteSet(below(x))
    BY <1>3
  <2> DEFINE A == below(x)
             B == below(y)
  <2> HIDE DEF below
  <2>3. Cardinality(A) <= Cardinality(B) /\ (Cardinality(B) = Cardinality(A) => B = A)
    BY <2>1, <2>2, FS_Subset
  <2>4. Rank(names, x) = Cardinality(A) /\ Rank(names, y) = Cardinality(B)
        /\ Rank(names, x) \in 1 .. N /\ Rank(names, y) \in 1 .. N
    BY <1>3
  <2> QED BY <1>2, <2>1, <2>2, <2>3, <2>4
<1>5. \A x, y \in names : Rank(names, x) = Rank(names, y) => x = y
  <2> SUFFICES ASSUME NEW x \in names, NEW y \in names, Rank(names, x) = Rank(names, y), x # y PROVE FALSE
    OBVIOUS
  <2>1. FileId[x] < FileId[y] \/ FileId[y] < FileId[x]
    BY <1>1
  <2>2. Rank(names, x) < Rank(names, y) \/ Rank(names, y) < Rank(names, x)
    BY <1>4, <2>1
  <2>3. Rank(names, x) \in 1 .. N /\ Rank(names, y) \in 1 .. N
    BY <1>3
  <2> QED BY <1>2, <2>2, <2>3
<1>6. r \in [names -> 1 .. N]
  BY <1>3
<1>7. r \in Injection(names, 1 .. N)
  <2> DEFINE I == 1 .. N
  <2>1. \A x, y \in names : r[x] = r[y] => x = y
    BY <1>5
  <2>2. r \in [names -> I]
    BY <1>6
  <2> HIDE DEF r, I
  <2>3. r \in Injection(names, I)
    <3>1. DOMAIN r = names
      BY <2>2
    <3> QED BY <2>1, <2>2, <3>1 DEF Injection, IsInjective
  <2> QED BY <2>3 DEF I
<1>8. IsFiniteSet(1 .. N) /\ Cardinality(1 .. N) = N
  <2>1. 1 \in Int /\ N \in Int
    BY <1>2
  <2> HIDE DEF N
  <2>2. IsFiniteSet(1 .. N) /\ Cardinality(1 .. N) = IF 1 > N THEN 0 ELSE N - 1 + 1
    BY ONLY <2>1, FS_Interval
  <2> QED BY <1>2, <2>2
<1>9. r \in Surjection(names, 1 .. N)
  <2> DEFINE I == 1 .. N
  <2>1. r \in Injection(names, I) /\ IsFiniteSet(I) /\ Cardinality(names) = Cardinality(I)
    BY <1>7, <1>8
  <2> HIDE DEF I, r
  <2>2. r \in Surjection(names, I)
    BY <2>1, FS_Injection
  <2> QED BY <2>2 DEF I
<1>10. \E name \in names : r[name] = k
  <2> HIDE DEF r
  <2> QED BY <1>9 DEF Surjection
<1> QED BY <1>10
=============================================================================
