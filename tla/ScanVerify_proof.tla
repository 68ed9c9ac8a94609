-------------------------- MODULE ScanVerify_proof --------------------------
(***************************************************************************)
(* What holds of the verification of source files for files of any number  *)
(* and length, any block size, any polynomial and any number of threads.   *)
(*                                                                         *)
(* The CRC is linear: a register that starts from x and y added together,  *)
(* and is fed the bytes of two windows added together, ends in the sum of  *)
(* the two ends (Superposed).  So a byte that has left the window can be   *)
(* taken out of the checksum again (SlidingIsExact).                       *)
(*                                                                         *)
(* Each operation of the checksummer keeps its buffer, hashes and checksum *)
(* true to the file (Ready, Live); what a thread knows at each stage of a  *)
(* scan is Sound, and the steps of other threads do not touch it.          *)
(***************************************************************************)
EXTENDS ScanVerify, TLAPS, WellFoundedInduction, FiniteSetTheorems, SequenceTheorems

-----------------------------------------------------------------------------
(* The CRC *)

\* A set of natural numbers has a least one.
LEMMA Least ==
    ASSUME NEW T \in SUBSET Nat, T # {}
    PROVE  \E x \in T : \A y \in T : x <= y
<1>1. PICK R : /\ IsWellFoundedOn(R, Nat)
               /\ \A x, y \in Nat : y < x => <<y, x>> \in R
  <2> DEFINE less == OpToRel(<, Nat)
  <2>1. IsWellFoundedOn(less, Nat)
    BY NatLessThanWellFounded
  <2>2. \A x, y \in Nat : y < x => <<y, x>> \in less
    BY DEF OpToRel
  <2> HIDE DEF less
  <2> QED
    BY <2>1, <2>2
<1>2. \E x \in T : \A y \in T : ~(<<y, x>> \in R)
  BY <1>1, WFMin
<1>3. \A x \in T, y \in T : ~(<<y, x>> \in R) => x <= y
  BY <1>1
<1> QED
  BY <1>2, <1>3

\* Induction over a set of natural numbers.
LEMMA Induct ==
    ASSUME NEW T, 0 \in T, \A n \in Nat : n \in T => n + 1 \in T
    PROVE  Nat \subseteq T
<1> SUFFICES ASSUME Nat \ T # {} PROVE FALSE
  OBVIOUS
<1>1. Nat \ T \in SUBSET Nat
  OBVIOUS
<1>2. PICK m \in Nat \ T : \A n \in Nat \ T : m <= n
  BY <1>1, Least
<1>3. m \in Nat /\ m # 0 /\ m - 1 \in Nat
  BY <1>2
<1>4. m - 1 \in T
  BY <1>2, <1>3
<1>5. (m - 1) + 1 \in T
  BY <1>3, <1>4
<1> QED BY <1>2, <1>3, <1>5

\* A register goes from crc on through the bytes of data, one step for each.
Goes(r, step, crc, data, n) ==
    r = [i \in 0 .. n |-> IF i = 0 THEN crc ELSE step[<<r[i - 1], data[i]>>]]

LEMMA GoesOn == ASSUME NEW step, NEW crc, NEW data, NEW n \in Nat PROVE \E r : Goes(r, step, crc, data, n)
<1> DEFINE T == {k \in Nat : \E r : Goes(r, step, crc, data, k)}
<1>1. 0 \in T
  <2> DEFINE r == [i \in 0 .. 0 |-> crc]
  <2>1. \A i \in 0 .. 0 : i = 0
    OBVIOUS
  <2>2. Goes(r, step, crc, data, 0)
    BY <2>1 DEF Goes
  <2> QED BY <2>2
<1>2. ASSUME NEW k \in Nat, k \in T PROVE k + 1 \in T
  <2>1. PICK r : Goes(r, step, crc, data, k)
    BY <1>2
  <2> DEFINE Goal(q, i) == IF i = 0 THEN crc ELSE step[<<q[i - 1], data[i]>>]
             g == [i \in 0 .. k + 1 |-> Goal(r, i)]
  <2>2. ASSUME NEW i \in 0 .. k PROVE g[i] = r[i]
    <3>1. i \in 0 .. k + 1
      OBVIOUS
    <3>2. g[i] = Goal(r, i)
      BY <3>1
    <3>3. r[i] = Goal(r, i)
      BY <2>1 DEF Goes
    <3> QED BY <3>2, <3>3
  <2>3. \A i \in 0 .. k + 1 : i # 0 => i - 1 \in 0 .. k
    OBVIOUS
  <2>4. \A i \in 0 .. k + 1 : i # 0 => g[i - 1] = r[i - 1]
    <3> HIDE DEF g
    <3> QED BY <2>2, <2>3
  <2>5. g = [i \in 0 .. k + 1 |-> Goal(g, i)]
    <3>1. \A i \in 0 .. k + 1 : Goal(r, i) = Goal(g, i)
      <4> HIDE DEF g
      <4> QED BY <2>4
    <3>2. [i \in 0 .. k + 1 |-> Goal(r, i)] = [i \in 0 .. k + 1 |-> Goal(g, i)]
      <4> HIDE DEF g, Goal
      <4> QED BY <3>1
    <3> QED BY <3>2
  <2> HIDE DEF g
  <2> QED BY <2>5 DEF Goes
<1> HIDE DEF T
<1>3. n \in T
  BY <1>1, <1>2, Induct
<1> QED BY <1>3 DEF T

LEMMA RegisterIs ==
    ASSUME NEW step, NEW crc, NEW data, NEW n \in Nat
    PROVE  /\ Register(step, crc, data, n)[0] = crc
           /\ \A i \in 0 .. n : i # 0 =>
                Register(step, crc, data, n)[i] = step[<<Register(step, crc, data, n)[i - 1], data[i]>>]
<1> DEFINE r == Register(step, crc, data, n)
<1>1. Goes(r, step, crc, data, n)
  <2>1. \E q : Goes(q, step, crc, data, n)
    BY GoesOn
  <2> QED BY <2>1 DEF Register, Goes
<1> HIDE DEF r
<1>2. 0 \in 0 .. n
  OBVIOUS
<1>3. r[0] = crc
  BY <1>1, <1>2 DEF Goes
<1>4. \A i \in 0 .. n : i # 0 => r[i] = step[<<r[i - 1], data[i]>>]
  BY <1>1 DEF Goes
<1> QED BY <1>3, <1>4 DEF r

\* A property that a step preserves, from one register position to the next.
LEMMA RegisterTypes ==
    ASSUME NEW crc \in Words, NEW n \in Nat, NEW data \in [1 .. n -> Chars],
           NEW step \in [Words \X Chars -> Words]
    PROVE  \A i \in 0 .. n : Register(step, crc, data, n)[i] \in Words
<1> DEFINE r == Register(step, crc, data, n)
           T == {i \in Nat : i <= n => r[i] \in Words}
<1>1. r[0] = crc /\ \A i \in 0 .. n : i # 0 => r[i] = step[<<r[i - 1], data[i]>>]
  BY RegisterIs
<1> HIDE DEF r
<1>2. 0 \in T
  BY <1>1
<1>3. ASSUME NEW i \in Nat, i \in T PROVE i + 1 \in T
  <2> SUFFICES ASSUME i + 1 <= n PROVE r[i + 1] \in Words
    OBVIOUS
  <2>1. i + 1 \in 0 .. n /\ i + 1 # 0 /\ (i + 1) - 1 = i /\ i <= n /\ i + 1 \in 1 .. n
    OBVIOUS
  <2>2. r[i + 1] = step[<<r[i], data[i + 1]>>]
    BY <1>1, <2>1
  <2>3. r[i] \in Words /\ data[i + 1] \in Chars
    BY <1>3, <2>1
  <2> QED BY <2>2, <2>3
<1> HIDE DEF T
<1>4. Nat \subseteq T
  BY <1>2, <1>3, Induct
<1> QED BY <1>4 DEF T, r

\* Step is linear in the register and the byte together.
Linear(step) ==
    \A x, y \in Words, c, d \in Chars :
      step[<<Xor(x, y), Xor(c, d)>>] = Xor(step[<<x, c>>], step[<<y, d>>])
XorEach(v, w, n) == [i \in 1 .. n |-> Xor(v[i], w[i])]

LEMMA XorTypes ==
    /\ \A x, y \in Words : Xor(x, y) \in Words
    /\ \A x, y \in Chars : Xor(x, y) \in Chars
    /\ \A x \in Words, n \in Nat : ShiftRight(x, n) \in Words
    /\ \A x \in Words : LowChar(x) \in Chars
  BY DEF Xor, Words, Chars, ShiftRight, LowChar

LEMMA XorLaws ==
    /\ \A x, y : Xor(x, y) = Xor(y, x)
    /\ \A x, y, z : Xor(x, Xor(y, z)) = Xor(Xor(x, y), z)
    /\ \A x : Xor(x, {}) = x /\ Xor({}, x) = x
    /\ \A x, y : Xor(x, Xor(x, y)) = y
  BY DEF Xor

Superposed(step, x, v, y, w, n) ==
    \A i \in 0 .. n :
      Register(step, Xor(x, y), XorEach(v, w, n), n)[i]
        = Xor(Register(step, x, v, n)[i], Register(step, y, w, n)[i])

LEMMA RegisterLinear ==
    ASSUME NEW n \in Nat, NEW step \in [Words \X Chars -> Words], Linear(step),
           NEW x \in Words, NEW v \in [1 .. n -> Chars],
           NEW y \in Words, NEW w \in [1 .. n -> Chars]
    PROVE  Superposed(step, x, v, y, w, n)
<1> DEFINE r == Register(step, x, v, n)
           q == Register(step, y, w, n)
           z == XorEach(v, w, n)
           s == Register(step, Xor(x, y), z, n)
           T == {i \in Nat : i <= n => s[i] = Xor(r[i], q[i])}
<1>1. r[0] = x /\ \A i \in 0 .. n : i # 0 => r[i] = step[<<r[i - 1], v[i]>>]
  BY RegisterIs
<1>2. q[0] = y /\ \A i \in 0 .. n : i # 0 => q[i] = step[<<q[i - 1], w[i]>>]
  BY RegisterIs
<1>3. s[0] = Xor(x, y) /\ \A i \in 0 .. n : i # 0 => s[i] = step[<<s[i - 1], z[i]>>]
  BY RegisterIs
<1>4. /\ \A i \in 0 .. n : r[i] \in Words
      /\ \A i \in 0 .. n : q[i] \in Words
  BY RegisterTypes
<1>5. \A i \in 1 .. n : z[i] = Xor(v[i], w[i])
  BY DEF XorEach
<1> HIDE DEF r, q, s, z
<1>6. 0 \in T
  BY <1>1, <1>2, <1>3
<1>7. ASSUME NEW i \in Nat, i \in T PROVE i + 1 \in T
  <2> SUFFICES ASSUME i + 1 <= n PROVE s[i + 1] = Xor(r[i + 1], q[i + 1])
    OBVIOUS
  <2>1. i + 1 \in 0 .. n /\ i + 1 # 0 /\ (i + 1) - 1 = i /\ i <= n /\ i + 1 \in 1 .. n /\ i \in 0 .. n
    OBVIOUS
  <2>2. s[i + 1] = step[<<s[i], z[i + 1]>>] /\ r[i + 1] = step[<<r[i], v[i + 1]>>]
          /\ q[i + 1] = step[<<q[i], w[i + 1]>>] /\ z[i + 1] = Xor(v[i + 1], w[i + 1])
    BY <1>1, <1>2, <1>3, <1>5, <2>1
  <2>3. s[i] = Xor(r[i], q[i]) /\ r[i] \in Words /\ q[i] \in Words
          /\ v[i + 1] \in Chars /\ w[i + 1] \in Chars
    BY <1>4, <1>7, <2>1
  <2> QED BY <2>2, <2>3 DEF Linear
<1> HIDE DEF T
<1>8. Nat \subseteq T
  BY <1>6, <1>7, Induct
<1> QED BY <1>8 DEF Superposed, T, r, q, s, z

LEMMA CharsAreWords == Chars \subseteq Words
  BY CRCAssumption DEF CRCAssumption, Chars, Words

LEMMA ShiftLinear ==
    \A x, y, n : ShiftRight(Xor(x, y), n) = Xor(ShiftRight(x, n), ShiftRight(y, n))
  BY DEF ShiftRight, Xor

LEMMA FourXor == \A p, q, r, s : Xor(Xor(p, q), Xor(r, s)) = Xor(Xor(p, r), Xor(q, s))
  BY DEF Xor

LEMMA RoundLinear == round \in [Words \X Chars -> Words] /\ Linear(round)
<1>1. \A x \in Words, c \in Chars :
        round[<<x, c>>] = IF 0 \in x THEN Xor(ShiftRight(x, 1), Polynomial) ELSE ShiftRight(x, 1)
  BY DEF round
<1>2. Polynomial \in Words
  BY CRCAssumption DEF CRCAssumption, Words
<1>3. round \in [Words \X Chars -> Words]
  <2>1. \A x \in Words : ShiftRight(x, 1) \in Words /\ Xor(ShiftRight(x, 1), Polynomial) \in Words
    BY <1>2, XorTypes
  <2> QED BY <2>1 DEF round
<1>4. Linear(round)
  <2> SUFFICES ASSUME NEW x \in Words, NEW y \in Words, NEW c \in Chars, NEW d \in Chars
               PROVE  round[<<Xor(x, y), Xor(c, d)>>] = Xor(round[<<x, c>>], round[<<y, d>>])
    BY DEF Linear
  <2> DEFINE sx == ShiftRight(x, 1)
             sy == ShiftRight(y, 1)
  <2>1. Xor(x, y) \in Words /\ Xor(c, d) \in Chars
    BY XorTypes
  <2>2. ShiftRight(Xor(x, y), 1) = Xor(sx, sy)
    BY ShiftLinear
  <2>3. (0 \in Xor(x, y)) <=> ((0 \in x) # (0 \in y))
    BY DEF Xor
  <2>4. round[<<Xor(x, y), Xor(c, d)>>]
          = IF 0 \in Xor(x, y) THEN Xor(Xor(sx, sy), Polynomial) ELSE Xor(sx, sy)
    BY <1>1, <2>1, <2>2
  <2> HIDE DEF sx, sy
  <2>5. round[<<x, c>>] = IF 0 \in x THEN Xor(sx, Polynomial) ELSE sx
    BY <1>1 DEF sx
  <2>6. round[<<y, d>>] = IF 0 \in y THEN Xor(sy, Polynomial) ELSE sy
    BY <1>1 DEF sy
  <2>7. /\ Xor(Xor(sx, Polynomial), Xor(sy, Polynomial)) = Xor(sx, sy)
        /\ Xor(Xor(sx, Polynomial), sy) = Xor(Xor(sx, sy), Polynomial)
        /\ Xor(sx, Xor(sy, Polynomial)) = Xor(Xor(sx, sy), Polynomial)
    BY DEF Xor
  <2>8. CASE 0 \in x /\ 0 \in y
    BY <2>3, <2>4, <2>5, <2>6, <2>7, <2>8
  <2>9. CASE 0 \in x /\ 0 \notin y
    BY <2>3, <2>4, <2>5, <2>6, <2>7, <2>9
  <2>10. CASE 0 \notin x /\ 0 \in y
    BY <2>3, <2>4, <2>5, <2>6, <2>7, <2>10
  <2>11. CASE 0 \notin x /\ 0 \notin y
    BY <2>3, <2>4, <2>5, <2>6, <2>7, <2>11
  <2> QED BY <2>8, <2>9, <2>10, <2>11
<1> QED BY <1>3, <1>4

LEMMA NoBits == {} \in Chars /\ {} \in Words
  BY DEF Chars, Words

LEMMA ZerosAreZero ==
    ASSUME NEW n \in Nat
    PROVE  /\ [i \in 1 .. n |-> {}] \in [1 .. n -> Chars]
           /\ \A v \in [1 .. n -> Chars] : XorEach(v, [i \in 1 .. n |-> {}], n) = v
  BY NoBits, XorLaws DEF XorEach

LEMMA TableLinear ==
    /\ \A c \in Chars : ccitttable[c] \in Words
    /\ \A c, d \in Chars : ccitttable[Xor(c, d)] = Xor(ccitttable[c], ccitttable[d])
    /\ ccitttable[{}] = {}
<1> DEFINE z == [i \in 1 .. CharBits |-> {}]
<1>1. CharBits \in Nat /\ CharBits \in 0 .. CharBits
  BY CRCAssumption DEF CRCAssumption
<1>2. z \in [1 .. CharBits -> Chars] /\ XorEach(z, z, CharBits) = z
  BY <1>1, ZerosAreZero
<1>3. \A c \in Chars : ccitttable[c] = Register(round, c, z, CharBits)[CharBits]
  BY DEF ccitttable
<1> HIDE DEF z
<1>4. \A c \in Chars : ccitttable[c] \in Words
  <2> SUFFICES ASSUME NEW c \in Chars PROVE ccitttable[c] \in Words
    OBVIOUS
  <2>1. c \in Words /\ round \in [Words \X Chars -> Words]
    BY CharsAreWords, RoundLinear
  <2>2. \A i \in 0 .. CharBits : Register(round, c, z, CharBits)[i] \in Words
    BY <1>1, <1>2, <2>1, RegisterTypes
  <2> QED BY <1>1, <1>3, <2>2
<1>5. ASSUME NEW c \in Chars, NEW d \in Chars
      PROVE  ccitttable[Xor(c, d)] = Xor(ccitttable[c], ccitttable[d])
  <2>1. Xor(c, d) \in Chars /\ c \in Words /\ d \in Words
    BY XorTypes, CharsAreWords
  <2>2. Superposed(round, c, z, d, z, CharBits)
    BY <1>1, <1>2, <2>1, RoundLinear, RegisterLinear
  <2> QED BY <1>1, <1>2, <1>3, <2>1, <2>2 DEF Superposed
<1>6. ccitttable[{}] = {}
  <2>1. Xor({}, {}) = {} /\ {} \in Chars
    BY NoBits DEF Xor
  <2>2. ccitttable[{}] = Xor(ccitttable[{}], ccitttable[{}])
    BY <1>5, <2>1
  <2> QED BY <2>2 DEF Xor
<1> QED BY <1>4, <1>5, <1>6

LEMMA UpdateLinear ==
    /\ update \in [Words \X Chars -> Words]
    /\ \A x \in Words, c \in Chars : update[<<x, c>>] = CRCUpdateChar(x, c)
    /\ Linear(update)
<1>1. \A x \in Words, c \in Chars : update[<<x, c>>] = CRCUpdateChar(x, c)
  BY DEF update
<1>2. CharBits \in Nat
  BY CRCAssumption DEF CRCAssumption
<1>3. \A x \in Words, c \in Chars : CRCUpdateChar(x, c) \in Words
  BY <1>2, XorTypes, TableLinear DEF CRCUpdateChar
<1>4. update \in [Words \X Chars -> Words]
  BY <1>3 DEF update
<1>5. Linear(update)
  <2> SUFFICES ASSUME NEW x \in Words, NEW y \in Words, NEW c \in Chars, NEW d \in Chars
               PROVE  update[<<Xor(x, y), Xor(c, d)>>] = Xor(update[<<x, c>>], update[<<y, d>>])
    BY DEF Linear
  <2> DEFINE cx == Xor(LowChar(x), c)
             dy == Xor(LowChar(y), d)
  <2>1. Xor(x, y) \in Words /\ Xor(c, d) \in Chars /\ cx \in Chars /\ dy \in Chars
    BY XorTypes
  <2>2. Xor(LowChar(Xor(x, y)), Xor(c, d)) = Xor(cx, dy)
    BY DEF Xor, LowChar
  <2>3. ccitttable[Xor(cx, dy)] = Xor(ccitttable[cx], ccitttable[dy])
    BY <2>1, TableLinear
  <2>4. ShiftRight(Xor(x, y), CharBits) = Xor(ShiftRight(x, CharBits), ShiftRight(y, CharBits))
    BY ShiftLinear
  <2>5. update[<<Xor(x, y), Xor(c, d)>>]
          = Xor(Xor(ShiftRight(x, CharBits), ShiftRight(y, CharBits)),
                Xor(ccitttable[cx], ccitttable[dy]))
    <3> HIDE DEF cx, dy
    <3>1. CRCUpdateChar(Xor(x, y), Xor(c, d))
            = Xor(ShiftRight(Xor(x, y), CharBits), ccitttable[Xor(cx, dy)])
      BY <2>2 DEF CRCUpdateChar
    <3> QED BY <1>1, <2>1, <2>3, <2>4, <3>1
  <2>6. update[<<x, c>>] = Xor(ShiftRight(x, CharBits), ccitttable[cx])
    BY <1>1 DEF CRCUpdateChar
  <2>7. update[<<y, d>>] = Xor(ShiftRight(y, CharBits), ccitttable[dy])
    BY <1>1 DEF CRCUpdateChar
  <2> HIDE DEF cx, dy
  <2> QED BY <2>5, <2>6, <2>7, FourXor
<1> QED BY <1>1, <1>4, <1>5

\* The register after a window of bytes is linear in the register and the window.
Bytes == [1 .. BlockSize -> Chars]
LEMMA BlockLinear ==
    /\ \A x \in Words, v \in Bytes : CRCUpdateBlock(x, v) \in Words
    /\ \A x, y \in Words, v, w \in Bytes :
         CRCUpdateBlock(Xor(x, y), XorEach(v, w, BlockSize))
           = Xor(CRCUpdateBlock(x, v), CRCUpdateBlock(y, w))
    /\ Zeros \in Bytes /\ \A v \in Bytes : XorEach(v, Zeros, BlockSize) = v
<1>1. BlockSize \in Nat /\ BlockSize \in 0 .. BlockSize
  BY CRCAssumption DEF CRCAssumption
<1>2. \A x \in Words, v \in Bytes : CRCUpdateBlock(x, v) \in Words
  BY <1>1, UpdateLinear, RegisterTypes DEF CRCUpdateBlock, Bytes
<1>3. ASSUME NEW c \in Words, NEW d \in Words, NEW f \in Bytes, NEW g \in Bytes
      PROVE  CRCUpdateBlock(Xor(c, d), XorEach(f, g, BlockSize))
               = Xor(CRCUpdateBlock(c, f), CRCUpdateBlock(d, g))
  <2>1. Superposed(update, c, f, d, g, BlockSize)
    <3>1. f \in [1 .. BlockSize -> Chars] /\ g \in [1 .. BlockSize -> Chars]
      BY DEF Bytes
    <3>2. update \in [Words \X Chars -> Words] /\ Linear(update)
      BY UpdateLinear
    <3> QED BY <1>1, <3>1, <3>2, RegisterLinear
  <2> QED BY <1>1, <2>1 DEF Superposed, CRCUpdateBlock
<1>4. Zeros \in Bytes /\ \A v \in Bytes : XorEach(v, Zeros, BlockSize) = v
  BY <1>1, ZerosAreZero DEF Zeros, Bytes
<1> QED BY <1>2, <1>3, <1>4

\* Behind the first byte of a window the register goes through the rest of it
\* and one byte more as it goes through the next window.
LEMMA NextWindow ==
    ASSUME NEW v \in Bytes, NEW w \in Bytes,
           \A i \in 1 .. BlockSize - 1 : w[i] = v[i + 1]
    PROVE  CRCUpdateChar(CRCUpdateBlock({}, v), w[BlockSize])
             = CRCUpdateBlock(ccitttable[v[1]], w)
<1> DEFINE B == BlockSize
           r == Register(update, {}, v, B)
           q == Register(update, ccitttable[v[1]], w, B)
           T == {i \in Nat : i <= B - 1 => q[i] = r[i + 1]}
<1>1. B \in Nat /\ B \in 1 .. B /\ 1 \in 1 .. B /\ B # 0
  BY CRCAssumption DEF CRCAssumption
<1>2. r[0] = {} /\ \A i \in 0 .. B : i # 0 => r[i] = update[<<r[i - 1], v[i]>>]
  BY <1>1, RegisterIs
<1>3. q[0] = ccitttable[v[1]] /\ \A i \in 0 .. B : i # 0 => q[i] = update[<<q[i - 1], w[i]>>]
  BY <1>1, RegisterIs
<1>4. v[1] \in Chars /\ w[B] \in Chars
  BY <1>1 DEF Bytes
<1>5. \A i \in 0 .. B : r[i] \in Words
  BY <1>1, NoBits, UpdateLinear, RegisterTypes DEF Bytes
<1>6. CRCUpdateBlock({}, v) = r[B] /\ CRCUpdateBlock(ccitttable[v[1]], w) = q[B]
  BY DEF CRCUpdateBlock
<1> HIDE DEF r, q, B
<1>7. 0 \in T
  <2>1. r[1] = update[<<{}, v[1]>>]
    BY <1>1, <1>2
  <2>2. update[<<{}, v[1]>>] = CRCUpdateChar({}, v[1])
    BY <1>4, NoBits, UpdateLinear
  <2>3. Xor(LowChar({}), v[1]) = v[1] /\ ShiftRight({}, CharBits) = {}
    BY DEF Xor, LowChar, ShiftRight
  <2>4. CRCUpdateChar({}, v[1]) = ccitttable[v[1]]
    BY <2>3, XorLaws DEF CRCUpdateChar
  <2> QED BY <1>3, <2>1, <2>2, <2>4
<1>8. ASSUME NEW i \in Nat, i \in T PROVE i + 1 \in T
  <2> SUFFICES ASSUME i + 1 <= B - 1 PROVE q[i + 1] = r[i + 2]
    OBVIOUS
  <2>1. i + 1 \in 0 .. B /\ i + 1 # 0 /\ (i + 1) - 1 = i /\ i <= B - 1
          /\ i + 2 \in 0 .. B /\ i + 2 # 0 /\ (i + 2) - 1 = i + 1 /\ i + 1 \in 1 .. B - 1
    BY <1>1
  <2>2. q[i + 1] = update[<<q[i], w[i + 1]>>] /\ r[i + 2] = update[<<r[i + 1], v[i + 2]>>]
    BY <1>2, <1>3, <2>1
  <2>3. w[i + 1] = v[i + 2]
    BY <2>1 DEF B
  <2> QED BY <1>8, <2>1, <2>2, <2>3
<1> HIDE DEF T
<1>9. Nat \subseteq T
  BY <1>7, <1>8, Induct
<1>10. q[B - 1] = r[B]
  <2>1. B - 1 \in Nat /\ (B - 1) + 1 = B
    BY <1>1
  <2> QED BY <1>9, <2>1 DEF T
<1>11. q[B] = update[<<r[B], w[B]>>]
  BY <1>1, <1>3, <1>10
<1>12. update[<<r[B], w[B]>>] = CRCUpdateChar(r[B], w[B])
  BY <1>1, <1>4, <1>5, UpdateLinear
<1> QED BY <1>6, <1>11, <1>12 DEF B

\* The checksum of a window, slid along by one byte, is the checksum of the
\* next window, for any polynomial and any length of the window.
THEOREM SlidingIsExact ==
    ASSUME NEW v \in Bytes, NEW w \in Bytes,
           \A i \in 1 .. BlockSize - 1 : w[i] = v[i + 1]
    PROVE  Xor(windowmask, CRCSlideChar(Xor(windowmask, CRC(v)), w[BlockSize], v[1])) = CRC(w)
<1> DEFINE U(x, d) == CRCUpdateBlock(x, d)
           old == ccitttable[v[1]]
<1>1. AllOnes \in Words /\ {} \in Words /\ v[1] \in Chars /\ old \in Words
  BY CRCAssumption, NoBits, TableLinear DEF AllOnes, Words, Bytes, CRCAssumption
<1>2. \A x \in Words, d \in Bytes : U(x, d) = Xor(U(x, Zeros), U({}, d))
  <2> SUFFICES ASSUME NEW x \in Words, NEW d \in Bytes PROVE U(x, d) = Xor(U(x, Zeros), U({}, d))
    OBVIOUS
  <2>1. U(Xor({}, x), XorEach(d, Zeros, BlockSize)) = Xor(U({}, d), U(x, Zeros))
    BY <1>1, BlockLinear
  <2>2. Xor({}, x) = x /\ XorEach(d, Zeros, BlockSize) = d
    BY BlockLinear, XorLaws
  <2> HIDE DEF U
  <2> QED BY <2>1, <2>2, XorLaws
<1>3. windowmask = Xor(AllOnes, U(AllOnes, Zeros))
  BY DEF windowmask
<1>4. \A d \in Bytes : CRC(d) = Xor(windowmask, U({}, d))
  <2> SUFFICES ASSUME NEW d \in Bytes PROVE CRC(d) = Xor(windowmask, U({}, d))
    OBVIOUS
  <2>1. CRC(d) = Xor(AllOnes, U(AllOnes, d))
    BY DEF CRC
  <2>2. U(AllOnes, d) = Xor(U(AllOnes, Zeros), U({}, d))
    BY <1>1, <1>2
  <2> HIDE DEF U
  <2> QED BY <1>3, <2>1, <2>2, XorLaws
<1>5. Xor(windowmask, CRC(v)) = U({}, v)
  <2> HIDE DEF U
  <2> QED BY <1>4, XorLaws
<1>6. CRCUpdateChar(U({}, v), w[BlockSize]) = U(old, w)
  BY NextWindow
<1>7. windowtable[v[1]] = U(old, Zeros)
  BY <1>1 DEF windowtable
<1>8. CRCSlideChar(U({}, v), w[BlockSize], v[1]) = Xor(U(old, w), U(old, Zeros))
  BY <1>6, <1>7 DEF CRCSlideChar
<1>9. Xor(U(old, w), U(old, Zeros)) = U({}, w)
  <2>1. U(old, w) = Xor(U(old, Zeros), U({}, w))
    BY <1>1, <1>2
  <2> HIDE DEF U
  <2> QED BY <2>1 DEF Xor
<1> HIDE DEF U
<1> QED BY <1>4, <1>5, <1>8, <1>9

-----------------------------------------------------------------------------
(* Parts of files *)

LEMMA Sizes ==
    /\ BlockSize \in Nat /\ BlockSize > 1 /\ Short \in Nat /\ Short > 0
    /\ NumSources \in Nat /\ Extras \in Nat
    /\ \A s \in SourceIds : Sources[s] \in Seq(Chars) /\ Len(Sources[s]) \in Nat
  BY CRCAssumption, ScanAssumption DEF CRCAssumption, ScanAssumption, NumSources, SourceIds

LEMMA PartTypes ==
    ASSUME NEW d \in Seq(Chars), NEW a \in Nat, NEW n \in Nat, a + n <= Len(d)
    PROVE  Part(d, a, n) \in Seq(Chars) /\ Len(Part(d, a, n)) = n
<1>1. \A i \in 1 .. n : d[a + i] \in Chars
  BY LenProperties
<1>2. Part(d, a, n) \in Seq(Chars)
  BY <1>1, IsASeq DEF Part
<1>3. DOMAIN Part(d, a, n) = 1 .. n
  BY DEF Part
<1> QED BY <1>2, <1>3, LenProperties

LEMMA PartWhole == ASSUME NEW d \in Seq(Chars) PROVE Part(d, 0, Len(d)) = d
  BY LenProperties DEF Part

LEMMA PartEmpty == ASSUME NEW d PROVE Part(d, 0, 0) = <<>>
  BY DEF Part

LEMMA PartJoin ==
    ASSUME NEW d \in Seq(Chars), NEW a \in Nat, NEW n \in Nat, a + n <= Len(d)
    PROVE  Part(d, 0, a) \o Part(d, a, n) = Part(d, 0, a + n)
<1> DEFINE p == Part(d, 0, a)
           q == Part(d, a, n)
           r == Part(d, 0, a + n)
<1>1. Len(d) \in Nat
  OBVIOUS
<1>2. /\ p \in Seq(Chars) /\ Len(p) = a /\ q \in Seq(Chars) /\ Len(q) = n
      /\ r \in Seq(Chars) /\ Len(r) = a + n
  BY <1>1, PartTypes
<1>3. \A i \in 1 .. a : p[i] = d[i]
  BY DEF Part
<1>4. \A i \in 1 .. n : q[i] = d[a + i]
  BY DEF Part
<1>5. \A i \in 1 .. a + n : r[i] = d[i]
  BY DEF Part
<1> HIDE DEF p, q, r
<1>6. /\ p \o q \in Seq(Chars) /\ Len(p \o q) = a + n
      /\ \A i \in 1 .. a + n : (p \o q)[i] = IF i <= a THEN p[i] ELSE q[i - a]
  <2>1. p \o q \in Seq(Chars) /\ Len(p \o q) = Len(p) + Len(q)
    <3>1. p \in Seq(Chars) /\ q \in Seq(Chars)
      BY <1>2
    <3>2. p \o q \in Seq(Chars)
      BY <3>1
    <3>3. Len(p \o q) = Len(p) + Len(q)
      BY <3>1
    <3> QED BY <3>2, <3>3
  <2>2. \A i \in 1 .. Len(p) + Len(q) : (p \o q)[i] = IF i <= Len(p) THEN p[i] ELSE q[i - Len(p)]
    BY <1>2, ConcatProperties
  <2> QED BY <1>2, <2>1, <2>2
<1>7. ASSUME NEW i \in 1 .. a + n PROVE (p \o q)[i] = r[i]
  <2>1. CASE i <= a
    BY <1>3, <1>5, <1>6, <2>1
  <2>2. CASE ~(i <= a)
    <3>1. i - a \in 1 .. n /\ a + (i - a) = i
      BY <2>2
    <3> QED BY <1>4, <1>5, <1>6, <2>2, <3>1
  <2> QED BY <2>1, <2>2
<1>8. p \o q = r
  BY <1>2, <1>6, <1>7, SeqEqual
<1> QED BY <1>8 DEF p, q, r

LEMMA PartOfPart ==
    ASSUME NEW d, NEW a \in Nat, NEW n \in Nat, NEW m \in Nat, m <= n
    PROVE  Part(Part(d, a, n), 0, m) = Part(d, a, m)
  BY DEF Part

-----------------------------------------------------------------------------
(* The checksummer *)

Buffers == [1 .. 2 * BlockSize -> Chars]
Pcs == {"idle", "scan", "setfile", "setoffset", "whole"}
MaybeBlock == AllBlocks \cup {NoBlock}
Scan == [pc : Pcs, file : Files \cup {NoFile}, source : SourceIds \cup {0}, offset : Nat,
         read : Nat, buffer : Buffers, out : 0 .. BlockSize - 1, tail : 0 .. 2 * BlockSize,
         checksum : Words, short : Seq(Chars), full : Seq(Chars), next : MaybeBlock,
         count : Nat, partial : BOOLEAN, block : MaybeBlock]
World ==
    /\ disk \in [Files -> [exists : BOOLEAN, data : Seq(Chars)]]
    /\ verifiable \subseteq SourceIds

Content(c) == disk[c.file].data

\* The hashes have been fed what has been read of the file.
Hashed(c) ==
    /\ c.read <= Size(c.file)
    /\ c.short = Part(Content(c), 0, Min2(c.read, Short))
    /\ c.full = IF c.read < Short THEN <<>> ELSE Part(Content(c), 0, c.read)

\* The buffer holds the file from c.offset - c.out on, as far as it has been read.
Buffered(c) ==
    /\ c.offset + c.tail = c.read + c.out
    /\ c.out <= c.offset /\ c.out <= c.tail
    /\ \A i \in 1 .. c.tail : c.buffer[i] = Content(c)[c.offset - c.out + i]
Filled(c) == c.read = Size(c.file) \/ c.tail = 2 * BlockSize
Live(c) ==
    c.offset < Size(c.file) => Buffered(c) /\ Filled(c) /\ c.checksum = CRC(Window(c))

\* A step of the checksummer leaves the local variables of the scan alone.
Alike(c, d) ==
    /\ d.pc = c.pc /\ d.file = c.file /\ d.source = c.source /\ d.next = c.next
    /\ d.count = c.count /\ d.partial = c.partial /\ d.block = c.block

LEMMA ContentTypes ==
    ASSUME World, NEW f \in Files
    PROVE  disk[f].data \in Seq(Chars) /\ Size(f) \in Nat /\ Size(f) = Len(disk[f].data)
  BY DEF World, Size

LEMMA WindowTypes == ASSUME NEW c \in Scan PROVE Window(c) \in Bytes
  BY Sizes DEF Scan, Buffers, Window, Part, Bytes

LEMMA CRCTypes == ASSUME NEW w \in Bytes PROVE CRC(w) \in Words
<1>1. AllOnes \in Words
  BY DEF AllOnes, Words
<1> QED BY <1>1, BlockLinear, XorTypes DEF CRC

LEMMA UpdateHashesWorks ==
    ASSUME World, NEW c \in Scan, c.file \in Files, Hashed(c), NEW n \in Nat,
           c.read + n <= Size(c.file)
    PROVE  LET d == UpdateHashes(c, Part(Content(c), c.read, n), n) IN
           /\ d \in Scan /\ Alike(c, d)
           /\ d.offset = c.offset /\ d.out = c.out /\ d.tail = c.tail /\ d.read = c.read
           /\ d.buffer = c.buffer /\ d.checksum = c.checksum
           /\ d.short = Part(Content(c), 0, Min2(c.read + n, Short))
           /\ d.full = IF c.read + n < Short THEN <<>> ELSE Part(Content(c), 0, c.read + n)
<1> DEFINE x == Content(c)
           data == Part(x, c.read, n)
           d == UpdateHashes(c, data, n)
           first == Short - c.read
<1>1. x \in Seq(Chars) /\ Size(c.file) = Len(x) /\ Len(x) \in Nat /\ c.read \in Nat
        /\ c.short \in Seq(Chars) /\ c.full \in Seq(Chars) /\ Short \in Nat
  BY ContentTypes, Sizes DEF Content, Scan
<1>2. data \in Seq(Chars)
  BY <1>1, PartTypes
<1>20. Part(x, 0, c.read) \o data = Part(x, 0, c.read + n)
  <2> HIDE DEF x
  <2> QED BY <1>1, PartJoin
<1>3. CASE c.read >= Short
  <2>1. c.full = Part(x, 0, c.read) /\ c.short = Part(x, 0, Short) /\ Min2(c.read + n, Short) = Short
    BY <1>1, <1>3 DEF Hashed, Min2
  <2>2. c.full \o data = Part(x, 0, c.read + n)
    BY <1>20, <2>1
  <2>3. c.full \o data \in Seq(Chars)
    BY <1>1, <1>2, ConcatProperties
  <2> HIDE DEF data, x
  <2>4. d = [c EXCEPT !.full = c.full \o data]
    BY <1>1, <1>3 DEF UpdateHashes
  <2>5. ~(c.read + n < Short)
    BY <1>1, <1>3
  <2> HIDE DEF d
  <2>6. d \in Scan /\ Alike(c, d) /\ d.offset = c.offset /\ d.out = c.out /\ d.tail = c.tail
          /\ d.read = c.read /\ d.buffer = c.buffer /\ d.checksum = c.checksum
          /\ d.short = c.short /\ d.full = c.full \o data
    BY <2>3, <2>4 DEF Scan, Alike
  <2> QED BY <2>1, <2>2, <2>5, <2>6 DEF d, data, x
<1>4. CASE c.read < Short /\ c.read + n >= Short
  <2>1. c.short = Part(x, 0, c.read) /\ Min2(c.read + n, Short) = Short /\ ~(c.read + n < Short)
    BY <1>1, <1>4 DEF Hashed, Min2
  <2>2. Part(data, 0, first) = Part(x, c.read, first)
    BY <1>1, <1>4, PartOfPart
  <2>3. first \in Nat /\ c.read + first = Short /\ Short <= Len(x)
    BY <1>1, <1>4
  <2>4. c.short \o Part(data, 0, first) = Part(x, 0, Short)
    <3> HIDE DEF x, data, first
    <3>1. Part(x, 0, c.read) \o Part(x, c.read, first) = Part(x, 0, c.read + first)
      BY <1>1, <2>3, PartJoin, ZenonT(60)
    <3> QED BY <2>1, <2>2, <2>3, <3>1
  <2>5. c.short \o data = Part(x, 0, c.read + n)
    BY <1>20, <2>1
  <2>6. Part(x, 0, Short) \in Seq(Chars) /\ Part(x, 0, c.read + n) \in Seq(Chars)
    BY <1>1, <2>3, PartTypes
  <2> HIDE DEF data, x
  <2>7. d = [c EXCEPT !.short = Part(x, 0, Short), !.full = Part(x, 0, c.read + n)]
    <3>1. ~(c.read >= Short) /\ c.read + n >= Short
      BY <1>1, <1>4
    <3>2. d = [c EXCEPT !.short = c.short \o Part(data, 0, Short - c.read), !.full = c.short \o data]
      BY <3>1 DEF UpdateHashes
    <3> HIDE DEF d
    <3> QED BY <2>4, <2>5, <3>2 DEF first
  <2> HIDE DEF d
  <2>8. d \in Scan /\ Alike(c, d) /\ d.offset = c.offset /\ d.out = c.out /\ d.tail = c.tail
          /\ d.read = c.read /\ d.buffer = c.buffer /\ d.checksum = c.checksum
          /\ d.short = Part(x, 0, Short) /\ d.full = Part(x, 0, c.read + n)
    BY <2>6, <2>7 DEF Scan, Alike
  <2> QED BY <2>1, <2>8 DEF d, data, x
<1>5. CASE c.read < Short /\ c.read + n < Short
  <2>1. c.short = Part(x, 0, c.read) /\ Min2(c.read + n, Short) = c.read + n /\ c.full = <<>>
    BY <1>1, <1>5 DEF Hashed, Min2
  <2>2. c.short \o data = Part(x, 0, c.read + n)
    BY <1>20, <2>1
  <2>3. Part(x, 0, c.read + n) \in Seq(Chars)
    BY <1>1, PartTypes
  <2> HIDE DEF data, x
  <2>4. d = [c EXCEPT !.short = Part(x, 0, c.read + n)]
    BY <1>1, <1>5, <2>2 DEF UpdateHashes
  <2> HIDE DEF d
  <2>5. d \in Scan /\ Alike(c, d) /\ d.offset = c.offset /\ d.out = c.out /\ d.tail = c.tail
          /\ d.read = c.read /\ d.buffer = c.buffer /\ d.checksum = c.checksum
          /\ d.short = Part(x, 0, c.read + n) /\ d.full = c.full
    BY <2>3, <2>4 DEF Scan, Alike
  <2> QED BY <1>5, <2>1, <2>5 DEF d, data, x
<1> QED
  <2> HIDE DEF d, data, x
  <2>1. c.read >= Short \/ (c.read < Short /\ c.read + n >= Short)
          \/ (c.read < Short /\ c.read + n < Short)
    BY <1>1
  <2> QED BY <1>3, <1>4, <1>5, <2>1

Ready(c) == c \in Scan /\ c.file \in Files /\ Hashed(c)

LEMMA ReadyTypes ==
    ASSUME World, NEW c \in Scan, c.file \in Files
    PROVE  /\ Content(c) \in Seq(Chars) /\ Size(c.file) = Len(Content(c)) /\ Size(c.file) \in Nat
           /\ c.offset \in Nat /\ c.read \in Nat /\ c.tail \in Nat /\ c.tail <= 2 * BlockSize
           /\ c.out \in Nat /\ c.out < BlockSize
           /\ c.buffer \in Buffers /\ BlockSize \in Nat /\ BlockSize > 1
  BY ContentTypes, Sizes DEF Content, Scan

LEMMA FillWorks ==
    ASSUME World, NEW c, Ready(c), Buffered(c)
    PROVE  LET d == Fill(c) IN
           /\ Ready(d) /\ Alike(c, d) /\ d.offset = c.offset /\ d.out = c.out
           /\ d.checksum = c.checksum
           /\ Buffered(d) /\ Filled(d)
           /\ c.tail <= d.tail /\ \A i \in 1 .. c.tail : d.buffer[i] = c.buffer[i]
           /\ AtEnd(c) => d = c
<1> DEFINE x == Content(c)
           want == Min2(Size(c.file) - c.read, 2 * BlockSize - c.tail)
           data == Part(x, c.read, want)
           u == UpdateHashes(c, data, want)
           buffer == [i \in 1 .. 2 * BlockSize |->
                        IF i <= c.tail THEN c.buffer[i]
                        ELSE IF i <= c.tail + want THEN data[i - c.tail] ELSE {}]
           d == Fill(c)
<1>0. c \in Scan /\ c.file \in Files /\ Hashed(c) /\ c.read <= Size(c.file)
  BY DEF Ready, Hashed
<1>1. /\ x \in Seq(Chars) /\ Size(c.file) = Len(x) /\ Size(c.file) \in Nat
      /\ c.offset \in Nat /\ c.read \in Nat /\ c.tail \in Nat /\ c.tail <= 2 * BlockSize
      /\ c.out \in Nat /\ c.buffer \in Buffers /\ BlockSize \in Nat
  BY <1>0, ReadyTypes
<1>2. CASE AtEnd(c)
  <2>1. d = c
    BY <1>2 DEF Fill
  <2>2. Filled(c)
    BY <1>0, <1>1, <1>2 DEF AtEnd, Filled
  <2>3. c.tail <= c.tail
    BY <1>1
  <2> HIDE DEF d
  <2> QED BY <2>1, <2>2, <2>3 DEF Alike, d
<1>3. CASE ~AtEnd(c)
  <2>1. c.read < Size(c.file)
    BY <1>1, <1>3 DEF AtEnd
  <2>2. want \in Nat /\ c.read + want <= Size(c.file) /\ c.tail + want <= 2 * BlockSize
          /\ (c.read + want = Size(c.file) \/ c.tail + want = 2 * BlockSize)
    BY <1>1, <2>1 DEF Min2
  <2>3. /\ u \in Scan /\ Alike(c, u)
        /\ u.offset = c.offset /\ u.out = c.out /\ u.tail = c.tail /\ u.read = c.read
        /\ u.buffer = c.buffer /\ u.checksum = c.checksum
        /\ u.short = Part(x, 0, Min2(c.read + want, Short))
        /\ u.full = IF c.read + want < Short THEN <<>> ELSE Part(x, 0, c.read + want)
    <3> HIDE DEF want
    <3> QED BY <1>0, <2>2, UpdateHashesWorks
  <2>4. \A i \in 1 .. want : data[i] = x[c.read + i] /\ data[i] \in Chars
    <3> HIDE DEF want, x
    <3>1. \A i \in 1 .. want : c.read + i \in 1 .. Len(x)
      BY <1>1, <2>2
    <3> QED BY <1>1, <3>1 DEF Part
  <2>5. buffer \in Buffers
    <3> HIDE DEF want, data, x
    <3>1. ASSUME NEW i \in 1 .. 2 * BlockSize
          PROVE  (IF i <= c.tail THEN c.buffer[i]
                  ELSE IF i <= c.tail + want THEN data[i - c.tail] ELSE {}) \in Chars
      <4>1. CASE i <= c.tail
        BY <1>1, <4>1 DEF Buffers
      <4>2. CASE ~(i <= c.tail) /\ i <= c.tail + want
        <5>1. i - c.tail \in 1 .. want
          BY <1>1, <2>2, <4>2
        <5> QED BY <2>4, <4>2, <5>1
      <4>3. CASE ~(i <= c.tail) /\ ~(i <= c.tail + want)
        BY <4>3, NoBits
      <4> QED BY <4>1, <4>2, <4>3
    <3> QED BY <3>1 DEF Buffers
  <2>6. d = [u EXCEPT !.buffer = buffer, !.read = c.read + want, !.tail = c.tail + want]
    <3> HIDE DEF want, buffer, u
    <3>1. u.read = c.read /\ u.tail = c.tail /\ u \in Scan
      BY <2>3
    <3>2. d = [u EXCEPT !.buffer = buffer, !.read = @ + want, !.tail = @ + want]
      BY <1>3 DEF Fill, u, want, buffer, data, x, Content
    <3> HIDE DEF d
    <3> QED BY <3>1, <3>2 DEF Scan
  <2>7. c.read + want \in Nat /\ c.tail + want \in 0 .. 2 * BlockSize
    <3> HIDE DEF want
    <3> QED BY <1>1, <2>2
  <2>8. /\ d \in Scan /\ d.read = c.read + want /\ d.tail = c.tail + want /\ d.buffer = buffer
        /\ d.offset = u.offset /\ d.out = u.out /\ d.checksum = u.checksum
        /\ d.short = u.short /\ d.full = u.full /\ Alike(u, d)
    <3> HIDE DEF want, buffer, u, d
    <3> QED BY <2>3, <2>5, <2>6, <2>7 DEF Scan, Alike
  <2>9. \A i \in 1 .. c.tail : buffer[i] = c.buffer[i]
    BY <1>1
  <2>10. \A i \in 1 .. c.tail + want : i > c.tail => buffer[i] = x[c.read + (i - c.tail)]
    <3> SUFFICES ASSUME NEW i \in 1 .. c.tail + want, i > c.tail
                 PROVE  buffer[i] = x[c.read + (i - c.tail)]
      OBVIOUS
    <3>1. i \in 1 .. 2 * BlockSize /\ ~(i <= c.tail) /\ i - c.tail \in 1 .. want
      <4> HIDE DEF want
      <4> QED BY <1>1, <2>2
    <3>2. buffer[i] = data[i - c.tail]
      <4> HIDE DEF want, data
      <4> QED BY <3>1
    <3> HIDE DEF data, want, buffer
    <3> QED BY <2>4, <3>1, <3>2
  <2> HIDE DEF want, data, u, buffer, d
  <2>11. Alike(c, d) /\ d.file = c.file
    BY <2>3, <2>8 DEF Alike
  <2>12. Content(d) = x /\ Size(d.file) = Size(c.file)
    BY <2>11 DEF Content
  <2>13. Ready(d)
    BY <1>0, <2>2, <2>3, <2>8, <2>11, <2>12 DEF Ready, Hashed
  <2>14. Filled(d)
    BY <2>2, <2>8, <2>11 DEF Filled
  <2>15. Buffered(d)
    <3>0. c.offset + c.tail = c.read + c.out /\ c.out <= c.offset /\ c.out <= c.tail
      BY DEF Buffered
    <3>00. want \in Nat
      BY <2>2
    <3>1. d.offset + d.tail = d.read + d.out /\ d.out <= d.offset /\ d.out <= d.tail
      <4>1. d.offset = c.offset /\ d.out = c.out /\ d.tail = c.tail + want /\ d.read = c.read + want
        BY <2>3, <2>8
      <4>2. c.offset + (c.tail + want) = (c.read + want) + c.out /\ c.out <= c.tail + want
        <5>1. \A o, t, r, u2, w \in Nat :
                o + t = r + u2 /\ u2 <= t => o + (t + w) = (r + w) + u2 /\ u2 <= t + w
          OBVIOUS
        <5>2. c.offset \in Nat /\ c.tail \in Nat /\ c.read \in Nat /\ c.out \in Nat /\ want \in Nat
          BY <1>1, <3>00
        <5> QED BY <3>0, <5>1, <5>2
      <4> QED BY <3>0, <4>1, <4>2
    <3>2. ASSUME NEW i \in 1 .. d.tail PROVE d.buffer[i] = x[d.offset - d.out + i]
      <4>1. d.offset = c.offset /\ d.out = c.out /\ d.tail = c.tail + want /\ d.buffer = buffer
        BY <2>3, <2>8
      <4>2. CASE i <= c.tail
        <5>1. i \in 1 .. c.tail
          BY <1>1, <4>1, <4>2, <2>2
        <5>2. c.buffer[i] = x[c.offset - c.out + i]
          BY <5>1 DEF Buffered
        <5> QED BY <2>9, <4>1, <5>1, <5>2
      <4>3. CASE ~(i <= c.tail)
        <5>1. i \in 1 .. c.tail + want /\ i > c.tail
          BY <1>1, <2>2, <4>1, <4>3
        <5>2. c.read + (i - c.tail) = c.offset - c.out + i
          <6>1. \A o, t, r, u2, n \in Nat : o + t = r + u2 => r + (n - t) = o - u2 + n
            OBVIOUS
          <6>2. c.offset \in Nat /\ c.tail \in Nat /\ c.read \in Nat /\ c.out \in Nat /\ i \in Nat
            BY <1>1, <3>00, <5>1
          <6> QED BY <3>0, <6>1, <6>2
        <5> QED BY <2>10, <4>1, <5>1, <5>2
      <4> QED BY <4>2, <4>3
    <3> HIDE DEF x
    <3> QED BY <2>12, <3>1, <3>2 DEF Buffered
  <2>16. c.tail <= d.tail /\ \A i \in 1 .. c.tail : d.buffer[i] = c.buffer[i]
    BY <1>1, <2>2, <2>8, <2>9
  <2> QED BY <1>3, <2>3, <2>8, <2>11, <2>13, <2>14, <2>15, <2>16 DEF d
<1> QED BY <1>2, <1>3

LEMMA WithChecksumWorks ==
    ASSUME World, NEW c, Ready(c), Buffered(c), Filled(c)
    PROVE  LET d == WithChecksum(c) IN Ready(d) /\ Alike(c, d) /\ Live(d) /\ d.offset = c.offset
<1> DEFINE d == WithChecksum(c)
<1>1. c \in Scan /\ CRC(Window(c)) \in Words
  BY WindowTypes, CRCTypes DEF Ready
<1>2. d = [c EXCEPT !.checksum = CRC(Window(c))]
  BY DEF WithChecksum
<1> HIDE DEF d
<1>3. /\ d \in Scan /\ Alike(c, d) /\ d.checksum = CRC(Window(c)) /\ d.read = c.read
      /\ d.buffer = c.buffer /\ d.tail = c.tail /\ d.out = c.out /\ d.offset = c.offset
      /\ d.short = c.short /\ d.full = c.full /\ d.file = c.file
  BY <1>1, <1>2 DEF Scan, Alike
<1>4. Window(d) = Window(c) /\ Content(d) = Content(c)
  BY <1>3 DEF Window, Content
<1>5. Ready(d)
  BY <1>3, <1>4 DEF Ready, Hashed
<1>6. Buffered(d) /\ Filled(d)
  BY <1>3, <1>4 DEF Buffered, Filled
<1> QED BY <1>3, <1>4, <1>5, <1>6 DEF d, Live

LEMMA EndedWorks ==
    ASSUME World, NEW c, Ready(c)
    PROVE  LET d == Ended(c) IN
           Ready(d) /\ Alike(c, d) /\ Live(d) /\ d.offset = Size(c.file)
<1> DEFINE buffer == [i \in 1 .. 2 * BlockSize |-> IF i <= BlockSize THEN {} ELSE c.buffer[i]]
           d == Ended(c)
<1>1. c \in Scan /\ c.file \in Files
  BY DEF Ready
<1>2. buffer \in Buffers
  BY <1>1, ReadyTypes, NoBits DEF Buffers
<1>3. d = [c EXCEPT !.offset = Size(c.file), !.tail = 0, !.out = 0, !.checksum = {},
                    !.buffer = buffer]
  BY DEF Ended
<1>4. Size(c.file) \in Nat /\ 0 \in 0 .. BlockSize - 1 /\ 0 \in 0 .. 2 * BlockSize /\ {} \in Words
  BY <1>1, ReadyTypes, NoBits
<1> HIDE DEF d, buffer
<1>5. /\ d \in Scan /\ Alike(c, d) /\ d.read = c.read /\ d.offset = Size(c.file)
      /\ d.short = c.short /\ d.full = c.full /\ d.file = c.file
  BY <1>1, <1>2, <1>3, <1>4 DEF Scan, Alike
<1>6. Content(d) = Content(c)
  BY <1>5 DEF Content
<1>7. Ready(d)
  BY <1>5, <1>6 DEF Ready, Hashed
<1>8. Live(d)
  <2>1. ~(d.offset < Size(d.file))
    BY <1>4, <1>5
  <2> QED BY <2>1 DEF Live
<1> QED BY <1>5, <1>7, <1>8 DEF d

\* There is something left in the buffer behind the first byte of the window.
LEMMA LiveRoom ==
    ASSUME World, NEW c, Ready(c), Live(c), c.offset < Size(c.file)
    PROVE  /\ c.out < c.tail
           /\ \A n \in 1 .. BlockSize : c.offset + n < Size(c.file) => c.out + n <= c.tail
           /\ c.read < Size(c.file) => c.tail = 2 * BlockSize
<1>1. c.offset \in Nat /\ c.read \in Nat /\ c.tail \in Nat /\ c.out \in Nat /\ Size(c.file) \in Nat
        /\ c.out < BlockSize /\ BlockSize \in Nat
  BY ReadyTypes DEF Ready
<1>2. c.offset + c.tail = c.read + c.out
  BY DEF Live, Buffered
<1>3. CASE c.read = Size(c.file)
  BY <1>1, <1>2, <1>3
<1>4. CASE c.tail = 2 * BlockSize
  BY <1>1, <1>4
<1> QED BY <1>3, <1>4 DEF Live, Filled

\* One step of the window within the buffer: the checksum is still exact.
LEMMA SlidChecksum ==
    ASSUME World, NEW c, Ready(c), Live(c), c.offset < Size(c.file)
    PROVE  /\ Slid(c) = [c EXCEPT !.offset = c.offset + 1, !.out = c.out + 1,
                                  !.checksum = CRC(Part(c.buffer, c.out + 1, BlockSize))]
           /\ Part(c.buffer, c.out + 1, BlockSize) \in Bytes
<1> DEFINE v == Window(c)
           w == Part(c.buffer, c.out + 1, BlockSize)
           in == c.buffer[c.out + BlockSize + 1]
           sum == Xor(windowmask, CRCSlideChar(Xor(windowmask, c.checksum), in, c.buffer[c.out + 1]))
<1>1. c \in Scan /\ c.buffer \in Buffers /\ c.out \in Nat /\ c.out < BlockSize /\ BlockSize \in Nat
        /\ BlockSize > 1
  BY ReadyTypes DEF Ready
<1>2. v \in Bytes
  BY <1>1, WindowTypes
<1>3. w \in Bytes
  <2>1. \A i \in 1 .. BlockSize : c.out + 1 + i \in 1 .. 2 * BlockSize
    BY <1>1
  <2> QED BY <1>1, <2>1 DEF Part, Buffers, Bytes
<1>4. \A i \in 1 .. BlockSize - 1 : w[i] = v[i + 1]
  <2> SUFFICES ASSUME NEW i \in 1 .. BlockSize - 1 PROVE w[i] = v[i + 1]
    OBVIOUS
  <2>1. i \in 1 .. BlockSize /\ i + 1 \in 1 .. BlockSize /\ c.out + 1 + i = c.out + (i + 1)
    BY <1>1
  <2>2. w[i] = c.buffer[c.out + 1 + i] /\ v[i + 1] = c.buffer[c.out + (i + 1)]
    BY <2>1 DEF Part, Window
  <2> QED BY <2>1, <2>2
<1>5. w[BlockSize] = in /\ v[1] = c.buffer[c.out + 1]
  <2>1. BlockSize \in 1 .. BlockSize /\ 1 \in 1 .. BlockSize
          /\ c.out + 1 + BlockSize = c.out + BlockSize + 1
    BY <1>1
  <2> QED BY <2>1 DEF Part, Window
<1>6. c.checksum = CRC(v)
  BY DEF Live
<1> HIDE DEF v, w
<1>7. sum = CRC(w)
  <2> HIDE DEF in
  <2>1. Xor(windowmask, CRCSlideChar(Xor(windowmask, CRC(v)), w[BlockSize], v[1])) = CRC(w)
    BY <1>2, <1>3, <1>4, SlidingIsExact
  <2> QED BY <1>5, <1>6, <2>1
<1>8. Slid(c) = [c EXCEPT !.offset = c.offset + 1, !.out = c.out + 1, !.checksum = sum]
  BY <1>1 DEF Slid, Scan
<1> HIDE DEF sum, in
<1>9. Slid(c) = [c EXCEPT !.offset = c.offset + 1, !.out = c.out + 1, !.checksum = CRC(w)]
  BY <1>7, <1>8
<1> QED BY <1>3, <1>9 DEF w

LEMMA SlidWorks ==
    ASSUME World, NEW c, Ready(c), Live(c), c.offset + 1 < Size(c.file), c.out + 1 < BlockSize
    PROVE  LET d == Slid(c) IN Ready(d) /\ Alike(c, d) /\ Live(d)
<1> DEFINE d == Slid(c)
           w == Part(c.buffer, c.out + 1, BlockSize)
<1>1. /\ c \in Scan /\ c.file \in Files /\ c.offset \in Nat /\ c.read \in Nat /\ c.tail \in Nat
      /\ c.out \in Nat /\ Size(c.file) \in Nat /\ c.out < BlockSize /\ BlockSize \in Nat
  BY ReadyTypes DEF Ready
<1>2. c.offset < Size(c.file)
  BY <1>1
<1>3. d = [c EXCEPT !.offset = c.offset + 1, !.out = c.out + 1, !.checksum = CRC(w)]
        /\ w \in Bytes
  BY <1>2, SlidChecksum
<1>4. CRC(w) \in Words /\ c.offset + 1 \in Nat /\ c.out + 1 \in 0 .. BlockSize - 1
  BY <1>1, <1>3, CRCTypes
<1>5. Buffered(c) /\ Filled(c) /\ c.out < c.tail
  BY <1>2, LiveRoom DEF Live
<1> HIDE DEF d, w
<1>6. /\ d \in Scan /\ Alike(c, d) /\ d.offset = c.offset + 1 /\ d.out = c.out + 1
      /\ d.checksum = CRC(w) /\ d.read = c.read /\ d.tail = c.tail /\ d.buffer = c.buffer
      /\ d.short = c.short /\ d.full = c.full /\ d.file = c.file
  BY <1>1, <1>3, <1>4 DEF Scan, Alike
<1>7. Content(d) = Content(c) /\ Window(d) = w
  BY <1>6 DEF Content, Window, w
<1>8. Ready(d)
  BY <1>1, <1>6, <1>7 DEF Ready, Hashed
<1>9. Buffered(d)
  <2>1. c.offset + c.tail = c.read + c.out /\ c.out <= c.offset /\ c.out <= c.tail
    BY <1>5 DEF Buffered
  <2>2. (c.offset + 1) + c.tail = c.read + (c.out + 1) /\ c.out + 1 <= c.offset + 1
          /\ c.out + 1 <= c.tail /\ (c.offset + 1) - (c.out + 1) = c.offset - c.out
    BY <1>1, <1>5, <2>1
  <2>3. \A i \in 1 .. c.tail : c.buffer[i] = Content(c)[c.offset - c.out + i]
    BY <1>5 DEF Buffered
  <2> QED BY <1>6, <1>7, <2>2, <2>3 DEF Buffered
<1>10. Filled(d)
  BY <1>5, <1>6 DEF Filled
<1> QED BY <1>6, <1>7, <1>8, <1>9, <1>10 DEF Live, d

LEMMA WrappedWorks ==
    ASSUME World, NEW c, Ready(c), Live(c), c.offset + 1 < Size(c.file), ~(c.out + 1 < BlockSize)
    PROVE  LET d == Fill(Wrapped(Slid(c))) IN Ready(d) /\ Alike(c, d) /\ Live(d)
<1> DEFINE w == Part(c.buffer, c.out + 1, BlockSize)
           e == Slid(c)
           f == Wrapped(e)
           d == Fill(f)
           buffer == [i \in 1 .. 2 * BlockSize |->
                        c.buffer[IF i <= BlockSize THEN i + BlockSize ELSE i]]
<1>1. /\ c \in Scan /\ c.file \in Files /\ c.offset \in Nat /\ c.read \in Nat /\ c.tail \in Nat
      /\ c.out \in Nat /\ Size(c.file) \in Nat /\ BlockSize \in Nat
      /\ c.buffer \in Buffers /\ c.tail <= 2 * BlockSize /\ BlockSize > 1
  BY ReadyTypes DEF Ready
<1>2. c.offset < Size(c.file) /\ c.out + 1 = BlockSize
  BY <1>1, ReadyTypes DEF Ready
<1>3. e = [c EXCEPT !.offset = c.offset + 1, !.out = c.out + 1, !.checksum = CRC(w)]
        /\ w \in Bytes
  BY <1>2, SlidChecksum
<1>4. buffer \in Buffers
  <2>1. \A i \in 1 .. 2 * BlockSize :
          (IF i <= BlockSize THEN i + BlockSize ELSE i) \in 1 .. 2 * BlockSize
    BY <1>1
  <2> QED BY <1>1, <2>1 DEF Buffers
<1>5. Buffered(c) /\ Filled(c) /\ c.out + 1 <= c.tail /\ c.offset + c.tail = c.read + c.out
        /\ (c.read < Size(c.file) => c.tail = 2 * BlockSize)
  <2>1. Buffered(c) /\ Filled(c) /\ c.offset + c.tail = c.read + c.out
          /\ (c.read < Size(c.file) => c.tail = 2 * BlockSize)
    BY <1>2, LiveRoom DEF Live, Buffered
  <2>2. c.out < c.tail
    BY <1>2, LiveRoom
  <2> QED BY <1>1, <2>1, <2>2
<1>6. CRC(w) \in Words /\ c.offset + 1 \in Nat /\ c.tail - BlockSize \in 0 .. 2 * BlockSize
        /\ 0 \in 0 .. BlockSize - 1 /\ c.tail - BlockSize <= BlockSize
  BY <1>1, <1>2, <1>3, <1>5, CRCTypes
<1> HIDE DEF w, e
<1>7. e.buffer = c.buffer /\ e.tail = c.tail
  BY <1>1, <1>3 DEF Scan
<1>8. f = [c EXCEPT !.offset = c.offset + 1, !.out = 0, !.checksum = CRC(w),
                    !.buffer = buffer, !.tail = c.tail - BlockSize]
  <2>1. Halved(e) = buffer
    BY <1>7 DEF Halved
  <2> HIDE DEF buffer
  <2>2. f = [e EXCEPT !.buffer = buffer, !.out = 0, !.tail = e.tail - BlockSize]
    <3>1. f = [e EXCEPT !.buffer = Halved(e), !.out = 0, !.tail = @ - BlockSize]
      BY DEF Wrapped
    <3> QED BY <1>1, <1>3, <2>1, <3>1 DEF Scan
  <2> HIDE DEF f
  <2> QED BY <1>1, <1>3, <1>7, <2>2 DEF Scan
<1> HIDE DEF f, buffer
<1>9. /\ f \in Scan /\ Alike(c, f) /\ f.offset = c.offset + 1 /\ f.out = 0
      /\ f.checksum = CRC(w) /\ f.read = c.read /\ f.tail = c.tail - BlockSize
      /\ f.buffer = buffer /\ f.short = c.short /\ f.full = c.full /\ f.file = c.file
  BY <1>1, <1>4, <1>6, <1>8 DEF Scan, Alike
<1>10. Content(f) = Content(c)
  BY <1>9 DEF Content
<1>11. Ready(f)
  BY <1>1, <1>9, <1>10 DEF Ready, Hashed
<1>12. Buffered(f)
  <2>1. (c.offset + 1) + (c.tail - BlockSize) = c.read + 0 /\ 0 <= c.offset + 1
          /\ 0 <= c.tail - BlockSize
    BY <1>1, <1>2, <1>5, <1>6
  <2>2. ASSUME NEW i \in 1 .. c.tail - BlockSize
        PROVE  buffer[i] = Content(c)[(c.offset + 1) - 0 + i]
    <3>1. i \in 1 .. 2 * BlockSize /\ i <= BlockSize /\ i + BlockSize \in 1 .. c.tail
            /\ c.offset - c.out + (i + BlockSize) = (c.offset + 1) - 0 + i
      BY <1>1, <1>2, <1>6
    <3>2. buffer[i] = c.buffer[i + BlockSize]
      BY <3>1 DEF buffer
    <3>3. c.buffer[i + BlockSize] = Content(c)[c.offset - c.out + (i + BlockSize)]
      BY <1>5, <3>1 DEF Buffered
    <3> QED BY <3>1, <3>2, <3>3
  <2> QED BY <1>9, <1>10, <2>1, <2>2 DEF Buffered
<1>13. /\ Ready(d) /\ Alike(f, d) /\ d.offset = f.offset /\ d.out = f.out
       /\ d.checksum = f.checksum /\ Buffered(d) /\ Filled(d)
       /\ \A i \in 1 .. f.tail : d.buffer[i] = f.buffer[i]
       /\ AtEnd(f) => d = f
  BY <1>11, <1>12, FillWorks
<1> HIDE DEF d
<1>14. \A i \in 1 .. BlockSize : d.buffer[i] = buffer[i]
  <2>1. CASE AtEnd(f)
    BY <1>9, <1>13, <2>1
  <2>2. CASE ~AtEnd(f)
    <3>1. c.read < Size(c.file)
      BY <1>1, <1>9, <2>2 DEF AtEnd
    <3>2. f.tail = BlockSize
      BY <1>1, <1>5, <1>9, <3>1
    <3> QED BY <1>9, <1>13, <3>2
  <2> QED BY <2>1, <2>2
<1>15. Window(d) = w
  <2>1. \A i \in 1 .. BlockSize : d.buffer[d.out + i] = c.buffer[c.out + 1 + i]
    <3> SUFFICES ASSUME NEW i \in 1 .. BlockSize
                 PROVE  d.buffer[d.out + i] = c.buffer[c.out + 1 + i]
      OBVIOUS
    <3>1. d.out + i = i /\ c.out + 1 + i = i + BlockSize /\ i \in 1 .. 2 * BlockSize /\ i <= BlockSize
      BY <1>1, <1>2, <1>9, <1>13
    <3>2. buffer[i] = c.buffer[i + BlockSize]
      BY <3>1 DEF buffer
    <3> QED BY <1>14, <3>1, <3>2
  <2> QED BY <2>1 DEF Window, w, Part
<1>16. Alike(c, d)
  BY <1>9, <1>13 DEF Alike
<1> QED BY <1>9, <1>13, <1>15, <1>16 DEF Live, d, f, e

LEMMA StepWorks ==
    ASSUME World, NEW c, Ready(c), Live(c), c.offset < Size(c.file)
    PROVE  LET d == Step(c) IN Ready(d) /\ Alike(c, d) /\ Live(d)
<1>1. c.offset \in Nat /\ Size(c.file) \in Nat
  BY ReadyTypes DEF Ready
<1>2. CASE c.offset + 1 >= Size(c.file)
  <2>1. Step(c) = Ended(c)
    BY <1>2 DEF Step
  <2> QED BY <2>1, EndedWorks
<1>3. CASE c.offset + 1 < Size(c.file) /\ c.out + 1 < BlockSize
  <2>1. Step(c) = Slid(c)
    BY <1>1, <1>3 DEF Step
  <2> QED BY <1>3, <2>1, SlidWorks
<1>4. CASE c.offset + 1 < Size(c.file) /\ ~(c.out + 1 < BlockSize)
  <2>1. Step(c) = Fill(Wrapped(Slid(c)))
    BY <1>1, <1>4 DEF Step
  <2> QED BY <1>4, <2>1, WrappedWorks
<1> QED BY <1>1, <1>2, <1>3, <1>4

LEMMA StartedWorks ==
    ASSUME World, NEW c, Ready(c), Buffered(c)
    PROVE  LET d == Started(c) IN Ready(d) /\ Alike(c, d) /\ Live(d) /\ d.offset = c.offset
<1> DEFINE e == Fill(c)
<1>1. Ready(e) /\ Alike(c, e) /\ Buffered(e) /\ Filled(e) /\ e.offset = c.offset
  BY FillWorks
<1>2. Started(c) = WithChecksum(e)
  BY DEF Started
<1> HIDE DEF e
<1>3. Ready(WithChecksum(e)) /\ Alike(e, WithChecksum(e)) /\ Live(WithChecksum(e))
        /\ WithChecksum(e).offset = e.offset
  BY <1>1, WithChecksumWorks
<1> QED BY <1>1, <1>2, <1>3 DEF Alike

LEMMA KeptWorks ==
    ASSUME World, NEW c, Ready(c), Live(c), NEW n \in 1 .. BlockSize, c.offset + n < Size(c.file)
    PROVE  LET d == [Kept(c, c.out + n) EXCEPT !.offset = @ + n]
           IN  Ready(d) /\ Alike(c, d) /\ Buffered(d)
<1> DEFINE keep == c.tail - (c.out + n)
           buffer == [i \in 1 .. 2 * BlockSize |-> c.buffer[IF i <= keep THEN (c.out + n) + i ELSE i]]
           d == [Kept(c, c.out + n) EXCEPT !.offset = @ + n]
<1>1. /\ c \in Scan /\ c.file \in Files /\ c.offset \in Nat /\ c.read \in Nat /\ c.tail \in Nat
      /\ c.out \in Nat /\ Size(c.file) \in Nat /\ BlockSize \in Nat
      /\ c.buffer \in Buffers /\ c.tail <= 2 * BlockSize /\ BlockSize > 1
  BY ReadyTypes DEF Ready
<1>2. c.offset < Size(c.file)
  BY <1>1
<1>3. c.out + n <= c.tail
  BY <1>2, LiveRoom
<1>4. c.offset + c.tail = c.read + c.out
        /\ \A i \in 1 .. c.tail : c.buffer[i] = Content(c)[c.offset - c.out + i]
  BY <1>2 DEF Live, Buffered
<1>5. keep \in 0 .. 2 * BlockSize /\ 0 \in 0 .. BlockSize - 1 /\ c.offset + n \in Nat
        /\ (c.out + n) + keep = c.tail
  BY <1>1, <1>3
<1> HIDE DEF keep
<1>6. buffer \in Buffers
  <2>1. \A i \in 1 .. 2 * BlockSize :
          (IF i <= keep THEN (c.out + n) + i ELSE i) \in 1 .. 2 * BlockSize
    BY <1>1, <1>5
  <2> QED BY <1>1, <2>1 DEF Buffers
<1>7. d = [c EXCEPT !.out = 0, !.tail = keep, !.buffer = buffer, !.offset = c.offset + n]
  <2> HIDE DEF buffer
  <2>1. Kept(c, c.out + n) = [c EXCEPT !.out = 0, !.tail = keep, !.buffer = buffer]
    BY DEF Kept, keep, buffer
  <2> QED BY <1>1, <2>1 DEF Scan
<1> HIDE DEF d, buffer
<1>8. /\ d \in Scan /\ Alike(c, d) /\ d.offset = c.offset + n /\ d.out = 0 /\ d.tail = keep
      /\ d.buffer = buffer /\ d.read = c.read /\ d.short = c.short /\ d.full = c.full
      /\ d.file = c.file
  BY <1>1, <1>5, <1>6, <1>7 DEF Scan, Alike
<1>9. Content(d) = Content(c)
  BY <1>8 DEF Content
<1>10. Ready(d)
  BY <1>1, <1>8, <1>9 DEF Ready, Hashed
<1>11. Buffered(d)
  <2>1. (c.offset + n) + keep = c.read + 0 /\ 0 <= c.offset + n /\ 0 <= keep
    BY <1>1, <1>4, <1>5
  <2>2. ASSUME NEW i \in 1 .. keep PROVE buffer[i] = Content(c)[(c.offset + n) - 0 + i]
    <3>1. i \in 1 .. 2 * BlockSize /\ i <= keep /\ (c.out + n) + i \in 1 .. c.tail
            /\ c.offset - c.out + ((c.out + n) + i) = (c.offset + n) - 0 + i
      BY <1>1, <1>5
    <3>2. buffer[i] = c.buffer[(c.out + n) + i]
      BY <3>1 DEF buffer
    <3> QED BY <1>4, <3>1, <3>2
  <2> QED BY <1>8, <1>9, <2>1, <2>2 DEF Buffered
<1> QED BY <1>8, <1>10, <1>11 DEF d

LEMMA JumpWorks ==
    ASSUME World, NEW c, Ready(c), Live(c), c.offset < Size(c.file), NEW n \in 1 .. BlockSize
    PROVE  LET d == Jump(c, n) IN Ready(d) /\ Alike(c, d) /\ Live(d)
<1>1. c.offset \in Nat /\ Size(c.file) \in Nat /\ BlockSize \in Nat
  BY ReadyTypes DEF Ready
<1>2. CASE n = 1
  <2>1. Jump(c, n) = Step(c)
    BY <1>2 DEF Jump
  <2> QED BY <2>1, StepWorks
<1>3. CASE n # 1 /\ c.offset + n >= Size(c.file)
  <2>1. Jump(c, n) = Ended(c)
    BY <1>3 DEF Jump
  <2> QED BY <2>1, EndedWorks
<1>4. CASE n # 1 /\ c.offset + n < Size(c.file)
  <2> DEFINE e == [Kept(c, c.out + n) EXCEPT !.offset = @ + n]
  <2>1. ~(c.offset + n >= Size(c.file))
    BY <1>1, <1>4
  <2>2. Jump(c, n) = Started(e)
    BY <1>4, <2>1 DEF Jump
  <2>3. Ready(e) /\ Alike(c, e) /\ Buffered(e)
    BY <1>4, KeptWorks
  <2> HIDE DEF e
  <2>4. Ready(Started(e)) /\ Alike(e, Started(e)) /\ Live(Started(e))
    BY <2>3, StartedWorks
  <2> QED BY <2>2, <2>3, <2>4 DEF Alike
<1> QED BY <1>1, <1>2, <1>3, <1>4

-----------------------------------------------------------------------------
(* Blocks, and the search for a match *)

\* The bytes at the front of a window are those of block b.
Matches(c, b) == \A i \in 1 .. Length(b) : Window(c)[i] = Sources[b[1]][Start(b) + i]

LEMMA Rounded ==
    ASSUME NEW L \in Nat, NEW B \in Nat, B > 0, NEW n \in 1 .. (L + B - 1) \div B
    PROVE  (n - 1) * B < L /\ (n - 1) * B \in Nat
<1> DEFINE q == (L + B - 1) \div B
<1>1. q \in Int /\ q * B <= L + B - 1
  OBVIOUS
<1>2. n \in Int /\ 1 <= n /\ n <= q
  BY <1>1
<1> HIDE DEF q
<1>3. (n - 1) * B <= (q - 1) * B
  BY <1>1, <1>2
<1>4. (q - 1) * B = q * B - B
  BY <1>1
<1> QED BY <1>1, <1>2, <1>3, <1>4

LEMMA BlockFacts ==
    ASSUME NEW b \in AllBlocks
    PROVE  /\ b = <<b[1], b[2]>> /\ b[1] \in SourceIds /\ b[2] \in Nat /\ b[2] >= 1
           /\ b[2] <= BlocksOf(b[1]) /\ b # NoBlock
           /\ Sources[b[1]] \in Seq(Chars) /\ Len(Sources[b[1]]) \in Nat
           /\ Start(b) \in Nat /\ Length(b) \in 1 .. BlockSize
           /\ Start(b) + Length(b) <= Len(Sources[b[1]])
<1>1. PICK s \in SourceIds : b \in {s} \X (1 .. BlocksOf(s))
  BY DEF AllBlocks
<1>2. b = <<b[1], b[2]>> /\ b[1] = s /\ b[2] \in 1 .. BlocksOf(s)
  BY <1>1
<1>3. Sources[s] \in Seq(Chars) /\ Len(Sources[s]) \in Nat /\ BlockSize \in Nat /\ BlockSize > 1
  BY Sizes
<1>4. b[2] \in Nat /\ b[2] >= 1 /\ b[2] <= BlocksOf(s)
  BY <1>2
<1>5. (b[2] - 1) * BlockSize < Len(Sources[s]) /\ (b[2] - 1) * BlockSize \in Nat
  <2>1. b[2] \in 1 .. (Len(Sources[s]) + BlockSize - 1) \div BlockSize
    BY <1>2 DEF BlocksOf
  <2>2. \A L, B \in Nat : B > 0 => \A n \in 1 .. (L + B - 1) \div B :
          (n - 1) * B < L /\ (n - 1) * B \in Nat
    BY Rounded
  <2>3. BlockSize > 0
    BY <1>3
  <2> QED BY <1>3, <2>1, <2>2, <2>3
<1>6. Start(b) \in Nat /\ Start(b) < Len(Sources[s])
  BY <1>5 DEF Start
<1>7. Length(b) = Min2(BlockSize, Len(Sources[s]) - Start(b))
  BY <1>2 DEF Length
<1>8. Length(b) \in 1 .. BlockSize /\ Start(b) + Length(b) <= Len(Sources[s])
  BY <1>3, <1>6, <1>7 DEF Min2
<1>9. b # NoBlock
  <2>1. s # 0
    BY Sizes DEF SourceIds
  <2> QED BY <1>2, <2>1 DEF NoBlock
<1> QED BY <1>2, <1>3, <1>4, <1>6, <1>8, <1>9

LEMMA NextBlockTypes == ASSUME NEW b \in AllBlocks PROVE NextBlock(b) \in MaybeBlock
<1>1. b[1] \in SourceIds /\ b[2] \in Nat /\ b[2] >= 1 /\ BlocksOf(b[1]) \in Int
  <2>1. b[1] \in SourceIds /\ b[2] \in Nat /\ b[2] >= 1 /\ Len(Sources[b[1]]) \in Nat
    BY BlockFacts
  <2> QED BY <2>1, Sizes DEF BlocksOf
<1>2. CASE b[2] < BlocksOf(b[1])
  <2>1. b[2] + 1 \in 1 .. BlocksOf(b[1])
    BY <1>1, <1>2
  <2>2. <<b[1], b[2] + 1>> \in {b[1]} \X (1 .. BlocksOf(b[1]))
    BY <2>1
  <2> QED BY <1>1, <1>2, <2>2 DEF NextBlock, AllBlocks, MaybeBlock
<1>3. CASE ~(b[2] < BlocksOf(b[1]))
  BY <1>3 DEF NextBlock, MaybeBlock
<1> QED BY <1>2, <1>3

\* Of any blocks one comes first.
LEMMA EarliestIs ==
    ASSUME NEW blocks \in SUBSET AllBlocks, blocks # {}
    PROVE  Earliest(blocks) \in blocks
<1> DEFINE firsts == {b[1] : b \in blocks}
<1>1. SourceIds \subseteq Nat
  BY Sizes DEF SourceIds
<1>2. \A b \in blocks : b[1] \in Nat /\ b[2] \in Nat
  BY <1>1, BlockFacts
<1>3. firsts \in SUBSET Nat /\ firsts # {}
  BY <1>2
<1>4. PICK s \in firsts : \A r \in firsts : s <= r
  <2> HIDE DEF firsts
  <2> QED BY <1>3, Least
<1> DEFINE seconds == {b[2] : b \in {d \in blocks : d[1] = s}}
<1>5. seconds \in SUBSET Nat /\ seconds # {}
  BY <1>2, <1>4
<1>6. PICK i \in seconds : \A j \in seconds : i <= j
  <2> HIDE DEF seconds
  <2> QED BY <1>5, Least
<1>7. PICK b \in blocks : b[1] = s /\ b[2] = i
  BY <1>6
<1>8. ASSUME NEW a \in blocks PROVE ~Earlier(a, b)
  <2>1. a[1] \in Nat /\ a[2] \in Nat /\ b[1] \in Nat /\ b[2] \in Nat
    BY <1>2
  <2>2. s <= a[1] /\ (a[1] = s => i <= a[2])
    BY <1>4, <1>6
  <2> QED BY <1>7, <2>1, <2>2 DEF Earlier
<1>9. \E d \in blocks : \A a \in blocks : ~Earlier(a, d)
  BY <1>8
<1> QED BY <1>9 DEF Earliest

\* What FindMatch returns is a block that is in the window.
LEMMA FindMatchWorks ==
    ASSUME NEW c \in Scan
    PROVE  LET m == FindMatch(c) IN
           m.block # NoBlock => m.block \in AllBlocks /\ Matches(c, m.block)
<1> DEFINE m == FindMatch(c)
           Right(r) == r.block # NoBlock => r.block \in AllBlocks /\ Matches(c, r.block)
<1>0. BlockSize \in Nat
  BY Sizes
<1>1. \A b \in AllBlocks : Padded(b) = Window(c) => Matches(c, b)
  <2> SUFFICES ASSUME NEW b \in AllBlocks, Padded(b) = Window(c) PROVE Matches(c, b)
    OBVIOUS
  <2>1. Length(b) \in 1 .. BlockSize
    BY BlockFacts
  <2>2. \A i \in 1 .. Length(b) : Padded(b)[i] = Sources[b[1]][Start(b) + i]
    BY <1>0, <2>1 DEF Padded
  <2> QED BY <2>2 DEF Matches
<1>2. \A b \in AllBlocks : Matches(c, b) => Right(Found(b))
  BY DEF Found
<1>3. Right(Nothing) /\ Right(Duplicate)
  BY DEF Nothing, Duplicate
<1>4. \A b \in Same(c) : b \in AllBlocks /\ Matches(c, b)
  BY <1>1 DEF Same, Entries
<1>5. CASE LastExpected(c)
  <2>1. c.next \in AllBlocks /\ m = Found(c.next)
    BY <1>5 DEF LastExpected, FindMatch, Scan, MaybeBlock
  <2>2. Part(Window(c), 0, Length(c.next)) = Part(Sources[c.next[1]], Start(c.next), Length(c.next))
    BY <1>5 DEF LastExpected, Data
  <2>3. Length(c.next) \in 1 .. BlockSize
    BY <2>1, BlockFacts
  <2>4. \A i \in 1 .. Length(c.next) : Window(c)[0 + i] = Sources[c.next[1]][Start(c.next) + i]
    BY <2>2 DEF Part
  <2>5. \A i \in 1 .. Length(c.next) : 0 + i = i
    OBVIOUS
  <2>6. Matches(c, c.next)
    BY <2>4, <2>5 DEF Matches
  <2> QED BY <1>2, <2>1, <2>6
<1>6. CASE ~LastExpected(c) /\ Expected(c)
  <2>1. c.next \in AllBlocks /\ m = Found(c.next) /\ Padded(c.next) = Window(c)
    BY <1>6 DEF Expected, FindMatch, Scan, MaybeBlock
  <2> QED BY <1>1, <1>2, <2>1
<1>7. CASE ~(LastExpected(c) \/ Expected(c)) /\ Same(c) = {}
  <2>1. m = Nothing
    BY <1>7 DEF FindMatch
  <2> QED BY <1>3, <2>1
<1>8. CASE ~(LastExpected(c) \/ Expected(c)) /\ \E b \in Same(c) : Same(c) = {b}
  <2>1. m = OnlyMatch(c, CHOOSE b \in Same(c) : TRUE) /\ (CHOOSE b \in Same(c) : TRUE) \in Same(c)
    BY <1>8 DEF FindMatch
  <2>2. \A b : OnlyMatch(c, b) = Found(b) \/ OnlyMatch(c, b) = Nothing \/ OnlyMatch(c, b) = Duplicate
    <3> HIDE DEF Found, Nothing, Duplicate
    <3> QED BY DEF OnlyMatch
  <2> DEFINE x == CHOOSE b \in Same(c) : TRUE
  <2>3. m = OnlyMatch(c, x) /\ x \in Same(c)
    BY <2>1
  <2> HIDE DEF m, x
  <2>4. m = Found(x) \/ m = Nothing \/ m = Duplicate
    BY <2>2, <2>3
  <2>5. Right(m)
    <3> HIDE DEF Right
    <3> QED BY <1>2, <1>3, <1>4, <2>3, <2>4
  <2> QED BY <2>5 DEF m
<1>9. CASE ~(LastExpected(c) \/ Expected(c)) /\ Same(c) # {} /\ ~(\E b \in Same(c) : Same(c) = {b})
  <2> DEFINE usable == {b \in Same(c) : ~IsSet(b) /\ ~WrongLength(c, b)}
             own    == {b \in usable : b[1] = c.source}
             best   == IF own # {} THEN own ELSE usable
  <2>1. m = IF usable = {} THEN Duplicate ELSE Found(Earliest(best))
    BY <1>9 DEF FindMatch, SeveralMatches
  <2>2. CASE usable = {}
    BY <1>3, <2>1, <2>2
  <2>3. CASE usable # {}
    <3>1. best \in SUBSET Same(c) /\ best # {}
      BY <2>3
    <3> HIDE DEF best
    <3>2. best \in SUBSET AllBlocks
      BY <1>4, <3>1
    <3>3. Earliest(best) \in Same(c)
      BY <3>1, <3>2, EarliestIs
    <3> QED BY <1>2, <1>4, <2>1, <2>3, <3>3
  <2> QED BY <2>2, <2>3
<1> QED BY <1>5, <1>6, <1>7, <1>8, <1>9

\* The window holds the bytes of the file at its offset, as far as the file goes.
LEMMA WindowIsFile ==
    ASSUME World, NEW c, Ready(c), Live(c), c.offset < Size(c.file)
    PROVE  /\ \A i \in 1 .. BlockSize : c.offset + i <= Size(c.file) =>
                Window(c)[i] = Content(c)[c.offset + i]
           /\ BlockLength(c) \in 1 .. BlockSize /\ c.offset + BlockLength(c) <= Size(c.file)
<1>1. /\ c.offset \in Nat /\ c.read \in Nat /\ c.tail \in Nat /\ c.out \in Nat
      /\ Size(c.file) \in Nat /\ c.out < BlockSize /\ BlockSize \in Nat /\ BlockSize > 1
  BY ReadyTypes DEF Ready
<1>2. c.offset + c.tail = c.read + c.out /\ (c.read = Size(c.file) \/ c.tail = 2 * BlockSize)
  BY DEF Live, Buffered, Filled
<1>3. \A i \in 1 .. c.tail : c.buffer[i] = Content(c)[c.offset - c.out + i]
  BY DEF Live, Buffered
<1>4. ASSUME NEW i \in 1 .. BlockSize, c.offset + i <= Size(c.file)
      PROVE  Window(c)[i] = Content(c)[c.offset + i]
  <2>1. c.out + i \in 1 .. c.tail
    BY <1>1, <1>2, <1>4
  <2>2. c.offset - c.out + (c.out + i) = c.offset + i
    BY <1>1
  <2>3. Window(c)[i] = c.buffer[c.out + i]
    BY DEF Window, Part
  <2> QED BY <1>3, <2>1, <2>2, <2>3
<1>5. BlockLength(c) \in 1 .. BlockSize /\ c.offset + BlockLength(c) <= Size(c.file)
  BY <1>1 DEF BlockLength, Min2
<1> QED BY <1>4, <1>5

LEMMA WindowPart ==
    ASSUME World, NEW c, Ready(c), Live(c), c.offset < Size(c.file)
    PROVE  Part(Window(c), 0, BlockLength(c)) = Part(Content(c), c.offset, BlockLength(c))
<1>1. c.offset \in Nat /\ Size(c.file) \in Nat /\ BlockSize \in Nat
  BY ReadyTypes DEF Ready
<1>2. BlockLength(c) \in 1 .. BlockSize /\ c.offset + BlockLength(c) <= Size(c.file)
  BY WindowIsFile
<1>3. \A i \in 1 .. BlockLength(c) : Window(c)[0 + i] = Content(c)[c.offset + i]
  <2> SUFFICES ASSUME NEW i \in 1 .. BlockLength(c) PROVE Window(c)[0 + i] = Content(c)[c.offset + i]
    OBVIOUS
  <2>1. i \in 1 .. BlockSize /\ c.offset + i <= Size(c.file) /\ 0 + i = i
    BY <1>1, <1>2
  <2> QED BY <2>1, WindowIsFile
<1> QED BY <1>3 DEF Part

\* A block that matches is in the file, if the file has as many bytes there.
IsThere(f, offset, b) == Part(disk[f].data, offset, Length(b)) = Data(b)
LEMMA MatchIsThere ==
    ASSUME World, NEW c, Ready(c), Live(c), c.offset < Size(c.file),
           NEW b \in AllBlocks, Matches(c, b), c.offset + Length(b) <= Size(c.file)
    PROVE  IsThere(c.file, c.offset, b)
<1>1. c.offset \in Nat /\ Size(c.file) \in Nat /\ BlockSize \in Nat
  BY ReadyTypes DEF Ready
<1>2. Length(b) \in 1 .. BlockSize
  BY BlockFacts
<1>3. \A i \in 1 .. Length(b) : Content(c)[c.offset + i] = Sources[b[1]][Start(b) + i]
  <2> SUFFICES ASSUME NEW i \in 1 .. Length(b)
               PROVE  Content(c)[c.offset + i] = Sources[b[1]][Start(b) + i]
    OBVIOUS
  <2>1. i \in 1 .. BlockSize /\ c.offset + i <= Size(c.file)
    BY <1>1, <1>2
  <2>2. Window(c)[i] = Content(c)[c.offset + i]
    BY <2>1, WindowIsFile
  <2>3. Window(c)[i] = Sources[b[1]][Start(b) + i]
    BY DEF Matches
  <2> QED BY <2>2, <2>3
<1> QED BY <1>3 DEF IsThere, Part, Data, Content

-----------------------------------------------------------------------------
(* The thread of a scan *)

\* What is known of the checksummer and of the block found, at each stage.
Sound(c) ==
    /\ IF c.pc = "idle" THEN c = Idle ELSE Ready(c)
    /\ c.pc \in {"scan", "setfile", "setoffset"} => Live(c)
    /\ c.pc \in {"setfile", "setoffset"} =>
         c.block \in AllBlocks /\ c.offset < Size(c.file) /\ Matches(c, c.block)

\* Thread t goes on as d.
GoesOnAs(t, d) == d \in Scan /\ Sound(d) /\ scan' = [scan EXCEPT ![t] = d]

LEMMA IdleTypes ==
    /\ Idle \in Scan /\ Idle.pc = "idle" /\ Idle.file = NoFile
    /\ Idle.offset = 0 /\ Idle.read = 0 /\ Idle.out = 0 /\ Idle.tail = 0 /\ Idle.count = 0
    /\ Idle.short = <<>> /\ Idle.full = <<>> /\ Idle.block = NoBlock /\ Idle.next = NoBlock
<1>1. 0 \in 0 .. BlockSize - 1 /\ 0 \in 0 .. 2 * BlockSize /\ 0 \in Nat
  BY Sizes
<1>2. [i \in 1 .. 2 * BlockSize |-> {}] \in Buffers
  BY NoBits DEF Buffers
<1>3. <<>> \in Seq(Chars) /\ {} \in Words
  BY NoBits
<1> DEFINE buffer == [i \in 1 .. 2 * BlockSize |-> {}]
<1>4. buffer \in Buffers
  BY <1>2
<1>5. Idle = [pc |-> "idle", file |-> NoFile, source |-> 0, offset |-> 0, read |-> 0,
              buffer |-> buffer, out |-> 0, tail |-> 0, checksum |-> {},
              short |-> <<>>, full |-> <<>>, next |-> NoBlock, count |-> 0,
              partial |-> FALSE, block |-> NoBlock]
  BY DEF Idle
<1> HIDE DEF buffer
<1> QED BY <1>1, <1>3, <1>4, <1>5 DEF Scan, Pcs, MaybeBlock

LEMMA IdleSound == Sound(Idle)
  BY IdleTypes DEF Sound

LEMMA SoundStays == ASSUME disk' = disk, NEW c, Sound(c) PROVE Sound(c)'
  BY DEF Sound, Ready, Hashed, Live, Buffered, Filled, Matches, Content, Size

\* A scan begins.
LEMMA BeginWorks ==
    ASSUME World, NEW t \in Threads, NEW f \in Files, NEW s \in SourceIds \cup {0}, Begin(t, f, s)
    PROVE  \E d : /\ GoesOnAs(t, d) /\ d.file = f /\ d.count = 0
                  /\ d.pc \in {"scan", "whole"}
                  /\ d.pc = "scan" => blockverifiable
<1> DEFINE c == [Idle EXCEPT !.pc = "scan", !.file = f, !.source = s]
           e == [c EXCEPT !.pc = "whole"]
<1>1. Size(f) \in Nat /\ disk[f].data \in Seq(Chars)
  BY ContentTypes
<1>2. /\ c \in Scan /\ c.pc = "scan" /\ c.file = f /\ c.read = 0 /\ c.short = <<>> /\ c.full = <<>>
      /\ c.offset = 0 /\ c.tail = 0 /\ c.out = 0 /\ c.count = 0
  BY IdleTypes DEF Scan, Pcs
<1>3. /\ e \in Scan /\ e.pc = "whole" /\ e.file = f /\ e.read = 0 /\ e.short = <<>> /\ e.full = <<>>
      /\ e.count = 0
  <2> HIDE DEF c
  <2> QED BY <1>2 DEF Scan, Pcs
<1>4. \A x \in Scan : x.file = f /\ x.read = 0 /\ x.short = <<>> /\ x.full = <<>> => Ready(x)
  <2> SUFFICES ASSUME NEW x \in Scan, x.file = f, x.read = 0, x.short = <<>>, x.full = <<>>
               PROVE  Hashed(x)
    BY DEF Ready
  <2>1. 0 < Short /\ Min2(0, Short) = 0 /\ 0 <= Size(f)
    BY <1>1, Sizes DEF Min2
  <2>2. Part(Content(x), 0, 0) = <<>>
    BY PartEmpty
  <2> QED BY <2>1, <2>2 DEF Hashed
<1>5. Ready(c) /\ Ready(e)
  <2> HIDE DEF c, e
  <2> QED BY <1>2, <1>3, <1>4
<1>6. scan' = [scan EXCEPT ![t] = IF blockverifiable /\ Size(f) > 0 THEN Started(c) ELSE e]
  BY DEF Begin
<1> HIDE DEF c, e
<1>7. CASE blockverifiable /\ Size(f) > 0
  <2>1. Buffered(c)
    <3>1. 0 + 0 = 0 + 0 /\ 0 <= 0 /\ \A i \in 1 .. 0 : FALSE
      OBVIOUS
    <3> QED BY <1>2, <3>1 DEF Buffered
  <2>2. Ready(Started(c)) /\ Alike(c, Started(c)) /\ Live(Started(c))
    BY <1>5, <2>1, StartedWorks
  <2> DEFINE d == Started(c)
  <2>3. Ready(d) /\ Live(d) /\ d.pc = "scan" /\ d.file = f /\ d.count = 0
    BY <1>2, <2>2 DEF Alike
  <2>4. scan' = [scan EXCEPT ![t] = d]
    BY <1>6, <1>7
  <2> HIDE DEF d
  <2>5. Sound(d) /\ d \in Scan
    BY <2>3 DEF Sound, Ready
  <2> QED BY <1>7, <2>3, <2>4, <2>5 DEF GoesOnAs
<1>8. CASE ~(blockverifiable /\ Size(f) > 0)
  <2>1. Sound(e)
    BY <1>3, <1>5 DEF Sound
  <2>2. scan' = [scan EXCEPT ![t] = e]
    BY <1>6, <1>8
  <2> QED BY <1>3, <2>1, <2>2 DEF GoesOnAs
<1> QED BY <1>7, <1>8

\* A change of the local variables of a scan leaves the checksummer as it is.
Changes(c, d) ==
    /\ d \in Scan /\ d.file = c.file /\ d.offset = c.offset /\ d.read = c.read /\ d.buffer = c.buffer
    /\ d.out = c.out /\ d.tail = c.tail /\ d.checksum = c.checksum
    /\ d.short = c.short /\ d.full = c.full

LEMMA ChangesWork ==
    ASSUME NEW c, NEW d, Ready(c), Changes(c, d)
    PROVE  /\ Ready(d)
           /\ Live(c) => Live(d)
           /\ \A b : Matches(c, b) => Matches(d, b)
<1>1. Content(d) = Content(c) /\ Window(d) = Window(c)
  BY DEF Changes, Content, Window
<1>2. Ready(d)
  BY <1>1 DEF Ready, Hashed, Changes
<1>3. ASSUME Live(c) PROVE Live(d)
  BY <1>1, <1>3 DEF Live, Buffered, Filled, Changes
<1>4. \A b : Matches(c, b) => Matches(d, b)
  BY <1>1 DEF Matches
<1> QED BY <1>2, <1>3, <1>4

LEMMA MatchWorks ==
    ASSUME World, NEW t \in Threads, NEW c \in Scan, c = scan[t], Sound(c), MatchBlock(t)
    PROVE  \E d : /\ GoesOnAs(t, d) /\ c.pc = "scan" /\ d.file = c.file /\ d.count = c.count
                  /\ d.pc \in {"scan", "setfile"}
<1> DEFINE m == FindMatch(c)
           lost == [c EXCEPT !.partial = TRUE, !.next = NoBlock]
           found == [c EXCEPT !.pc = "setfile", !.block = m.block,
                       !.partial = @ \/ Breaks(c, m.block),
                       !.source = IF c.count = 0 THEN m.block[1] ELSE @]
<1>1. /\ c.pc = "scan" /\ c.offset < Size(c.file)
      /\ scan' = [scan EXCEPT ![t] = IF m.block # NoBlock THEN found
                                  ELSE IF m.duplicate THEN Jump(lost, BlockSize) ELSE Step(lost)]
  BY DEF MatchBlock
<1>2. Ready(c) /\ Live(c)
  BY <1>1 DEF Sound
<1>3. m.block # NoBlock => m.block \in AllBlocks /\ Matches(c, m.block)
  BY FindMatchWorks
<1> HIDE DEF m
<1>4. CASE m.block # NoBlock
  <2> DEFINE x == c.partial \/ Breaks(c, m.block)
             y == IF c.count = 0 THEN m.block[1] ELSE c.source
  <2>1. x \in BOOLEAN
    BY DEF Scan
  <2>2. y \in SourceIds \cup {0}
    <3>1. m.block[1] \in SourceIds
      BY <1>3, <1>4, BlockFacts
    <3> QED BY <3>1 DEF Scan
  <2>3. found = [c EXCEPT !.pc = "setfile", !.block = m.block, !.partial = x, !.source = y]
    OBVIOUS
  <2> HIDE DEF x, y, found
  <2>4. Changes(c, found) /\ found.pc = "setfile" /\ found.block = m.block /\ found.count = c.count
    BY <1>3, <1>4, <2>1, <2>2, <2>3 DEF Scan, Changes, Pcs, MaybeBlock
  <2>5. Ready(found) /\ Live(found) /\ Matches(found, m.block)
    BY <1>2, <1>3, <1>4, <2>4, ChangesWork
  <2>6. Sound(found)
    <3>1. found.offset < Size(found.file)
      BY <1>1, <2>4 DEF Changes
    <3> QED BY <1>3, <1>4, <2>4, <2>5, <3>1 DEF Sound
  <2>7. scan' = [scan EXCEPT ![t] = found]
    BY <1>1, <1>4
  <2>8. found \in Scan /\ found.file = c.file
    BY <2>4 DEF Changes
  <2> QED BY <1>1, <2>4, <2>6, <2>7, <2>8 DEF GoesOnAs
<1>5. CASE m.block = NoBlock
  <2> DEFINE d == IF m.duplicate THEN Jump(lost, BlockSize) ELSE Step(lost)
  <2>1. scan' = [scan EXCEPT ![t] = d]
    BY <1>1, <1>5
  <2>2. Changes(c, lost) /\ lost.pc = "scan" /\ lost.count = c.count
    BY <1>1 DEF Scan, Changes, MaybeBlock
  <2> HIDE DEF lost
  <2>3. Ready(lost) /\ Live(lost) /\ lost.offset < Size(lost.file) /\ lost.file = c.file
    <3>1. lost.offset < Size(lost.file) /\ lost.file = c.file
      BY <1>1, <2>2 DEF Changes
    <3> QED BY <1>2, <2>2, <3>1, ChangesWork
  <2>4. BlockSize \in 1 .. BlockSize
    BY Sizes
  <2>5. Ready(d) /\ Alike(lost, d) /\ Live(d)
    <3>1. CASE m.duplicate
      BY <2>3, <2>4, <3>1, JumpWorks
    <3>2. CASE ~m.duplicate
      BY <2>3, <3>2, StepWorks
    <3> QED BY <3>1, <3>2
  <2> HIDE DEF d
  <2>6. d.pc = "scan" /\ d.file = c.file /\ d.count = c.count /\ d \in Scan
    BY <2>2, <2>3, <2>5 DEF Alike, Ready
  <2>7. Sound(d)
    BY <2>5, <2>6 DEF Sound
  <2> QED BY <1>1, <2>1, <2>6, <2>7 DEF GoesOnAs
<1> QED BY <1>4, <1>5

LEMMA SetFileWorks ==
    ASSUME World, scan \in [Threads -> Scan],
           NEW t \in Threads, NEW c \in Scan, c = scan[t], Sound(c), SetFile(t)
    PROVE  \E d : /\ GoesOnAs(t, d) /\ c.pc = "setfile" /\ d.pc = "setoffset"
                  /\ d.file = c.file /\ d.count = c.count /\ d.block = c.block
                  /\ c.block \in AllBlocks
<1> DEFINE d == [c EXCEPT !.pc = "setoffset"]
<1>1. c.pc = "setfile" /\ scan' = [scan EXCEPT ![t] = d]
  BY DEF SetFile
<1>2. Changes(c, d) /\ d.pc = "setoffset" /\ d.block = c.block /\ d.count = c.count
  BY DEF Scan, Changes, Pcs
<1> HIDE DEF d
<1>3. Ready(c) /\ Live(c) /\ c.block \in AllBlocks /\ c.offset < Size(c.file) /\ Matches(c, c.block)
  BY <1>1 DEF Sound
<1>4. Ready(d) /\ Live(d) /\ Matches(d, d.block)
  BY <1>2, <1>3, ChangesWork
<1>5. d.file = c.file /\ d.offset = c.offset /\ d \in Scan
  BY <1>2 DEF Changes
<1>6. Sound(d)
  BY <1>2, <1>3, <1>4, <1>5 DEF Sound
<1> QED BY <1>1, <1>2, <1>3, <1>5, <1>6 DEF GoesOnAs

LEMMA SetOffsetWorks ==
    ASSUME World, NEW t \in Threads, NEW c \in Scan, c = scan[t], Sound(c), SetOffset(t)
    PROVE  /\ c.pc = "setoffset" /\ c.block \in AllBlocks
           /\ \E d : /\ GoesOnAs(t, d) /\ d.pc = "scan" /\ d.file = c.file /\ d.count = c.count + 1
<1> DEFINE e == [c EXCEPT !.pc = "scan", !.count = Counted(c), !.next = NextBlock(c.block),
                          !.block = NoBlock]
           d == Jump(e, Length(c.block))
<1>1. c.pc = "setoffset" /\ scan' = [scan EXCEPT ![t] = d]
  BY DEF SetOffset
<1>2. Ready(c) /\ Live(c) /\ c.block \in AllBlocks /\ c.offset < Size(c.file)
  BY <1>1 DEF Sound
<1>3. NextBlock(c.block) \in MaybeBlock /\ Length(c.block) \in 1 .. BlockSize
        /\ Counted(c) = c.count + 1 /\ c.count + 1 \in Nat
  BY <1>2, NextBlockTypes, BlockFacts DEF Counted, Scan
<1>4. Changes(c, e) /\ e.pc = "scan" /\ e.count = c.count + 1
  <2> DEFINE n == NextBlock(c.block)
             k == Counted(c)
  <2>1. e = [c EXCEPT !.pc = "scan", !.count = k, !.next = n, !.block = NoBlock]
          /\ n \in MaybeBlock /\ k = c.count + 1 /\ k \in Nat
    BY <1>3
  <2> HIDE DEF n, k, e
  <2> QED BY <2>1 DEF Scan, Changes, Pcs, MaybeBlock
<1> HIDE DEF e
<1>5. Ready(e) /\ Live(e) /\ e.offset < Size(e.file) /\ e.file = c.file
  <2>1. e.offset < Size(e.file) /\ e.file = c.file
    BY <1>2, <1>4 DEF Changes
  <2> QED BY <1>2, <1>4, <2>1, ChangesWork
<1>6. Ready(d) /\ Alike(e, d) /\ Live(d)
  BY <1>3, <1>5, JumpWorks
<1> HIDE DEF d
<1>7. d.pc = "scan" /\ d.file = c.file /\ d.count = c.count + 1 /\ d \in Scan
  BY <1>4, <1>5, <1>6 DEF Alike, Ready
<1>8. Sound(d)
  BY <1>6, <1>7 DEF Sound
<1> QED BY <1>1, <1>2, <1>7, <1>8 DEF GoesOnAs

LEMMA EndWorks ==
    ASSUME World, NEW t \in Threads, NEW c \in Scan, c = scan[t], Sound(c), EndScan(t)
    PROVE  /\ c.pc = "scan" /\ c.count \in Nat
           /\ \E d : /\ GoesOnAs(t, d)
                     /\ IF c.count > 0 THEN d = Idle ELSE d.pc = "whole" /\ d.file = c.file
<1> DEFINE d == IF c.count > 0 THEN Idle ELSE [c EXCEPT !.pc = "whole"]
<1>1. c.pc = "scan" /\ scan' = [scan EXCEPT ![t] = d]
  BY DEF EndScan
<1>2. Ready(c) /\ c.count \in Nat
  BY <1>1 DEF Sound, Scan
<1>3. CASE c.count > 0
  BY <1>1, <1>2, <1>3, IdleTypes, IdleSound DEF GoesOnAs
<1>4. CASE ~(c.count > 0)
  <2> DEFINE e == [c EXCEPT !.pc = "whole"]
  <2>1. scan' = [scan EXCEPT ![t] = e]
    BY <1>1, <1>4
  <2>2. Changes(c, e) /\ e.pc = "whole" /\ e.file = c.file
    BY DEF Scan, Changes, Pcs
  <2> HIDE DEF e
  <2>3. Ready(e) /\ e \in Scan
    BY <1>2, <2>2, ChangesWork DEF Changes
  <2>4. Sound(e)
    BY <2>2, <2>3 DEF Sound
  <2> QED BY <1>1, <1>2, <1>4, <2>1, <2>2, <2>3, <2>4 DEF GoesOnAs
<1> QED BY <1>3, <1>4

-----------------------------------------------------------------------------
(* Types, and what every thread's checksummer holds *)

Locations == [AllBlocks -> [file : Files \cup {NoFile}, offset : Nat]]
Types ==
    /\ World
    /\ concurrent \in BOOLEAN /\ phase \in {"verify", "extras", "failed", "done"}
    /\ next \in 1 .. NumSources + Extras + 1
    /\ scan \in [Threads -> Scan]
    /\ location \in Locations
    /\ complete \in [SourceIds -> Files \cup {NoFile}]
    /\ blockcount \in [Files -> Nat]
    /\ completefilecount \in 0 .. NumSources
AllSound == \A t \in Threads, c \in Scan : c = scan[t] => Sound(c)
Inv == Types /\ AllSound

\* What a step may do to the scans: nothing, or one thread goes on.
LEMMA SoundStep ==
    ASSUME Inv, disk' = disk, verifiable' = verifiable,
           UNCHANGED scan \/ \E t \in Threads : \E d : GoesOnAs(t, d)
    PROVE  scan' \in [Threads -> Scan] /\ AllSound'
<1>1. ASSUME NEW c, Sound(c) PROVE Sound(c)'
  BY <1>1, SoundStays
<1>2. CASE UNCHANGED scan
  BY <1>1, <1>2 DEF Inv, Types, AllSound
<1>3. CASE \E t \in Threads : \E d : GoesOnAs(t, d)
  <2>1. PICK t \in Threads : \E d : GoesOnAs(t, d)
    BY <1>3
  <2>2. PICK d : GoesOnAs(t, d)
    BY <2>1
  <2>3. d \in Scan /\ Sound(d) /\ scan' = [scan EXCEPT ![t] = d]
    BY <2>2 DEF GoesOnAs
  <2>4. ASSUME NEW u \in Threads, NEW c \in Scan, c = scan'[u] PROVE Sound(c)'
    <3>1. CASE u = t
      BY <1>1, <2>3, <2>4, <3>1 DEF Inv, Types
    <3>2. CASE u # t
      <4>1. c = scan[u]
        BY <2>3, <2>4, <3>2 DEF Inv, Types
      <4>2. Sound(c)
        BY <4>1 DEF Inv, AllSound
      <4> QED BY <1>1, <4>2
    <3> QED BY <3>1, <3>2
  <2> QED BY <2>3, <2>4 DEF Inv, Types, AllSound
<1> QED BY <1>2, <1>3

LEMMA CountFits == ASSUME NEW S \in SUBSET SourceIds PROVE Cardinality(S) \in 0 .. NumSources
<1>1. NumSources \in Nat
  BY Sizes
<1>2. IsFiniteSet(SourceIds) /\ Cardinality(SourceIds) = NumSources
  BY <1>1, FS_Interval DEF SourceIds
<1>3. IsFiniteSet(S) /\ Cardinality(S) <= NumSources
  BY <1>2, FS_Subset
<1> QED BY <1>1, <1>3, FS_CardinalityType

LEMMA CompleteFits ==
    CompleteFiles \in 0 .. NumSources /\ CompleteFiles' \in 0 .. NumSources
<1>1. {s \in SourceIds : complete[s] # NoFile} \in SUBSET SourceIds
        /\ {s \in SourceIds : complete'[s] # NoFile} \in SUBSET SourceIds
  OBVIOUS
<1> QED BY <1>1, CountFits DEF CompleteFiles

\* The two halves of a location are set on their own.
LEMMA SetFilePart ==
    ASSUME NEW L \in Locations, NEW b \in AllBlocks, NEW f \in Files \cup {NoFile}, NEW M,
           M = [L EXCEPT ![b].file = f]
    PROVE  /\ M \in Locations /\ M[b].file = f
           /\ \A a \in AllBlocks : a # b => M[a] = L[a]
<1> DEFINE x == [L[b] EXCEPT !.file = f]
<1>1. x \in [file : Files \cup {NoFile}, offset : Nat] /\ x.file = f
  BY DEF Locations
<1>2. M = [L EXCEPT ![b] = x]
  BY DEF Locations
<1> HIDE DEF x
<1> QED BY <1>1, <1>2 DEF Locations

LEMMA SetOffsetPart ==
    ASSUME NEW L \in Locations, NEW b \in AllBlocks, NEW o \in Nat, NEW M,
           M = [L EXCEPT ![b].offset = o]
    PROVE  /\ M \in Locations /\ M[b].file = L[b].file /\ M[b].offset = o
           /\ \A a \in AllBlocks : a # b => M[a] = L[a]
<1> DEFINE x == [L[b] EXCEPT !.offset = o]
<1>1. x \in [file : Files \cup {NoFile}, offset : Nat] /\ x.file = L[b].file /\ x.offset = o
  BY DEF Locations
<1>2. M = [L EXCEPT ![b] = x]
  BY DEF Locations
<1> HIDE DEF x
<1> QED BY <1>1, <1>2 DEF Locations

\* What each step does with the scans, and with the records of the files.
LEMMA ThreadOf ==
    ASSUME Inv, NEW t \in Threads
    PROVE  \E c \in Scan : c = scan[t] /\ Sound(c)
  BY DEF Inv, Types, AllSound

LEMMA InitInv == Init => Inv
<1> SUFFICES ASSUME Init PROVE Inv
  OBVIOUS
<1>1. World
  BY ScanAssumption DEF Init, World, ScanAssumption
<1>2. concurrent \in BOOLEAN
  BY ScanAssumption DEF Init, ScanAssumption
<1>3. next \in 1 .. NumSources + Extras + 1 /\ 0 \in 0 .. NumSources
  BY Sizes DEF Init
<1>4. scan \in [Threads -> Scan] /\ AllSound
  BY IdleTypes, IdleSound DEF Init, AllSound
<1>5. location \in Locations
  BY DEF Init, Locations
<1> QED BY <1>1, <1>2, <1>3, <1>4, <1>5 DEF Inv, Types, Init

LEMMA GiveUpWorks ==
    ASSUME NEW t \in Threads, scan' = [scan EXCEPT ![t] = Idle] PROVE GoesOnAs(t, Idle)
  BY IdleTypes, IdleSound DEF GoesOnAs

\* A target file is skipped, or a scan of it begins.
LEMMA TargetWorks ==
    ASSUME Inv, NEW t \in Threads, TakeTarget(t)
    PROVE  LET f == Sorted[next] IN
           /\ f \in SourceIds /\ f \in Files /\ phase = "verify" /\ next <= NumSources
           /\ next' = next + 1 /\ scan[t].pc = "idle" /\ (concurrent \/ t = Main)
           /\ \/ UNCHANGED scan
              \/ \E d : /\ GoesOnAs(t, d) /\ d.file = f /\ d.count = 0
                        /\ d.pc \in {"scan", "whole"}
                        /\ d.pc = "scan" => blockverifiable
<1> DEFINE f == Sorted[next]
<1>1. /\ phase = "verify" /\ scan[t].pc = "idle" /\ next <= NumSources /\ next' = next + 1
      /\ concurrent \/ t = Main
      /\ UNCHANGED scan \/ Begin(t, f, f)
  BY DEF TakeTarget
<1>2. f \in SourceIds /\ f \in Files
  <2>1. next \in SourceIds /\ NumSources \in Nat /\ Extras \in Nat
    BY <1>1, Sizes DEF Inv, Types, SourceIds
  <2> QED BY <2>1, ScanAssumption DEF ScanAssumption, SourceIds, Files
<1> HIDE DEF f
<1>3. CASE Begin(t, f, f)
  <2>1. PICK g : g = f
    OBVIOUS
  <2>2. g \in Files /\ g \in SourceIds \cup {0} /\ Begin(t, g, g)
    BY <1>2, <1>3, <2>1
  <2>3. World
    BY DEF Inv, Types
  <2>4. \E d : /\ GoesOnAs(t, d) /\ d.file = g /\ d.count = 0
               /\ d.pc \in {"scan", "whole"}
               /\ d.pc = "scan" => blockverifiable
    BY <2>2, <2>3, BeginWorks
  <2> QED BY <1>1, <1>2, <2>1, <2>4 DEF f
<1> QED BY <1>1, <1>2, <1>3 DEF f

LEMMA ExtraWorks ==
    ASSUME Inv, TakeExtra
    PROVE  /\ phase = "extras" /\ scan[Main].pc = "idle" /\ Main \in Threads
           /\ \/ UNCHANGED <<scan, next>> /\ phase' = "done" /\ completefilecount' = CompleteFiles
              \/ /\ next \in Files /\ next' = next + 1 /\ UNCHANGED <<phase, completefilecount>>
                 /\ \/ UNCHANGED scan
                    \/ \E d : /\ GoesOnAs(Main, d) /\ d.file = next /\ d.count = 0
                              /\ d.pc \in {"scan", "whole"}
                              /\ d.pc = "scan" => blockverifiable
<1>1. Main \in Threads
  BY ScanAssumption DEF Main, ScanAssumption
<1>2. /\ phase = "extras" /\ scan[Main].pc = "idle"
      /\ \/ UNCHANGED <<scan, next>> /\ phase' = "done" /\ completefilecount' = CompleteFiles
         \/ /\ next \in Files /\ next' = next + 1 /\ UNCHANGED <<phase, completefilecount>>
            /\ UNCHANGED scan \/ Begin(Main, next, 0)
  BY DEF TakeExtra
<1>3. ASSUME next \in Files, Begin(Main, next, 0)
      PROVE  \E d : /\ GoesOnAs(Main, d) /\ d.file = next /\ d.count = 0
                    /\ d.pc \in {"scan", "whole"}
                    /\ d.pc = "scan" => blockverifiable
  BY <1>1, <1>3, BeginWorks DEF Inv, Types
<1> QED BY <1>1, <1>2, <1>3

LEMMA StepInv == Inv /\ [Next]_vars => Inv'
<1> SUFFICES ASSUME Inv, [Next]_vars PROVE Inv'
  OBVIOUS
<1> USE CompleteFits
<1>0. NumSources \in Nat /\ Extras \in Nat /\ World
  BY Sizes DEF Inv, Types
<1>1. ASSUME NEW t \in Threads, TakeTarget(t) PROVE Inv'
  <2>1. scan' \in [Threads -> Scan] /\ AllSound'
    BY <1>1, TargetWorks, SoundStep DEF TakeTarget
  <2>2. next' \in 1 .. NumSources + Extras + 1
    <3>1. next' = next + 1 /\ next <= NumSources
      BY <1>1 DEF TakeTarget
    <3> QED BY <1>0, <3>1 DEF Inv, Types
  <2> QED BY <1>1, <2>1, <2>2 DEF Inv, Types, TakeTarget, World
<1>2. ASSUME NEW t \in Threads, MatchBlock(t) PROVE Inv'
  <2>1. PICK c \in Scan : c = scan[t] /\ Sound(c)
    BY ThreadOf
  <2>2. \E d : GoesOnAs(t, d)
    BY <1>0, <1>2, <2>1, MatchWorks
  <2>3. scan' \in [Threads -> Scan] /\ AllSound'
    BY <1>2, <2>2, SoundStep DEF MatchBlock
  <2> QED BY <1>2, <2>3 DEF Inv, Types, MatchBlock, World, records
<1>3. ASSUME NEW t \in Threads, SetFile(t) PROVE Inv'
  <2>1. PICK c \in Scan : c = scan[t] /\ Sound(c)
    BY ThreadOf
  <2>2. (\E d : GoesOnAs(t, d)) /\ c.block \in AllBlocks /\ c.pc = "setfile"
    BY <1>0, <1>3, <2>1, SetFileWorks DEF Inv, Types
  <2>3. scan' \in [Threads -> Scan] /\ AllSound'
    BY <1>3, <2>2, SoundStep DEF SetFile
  <2>4. location' \in Locations
    <3>1. location' = [location EXCEPT ![c.block].file = c.file]
      BY <1>3, <2>1 DEF SetFile
    <3>2. PICK L, M : L = location /\ M = location'
      OBVIOUS
    <3>3. L \in Locations /\ c.file \in Files \cup {NoFile} /\ M = [L EXCEPT ![c.block].file = c.file]
      BY <3>1, <3>2 DEF Inv, Types, Scan
    <3>4. M \in Locations
      BY <2>2, <3>3, SetFilePart
    <3> QED BY <3>2, <3>4
  <2> QED BY <1>3, <2>3, <2>4 DEF Inv, Types, SetFile, World
<1>4. ASSUME NEW t \in Threads, SetOffset(t) PROVE Inv'
  <2>1. PICK c \in Scan : c = scan[t] /\ Sound(c)
    BY ThreadOf
  <2>2. (\E d : GoesOnAs(t, d)) /\ c.block \in AllBlocks
    BY <1>0, <1>4, <2>1, SetOffsetWorks
  <2>3. scan' \in [Threads -> Scan] /\ AllSound'
    BY <1>4, <2>2, SoundStep DEF SetOffset
  <2>4. location' \in Locations
    <3>1. location' = [location EXCEPT ![c.block].offset = c.offset]
      BY <1>4, <2>1 DEF SetOffset
    <3>2. PICK L, M : L = location /\ M = location'
      OBVIOUS
    <3>3. L \in Locations /\ c.offset \in Nat /\ M = [L EXCEPT ![c.block].offset = c.offset]
      BY <3>1, <3>2 DEF Inv, Types, Scan
    <3>4. M \in Locations
      BY <2>2, <3>3, SetOffsetPart, ZenonT(60)
    <3> QED BY <3>2, <3>4
  <2> QED BY <1>4, <2>3, <2>4 DEF Inv, Types, SetOffset, World
<1>5. ASSUME NEW t \in Threads, EndScan(t) PROVE Inv'
  <2>1. PICK c \in Scan : c = scan[t] /\ Sound(c)
    BY ThreadOf
  <2>2. (\E d : GoesOnAs(t, d)) /\ c.pc = "scan" /\ c.count \in Nat
    BY <1>0, <1>5, <2>1, EndWorks
  <2>3. scan' \in [Threads -> Scan] /\ AllSound'
    BY <1>5, <2>2, SoundStep DEF EndScan
  <2>4. c.file \in Files
    BY <2>1, <2>2 DEF Sound, Ready
  <2>5. blockcount' \in [Files -> Nat] /\ complete' \in [SourceIds -> Files \cup {NoFile}]
    <3>1. /\ blockcount' = [blockcount EXCEPT ![c.file] = c.count]
          /\ \/ complete' = [complete EXCEPT ![c.source] = c.file]
             \/ complete' = complete
      BY <1>5, <2>1 DEF EndScan
    <3> QED BY <2>2, <2>4, <3>1 DEF Inv, Types
  <2>6. completefilecount' \in 0 .. NumSources
    BY <1>5 DEF EndScan, AfterScan, Inv, Types
  <2> QED BY <1>5, <2>3, <2>5, <2>6 DEF Inv, Types, EndScan, World
<1>6. ASSUME NEW t \in Threads, CompareWhole(t) PROVE Inv'
  <2>1. PICK c \in Scan : c = scan[t] /\ Sound(c)
    BY ThreadOf
  <2>2. c.pc = "whole" /\ scan' = [scan EXCEPT ![t] = Idle]
    BY <1>6, <2>1 DEF CompareWhole
  <2>3. scan' \in [Threads -> Scan] /\ AllSound'
    BY <1>6, <2>2, GiveUpWorks, SoundStep DEF CompareWhole
  <2>4. c.file \in Files
    BY <2>1, <2>2 DEF Sound, Ready
  <2>5. \/ UNCHANGED <<complete, location>>
        \/ \E s \in SourceIds :
             /\ complete' = [complete EXCEPT ![s] = c.file]
             /\ location' = [b \in AllBlocks |->
                  IF b[1] = s THEN [file |-> c.file, offset |-> Start(b)] ELSE location[b]]
    BY <1>6, <2>1 DEF CompareWhole
  <2>6. complete' \in [SourceIds -> Files \cup {NoFile}]
    BY <2>4, <2>5 DEF Inv, Types
  <2>7. location' \in Locations
    <3>1. CASE UNCHANGED <<complete, location>>
      BY <3>1 DEF Inv, Types
    <3>2. ASSUME NEW s \in SourceIds,
                 location' = [b \in AllBlocks |->
                   IF b[1] = s THEN [file |-> c.file, offset |-> Start(b)] ELSE location[b]]
          PROVE  location' \in Locations
      <4>1. \A b \in AllBlocks : Start(b) \in Nat
        BY BlockFacts
      <4> QED BY <2>4, <3>2, <4>1 DEF Inv, Types, Locations
    <3> QED BY <2>5, <3>1, <3>2
  <2>8. completefilecount' \in 0 .. NumSources
    BY <1>6 DEF CompareWhole, AfterScan, Inv, Types
  <2> QED BY <1>6, <2>3, <2>6, <2>7, <2>8 DEF Inv, Types, CompareWhole, World
<1>7. ASSUME NEW t \in Threads, ReadFails(t) PROVE Inv'
  <2>1. scan' \in [Threads -> Scan] /\ AllSound'
    BY <1>7, GiveUpWorks, SoundStep DEF ReadFails, GiveUp
  <2>2. completefilecount' \in 0 .. NumSources
    BY <1>7 DEF ReadFails, GiveUp, Inv, Types
  <2> QED BY <1>7, <2>1, <2>2 DEF Inv, Types, ReadFails, GiveUp, World
<1>8. ASSUME VerifyExtras PROVE Inv'
  <2>1. scan' \in [Threads -> Scan] /\ AllSound'
    BY <1>8, SoundStep DEF VerifyExtras
  <2>2. next' \in 1 .. NumSources + Extras + 1 /\ completefilecount' \in 0 .. NumSources
          /\ phase' \in {"verify", "extras", "failed", "done"}
    <3>1. NumSources + 1 \in 1 .. NumSources + Extras + 1
      BY <1>0
    <3> QED BY <1>8, <3>1 DEF VerifyExtras, Inv, Types
  <2> QED BY <1>8, <2>1, <2>2 DEF Inv, Types, VerifyExtras, World
<1>9. ASSUME TakeExtra PROVE Inv'
  <2>1. scan' \in [Threads -> Scan] /\ AllSound'
    <3>1. UNCHANGED scan \/ \E t \in Threads : \E d : GoesOnAs(t, d)
      BY <1>9, ExtraWorks
    <3> QED BY <1>9, <3>1, SoundStep DEF TakeExtra
  <2>2. next' \in 1 .. NumSources + Extras + 1 /\ completefilecount' \in 0 .. NumSources
          /\ phase' \in {"verify", "extras", "failed", "done"}
    <3>1. next \in Files => next + 1 \in 1 .. NumSources + Extras + 1
      BY <1>0 DEF Files
    <3> QED BY <1>9, <3>1, ExtraWorks DEF Inv, Types
  <2> QED BY <1>9, <2>1, <2>2 DEF Inv, Types, TakeExtra, World
<1>10. CASE UNCHANGED vars
  <2>1. scan' \in [Threads -> Scan] /\ AllSound'
    BY <1>10, SoundStep DEF vars
  <2> QED BY <1>10, <2>1 DEF Inv, Types, vars, World
<1> QED BY <1>1, <1>2, <1>3, <1>4, <1>5, <1>6, <1>7, <1>8, <1>9, <1>10 DEF Next, Finished

\* Everything has its type, whatever the files hold and whatever the threads do.
THEOREM TypesHold == Spec => []TypeOK
<1>1. Inv => TypeOK
  BY DEF Inv, Types, TypeOK, Scan, Pcs, Buffers, MaybeBlock, Locations
<1> QED BY InitInv, StepInv, <1>1, PTL DEF Spec

\* The window is always the file at its offset, and the checksum is the CRC of
\* the window, however it was slid and moved.
THEOREM WindowExactHolds == Spec => []WindowExact
<1>1. Inv => WindowExact
  <2> SUFFICES ASSUME Inv PROVE WindowExact
    OBVIOUS
  <2> SUFFICES ASSUME NEW t \in Threads, scan[t].pc = "scan", scan[t].offset < Size(scan[t].file)
               PROVE  /\ Part(Window(scan[t]), 0, BlockLength(scan[t]))
                           = Part(disk[scan[t].file].data, scan[t].offset, BlockLength(scan[t]))
                      /\ scan[t].checksum = CRC(Window(scan[t]))
    BY DEF WindowExact
  <2>1. PICK c \in Scan : c = scan[t] /\ Sound(c)
    BY ThreadOf
  <2>2. Ready(c) /\ Live(c) /\ c.offset < Size(c.file)
    BY <2>1 DEF Sound
  <2>3. Part(Window(c), 0, BlockLength(c)) = Part(Content(c), c.offset, BlockLength(c))
    BY <2>2, WindowPart DEF Inv, Types
  <2>4. c.checksum = CRC(Window(c))
    BY <2>2 DEF Live
  <2> QED BY <2>1, <2>3, <2>4 DEF Content
<1> QED BY InitInv, StepInv, <1>1, PTL DEF Spec

-----------------------------------------------------------------------------
(* What was found *)

\* The hash of a whole file is the hash of all its bytes.
LEMMA HashIsWhole ==
    ASSUME World, NEW c, Ready(c), NEW S \in Seq(Chars), Size(c.file) = Len(S), HashFull(c) = S
    PROVE  Content(c) = S
<1> DEFINE x == Content(c)
<1>1. /\ x \in Seq(Chars) /\ Size(c.file) = Len(x) /\ Len(x) \in Nat /\ c.read \in Nat
      /\ Short \in Nat /\ Short > 0 /\ c.read <= Len(x) /\ Len(S) = Len(x)
  BY ReadyTypes, Sizes DEF Ready, Hashed
<1>2. /\ c.short = Part(x, 0, Min2(c.read, Short))
      /\ c.full = IF c.read < Short THEN <<>> ELSE Part(x, 0, c.read)
      /\ S = IF Size(c.file) < Short THEN c.short ELSE c.full
  BY DEF Ready, Hashed, HashFull
<1> HIDE DEF x
<1>3. 0 + c.read <= Len(x) /\ 0 \in Nat
  BY <1>1
<1>4. Part(x, 0, c.read) \in Seq(Chars) /\ Len(Part(x, 0, c.read)) = c.read
  BY <1>1, <1>3, PartTypes
<1>5. S = Part(x, 0, c.read)
  <2>1. CASE Size(c.file) < Short
    <3>1. Min2(c.read, Short) = c.read
      BY <1>1, <2>1 DEF Min2
    <3> QED BY <1>2, <2>1, <3>1
  <2>2. CASE ~(Size(c.file) < Short)
    <3>1. CASE c.read < Short
      <4>1. S = <<>>
        BY <1>2, <2>2, <3>1
      <4>2. Len(S) = 0
        BY <4>1
      <4> QED BY <1>1, <2>2, <4>2
    <3>2. CASE ~(c.read < Short)
      BY <1>2, <2>2, <3>2
    <3> QED BY <3>1, <3>2
  <2> QED BY <2>1, <2>2
<1>6. c.read = Len(x)
  BY <1>1, <1>4, <1>5
<1>7. Part(x, 0, Len(x)) = x
  BY <1>1, PartWhole
<1> QED BY <1>5, <1>6, <1>7 DEF x

\* What it takes for file f to be a complete copy of source file s.
Copy(s, f) ==
    IF blockverifiable THEN disk[f].data = Sources[s]
    ELSE Len(disk[f].data) = Len(Sources[s]) /\ ShortOf(disk[f].data) = ShortOf(Sources[s])

LEMMA CopyStays ==
    ASSUME disk' = disk, verifiable' = verifiable, NEW s, NEW f, Copy(s, f) PROVE Copy(s, f)'
  BY DEF Copy, blockverifiable

\* The two places where a file is found to be complete.
LEMMA FullIsCopy ==
    ASSUME World, NEW c, Ready(c), c.source \in SourceIds, FullMatch(c) PROVE Copy(c.source, c.file)
<1>1. Sources[c.source] \in Seq(Chars)
  BY Sizes
<1>2. Size(c.file) = Len(Sources[c.source]) /\ HashFull(c) = Sources[c.source]
  BY DEF FullMatch
<1>3. Content(c) = Sources[c.source]
  BY <1>1, <1>2, HashIsWhole
<1> QED BY <1>3 DEF Copy, Content

LEMMA AgreedIsCopy ==
    ASSUME World, NEW c, Ready(c), NEW s \in SourceIds, Comparable(c, s), Agree(c, s, TRUE)
    PROVE  Copy(s, c.file)
<1>1. Sources[s] \in Seq(Chars) /\ Size(c.file) = Len(Sources[s])
  BY Sizes DEF Comparable
<1>2. Content(c) \in Seq(Chars) /\ Size(c.file) = Len(Content(c))
  BY ReadyTypes DEF Ready
<1>3. CASE ~blockverifiable
  BY <1>1, <1>2, <1>3 DEF Agree, Copy, Content
<1>4. CASE blockverifiable /\ Size(c.file) = 0
  <2>1. Content(c) = <<>> /\ Sources[s] = <<>>
    BY <1>1, <1>2, <1>4, EmptySeq
  <2> QED BY <1>4, <2>1 DEF Copy, Content
<1>5. CASE blockverifiable /\ Size(c.file) # 0
  <2>1. HashFull(c) = Sources[s]
    BY <1>5 DEF Agree
  <2>2. Content(c) = Sources[s]
    BY <1>1, <2>1, HashIsWhole
  <2> QED BY <1>5, <2>2 DEF Copy, Content
<1> QED BY <1>3, <1>4, <1>5

\* What EndScan and CompareWhole do with the list of complete files.
LEMMA EndCompletes ==
    ASSUME Inv, NEW t \in Threads, EndScan(t)
    PROVE  \A s \in SourceIds : complete'[s] # complete[s] => Copy(s, complete'[s])
<1>1. PICK c \in Scan : c = scan[t] /\ Sound(c)
  BY ThreadOf
<1>2. c.pc = "scan"
  BY <1>1 DEF EndScan
<1>3. Ready(c) /\ World /\ complete \in [SourceIds -> Files \cup {NoFile}]
  BY <1>1, <1>2 DEF Sound, Inv, Types
<1>4. \/ complete' = complete
      \/ FullMatch(c) /\ complete' = [complete EXCEPT ![c.source] = c.file]
  BY <1>1 DEF EndScan
<1>5. ASSUME NEW s \in SourceIds, complete'[s] # complete[s] PROVE Copy(s, complete'[s])
  <2>1. s = c.source /\ FullMatch(c) /\ complete'[s] = c.file
    BY <1>3, <1>4, <1>5
  <2>2. Copy(c.source, c.file)
    BY <1>3, <2>1, FullIsCopy
  <2> QED BY <2>1, <2>2
<1> QED BY <1>5

LEMMA WholeCompletes ==
    ASSUME Inv, NEW t \in Threads, NEW c \in Scan, c = scan[t], CompareWhole(t)
    PROVE  /\ Ready(c) /\ c.pc = "whole" /\ scan' = [scan EXCEPT ![t] = Idle]
           /\ \/ UNCHANGED <<complete, location>>
              \/ \E s \in SourceIds :
                   /\ s \notin verifiable /\ Copy(s, c.file)
                   /\ complete' = [complete EXCEPT ![s] = c.file]
                   /\ location' = [b \in AllBlocks |->
                        IF b[1] = s THEN [file |-> c.file, offset |-> Start(b)] ELSE location[b]]
<1>1. c.pc = "whole" /\ scan' = [scan EXCEPT ![t] = Idle] /\ Sound(c) /\ World
  BY DEF CompareWhole, Inv, Types, AllSound
<1>2. Ready(c)
  BY <1>1 DEF Sound
<1>3. PICK agreed \in SUBSET {s \in SourceIds : Comparable(c, s)} :
        /\ \A s \in SourceIds : Comparable(c, s) => Agree(c, s, s \in agreed)
        /\ \/ agreed = {} /\ UNCHANGED <<complete, location>>
           \/ \E s \in agreed :
                /\ \A r \in agreed : s <= r
                /\ complete' = [complete EXCEPT ![s] = c.file]
                /\ location' = [b \in AllBlocks |->
                     IF b[1] = s THEN [file |-> c.file, offset |-> Start(b)] ELSE location[b]]
  BY DEF CompareWhole
<1>4. CASE agreed = {} /\ UNCHANGED <<complete, location>>
  BY <1>1, <1>2, <1>4
<1>5. CASE \E s \in agreed :
             /\ complete' = [complete EXCEPT ![s] = c.file]
             /\ location' = [b \in AllBlocks |->
                  IF b[1] = s THEN [file |-> c.file, offset |-> Start(b)] ELSE location[b]]
  <2>1. PICK s \in agreed :
             /\ complete' = [complete EXCEPT ![s] = c.file]
             /\ location' = [b \in AllBlocks |->
                  IF b[1] = s THEN [file |-> c.file, offset |-> Start(b)] ELSE location[b]]
    BY <1>5
  <2>2. s \in SourceIds /\ Comparable(c, s) /\ Agree(c, s, s \in agreed) /\ (s \in agreed) = TRUE
    BY <1>3
  <2>3. Agree(c, s, TRUE)
    BY <2>2
  <2>4. s \notin verifiable
    BY <2>2 DEF Comparable
  <2>5. Copy(s, c.file)
    BY <1>1, <1>2, <2>2, <2>3, AgreedIsCopy
  <2> QED BY <1>1, <1>2, <2>1, <2>2, <2>4, <2>5
<1> QED BY <1>3, <1>4, <1>5

\* A file taken for a complete copy of a source file is one.
Copies == \A s \in SourceIds : complete[s] # NoFile => Copy(s, complete[s])

LEMMA StepCopies == Inv /\ Copies /\ [Next]_vars => Copies'
<1> SUFFICES ASSUME Inv, Copies, [Next]_vars PROVE Copies'
  OBVIOUS
<1>1. UNCHANGED <<disk, verifiable>>
  BY DEF Next, TakeTarget, MatchBlock, SetFile, SetOffset, EndScan, CompareWhole, ReadFails, GiveUp,
         VerifyExtras, TakeExtra, Finished, vars
<1>2. ASSUME NEW s, NEW f, Copy(s, f) PROVE Copy(s, f)'
  BY <1>1, <1>2, CopyStays
<1>3. ASSUME \A s \in SourceIds : complete'[s] # complete[s] => Copy(s, complete'[s])
      PROVE  Copies'
  <2>1. \A s \in SourceIds : complete'[s] # NoFile => Copy(s, complete'[s])
    BY <1>3 DEF Copies
  <2>2. ASSUME NEW s \in SourceIds, complete'[s] # NoFile PROVE Copy(s, complete[s])'
    <3>1. PICK f : f = complete'[s]
      OBVIOUS
    <3>2. Copy(s, f)
      BY <2>1, <2>2, <3>1
    <3>3. Copy(s, f)'
      BY <1>2, <3>2
    <3> QED BY <3>1, <3>3 DEF Copy, blockverifiable
  <2> QED BY <2>2 DEF Copies
<1>4. CASE UNCHANGED complete
  BY <1>3, <1>4
<1>5. CASE \E t \in Threads : EndScan(t)
  BY <1>3, <1>5, EndCompletes
<1>6. ASSUME NEW t \in Threads, CompareWhole(t) PROVE Copies'
  <2>1. PICK c \in Scan : c = scan[t]
    BY ThreadOf
  <2>2. \/ complete' = complete
        \/ \E s \in SourceIds : Copy(s, c.file) /\ complete' = [complete EXCEPT ![s] = c.file]
    BY <1>6, <2>1, WholeCompletes
  <2>3. complete \in [SourceIds -> Files \cup {NoFile}]
    BY DEF Inv, Types
  <2>4. \A s \in SourceIds : complete'[s] # complete[s] => Copy(s, complete'[s])
    <3>1. ASSUME NEW r \in SourceIds, Copy(r, c.file), complete' = [complete EXCEPT ![r] = c.file]
          PROVE  \A s \in SourceIds : complete'[s] # complete[s] => Copy(s, complete'[s])
      <4>1. \A s \in SourceIds : complete'[s] # complete[s] => s = r /\ complete'[s] = c.file
        BY <2>3, <3>1
      <4> QED BY <3>1, <4>1
    <3> QED BY <2>2, <3>1
  <2> QED BY <1>3, <2>4
<1> QED
  BY <1>4, <1>5, <1>6 DEF Next, TakeTarget, MatchBlock, SetFile, SetOffset, ReadFails, GiveUp,
     VerifyExtras, TakeExtra, Finished, vars, records

\* In whatever order the files are scanned, and by however many threads.
THEOREM CompleteIsCompleteHolds == Spec => []CompleteIsComplete
<1>1. Init => Copies
  BY DEF Init, Copies
<1>2. Copies => CompleteIsComplete
  BY DEF Copies, Copy, CompleteIsComplete
<1> QED BY InitInv, StepInv, StepCopies, <1>1, <1>2, PTL DEF Spec

-----------------------------------------------------------------------------
(* Where a block was found, with one thread *)

LEMMA MainIsThread == Main \in Threads
  BY ScanAssumption DEF Main, ScanAssumption

\* Only one thread scans, and between its two stores the block has its file.
OneScans ==
    ~concurrent =>
      \A t \in Threads :
        /\ t # Main => scan[t].pc = "idle"
        /\ scan[t].pc = "setoffset" => location[scan[t].block].file = scan[t].file
Serial == OneScans /\ FoundWhenSerial

\* A step that sets no location, and ends between no two stores.
LEMMA SerialStays ==
    ASSUME Inv, Serial, UNCHANGED <<disk, verifiable, concurrent, location>>,
           \/ UNCHANGED scan
           \/ \E t \in Threads : \E d : /\ scan' = [scan EXCEPT ![t] = d] /\ (concurrent \/ t = Main)
                                        /\ scan[t].pc # "setoffset" /\ d.pc # "setoffset"
    PROVE  Serial'
<1>1. scan \in [Threads -> Scan]
  BY DEF Inv, Types
<1>2. CASE UNCHANGED scan
  BY <1>2 DEF Serial, OneScans, FoundWhenSerial, IsSet, Settled, InFile, Size, blockverifiable
<1>3. CASE \E t \in Threads : \E d : /\ scan' = [scan EXCEPT ![t] = d] /\ (concurrent \/ t = Main)
                                     /\ scan[t].pc # "setoffset" /\ d.pc # "setoffset"
  <2>1. PICK t \in Threads :
          \E d : /\ scan' = [scan EXCEPT ![t] = d] /\ (concurrent \/ t = Main)
                 /\ scan[t].pc # "setoffset" /\ d.pc # "setoffset"
    BY <1>3
  <2>2. PICK d : /\ scan' = [scan EXCEPT ![t] = d] /\ (concurrent \/ t = Main)
                 /\ scan[t].pc # "setoffset" /\ d.pc # "setoffset"
    BY <2>1
  <2>3. OneScans'
    BY <1>1, <2>2 DEF Serial, OneScans
  <2>4. \A b \in AllBlocks : Settled(b)' => Settled(b)
    BY <1>1, <2>2 DEF Settled
  <2>5. FoundWhenSerial'
    BY <2>4 DEF Serial, FoundWhenSerial, IsSet, InFile, Size, blockverifiable
  <2> QED BY <2>3, <2>5 DEF Serial
<1> QED BY <1>2, <1>3

LEMMA SerialSetFile ==
    ASSUME Inv, Serial, NEW t \in Threads, SetFile(t)
    PROVE  Serial'
<1>1. PICK c \in Scan : c = scan[t] /\ Sound(c)
  BY ThreadOf
<1>2. World /\ scan \in [Threads -> Scan] /\ location \in Locations
  BY DEF Inv, Types
<1>3. PICK d : /\ GoesOnAs(t, d) /\ c.pc = "setfile" /\ d.pc = "setoffset"
               /\ d.file = c.file /\ d.block = c.block /\ c.block \in AllBlocks
  BY <1>1, <1>2, SetFileWorks
<1>4. /\ scan' = [scan EXCEPT ![t] = d] /\ location' = [location EXCEPT ![c.block].file = c.file]
      /\ UNCHANGED <<disk, verifiable, concurrent>>
  BY <1>1, <1>3 DEF SetFile, GoesOnAs
<1>5. /\ location'[c.block].file = c.file
      /\ \A b \in AllBlocks : b # c.block => location'[b] = location[b]
  <2>1. PICK L, M : L = location /\ M = location'
    OBVIOUS
  <2>2. L \in Locations /\ c.file \in Files \cup {NoFile} /\ M = [L EXCEPT ![c.block].file = c.file]
    BY <1>2, <1>4, <2>1 DEF Scan
  <2>3. M[c.block].file = c.file /\ \A b \in AllBlocks : b # c.block => M[b] = L[b]
    <3>1. PICK f : f = c.file
      OBVIOUS
    <3>2. f \in Files \cup {NoFile} /\ M = [L EXCEPT ![c.block].file = f]
      BY <2>2, <3>1
    <3>3. PICK a : a = c.block
      OBVIOUS
    <3>4. L \in Locations /\ a \in AllBlocks /\ M = [L EXCEPT ![a].file = f]
      BY <1>3, <2>2, <3>2, <3>3
    <3>5. M[a].file = f
      BY <3>4 DEF Locations
    <3>6. \A b \in AllBlocks : b # a => M[b] = L[b]
      BY <3>2, <3>4, SetFilePart
    <3> QED BY <3>1, <3>3, <3>5, <3>6
  <2> QED BY <2>1, <2>3
<1>6. ASSUME ~concurrent PROVE t = Main
  BY <1>1, <1>3, <1>6 DEF Serial, OneScans
<1>7. OneScans'
  <2> SUFFICES ASSUME ~concurrent, NEW u \in Threads
               PROVE  /\ u # Main => scan'[u].pc = "idle"
                      /\ scan'[u].pc = "setoffset" => location'[scan'[u].block].file = scan'[u].file
    BY <1>4 DEF OneScans
  <2>1. CASE u = t
    BY <1>2, <1>3, <1>4, <1>5, <1>6, <2>1
  <2>2. CASE u # t
    <3>1. scan'[u] = scan[u] /\ u # Main
      BY <1>2, <1>4, <1>6, <2>2
    <3> QED BY <3>1 DEF Serial, OneScans
  <2> QED BY <2>1, <2>2
<1>8. FoundWhenSerial'
  <2> SUFFICES ASSUME ~concurrent, blockverifiable, NEW b \in AllBlocks,
                      IsSet(b)', Settled(b)', InFile(b)'
               PROVE  IsThere(location[b].file, location[b].offset, b)'
    BY <1>4 DEF FoundWhenSerial, IsThere, blockverifiable
  <2>1. b # c.block
    BY <1>2, <1>3, <1>4 DEF Settled
  <2>2. location'[b] = location[b]
    BY <1>5, <2>1
  <2>3. IsSet(b) /\ InFile(b)
    BY <1>4, <2>2 DEF IsSet, InFile, Size
  <2>4. Settled(b)
    <3> SUFFICES ASSUME NEW u \in Threads, scan[u].pc = "setoffset" PROVE FALSE
      BY DEF Settled
    <3>1. u # t
      BY <1>1, <1>3
    <3>2. u # Main
      BY <1>6, <3>1
    <3> QED BY <3>2 DEF Serial, OneScans
  <2>5. Part(disk[location[b].file].data, location[b].offset, Length(b)) = Data(b)
    BY <2>3, <2>4 DEF Serial, FoundWhenSerial
  <2> QED BY <1>4, <2>2, <2>5 DEF IsThere
<1> QED BY <1>7, <1>8 DEF Serial

LEMMA SerialSetOffset ==
    ASSUME Inv, Serial, NEW t \in Threads, SetOffset(t)
    PROVE  Serial'
<1>1. PICK c \in Scan : c = scan[t] /\ Sound(c)
  BY ThreadOf
<1>2. World /\ scan \in [Threads -> Scan] /\ location \in Locations
  BY DEF Inv, Types
<1>3. c.pc = "setoffset" /\ c.block \in AllBlocks /\ \E d : GoesOnAs(t, d) /\ d.pc = "scan"
  BY <1>1, <1>2, SetOffsetWorks
<1>4. PICK d : GoesOnAs(t, d) /\ d.pc = "scan"
  BY <1>3
<1>5. /\ scan' = [scan EXCEPT ![t] = d] /\ location' = [location EXCEPT ![c.block].offset = c.offset]
      /\ UNCHANGED <<disk, verifiable, concurrent>>
  BY <1>1, <1>4 DEF SetOffset, GoesOnAs
<1>6. /\ location'[c.block].file = location[c.block].file /\ location'[c.block].offset = c.offset
      /\ \A b \in AllBlocks : b # c.block => location'[b] = location[b]
  <2>1. PICK L, M : L = location /\ M = location'
    OBVIOUS
  <2>2. L \in Locations /\ c.offset \in Nat /\ M = [L EXCEPT ![c.block].offset = c.offset]
    BY <1>2, <1>5, <2>1 DEF Scan
  <2>3. M[c.block].file = L[c.block].file /\ M[c.block].offset = c.offset /\ \A b \in AllBlocks : b # c.block => M[b] = L[b]
    BY <1>3, <2>2, SetOffsetPart
  <2> QED BY <2>1, <2>3
<1>7. ASSUME ~concurrent PROVE t = Main /\ location[c.block].file = c.file
  BY <1>1, <1>3, <1>7 DEF Serial, OneScans
<1>8. OneScans'
  <2> SUFFICES ASSUME ~concurrent, NEW u \in Threads
               PROVE  /\ u # Main => scan'[u].pc = "idle"
                      /\ scan'[u].pc # "setoffset"
    BY <1>5 DEF OneScans
  <2>1. CASE u = t
    BY <1>2, <1>4, <1>5, <1>7, <2>1
  <2>2. CASE u # t
    <3>1. scan'[u] = scan[u] /\ u # Main
      BY <1>2, <1>5, <1>7, <2>2
    <3> QED BY <3>1 DEF Serial, OneScans
  <2> QED BY <2>1, <2>2
<1>9. FoundWhenSerial'
  <2> SUFFICES ASSUME ~concurrent, blockverifiable, NEW b \in AllBlocks,
                      IsSet(b)', Settled(b)', InFile(b)'
               PROVE  IsThere(location[b].file, location[b].offset, b)'
    BY <1>5 DEF FoundWhenSerial, IsThere, blockverifiable
  <2>1. CASE b = c.block
    <3>1. Ready(c) /\ Live(c) /\ c.offset < Size(c.file) /\ Matches(c, b)
      BY <1>1, <1>3, <2>1 DEF Sound
    <3>2. location'[b].file = c.file /\ location'[b].offset = c.offset
      BY <1>6, <1>7, <2>1
    <3>3. c.offset + Length(b) <= Size(c.file)
      BY <1>5, <3>2 DEF InFile, Size
    <3>4. IsThere(c.file, c.offset, b)
      BY <1>2, <3>1, <3>3, MatchIsThere
    <3> QED BY <1>5, <3>2, <3>4 DEF IsThere
  <2>2. CASE b # c.block
    <3>1. location'[b] = location[b]
      BY <1>6, <2>2
    <3>2. IsSet(b) /\ InFile(b)
      BY <1>5, <3>1 DEF IsSet, InFile, Size
    <3>3. Settled(b)
      <4> SUFFICES ASSUME NEW u \in Threads, scan[u].pc = "setoffset" PROVE scan[u].block # b
        BY DEF Settled
      <4>1. u = Main
        BY DEF Serial, OneScans
      <4> QED BY <1>1, <1>7, <2>2, <4>1
    <3>4. Part(disk[location[b].file].data, location[b].offset, Length(b)) = Data(b)
      BY <3>2, <3>3 DEF Serial, FoundWhenSerial
    <3> QED BY <1>5, <3>1, <3>4 DEF IsThere
  <2> QED BY <2>1, <2>2
<1> QED BY <1>8, <1>9 DEF Serial

LEMMA SerialWhole ==
    ASSUME Inv, Serial, NEW t \in Threads, CompareWhole(t)
    PROVE  Serial'
<1>1. PICK c \in Scan : c = scan[t] /\ Sound(c)
  BY ThreadOf
<1>2. World /\ scan \in [Threads -> Scan] /\ location \in Locations
  BY DEF Inv, Types
<1>3. /\ Ready(c) /\ c.pc = "whole" /\ scan' = [scan EXCEPT ![t] = Idle]
      /\ \/ location' = location
         \/ \E s \in SourceIds :
              /\ Copy(s, c.file)
              /\ location' = [b \in AllBlocks |->
                   IF b[1] = s THEN [file |-> c.file, offset |-> Start(b)] ELSE location[b]]
  BY <1>1, WholeCompletes
<1>4. UNCHANGED <<disk, verifiable, concurrent>>
  BY DEF CompareWhole
<1>5. ASSUME ~concurrent PROVE t = Main
  BY <1>1, <1>3, <1>5 DEF Serial, OneScans
<1>6. CASE location' = location
  <2>1. scan[t].pc # "setoffset" /\ Idle.pc # "setoffset" /\ (concurrent \/ t = Main)
    BY <1>1, <1>3, <1>5, IdleTypes
  <2> QED BY <1>3, <1>4, <1>6, <2>1, SerialStays
<1>7. ASSUME NEW s \in SourceIds, Copy(s, c.file),
             location' = [b \in AllBlocks |->
               IF b[1] = s THEN [file |-> c.file, offset |-> Start(b)] ELSE location[b]]
      PROVE  Serial'
  <2>1. \A u \in Threads : ~concurrent => scan'[u].pc = "idle" /\ scan[u].pc # "setoffset"
    <3> SUFFICES ASSUME NEW u \in Threads, ~concurrent
                 PROVE  scan'[u].pc = "idle" /\ scan[u].pc # "setoffset"
      OBVIOUS
    <3>1. CASE u = t
      BY <1>1, <1>2, <1>3, <3>1, IdleTypes
    <3>2. CASE u # t
      BY <1>2, <1>3, <1>5, <3>2 DEF Serial, OneScans
    <3> QED BY <3>1, <3>2
  <2>2. OneScans'
    BY <1>4, <2>1 DEF OneScans
  <2>3. FoundWhenSerial'
    <3> SUFFICES ASSUME ~concurrent, blockverifiable, NEW b \in AllBlocks, IsSet(b)', InFile(b)'
                 PROVE  IsThere(location[b].file, location[b].offset, b)'
      BY <1>4 DEF FoundWhenSerial, IsThere, blockverifiable
    <3>1. CASE b[1] = s
      <4>1. location'[b].file = c.file /\ location'[b].offset = Start(b)
        BY <1>7, <3>1
      <4>2. disk[c.file].data = Sources[b[1]]
        BY <1>7, <3>1 DEF Copy
      <4> QED BY <1>4, <4>1, <4>2 DEF IsThere, Data
    <3>2. CASE b[1] # s
      <4>1. location'[b] = location[b]
        BY <1>7, <3>2
      <4>2. IsSet(b) /\ InFile(b) /\ Settled(b)
        BY <1>4, <2>1, <4>1 DEF IsSet, InFile, Size, Settled
      <4>3. Part(disk[location[b].file].data, location[b].offset, Length(b)) = Data(b)
        BY <4>2 DEF Serial, FoundWhenSerial
      <4> QED BY <1>4, <4>1, <4>3 DEF IsThere
    <3> QED BY <3>1, <3>2
  <2> QED BY <2>2, <2>3 DEF Serial
<1> QED BY <1>3, <1>6, <1>7

LEMMA StepSerial == Inv /\ Serial /\ [Next]_vars => Serial'
<1> SUFFICES ASSUME Inv, Serial, [Next]_vars PROVE Serial'
  OBVIOUS
<1>0. World /\ scan \in [Threads -> Scan]
  BY DEF Inv, Types
<1>1. ASSUME NEW t \in Threads, TakeTarget(t) PROVE Serial'
  <2>1. /\ scan[t].pc = "idle" /\ (concurrent \/ t = Main)
        /\ UNCHANGED scan \/ \E d : GoesOnAs(t, d) /\ d.pc \in {"scan", "whole"}
    BY <1>1, TargetWorks
  <2>2. UNCHANGED <<disk, verifiable, concurrent, location>>
    BY <1>1 DEF TakeTarget
  <2> QED BY <2>1, <2>2, SerialStays DEF GoesOnAs
<1>2. ASSUME NEW t \in Threads, MatchBlock(t) PROVE Serial'
  <2>1. PICK c \in Scan : c = scan[t] /\ Sound(c)
    BY ThreadOf
  <2>2. c.pc = "scan" /\ \E d : GoesOnAs(t, d) /\ d.pc \in {"scan", "setfile"}
    BY <1>0, <1>2, <2>1, MatchWorks
  <2>3. UNCHANGED <<disk, verifiable, concurrent, location>>
    BY <1>2 DEF MatchBlock, records
  <2>4. concurrent \/ t = Main
    BY <2>1, <2>2 DEF Serial, OneScans
  <2> QED BY <2>1, <2>2, <2>3, <2>4, SerialStays DEF GoesOnAs
<1>3. ASSUME NEW t \in Threads, EndScan(t) PROVE Serial'
  <2>1. PICK c \in Scan : c = scan[t] /\ Sound(c)
    BY ThreadOf
  <2>2. c.pc = "scan" /\ \E d : GoesOnAs(t, d) /\ d.pc \in {"idle", "whole"}
    BY <1>0, <1>3, <2>1, EndWorks, IdleTypes
  <2>3. UNCHANGED <<disk, verifiable, concurrent, location>>
    BY <1>3 DEF EndScan
  <2>4. concurrent \/ t = Main
    BY <2>1, <2>2 DEF Serial, OneScans
  <2> QED BY <2>1, <2>2, <2>3, <2>4, SerialStays DEF GoesOnAs
<1>4. ASSUME NEW t \in Threads, ReadFails(t) PROVE Serial'
  <2>1. scan[t].pc \in {"scan", "whole"} /\ scan' = [scan EXCEPT ![t] = Idle]
          /\ UNCHANGED <<disk, verifiable, concurrent, location>>
    BY <1>4 DEF ReadFails, GiveUp
  <2>2. concurrent \/ t = Main
    BY <2>1 DEF Serial, OneScans
  <2> QED BY <2>1, <2>2, IdleTypes, SerialStays
<1>5. CASE VerifyExtras
  BY <1>5, SerialStays DEF VerifyExtras
<1>6. CASE TakeExtra
  <2>1. /\ scan[Main].pc = "idle" /\ Main \in Threads
        /\ UNCHANGED scan \/ \E d : GoesOnAs(Main, d) /\ d.pc \in {"scan", "whole"}
    BY <1>6, ExtraWorks
  <2>2. UNCHANGED <<disk, verifiable, concurrent, location>>
    BY <1>6 DEF TakeExtra
  <2> QED BY <2>1, <2>2, SerialStays DEF GoesOnAs
<1>7. CASE UNCHANGED vars
  BY <1>7, SerialStays DEF vars
<1> QED
  BY <1>1, <1>2, <1>3, <1>4, <1>5, <1>6, <1>7, SerialSetFile, SerialSetOffset, SerialWhole
  DEF Next, Finished

\* A block that one thread has found is where it was found.
THEOREM FoundWhenSerialHolds == Spec => []FoundWhenSerial
<1>1. Init => Serial
  BY IdleTypes DEF Init, Serial, OneScans, FoundWhenSerial, IsSet
<1>2. Serial => FoundWhenSerial
  BY DEF Serial
<1> QED BY InitInv, StepInv, StepSerial, <1>1, <1>2, PTL DEF Spec

-----------------------------------------------------------------------------
(* The block count of a file, and the blocks that were found in it *)

LEMMA BlocksFinite == IsFiniteSet(AllBlocks)
<1> DEFINE of == [s \in SourceIds |-> {s} \X (1 .. BlocksOf(s))]
           all == {{s} \X (1 .. BlocksOf(s)) : s \in SourceIds}
<1>1. IsFiniteSet(SourceIds)
  <2>1. 1 \in Int /\ NumSources \in Int
    BY Sizes
  <2> QED BY <2>1, FS_Interval DEF SourceIds
<1>2. ASSUME NEW s \in SourceIds PROVE IsFiniteSet({s} \X (1 .. BlocksOf(s)))
  <2>1. 1 \in Int /\ BlocksOf(s) \in Int
    BY Sizes DEF BlocksOf
  <2>2. IsFiniteSet({s}) /\ IsFiniteSet(1 .. BlocksOf(s))
    BY <2>1, FS_Interval, FS_Singleton
  <2> QED BY <2>2, FS_Product
<1>3. of \in Surjection(SourceIds, all)
  BY DEF Surjection
<1>4. IsFiniteSet(all)
  <2> HIDE DEF of, all
  <2> QED BY <1>1, <1>3, FS_Surjection
<1>5. \A T \in all : IsFiniteSet(T)
  BY <1>2
<1>6. IsFiniteSet(UNION all)
  <2> HIDE DEF all
  <2> QED BY <1>4, <1>5, FS_UNION
<1> QED BY <1>6 DEF AllBlocks

\* The blocks that a repair will read from file f.
Here(f) == {b \in AllBlocks : location[b].file = f /\ b[1] \in verifiable}

\* No thread has come to file f yet.
Untouched(f) ==
    \/ phase = "verify" /\ \A i \in 1 .. next - 1 : Sorted[i] # f
    \/ phase = "extras" /\ next <= f

\* A thread has counted the blocks it has found, but for the one it is setting.
Counts(c) ==
    c.pc # "idle" =>
      /\ blockcount[c.file] = 0
      /\ c.pc \in {"scan", "setfile"} => Cardinality(Here(c.file)) <= c.count
      /\ c.pc = "setoffset" => Cardinality(Here(c.file)) <= c.count + 1
Covered(f) == blockcount[f] = 0 \/ Cardinality(Here(f)) <= blockcount[f]

CountInv ==
    /\ phase = "verify" => next <= NumSources + 1
    /\ \A f \in Files : Untouched(f) =>
         Here(f) = {} /\ blockcount[f] = 0 /\ \A t \in Threads : scan[t].file # f
    /\ \A t, u \in Threads : scan[t].file = scan[u].file /\ scan[t].file \in Files => t = u
    /\ \A t \in Threads, c \in Scan : c = scan[t] => Counts(c)
    /\ \A f \in Files : Covered(f)

LEMMA SubsetCount ==
    ASSUME NEW S \in SUBSET AllBlocks, NEW T \in SUBSET S
    PROVE  Cardinality(T) \in Nat /\ Cardinality(S) \in Nat /\ Cardinality(T) <= Cardinality(S)
<1>1. IsFiniteSet(S)
  BY BlocksFinite, FS_Subset
<1>2. IsFiniteSet(T) /\ Cardinality(T) <= Cardinality(S)
  BY <1>1, FS_Subset
<1> QED BY <1>1, <1>2, FS_CardinalityType

LEMMA OneMore ==
    ASSUME NEW S \in SUBSET AllBlocks, NEW b \in AllBlocks, NEW T \in SUBSET (S \cup {b})
    PROVE  Cardinality(S) \in Nat /\ Cardinality(T) \in Nat /\ Cardinality(T) <= Cardinality(S) + 1
<1>1. IsFiniteSet(S) /\ Cardinality(S) \in Nat
  BY BlocksFinite, FS_Subset, FS_CardinalityType
<1>2. Cardinality(S \cup {b}) = IF b \in S THEN Cardinality(S) ELSE Cardinality(S) + 1
  BY <1>1, FS_AddElement
<1>3. S \cup {b} \in SUBSET AllBlocks
  OBVIOUS
<1>4. Cardinality(T) \in Nat /\ Cardinality(S \cup {b}) \in Nat /\ Cardinality(T) <= Cardinality(S \cup {b})
  BY <1>3, SubsetCount
<1> QED BY <1>1, <1>2, <1>4

\* A scan that is under way goes on or ends; the other threads are left alone.
LEMMA CountMoves ==
    ASSUME Inv, CountInv, UNCHANGED <<phase, next>>,
           NEW t \in Threads, NEW c \in Scan, c = scan[t], c.file \in Files,
           NEW d \in Scan, scan' = [scan EXCEPT ![t] = d], d.file \in {c.file, NoFile}, Counts(d)',
           \A f \in Files : f # c.file =>
             (Here(f)' \subseteq Here(f)) /\ blockcount'[f] = blockcount[f],
           Covered(c.file)'
    PROVE  CountInv'
<1>1. scan \in [Threads -> Scan] /\ NoFile \notin Files
  BY DEF Inv, Types, Files, NoFile
<1>2. \A f \in Files : Untouched(f)' <=> Untouched(f)
  BY DEF Untouched
<1>3. \A f : Here(f) \in SUBSET AllBlocks
  BY DEF Here
<1>4. \A f \in Files : f # c.file =>
        /\ Here(f)' \in SUBSET Here(f) /\ Cardinality(Here(f)') <= Cardinality(Here(f))
        /\ Cardinality(Here(f)') \in Nat /\ Cardinality(Here(f)) \in Nat
  BY <1>3, SubsetCount
<1>5. ASSUME NEW f \in Files, Untouched(f)'
      PROVE  Here(f)' = {} /\ blockcount'[f] = 0 /\ \A u \in Threads : scan'[u].file # f
  <2>1. Here(f) = {} /\ blockcount[f] = 0 /\ \A u \in Threads : scan[u].file # f
    BY <1>2, <1>5 DEF CountInv
  <2>2. f # c.file /\ f # NoFile
    BY <1>1, <2>1
  <2>3. Here(f)' \subseteq Here(f) /\ blockcount'[f] = blockcount[f]
    BY <2>2
  <2> QED BY <1>1, <2>1, <2>2, <2>3
<1>6. ASSUME NEW u \in Threads, NEW v \in Threads, scan'[u].file = scan'[v].file, scan'[u].file \in Files
      PROVE  u = v
  <2>1. \A w \in Threads : scan'[w].file \in Files => scan[w].file = scan'[w].file
    BY <1>1
  <2> QED BY <1>6, <2>1 DEF CountInv
<1>7. ASSUME NEW u \in Threads, NEW e \in Scan, e = scan'[u] PROVE Counts(e)'
  <2>1. CASE u = t
    <3>1. e = d
      BY <1>1, <1>7, <2>1
    <3> QED BY <3>1
  <2>2. CASE u # t
    <3>1. e = scan[u]
      BY <1>1, <1>7, <2>2
    <3>2. Counts(e) /\ Sound(e)
      BY <3>1 DEF CountInv, Inv, AllSound
    <3>3. CASE e.pc = "idle"
      BY <3>3 DEF Counts
    <3>4. CASE e.pc # "idle"
      <4>1. e.file \in Files
        BY <3>2, <3>4 DEF Sound, Ready
      <4>2. e.file # c.file
        BY <2>2, <3>1, <4>1 DEF CountInv
      <4>3. blockcount'[e.file] = 0
        BY <3>2, <3>4, <4>1, <4>2 DEF Counts
      <4>4. \A h, n, k \in Nat : h <= n /\ n <= k => h <= k
        OBVIOUS
      <4>5. e.count \in Nat /\ e.count + 1 \in Nat
        <5>1. e.count \in Nat
          BY DEF Scan
        <5> QED BY <5>1
      <4>6. /\ e.pc \in {"scan", "setfile"} => Cardinality(Here(e.file)') <= e.count
            /\ e.pc = "setoffset" => Cardinality(Here(e.file)') <= e.count + 1
        BY <1>4, <3>2, <3>4, <4>1, <4>2, <4>4, <4>5 DEF Counts
      <4> QED BY <4>3, <4>6 DEF Counts, Here
    <3> QED BY <3>3, <3>4
  <2> QED BY <2>1, <2>2
<1>8. ASSUME NEW f \in Files PROVE Covered(f)'
  <2>1. CASE f = c.file
    BY <2>1
  <2>2. CASE f # c.file
    <3>1. Covered(f) /\ blockcount[f] \in Nat /\ blockcount'[f] = blockcount[f]
      BY <2>2 DEF CountInv, Inv, Types
    <3>2. Cardinality(Here(f)') <= Cardinality(Here(f)) /\ Cardinality(Here(f)') \in Nat
            /\ Cardinality(Here(f)) \in Nat
      BY <1>4, <2>2
    <3>3. blockcount'[f] = 0 \/ Cardinality(Here(f)') <= blockcount'[f]
      BY <3>1, <3>2 DEF Covered
    <3> QED BY <3>3 DEF Covered
  <2> QED BY <2>1, <2>2
<1>9. (phase = "verify" => next <= NumSources + 1)'
  BY DEF CountInv
<1> QED BY <1>5, <1>6, <1>7, <1>8, <1>9 DEF CountInv

\* A file is passed over, or a scan of it begins; no block is found.
LEMMA CountTakes ==
    ASSUME Inv, CountInv, UNCHANGED <<location, verifiable, blockcount>>,
           NEW t \in Threads, scan[t].pc = "idle", NEW f \in Files, Untouched(f),
           phase' = "verify" => next' <= NumSources + 1,
           \A g \in Files : Untouched(g)' => Untouched(g) /\ g # f,
           \/ UNCHANGED scan
           \/ \E d : GoesOnAs(t, d) /\ d.file = f /\ d.count = 0 /\ d.pc \in {"scan", "whole"}
    PROVE  CountInv'
<1>1. scan \in [Threads -> Scan] /\ NoFile \notin Files
  BY DEF Inv, Types, Files, NoFile
<1>2. \A g : Here(g)' = Here(g)
  BY DEF Here
<1>3. \A g \in Files : Covered(g)'
  BY <1>2 DEF CountInv, Covered
<1>4. \A e : Counts(e) => Counts(e)'
  BY <1>2 DEF Counts
<1>5. CASE UNCHANGED scan
  <2>1. \A u \in Threads, e \in Scan : e = scan'[u] => Counts(e)'
    BY <1>4, <1>5 DEF CountInv
  <2>2. \A g \in Files : Untouched(g)' =>
          Here(g)' = {} /\ blockcount'[g] = 0 /\ \A u \in Threads : scan'[u].file # g
    BY <1>2, <1>5 DEF CountInv
  <2>3. \A u, v \in Threads : scan'[u].file = scan'[v].file /\ scan'[u].file \in Files => u = v
    BY <1>5 DEF CountInv
  <2> QED BY <1>3, <2>1, <2>2, <2>3 DEF CountInv
<1>6. ASSUME NEW d, GoesOnAs(t, d), d.file = f, d.count = 0, d.pc \in {"scan", "whole"}
      PROVE  CountInv'
  <2>1. d \in Scan /\ scan' = [scan EXCEPT ![t] = d]
    BY <1>6 DEF GoesOnAs
  <2>2. Here(f) = {} /\ blockcount[f] = 0 /\ \A u \in Threads : scan[u].file # f
    BY DEF CountInv
  <2>3. Counts(d)'
    <3>1. Cardinality({}) = 0 /\ 0 <= 0
      BY FS_EmptySet
    <3>2. blockcount'[d.file] = 0 /\ Here(d.file)' = {}
      BY <1>2, <1>6, <2>2
    <3> QED BY <1>6, <3>1, <3>2 DEF Counts
  <2>4. \A u \in Threads, e \in Scan : e = scan'[u] => Counts(e)'
    <3> SUFFICES ASSUME NEW u \in Threads, NEW e \in Scan, e = scan'[u] PROVE Counts(e)'
      OBVIOUS
    <3>1. CASE u = t
      <4>1. e = d
        BY <1>1, <2>1, <3>1
      <4> QED BY <2>3, <4>1
    <3>2. CASE u # t
      <4>1. e = scan[u]
        BY <1>1, <2>1, <3>2
      <4>2. Counts(e)
        BY <4>1 DEF CountInv
      <4> QED BY <1>4, <4>2
    <3> QED BY <3>1, <3>2
  <2>5. ASSUME NEW g \in Files, Untouched(g)'
        PROVE  Here(g)' = {} /\ blockcount'[g] = 0 /\ \A u \in Threads : scan'[u].file # g
    <3>1. Here(g) = {} /\ blockcount[g] = 0 /\ (\A u \in Threads : scan[u].file # g) /\ g # f
      BY <2>5 DEF CountInv
    <3> QED BY <1>1, <1>2, <1>6, <2>1, <3>1
  <2>6. ASSUME NEW u \in Threads, NEW v \in Threads,
               scan'[u].file = scan'[v].file, scan'[u].file \in Files
        PROVE  u = v
    BY <1>1, <1>6, <2>1, <2>2, <2>6 DEF CountInv
  <2> QED BY <1>3, <2>4, <2>5, <2>6 DEF CountInv
<1> QED BY <1>5, <1>6

LEMMA ScanFile == ASSUME NEW c, Sound(c), c.pc # "idle" PROVE c.file \in Files
  BY DEF Sound, Ready

LEMMA IdleCounts == Counts(Idle)'
  BY IdleTypes DEF Counts

LEMMA CountSetFile == ASSUME Inv, CountInv, NEW t \in Threads, SetFile(t) PROVE CountInv'
<1>1. PICK c \in Scan : c = scan[t] /\ Sound(c)
  BY ThreadOf
<1>2. World /\ scan \in [Threads -> Scan] /\ location \in Locations
  BY DEF Inv, Types
<1>3. PICK d : /\ GoesOnAs(t, d) /\ c.pc = "setfile" /\ d.pc = "setoffset"
               /\ d.file = c.file /\ d.count = c.count /\ d.block = c.block
               /\ c.block \in AllBlocks
  BY <1>1, <1>2, SetFileWorks
<1>4. /\ d \in Scan /\ scan' = [scan EXCEPT ![t] = d]
      /\ location' = [location EXCEPT ![c.block].file = c.file]
      /\ UNCHANGED <<verifiable, phase, next, blockcount>>
  BY <1>1, <1>3 DEF SetFile, GoesOnAs
<1>5. \A b \in AllBlocks : b # c.block => location'[b] = location[b]
  BY <1>2, <1>3, <1>4 DEF Locations
<1>6. location'[c.block].file = c.file
  BY <1>2, <1>3, <1>4 DEF Locations
<1>7. c.file \in Files /\ Counts(c)
  BY <1>1, <1>3, ScanFile DEF CountInv
<1>8. \A f : f # c.file => Here(f)' \subseteq Here(f)
  BY <1>4, <1>5, <1>6 DEF Here
<1>9. Here(c.file)' \subseteq Here(c.file) \cup {c.block}
  BY <1>4, <1>5 DEF Here
<1>10. Cardinality(Here(c.file)') <= c.count + 1
  <2>1. Here(c.file) \in SUBSET AllBlocks
    BY DEF Here
  <2>2. Cardinality(Here(c.file)) \in Nat /\ Cardinality(Here(c.file)') \in Nat
          /\ Cardinality(Here(c.file)') <= Cardinality(Here(c.file)) + 1
    BY <1>3, <1>9, <2>1, OneMore
  <2>3. Cardinality(Here(c.file)) <= c.count
    BY <1>3, <1>7 DEF Counts
  <2>4. c.count \in Nat
    BY DEF Scan
  <2> QED BY <2>2, <2>3, <2>4
<1>11. blockcount[c.file] = 0
  BY <1>3, <1>7 DEF Counts
<1>12. Counts(d)'
  <2>1. blockcount'[d.file] = 0 /\ Cardinality(Here(d.file)') <= d.count + 1
    BY <1>3, <1>4, <1>10, <1>11
  <2> QED BY <1>3, <2>1 DEF Counts
<1>13. Covered(c.file)'
  BY <1>4, <1>11 DEF Covered
<1> QED BY <1>1, <1>3, <1>4, <1>7, <1>8, <1>12, <1>13, CountMoves

\* A step of a scan that takes no block away from a file or to another.
LEMMA CountSame ==
    ASSUME Inv, CountInv, UNCHANGED <<phase, next, verifiable, blockcount>>,
           \A b \in AllBlocks : b[1] \in verifiable => location'[b].file = location[b].file,
           NEW t \in Threads, NEW c \in Scan, c = scan[t], c.file \in Files, c.pc # "idle",
           NEW d \in Scan, scan' = [scan EXCEPT ![t] = d],
           \/ d = Idle
           \/ /\ d.file = c.file
              /\ \/ d.pc = "whole"
                 \/ c.pc = "scan" /\ d.pc \in {"scan", "setfile"} /\ d.count = c.count
                 \/ c.pc = "setoffset" /\ d.pc = "scan" /\ d.count = c.count + 1
    PROVE  CountInv'
<1>1. \A f : Here(f)' = Here(f)
  BY DEF Here
<1>2. Counts(c)
  BY DEF CountInv
<1>3. Covered(c.file)'
  BY <1>1 DEF Covered, CountInv
<1>4. CASE d = Idle
  BY <1>1, <1>3, <1>4, IdleTypes, IdleCounts, CountMoves
<1>5. CASE d # Idle
  <2>1. d.file = c.file /\ blockcount'[d.file] = 0
    BY <1>2, <1>5 DEF Counts
  <2>2. /\ d.pc \in {"scan", "setfile"} => Cardinality(Here(d.file)) <= d.count
        /\ d.pc = "setoffset" => Cardinality(Here(d.file)) <= d.count + 1
    BY <1>2, <1>5, <2>1 DEF Counts
  <2>3. Counts(d)'
    BY <1>1, <2>1, <2>2 DEF Counts
  <2> QED BY <1>1, <1>3, <2>1, <2>3, CountMoves
<1> QED BY <1>4, <1>5

LEMMA CountEnd == ASSUME Inv, CountInv, NEW t \in Threads, EndScan(t) PROVE CountInv'
<1>1. PICK c \in Scan : c = scan[t] /\ Sound(c)
  BY ThreadOf
<1>2. World /\ scan \in [Threads -> Scan] /\ blockcount \in [Files -> Nat]
  BY DEF Inv, Types
<1>3. /\ c.pc = "scan" /\ c.count \in Nat
      /\ \E d : GoesOnAs(t, d) /\ IF c.count > 0 THEN d = Idle ELSE d.pc = "whole" /\ d.file = c.file
  BY <1>1, <1>2, EndWorks
<1>4. PICK d : GoesOnAs(t, d) /\ IF c.count > 0 THEN d = Idle ELSE d.pc = "whole" /\ d.file = c.file
  BY <1>3
<1>5. /\ d \in Scan /\ scan' = [scan EXCEPT ![t] = d]
      /\ blockcount' = [blockcount EXCEPT ![c.file] = c.count]
      /\ UNCHANGED <<verifiable, phase, next, location>>
  BY <1>1, <1>4 DEF EndScan, GoesOnAs
<1>6. c.file \in Files /\ Counts(c)
  BY <1>1, <1>3, ScanFile DEF CountInv
<1>7. \A f : Here(f)' = Here(f)
  BY <1>5 DEF Here
<1>8. \A f \in Files : f # c.file => blockcount'[f] = blockcount[f]
  BY <1>2, <1>5
<1>9. blockcount'[c.file] = c.count /\ Cardinality(Here(c.file)) <= c.count
  BY <1>2, <1>3, <1>5, <1>6 DEF Counts
<1>10. Covered(c.file)'
  BY <1>7, <1>9 DEF Covered
<1>11. CASE c.count > 0
  BY <1>1, <1>4, <1>5, <1>6, <1>7, <1>8, <1>10, <1>11, IdleTypes, IdleCounts, CountMoves
<1>12. CASE ~(c.count > 0)
  <2>1. c.count = 0
    BY <1>3, <1>12
  <2>2. d.pc = "whole" /\ d.file = c.file
    BY <1>4, <1>12
  <2>3. Counts(d)'
    BY <1>9, <2>1, <2>2 DEF Counts
  <2> QED BY <1>1, <1>5, <1>6, <1>7, <1>8, <1>10, <2>2, <2>3, CountMoves
<1> QED BY <1>11, <1>12

LEMMA CountTarget == ASSUME Inv, CountInv, NEW t \in Threads, TakeTarget(t) PROVE CountInv'
<1>1. /\ Sorted[next] \in SourceIds /\ Sorted[next] \in Files /\ phase = "verify"
      /\ next <= NumSources /\ next' = next + 1 /\ scan[t].pc = "idle"
      /\ \/ UNCHANGED scan
         \/ \E d : /\ GoesOnAs(t, d) /\ d.file = Sorted[next] /\ d.count = 0
                   /\ d.pc \in {"scan", "whole"}
  BY TargetWorks
<1>2. UNCHANGED <<phase, location, verifiable, blockcount>>
  BY DEF TakeTarget
<1>3. PICK f : f = Sorted[next]
  OBVIOUS
<1>4. next \in Nat /\ next >= 1 /\ NumSources \in Nat
  BY Sizes DEF Inv, Types
<1>5. Untouched(f)
  <2> SUFFICES ASSUME NEW i \in 1 .. next - 1 PROVE Sorted[i] # f
    BY <1>1 DEF Untouched
  <2>1. i \in SourceIds /\ next \in SourceIds /\ i # next
    BY <1>1, <1>4 DEF SourceIds
  <2> QED BY <1>3, <2>1, ScanAssumption DEF ScanAssumption
<1>6. ASSUME NEW g \in Files, Untouched(g)' PROVE Untouched(g) /\ g # f
  <2>1. \A i \in 1 .. next' - 1 : Sorted[i] # g
    BY <1>1, <1>2, <1>6 DEF Untouched
  <2>2. \A i \in 1 .. next : Sorted[i] # g
    <3>1. next' - 1 = next
      BY <1>1, <1>4
    <3> QED BY <2>1, <3>1
  <2>3. next \in 1 .. next /\ \A i \in 1 .. next - 1 : i \in 1 .. next
    BY <1>4
  <2> QED BY <1>1, <1>3, <2>2, <2>3 DEF Untouched
<1>7. next' <= NumSources + 1
  BY <1>1, <1>4
<1>8. f \in Files /\ (\/ UNCHANGED scan
                      \/ \E d : /\ GoesOnAs(t, d) /\ d.file = f /\ d.count = 0
                                /\ d.pc \in {"scan", "whole"})
  BY <1>1, <1>3
<1> QED BY <1>1, <1>2, <1>5, <1>6, <1>7, <1>8, CountTakes

LEMMA CountExtra == ASSUME Inv, CountInv, TakeExtra PROVE CountInv'
<1>1. UNCHANGED <<location, verifiable, blockcount>> /\ phase = "extras"
  BY DEF TakeExtra
<1>2. CASE UNCHANGED <<scan, next>> /\ phase' = "done"
  <2>1. (\A f : Here(f)' = Here(f)) /\ \A f : ~Untouched(f)'
    BY <1>1, <1>2 DEF Here, Untouched
  <2>2. \A f \in Files : Covered(f)'
    BY <1>1, <2>1 DEF Covered, CountInv
  <2>3. \A t \in Threads, c \in Scan : c = scan'[t] => Counts(c)'
    BY <1>1, <1>2, <2>1 DEF Counts, CountInv
  <2> QED BY <1>2, <2>1, <2>2, <2>3 DEF CountInv
<1>3. CASE /\ next \in Files /\ next' = next + 1 /\ UNCHANGED phase
           /\ \/ UNCHANGED scan
              \/ \E d : /\ GoesOnAs(Main, d) /\ d.file = next /\ d.count = 0
                        /\ d.pc \in {"scan", "whole"}
  <2>1. PICK f : f = next
    OBVIOUS
  <2>2. f \in Files /\ f \in Nat
    BY <1>3, <2>1 DEF Files
  <2>3. Untouched(f)
    BY <1>1, <2>1, <2>2 DEF Untouched
  <2>4. ASSUME NEW g \in Files, Untouched(g)' PROVE Untouched(g) /\ g # f
    <3>1. f + 1 <= g /\ g \in Nat
      BY <1>1, <1>3, <2>1, <2>4 DEF Untouched, Files
    <3>2. f <= g /\ g # f
      BY <2>2, <3>1
    <3> QED BY <1>1, <2>1, <3>2 DEF Untouched
  <2>5. phase' # "verify" /\ Main \in Threads /\ scan[Main].pc = "idle"
    BY <1>1, <1>3, ExtraWorks
  <2>6. \/ UNCHANGED scan
        \/ \E d : /\ GoesOnAs(Main, d) /\ d.file = f /\ d.count = 0
                  /\ d.pc \in {"scan", "whole"}
    BY <1>3, <2>1
  <2> QED BY <1>1, <2>2, <2>3, <2>4, <2>5, <2>6, CountTakes
<1> QED BY <1>2, <1>3, ExtraWorks

LEMMA CountExtras == ASSUME Inv, CountInv, VerifyExtras PROVE CountInv'
<1>1. /\ phase = "verify" /\ next > NumSources
      /\ \/ phase' \in {"failed", "done"}
         \/ phase' = "extras" /\ next' = NumSources + 1
      /\ UNCHANGED <<verifiable, scan, location, blockcount>>
  BY DEF VerifyExtras
<1>2. next \in Nat /\ next <= NumSources + 1 /\ NumSources \in Nat
  BY <1>1, Sizes DEF Inv, Types, CountInv
<1>3. \A f : Here(f)' = Here(f)
  BY <1>1 DEF Here
<1>4. \A f \in Files : Covered(f)'
  BY <1>1, <1>3 DEF Covered, CountInv
<1>5. \A t \in Threads, c \in Scan : c = scan'[t] => Counts(c)'
  BY <1>1, <1>3 DEF Counts, CountInv
<1>6. ASSUME NEW f \in Files, Untouched(f)' PROVE Untouched(f)
  <2>1. NumSources + 1 <= f /\ f \in Nat
    BY <1>1, <1>6 DEF Untouched, Files
  <2> SUFFICES ASSUME NEW i \in 1 .. next - 1 PROVE Sorted[i] # f
    BY <1>1 DEF Untouched
  <2>2. i \in SourceIds
    BY <1>2 DEF SourceIds
  <2>3. Sorted[i] \in 1 .. NumSources
    BY <2>2, ScanAssumption DEF ScanAssumption, SourceIds
  <2> QED BY <1>2, <2>1, <2>3
<1>7. \A f \in Files : Untouched(f)' =>
        Here(f)' = {} /\ blockcount'[f] = 0 /\ \A t \in Threads : scan'[t].file # f
  BY <1>1, <1>3, <1>6 DEF CountInv
<1>8. \A t, u \in Threads : scan'[t].file = scan'[u].file /\ scan'[t].file \in Files => t = u
  BY <1>1 DEF CountInv
<1> QED BY <1>1, <1>4, <1>5, <1>7, <1>8 DEF CountInv

LEMMA StepCount == Inv /\ CountInv /\ [Next]_vars => CountInv'
<1> SUFFICES ASSUME Inv, CountInv, [Next]_vars PROVE CountInv'
  OBVIOUS
<1>0. World
  BY DEF Inv, Types
<1>1. ASSUME NEW t \in Threads, MatchBlock(t) PROVE CountInv'
  <2>1. PICK c \in Scan : c = scan[t] /\ Sound(c)
    BY ThreadOf
  <2>2. PICK d : /\ GoesOnAs(t, d) /\ c.pc = "scan" /\ d.file = c.file /\ d.count = c.count
                 /\ d.pc \in {"scan", "setfile"}
    BY <1>0, <1>1, <2>1, MatchWorks
  <2>3. d \in Scan /\ scan' = [scan EXCEPT ![t] = d] /\ c.file \in Files
    BY <2>1, <2>2, ScanFile DEF GoesOnAs
  <2>4. UNCHANGED <<phase, next, verifiable, blockcount, location>>
    BY <1>1 DEF MatchBlock, records
  <2> QED BY <2>1, <2>2, <2>3, <2>4, CountSame
<1>2. ASSUME NEW t \in Threads, SetOffset(t) PROVE CountInv'
  <2>1. PICK c \in Scan : c = scan[t] /\ Sound(c)
    BY ThreadOf
  <2>2. /\ c.pc = "setoffset" /\ c.block \in AllBlocks
        /\ \E d : /\ GoesOnAs(t, d) /\ d.pc = "scan" /\ d.file = c.file /\ d.count = c.count + 1
    BY <1>0, <1>2, <2>1, SetOffsetWorks
  <2>3. PICK d : GoesOnAs(t, d) /\ d.pc = "scan" /\ d.file = c.file /\ d.count = c.count + 1
    BY <2>2
  <2>4. d \in Scan /\ scan' = [scan EXCEPT ![t] = d] /\ c.file \in Files
    BY <2>1, <2>2, <2>3, ScanFile DEF GoesOnAs
  <2>5. UNCHANGED <<phase, next, verifiable, blockcount>>
          /\ location' = [location EXCEPT ![c.block].offset = c.offset]
    BY <1>2, <2>1 DEF SetOffset
  <2>6. \A b \in AllBlocks : location'[b].file = location[b].file
    BY <2>2, <2>5 DEF Inv, Types, Locations
  <2> QED BY <2>1, <2>2, <2>3, <2>4, <2>5, <2>6, CountSame
<1>3. ASSUME NEW t \in Threads, CompareWhole(t) PROVE CountInv'
  <2>1. PICK c \in Scan : c = scan[t] /\ Sound(c)
    BY ThreadOf
  <2>2. /\ Ready(c) /\ c.pc = "whole" /\ scan' = [scan EXCEPT ![t] = Idle]
        /\ \/ location' = location
           \/ \E s \in SourceIds :
                /\ s \notin verifiable
                /\ location' = [b \in AllBlocks |->
                     IF b[1] = s THEN [file |-> c.file, offset |-> Start(b)] ELSE location[b]]
    BY <1>3, <2>1, WholeCompletes
  <2>3. UNCHANGED <<phase, next, verifiable, blockcount>>
    BY <1>3 DEF CompareWhole
  <2>4. \A b \in AllBlocks : b[1] \in verifiable => location'[b].file = location[b].file
    BY <2>2
  <2>5. c.file \in Files /\ c.pc # "idle" /\ Idle \in Scan
    BY <2>2, IdleTypes DEF Ready
  <2> QED BY <2>1, <2>2, <2>3, <2>4, <2>5, CountSame
<1>4. ASSUME NEW t \in Threads, ReadFails(t) PROVE CountInv'
  <2>1. PICK c \in Scan : c = scan[t] /\ Sound(c)
    BY ThreadOf
  <2>2. c.pc # "idle" /\ scan' = [scan EXCEPT ![t] = Idle]
          /\ UNCHANGED <<phase, next, verifiable, blockcount, location>>
    BY <1>4, <2>1 DEF ReadFails, GiveUp
  <2>3. c.file \in Files /\ Idle \in Scan
    BY <2>1, <2>2, ScanFile, IdleTypes
  <2> QED BY <2>1, <2>2, <2>3, CountSame
<1>5. CASE UNCHANGED vars
  <2>1. \A f : (Here(f)' = Here(f)) /\ (Untouched(f)' <=> Untouched(f))
    BY <1>5 DEF vars, Here, Untouched
  <2>2. \A c : Counts(c) => Counts(c)'
    BY <1>5, <2>1 DEF vars, Counts
  <2>3. \A f \in Files : Covered(f)'
    BY <1>5, <2>1 DEF vars, Covered, CountInv
  <2> QED BY <1>5, <2>1, <2>2, <2>3 DEF vars, CountInv
<1> QED
  BY <1>1, <1>2, <1>3, <1>4, <1>5, CountTarget, CountExtra, CountExtras, CountSetFile, CountEnd
  DEF Next, Finished

\* A file's block count, where it is not 0, is not below the number of blocks
\* that a repair will read from the file: counting down to 0 does not close the
\* file too early.
THEOREM CountCoversHolds == Spec => []CountCovers
<1>1. Init => CountInv
  <2> SUFFICES ASSUME Init PROVE CountInv
    OBVIOUS
  <2>1. \A f \in Files : Here(f) = {} /\ blockcount[f] = 0 /\ \A t \in Threads : scan[t].file # f
    BY IdleTypes DEF Init, Here, Files, NoFile
  <2>2. \A t \in Threads, c \in Scan : c = scan[t] => Counts(c)
    BY IdleTypes DEF Init, Counts
  <2>3. \A t \in Threads : scan[t].file \notin Files
    BY IdleTypes DEF Init, Files, NoFile
  <2>4. next <= NumSources + 1
    BY Sizes DEF Init
  <2> QED BY <2>1, <2>2, <2>3, <2>4 DEF CountInv, Covered
<1>2. CountInv => CountCovers
  BY DEF CountInv, CountCovers, Covered, Here
<1> QED BY InitInv, StepInv, StepCount, <1>1, <1>2, PTL DEF Spec
=============================================================================
