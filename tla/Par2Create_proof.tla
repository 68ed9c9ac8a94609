--------------------------- MODULE Par2Create_proof ---------------------------
(***************************************************************************)
(* What a creation leaves on disk when it succeeds is whole: each recovery *)
(* block is in one file, with the data that are due, and so are the        *)
(* critical packets.                                                       *)
(*                                                                         *)
(* The first sections are about layouts: the packets of a file, the files, *)
(* their items, and what writing to these does, for any layout.  WholeInv  *)
(* then adds to PlanInv what has been laid out and written at each stage   *)
(* of a creation: the recovery packets in order over the files, every cell *)
(* of a file in one item, and the data that has been computed so far.      *)
(***************************************************************************)
EXTENDS Par2CmdLine_proof

-----------------------------------------------------------------------------
(* What a recovery file is made of *)

\* The packets of recovery blocks follow each other, from one exponent up to another;
\* all other packets are critical.
Ranks(r, p, lo, hi) ==
    /\ r \in [0 .. Len(p) -> Int] /\ r[0] = lo /\ r[Len(p)] = hi
    /\ \A k \in 1 .. Len(p) : IF IsRecovery(p[k]) THEN p[k] = RecoveryHeader(r[k - 1]) /\ r[k] = r[k - 1] + 1
                              ELSE p[k] < 0 /\ r[k] = r[k - 1]
Ordered(p, lo, hi) == p \in Seq(Int) /\ \E r : Ranks(r, p, lo, hi)
Negative(p) == p \in Seq(Int) /\ \A k \in 1 .. Len(p) : p[k] < 0

LEMMA OrderedNone ==
    ASSUME NEW p, Negative(p), NEW x \in Int
    PROVE  Ordered(p, x, x)
<1>1. PICK r : r = [k \in 0 .. Len(p) |-> x]
  OBVIOUS
<1>2. p \in Seq(Int) /\ Len(p) \in Nat /\ \A k \in 1 .. Len(p) : p[k] < 0 /\ p[k] \in Int
  BY DEF Negative
<1>3. r \in [0 .. Len(p) -> Int] /\ r[0] = x /\ r[Len(p)] = x
      /\ \A k \in 1 .. Len(p) : r[k] = x /\ r[k - 1] = x
  BY <1>1, <1>2
<1>4. \A k \in 1 .. Len(p) : ~IsRecovery(p[k])
  <2>1. Count \in Nat
    BY CountIsPower
  <2> QED BY <1>2, <2>1 DEF IsRecovery, RecoveryHeader
<1>5. Ranks(r, p, x, x)
  BY <1>2, <1>3, <1>4 DEF Ranks
<1> QED BY <1>2, <1>5 DEF Ordered

LEMMA OrderedOne ==
    ASSUME NEW e \in Nat
    PROVE  Ordered(<<RecoveryHeader(e)>>, e, e + 1)
<1>1. PICK p : p = <<RecoveryHeader(e)>>
  OBVIOUS
<1>2. Count \in Nat
  BY CountIsPower
<1>3. RecoveryHeader(e) \in Int /\ IsRecovery(RecoveryHeader(e))
  BY <1>2 DEF IsRecovery, RecoveryHeader
<1>4. p \in Seq(Int) /\ Len(p) = 1 /\ p[1] = RecoveryHeader(e)
  BY <1>1, <1>3
<1>5. PICK r : r = [k \in 0 .. 1 |-> e + k]
  OBVIOUS
<1>6. r \in [0 .. 1 -> Int] /\ r[0] = e /\ r[1] = e + 1
  BY <1>5
<1>7. \A k \in 1 .. 1 : k = 1 /\ k - 1 = 0
  OBVIOUS
<1>8. Ranks(r, p, e, e + 1)
  BY <1>3, <1>4, <1>6, <1>7 DEF Ranks
<1> QED BY <1>1, <1>4, <1>8 DEF Ordered

LEMMA OrderedJoin ==
    ASSUME NEW p, NEW q, NEW x \in Int, NEW y \in Int, NEW z \in Int, Ordered(p, x, y), Ordered(q, y, z)
    PROVE  Ordered(p \o q, x, z)
<1>1. PICK r : Ranks(r, p, x, y)
  BY DEF Ordered
<1>2. PICK s : Ranks(s, q, y, z)
  BY DEF Ordered
<1>3. PICK m \in Nat : m = Len(p)
  BY LenProperties DEF Ordered
<1>4. PICK n \in Nat : n = Len(q)
  BY LenProperties DEF Ordered
<1>5. PICK c : c = p \o q
  OBVIOUS
<1>6. c \in Seq(Int) /\ Len(c) = m + n /\ \A k \in 1 .. m + n : c[k] = IF k <= m THEN p[k] ELSE q[k - m]
  BY <1>3, <1>4, <1>5, ConcatProperties DEF Ordered
<1>7. PICK t : t = [k \in 0 .. m + n |-> IF k <= m THEN r[k] ELSE s[k - m]]
  OBVIOUS
<1>8. r \in [0 .. m -> Int] /\ r[0] = x /\ r[m] = y /\ s \in [0 .. n -> Int] /\ s[0] = y /\ s[n] = z
  BY <1>1, <1>2, <1>3, <1>4 DEF Ranks
<1>9. t \in [0 .. m + n -> Int]
  <2>1. ASSUME NEW k \in 0 .. m + n PROVE t[k] \in Int
    <3>1. CASE k <= m
      BY <1>7, <1>8, <3>1
    <3>2. CASE ~(k <= m)
      <4>1. k - m \in 0 .. n
        BY <3>2
      <4> QED BY <1>7, <1>8, <3>2, <4>1
    <3> QED BY <3>1, <3>2
  <2> QED BY <1>7, <2>1
<1>10. \A k \in 0 .. n : t[m + k] = s[k]
  <2> TAKE k \in 0 .. n
  <2>1. CASE k = 0
    BY <1>7, <1>8, <2>1
  <2>2. CASE k # 0
    <3>1. ~(m + k <= m) /\ (m + k) - m = k /\ m + k \in 0 .. m + n
      BY <2>2
    <3> QED BY <1>7, <3>1
  <2> QED BY <2>1, <2>2
<1>11. t[0] = x /\ t[m + n] = z
  BY <1>7, <1>8, <1>10
<1>12. ASSUME NEW k \in 1 .. m + n
       PROVE  IF IsRecovery(c[k]) THEN c[k] = RecoveryHeader(t[k - 1]) /\ t[k] = t[k - 1] + 1
              ELSE c[k] < 0 /\ t[k] = t[k - 1]
  <2>1. CASE k <= m
    <3>1. k \in 1 .. m /\ k - 1 <= m /\ k - 1 \in 0 .. m + n /\ k \in 0 .. m + n
      BY <2>1
    <3>2. t[k] = r[k] /\ t[k - 1] = r[k - 1] /\ c[k] = p[k]
      BY <1>6, <1>7, <2>1, <3>1
    <3> QED BY <1>1, <1>3, <3>1, <3>2 DEF Ranks
  <2>2. CASE ~(k <= m)
    <3>1. PICK j \in 1 .. n : k = m + j
      <4>1. k - m \in 1 .. n /\ k = m + (k - m)
        BY <2>2
      <4> QED BY <4>1
    <3>2. j \in 0 .. n /\ j - 1 \in 0 .. n /\ k - 1 = m + (j - 1) /\ k - m = j
      BY <3>1
    <3>3. t[k] = s[j] /\ t[k - 1] = s[j - 1] /\ c[k] = q[j]
      BY <1>6, <1>10, <2>2, <3>1, <3>2
    <3> QED BY <1>2, <1>4, <3>3 DEF Ranks
  <2> QED BY <2>1, <2>2
<1>13. Ranks(t, c, x, z)
  BY <1>6, <1>9, <1>11, <1>12 DEF Ranks
<1> QED BY <1>5, <1>6, <1>13 DEF Ordered

\* Files of a block each.
Rising(seqs, e, n) == \A k \in 1 .. n : Ordered(seqs[k], e + k - 1, e + k)
LEMMA OrderedFlatten ==
    ASSUME NEW n \in Nat, NEW seqs \in [1 .. n -> Seq(Int)], NEW e \in Int, Rising(seqs, e, n)
    PROVE  Ordered(FlattenSeq(seqs), e, e + n)
<1>1. PICK f : Joined(f, Int, seqs, n)
  BY FlattenIs
<1> DEFINE T == {k \in Nat : k <= n => Ordered(f[k], e, e + k)}
<1>2. 0 \in T
  <2>1. f[0] = <<>> /\ e + 0 = e
    BY <1>1 DEF Joined
  <2>2. Negative(<<>>)
    BY DEF Negative
  <2> QED BY <2>1, <2>2, OrderedNone
<1>3. ASSUME NEW k \in Nat, k \in T PROVE k + 1 \in T
  <2> SUFFICES ASSUME k + 1 <= n PROVE Ordered(f[k + 1], e, e + (k + 1))
    OBVIOUS
  <2>1. k + 1 \in 1 .. n /\ (k + 1) - 1 = k /\ k <= n /\ e + (k + 1) - 1 = e + k
    OBVIOUS
  <2>2. f[k + 1] = f[k] \o seqs[k + 1]
    BY <1>1, <2>1 DEF Joined
  <2>3. Ordered(f[k], e, e + k)
    BY <1>3, <2>1
  <2>4. Ordered(seqs[k + 1], e + (k + 1) - 1, e + (k + 1))
    BY <2>1 DEF Rising
  <2>5. PICK x \in Int : x = e + k
    OBVIOUS
  <2>6. PICK y \in Int : y = e + (k + 1)
    OBVIOUS
  <2>7. Ordered(f[k], e, x) /\ Ordered(seqs[k + 1], x, y)
    BY <2>1, <2>3, <2>4, <2>5, <2>6
  <2> HIDE DEF T
  <2>8. Ordered(f[k] \o seqs[k + 1], e, y)
    BY <2>7, OrderedJoin
  <2> QED BY <2>2, <2>6, <2>8
<1> HIDE DEF T
<1>4. n \in T
  BY <1>2, <1>3, Induct
<1>5. FlattenSeq(seqs) = f[n]
  BY <1>1 DEF Joined
<1> QED BY <1>4, <1>5 DEF T

\* What is in a list is in the lists that it is joined with.
Occurs(x, l) == \E i \in 1 .. Len(l) : l[i] = x
LEMMA OccursJoined ==
    ASSUME NEW T, NEW p \in Seq(T), NEW q \in Seq(T), NEW x, Occurs(x, p) \/ Occurs(x, q)
    PROVE  Occurs(x, p \o q)
<1>1. PICK m \in Nat : m = Len(p)
  BY LenProperties
<1>2. PICK n \in Nat : n = Len(q)
  BY LenProperties
<1>3. PICK c : c = p \o q
  OBVIOUS
<1>4. Len(c) = m + n /\ \A k \in 1 .. m + n : c[k] = IF k <= m THEN p[k] ELSE q[k - m]
  BY <1>1, <1>2, <1>3, ConcatProperties
<1>5. CASE Occurs(x, p)
  <2>1. PICK i \in 1 .. m : p[i] = x
    BY <1>1, <1>5 DEF Occurs
  <2>2. i \in 1 .. m + n /\ i <= m
    OBVIOUS
  <2>3. c[i] = x
    BY <1>4, <2>1, <2>2
  <2> QED BY <1>3, <1>4, <2>2, <2>3 DEF Occurs
<1>6. CASE Occurs(x, q)
  <2>1. PICK i \in 1 .. n : q[i] = x
    BY <1>2, <1>6 DEF Occurs
  <2>2. m + i \in 1 .. m + n /\ ~(m + i <= m) /\ (m + i) - m = i
    OBVIOUS
  <2>3. c[m + i] = x
    BY <1>4, <2>1, <2>2
  <2> QED BY <1>3, <1>4, <2>2, <2>3 DEF Occurs
<1> QED BY <1>5, <1>6
LEMMA OccursFlatten ==
    ASSUME NEW T, NEW n \in Nat, NEW seqs \in [1 .. n -> Seq(T)], NEW m \in 1 .. n, NEW x, Occurs(x, seqs[m])
    PROVE  Occurs(x, FlattenSeq(seqs))
<1>1. PICK f : Joined(f, T, seqs, n)
  BY FlattenIs
<1> DEFINE U == {k \in Nat : m <= k /\ k <= n => Occurs(x, f[k])}
<1>2. 0 \in U
  OBVIOUS
<1>3. ASSUME NEW k \in Nat, k \in U PROVE k + 1 \in U
  <2> SUFFICES ASSUME m <= k + 1, k + 1 <= n PROVE Occurs(x, f[k + 1])
    OBVIOUS
  <2>1. k + 1 \in 1 .. n /\ (k + 1) - 1 = k /\ k <= n
    OBVIOUS
  <2>2. f[k + 1] = f[k] \o seqs[k + 1] /\ f[k] \in Seq(T) /\ seqs[k + 1] \in Seq(T)
    BY <1>1, <2>1 DEF Joined
  <2>3. Occurs(x, f[k]) \/ Occurs(x, seqs[k + 1])
    <3>1. CASE m = k + 1
      BY <3>1
    <3>2. CASE m # k + 1
      <4>1. m <= k
        BY <3>2
      <4> QED BY <1>3, <2>1, <4>1
    <3> QED BY <3>1, <3>2
  <2> HIDE DEF U
  <2> QED BY <2>2, <2>3, OccursJoined
<1> HIDE DEF U
<1>4. n \in U
  BY <1>2, <1>3, Induct
<1>5. FlattenSeq(seqs) = f[n]
  BY <1>1 DEF Joined
<1> QED BY <1>4, <1>5 DEF U

LEMMA SmallRest ==
    ASSUME NEW n \in Nat, n > 0, NEW x \in Nat, x < n
    PROVE  x % n = x
<1>1. PICK q \in Nat : q = x \div n
  BY QuotientAndRest
<1>2. PICK r \in Nat : r = x % n
  BY QuotientAndRest
<1>3. x = n * q + r
  BY <1>1, <1>2, QuotientAndRest
<1>4. ASSUME q >= 1 PROVE FALSE
  <2>1. n * q = n * (q - 1) + n /\ q - 1 \in Nat
    BY <1>4
  <2>2. n * (q - 1) \in Nat
    BY <2>1
  <2> QED BY <1>3, <2>1, <2>2
<1>5. q = 0
  BY <1>4
<1>6. n * 0 = 0
  OBVIOUS
<1> QED BY <1>2, <1>3, <1>5, <1>6

\* The share of the critical packets that each recovery packet of a file is followed by.
LEMMA SpreadIs ==
    ASSUME NEW copies \in Nat, NEW packets \in Nat, NEW count \in Nat, count > 0
    PROVE  /\ \A k \in Nat : Spread(k, copies, packets, count) \in Nat
           /\ Spread(0, copies, packets, count) = 0
           /\ Spread(count, copies, packets, count) = copies * packets
<1>1. ASSUME NEW k \in Nat PROVE Spread(k, copies, packets, count) \in Nat
  <2>1. PICK x \in Nat : x = k * copies * packets
    <3>1. k * copies \in Nat
      OBVIOUS
    <3>2. \A y, z \in Nat : y * z \in Nat
      OBVIOUS
    <3> QED BY <3>1, <3>2
  <2>2. x \div count \in Nat
    BY QuotientAndRest
  <2> QED BY <2>1, <2>2 DEF Spread
<1>2. Spread(0, copies, packets, count) = 0
  <2>1. 0 * copies * packets = 0
    OBVIOUS
  <2>2. 0 \div count = 0
    OBVIOUS
  <2> QED BY <2>1, <2>2 DEF Spread
<1>3. Spread(count, copies, packets, count) = copies * packets
  <2>1. PICK x \in Nat : x = copies * packets
    OBVIOUS
  <2>2. count * copies * packets = count * x
    BY <2>1
  <2>3. PICK y \in Nat : y = count * x
    OBVIOUS
  <2>4. PICK q \in Nat : q = y \div count
    BY QuotientAndRest
  <2>5. PICK r \in Nat : r = y % count
    BY QuotientAndRest
  <2>6. r < count /\ y = count * q + r
    BY <2>4, <2>5, QuotientAndRest
  <2>7. count * x = count * q + r
    BY <2>3, <2>6
  <2>8. count * (x - q) = r
    BY <2>7
  <2>9. x = q
    <3>1. CASE x - q >= 1
      <4>1. count * (x - q) = count * (x - q - 1) + count /\ x - q - 1 \in Nat
        BY <3>1
      <4>2. count * (x - q - 1) \in Nat
        BY <4>1
      <4> QED BY <2>6, <2>8, <4>1, <4>2
    <3>2. CASE x - q <= -1
      <4>1. count * (q - x) = count * (q - x - 1) + count /\ q - x - 1 \in Nat
        BY <3>2
      <4>2. count * (q - x - 1) \in Nat
        BY <4>1
      <4>3. count * (q - x) = -r
        BY <2>8
      <4> QED BY <4>1, <4>2, <4>3
    <3> QED BY <3>1, <3>2
  <2> QED BY <2>1, <2>2, <2>3, <2>4, <2>9 DEF Spread
<1> QED BY <1>1, <1>2, <1>3

\* par2creator.cpp:1065-1247.  A file holds the recovery packets that it is to hold, and each of the
\* critical packets.
LEMMA PacketsHold ==
    ASSUME NEW a, a.count \in Nat, a.exponent \in Nat, Negative(creator.criticals), Len(creator.criticals) > 0
    PROVE  /\ \A e \in Nat : (a.count > 0 => e = a.exponent) => Ordered(Packets(a), e, e + a.count)
           /\ \A k \in 1 .. Len(creator.criticals) : Occurs(creator.criticals[k], Packets(a))
           /\ Len(Packets(a)) > 0
<1>1. PICK criticals \in Seq(Int) : criticals = creator.criticals
  BY DEF Negative
<1>2. PICK n \in Nat : n = Len(criticals) /\ n > 0
  BY <1>1, LenProperties
<1>3. PICK count \in Nat : count = a.count
  OBVIOUS
<1>4. PICK copies \in Nat : copies = BitLength(count) /\ (count > 0 => copies > 0)
  BY BitLengthIs
<1> DEFINE upto(k) == Spread(k, copies, n, count)
           share(k) == [j \in 1 .. upto(k) - upto(k - 1) |-> criticals[((upto(k - 1) + j - 1) % n) + 1]]
           with(k) == <<RecoveryHeader(a.exponent + k - 1)>> \o share(k)
           seqs == [k \in 1 .. count |-> with(k)]
           main == IF count = 0 THEN criticals ELSE FlattenSeq(seqs)
           last == <<CreatorPacket>>
<1>5. Packets(a) = main \o last
  BY <1>1, <1>2, <1>3, <1>4 DEF Packets
<1>6. \A k \in 1 .. n : criticals[k] \in Int /\ criticals[k] < 0
  BY <1>1, <1>2, ElementOfSeq DEF Negative
<1>7. Negative(last) /\ Len(last) = 1
  <2>1. CreatorPacket \in Int /\ CreatorPacket < 0
    BY DEF CreatorPacket
  <2>2. last \in Seq(Int) /\ Len(last) = 1 /\ last[1] = CreatorPacket
    BY <2>1
  <2> QED BY <2>1, <2>2 DEF Negative
<1>8. ASSUME count > 0, NEW k \in 1 .. count
      PROVE  /\ upto(k) \in Nat /\ upto(k - 1) \in Nat /\ Negative(share(k))
             /\ \A j \in 1 .. upto(k) - upto(k - 1) :
                  j \in 1 .. Len(share(k)) /\ share(k)[j] = criticals[((upto(k - 1) + j - 1) % n) + 1]
  <2>1. k \in Nat /\ k - 1 \in Nat
    OBVIOUS
  <2>2. upto(k) \in Nat /\ upto(k - 1) \in Nat
    BY <1>8, <2>1, SpreadIs
  <2>3. PICK u \in Nat : u = upto(k - 1)
    BY <2>2
  <2>4. PICK d \in Int : d = upto(k) - u
    BY <2>2, <2>3
  <2>5. PICK s : s = share(k)
    OBVIOUS
  <2>6. s = [j \in 1 .. d |-> criticals[((u + j - 1) % n) + 1]]
    BY <2>3, <2>4, <2>5
  <2>7. ASSUME NEW j \in 1 .. d PROVE s[j] \in Int /\ s[j] < 0 /\ s[j] = criticals[((u + j - 1) % n) + 1]
    <3>1. u + j - 1 \in Nat
      OBVIOUS
    <3>2. PICK z \in Nat : z = (u + j - 1) % n /\ z < n
      BY <1>2, <3>1, QuotientAndRest
    <3>3. z + 1 \in 1 .. n
      BY <3>2
    <3> QED BY <1>6, <2>6, <3>2, <3>3
  <2>8. s = [j \in 1 .. d |-> s[j]]
    BY <2>6
  <2>9. s \in Seq(Int) /\ DOMAIN s = 1 .. d
    BY <2>7, <2>8, NumbersUpTo DEF NumberList
  <2>10. 1 .. Len(s) = 1 .. d
    BY <2>9, LenProperties
  <2>11. Negative(s)
    BY <2>7, <2>9, <2>10 DEF Negative
  <2> QED BY <2>2, <2>3, <2>4, <2>5, <2>7, <2>10, <2>11
<1> DEFINE head(k) == <<RecoveryHeader(a.exponent + k - 1)>>
<1>9. \A k \in 1 .. count : seqs[k] = head(k) \o share(k)
  OBVIOUS
<1>10. main = IF count = 0 THEN criticals ELSE FlattenSeq(seqs)
  OBVIOUS
<1> HIDE DEF share, main, last
<1>11. ASSUME count > 0, NEW e \in Nat, e = a.exponent, NEW k \in 1 .. count
       PROVE  /\ Ordered(seqs[k], e + k - 1, e + k) /\ head(k) \in Seq(Int)
  <2>1. PICK x \in Nat : x = e + k - 1
    OBVIOUS
  <2>2. head(k) = <<RecoveryHeader(x)>> /\ x + 1 = e + k
    BY <1>11, <2>1
  <2>3. Ordered(head(k), x, x + 1)
    BY <2>2, OrderedOne
  <2>4. Ordered(share(k), x + 1, x + 1)
    <3>1. Negative(share(k)) /\ x + 1 \in Int
      BY <1>8, <1>11
    <3> QED BY <3>1, OrderedNone
  <2>5. x \in Int /\ x + 1 \in Int
    OBVIOUS
  <2>6. PICK h : h = head(k)
    OBVIOUS
  <2>7. PICK s : s = share(k)
    OBVIOUS
  <2>8. PICK y \in Int : y = x + 1
    OBVIOUS
  <2>9. Ordered(h, x, y) /\ Ordered(s, y, y)
    BY <2>3, <2>4, <2>6, <2>7, <2>8
  <2>10. Ordered(h \o s, x, y)
    BY <2>5, <2>9, OrderedJoin
  <2>11. seqs[k] = h \o s
    BY <1>9, <2>6, <2>7
  <2>12. h \in Seq(Int)
    BY <2>9 DEF Ordered
  <2> QED BY <2>1, <2>2, <2>6, <2>8, <2>10, <2>11, <2>12
<1>12. ASSUME count > 0, a.exponent \in Nat PROVE seqs \in [1 .. count -> Seq(Int)]
  <2>1. \A k \in 1 .. count : seqs[k] \in Seq(Int)
    BY <1>11, <1>12 DEF Ordered
  <2>2. seqs = [k \in 1 .. count |-> seqs[k]]
    OBVIOUS
  <2> HIDE DEF seqs
  <2> QED BY <2>1, <2>2
<1>13. ASSUME count > 0, a.exponent \in Nat PROVE Ordered(main, a.exponent, a.exponent + count)
  <2>1. PICK e \in Nat : e = a.exponent
    BY <1>13
  <2>2. PICK q : q = seqs
    OBVIOUS
  <2> HIDE DEF seqs
  <2>3. Rising(q, e, count)
    BY <1>11, <1>13, <2>1, <2>2 DEF Rising
  <2>4. q \in [1 .. count -> Seq(Int)] /\ e \in Int
    BY <1>12, <1>13, <2>2
  <2>5. Ordered(FlattenSeq(q), e, e + count)
    BY <2>3, <2>4, OrderedFlatten
  <2> QED BY <1>10, <1>13, <2>1, <2>2, <2>5
<1>14. ASSUME count > 0, a.exponent \in Nat, NEW i \in 1 .. n PROVE Occurs(criticals[i], main)
  <2> DEFINE U == {k \in Nat : upto(k) >= i}
  <2>1. \A k \in Nat : upto(k) \in Nat
    BY <1>14, SpreadIs
  <2>2. upto(0) = 0 /\ upto(count) = copies * n
    BY <1>14, SpreadIs
  <2>3. copies * n >= n
    <3>0. copies > 0
      BY <1>4, <1>14
    <3>1. copies * n = (copies - 1) * n + n /\ copies - 1 \in Nat
      BY <3>0
    <3>2. (copies - 1) * n \in Nat
      BY <3>1
    <3> QED BY <3>1, <3>2
  <2> HIDE DEF upto
  <2>4. copies * n \in Nat
    OBVIOUS
  <2>5. count \in U
    BY <2>2, <2>3, <2>4
  <2>6. PICK k \in U : \A j \in U : k <= j
    <3>1. U \in SUBSET Nat /\ U # {}
      BY <2>5
    <3> HIDE DEF U
    <3> QED BY <3>1, Least
  <2>7. k \in Nat /\ upto(k) >= i /\ k <= count
    BY <2>5, <2>6
  <2>8. k # 0
    BY <2>2, <2>7
  <2>9. k \in 1 .. count /\ k - 1 \in Nat /\ ~(k <= k - 1)
    BY <2>7, <2>8
  <2>10. ~(upto(k - 1) >= i)
    BY <2>6, <2>9
  <2>11. PICK u \in Nat : u = upto(k - 1)
    BY <2>1, <2>9
  <2>12. PICK j \in Nat : j = i - u /\ j > 0
    BY <2>10, <2>11
  <2>13. upto(k) \in Nat
    BY <2>1, <2>7
  <2>14. j \in 1 .. upto(k) - upto(k - 1)
    BY <2>7, <2>11, <2>12, <2>13
  <2>15. j \in 1 .. Len(share(k)) /\ share(k)[j] = criticals[((upto(k - 1) + j - 1) % n) + 1]
    BY <1>8, <1>14, <2>9, <2>14 DEF upto
  <2>16. (u + j - 1) % n = i - 1
    <3>1. u + j - 1 = i - 1 /\ i - 1 \in 0 .. n - 1
      BY <2>12
    <3>2. PICK x \in Nat : x = i - 1 /\ x < n
      BY <3>1
    <3>3. x % n = x
      BY <1>2, <3>2, SmallRest
    <3> QED BY <3>1, <3>2, <3>3
  <2>17. share(k)[j] = criticals[i]
    <3>1. ((u + j - 1) % n) + 1 = i
      BY <2>16
    <3> QED BY <2>11, <2>15, <3>1
  <2>18. PICK s : s = share(k)
    OBVIOUS
  <2>19. Occurs(criticals[i], s)
    BY <2>15, <2>17, <2>18 DEF Occurs
  <2>20. PICK h : h = head(k) /\ h \in Seq(Int)
    BY <1>11, <1>14, <2>9
  <2>21. s \in Seq(Int)
    BY <1>8, <1>14, <2>9, <2>18 DEF Negative
  <2>22. Occurs(criticals[i], h \o s)
    BY <2>19, <2>20, <2>21, OccursJoined
  <2>23. seqs[k] = h \o s
    BY <1>9, <2>9, <2>18, <2>20
  <2>24. seqs \in [1 .. count -> Seq(Int)]
    BY <1>12, <1>14
  <2> HIDE DEF seqs
  <2>25. Occurs(criticals[i], FlattenSeq(seqs))
    BY <2>9, <2>22, <2>23, <2>24, OccursFlatten
  <2> QED BY <1>10, <1>14, <2>25
<1>15. ASSUME count = 0 PROVE main = criticals
  BY <1>10, <1>15
<1>16. ASSUME NEW e \in Nat, count > 0 => e = a.exponent PROVE Ordered(main \o last, e, e + count)
  <2>1. Ordered(main, e, e + count)
    <3>1. CASE count = 0
      <4>1. Negative(main) /\ e \in Int /\ e + count = e
        BY <1>1, <1>15, <3>1
      <4> QED BY <4>1, OrderedNone
    <3>2. CASE count > 0
      BY <1>13, <1>16, <3>2
    <3> QED BY <3>1, <3>2
  <2>2. PICK y \in Int : y = e + count
    OBVIOUS
  <2>3. Ordered(last, y, y) /\ e \in Int
    BY <1>7, OrderedNone
  <2> QED BY <2>1, <2>2, <2>3, OrderedJoin
<1>17. main \in Seq(Int)
  <2>1. CASE count = 0
    BY <1>15, <2>1
  <2>2. CASE count > 0
    BY <1>13, <2>2 DEF Ordered
  <2> QED BY <2>1, <2>2
<1>18. ASSUME NEW i \in 1 .. n PROVE Occurs(criticals[i], main \o last)
  <2>1. Occurs(criticals[i], main)
    <3>1. CASE count = 0
      BY <1>2, <1>15, <3>1 DEF Occurs
    <3>2. CASE count > 0
      BY <1>14, <3>2
    <3> QED BY <3>1, <3>2
  <2>2. last \in Seq(Int)
    BY <1>7 DEF Negative
  <2> QED BY <1>17, <2>1, <2>2, OccursJoined
<1>19. Len(main \o last) > 0
  <2>1. last \in Seq(Int) /\ Len(main) \in Nat
    BY <1>7, <1>17, LenProperties DEF Negative
  <2>2. Len(main \o last) = Len(main) + Len(last)
    BY <1>17, <2>1, ConcatProperties
  <2> QED BY <1>7, <2>1, <2>2
<1> QED BY <1>1, <1>2, <1>3, <1>5, <1>16, <1>18, <1>19

\* The cells of a packet, and packets that fill a file.
Extent(x) == x.offset + 1 .. x.offset + PacketLength(x.packet)
Tiles(l, size) ==
    /\ IsList(l) /\ size \in Nat
    /\ \A i \in DOMAIN l : l[i].offset \in Nat /\ l[i].packet \in Int /\ Extent(l[i]) \subseteq 1 .. size
    /\ \A i, j \in DOMAIN l : i # j => Extent(l[i]) \cap Extent(l[j]) = {}
    /\ \A p \in 1 .. size : \E i \in DOMAIN l : p \in Extent(l[i])

\* Sums of numbers that are not 0 grow, and every number lies between two of them.
LEMMA SumsGrow ==
    ASSUME NEW n \in Nat, NEW numbers \in [1 .. n -> Nat \ {0}], NEW f, Sums(f, numbers, n)
    PROVE  /\ \A k \in 0 .. n : f[k] \in Nat
           /\ \A j, k \in 0 .. n : j <= k => f[j] <= f[k]
           /\ \A p \in 1 .. f[n] : \E k \in 1 .. n : f[k - 1] < p /\ p <= f[k]
<1>1. \A k \in 1 .. n : f[k - 1] \in Int /\ f[k] \in Int /\ f[k] = f[k - 1] + numbers[k] /\ numbers[k] \in Nat
                        /\ numbers[k] > 0
  BY DEF Sums
<1> DEFINE T == {k \in Nat : k <= n => f[k] \in Nat}
<1>2. 0 \in T
  BY DEF Sums
<1>3. ASSUME NEW k \in Nat, k \in T PROVE k + 1 \in T
  <2> SUFFICES ASSUME k + 1 <= n PROVE f[k + 1] \in Nat
    OBVIOUS
  <2>1. k + 1 \in 1 .. n /\ (k + 1) - 1 = k /\ f[k] \in Nat
    BY <1>3
  <2> QED BY <1>1, <2>1
<1> HIDE DEF T
<1>4. Nat \subseteq T
  BY <1>2, <1>3, Induct
<1>5. \A k \in 0 .. n : f[k] \in Nat
  BY <1>4 DEF T
<1>6. ASSUME NEW j \in 0 .. n PROVE \A k \in 0 .. n : j <= k => f[j] <= f[k]
  <2> DEFINE U == {k \in Nat : j <= k /\ k <= n => f[j] <= f[k]}
  <2>1. 0 \in U
    <3> SUFFICES ASSUME j <= 0 PROVE f[j] <= f[0]
      OBVIOUS
    <3>1. j = 0 /\ f[0] \in Nat
      BY <1>5
    <3> QED BY <3>1
  <2>2. ASSUME NEW k \in Nat, k \in U PROVE k + 1 \in U
    <3> SUFFICES ASSUME j <= k + 1, k + 1 <= n PROVE f[j] <= f[k + 1]
      OBVIOUS
    <3>1. CASE j = k + 1
      BY <1>5, <3>1
    <3>2. CASE j # k + 1
      <4>1. j <= k /\ k <= n /\ k + 1 \in 1 .. n /\ (k + 1) - 1 = k /\ k \in 0 .. n
        BY <3>2
      <4>2. f[j] <= f[k] /\ f[j] \in Nat /\ f[k] \in Nat
        BY <1>5, <2>2, <4>1
      <4>3. f[k + 1] = f[k] + numbers[k + 1] /\ numbers[k + 1] \in Nat
        BY <1>1, <4>1
      <4> QED BY <4>2, <4>3
    <3> QED BY <3>1, <3>2
  <2> HIDE DEF U
  <2>3. Nat \subseteq U
    BY <2>1, <2>2, Induct
  <2> QED BY <2>3 DEF U
<1>7. ASSUME NEW p \in 1 .. f[n] PROVE \E k \in 1 .. n : f[k - 1] < p /\ p <= f[k]
  <2> DEFINE V == {k \in 0 .. n : p <= f[k]}
  <2>1. n \in 0 .. n /\ f[n] \in Nat
    BY <1>5
  <2>2. n \in V
    BY <2>1
  <2>3. PICK k \in V : \A j \in V : k <= j
    <3>1. V \in SUBSET Nat /\ V # {}
      BY <2>2
    <3> HIDE DEF V
    <3> QED BY <3>1, Least
  <2>4. f[0] = 0
    BY DEF Sums
  <2>5. k \in 0 .. n /\ p <= f[k] /\ p \in Nat /\ p > 0
    BY <2>1
  <2>6. k # 0
    BY <2>4, <2>5
  <2>7. k \in 1 .. n /\ k - 1 \in 0 .. n /\ ~(k <= k - 1)
    BY <2>5, <2>6
  <2>8. ~(p <= f[k - 1])
    BY <2>3, <2>7
  <2>9. f[k - 1] \in Nat
    BY <1>5, <2>7
  <2> QED BY <2>5, <2>7, <2>8, <2>9
<1> QED BY <1>5, <1>6, <1>7

LEMMA PacketLengthIs ==
    ASSUME NEW x, creator.blocksize \in Nat
    PROVE  /\ PacketLength(x) \in Nat \ {0} /\ (IsRecovery(x) => PacketLength(x) = creator.blocksize + 1)
           /\ (~IsRecovery(x) => PacketLength(x) = 1)
BY DEF PacketLength

LEMMA ItemsAre ==
    ASSUME NEW a, a.count \in Nat, a.exponent \in Nat, Negative(creator.criticals), Len(creator.criticals) > 0,
           creator.blocksize \in Nat
    PROVE  /\ Tiles(Items(a), FileSize(a)) /\ Len(Items(a)) = Len(Packets(a))
           /\ \A i \in DOMAIN Items(a) : Items(a)[i].packet = Packets(a)[i] /\ Items(a)[i].file = a.file
<1>1. PICK p \in Seq(Int) : p = Packets(a)
  BY PacketsHold DEF Ordered
<1>2. PICK n \in Nat : n = Len(p) /\ n > 0
  BY <1>1, PacketsHold, LenProperties
<1>3. DOMAIN p = 1 .. n /\ \A i \in 1 .. n : p[i] \in Int
  BY <1>1, <1>2, ElementOfSeq, LenProperties
<1>4. PICK lengths : lengths = [i \in DOMAIN p |-> PacketLength(p[i])]
  OBVIOUS
<1>5. lengths \in [1 .. n -> Nat \ {0}] /\ lengths \in [1 .. n -> Int] /\ \A i \in 1 .. n : lengths[i] = PacketLength(p[i])
  <2>1. \A i \in 1 .. n : lengths[i] = PacketLength(p[i]) /\ PacketLength(p[i]) \in Nat \ {0}
    BY <1>3, <1>4, PacketLengthIs
  <2> QED BY <1>3, <1>4, <2>1
<1>6. PICK f \in [0 .. n -> Int] : Sums(f, lengths, n)
  BY <1>5, TotalIs
<1>7. /\ \A k \in 0 .. n : f[k] \in Nat
      /\ \A j, k \in 0 .. n : j <= k => f[j] <= f[k]
      /\ \A q \in 1 .. f[n] : \E k \in 1 .. n : f[k - 1] < q /\ q <= f[k]
  BY <1>5, <1>6, SumsGrow
<1>8. \A k \in 1 .. n : Total(SubSeq(lengths, 1, k - 1)) = f[k - 1]
  <2> TAKE k \in 1 .. n
  <2>1. PICK j \in 0 .. n : j = k - 1
    OBVIOUS
  <2>2. lengths \in [1 .. n -> Int] /\ Sums(f, lengths, n)
    BY <1>5, <1>6
  <2>3. \A k1 \in 0 .. n : Total(SubSeq(lengths, 1, k1)) = f[k1]
    BY ONLY n \in Nat, <2>2, PrefixIs
  <2> QED BY <2>1, <2>3
<1>9. PICK l : l = Items(a)
  OBVIOUS
<1>10. l = [i \in 1 .. n |-> [packet |-> p[i], file |-> a.file, offset |-> f[i - 1]]]
  <2>1. l = [i \in 1 .. n |-> [packet |-> p[i], file |-> a.file, offset |-> Total(SubSeq(lengths, 1, i - 1))]]
    BY <1>1, <1>3, <1>4, <1>9 DEF Items
  <2> QED BY <1>8, <2>1
<1>11. l = [i \in 1 .. n |-> l[i]]
       /\ \A i \in 1 .. n : l[i].packet = p[i] /\ l[i].file = a.file /\ l[i].offset = f[i - 1]
  BY <1>10
<1>12. IsList(l) /\ Len(l) = n /\ DOMAIN l = 1 .. n
  BY <1>11, ListOf
<1>13. \A i \in 1 .. n : /\ i - 1 \in 0 .. n /\ i \in 0 .. n /\ f[i - 1] \in Nat /\ f[i] \in Nat
                         /\ f[i] = f[i - 1] + PacketLength(p[i]) /\ Extent(l[i]) = f[i - 1] + 1 .. f[i]
  <2> TAKE i \in 1 .. n
  <2>1. i - 1 \in 0 .. n /\ i \in 0 .. n
    OBVIOUS
  <2>2. f[i - 1] \in Nat /\ f[i] \in Nat /\ f[i] = f[i - 1] + PacketLength(p[i])
    BY <1>5, <1>6, <1>7, <2>1 DEF Sums
  <2>3. Extent(l[i]) = f[i - 1] + 1 .. f[i]
    BY <1>11, <2>2 DEF Extent
  <2> QED BY <2>1, <2>2, <2>3
<1>14. FileSize(a) = f[n]
  <2>1. n \in 1 .. n
    BY <1>2
  <2>2. Last(l) = l[n]
    BY <1>12 DEF Last
  <2>3. FileSize(a) = l[n].offset + PacketLength(l[n].packet)
    BY <1>9, <2>2 DEF FileSize
  <2> QED BY <1>11, <1>13, <2>1, <2>3
<1>15. f[n] \in Nat /\ n \in 0 .. n
  BY <1>2, <1>7
<1>16. ASSUME NEW i \in 1 .. n PROVE Extent(l[i]) \subseteq 1 .. f[n]
  <2>1. f[i] <= f[n] /\ f[i] \in Nat /\ f[i - 1] \in Nat
    BY <1>7, <1>13, <1>15
  <2> QED BY <1>13, <1>15, <2>1
<1>17. ASSUME NEW i \in 1 .. n, NEW j \in 1 .. n, i < j PROVE Extent(l[i]) \cap Extent(l[j]) = {}
  <2>1. i <= j - 1
    BY <1>17
  <2>2. f[i] <= f[j - 1] /\ f[i] \in Nat /\ f[j - 1] \in Nat /\ f[j] \in Nat /\ f[i - 1] \in Nat
    BY <1>7, <1>13, <2>1
  <2> QED BY <1>13, <2>2
<1>18. ASSUME NEW i \in 1 .. n, NEW j \in 1 .. n, i # j PROVE Extent(l[i]) \cap Extent(l[j]) = {}
  <2>1. i < j \/ j < i
    BY <1>18
  <2> QED BY <1>17, <2>1
<1>19. ASSUME NEW q \in 1 .. f[n] PROVE \E i \in 1 .. n : q \in Extent(l[i])
  <2>1. PICK k \in 1 .. n : f[k - 1] < q /\ q <= f[k]
    BY <1>7
  <2>2. q \in f[k - 1] + 1 .. f[k]
    BY <1>13, <1>15, <2>1
  <2> QED BY <1>13, <2>2
<1>20. Tiles(l, f[n])
  BY <1>3, <1>11, <1>12, <1>13, <1>15, <1>16, <1>18, <1>19 DEF Tiles
<1> QED BY <1>1, <1>2, <1>9, <1>11, <1>12, <1>14, <1>20

-----------------------------------------------------------------------------
(* Which file gets which blocks *)

\* Every exponent from the first one on is in one of the files; a name stands for one file.
Allotted(f, a, first, total, m) ==
    /\ m \in Nat /\ m > 0 /\ a = [k \in 1 .. m |-> a[k]]
    /\ f \in [0 .. m -> Nat] /\ f[0] = first /\ f[m] = first + total
    /\ \A k \in 1 .. m : /\ a[k].count \in Nat /\ a[k].exponent \in Nat /\ a[k].file # NoName
                         /\ f[k] = f[k - 1] + a[k].count /\ (a[k].count > 0 => a[k].exponent = f[k - 1])
    /\ \A j, k \in 1 .. m : a[j].file = a[k].file => a[j] = a[k]

LEMMA AllocationsSum ==
    ASSUME Given(creator), Decided(creator), Filed, ~Hangs, creator.recoveryblockcount <= Count,
           creator.firstblock \in Nat
    PROVE  \E m, f : Allotted(f, Allocations, creator.firstblock, creator.recoveryblockcount, m)
<1>1. PICK counts \in Seq(Nat) : counts = BlockCounts /\ Total(counts) = creator.recoveryblockcount
  BY BlockCountsAre
<1>2. PICK n \in Nat : n = Len(counts)
  BY <1>1, LenProperties
<1>3. PICK first \in Nat : first = creator.firstblock
  OBVIOUS
<1>4. counts \in [1 .. n -> Int] /\ \A i \in 1 .. n : counts[i] \in Nat
  BY <1>1, <1>2, ElementOfSeq, LenProperties
<1>5. PICK g \in [0 .. n -> Int] : Sums(g, counts, n) /\ Total(counts) = g[n]
  BY <1>4, TotalIs
<1>6. \A k \in 0 .. n : Total(SubSeq(counts, 1, k)) = g[k]
  BY <1>4, <1>5, PrefixIs
<1>7. PICK exponents : exponents = FirstExponents(counts)
  OBVIOUS
<1>8. \A i \in 1 .. n : exponents[i] = first + g[i - 1]
  <2> TAKE i \in 1 .. n
  <2>1. PICK j \in 0 .. n : j = i - 1
    OBVIOUS
  <2>2. DOMAIN counts = 1 .. n
    BY <1>4
  <2>3. exponents[i] = first + Total(SubSeq(counts, 1, i - 1))
    BY <1>3, <1>7, <2>2 DEF FirstExponents
  <2> QED BY <1>6, <2>1, <2>3
<1>9. g[0] = 0 /\ \A k \in 1 .. n : g[k - 1] \in Int /\ g[k] \in Int /\ g[k] = g[k - 1] + counts[k]
  BY <1>5 DEF Sums
<1>10. \A k \in 0 .. n : g[k] \in Nat
  <2> DEFINE T == {k \in Nat : k <= n => g[k] \in Nat}
  <2>1. 0 \in T
    BY <1>9
  <2>2. ASSUME NEW k \in Nat, k \in T PROVE k + 1 \in T
    <3> SUFFICES ASSUME k + 1 <= n PROVE g[k + 1] \in Nat
      OBVIOUS
    <3>1. k + 1 \in 1 .. n /\ (k + 1) - 1 = k /\ g[k] \in Nat
      BY <2>2
    <3>2. counts[k + 1] \in Nat
      BY <1>4, <3>1
    <3> QED BY <1>9, <3>1, <3>2
  <2> HIDE DEF T
  <2>3. Nat \subseteq T
    BY <2>1, <2>2, Induct
  <2> QED BY <2>3 DEF T
<1> DEFINE volume(i) == [file |-> Name(Base(creator.parfile), "vol", exponents[i], counts[i]),
                         exponent |-> exponents[i], count |-> counts[i]]
           index == [file |-> WithPar2(creator.parfile), exponent |-> 0, count |-> 0]
           l == [i \in DOMAIN counts |-> volume(i)]
<1>11. Allocations = l \o <<index>>
  BY <1>1, <1>7 DEF Allocations
<1>12. l = [i \in 1 .. n |-> volume(i)]
  BY <1>4
<1>13. \A i \in 1 .. n : volume(i).count = counts[i] /\ volume(i).exponent = exponents[i]
         /\ volume(i).file = Name(Base(creator.parfile), "vol", exponents[i], counts[i])
  OBVIOUS
<1>14. index.count = 0 /\ index.exponent = 0 /\ index.file = WithPar2(creator.parfile)
  OBVIOUS
<1>15. PICK b : b = Base(creator.parfile)
  OBVIOUS
<1>16. \A e, c : Name(b, "vol", e, c) # NoName /\ Name(b, "vol", e, c) # WithPar2(creator.parfile)
  BY <1>15 DEF Name, NoName, WithPar2
<1>17. \A e, c, e2, c2 : Name(b, "vol", e, c) = Name(b, "vol", e2, c2) => e = e2 /\ c = c2
  BY DEF Name
<1>18. WithPar2(creator.parfile) # NoName
  BY DEF WithPar2, Name, NoName
<1>19. \A i, j \in 1 .. n : volume(i).file = volume(j).file => volume(i) = volume(j)
  <2> TAKE i, j \in 1 .. n
  <2> SUFFICES ASSUME volume(i).file = volume(j).file PROVE volume(i) = volume(j)
    OBVIOUS
  <2>1. Name(b, "vol", exponents[i], counts[i]) = Name(b, "vol", exponents[j], counts[j])
    BY <1>13, <1>15
  <2>2. exponents[i] = exponents[j] /\ counts[i] = counts[j]
    BY <1>17, <2>1
  <2> QED BY <2>2
<1>20. PICK last : last = index
  OBVIOUS
<1>21. PICK a : a = Allocations
  OBVIOUS
<1>22. /\ a = [k \in 1 .. n + 1 |-> a[k]] /\ \A k \in 1 .. n : a[k] = volume(k)
       /\ a[n + 1] = last
  <2> DEFINE S == {volume(k) : k \in 1 .. n} \cup {last}
  <2>1. l \in Seq(S) /\ Len(l) = n
    <3>1. l \in [1 .. n -> S]
      BY <1>12
    <3> HIDE DEF S, l
    <3> QED BY <3>1
  <2>2. <<last>> \in Seq(S) /\ Len(<<last>>) = 1 /\ <<last>>[1] = last
    <3>1. last \in S
      OBVIOUS
    <3> HIDE DEF S
    <3> QED BY <3>1
  <2>3. PICK t : t = <<last>>
    OBVIOUS
  <2>4. a = l \o t
    BY <1>11, <1>20, <1>21, <2>3
  <2> HIDE DEF S, l
  <2>5. /\ a \in Seq(S) /\ Len(a) = n + 1
        /\ \A k \in 1 .. n + 1 : a[k] = IF k <= n THEN l[k] ELSE t[k - n]
    BY <2>1, <2>2, <2>3, <2>4, ConcatProperties
  <2>6. a = [k \in 1 .. n + 1 |-> a[k]]
    BY <2>5
  <2>7. \A k \in 1 .. n : k \in 1 .. n + 1 /\ k <= n
    OBVIOUS
  <2>8. n + 1 \in 1 .. n + 1 /\ ~(n + 1 <= n) /\ (n + 1) - n = 1
    OBVIOUS
  <2>9. \A k \in 1 .. n : a[k] = l[k]
    BY <2>5, <2>7
  <2>10. a[n + 1] = last
    BY <2>2, <2>3, <2>5, <2>8
  <2> QED BY <1>12, <2>6, <2>9, <2>10 DEF l
<1>23. PICK f : f = [k \in 0 .. n + 1 |-> first + IF k <= n THEN g[k] ELSE g[n]]
  OBVIOUS
<1>24. /\ f \in [0 .. n + 1 -> Nat] /\ f[0] = first /\ f[n + 1] = first + g[n]
       /\ \A k \in 0 .. n : f[k] = first + g[k]
  <2>1. n \in 0 .. n /\ 0 \in 0 .. n /\ n + 1 \in 0 .. n + 1 /\ ~(n + 1 <= n)
    OBVIOUS
  <2>2. \A k \in 0 .. n : f[k] = first + g[k]
    BY <1>23
  <2>3. f[n + 1] = first + g[n]
    BY <1>23, <2>1
  <2>4. ASSUME NEW k \in 0 .. n + 1 PROVE f[k] \in Nat
    <3>1. k \in 0 .. n \/ k = n + 1
      OBVIOUS
    <3> QED BY <1>10, <2>1, <2>2, <2>3, <3>1
  <2> QED BY <1>9, <1>23, <2>1, <2>2, <2>3, <2>4
<1> HIDE DEF volume, index, l
<1>25. ASSUME NEW k \in 1 .. n + 1
       PROVE  /\ a[k].count \in Nat /\ a[k].exponent \in Nat /\ a[k].file # NoName
              /\ f[k] = f[k - 1] + a[k].count /\ (a[k].count > 0 => a[k].exponent = f[k - 1])
  <2>1. CASE k \in 1 .. n
    <3>1. k - 1 \in 0 .. n /\ k \in 0 .. n
      BY <2>1
    <3>2. a[k].count = counts[k] /\ a[k].exponent = first + g[k - 1] /\ counts[k] \in Nat
      BY <1>4, <1>8, <1>13, <1>22, <2>1
    <3>3. a[k].file # NoName
      <4>1. a[k] = volume(k)
        BY <1>22, <2>1
      <4>2. volume(k).file = Name(b, "vol", exponents[k], counts[k])
        BY <1>13, <1>15, <2>1
      <4> QED BY <1>16, <4>1, <4>2
    <3>4. f[k] = first + g[k] /\ f[k - 1] = first + g[k - 1] /\ g[k - 1] \in Nat /\ g[k] = g[k - 1] + counts[k]
      BY <1>9, <1>10, <1>24, <2>1, <3>1
    <3>5. PICK y \in Nat : y = g[k - 1]
      BY <3>4
    <3>6. PICK c \in Nat : c = counts[k]
      BY <3>2
    <3>7. f[k - 1] = first + y /\ f[k] = first + (y + c)
      BY <3>4, <3>5, <3>6
    <3>8. a[k].count = c /\ a[k].exponent = first + y
      BY <3>2, <3>5, <3>6
    <3>9. f[k] = f[k - 1] + a[k].count /\ a[k].exponent = f[k - 1] /\ a[k].count \in Nat /\ a[k].exponent \in Nat
      BY <3>7, <3>8
    <3> QED BY <3>3, <3>9
  <2>2. CASE k = n + 1
    <3>1. k - 1 = n /\ n \in 0 .. n
      BY <2>2
    <3>2. f[k] = f[k - 1] /\ f[k] \in Nat
      BY <1>24, <2>2, <3>1
    <3> QED BY <1>14, <1>18, <1>20, <1>22, <2>2, <3>2
  <2> QED BY <2>1, <2>2
<1>26. ASSUME NEW j \in 1 .. n + 1, NEW k \in 1 .. n + 1, a[j].file = a[k].file PROVE a[j] = a[k]
  <2>1. \A i \in 1 .. n + 1 : i \in 1 .. n \/ i = n + 1
    OBVIOUS
  <2>2. \A i \in 1 .. n : a[i].file # last.file
    <3> TAKE i \in 1 .. n
    <3>1. a[i].file = Name(b, "vol", exponents[i], counts[i])
      BY <1>13, <1>15, <1>22
    <3>2. last.file = WithPar2(creator.parfile)
      BY <1>14, <1>20
    <3> QED BY <1>16, <3>1, <3>2
  <2>3. CASE j \in 1 .. n /\ k \in 1 .. n
    <3>1. a[j] = volume(j) /\ a[k] = volume(k)
      BY <1>22, <2>3
    <3>2. volume(j).file = volume(k).file
      BY <1>26, <3>1
    <3>3. volume(j) = volume(k)
      BY <1>19, <2>3, <3>2
    <3> QED BY <3>1, <3>3
  <2>4. CASE j \in 1 .. n /\ k = n + 1
    <3>1. a[k].file = last.file /\ a[j].file # last.file
      BY <1>22, <2>2, <2>4
    <3> QED BY <1>26, <3>1
  <2>5. CASE j = n + 1 /\ k \in 1 .. n
    <3>1. a[j].file = last.file /\ a[k].file # last.file
      BY <1>22, <2>2, <2>5
    <3> QED BY <1>26, <3>1
  <2>6. CASE j = n + 1 /\ k = n + 1
    BY <2>6
  <2> QED BY <2>1, <2>3, <2>4, <2>5, <2>6
<1>27. n + 1 \in Nat /\ n + 1 > 0 /\ f[n + 1] = first + creator.recoveryblockcount
  BY <1>1, <1>5, <1>24
<1>28. Allotted(f, a, first, creator.recoveryblockcount, n + 1)
  BY <1>22, <1>24, <1>25, <1>26, <1>27 DEF Allotted
<1> QED BY <1>3, <1>21, <1>28

-----------------------------------------------------------------------------
(* The items of all files: those of recovery packets, and the others *)

PacketList(items) == [i \in DOMAIN items |-> items[i].packet]
Whole(items) == IsList(items) /\ \A i \in DOMAIN items : items[i].packet \in Int
LEMMA ItemsOfAre ==
    ASSUME NEW items, Whole(items), NEW which \in BOOLEAN
    PROVE  /\ IsList(ItemsOf(items, which)) /\ Len(ItemsOf(items, which)) \in Nat
           /\ \A i \in 1 .. Len(ItemsOf(items, which)) :
                ItemsOf(items, which)[i] \in ToSet(items) /\ IsRecovery(ItemsOf(items, which)[i].packet) = which
           /\ \A x \in ToSet(items) : IsRecovery(x.packet) = which => Occurs(x, ItemsOf(items, which))
           /\ \A lo, hi \in Int : Ordered(PacketList(items), lo, hi) /\ which =>
                /\ Len(ItemsOf(items, which)) = hi - lo
                /\ \A i \in 1 .. hi - lo : ItemsOf(items, which)[i].packet = RecoveryHeader(lo + i - 1)
<1>1. PICK n \in Nat : n = Len(items) /\ DOMAIN items = 1 .. n
  BY ListFacts DEF Whole
<1>2. PICK present : present = [k \in DOMAIN items |-> IsRecovery(items[k].packet)]
  OBVIOUS
<1>3. Count \in Nat
  BY CountIsPower
<1>4. \A k \in 1 .. n : items[k].packet \in Int /\ IsRecovery(items[k].packet) \in BOOLEAN
  BY <1>1, <1>3 DEF Whole, IsRecovery, RecoveryHeader
<1>5. present \in [1 .. n -> BOOLEAN] /\ \A k \in 1 .. n : present[k] = IsRecovery(items[k].packet)
  BY <1>1, <1>2, <1>4
<1>6. PICK index : index = Indexes(present, which)
  OBVIOUS
<1>7. /\ index \in Seq(1 .. n) /\ \A c \in 1 .. Len(index) : present[index[c]] = which
      /\ Tallying(index, present, which, n)
  BY <1>5, <1>6, IndexesAre
<1>8. PICK m \in Nat : m = Len(index)
  BY <1>7, LenProperties
<1>9. DOMAIN index = 1 .. m /\ \A i \in 1 .. m : index[i] \in 1 .. n /\ present[index[i]] = which
  BY <1>7, <1>8, ElementOfSeq, LenProperties
<1>10. PICK l : l = ItemsOf(items, which)
  OBVIOUS
<1>11. l = [k \in 1 .. m |-> items[index[k]]]
  BY <1>2, <1>6, <1>9, <1>10 DEF ItemsOf
<1>12. l = [k \in 1 .. m |-> l[k]] /\ \A k \in 1 .. m : l[k] = items[index[k]]
  BY <1>11
<1>13. IsList(l) /\ Len(l) = m /\ DOMAIN l = 1 .. m
  BY <1>12, ListOf
<1>14. \A i \in 1 .. m : l[i] \in ToSet(items) /\ IsRecovery(l[i].packet) = which
  <2> TAKE i \in 1 .. m
  <2>1. PICK k \in 1 .. n : k = index[i] /\ present[k] = which
    BY <1>9
  <2>2. l[i] = items[k]
    BY <1>12, <2>1
  <2>3. items[k] \in ToSet(items)
    BY <1>1 DEF ToSet
  <2> QED BY <1>5, <2>1, <2>2, <2>3
<1>15. PICK count \in [0 .. n -> 0 .. m] : Tallied(count, index, present, which, n)
  BY <1>7, <1>8 DEF Tallying
<1>16. /\ count[0] = 0 /\ count[n] = m
       /\ \A k \in 1 .. n : /\ k - 1 \in 0 .. n /\ count[k - 1] \in 0 .. m /\ count[k] \in 0 .. m
                            /\ present[k] = which => count[k] = count[k - 1] + 1 /\ index[count[k]] = k
                            /\ present[k] # which => count[k] = count[k - 1]
  <2>1. /\ count[0] = 0 /\ count[n] = m
        /\ \A k \in 1 .. n : IF present[k] = which THEN count[k] = count[k - 1] + 1 /\ index[count[k]] = k
                             ELSE count[k] = count[k - 1]
    BY <1>8, <1>15 DEF Tallied
  <2>2. \A k \in 1 .. n : k - 1 \in 0 .. n /\ k \in 0 .. n
    OBVIOUS
  <2>3. \A k \in 0 .. n : count[k] \in 0 .. m
    OBVIOUS
  <2> QED BY <2>1, <2>2, <2>3
<1>17. ASSUME NEW x \in ToSet(items), IsRecovery(x.packet) = which PROVE Occurs(x, l)
  <2>1. PICK k \in 1 .. n : items[k] = x
    BY <1>1 DEF ToSet
  <2>2. present[k] = which
    BY <1>5, <1>17, <2>1
  <2>3. PICK c \in 1 .. m : c = count[k] /\ index[c] = k
    <3>1. PICK y \in 0 .. m : y = count[k - 1]
      BY <1>16
    <3>2. PICK z \in 0 .. m : z = count[k]
      BY <1>16
    <3>3. z = y + 1 /\ index[z] = k
      BY <1>16, <2>2, <3>1, <3>2
    <3> QED BY <3>2, <3>3
  <2>4. l[c] = x
    BY <1>12, <2>1, <2>3
  <2> QED BY <1>13, <2>4 DEF Occurs
<1>18. ASSUME NEW lo \in Int, NEW hi \in Int, Ordered(PacketList(items), lo, hi), which
       PROVE  m = hi - lo /\ \A i \in 1 .. m : l[i].packet = RecoveryHeader(lo + i - 1)
  <2>1. PICK p : p = PacketList(items)
    OBVIOUS
  <2>2. p \in Seq(Int) /\ DOMAIN p = 1 .. n /\ \A k \in 1 .. n : p[k] = items[k].packet
    BY <1>1, <1>18, <2>1 DEF PacketList, Ordered
  <2>3. Len(p) = n
    BY <2>2, LenProperties
  <2>4. PICK r : Ranks(r, p, lo, hi)
    BY <1>18, <2>1 DEF Ordered
  <2>5. /\ r \in [0 .. n -> Int] /\ r[0] = lo /\ r[n] = hi
        /\ \A k \in 1 .. n : IF present[k] THEN p[k] = RecoveryHeader(r[k - 1]) /\ r[k] = r[k - 1] + 1
                             ELSE r[k] = r[k - 1]
    BY <1>5, <2>2, <2>3, <2>4 DEF Ranks
  <2> DEFINE T == {k \in Nat : k <= n => r[k] = lo + count[k]}
  <2>6. 0 \in T
    BY <1>16, <2>5
  <2>7. ASSUME NEW k \in Nat, k \in T PROVE k + 1 \in T
    <3> SUFFICES ASSUME k + 1 <= n PROVE r[k + 1] = lo + count[k + 1]
      OBVIOUS
    <3>1. k + 1 \in 1 .. n /\ (k + 1) - 1 = k
      OBVIOUS
    <3>2. r[k] = lo + count[k]
      BY <2>7
    <3>3. PICK j \in 1 .. n : j = k + 1
      BY <3>1
    <3>4. r[j - 1] = lo + count[j - 1] /\ count[j - 1] \in Int
      BY <1>16, <3>1, <3>2, <3>3
    <3>5. CASE present[j]
      <4>1. present[j] = which
        BY <1>5, <1>18, <3>5
      <4>2. count[j] = count[j - 1] + 1 /\ r[j] = r[j - 1] + 1
        BY <1>16, <2>5, <3>5, <4>1
      <4>3. PICK y \in Int : y = count[j - 1]
        BY <3>4
      <4>4. r[j] = lo + y + 1 /\ count[j] = y + 1
        BY <3>4, <4>2, <4>3
      <4> QED BY <3>3, <4>4
    <3>6. CASE ~present[j]
      BY <1>5, <1>16, <1>18, <2>5, <3>3, <3>4, <3>6
    <3> QED BY <3>5, <3>6
  <2> HIDE DEF T
  <2>8. Nat \subseteq T
    BY <2>6, <2>7, Induct
  <2>9. \A k \in 0 .. n : r[k] = lo + count[k]
    BY <2>8 DEF T
  <2>10. m = hi - lo
    <3>1. r[n] = lo + count[n]
      BY <2>9
    <3> QED BY <1>16, <2>5, <3>1
  <2>11. ASSUME NEW i \in 1 .. m PROVE l[i].packet = RecoveryHeader(lo + i - 1)
    <3> DEFINE S == {k \in 0 .. n : i <= count[k]}
    <3>1. n \in S /\ S \in SUBSET Nat
      BY <1>16
    <3>2. PICK k \in S : \A j \in S : k <= j
      <4> HIDE DEF S
      <4> QED BY <3>1, Least
    <3>3. k \in 0 .. n /\ i <= count[k]
      OBVIOUS
    <3>4. k # 0
      BY <1>16, <3>3
    <3>5. k \in 1 .. n /\ k - 1 \in 0 .. n /\ ~(k <= k - 1)
      BY <3>3, <3>4
    <3>6. ~(i <= count[k - 1])
      BY <3>2, <3>5
    <3>7. present[k] /\ count[k] = count[k - 1] + 1 /\ index[count[k]] = k
      BY <1>5, <1>16, <1>18, <3>3, <3>5, <3>6
    <3>8. count[k] = i /\ count[k - 1] = i - 1
      <4>1. PICK y \in Int : y = count[k - 1]
        BY <1>16, <3>5
      <4> QED BY <3>3, <3>6, <3>7, <4>1
    <3>9. l[i] = items[k]
      BY <1>12, <3>7, <3>8
    <3>10. p[k] = RecoveryHeader(r[k - 1]) /\ r[k - 1] = lo + count[k - 1]
      BY <2>5, <2>9, <3>5, <3>7
    <3>11. lo + (i - 1) = lo + i - 1
      OBVIOUS
    <3> QED BY <2>2, <3>5, <3>8, <3>9, <3>10, <3>11
  <2> QED BY <2>10, <2>11
<1> QED BY <1>10, <1>13, <1>14, <1>17, <1>18

\* The files that are made so far.
Stowed(items, a, first, hi, k) ==
    /\ Whole(items) /\ Ordered(PacketList(items), first, hi)
    /\ ToSet(items) = UNION {ToSet(Items(a[j])) : j \in 1 .. k - 1}
LEMMA StowedNone ==
    ASSUME NEW a, NEW first \in Int
    PROVE  Stowed(<<>>, a, first, first, 1)
<1>1. IsList(<<>>) /\ DOMAIN <<>> = {} /\ ToSet(<<>>) = {}
  <2>1. <<>> \in Seq({})
    OBVIOUS
  <2>2. DOMAIN <<>> = {}
    OBVIOUS
  <2> QED BY <2>1, <2>2, SeqIsList DEF ToSet
<1>2. Ordered(PacketList(<<>>), first, first)
  <2>1. PICK p : p = PacketList(<<>>)
    OBVIOUS
  <2>2. p = <<>>
    BY <1>1, <2>1 DEF PacketList
  <2>3. p \in Seq(Int) /\ Len(p) = 0
    BY <2>2
  <2>4. Negative(p)
    BY <2>3 DEF Negative
  <2> QED BY <2>1, <2>4, OrderedNone
<1>3. 1 .. 1 - 1 = {}
  OBVIOUS
<1> QED BY <1>1, <1>2, <1>3 DEF Stowed, Whole

LEMMA StowedNext ==
    ASSUME NEW items, NEW a, NEW first \in Int, NEW lo \in Int, NEW hi \in Int, NEW k \in Nat \ {0},
           Stowed(items, a, first, lo, k),
           Whole(Items(a[k])), Ordered(PacketList(Items(a[k])), lo, hi)
    PROVE  Stowed(items \o Items(a[k]), a, first, hi, k + 1)
<1>1. PICK l : l = Items(a[k])
  OBVIOUS
<1>2. PICK j : j = items \o l
  OBVIOUS
<1>3. PICK m \in Nat : m = Len(items) /\ DOMAIN items = 1 .. m
  BY ListFacts DEF Stowed, Whole
<1>4. PICK n \in Nat : n = Len(l) /\ DOMAIN l = 1 .. n
  BY <1>1, ListFacts DEF Whole
<1>5. j = [i \in 1 .. m + n |-> j[i]] /\ \A i \in 1 .. m + n : j[i] = IF i <= m THEN items[i] ELSE l[i - m]
  <2> DEFINE S == ToSet(items) \cup ToSet(l)
  <2>1. items \in Seq(ToSet(items)) /\ l \in Seq(ToSet(l))
    BY <1>1 DEF Stowed, Whole, IsList
  <2>2. ToSet(items) \subseteq S /\ ToSet(l) \subseteq S
    OBVIOUS
  <2> HIDE DEF S
  <2>3. items \in Seq(S) /\ l \in Seq(S)
    BY <2>1, <2>2
  <2>4. j \in Seq(S) /\ Len(j) = m + n /\ \A i \in 1 .. m + n : j[i] = IF i <= m THEN items[i] ELSE l[i - m]
    BY <1>2, <1>3, <1>4, <2>3, ConcatProperties
  <2>5. j = [i \in 1 .. m + n |-> j[i]]
    BY <2>4
  <2> QED BY <2>4, <2>5
<1>6. IsList(j) /\ Len(j) = m + n /\ DOMAIN j = 1 .. m + n
  BY <1>5, ListOf
<1>7. \A i \in 1 .. m : i \in 1 .. m + n /\ j[i] = items[i]
  BY <1>5
<1>8. \A i \in 1 .. n : m + i \in 1 .. m + n /\ j[m + i] = l[i]
  <2> TAKE i \in 1 .. n
  <2>1. m + i \in 1 .. m + n /\ ~(m + i <= m) /\ (m + i) - m = i
    OBVIOUS
  <2> QED BY <1>5, <2>1
<1>9. \A i \in 1 .. m + n : i \in 1 .. m \/ \E h \in 1 .. n : i = m + h
  <2> TAKE i \in 1 .. m + n
  <2>1. CASE ~(i <= m)
    <3>1. i - m \in 1 .. n /\ i = m + (i - m)
      BY <2>1
    <3> QED BY <3>1
  <2> QED BY <2>1
<1>10. ToSet(j) = ToSet(items) \cup ToSet(l)
  <2>1. ASSUME NEW x \in ToSet(j) PROVE x \in ToSet(items) \cup ToSet(l)
    <3>1. PICK i \in 1 .. m + n : j[i] = x
      BY <1>6 DEF ToSet
    <3>2. CASE i \in 1 .. m
      BY <1>3, <1>7, <3>1, <3>2 DEF ToSet
    <3>3. CASE \E h \in 1 .. n : i = m + h
      BY <1>4, <1>8, <3>1, <3>3 DEF ToSet
    <3> QED BY <1>9, <3>2, <3>3
  <2>2. ASSUME NEW x \in ToSet(items) PROVE x \in ToSet(j)
    <3>1. PICK i \in 1 .. m : items[i] = x
      BY <1>3 DEF ToSet
    <3> QED BY <1>6, <1>7, <3>1 DEF ToSet
  <2>3. ASSUME NEW x \in ToSet(l) PROVE x \in ToSet(j)
    <3>1. PICK i \in 1 .. n : l[i] = x
      BY <1>4 DEF ToSet
    <3> QED BY <1>6, <1>8, <3>1 DEF ToSet
  <2> QED BY <2>1, <2>2, <2>3
<1>11. Whole(j)
  <2>1. \A i \in 1 .. m : items[i].packet \in Int
    BY <1>3 DEF Stowed, Whole
  <2>2. \A i \in 1 .. n : l[i].packet \in Int
    BY <1>1, <1>4 DEF Whole
  <2>3. ASSUME NEW i \in 1 .. m + n PROVE j[i].packet \in Int
    <3>1. CASE i \in 1 .. m
      BY <1>7, <2>1, <3>1
    <3>2. CASE \E h \in 1 .. n : i = m + h
      BY <1>8, <2>2, <3>2
    <3> QED BY <1>9, <3>1, <3>2
  <2> QED BY <1>6, <2>3 DEF Whole
<1>12. PICK p : p = PacketList(items)
  OBVIOUS
<1>13. PICK q : q = PacketList(l)
  OBVIOUS
<1>14. PacketList(j) = p \o q
  <2>1. p = [i \in 1 .. m |-> items[i].packet] /\ q = [i \in 1 .. n |-> l[i].packet]
    BY <1>3, <1>4, <1>12, <1>13 DEF PacketList
  <2>2. p \in Seq(Int) /\ q \in Seq(Int)
    BY <1>1, <1>12, <1>13 DEF Stowed, Ordered
  <2>3. Len(p) = m /\ Len(q) = n
    BY <2>1, <2>2, LenProperties
  <2>4. PICK c : c = p \o q
    OBVIOUS
  <2>5. c = [i \in 1 .. m + n |-> c[i]] /\ \A i \in 1 .. m + n : c[i] = IF i <= m THEN p[i] ELSE q[i - m]
    <3>1. c \in Seq(Int) /\ Len(c) = m + n /\ \A i \in 1 .. m + n : c[i] = IF i <= m THEN p[i] ELSE q[i - m]
      BY <2>2, <2>3, <2>4, ConcatProperties
    <3> QED BY <3>1
  <2>6. \A i \in 1 .. m + n : c[i] = j[i].packet
    <3> TAKE i \in 1 .. m + n
    <3>1. CASE i <= m
      <4>1. i \in 1 .. m
        BY <3>1
      <4> QED BY <1>7, <2>1, <2>5, <3>1, <4>1
    <3>2. CASE ~(i <= m)
      <4>1. i - m \in 1 .. n
        BY <3>2
      <4> QED BY <1>5, <2>1, <2>5, <3>2, <4>1
    <3> QED BY <3>1, <3>2
  <2>7. PacketList(j) = [i \in 1 .. m + n |-> j[i].packet]
    BY <1>6 DEF PacketList
  <2> QED BY <2>4, <2>5, <2>6, <2>7
<1>15. Ordered(p \o q, first, hi)
  <2>1. Ordered(p, first, lo) /\ Ordered(q, lo, hi)
    BY <1>1, <1>12, <1>13 DEF Stowed
  <2> QED BY <2>1, OrderedJoin
<1>16. ToSet(j) = UNION {ToSet(Items(a[i])) : i \in 1 .. (k + 1) - 1}
  <2>1. 1 .. (k + 1) - 1 = (1 .. k - 1) \cup {k}
    OBVIOUS
  <2>2. ToSet(items) = UNION {ToSet(Items(a[i])) : i \in 1 .. k - 1} /\ ToSet(l) = ToSet(Items(a[k]))
    BY <1>1 DEF Stowed
  <2> QED BY <1>10, <2>1, <2>2
<1> QED BY <1>1, <1>2, <1>11, <1>14, <1>15, <1>16 DEF Stowed

-----------------------------------------------------------------------------
(* What writing does to the files *)

Touches(w, name, p) == IsSet(w[1]) /\ w[1].file = name /\ p \in WriteData(w)
CellOf(w, p) == w[3][p - (w[1].offset + w[2])]
Touched(writes, name, p, e) ==
    \E i \in DOMAIN writes : Touches(writes[i], name, p) /\ e[name][p] = CellOf(writes[i], p)
Untouched(writes, name, p) == \A i \in DOMAIN writes : ~Touches(writes[i], name, p)
LEMMA WritesAre ==
    ASSUME NEW d, NEW writes, IsList(writes), NEW e, e = AllWrites(d, writes)
    PROVE  /\ DOMAIN e = DOMAIN d
           /\ \A name \in DOMAIN d :
                /\ DOMAIN e[name] = DOMAIN d[name]
                /\ (\A i \in DOMAIN writes : writes[i][1].file # name) => e[name] = d[name]
                /\ \A p \in DOMAIN d[name] :
                     \/ e[name][p] = d[name][p] /\ Untouched(writes, name, p)
                     \/ Touched(writes, name, p, e)
<1> DEFINE done == DOMAIN writes
           into(name) == {n \in done : IsSet(writes[n][1]) /\ writes[n][1].file = name}
           upon(name, p) == {n \in into(name) : p \in WriteData(writes[n])}
           cell(w, p) == w[3][p - (w[1].offset + w[2])]
           written(name) == [p \in DOMAIN d[name] |-> IF upon(name, p) = {} THEN d[name][p]
                                                      ELSE cell(writes[Max(upon(name, p))], p)]
<1>1. e = [name \in DOMAIN d |-> IF into(name) = {} THEN d[name] ELSE written(name)]
  BY Zenon DEF AllWrites, AfterWrites
<1>2. done \in SUBSET Nat /\ IsFiniteSet(done)
  <2>1. IsFiniteSet(done) /\ done = 1 .. Len(writes) /\ Len(writes) \in Nat
    BY ListFacts
  <2> QED BY <2>1
<1>3. DOMAIN e = DOMAIN d
  BY <1>1, Zenon
<1>4. ASSUME NEW name \in DOMAIN d, \A i \in done : writes[i][1].file # name PROVE e[name] = d[name]
  <2>1. into(name) = {}
    BY <1>4
  <2> QED BY <1>1, <2>1, Zenon
<1>5. ASSUME NEW name \in DOMAIN d PROVE DOMAIN e[name] = DOMAIN d[name]
  <2>1. DOMAIN written(name) = DOMAIN d[name]
    OBVIOUS
  <2> HIDE DEF written, into
  <2> QED BY <1>1, <2>1
<1>6. ASSUME NEW name \in DOMAIN d, NEW p \in DOMAIN d[name]
      PROVE  \/ e[name][p] = d[name][p] /\ Untouched(writes, name, p)
             \/ Touched(writes, name, p, e)
  <2>1. \A n \in done : n \in upon(name, p) <=> Touches(writes[n], name, p)
    BY DEF Touches
  <2>2. CASE upon(name, p) = {}
    <3>1. Untouched(writes, name, p)
      BY <2>1, <2>2 DEF Untouched
    <3>2. written(name)[p] = d[name][p]
      BY <2>2, Zenon
    <3>3. e[name] = d[name] \/ e[name] = written(name)
      BY <1>1, Zenon
    <3> QED BY <3>1, <3>2, <3>3, Zenon
  <2>3. CASE upon(name, p) # {}
    <3> DEFINE U == upon(name, p)
    <3>1. into(name) # {} /\ U \subseteq done
      BY <2>3
    <3>2. U \in SUBSET Nat /\ IsFiniteSet(U) /\ U # {}
      BY <1>2, <2>3, <3>1, FS_Subset
    <3>3. written(name)[p] = cell(writes[Max(U)], p)
      BY <2>3, Zenon
    <3>4. e[name] = written(name)
      <4> HIDE DEF written, into
      <4> QED BY <1>1, <3>1
    <3> HIDE DEF U
    <3>5. PICK m : m = Max(U)
      OBVIOUS
    <3>6. m \in U
      <4>1. PICK x \in U : \A y \in U : y <= x
        BY <3>2, Greatest
      <4>2. \A y \in U : x >= y
        BY <3>2, <4>1
      <4> QED BY <3>5, <4>2 DEF Max
    <3>7. m \in done /\ Touches(writes[m], name, p)
      BY <2>1, <3>1, <3>6 DEF U
    <3>8. e[name][p] = CellOf(writes[m], p)
      BY <3>3, <3>4, <3>5, Zenon DEF CellOf
    <3> QED BY <3>7, <3>8 DEF Touched
  <2> QED BY <2>2, <2>3
<1> QED BY <1>3, <1>4, <1>5, <1>6

\* The items of the files that are made: each has its cells for itself, and every
\* cell belongs to one.
Occupied(items, made, d) ==
    /\ Whole(items) /\ made = {x.file : x \in ToSet(items)}
    /\ \A x \in ToSet(items) : /\ x.offset \in Nat /\ x.file # NoName /\ x.file \in DOMAIN d
                               /\ Extent(x) \subseteq DOMAIN d[x.file]
    /\ \A x, y \in ToSet(items) : x.file = y.file => x = y \/ Extent(x) \cap Extent(y) = {}
    /\ \A name \in made : \A p \in DOMAIN d[name] : \E x \in ToSet(items) : x.file = name /\ p \in Extent(x)
LEMMA OccupiedSame ==
    ASSUME NEW items, NEW made, NEW d, Occupied(items, made, d), NEW e, DOMAIN e = DOMAIN d,
           \A name \in DOMAIN d : DOMAIN e[name] = DOMAIN d[name]
    PROVE  Occupied(items, made, e)
<1>1. \A name \in made : name \in DOMAIN d
  BY DEF Occupied
<1> QED BY <1>1 DEF Occupied

\* The first cell of an item, and the others.
LEMMA FirstCell ==
    ASSUME NEW x, x.offset \in Nat, creator.blocksize \in Nat
    PROVE  /\ x.offset + 1 \in Extent(x)
           /\ IsRecovery(x.packet) => Extent(x) = x.offset + 1 .. x.offset + 1 + creator.blocksize
           /\ ~IsRecovery(x.packet) => Extent(x) = {x.offset + 1}
<1>1. /\ PacketLength(x.packet) \in Nat \ {0} /\ (IsRecovery(x.packet) => PacketLength(x.packet) = creator.blocksize + 1)
      /\ (~IsRecovery(x.packet) => PacketLength(x.packet) = 1)
  BY PacketLengthIs
<1> QED BY <1>1 DEF Extent

\* Packets are written to the first cells of their items.
LEMMA PacketsWritten ==
    ASSUME NEW items, NEW made, NEW d, Occupied(items, made, d), creator.blocksize \in Nat,
           NEW l, IsList(l), ToSet(l) \subseteq ToSet(items), NEW e, e = AllWrites(d, PacketWrites(l))
    PROVE  /\ DOMAIN e = DOMAIN d
           /\ \A name \in DOMAIN d : DOMAIN e[name] = DOMAIN d[name] /\ (name \notin made => e[name] = d[name])
           /\ \A x \in ToSet(l) : e[x.file][x.offset + 1] = x.packet
           /\ \A x \in ToSet(items) : \A p \in Extent(x) :
                p # x.offset + 1 \/ x \notin ToSet(l) => e[x.file][p] = d[x.file][p]
<1>1. PICK writes : writes = PacketWrites(l)
  OBVIOUS
<1>2. PICK n \in Nat : n = Len(l) /\ DOMAIN l = 1 .. n
  BY ListFacts
<1>3. writes = [i \in 1 .. n |-> <<Block(l[i].file, l[i].offset, 1), 0, <<l[i].packet>>>>]
  BY <1>1, <1>2 DEF PacketWrites
<1>4. writes = [i \in 1 .. n |-> writes[i]]
      /\ \A i \in 1 .. n : /\ writes[i][1] = Block(l[i].file, l[i].offset, 1) /\ writes[i][2] = 0
                           /\ writes[i][3] = <<l[i].packet>>
  BY <1>3
<1>5. IsList(writes) /\ DOMAIN writes = 1 .. n
  BY <1>4, ListOf
<1>6. \A i \in 1 .. n : l[i] \in ToSet(l) /\ l[i] \in ToSet(items)
  BY <1>2 DEF ToSet
<1>7. ASSUME NEW i \in 1 .. n
      PROVE  /\ IsSet(writes[i][1]) /\ writes[i][1].file = l[i].file /\ WriteData(writes[i]) = {l[i].offset + 1}
             /\ CellOf(writes[i], l[i].offset + 1) = l[i].packet
  <2>1. PICK o \in Nat : o = l[i].offset
    BY <1>6 DEF Occupied
  <2>2. l[i].file # NoName
    BY <1>6 DEF Occupied
  <2>3. /\ writes[i][1].file = l[i].file /\ writes[i][1].offset = o /\ writes[i][1].length = 1 /\ writes[i][2] = 0
        /\ Len(writes[i][3]) = 1 /\ writes[i][3][1] = l[i].packet
    <3>1. PICK y : y = l[i].packet
      OBVIOUS
    <3>2. Len(<<y>>) = 1 /\ <<y>>[1] = y
      OBVIOUS
    <3>3. writes[i][3] = <<y>>
      BY <1>4, <3>1
    <3>4. writes[i][1] = Block(l[i].file, o, 1) /\ writes[i][2] = 0
      BY <1>4, <2>1
    <3> QED BY <3>1, <3>2, <3>3, <3>4 DEF Block
  <2>4. Within(writes[i][1], 0, 1) = 1
    BY <2>3 DEF Within
  <2>5. WriteData(writes[i]) = {o + 1}
    BY <2>3, <2>4 DEF WriteData
  <2>6. CellOf(writes[i], o + 1) = writes[i][3][1]
    <3>1. o + 1 - (o + 0) = 1
      OBVIOUS
    <3> QED BY <2>3, <3>1 DEF CellOf
  <2> QED BY <2>1, <2>2, <2>3, <2>5, <2>6 DEF IsSet
<1>8. \A i \in 1 .. n : \A name, p : Touches(writes[i], name, p) <=> name = l[i].file /\ p = l[i].offset + 1
  BY <1>7 DEF Touches
<1>9. e = AllWrites(d, writes)
  BY <1>1
<1>10. /\ DOMAIN e = DOMAIN d
       /\ \A name \in DOMAIN d :
            /\ DOMAIN e[name] = DOMAIN d[name]
            /\ (\A i \in 1 .. n : writes[i][1].file # name) => e[name] = d[name]
            /\ \A p \in DOMAIN d[name] :
                 \/ e[name][p] = d[name][p] /\ Untouched(writes, name, p)
                 \/ Touched(writes, name, p, e)
  BY <1>5, <1>9, WritesAre
<1>11. ASSUME NEW name \in DOMAIN d, name \notin made PROVE e[name] = d[name]
  <2>1. \A i \in 1 .. n : writes[i][1].file # name
    BY <1>6, <1>7, <1>11 DEF Occupied
  <2> QED BY <1>10, <2>1
<1>12. ASSUME NEW x \in ToSet(items), NEW p \in Extent(x)
       PROVE  /\ x.file \in DOMAIN d /\ p \in DOMAIN d[x.file] /\ x.offset + 1 \in Extent(x)
              /\ \A i \in 1 .. n : Touches(writes[i], x.file, p) => l[i] = x /\ p = x.offset + 1
  <2>1. x.file \in DOMAIN d /\ p \in DOMAIN d[x.file] /\ x.offset \in Nat
    BY DEF Occupied
  <2>2. x.offset + 1 \in Extent(x)
    BY <2>1, FirstCell
  <2>3. ASSUME NEW i \in 1 .. n, Touches(writes[i], x.file, p) PROVE l[i] = x /\ p = x.offset + 1
    <3>1. PICK y : y = l[i]
      OBVIOUS
    <3>2. y \in ToSet(items) /\ y.file = x.file /\ p = y.offset + 1
      BY <1>6, <1>8, <2>3, <3>1
    <3>3. y.offset \in Nat
      BY <3>2 DEF Occupied
    <3>4. p \in Extent(y)
      BY <3>2, <3>3, FirstCell
    <3>5. x = y \/ Extent(x) \cap Extent(y) = {}
      BY <3>2 DEF Occupied
    <3>6. x = y
      BY <3>4, <3>5
    <3> QED BY <3>1, <3>2, <3>6
  <2> QED BY <2>1, <2>2, <2>3
<1>13. ASSUME NEW x \in ToSet(l) PROVE e[x.file][x.offset + 1] = x.packet
  <2>1. PICK i \in 1 .. n : l[i] = x
    BY <1>2 DEF ToSet
  <2>2. x \in ToSet(items)
    BY <1>13
  <2>3. x.offset \in Nat
    BY <2>2 DEF Occupied
  <2>4. PICK p : p = x.offset + 1
    OBVIOUS
  <2>5. p \in Extent(x)
    BY <2>3, <2>4, FirstCell
  <2>6. x.file \in DOMAIN d /\ p \in DOMAIN d[x.file]
    BY <1>12, <2>2, <2>5
  <2>7. Touches(writes[i], x.file, p)
    BY <1>8, <2>1, <2>4
  <2>8. ~Untouched(writes, x.file, p)
    BY <1>5, <2>7 DEF Untouched
  <2>9. Touched(writes, x.file, p, e)
    BY <1>10, <2>6, <2>8
  <2>10. PICK j \in 1 .. n : Touches(writes[j], x.file, p) /\ e[x.file][p] = CellOf(writes[j], p)
    BY <1>5, <2>9 DEF Touched
  <2>11. l[j] = x
    BY <1>12, <2>2, <2>5, <2>10
  <2>12. CellOf(writes[j], p) = x.packet
    BY <1>7, <2>4, <2>11
  <2> QED BY <2>4, <2>10, <2>12
<1>14. ASSUME NEW x \in ToSet(items), NEW p \in Extent(x), p # x.offset + 1 \/ x \notin ToSet(l)
       PROVE  e[x.file][p] = d[x.file][p]
  <2>1. x.file \in DOMAIN d /\ p \in DOMAIN d[x.file]
    BY <1>12
  <2>2. \A i \in 1 .. n : ~Touches(writes[i], x.file, p)
    BY <1>6, <1>12, <1>14
  <2>3. ~Touched(writes, x.file, p, e)
    BY <1>5, <2>2 DEF Touched
  <2> QED BY <1>10, <2>1, <2>3
<1> QED BY <1>10, <1>11, <1>13, <1>14

-----------------------------------------------------------------------------
(* The data that is written is the data that is due *)

LEMMA BasesAre ==
    ASSUME NEW n \in Nat, n <= Half
    PROVE  Bases16(n) \in [1 .. n -> Values]
<1>1. Half <= Len(UsableLogs)
  BY CreateAssumption
<1>2. Count \in Nat /\ Half \in Nat /\ Count > 0
  <2>1. 2 * Half = Count /\ Half >= 1
    <3>1. DefaultBlocks \in 1 .. Half
      BY CreateAssumption
    <3> QED BY <3>1, CountIsPower
  <2> QED BY <2>1, CountIsPower
<1>3. PICK m \in Nat : m = Limit - 1 \/ (m = 0 /\ Limit = 0)
  BY <1>2 DEF Limit
<1>4. PICK u : u = UsableLogs
  OBVIOUS
<1>5. 1 .. Limit - 1 = 1 .. m
  BY <1>2, <1>3 DEF Limit
<1>6. PICK present : present = [l \in 1 .. m |-> gcd[Limit, l] = 1]
  OBVIOUS
<1>7. present \in [1 .. m -> BOOLEAN]
  BY <1>6
<1>8. u = Indexes(present, TRUE)
  BY <1>4, <1>5, <1>6 DEF UsableLogs
<1>9. u \in Seq(1 .. m)
  BY <1>7, <1>8, IndexesAre
<1>10. \A i \in 1 .. n : u[i] \in 1 .. m
  <2>1. PICK k \in Nat : k = Len(u)
    BY <1>9, LenProperties
  <2>2. n <= k
    BY <1>1, <1>2, <1>4, <2>1
  <2> QED BY <1>9, <2>1, <2>2, ElementOfSeq
<1>11. 1 .. m \subseteq 0 .. Limit
  BY <1>2, <1>3 DEF Limit
<1>12. \A l \in 0 .. Limit : AntilogTable[l] \in Values
  BY GaloisAssumption
<1>13. \A i \in 1 .. n : AntilogTable[u[i]] \in Values
  BY <1>10, <1>11, <1>12
<1> QED BY <1>4, <1>13 DEF Bases16

\* A chunk of a block is a part of the whole block, filled up with 0.
InsideOf(b, d, size) ==
    /\ b.offset \in Nat /\ b.length \in Nat /\ b.length <= size
    /\ \A k \in 1 .. b.length : b.offset + k \in DOMAIN d[b.file]
LEMMA ReadIs ==
    ASSUME NEW d, NEW b, NEW size \in Nat, InsideOf(b, d, size), \A k \in DOMAIN d[b.file] : d[b.file][k] \in Values,
           NEW off \in Nat, NEW len \in Nat, off + len <= size
    PROVE  \A k \in 1 .. len :
             /\ ReadData(d, b, off, len)[k] = IF off + k <= b.length THEN d[b.file][b.offset + (off + k)] ELSE 0
             /\ ReadData(d, b, off, len)[k] \in Values
<1>1. PICK o \in Nat : o = b.offset
  BY DEF InsideOf
<1>2. PICK n \in Nat : n = b.length /\ n <= size
  BY DEF InsideOf
<1>3. PICK want \in Nat : want = IF n <= off THEN 0 ELSE IF len < n - off THEN len ELSE n - off
  <2>1. CASE n <= off
    BY <2>1
  <2>2. CASE ~(n <= off)
    <3>1. n - off \in Nat
      BY <2>2
    <3> QED BY <2>2, <3>1
  <2> QED BY <2>1, <2>2
<1>4. want = Within(b, off, len)
  BY <1>2, <1>3 DEF Within
<1>5. PICK data : data = IF want = 0 THEN <<>> ELSE SubSeq(d[b.file], o + off + 1, o + off + want)
  OBVIOUS
<1>6. ReadData(d, b, off, len) = [k \in 1 .. len |-> IF k <= want THEN data[k] ELSE 0]
  BY <1>1, <1>4, <1>5 DEF ReadData, Read
<1>7. 0 \in Values
  <2>1. Count \in Nat /\ Half \in Nat /\ 2 * Half = Count /\ Half >= 1
    <3>1. DefaultBlocks \in 1 .. Half
      BY CreateAssumption
    <3> QED BY <3>1, CountIsPower
  <2> QED BY <2>1 DEF Values, Limit
<1>8. ASSUME NEW k \in 1 .. len, k <= want PROVE off + k <= n /\ data[k] = d[b.file][o + (off + k)] /\ data[k] \in Values
  <2>1. want # 0 /\ off + k <= n
    BY <1>3, <1>8
  <2>2. data = SubSeq(d[b.file], o + off + 1, o + off + want)
    BY <1>5, <2>1
  <2>3. data = [i \in 1 .. 1 + (o + off + want) - (o + off + 1) |-> d[b.file][i + (o + off + 1) - 1]]
    BY <2>2 DEF SubSeq
  <2>4. 1 + (o + off + want) - (o + off + 1) = want /\ k + (o + off + 1) - 1 = o + (off + k)
    OBVIOUS
  <2>5. k \in 1 .. want
    BY <1>8
  <2>6. data[k] = d[b.file][o + (off + k)]
    BY <2>3, <2>4, <2>5
  <2>7. off + k \in 1 .. n
    BY <2>1
  <2>8. o + (off + k) \in DOMAIN d[b.file]
    BY <1>1, <1>2, <2>7 DEF InsideOf
  <2> QED BY <2>1, <2>6, <2>8
<1>9. ASSUME NEW k \in 1 .. len, ~(k <= want) PROVE ~(off + k <= n)
  BY <1>3, <1>9
<1> QED BY <1>1, <1>2, <1>6, <1>7, <1>8, <1>9

\* The value that is due, as a sum in the field.
DueTerms(exponent, p) ==
    [i \in 1 .. Len(creator.blocks) |->
       Times(Power(Bases16(Len(creator.blocks))[i], exponent),
             ReadData(before, creator.blocks[i], 0, creator.blocksize)[p])]
LEMMA DueIs ==
    ASSUME NEW exponent, NEW p \in 1 .. creator.blocksize
    PROVE  Due(exponent)[p] = FieldSum(DueTerms(exponent, p), Len(creator.blocks))
BY DEF Due, FieldSum, PartialSums, SumsBody, DueTerms

\* The blocks lie in the files as they were, and these are still there.
CutUp ==
    /\ IsList(creator.blocks) /\ Len(creator.blocks) = creator.sourceblockcount /\ creator.sourceblockcount <= Half
    /\ \A b \in ToSet(creator.blocks) :
         b.file \in ToSet(creator.sources) /\ b.file \in DOMAIN before /\ InsideOf(b, before, creator.blocksize)
Intact == \A name \in DOMAIN before \ FilesMade : name \in DOMAIN disk /\ disk[name] = before[name]
Amounts ==
    /\ creator.firstblock \in Nat /\ creator.recoveryblockcount \in Nat
    /\ creator.firstblock + creator.recoveryblockcount <= Count
    /\ creator.blocksize \in Nat \ {0} /\ creator.chunksize \in Nat
    /\ creator.blockoffset \in Nat /\ creator.blockoffset <= creator.blocksize
LEMMA ChunkIs ==
    ASSUME Amounts
    PROVE  ChunkLength(creator) \in Nat /\ creator.blockoffset + ChunkLength(creator) <= creator.blocksize
BY DEF Amounts, ChunkLength, Min2

\* What is read of the blocks now is what was in them.
LEMMA InputsAre ==
    ASSUME CutUp, Separate, Intact, NEW off \in Nat, NEW len \in Nat, off + len <= creator.blocksize,
           creator.blocksize \in Nat, NEW i \in 1 .. Len(creator.blocks)
    PROVE  LET read == ReadData(disk, creator.blocks[i], off, len)
               due == ReadData(before, creator.blocks[i], 0, creator.blocksize)
           IN  /\ AsValues(read) \in Blocks(len)
               /\ \A k \in 1 .. len : AsValues(read)[k] = due[off + k] /\ due[off + k] \in Values
<1>1. PICK b : b = creator.blocks[i]
  OBVIOUS
<1>2. b \in ToSet(creator.blocks)
  BY <1>1, ListFacts DEF CutUp, ToSet
<1>3. b.file \in ToSet(creator.sources) /\ b.file \in DOMAIN before /\ InsideOf(b, before, creator.blocksize)
  BY <1>2 DEF CutUp
<1>4. b.file \notin FilesMade /\ \A k \in DOMAIN before[b.file] : before[b.file][k] \in Values
  BY <1>3 DEF Separate
<1>5. disk[b.file] = before[b.file]
  BY <1>3, <1>4 DEF Intact
<1>6. PICK size \in Nat : size = creator.blocksize
  OBVIOUS
<1>7. PICK read : read = ReadData(disk, b, off, len)
  OBVIOUS
<1>8. PICK due : due = ReadData(before, b, 0, size)
  OBVIOUS
<1>9. read = ReadData(before, b, off, len)
  BY <1>5, <1>7 DEF ReadData, Read
<1>10. InsideOf(b, before, size) /\ off + len <= size
  BY <1>3, <1>6
<1>11. \A k \in 1 .. len : /\ read[k] = IF off + k <= b.length THEN before[b.file][b.offset + (off + k)] ELSE 0
                           /\ read[k] \in Values
  BY <1>4, <1>9, <1>10, ReadIs
<1>12. \A k \in 1 .. size : /\ due[k] = IF 0 + k <= b.length THEN before[b.file][b.offset + (0 + k)] ELSE 0
                            /\ due[k] \in Values
  BY <1>4, <1>8, <1>10, ReadIs
<1>13. \A k \in 1 .. len : read[k] = due[off + k] /\ due[off + k] \in Values
  <2> TAKE k \in 1 .. len
  <2>1. PICK j \in 1 .. size : j = off + k
    BY <1>10
  <2>2. 0 + j = j
    OBVIOUS
  <2>3. due[j] = (IF j <= b.length THEN before[b.file][b.offset + j] ELSE 0) /\ due[j] \in Values
    BY <1>12, <2>2
  <2> QED BY <1>11, <2>1, <2>3
<1>14. DOMAIN read = 1 .. len
  BY <1>7 DEF ReadData
<1>15. AsValues(read) = [k \in 1 .. len |-> read[k]]
  BY <1>11, <1>14 DEF AsValues
<1>16. AsValues(read) \in Blocks(len) /\ \A k \in 1 .. len : AsValues(read)[k] = read[k]
  BY <1>11, <1>15 DEF Blocks
<1> QED BY <1>1, <1>6, <1>7, <1>8, <1>13, <1>16

\* The recovery packets that were laid out, in the order of their exponents.
LEMMA RecoveryItemsAre ==
    ASSUME Whole(creator.items), creator.firstblock \in Nat, creator.recoveryblockcount \in Nat,
           Ordered(PacketList(creator.items), creator.firstblock, creator.firstblock + creator.recoveryblockcount)
    PROVE  /\ IsList(RecoveryItems) /\ Len(RecoveryItems) = creator.recoveryblockcount
           /\ \A i \in 1 .. creator.recoveryblockcount :
                /\ RecoveryItems[i] \in ToSet(creator.items) /\ IsRecovery(RecoveryItems[i].packet)
                /\ RecoveryItems[i].packet = RecoveryHeader(creator.firstblock + i - 1)
           /\ \A x \in ToSet(creator.items) :
                IsRecovery(x.packet) => \E i \in 1 .. creator.recoveryblockcount : RecoveryItems[i] = x
<1>1. PICK count \in Nat : count = creator.recoveryblockcount
  OBVIOUS
<1>2. PICK first \in Nat : first = creator.firstblock
  OBVIOUS
<1>3. PICK items : items = RecoveryItems
  OBVIOUS
<1>4. PICK all : all = creator.items
  OBVIOUS
<1>5. items = ItemsOf(all, TRUE) /\ Whole(all) /\ TRUE \in BOOLEAN
  BY <1>3, <1>4 DEF RecoveryItems
<1>6. PICK hi \in Int : hi = first + count
  OBVIOUS
<1>7. Ordered(PacketList(all), first, hi) /\ first \in Int /\ hi - first = count
  BY <1>1, <1>2, <1>4, <1>6
<1>8. /\ IsList(items) /\ \A i \in 1 .. Len(items) : items[i] \in ToSet(all) /\ IsRecovery(items[i].packet) = TRUE
      /\ \A x \in ToSet(all) : IsRecovery(x.packet) = TRUE => Occurs(x, items)
      /\ \A lo, hi2 \in Int : Ordered(PacketList(all), lo, hi2) /\ TRUE =>
           Len(items) = hi2 - lo /\ \A i \in 1 .. hi2 - lo : items[i].packet = RecoveryHeader(lo + i - 1)
  BY <1>5, ItemsOfAre
<1>9. Len(items) = count /\ \A i \in 1 .. count : items[i].packet = RecoveryHeader(first + i - 1)
  BY <1>7, <1>8
<1>10. \A i \in 1 .. count : items[i] \in ToSet(all) /\ IsRecovery(items[i].packet)
  BY <1>8, <1>9
<1>11. \A x \in ToSet(all) : IsRecovery(x.packet) => \E i \in 1 .. count : items[i] = x
  <2> TAKE x \in ToSet(all)
  <2> SUFFICES ASSUME IsRecovery(x.packet) PROVE \E i \in 1 .. count : items[i] = x
    OBVIOUS
  <2>1. IsRecovery(x.packet) = TRUE
    <3>1. x.packet \in Int /\ Count \in Nat
      BY <1>5, CountIsPower DEF Whole, ToSet
    <3> QED BY <3>1 DEF IsRecovery, RecoveryHeader
  <2> QED BY <1>8, <1>9, <2>1 DEF Occurs
<1> QED BY <1>1, <1>2, <1>3, <1>4, <1>8, <1>9, <1>10, <1>11

\* par2creator.cpp:1500-1625.  A chunk of every recovery block is the chunk that is due.
LEMMA ChunkWrites ==
    ASSUME CutUp, Separate, Intact, Amounts, creator.recoveryblockcount > 0, Whole(creator.items),
           Ordered(PacketList(creator.items), creator.firstblock, creator.firstblock + creator.recoveryblockcount)
    PROVE  /\ IsList(RecoveryWrites) /\ DOMAIN RecoveryWrites = 1 .. creator.recoveryblockcount
           /\ \A i \in 1 .. creator.recoveryblockcount :
                /\ RecoveryItems[i] \in ToSet(creator.items)
                /\ RecoveryItems[i].packet = RecoveryHeader(creator.firstblock + i - 1)
                /\ RecoveryWrites[i][1] = DataBlock(RecoveryItems[i])
                /\ RecoveryWrites[i][2] = creator.blockoffset
                /\ Len(RecoveryWrites[i][3]) = ChunkLength(creator)
                /\ \A k \in 1 .. ChunkLength(creator) :
                     RecoveryWrites[i][3][k] = Due(creator.firstblock + i - 1)[creator.blockoffset + k]
<1>1. PICK n \in Nat : n = Len(creator.blocks) /\ n = creator.sourceblockcount /\ n <= Half /\ DOMAIN creator.blocks = 1 .. n
  BY ListFacts DEF CutUp
<1>2. PICK len \in Nat : len = ChunkLength(creator) /\ creator.blockoffset + len <= creator.blocksize
  BY ChunkIs
<1>3. PICK off \in Nat : off = creator.blockoffset
  BY DEF Amounts
<1>4. PICK size \in Nat : size = creator.blocksize
  BY DEF Amounts
<1>5. PICK count \in Nat \ {0} : count = creator.recoveryblockcount
  BY DEF Amounts
<1>6. PICK first \in Nat : first = creator.firstblock /\ first + count - 1 <= Limit
  <2>1. Count \in Nat
    BY CountIsPower
  <2> QED BY <1>5, <2>1 DEF Amounts, Limit
<1>7. PICK base : base = Bases16(n)
  OBVIOUS
<1>8. base \in [1 .. n -> Values]
  BY <1>1, <1>7, BasesAre
<1>9. PICK inputs : inputs = [i \in DOMAIN creator.blocks |-> AsValues(ReadData(disk, creator.blocks[i], off, len))]
  OBVIOUS
<1>10. \A i \in 1 .. n : inputs[i] = AsValues(ReadData(disk, creator.blocks[i], off, len))
  BY <1>1, <1>9
<1> DEFINE due(i) == ReadData(before, creator.blocks[i], 0, creator.blocksize)
<1>11. ASSUME NEW i \in 1 .. n
       PROVE  /\ inputs[i] \in Blocks(len) /\ \A k \in 1 .. len : inputs[i][k] = due(i)[off + k] /\ due(i)[off + k] \in Values
  <2>1. off + len <= creator.blocksize /\ creator.blocksize \in Nat /\ i \in 1 .. Len(creator.blocks)
    BY <1>1, <1>2, <1>3, <1>4
  <2>2. /\ AsValues(ReadData(disk, creator.blocks[i], off, len)) \in Blocks(len)
        /\ \A k \in 1 .. len : /\ AsValues(ReadData(disk, creator.blocks[i], off, len))[k] = due(i)[off + k]
                               /\ due(i)[off + k] \in Values
    BY <2>1, InputsAre
  <2>3. inputs[i] = AsValues(ReadData(disk, creator.blocks[i], off, len))
    BY <1>10
  <2> QED BY <2>2, <2>3
<1>12. inputs \in [1 .. n -> Blocks(len)] /\ Len(inputs) = n
  <2>1. inputs = [i \in 1 .. n |-> inputs[i]]
    BY <1>1, <1>9
  <2>2. \A i \in 1 .. n : inputs[i] \in Blocks(len)
    BY <1>11
  <2>3. inputs \in [1 .. n -> Blocks(len)]
    BY <2>1, <2>2
  <2>4. Len(inputs) = n
    BY <2>3, LenProperties
  <2> QED BY <2>3, <2>4
<1>13. PICK matrix : matrix = Compute(base, [i \in 1 .. n |-> TRUE], [i \in 1 .. count |-> OutputRow(FALSE, first + i - 1)])
  OBVIOUS
<1>14. matrix = ComputeRSMatrix
  BY <1>1, <1>5, <1>6, <1>7, <1>13 DEF ComputeRSMatrix
<1>15. PICK outputs : outputs = Outputs(matrix, inputs, len)
  OBVIOUS
<1>16. outputs = [i \in 1 .. count |-> Recovery(base, inputs, first + i - 1, len)]
  <2>1. Encoding(n, len, base, inputs, count, first)
    BY <1>6, <1>8, <1>12 DEF Encoding
  <2>2. Outputs(EncodingMatrix(n, base, count, first), inputs, len) = RecoveryBlocks(base, inputs, count, first, len)
    BY ONLY <2>1, EncodingIs
  <2>3. matrix = EncodingMatrix(n, base, count, first)
    BY <1>13 DEF EncodingMatrix
  <2> QED BY ONLY <1>15, <2>2, <2>3 DEF RecoveryBlocks
<1>17. PICK items : items = RecoveryItems
  OBVIOUS
<1>18. /\ IsList(items) /\ Len(items) = count
       /\ \A i \in 1 .. count : items[i] \in ToSet(creator.items) /\ items[i].packet = RecoveryHeader(first + i - 1)
  <2>1. creator.firstblock \in Nat /\ creator.recoveryblockcount \in Nat
    BY DEF Amounts
  <2> QED BY <1>5, <1>6, <1>17, <2>1, RecoveryItemsAre
<1>19. DOMAIN items = 1 .. count
  BY <1>18, ListFacts
<1>20. PICK writes : writes = RecoveryWrites
  OBVIOUS
<1>21. writes = [i \in 1 .. count |-> <<DataBlock(items[i]), off, outputs[i]>>]
  BY <1>2, <1>3, <1>9, <1>14, <1>15, <1>17, <1>19, <1>20 DEF RecoveryWrites
<1>22. writes = [i \in 1 .. count |-> writes[i]]
       /\ \A i \in 1 .. count : writes[i][1] = DataBlock(items[i]) /\ writes[i][2] = off /\ writes[i][3] = outputs[i]
  BY <1>21
<1>23. IsList(writes) /\ DOMAIN writes = 1 .. count
  BY <1>22, ListOf
<1>24. ASSUME NEW i \in 1 .. count
       PROVE  Len(outputs[i]) = len /\ \A k \in 1 .. len : outputs[i][k] = Due(first + i - 1)[off + k]
  <2>1. PICK e \in Nat : e = first + i - 1 /\ e \in 0 .. Limit
    <3>1. Limit \in Int
      BY CountIsPower DEF Limit
    <3> QED BY <1>6, <3>1
  <2>2. outputs[i] = Recovery(base, inputs, e, len)
    BY <1>16, <2>1
  <2>3. outputs[i] = [k \in 1 .. len |->
                        FieldSum([j \in 1 .. n |-> Times(Power(base[j], e), inputs[j][k])], n)]
    BY <1>12, <2>2 DEF Recovery
  <2>4. Len(outputs[i]) = len
    <3>1. PICK s : s = outputs[i]
      OBVIOUS
    <3>2. s = [k \in 1 .. len |-> s[k]]
      BY <2>3, <3>1
    <3> QED BY <3>1, <3>2, ListOf
  <2>5. ASSUME NEW k \in 1 .. len PROVE outputs[i][k] = Due(e)[off + k]
    <3>1. PICK t : t = [j \in 1 .. n |-> Times(Power(base[j], e), inputs[j][k])]
      OBVIOUS
    <3>2. PICK p \in 1 .. creator.blocksize : p = off + k
      BY <1>2, <1>3, <1>4
    <3>3. PICK u : u = DueTerms(e, p)
      OBVIOUS
    <3>4. \A j \in 1 .. n : t[j] = Times(Power(base[j], e), inputs[j][k])
      BY <3>1
    <3>5. \A j \in 1 .. n : u[j] = Times(Power(base[j], e), due(j)[p])
      BY <1>1, <1>7, <3>3 DEF DueTerms
    <3>6. \A j \in 1 .. n : u[j] = t[j]
      BY <1>11, <3>2, <3>4, <3>5
    <3>7. Terms(t, n)
      <4> SUFFICES ASSUME NEW j \in 1 .. n PROVE t[j] \in Values
        BY DEF Terms
      <4>1. base[j] \in Values /\ inputs[j][k] \in Values
        BY <1>8, <1>11 DEF Blocks
      <4>2. Power(base[j], e) \in Values
        BY <2>1, <4>1, PowerOf
      <4> QED BY <3>4, <4>1, <4>2, TimesIs
    <3>8. FieldSum(u, n) = FieldSum(t, n)
      BY <3>6, <3>7, SumSame
    <3>9. Due(e)[p] = FieldSum(u, n)
      BY <1>1, <3>3, DueIs
    <3> QED BY <2>3, <3>1, <3>2, <3>8, <3>9
  <2> QED BY <2>1, <2>4, <2>5
<1>25. \A i \in 1 .. count : Len(writes[i][3]) = len /\ \A k \in 1 .. len : writes[i][3][k] = Due(first + i - 1)[off + k]
  <2> TAKE i \in 1 .. count
  <2>1. writes[i][3] = outputs[i]
    BY <1>22
  <2> QED BY <1>24, <2>1
<1> QED BY <1>2, <1>3, <1>5, <1>6, <1>17, <1>18, <1>20, <1>22, <1>23, <1>25

\* As much of the data as has been written is what is due.
DataUpTo(items, d, upto) ==
    \A x \in ToSet(items) : IsRecovery(x.packet) =>
      \A k \in 1 .. upto : d[x.file][x.offset + 1 + k] = Due(x.packet - RecoveryHeader(0))[k]
LEMMA DataWritten ==
    ASSUME CutUp, Separate, Intact, Amounts, creator.recoveryblockcount > 0, Whole(creator.items),
           Ordered(PacketList(creator.items), creator.firstblock, creator.firstblock + creator.recoveryblockcount),
           Occupied(creator.items, FilesMade, disk), DataUpTo(creator.items, disk, creator.blockoffset),
           NEW e, e = AllWrites(disk, RecoveryWrites)
    PROVE  /\ DOMAIN e = DOMAIN disk
           /\ \A name \in DOMAIN disk :
                DOMAIN e[name] = DOMAIN disk[name] /\ (name \notin FilesMade => e[name] = disk[name])
           /\ DataUpTo(creator.items, e, creator.blockoffset + ChunkLength(creator))
<1>1. PICK n \in Nat : n = creator.recoveryblockcount
  BY DEF Amounts
<1>2. PICK len \in Nat : len = ChunkLength(creator) /\ creator.blockoffset + len <= creator.blocksize
  BY ChunkIs
<1>3. PICK off \in Nat : off = creator.blockoffset
  BY DEF Amounts
<1>4. PICK size \in Nat : size = creator.blocksize /\ size > 0 /\ off + len <= size
  BY <1>2, <1>3 DEF Amounts
<1>5. PICK first \in Nat : first = creator.firstblock
  BY DEF Amounts
<1>6. PICK items : items = creator.items
  OBVIOUS
<1>7. PICK l : l = RecoveryItems
  OBVIOUS
<1>8. PICK writes : writes = RecoveryWrites
  OBVIOUS
<1>9. /\ IsList(writes) /\ DOMAIN writes = 1 .. n
      /\ \A i \in 1 .. n :
           /\ l[i] \in ToSet(items) /\ l[i].packet = RecoveryHeader(first + i - 1)
           /\ writes[i][1] = DataBlock(l[i]) /\ writes[i][2] = off /\ Len(writes[i][3]) = len
           /\ \A k \in 1 .. len : writes[i][3][k] = Due(first + i - 1)[off + k]
  BY <1>1, <1>2, <1>3, <1>5, <1>6, <1>7, <1>8, ChunkWrites
<1>10. /\ \A i \in 1 .. n : IsRecovery(l[i].packet)
       /\ \A x \in ToSet(items) : IsRecovery(x.packet) => \E i \in 1 .. n : l[i] = x
  <2>1. creator.firstblock \in Nat /\ creator.recoveryblockcount \in Nat
    BY DEF Amounts
  <2> QED BY <1>1, <1>6, <1>7, <2>1, RecoveryItemsAre
<1>11. \A x \in ToSet(items) : x.offset \in Nat /\ x.file # NoName /\ x.file \in DOMAIN disk /\ x.file \in FilesMade
                               /\ Extent(x) \subseteq DOMAIN disk[x.file]
  BY <1>6 DEF Occupied
<1>12. \A x \in ToSet(items) : IsRecovery(x.packet) =>
         Extent(x) = x.offset + 1 .. x.offset + 1 + size
  BY <1>4, <1>11, FirstCell
<1>13. ASSUME NEW i \in 1 .. n
       PROVE  /\ \A name, p : Touches(writes[i], name, p)
                    <=> name = l[i].file /\ p \in l[i].offset + 1 + off + 1 .. l[i].offset + 1 + off + len
              /\ writes[i][1].file = l[i].file /\ writes[i][1].offset = l[i].offset + 1
  <2>1. PICK o \in Nat : o = l[i].offset
    BY <1>9, <1>11
  <2>2. l[i].file # NoName
    BY <1>9, <1>11
  <2>3. /\ writes[i][1].file = l[i].file /\ writes[i][1].offset = o + 1 /\ writes[i][1].length = size
        /\ writes[i][2] = off /\ Len(writes[i][3]) = len
    <3>1. writes[i][1] = Block(l[i].file, o + 1, size)
      BY <1>4, <1>9, <2>1 DEF DataBlock
    <3> QED BY <1>9, <3>1 DEF Block
  <2>4. Within(writes[i][1], off, len) = len
    BY <1>4, <2>3 DEF Within
  <2>5. WriteData(writes[i]) = (o + 1) + off + 1 .. (o + 1) + off + len
    BY <2>3, <2>4 DEF WriteData
  <2> QED BY <2>1, <2>2, <2>3, <2>5 DEF Touches, IsSet
<1>14. /\ DOMAIN e = DOMAIN disk
       /\ \A name \in DOMAIN disk :
            /\ DOMAIN e[name] = DOMAIN disk[name]
            /\ (\A i \in 1 .. n : writes[i][1].file # name) => e[name] = disk[name]
            /\ \A p \in DOMAIN disk[name] :
                 \/ e[name][p] = disk[name][p] /\ Untouched(writes, name, p)
                 \/ Touched(writes, name, p, e)
  BY <1>8, <1>9, WritesAre
<1>15. ASSUME NEW name \in DOMAIN disk, name \notin FilesMade PROVE e[name] = disk[name]
  <2>1. \A i \in 1 .. n : writes[i][1].file # name
    BY <1>9, <1>11, <1>13, <1>15
  <2> QED BY <1>14, <2>1
<1>16. ASSUME NEW x \in ToSet(items), IsRecovery(x.packet), NEW k \in 1 .. off + len
       PROVE  e[x.file][x.offset + 1 + k] = Due(x.packet - RecoveryHeader(0))[k]
  <2>1. PICK o \in Nat : o = x.offset
    BY <1>11
  <2>2. PICK p \in Nat : p = o + 1 + k
    OBVIOUS
  <2>3. p \in Extent(x)
    BY <1>4, <1>12, <1>16, <2>1, <2>2
  <2>4. x.file \in DOMAIN disk /\ p \in DOMAIN disk[x.file]
    BY <1>11, <2>3
  <2>5. CASE Touched(writes, x.file, p, e)
    <3>1. PICK i \in 1 .. n : Touches(writes[i], x.file, p) /\ e[x.file][p] = CellOf(writes[i], p)
      BY <1>9, <2>5 DEF Touched
    <3>2. PICK y \in ToSet(items) : y = l[i]
      BY <1>9
    <3>3. PICK q \in Nat : q = y.offset
      BY <1>11
    <3>4. y.file = x.file /\ p \in q + 1 + off + 1 .. q + 1 + off + len
      BY <1>13, <3>1, <3>2, <3>3
    <3>5. IsRecovery(y.packet)
      BY <1>10, <3>2
    <3>6. Extent(y) = q + 1 .. q + 1 + size
      BY <1>12, <3>3, <3>5
    <3>7. p \in Extent(y)
      BY <1>4, <3>4, <3>6
    <3>8. x = y \/ Extent(x) \cap Extent(y) = {}
      BY <1>6, <3>4 DEF Occupied
    <3>9. x = y
      BY <2>3, <3>7, <3>8
    <3>10. q = o /\ k \in off + 1 .. off + len
      BY <2>1, <2>2, <3>3, <3>4, <3>9
    <3>11. PICK j \in 1 .. len : k = off + j
      <4>1. k - off \in 1 .. len /\ k = off + (k - off)
        BY <3>10
      <4> QED BY <4>1
    <3>12. CellOf(writes[i], p) = writes[i][3][j]
      <4>1. writes[i][1].offset = o + 1 /\ writes[i][2] = off
        BY <1>9, <1>13, <3>2, <3>3, <3>10
      <4>2. p - (o + 1 + off) = j
        BY <2>2, <3>11
      <4> QED BY <4>1, <4>2 DEF CellOf
    <3>13. writes[i][3][j] = Due(first + i - 1)[off + j]
      BY <1>9
    <3>14. x.packet - RecoveryHeader(0) = first + i - 1
      <4>1. Count \in Nat
        BY CountIsPower
      <4>2. x.packet = RecoveryHeader(first + i - 1)
        BY <1>9, <3>2, <3>9
      <4> QED BY <4>1, <4>2 DEF RecoveryHeader
    <3> QED BY <2>1, <2>2, <3>1, <3>11, <3>12, <3>13, <3>14
  <2>6. CASE e[x.file][p] = disk[x.file][p] /\ Untouched(writes, x.file, p)
    <3>1. k <= off
      <4> SUFFICES ASSUME k > off PROVE FALSE
        OBVIOUS
      <4>1. PICK i \in 1 .. n : l[i] = x
        BY <1>10, <1>16
      <4>2. p \in o + 1 + off + 1 .. o + 1 + off + len
        BY <2>2
      <4>3. Touches(writes[i], x.file, p)
        BY <1>13, <2>1, <4>1, <4>2
      <4> QED BY <1>9, <2>6, <4>3 DEF Untouched
    <3>2. k \in 1 .. off
      BY <3>1
    <3>3. disk[x.file][x.offset + 1 + k] = Due(x.packet - RecoveryHeader(0))[k]
      BY <1>3, <1>6, <1>16, <3>2 DEF DataUpTo
    <3> QED BY <2>1, <2>2, <2>6, <3>3
  <2> QED BY <1>14, <2>4, <2>5, <2>6
<1>17. DataUpTo(items, e, off + len)
  BY <1>16 DEF DataUpTo
<1> QED BY <1>2, <1>3, <1>6, <1>14, <1>15, <1>17

-----------------------------------------------------------------------------
(* When all has been written *)

PacketsIn(items, d, which) ==
    \A x \in ToSet(items) : IsRecovery(x.packet) = which => d[x.file][x.offset + 1] = x.packet
Held(items) ==
    \A name \in FilesMade : \A c \in ToSet(creator.criticals) : \E x \in ToSet(items) : x.file = name /\ x.packet = c
Recorded ==
    /\ Negative(creator.criticals) /\ Len(creator.criticals) > 0
    /\ ~creator.concurrent =>
         ToSet(creator.criticals) =
           {MainPacket} \cup UNION {ToSet(PacketsOf(n)) : n \in ToSet(creator.sources)}

LEMMA DueValues ==
    ASSUME CutUp, Separate, creator.blocksize \in Nat, NEW e \in 0 .. Limit
    PROVE  /\ \A p \in 1 .. creator.blocksize : Due(e)[p] \in Values
           /\ Due(e) = [p \in 1 .. creator.blocksize |-> Due(e)[p]]
<1>1. PICK n \in Nat : n = Len(creator.blocks) /\ n <= Half /\ DOMAIN creator.blocks = 1 .. n
  BY ListFacts DEF CutUp
<1>2. PICK size \in Nat : size = creator.blocksize
  OBVIOUS
<1>3. PICK base : base = Bases16(n)
  OBVIOUS
<1>4. base \in [1 .. n -> Values]
  BY <1>1, <1>3, BasesAre
<1>5. ASSUME NEW p \in 1 .. size PROVE Due(e)[p] \in Values
  <2>1. PICK u : u = DueTerms(e, p)
    OBVIOUS
  <2>2. \A j \in 1 .. n : u[j] = Times(Power(base[j], e), ReadData(before, creator.blocks[j], 0, size)[p])
    BY <1>1, <1>2, <1>3, <2>1 DEF DueTerms
  <2>3. Terms(u, n)
    <3> SUFFICES ASSUME NEW j \in 1 .. n PROVE u[j] \in Values
      BY DEF Terms
    <3>1. PICK b : b = creator.blocks[j]
      OBVIOUS
    <3>2. b \in ToSet(creator.blocks)
      BY <1>1, <3>1 DEF ToSet
    <3>3. b.file \in ToSet(creator.sources) /\ InsideOf(b, before, size)
      BY <1>2, <3>2 DEF CutUp
    <3>4. \A k \in DOMAIN before[b.file] : before[b.file][k] \in Values
      BY <3>3 DEF Separate
    <3>5. 0 \in Nat /\ 0 + size <= size
      OBVIOUS
    <3>6. ReadData(before, b, 0, size)[p] \in Values
      BY <3>3, <3>4, <3>5, ReadIs
    <3>7. base[j] \in Values
      BY <1>4
    <3>8. Power(base[j], e) \in Values
      BY <3>7, PowerOf
    <3> QED BY <2>2, <3>1, <3>6, <3>8, TimesIs
  <2>4. FieldSum(u, n) \in Values
    BY <2>3, SumsAre
  <2>5. Due(e)[p] = FieldSum(u, n)
    BY <1>1, <1>2, <2>1, DueIs
  <2> QED BY <2>4, <2>5
<1>6. Due(e) = [p \in 1 .. size |-> Due(e)[p]]
  <2>1. \E f : Due(e) = [p \in 1 .. size |-> f[p]]
    <3> DEFINE g == [p \in 1 .. size |-> FieldSum(DueTerms(e, p), Len(creator.blocks))]
    <3>1. Due(e) = [p \in 1 .. size |-> g[p]]
      BY <1>2 DEF Due, FieldSum, PartialSums, SumsBody, DueTerms
    <3> QED BY <3>1
  <2>2. PICK f : Due(e) = [p \in 1 .. size |-> f[p]]
    BY <2>1
  <2>3. PICK h : h = Due(e)
    OBVIOUS
  <2>4. h = [p \in 1 .. size |-> h[p]]
    BY <2>2, <2>3
  <2> QED BY <2>3, <2>4
<1> QED BY <1>2, <1>5, <1>6

\* Each recovery packet is there, once, with its data behind it.
Complete(items, d) ==
    /\ Whole(items) /\ Occupied(items, FilesMade, d)
    /\ Ordered(PacketList(items), creator.firstblock, creator.firstblock + creator.recoveryblockcount)
    /\ DataUpTo(items, d, creator.blocksize) /\ PacketsIn(items, d, TRUE) /\ PacketsIn(items, d, FALSE)
LEMMA CellsAre ==
    ASSUME CutUp, Separate, Amounts, Complete(creator.items, disk), NEW x \in ToSet(creator.items)
    PROVE  /\ x.file \in FilesMade /\ x.file \in DOMAIN disk /\ Extent(x) \subseteq DOMAIN disk[x.file]
           /\ x.offset + 1 \in Extent(x) /\ x.packet \in Int /\ x.offset \in Nat
           /\ disk[x.file][x.offset + 1] = x.packet
           /\ IsRecovery(x.packet) =>
                /\ x.packet - RecoveryHeader(0) \in 0 .. Limit
                /\ Extent(x) = x.offset + 1 .. x.offset + 1 + creator.blocksize
                /\ \A k \in 1 .. creator.blocksize :
                     /\ disk[x.file][x.offset + 1 + k] = Due(x.packet - RecoveryHeader(0))[k]
                     /\ disk[x.file][x.offset + 1 + k] \in Values
           /\ ~IsRecovery(x.packet) => Extent(x) = {x.offset + 1}
<1>1. /\ x.offset \in Nat /\ x.file \in DOMAIN disk /\ x.file \in FilesMade /\ Extent(x) \subseteq DOMAIN disk[x.file]
  BY DEF Complete, Occupied
<1>2. x.packet \in Int
  BY DEF Complete, Whole, ToSet
<1>3. creator.blocksize \in Nat /\ creator.firstblock \in Nat /\ creator.recoveryblockcount \in Nat
      /\ creator.firstblock + creator.recoveryblockcount <= Count
  BY DEF Amounts
<1>4. /\ x.offset + 1 \in Extent(x)
      /\ IsRecovery(x.packet) => Extent(x) = x.offset + 1 .. x.offset + 1 + creator.blocksize
      /\ ~IsRecovery(x.packet) => Extent(x) = {x.offset + 1}
  BY <1>1, <1>3, FirstCell
<1>5. Count \in Nat
  BY CountIsPower
<1>6. IsRecovery(x.packet) \in BOOLEAN
  BY <1>2, <1>5 DEF IsRecovery, RecoveryHeader
<1>7. disk[x.file][x.offset + 1] = x.packet
  BY <1>6 DEF Complete, PacketsIn
<1>8. ASSUME IsRecovery(x.packet)
      PROVE  /\ x.packet - RecoveryHeader(0) \in 0 .. Limit
             /\ \A k \in 1 .. creator.blocksize :
                  /\ disk[x.file][x.offset + 1 + k] = Due(x.packet - RecoveryHeader(0))[k]
                  /\ disk[x.file][x.offset + 1 + k] \in Values
  <2>1. Whole(creator.items)
        /\ Ordered(PacketList(creator.items), creator.firstblock, creator.firstblock + creator.recoveryblockcount)
    BY DEF Complete
  <2>2. PICK i \in 1 .. creator.recoveryblockcount : RecoveryItems[i] = x
    BY <1>3, <1>8, <2>1, RecoveryItemsAre
  <2>3. x.packet = RecoveryHeader(creator.firstblock + i - 1)
    BY <1>3, <2>1, <2>2, RecoveryItemsAre
  <2>4. PICK e \in 0 .. Limit : e = x.packet - RecoveryHeader(0)
    BY <1>3, <1>5, <2>3 DEF RecoveryHeader, Limit
  <2>5. \A k \in 1 .. creator.blocksize : Due(e)[k] \in Values
    BY <1>3, DueValues
  <2>6. \A k \in 1 .. creator.blocksize : disk[x.file][x.offset + 1 + k] = Due(e)[k]
    BY <1>8, <2>4 DEF Complete, DataUpTo
  <2> QED BY <2>4, <2>5, <2>6
<1> QED BY <1>1, <1>2, <1>4, <1>7, <1>8

\* What CreatedWhole says of a creation that has succeeded.
AsDue ==
    LET all == UNION {{<<name, k>> : k \in RecoveryIn(name)} : name \in FilesMade}
        packet(p) == disk[p[1]][p[2]]
    IN  /\ Cardinality(all) = creator.recoveryblockcount
        /\ {packet(p) : p \in all} =
             {RecoveryHeader(creator.firstblock + e) : e \in 0 .. creator.recoveryblockcount - 1}
        /\ \A p \in all : SubSeq(disk[p[1]], p[2] + 1, p[2] + creator.blocksize)
                            = Due(packet(p) - RecoveryHeader(0))
        /\ \A name \in FilesMade : Gapless(name) /\ ToSet(creator.criticals) \subseteq ToSet(disk[name])
        /\ ~creator.concurrent =>
             ToSet(creator.criticals) =
               {MainPacket} \cup UNION {ToSet(PacketsOf(n)) : n \in ToSet(creator.sources)}
LEMMA AllFound ==
    ASSUME CutUp, Separate, Amounts, Complete(creator.items, disk), Held(creator.items), Recorded
    PROVE  AsDue
<1> DEFINE all == UNION {{<<name, k>> : k \in RecoveryIn(name)} : name \in FilesMade}
           packet(p) == disk[p[1]][p[2]]
           place(x) == <<x.file, x.offset + 1>>
<1>1. PICK n \in Nat : n = creator.recoveryblockcount
  BY DEF Amounts
<1>2. PICK first \in Nat : first = creator.firstblock
  BY DEF Amounts
<1>3. PICK size \in Nat : size = creator.blocksize
  BY DEF Amounts
<1>4. PICK items : items = creator.items
  OBVIOUS
<1>5. PICK l : l = RecoveryItems
  OBVIOUS
<1>6. Count \in Nat
  BY CountIsPower
<1>7. /\ IsList(l) /\ Len(l) = n /\ DOMAIN l = 1 .. n
      /\ \A i \in 1 .. n : l[i] \in ToSet(items) /\ IsRecovery(l[i].packet) /\ l[i].packet = RecoveryHeader(first + i - 1)
      /\ \A x \in ToSet(items) : IsRecovery(x.packet) => \E i \in 1 .. n : l[i] = x
  <2>1. creator.firstblock \in Nat /\ creator.recoveryblockcount \in Nat
    BY DEF Amounts
  <2>2. Whole(creator.items)
        /\ Ordered(PacketList(creator.items), creator.firstblock, creator.firstblock + creator.recoveryblockcount)
    BY DEF Complete
  <2>3. /\ IsList(l) /\ Len(l) = n
        /\ \A i \in 1 .. n : l[i] \in ToSet(items) /\ IsRecovery(l[i].packet) /\ l[i].packet = RecoveryHeader(first + i - 1)
        /\ \A x \in ToSet(items) : IsRecovery(x.packet) => \E i \in 1 .. n : l[i] = x
    BY <1>1, <1>2, <1>4, <1>5, <2>1, <2>2, RecoveryItemsAre
  <2> QED BY <2>3, ListFacts
<1>8. \A x \in ToSet(items) :
         /\ x.file \in FilesMade /\ x.file \in DOMAIN disk /\ Extent(x) \subseteq DOMAIN disk[x.file]
         /\ x.offset + 1 \in Extent(x) /\ x.packet \in Int /\ x.offset \in Nat
         /\ disk[x.file][x.offset + 1] = x.packet
         /\ IsRecovery(x.packet) =>
              /\ x.packet - RecoveryHeader(0) \in 0 .. Limit
              /\ Extent(x) = x.offset + 1 .. x.offset + 1 + size
              /\ \A k \in 1 .. size :
                   /\ disk[x.file][x.offset + 1 + k] = Due(x.packet - RecoveryHeader(0))[k]
                   /\ disk[x.file][x.offset + 1 + k] \in Values
         /\ ~IsRecovery(x.packet) => Extent(x) = {x.offset + 1}
  BY <1>3, <1>4, CellsAre
<1>9. /\ \A x, y \in ToSet(items) : x.file = y.file => x = y \/ Extent(x) \cap Extent(y) = {}
      /\ \A name \in FilesMade : \A p \in DOMAIN disk[name] : \E x \in ToSet(items) : x.file = name /\ p \in Extent(x)
  BY <1>4 DEF Complete, Occupied
\* The headers are the cells that look like headers.
<1>10. ASSUME NEW x \in ToSet(items), NEW p \in Extent(x), p # x.offset + 1
       PROVE  IsRecovery(x.packet) /\ p \in x.offset + 1 + 1 .. x.offset + 1 + size /\ disk[x.file][p] \in Values
  <2>1. IsRecovery(x.packet) /\ Extent(x) = x.offset + 1 .. x.offset + 1 + size
    BY <1>8, <1>10
  <2>2. PICK o \in Nat : o = x.offset
    BY <1>8
  <2>3. PICK k \in 1 .. size : p = o + 1 + k
    <3>1. p - (o + 1) \in 1 .. size /\ p = o + 1 + (p - (o + 1))
      BY <1>10, <2>1, <2>2
    <3> QED BY <3>1
  <2>4. disk[x.file][p] \in Values
    BY <1>8, <2>1, <2>2, <2>3
  <2> QED BY <2>1, <2>2, <2>3, <2>4
<1>11. \A v \in Values : ~IsRecovery(v)
  BY <1>6 DEF Values, Limit, IsRecovery, RecoveryHeader
<1>12. ASSUME NEW name \in FilesMade, NEW k \in RecoveryIn(name)
       PROVE  \E i \in 1 .. n : l[i].file = name /\ k = l[i].offset + 1
  <2>1. k \in DOMAIN disk[name] /\ IsRecovery(disk[name][k])
    BY <1>12 DEF RecoveryIn
  <2>2. PICK x \in ToSet(items) : x.file = name /\ k \in Extent(x)
    BY <1>9, <2>1
  <2>3. k = x.offset + 1
    BY <1>10, <1>11, <2>1, <2>2
  <2>4. IsRecovery(x.packet)
    BY <1>8, <2>1, <2>2, <2>3
  <2> QED BY <1>7, <2>2, <2>3, <2>4
<1>13. \A i \in 1 .. n : l[i].file \in FilesMade /\ l[i].offset + 1 \in RecoveryIn(l[i].file)
  <2> TAKE i \in 1 .. n
  <2>1. l[i] \in ToSet(items) /\ IsRecovery(l[i].packet)
    BY <1>7
  <2>2. /\ l[i].file \in FilesMade /\ l[i].offset + 1 \in DOMAIN disk[l[i].file]
        /\ disk[l[i].file][l[i].offset + 1] = l[i].packet
    BY <1>8, <2>1
  <2> QED BY <2>1, <2>2 DEF RecoveryIn
<1>14. PICK places : places = [i \in 1 .. n |-> place(l[i])]
  OBVIOUS
<1>15. places = [i \in 1 .. n |-> places[i]] /\ \A i \in 1 .. n : places[i] = <<l[i].file, l[i].offset + 1>>
  BY <1>14
<1>16. IsList(places) /\ Len(places) = n /\ DOMAIN places = 1 .. n
  BY <1>15, ListOf
<1>17. ASSUME NEW i \in 1 .. n, NEW j \in 1 .. n, places[i] = places[j] PROVE i = j
  <2>1. l[i].file = l[j].file /\ l[i].offset + 1 = l[j].offset + 1
    BY <1>15, <1>17
  <2>2. l[i] \in ToSet(items) /\ l[j] \in ToSet(items)
    BY <1>7
  <2>3. disk[l[i].file][l[i].offset + 1] = l[i].packet /\ disk[l[j].file][l[j].offset + 1] = l[j].packet
    BY <1>8, <2>2
  <2>4. l[i].packet = l[j].packet
    BY <2>1, <2>3
  <2>5. Count + (first + i - 1) = Count + (first + j - 1)
    BY <1>7, <2>4 DEF RecoveryHeader
  <2> QED BY <1>6, <2>5
<1>18. all = ToSet(places)
  <2>1. ASSUME NEW p \in all PROVE p \in ToSet(places)
    <3>1. PICK name \in FilesMade : p \in {<<name, k>> : k \in RecoveryIn(name)}
      OBVIOUS
    <3>2. PICK k \in RecoveryIn(name) : p = <<name, k>>
      BY <3>1
    <3>3. PICK i \in 1 .. n : l[i].file = name /\ k = l[i].offset + 1
      BY <1>12
    <3>4. places[i] = p
      BY <1>15, <3>2, <3>3
    <3> QED BY <1>16, <3>4 DEF ToSet
  <2>2. ASSUME NEW p \in ToSet(places) PROVE p \in all
    <3>1. PICK i \in 1 .. n : p = places[i]
      BY <1>16 DEF ToSet
    <3>2. PICK name \in FilesMade : name = l[i].file
      BY <1>13
    <3>3. PICK k \in RecoveryIn(name) : k = l[i].offset + 1
      BY <1>13, <3>2
    <3>4. p = <<name, k>>
      BY <1>15, <3>1, <3>2, <3>3
    <3> QED BY <3>4
  <2> QED BY <2>1, <2>2
<1>19. Cardinality(all) = n
  <2>1. Once(places)
    BY <1>16, <1>17 DEF Once
  <2>2. Cardinality(ToSet(places)) = n
    BY <1>16, <2>1, OnceIs
  <2> QED BY <1>18, <2>2
<1>20. \A p \in all : \E i \in 1 .. n : /\ p[1] = l[i].file /\ p[2] = l[i].offset + 1 /\ packet(p) = l[i].packet
  <2> HIDE DEF all
  <2> TAKE p \in all
  <2>1. PICK i \in 1 .. n : p = places[i]
    BY <1>16, <1>18 DEF ToSet
  <2>2. p[1] = l[i].file /\ p[2] = l[i].offset + 1
    BY <1>15, <2>1
  <2>3. disk[l[i].file][l[i].offset + 1] = l[i].packet
    BY <1>7, <1>8
  <2> QED BY <2>2, <2>3
<1>21. {packet(p) : p \in all} = {RecoveryHeader(creator.firstblock + e) : e \in 0 .. creator.recoveryblockcount - 1}
  <2> HIDE DEF all
  <2>1. ASSUME NEW p \in all PROVE \E e \in 0 .. n - 1 : packet(p) = RecoveryHeader(first + e)
    <3>1. PICK i \in 1 .. n : packet(p) = l[i].packet
      BY <1>20
    <3>2. i - 1 \in 0 .. n - 1 /\ first + (i - 1) = first + i - 1
      OBVIOUS
    <3>3. packet(p) = RecoveryHeader(first + (i - 1))
      BY <1>7, <3>1, <3>2
    <3> QED BY <3>2, <3>3
  <2>2. ASSUME NEW e \in 0 .. n - 1 PROVE \E p \in all : packet(p) = RecoveryHeader(first + e)
    <3>1. PICK i \in 1 .. n : i = e + 1
      OBVIOUS
    <3>2. places[i] \in all
      BY <1>16, <1>18 DEF ToSet
    <3>3. places[i][1] = l[i].file /\ places[i][2] = l[i].offset + 1
      BY <1>15
    <3>4. disk[l[i].file][l[i].offset + 1] = l[i].packet
      BY <1>7, <1>8
    <3>5. first + i - 1 = first + e
      BY <3>1
    <3>6. packet(places[i]) = RecoveryHeader(first + e)
      BY <1>7, <3>3, <3>4, <3>5
    <3> QED BY <3>2, <3>6
  <2> QED BY <1>1, <1>2, <2>1, <2>2
<1>22. ASSUME NEW p \in all
       PROVE  SubSeq(disk[p[1]], p[2] + 1, p[2] + creator.blocksize) = Due(packet(p) - RecoveryHeader(0))
  <2> HIDE DEF all
  <2>1. PICK i \in 1 .. n : p[1] = l[i].file /\ p[2] = l[i].offset + 1 /\ packet(p) = l[i].packet
    BY <1>20
  <2>2. PICK x \in ToSet(items) : x = l[i] /\ IsRecovery(x.packet)
    BY <1>7
  <2>3. PICK e \in 0 .. Limit : e = x.packet - RecoveryHeader(0)
    BY <1>8, <2>2
  <2>4. PICK h \in Nat : h = x.offset + 1
    BY <1>8
  <2>5. \A k \in 1 .. size : disk[x.file][h + k] = Due(e)[k]
    BY <1>8, <2>2, <2>3, <2>4
  <2>6. Due(e) = [k \in 1 .. size |-> Due(e)[k]]
    BY <1>3, DueValues
  <2>7. SubSeq(disk[x.file], h + 1, h + size) = [k \in 1 .. size |-> disk[x.file][h + k]]
    <3>1. SubSeq(disk[x.file], h + 1, h + size) = [k \in 1 .. 1 + (h + size) - (h + 1) |-> disk[x.file][k + (h + 1) - 1]]
      BY DEF SubSeq
    <3>2. 1 + (h + size) - (h + 1) = size /\ \A k \in 1 .. size : k + (h + 1) - 1 = h + k
      OBVIOUS
    <3> QED BY <3>1, <3>2
  <2>8. SubSeq(disk[x.file], h + 1, h + size) = Due(e)
    BY <2>5, <2>6, <2>7
  <2> QED BY <1>3, <2>1, <2>2, <2>3, <2>4, <2>8
<1>23. ASSUME NEW name \in FilesMade PROVE Gapless(name)
  <2> SUFFICES ASSUME NEW k \in DOMAIN disk[name], disk[name][k] \in Values
               PROVE  \E h \in RecoveryIn(name) : k \in h + 1 .. h + creator.blocksize
    BY DEF Gapless
  <2>1. PICK x \in ToSet(items) : x.file = name /\ k \in Extent(x)
    BY <1>9
  <2>2. k # x.offset + 1
    <3> SUFFICES ASSUME k = x.offset + 1 PROVE FALSE
      OBVIOUS
    <3>1. x.packet \in Values
      BY <1>8, <2>1
    <3>2. ~IsRecovery(x.packet)
      BY <1>11, <3>1
    <3>3. \E i \in DOMAIN items : items[i] = x
      BY DEF ToSet
    <3>4. x.packet < 0
      <4>1. PICK i \in DOMAIN items : items[i] = x
        BY <3>3
      <4>2. PICK m \in Nat : m = Len(items) /\ DOMAIN items = 1 .. m
        BY <1>4, ListFacts DEF Complete, Whole
      <4>3. PICK q : q = PacketList(items)
        OBVIOUS
      <4>4. q \in Seq(Int) /\ q = [j \in 1 .. m |-> items[j].packet]
        BY <1>4, <4>2, <4>3 DEF Complete, Ordered, PacketList
      <4>5. Len(q) = m
        BY <4>4, LenProperties
      <4>6. PICK r : Ranks(r, q, first, first + n)
        BY <1>1, <1>2, <1>4, <4>3 DEF Complete, Ordered
      <4>7. q[i] = x.packet
        BY <4>1, <4>2, <4>4
      <4> QED BY <3>2, <4>2, <4>5, <4>6, <4>7 DEF Ranks
    <3> QED BY <1>6, <3>1, <3>4 DEF Values, Limit
  <2>3. IsRecovery(x.packet) /\ k \in x.offset + 1 + 1 .. x.offset + 1 + size
    BY <1>10, <2>1, <2>2
  <2>4. x.offset + 1 \in RecoveryIn(name)
    BY <1>8, <2>1, <2>3 DEF RecoveryIn
  <2> QED BY <1>3, <2>3, <2>4
<1>24. ASSUME NEW name \in FilesMade PROVE ToSet(creator.criticals) \subseteq ToSet(disk[name])
  <2> SUFFICES ASSUME NEW c \in ToSet(creator.criticals) PROVE c \in ToSet(disk[name])
    OBVIOUS
  <2>1. PICK x \in ToSet(items) : x.file = name /\ x.packet = c
    BY <1>4 DEF Held
  <2>2. x.offset + 1 \in DOMAIN disk[name] /\ disk[name][x.offset + 1] = c
    BY <1>8, <2>1
  <2> QED BY <2>2 DEF ToSet
<1>25. ~creator.concurrent =>
         ToSet(creator.criticals) = {MainPacket} \cup UNION {ToSet(PacketsOf(m)) : m \in ToSet(creator.sources)}
  BY DEF Recorded
<1> QED BY <1>1, <1>19, <1>21, <1>22, <1>23, <1>24, <1>25 DEF AsDue


-----------------------------------------------------------------------------
(* What stays as it is *)

LEMMA AsDueIs == CreatedWhole <=> (at = "end" /\ Creators /\ result = "Success" /\ ~creator.dummy /\ Separate => AsDue)
BY DEF CreatedWhole, AsDue
\* What is due, of the blocks there are, their size and the files as they were.
DueOf(blocks, size, d, exponent) ==
    LET n == Len(blocks)
        factor(i) == Power(Bases16(n)[i], exponent)
        padded(i) == ReadData(d, blocks[i], 0, size)
        sum(p) ==
          LET terms == [i \in 1 .. n |-> Times(factor(i), padded(i)[p])]
              upto[i \in 0 .. n] == IF i = 0 THEN 0 ELSE Plus(upto[i - 1], terms[i])
          IN  upto[n]
    IN  [p \in 1 .. size |-> sum(p)]
LEMMA DueSame ==
    ASSUME creator'.blocks = creator.blocks, creator'.blocksize = creator.blocksize, before' = before
    PROVE  \A e : Due(e)' = Due(e)
<1> TAKE e
<1>1. Due(e) = DueOf(creator.blocks, creator.blocksize, before, e)
  BY DEF Due, DueOf
<1>2. Due(e)' = DueOf(creator'.blocks, creator'.blocksize, before', e)
  BY DEF Due, DueOf
<1> QED BY <1>1, <1>2

\* The same of what a file is to hold.
PacketsFor(criticals, a) ==
    LET n == Len(criticals)
        upto(k) == Spread(k, BitLength(a.count), n, a.count)
    IN  (IF a.count = 0 THEN criticals
         ELSE FlattenSeq([k \in 1 .. a.count |->
                <<RecoveryHeader(a.exponent + k - 1)>>
                  \o [j \in 1 .. upto(k) - upto(k - 1) |->
                        criticals[((upto(k - 1) + j - 1) % n) + 1]]]))
          \o <<CreatorPacket>>
LengthFor(size, packet) == 1 + IF IsRecovery(packet) THEN size ELSE 0
ItemsFor(criticals, size, a) ==
    LET packets == PacketsFor(criticals, a)
        lengths == [i \in DOMAIN packets |-> LengthFor(size, packets[i])]
    IN  [i \in DOMAIN packets |-> [packet |-> packets[i], file |-> a.file,
                                   offset |-> Total(SubSeq(lengths, 1, i - 1))]]
LEMMA ItemsSame ==
    ASSUME creator'.criticals = creator.criticals, creator'.blocksize = creator.blocksize
    PROVE  \A a : Items(a)' = Items(a)
<1> TAKE a
<1>0. \A x : PacketLength(x) = LengthFor(creator.blocksize, x) /\ PacketLength(x)' = LengthFor(creator'.blocksize, x)
  BY DEF PacketLength, LengthFor
<1>1. Packets(a) = PacketsFor(creator.criticals, a)
  BY DEF Packets, PacketsFor
<1>2. Packets(a)' = PacketsFor(creator'.criticals, a)
  BY DEF Packets, PacketsFor
<1>3. Items(a) = ItemsFor(creator.criticals, creator.blocksize, a)
  BY <1>1 DEF Items, ItemsFor, PacketLength, LengthFor
<1>4. Items(a)' = ItemsFor(creator'.criticals, creator'.blocksize, a)
  BY <1>2 DEF Items, ItemsFor, PacketLength, LengthFor
<1> QED BY <1>3, <1>4

\* CreatedWhole is about the last state of a creation.
LEMMA AsDueSame ==
    ASSUME UNCHANGED <<disk, creator, before>>, AsDue
    PROVE  AsDue'
<1> DEFINE all == UNION {{<<name, k>> : k \in RecoveryIn(name)} : name \in FilesMade}
           packet(p) == disk[p[1]][p[2]]
<1>1. \A e : Due(e)' = Due(e)
  BY DueSame
<1>2. FilesMade' = FilesMade
  BY DEF FilesMade
<1>3. \A name : RecoveryIn(name)' = RecoveryIn(name)
  BY DEF RecoveryIn
<1>4. all' = all
  BY <1>2, <1>3
<1>5. \A name : Gapless(name)' <=> Gapless(name)
  BY <1>3 DEF Gapless
<1>6. {packet(p) : p \in all}' = {packet(p) : p \in all}
  BY <1>4
<1>7. (\A p \in all : SubSeq(disk[p[1]], p[2] + 1, p[2] + creator.blocksize) = Due(packet(p) - RecoveryHeader(0)))'
  BY <1>1, <1>4 DEF AsDue
<1> QED BY <1>1, <1>2, <1>4, <1>5, <1>6, <1>7 DEF AsDue

LEMMA SizeSame ==
    ASSUME creator'.criticals = creator.criticals, creator'.blocksize = creator.blocksize
    PROVE  \A a : FileSize(a)' = FileSize(a)
<1>1. \A a : Items(a)' = Items(a)
  BY ItemsSame
<1>2. \A x : PacketLength(x)' = PacketLength(x)
  BY DEF PacketLength
<1> QED BY <1>1, <1>2 DEF FileSize

\* The fields that are left alone by what follows.
Resting == {"blocksize", "sourceblockcount", "recoveryblockcount", "firstblock", "sources", "criticals",
            "blocks", "allocations", "chunksize", "concurrent", "dummy"}
AtRest == (\A x \in Resting : creator'[x] = creator[x]) /\ before' = before
LEMMA RestingSame ==
    ASSUME AtRest
    PROVE  /\ FilesMade' = FilesMade /\ (Separate' <=> Separate)
           /\ CutUp => CutUp'
           /\ Recorded => Recorded'
           /\ \A e : Due(e)' = Due(e)
           /\ \A a : Items(a)' = Items(a) /\ FileSize(a)' = FileSize(a)
           /\ \A x : Extent(x)' = Extent(x)
<1>1. /\ creator'.blocksize = creator.blocksize /\ creator'.sourceblockcount = creator.sourceblockcount
      /\ creator'.sources = creator.sources /\ creator'.criticals = creator.criticals
      /\ creator'.blocks = creator.blocks /\ creator'.allocations = creator.allocations
      /\ creator'.concurrent = creator.concurrent /\ before' = before
  BY DEF AtRest, Resting
<1>2. FilesMade' = FilesMade
  BY <1>1 DEF FilesMade
<1>3. Separate' <=> Separate
  BY <1>1, <1>2 DEF Separate
<1>4. CutUp => CutUp'
  BY <1>1 DEF CutUp, InsideOf
<1>5. Recorded => Recorded'
  BY <1>1 DEF Recorded
<1>6. \A x : Extent(x)' = Extent(x)
  BY <1>1 DEF Extent, PacketLength
<1> QED BY <1>1, <1>2, <1>3, <1>4, <1>5, <1>6, DueSame, ItemsSame, SizeSame

-----------------------------------------------------------------------------
(* The files that are made, and what is written to them *)

\* The items of all files are in them, each in its place.
Stored(items, d) ==
    /\ Whole(items) /\ Occupied(items, FilesMade, d) /\ Held(items)
    /\ Ordered(PacketList(items), creator.firstblock, creator.firstblock + creator.recoveryblockcount)
SameCells(d, e) ==
    /\ DOMAIN e = DOMAIN d
    /\ \A name \in DOMAIN d : DOMAIN e[name] = DOMAIN d[name] /\ (name \notin FilesMade => e[name] = d[name])
LEMMA FillingKept ==
    ASSUME AtRest, creator'.items = creator.items, Amounts, Stored(creator.items, disk), Intact,
           creator'.blockoffset \in Nat, creator'.blockoffset <= creator.blocksize, SameCells(disk, disk')
    PROVE  Amounts' /\ (Stored(creator.items, disk))' /\ Intact'
<1>1. /\ creator'.blocksize = creator.blocksize /\ creator'.firstblock = creator.firstblock
      /\ creator'.recoveryblockcount = creator.recoveryblockcount /\ creator'.chunksize = creator.chunksize
      /\ creator'.criticals = creator.criticals /\ before' = before
  BY DEF AtRest, Resting
<1>2. Amounts'
  BY <1>1 DEF Amounts
<1>3. FilesMade' = FilesMade /\ \A x : Extent(x)' = Extent(x)
  BY RestingSame
<1>4. Intact'
  BY <1>1, <1>3 DEF Intact, SameCells
<1>5. Occupied(creator.items, FilesMade, disk')
  BY OccupiedSame DEF Stored, SameCells
<1>6. (Occupied(creator.items, FilesMade, disk))'
  BY <1>3, <1>5 DEF Occupied
<1>7. (Held(creator.items))'
  BY <1>1, <1>3 DEF Stored, Held
<1> QED BY <1>1, <1>2, <1>4, <1>6, <1>7 DEF Stored

\* Headers or critical packets are written.
LEMMA PacketsFill ==
    ASSUME NEW items, Stored(items, disk), creator.blocksize \in Nat, NEW which \in BOOLEAN,
           DataUpTo(items, disk, creator.blocksize), NEW e, e = AllWrites(disk, PacketWrites(ItemsOf(items, which)))
    PROVE  /\ SameCells(disk, e) /\ DataUpTo(items, e, creator.blocksize) /\ PacketsIn(items, e, which)
           /\ PacketsIn(items, disk, ~which) => PacketsIn(items, e, ~which)
<1>1. PICK l : l = ItemsOf(items, which)
  OBVIOUS
<1>2. Whole(items) /\ Occupied(items, FilesMade, disk)
  BY DEF Stored
<1>3. /\ IsList(l) /\ \A i \in 1 .. Len(l) : l[i] \in ToSet(items) /\ IsRecovery(l[i].packet) = which
      /\ \A x \in ToSet(items) : IsRecovery(x.packet) = which => Occurs(x, l)
  BY <1>1, <1>2, ItemsOfAre
<1>4. DOMAIN l = 1 .. Len(l)
  BY <1>3, ListFacts
<1>5. /\ ToSet(l) \subseteq ToSet(items) /\ \A x \in ToSet(l) : IsRecovery(x.packet) = which
      /\ \A x \in ToSet(items) : IsRecovery(x.packet) = which => x \in ToSet(l)
  BY <1>3, <1>4 DEF ToSet, Occurs
<1>6. e = AllWrites(disk, PacketWrites(l))
  BY <1>1
<1>7. /\ DOMAIN e = DOMAIN disk
      /\ \A name \in DOMAIN disk : DOMAIN e[name] = DOMAIN disk[name] /\ (name \notin FilesMade => e[name] = disk[name])
      /\ \A x \in ToSet(l) : e[x.file][x.offset + 1] = x.packet
      /\ \A x \in ToSet(items) : \A p \in Extent(x) :
           p # x.offset + 1 \/ x \notin ToSet(l) => e[x.file][p] = disk[x.file][p]
  BY <1>2, <1>3, <1>5, <1>6, PacketsWritten
<1>8. SameCells(disk, e)
  BY <1>7 DEF SameCells
<1>9. ASSUME NEW x \in ToSet(items)
      PROVE  /\ x.offset \in Nat /\ x.offset + 1 \in Extent(x)
             /\ IsRecovery(x.packet) => Extent(x) = x.offset + 1 .. x.offset + 1 + creator.blocksize
  <2>1. x.offset \in Nat
    BY <1>2 DEF Occupied
  <2> QED BY <2>1, FirstCell
<1>10. DataUpTo(items, e, creator.blocksize)
  <2> SUFFICES ASSUME NEW x \in ToSet(items), IsRecovery(x.packet), NEW k \in 1 .. creator.blocksize
               PROVE  e[x.file][x.offset + 1 + k] = Due(x.packet - RecoveryHeader(0))[k]
    BY DEF DataUpTo
  <2>1. PICK o \in Nat : o = x.offset /\ Extent(x) = o + 1 .. o + 1 + creator.blocksize
    BY <1>9
  <2>2. o + 1 + k \in Extent(x) /\ o + 1 + k # o + 1
    BY <2>1
  <2>3. e[x.file][x.offset + 1 + k] = disk[x.file][x.offset + 1 + k]
    BY <1>7, <2>1, <2>2
  <2> QED BY <2>3 DEF DataUpTo
<1>11. PacketsIn(items, e, which)
  BY <1>5, <1>7 DEF PacketsIn
<1>12. ASSUME PacketsIn(items, disk, ~which) PROVE PacketsIn(items, e, ~which)
  <2> SUFFICES ASSUME NEW x \in ToSet(items), IsRecovery(x.packet) = ~which
               PROVE  e[x.file][x.offset + 1] = x.packet
    BY DEF PacketsIn
  <2>1. x \notin ToSet(l)
    BY <1>5
  <2>2. e[x.file][x.offset + 1] = disk[x.file][x.offset + 1]
    BY <1>7, <1>9, <2>1
  <2> QED BY <1>12, <2>2 DEF PacketsIn
<1> QED BY <1>8, <1>10, <1>11, <1>12

\* The last file is made: every cell of every file is some item's.
LaidDown(a, d) == a.file \in DOMAIN d /\ DOMAIN d[a.file] = 1 .. FileSize(a)
LEMMA OutputsReady ==
    ASSUME NEW f, NEW m \in Nat, NEW first, NEW total, Allotted(f, creator.allocations, first, total, m),
           Recorded, creator.blocksize \in Nat,
           NEW items, Whole(items), ToSet(items) = UNION {ToSet(Items(creator.allocations[j])) : j \in 1 .. m},
           NEW d, \A j \in 1 .. m : LaidDown(creator.allocations[j], d)
    PROVE  Occupied(items, FilesMade, d) /\ Held(items)
<1>1. PICK a : a = creator.allocations
  OBVIOUS
<1>2. /\ a = [k \in 1 .. m |-> a[k]]
      /\ \A k \in 1 .. m : a[k].count \in Nat /\ a[k].exponent \in Nat /\ a[k].file # NoName
      /\ \A j, k \in 1 .. m : a[j].file = a[k].file => a[j] = a[k]
  BY <1>1 DEF Allotted
<1>3. DOMAIN a = 1 .. m
  BY <1>2
<1>4. FilesMade = {a[j].file : j \in 1 .. m}
  BY <1>1, <1>3 DEF FilesMade
<1>5. \A k \in 1 .. m :
        /\ Tiles(Items(a[k]), FileSize(a[k])) /\ Len(Items(a[k])) = Len(Packets(a[k]))
        /\ \A i \in DOMAIN Items(a[k]) : Items(a[k])[i].packet = Packets(a[k])[i] /\ Items(a[k])[i].file = a[k].file
  BY <1>2, ItemsAre DEF Recorded
<1>6. \A k \in 1 .. m :
        /\ \A i \in 1 .. Len(creator.criticals) : Occurs(creator.criticals[i], Packets(a[k]))
        /\ Len(Packets(a[k])) > 0
  BY <1>2, PacketsHold DEF Recorded
<1>7. \A x \in ToSet(items) : \E j \in 1 .. m : \E i \in DOMAIN Items(a[j]) : x = Items(a[j])[i]
  <2> TAKE x \in ToSet(items)
  <2>1. PICK j \in 1 .. m : x \in ToSet(Items(a[j]))
    BY <1>1
  <2> QED BY <2>1 DEF ToSet
<1>8. \A j \in 1 .. m : \A i \in DOMAIN Items(a[j]) : Items(a[j])[i] \in ToSet(items)
  <2> TAKE j \in 1 .. m
  <2>1. ToSet(Items(a[j])) \subseteq ToSet(items)
    BY <1>1
  <2> QED BY <2>1 DEF ToSet
<1>9. \A j \in 1 .. m : DOMAIN Items(a[j]) = 1 .. Len(Packets(a[j])) /\ Len(Packets(a[j])) \in Nat
  <2> TAKE j \in 1 .. m
  <2>1. IsList(Items(a[j])) /\ Len(Items(a[j])) = Len(Packets(a[j]))
    BY <1>5 DEF Tiles
  <2> QED BY <2>1, ListFacts
<1>10. {x.file : x \in ToSet(items)} = FilesMade
  <2>1. ASSUME NEW x \in ToSet(items) PROVE x.file \in FilesMade
    <3>1. PICK j \in 1 .. m : \E i \in DOMAIN Items(a[j]) : x = Items(a[j])[i]
      BY <1>7
    <3>2. x.file = a[j].file
      BY <1>5, <3>1
    <3> QED BY <1>4, <3>2
  <2>2. ASSUME NEW j \in 1 .. m PROVE \E x \in ToSet(items) : a[j].file = x.file
    <3>1. 1 \in DOMAIN Items(a[j])
      BY <1>6, <1>9
    <3> QED BY <1>5, <1>8, <3>1
  <2> QED BY <1>4, <2>1, <2>2
<1>11. ASSUME NEW x \in ToSet(items)
       PROVE  /\ x.offset \in Nat /\ x.file # NoName /\ x.file \in DOMAIN d
              /\ Extent(x) \subseteq DOMAIN d[x.file]
  <2>0. PICK j \in 1 .. m : \E i \in DOMAIN Items(a[j]) : x = Items(a[j])[i]
    BY <1>7
  <2>1. PICK i \in DOMAIN Items(a[j]) : x = Items(a[j])[i]
    BY <2>0
  <2>2. x.offset \in Nat /\ Extent(x) \subseteq 1 .. FileSize(a[j])
    BY <1>5, <2>1 DEF Tiles
  <2>3. x.file = a[j].file
    BY <1>5, <2>1
  <2>4. LaidDown(a[j], d)
    BY <1>1
  <2> QED BY <1>2, <2>2, <2>3, <2>4 DEF LaidDown
<1>12. ASSUME NEW x \in ToSet(items), NEW y \in ToSet(items), x.file = y.file
       PROVE  x = y \/ Extent(x) \cap Extent(y) = {}
  <2>0. PICK j \in 1 .. m : \E i \in DOMAIN Items(a[j]) : x = Items(a[j])[i]
    BY <1>7
  <2>1. PICK i \in DOMAIN Items(a[j]) : x = Items(a[j])[i]
    BY <2>0
  <2>a. PICK k \in 1 .. m : \E h \in DOMAIN Items(a[k]) : y = Items(a[k])[h]
    BY <1>7
  <2>2. PICK h \in DOMAIN Items(a[k]) : y = Items(a[k])[h]
    BY <2>a
  <2>3. x.file = a[j].file /\ y.file = a[k].file
    BY <1>5, <2>1, <2>2
  <2>4. a[j] = a[k]
    BY <1>2, <1>12, <2>3
  <2>5. h \in DOMAIN Items(a[j]) /\ y = Items(a[j])[h]
    BY <2>2, <2>4
  <2>6. i # h => Extent(Items(a[j])[i]) \cap Extent(Items(a[j])[h]) = {}
    BY <1>5, <2>1, <2>5 DEF Tiles
  <2> QED BY <2>1, <2>5, <2>6
<1>13. ASSUME NEW name \in FilesMade, NEW p \in DOMAIN d[name]
       PROVE  \E x \in ToSet(items) : x.file = name /\ p \in Extent(x)
  <2>1. PICK j \in 1 .. m : name = a[j].file
    BY <1>4
  <2>2. p \in 1 .. FileSize(a[j])
    BY <1>1, <2>1 DEF LaidDown
  <2>3. PICK i \in DOMAIN Items(a[j]) : p \in Extent(Items(a[j])[i])
    BY <1>5, <2>2 DEF Tiles
  <2>4. Items(a[j])[i].file = name
    BY <1>5, <2>1, <2>3
  <2> QED BY <1>8, <2>3, <2>4
<1>14. Occupied(items, FilesMade, d)
  BY <1>10, <1>11, <1>12, <1>13 DEF Occupied
<1>15. Held(items)
  <2> SUFFICES ASSUME NEW name \in FilesMade, NEW c \in ToSet(creator.criticals)
               PROVE  \E x \in ToSet(items) : x.file = name /\ x.packet = c
    BY DEF Held
  <2>1. PICK j \in 1 .. m : name = a[j].file
    BY <1>4
  <2>2. PICK h \in 1 .. Len(creator.criticals) : c = creator.criticals[h]
    <3>1. DOMAIN creator.criticals = 1 .. Len(creator.criticals)
      BY LenProperties DEF Recorded, Negative
    <3> QED BY <3>1 DEF ToSet
  <2>3. PICK i \in 1 .. Len(Packets(a[j])) : Packets(a[j])[i] = c
    BY <1>6, <2>2 DEF Occurs
  <2>4. i \in DOMAIN Items(a[j]) /\ Items(a[j])[i].packet = c /\ Items(a[j])[i].file = name
    BY <1>5, <1>9, <2>1, <2>3
  <2> QED BY <1>8, <2>4
<1> QED BY <1>14, <1>15

-----------------------------------------------------------------------------
(* The invariant of a creation that is to succeed *)

Early == Deciding \cup {"layout"}
Late == {"process", "headers", "criticals", "close"}
MoreFields == Resting \cup {"memorylimit", "items", "next", "blockoffset", "filecount", "scheme", "largest",
                            "extrafiles", "redundancy", "parfile"}
Keeps(c, q, F) == MoreFields \subseteq DOMAIN q /\ \A x \in MoreFields \ F : q[x] = c[x]

\* The figures, before any data is written.
Figured(c) ==
    /\ c.firstblock \in Nat /\ c.recoveryblockcount \in Nat /\ c.firstblock + c.recoveryblockcount <= Count
    /\ c.memorylimit \in Nat /\ c.chunksize \in Nat /\ c.blockoffset = 0
\* The packets about the sources.
Packed ==
    /\ Negative(creator.criticals)
    /\ ~creator.concurrent =>
         ToSet(creator.criticals) = UNION {ToSet(PacketsOf(n)) : n \in ToSet(creator.sources)}
\* The files that are made so far.
ProducingAt(f, m) ==
    /\ Allotted(f, creator.allocations, creator.firstblock, creator.recoveryblockcount, m)
    /\ creator.next \in 1 .. m
    /\ Stowed(creator.items, creator.allocations, creator.firstblock, f[creator.next - 1], creator.next)
    /\ \A j \in 1 .. creator.next - 1 : LaidDown(creator.allocations[j], disk)
Producing == Intact /\ \E m, f : ProducingAt(f, m)
\* How far the files are written.
Filling ==
    Separate /\ ~creator.dummy =>
      /\ Amounts /\ Stored(creator.items, disk) /\ Intact
      /\ at = "process" =>
           creator.recoveryblockcount > 0 /\ DataUpTo(creator.items, disk, creator.blockoffset)
      /\ at \in {"headers", "criticals", "close"} => DataUpTo(creator.items, disk, creator.blocksize)
      /\ at \in {"criticals", "close"} => PacketsIn(creator.items, disk, TRUE)
      /\ at = "close" => PacketsIn(creator.items, disk, FALSE)
\* What holds of a creation at each place.
WholeAt ==
    /\ MoreFields \subseteq DOMAIN creator
    /\ at \in Advancing => Figured(creator)
    /\ at \in Early => disk = before /\ creator.items = <<>>
    /\ at \in {"open", "main", "blocks", "layout"} => Filed
    /\ at = "main" => Packed
    /\ at \in {"blocks", "layout", "outputs"} \cup Late => Recorded
    /\ at \in {"layout", "outputs"} \cup Late => CutUp
    /\ at = "outputs" => Producing
    /\ at \in Late => Filling
WholeInv == (at \in CreatePlaces => WholeAt) /\ CreatedWhole

\* What a step of a creation has to show.
Proceeds == (at' = "end" /\ result' # "Success") \/ WholeAt'

LEMMA SizesProceed ==
    ASSUME CreationInv(at, creator, disk), WholeAt, UNCHANGED before, ComputeBlockSizeAndBlockCount
    PROVE  Proceeds
<1>1. PICK sizes : sizes = Sizes(creator.blocksize, creator.sourceblockcount, FileSizes(creator))
  OBVIOUS
<1>2. /\ at = "sizes" /\ UNCHANGED disk
      /\ \/ at' = "end" /\ result' = "InvalidCommandLineArguments"
         \/ /\ at' = "redundancy"
            /\ creator' = [creator EXCEPT !.blocksize = sizes[1], !.sourceblockcount = sizes[2]]
  BY <1>1 DEF ComputeBlockSizeAndBlockCount, End, Goto, FileSizes
<1>3. /\ MoreFields \subseteq DOMAIN creator /\ Figured(creator) /\ disk = before /\ creator.items = <<>>
  BY <1>2 DEF WholeAt, Advancing, Early, Deciding
<1>4. CASE at' = "end" /\ result' = "InvalidCommandLineArguments"
  BY <1>4 DEF Proceeds
<1>5. CASE /\ at' = "redundancy"
           /\ creator' = [creator EXCEPT !.blocksize = sizes[1], !.sourceblockcount = sizes[2]]
  <2>1. Keeps(creator, creator', {"blocksize", "sourceblockcount"})
    BY <1>3, <1>5 DEF Keeps
  <2>2. /\ creator'.firstblock = creator.firstblock /\ creator'.recoveryblockcount = creator.recoveryblockcount
        /\ creator'.memorylimit = creator.memorylimit /\ creator'.chunksize = creator.chunksize
        /\ creator'.blockoffset = creator.blockoffset /\ creator'.items = creator.items
        /\ MoreFields \subseteq DOMAIN creator'
    BY <2>1 DEF Keeps, MoreFields, Resting
  <2>3. Figured(creator')
    BY <1>3, <2>2 DEF Figured
  <2>4. WholeAt'
    BY <1>2, <1>3, <1>5, <2>2, <2>3 DEF WholeAt, Advancing, Early, Deciding, Late
  <2> QED BY <2>4 DEF Proceeds
<1> QED BY <1>2, <1>4, <1>5

LEMMA RedundancyProceeds ==
    ASSUME CreationInv(at, creator, disk), Advances, WholeAt, UNCHANGED before, ComputeRecoveryBlockCount
    PROVE  Proceeds
<1> DEFINE n == (creator.sourceblockcount * creator.redundancy + 50) \div 100
<1>1. PICK count : count = IF n = 0 THEN 1 ELSE n
  OBVIOUS
<1>2. /\ at = "redundancy" /\ UNCHANGED disk
      /\ \/ at' = "end" /\ result' = "InvalidCommandLineArguments"
         \/ at' = "chunks" /\ UNCHANGED creator
         \/ /\ at' = "chunks" /\ ~(creator.redundancy <= 0)
            /\ creator' = [creator EXCEPT !.recoveryblockcount = count]
  BY <1>1 DEF ComputeRecoveryBlockCount, End, Goto
<1>3. MoreFields \subseteq DOMAIN creator /\ Figured(creator) /\ disk = before /\ creator.items = <<>>
  BY <1>2 DEF WholeAt, Advancing, Early, Deciding
<1>4. CASE at' = "end" /\ result' = "InvalidCommandLineArguments"
  BY <1>4 DEF Proceeds
<1>5. CASE at' = "chunks" /\ UNCHANGED creator
  <2>1. WholeAt'
    BY <1>2, <1>3, <1>5 DEF WholeAt, Advancing, Early, Deciding, Late
  <2> QED BY <2>1 DEF Proceeds
<1>6. CASE /\ at' = "chunks" /\ ~(creator.redundancy <= 0)
           /\ creator' = [creator EXCEPT !.recoveryblockcount = count]
  <2>1. Keeps(creator, creator', {"recoveryblockcount"})
    BY <1>3, <1>6 DEF Keeps
  <2>2. /\ creator'.firstblock = creator.firstblock /\ creator'.redundancy = creator.redundancy
        /\ creator'.memorylimit = creator.memorylimit /\ creator'.chunksize = creator.chunksize
        /\ creator'.blockoffset = creator.blockoffset /\ creator'.items = creator.items
        /\ MoreFields \subseteq DOMAIN creator'
    BY <2>1 DEF Keeps, MoreFields, Resting
  <2>3. CreationInv("chunks", creator', disk')
    BY <1>6 DEF Advances, Advancing, Deciding
  <2>4. creator'.recoveryblockcount \in Nat /\ creator'.redundancy \in Int /\ Fit(creator')
    BY <2>3 DEF CreationInv, Given
  <2>5. creator.redundancy \in Int
    BY DEF CreationInv, Given
  <2>6. creator'.firstblock + creator'.recoveryblockcount < Count
    BY <1>6, <2>2, <2>4, <2>5 DEF Fit
  <2>7. Figured(creator')
    BY <1>3, <2>2, <2>4, <2>6, CountIsPower DEF Figured
  <2>8. WholeAt'
    BY <1>2, <1>3, <1>6, <2>2, <2>7 DEF WholeAt, Advancing, Early, Deciding, Late
  <2> QED BY <2>8 DEF Proceeds
<1> QED BY <1>2, <1>4, <1>5, <1>6

LEMMA ChunksProceed ==
    ASSUME CreationInv(at, creator, disk), WholeAt, UNCHANGED before, CalculateProcessBlockSize
    PROVE  Proceeds
<1>1. PICK size : size = IF creator.recoveryblockcount = 0 THEN 0
                         ELSE ChunkSize(creator.blocksize, creator.recoveryblockcount, creator.memorylimit)
  OBVIOUS
<1>2. /\ at = "chunks" /\ UNCHANGED disk /\ at' = "files" /\ creator' = [creator EXCEPT !.chunksize = size]
  BY <1>1 DEF CalculateProcessBlockSize, Goto, Only
<1>3. MoreFields \subseteq DOMAIN creator /\ Figured(creator) /\ disk = before /\ creator.items = <<>>
  BY <1>2 DEF WholeAt, Advancing, Early, Deciding
<1>4. size \in Nat
  <2>1. PICK b \in Nat : b = creator.blocksize
    BY <1>2 DEF CreationInv, Decided
  <2>2. PICK n \in Nat : n = creator.recoveryblockcount
    BY <1>3 DEF Figured
  <2>3. PICK l \in Nat : l = creator.memorylimit
    BY <1>3 DEF Figured
  <2>4. CASE n = 0
    BY <1>1, <2>2, <2>4
  <2>5. CASE n # 0
    <3>1. PICK q \in Nat : q = l \div n
      BY <2>5, QuotientAndRest
    <3>2. 4 * (q \div 4) \in Nat
      OBVIOUS
    <3>3. size = IF b * n > l THEN 4 * (q \div 4) ELSE b
      BY <1>1, <2>1, <2>2, <2>3, <2>5, <3>1 DEF ChunkSize
    <3> QED BY <3>2, <3>3
  <2> QED BY <2>4, <2>5
<1>5. Keeps(creator, creator', {"chunksize"}) /\ creator'.chunksize = size
  BY <1>2, <1>3 DEF Keeps, MoreFields, Resting
<1>6. /\ creator'.firstblock = creator.firstblock /\ creator'.recoveryblockcount = creator.recoveryblockcount
      /\ creator'.memorylimit = creator.memorylimit
      /\ creator'.blockoffset = creator.blockoffset /\ creator'.items = creator.items
      /\ MoreFields \subseteq DOMAIN creator'
  BY <1>5 DEF Keeps, MoreFields, Resting
<1>7. Figured(creator')
  BY <1>3, <1>4, <1>5, <1>6 DEF Figured
<1>8. WholeAt'
  BY <1>2, <1>3, <1>6, <1>7 DEF WholeAt, Advancing, Early, Deciding, Late
<1> QED BY <1>8 DEF Proceeds

\* How many files there are fits how many blocks there are.
LEMMA FilesProceed ==
    ASSUME CreationInv(at, creator, disk), WholeAt, UNCHANGED before, ComputeRecoveryFileCount
    PROVE  Proceeds
<1>1. /\ at = "files" /\ UNCHANGED disk
      /\ \/ at' = "end" /\ result' = "InvalidCommandLineArguments"
         \/ at' = "open" /\ creator' = [creator EXCEPT !.filecount = FileCount]
  BY DEF ComputeRecoveryFileCount, Goto, End
<1>2. MoreFields \subseteq DOMAIN creator /\ Figured(creator) /\ disk = before /\ creator.items = <<>>
  BY <1>1 DEF WholeAt, Advancing, Early, Deciding
<1>3. CASE at' = "end" /\ result' = "InvalidCommandLineArguments"
  BY <1>3 DEF Proceeds
<1>4. CASE at' = "open" /\ creator' = [creator EXCEPT !.filecount = FileCount]
  <2>1. PICK n : n = FileCount
    OBVIOUS
  <2>2. creator' = [creator EXCEPT !.filecount = n]
    BY <1>4, <2>1
  <2>3. Keeps(creator, creator', {"filecount"}) /\ creator'.filecount = n
    BY <1>2, <2>2 DEF Keeps, MoreFields, Resting
  <2>4. /\ creator'.firstblock = creator.firstblock /\ creator'.recoveryblockcount = creator.recoveryblockcount
        /\ creator'.memorylimit = creator.memorylimit /\ creator'.chunksize = creator.chunksize
        /\ creator'.blockoffset = creator.blockoffset /\ creator'.items = creator.items
        /\ creator'.scheme = creator.scheme /\ creator'.largest = creator.largest
        /\ creator'.blocksize = creator.blocksize /\ MoreFields \subseteq DOMAIN creator'
    BY <2>3 DEF Keeps, MoreFields, Resting
  <2>5. Figured(creator')
    BY <1>2, <2>4 DEF Figured
  <2>6. LargestBlocks' = LargestBlocks
    BY <2>4 DEF LargestBlocks
  <2>7. WholeFiles' = WholeFiles
    BY <2>4, <2>6 DEF WholeFiles
  <2>8. creator.recoveryblockcount = 0 <=> n = 0
    BY <1>1, <2>1, FileCountIs DEF CreationInv
  <2>9. creator.scheme = "limited" /\ creator.recoveryblockcount > 0 =>
          n = WholeFiles + BitLength(creator.recoveryblockcount - WholeFiles * LargestBlocks)
    <3>1. creator.recoveryblockcount > 0 => creator.recoveryblockcount # 0
      BY <1>2 DEF Figured
    <3> QED BY <2>1, <3>1 DEF FileCount
  <2>10. Filed'
    BY <2>3, <2>4, <2>6, <2>7, <2>8, <2>9 DEF Filed
  <2>11. WholeAt'
    BY <1>1, <1>2, <1>4, <2>4, <2>5, <2>10 DEF WholeAt, Advancing, Early, Deciding, Late
  <2> QED BY <2>11 DEF Proceeds
<1> QED BY <1>1, <1>3, <1>4

\* How many files there are, and of which size, stays as it is.
LEMMA FiledSame ==
    ASSUME Filed, NEW F, Keeps(creator, creator', F),
           F \cap {"recoveryblockcount", "filecount", "scheme", "largest", "blocksize"} = {}
    PROVE  Filed'
<1>1. /\ creator'.recoveryblockcount = creator.recoveryblockcount /\ creator'.filecount = creator.filecount
      /\ creator'.scheme = creator.scheme /\ creator'.largest = creator.largest
      /\ creator'.blocksize = creator.blocksize
  BY DEF Keeps, MoreFields, Resting
<1>2. LargestBlocks' = LargestBlocks
  BY <1>1 DEF LargestBlocks
<1>3. WholeFiles' = WholeFiles
  BY <1>1, <1>2 DEF WholeFiles
<1> QED BY <1>1, <1>2, <1>3 DEF Filed
LEMMA FiguredSame ==
    ASSUME NEW c, Figured(c), NEW q, NEW F, Keeps(c, q, F),
           F \cap {"firstblock", "recoveryblockcount", "memorylimit", "chunksize", "blockoffset"} = {}
    PROVE  Figured(q)
<1>1. /\ q.firstblock = c.firstblock /\ q.recoveryblockcount = c.recoveryblockcount
      /\ q.memorylimit = c.memorylimit /\ q.chunksize = c.chunksize /\ q.blockoffset = c.blockoffset
  BY DEF Keeps, MoreFields, Resting
<1> QED BY <1>1 DEF Figured

\* The packets about the sources, in a list.
LEMMA PacketsNegative ==
    ASSUME NEW names, IsList(names), ToSet(names) \subseteq DOMAIN FileId
    PROVE  /\ Negative(InTurn(names)) /\ \A list \in AtOnce(names) : Negative(list)
           /\ ToSet(InTurn(names)) = UNION {ToSet(PacketsOf(n)) : n \in ToSet(names)}
<1> DEFINE seqs == [i \in DOMAIN names |-> PacketsOf(names[i])]
<1>1. PICK n \in Nat : n = Len(names) /\ DOMAIN names = 1 .. n
  BY ListFacts
<1>2. \A i \in 1 .. n : names[i] \in DOMAIN FileId /\ FileId[names[i]] \in Nat
  BY <1>1, CreateAssumption DEF ToSet
<1>3. ASSUME NEW i \in 1 .. n
      PROVE  /\ PacketsOf(names[i]) \in Seq(Int) /\ Len(PacketsOf(names[i])) = 2
             /\ PacketsOf(names[i])[1] < 0 /\ PacketsOf(names[i])[2] < 0
  <2>1. PICK x \in Nat : x = FileId[names[i]]
    BY <1>2
  <2>2. PacketsOf(names[i]) = <<-4 - 2 * x, -5 - 2 * x>>
    BY <2>1 DEF PacketsOf, DescriptionPacket, VerificationPacket
  <2>3. -4 - 2 * x \in Int /\ -5 - 2 * x \in Int /\ -4 - 2 * x < 0 /\ -5 - 2 * x < 0
    OBVIOUS
  <2> QED BY <2>2, <2>3
<1>4. PICK q : q = seqs
  OBVIOUS
<1>5. q \in [1 .. n -> Seq(Int)] /\ \A i \in 1 .. n : q[i] = PacketsOf(names[i])
  BY <1>1, <1>3, <1>4
<1>6. PICK l : l = InTurn(names)
  OBVIOUS
<1>7. l = FlattenSeq(q)
  BY <1>4, <1>6 DEF InTurn
<1> HIDE DEF seqs
<1> DEFINE T == {x \in Int : \E i \in 1 .. n : Occurs(x, q[i])}
<1>a. \A i \in 1 .. n : q[i] \in Seq(T)
  <2> TAKE i \in 1 .. n
  <2>1. q[i] \in Seq(Int) /\ Len(q[i]) = 2 /\ q[i] = [j \in 1 .. 2 |-> q[i][j]]
    <3>1. q[i] \in Seq(Int) /\ Len(q[i]) = 2
      BY <1>3, <1>5
    <3> QED BY <3>1, LenProperties
  <2>2. \A j \in 1 .. 2 : q[i][j] \in T
    BY <2>1, ElementOfSeq DEF Occurs
  <2> HIDE DEF T
  <2> QED BY <2>1, <2>2
<1>b. q \in [1 .. n -> Seq(T)]
  <2> HIDE DEF T
  <2> QED BY <1>5, <1>a
<1>c. l \in Seq(T)
  <2> HIDE DEF T
  <2>1. PICK f : Joined(f, T, q, n)
    BY <1>b, FlattenIs
  <2> QED BY <1>7, <2>1 DEF Joined
<1>8. l \in Seq(Int)
  <2>1. PICK f : Joined(f, Int, q, n)
    BY <1>5, FlattenIs
  <2> QED BY <1>7, <2>1 DEF Joined
<1>9. PICK L \in Nat : L = Len(l) /\ DOMAIN l = 1 .. L
  BY <1>8, LenProperties
<1>10. \A k \in 1 .. L : \E i \in 1 .. n : Occurs(l[k], q[i])
  <2> TAKE k \in 1 .. L
  <2>1. l[k] \in T
    <3> HIDE DEF T
    <3> QED BY <1>9, <1>c, ElementOfSeq
  <2> QED BY <2>1
<1> HIDE DEF T
<1>11. \A i \in 1 .. n : \A x : Occurs(x, q[i]) => Occurs(x, l)
  BY <1>5, <1>7, OccursFlatten
<1>12. \A k \in 1 .. L : l[k] \in Int /\ l[k] < 0
  <2> TAKE k \in 1 .. L
  <2>1. PICK i \in 1 .. n : Occurs(l[k], q[i])
    BY <1>10
  <2>2. PICK j \in 1 .. 2 : q[i][j] = l[k]
    BY <1>3, <1>5, <2>1 DEF Occurs
  <2>3. q[i][j] < 0
    BY <1>3, <1>5
  <2>4. l[k] \in Int
    BY <1>8, <1>9, ElementOfSeq
  <2> QED BY <2>2, <2>3, <2>4
<1>13. Negative(l)
  BY <1>8, <1>9, <1>12 DEF Negative
<1>14. ToSet(l) = UNION {ToSet(PacketsOf(name)) : name \in ToSet(names)}
  <2>1. ASSUME NEW k \in 1 .. L PROVE \E name \in ToSet(names) : l[k] \in ToSet(PacketsOf(name))
    <3>1. PICK i \in 1 .. n : Occurs(l[k], q[i])
      BY <1>10
    <3>2. PICK j \in 1 .. 2 : q[i][j] = l[k]
      BY <1>3, <1>5, <3>1 DEF Occurs
    <3>3. DOMAIN PacketsOf(names[i]) = 1 .. 2
      BY <1>3, LenProperties
    <3>4. l[k] \in ToSet(PacketsOf(names[i]))
      BY <1>5, <3>2, <3>3 DEF ToSet
    <3> QED BY <1>1, <3>4 DEF ToSet
  <2>2. ASSUME NEW name \in ToSet(names), NEW x \in ToSet(PacketsOf(name)) PROVE x \in ToSet(l)
    <3>1. PICK i \in 1 .. n : name = names[i]
      BY <1>1 DEF ToSet
    <3>2. DOMAIN PacketsOf(names[i]) = 1 .. 2
      BY <1>3, LenProperties
    <3>3. PICK j \in 1 .. 2 : q[i][j] = x
      BY <1>5, <3>1, <3>2 DEF ToSet
    <3>4. Occurs(x, q[i])
      BY <1>3, <1>5, <3>3 DEF Occurs
    <3>5. Occurs(x, l)
      BY <1>11, <3>4
    <3> QED BY <1>9, <3>5 DEF Occurs, ToSet
  <2>3. \A x \in ToSet(l) : \E k \in 1 .. L : x = l[k]
    BY <1>9 DEF ToSet
  <2> QED BY <2>1, <2>2, <2>3
<1>15. ASSUME NEW list \in AtOnce(names) PROVE Negative(list)
  <2>1. PICK all : all = ToSet(l)
    OBVIOUS
  <2>2. IsFiniteSet(all)
    BY <1>8, <2>1, SeqIsList, SetIsFinite
  <2>3. \E packets \in {all} \cup {all \ {p} : p \in all} : list \in SetToSeqs(packets)
    BY <1>6, <1>15, <2>1 DEF AtOnce
  <2>4. PICK packets : list \in SetToSeqs(packets) /\ (packets = all \/ \E p : packets = all \ {p})
    BY <2>3
  <2>5. IsFiniteSet(packets) /\ packets \subseteq all
    BY <2>2, <2>4, FS_RemoveElement
  <2>6. PICK m \in Nat : m = Cardinality(packets)
    BY <2>5, FS_CardinalityType
  <2>7. list \in [1 .. m -> packets]
    BY <2>4, <2>6 DEF SetToSeqs
  <2>8. \A x \in packets : x \in Int /\ x < 0
    <3> TAKE x \in packets
    <3>1. PICK k \in 1 .. L : x = l[k]
      BY <1>9, <2>1, <2>5 DEF ToSet
    <3> QED BY <1>12, <3>1
  <2>9. \A k \in 1 .. m : list[k] \in Int /\ list[k] < 0
    BY <2>7, <2>8
  <2>10. list = [k \in 1 .. m |-> list[k]]
    BY <2>7
  <2>11. list \in Seq(Int) /\ Len(list) = m
    BY <2>9, <2>10, LenProperties
  <2> QED BY <2>9, <2>11 DEF Negative
<1> QED BY <1>6, <1>13, <1>14, <1>15

\* OpenSourceFiles.
LEMMA OpenProceeds ==
    ASSUME CreationInv(at, creator, disk), WholeAt, UNCHANGED before, OpenSourceFiles
    PROVE  Proceeds
<1>1. PICK names : names = Names(creator.extrafiles)
  OBVIOUS
<1>2. /\ at = "open" /\ UNCHANGED disk
      /\ \/ at' = "end" /\ result' = "FileIOError"
         \/ /\ at' = "main"
            /\ \E list : /\ list = InTurn(names) \/ (list \in AtOnce(names) /\ creator.concurrent)
                         /\ creator' = [creator EXCEPT !.sources = names, !.criticals = list]
  BY <1>1 DEF OpenSourceFiles, Goto, End
<1>3. /\ MoreFields \subseteq DOMAIN creator /\ Figured(creator) /\ disk = before /\ creator.items = <<>> /\ Filed
  BY <1>2 DEF WholeAt, Advancing, Early, Deciding
<1>4. IsList(names) /\ ToSet(names) \subseteq DOMAIN FileId
  BY <1>1, NamesAre DEF CreationInv, Given
<1>5. CASE at' = "end" /\ result' = "FileIOError"
  BY <1>5 DEF Proceeds
<1>6. ASSUME NEW list, list = InTurn(names) \/ (list \in AtOnce(names) /\ creator.concurrent), at' = "main",
             creator' = [creator EXCEPT !.sources = names, !.criticals = list]
      PROVE  Proceeds
  <2>1. Keeps(creator, creator', {"sources", "criticals"}) /\ creator'.sources = names /\ creator'.criticals = list
    BY <1>3, <1>6 DEF Keeps, MoreFields, Resting
  <2>2. creator'.items = creator.items /\ creator'.concurrent = creator.concurrent /\ MoreFields \subseteq DOMAIN creator'
    BY <2>1 DEF Keeps, MoreFields, Resting
  <2>3. Figured(creator') /\ Filed'
    BY <1>3, <2>1, FiguredSame, FiledSame
  <2>4. Negative(list)
    BY <1>4, <1>6, PacketsNegative
  <2>5. ~creator.concurrent => ToSet(list) = UNION {ToSet(PacketsOf(n)) : n \in ToSet(names)}
    BY <1>4, <1>6, PacketsNegative
  <2>6. Packed'
    BY <2>1, <2>2, <2>4, <2>5 DEF Packed
  <2>7. WholeAt'
    BY <1>2, <1>3, <1>6, <2>2, <2>3, <2>6 DEF WholeAt, Advancing, Early, Deciding, Late
  <2> QED BY <2>7 DEF Proceeds
<1> QED BY <1>2, <1>5, <1>6

\* CreateMainPacket.
LEMMA MainProceeds ==
    ASSUME CreationInv(at, creator, disk), WholeAt, UNCHANGED before, CreateMainPacket
    PROVE  Proceeds
<1> DEFINE names == ToSet(creator.sources)
           sorted == [k \in DOMAIN creator.sources |-> CHOOSE name \in names : Rank(names, name) = k]
<1>1. PICK s : s = sorted
  OBVIOUS
<1>2. PICK list : list = Append(creator.criticals, MainPacket)
  OBVIOUS
<1>3. /\ at = "main" /\ MoreFields \subseteq DOMAIN creator /\ Figured(creator) /\ disk = before
      /\ creator.items = <<>> /\ Filed /\ Packed
  BY DEF CreateMainPacket, WholeAt, Advancing, Early, Deciding
<1>4. at' = "blocks" /\ UNCHANGED disk /\ creator' = [creator EXCEPT !.sources = s, !.criticals = list]
  <2>1. "criticals" \in DOMAIN creator /\ "sources" \in DOMAIN creator
    BY <1>3 DEF MoreFields, Resting
  <2> QED BY <1>1, <1>2, <2>1 DEF CreateMainPacket, Goto, Rank
<1>5. Sorted(creator.sources, s)
  BY <1>1 DEF Sorted
<1>6. ToSet(s) = ToSet(creator.sources)
  BY <1>3, <1>5, SortedIs DEF CreationInv, Given
<1>7. Keeps(creator, creator', {"sources", "criticals"}) /\ creator'.sources = s /\ creator'.criticals = list
  BY <1>3, <1>4 DEF Keeps, MoreFields, Resting
<1>8. creator'.items = creator.items /\ creator'.concurrent = creator.concurrent /\ MoreFields \subseteq DOMAIN creator'
  BY <1>7 DEF Keeps, MoreFields, Resting
<1>9. Figured(creator') /\ Filed'
  BY <1>3, <1>7, FiguredSame, FiledSame
<1>10. Negative(list) /\ Len(list) > 0 /\ ToSet(list) = ToSet(creator.criticals) \cup {MainPacket}
  <2>1. PICK l \in Seq(Int) : l = creator.criticals /\ \A k \in 1 .. Len(l) : l[k] < 0
    BY <1>3 DEF Packed, Negative
  <2>2. MainPacket = -2
    BY DEF MainPacket
  <2>3. list = Append(l, -2) /\ -2 \in Int
    BY <1>2, <2>1, <2>2
  <2>4. /\ list \in Seq(Int) /\ Len(list) = Len(l) + 1 /\ Len(l) \in Nat
        /\ \A k \in 1 .. Len(l) : list[k] = l[k]
        /\ list[Len(l) + 1] = -2
    BY <2>3, AppendProperties, LenProperties
  <2>5. \A k \in 1 .. Len(list) : list[k] < 0
    <3> TAKE k \in 1 .. Len(list)
    <3>1. PICK m \in Nat : m = Len(l)
      BY <2>4
    <3>2. k \in 1 .. m \/ k = m + 1
      BY <2>4, <3>1
    <3>3. list[m + 1] < 0
      BY <2>4, <3>1
    <3> QED BY <2>1, <2>4, <3>1, <3>2, <3>3
  <2>6. IsList(l)
    BY <2>1, SeqIsList
  <2> QED BY <1>2, <2>1, <2>4, <2>5, <2>6, ListAppend DEF Negative
<1>11. Recorded'
  BY <1>3, <1>6, <1>7, <1>8, <1>10 DEF Packed, Recorded
<1>12. WholeAt'
  BY <1>3, <1>4, <1>8, <1>9, <1>11 DEF WholeAt, Advancing, Early, Deciding, Late
<1> QED BY <1>12 DEF Proceeds

\* What was recorded, and cut up.
LEMMA CutUpSame ==
    ASSUME NEW F, Keeps(creator, creator', F), UNCHANGED before,
           F \cap {"sources", "criticals", "concurrent", "blocks", "blocksize", "sourceblockcount"} = {}
    PROVE  (Recorded => Recorded') /\ (CutUp => CutUp')
<1>1. /\ creator'.sources = creator.sources /\ creator'.criticals = creator.criticals
      /\ creator'.concurrent = creator.concurrent /\ creator'.blocks = creator.blocks
      /\ creator'.blocksize = creator.blocksize /\ creator'.sourceblockcount = creator.sourceblockcount
  BY DEF Keeps, MoreFields, Resting
<1> QED BY <1>1 DEF Recorded, CutUp, InsideOf
LEMMA RecordedSame ==
    ASSUME NEW F, Keeps(creator, creator', F), F \cap {"sources", "criticals", "concurrent"} = {}, Recorded
    PROVE  Recorded'
<1>1. /\ creator'.sources = creator.sources /\ creator'.criticals = creator.criticals
      /\ creator'.concurrent = creator.concurrent
  BY DEF Keeps, MoreFields, Resting
<1> QED BY <1>1 DEF Recorded

\* CreateSourceBlocks: every block lies in a file.
LEMMA BlocksInside ==
    ASSUME NEW name, NEW d, name \in DOMAIN d, IsList(d[name]), NEW size \in Nat \ {0},
           NEW k \in 1 .. CeilDiv(GetFileSize(d, name), size)
    PROVE  LET b == BlocksOf(name, GetFileSize(d, name), size)[k] IN b.file = name /\ InsideOf(b, d, size)
<1>1. PICK s \in Nat : s = GetFileSize(d, name) /\ DOMAIN d[name] = 1 .. s
  BY ListFacts DEF GetFileSize, FileExists
<1>2. PICK z \in Nat : z = size /\ z > 0
  OBVIOUS
<1>3. PICK n \in Nat : n = CeilDiv(s, z)
  BY <1>2, CeilIs
<1>4. k \in 1 .. n
  BY <1>1, <1>2, <1>3
<1>5. (k - 1) * z \in Nat /\ (k - 1) * z < s
  <2>1. z * n < s + z
    BY <1>2, <1>3, CeilIs
  <2>2. PICK i \in Nat : i = k - 1
    BY <1>4
  <2>3. PICK r \in Nat : n = i + 1 + r
    <3>1. n - k \in Nat /\ n = i + 1 + (n - k)
      BY <1>4, <2>2
    <3> QED BY <3>1
  <2>4. PICK x \in Nat : x = i * z
    OBVIOUS
  <2>5. PICK y \in Nat : y = z * r
    OBVIOUS
  <2>6. z * n = x + z + y
    BY <2>3, <2>4, <2>5
  <2> QED BY <2>1, <2>2, <2>4, <2>6
<1>6. PICK o \in Nat : o = (k - 1) * z /\ o < s
  BY <1>5
<1>7. PICK b : b = Block(name, o, IF z < s - o THEN z ELSE s - o)
  OBVIOUS
<1>8. BlocksOf(name, s, z)[k] = b
  BY <1>3, <1>4, <1>6, <1>7 DEF BlocksOf
<1>9. b.file = name /\ b.offset = o /\ b.length = IF z < s - o THEN z ELSE s - o
  BY <1>7 DEF Block
<1>10. /\ b.offset \in Nat /\ b.length \in Nat /\ b.length <= z
       /\ \A j \in 1 .. b.length : b.offset + j \in 1 .. s
  BY <1>2, <1>6, <1>9
<1>11. InsideOf(b, d, z)
  BY <1>1, <1>9, <1>10 DEF InsideOf
<1> QED BY <1>1, <1>2, <1>8, <1>9, <1>11

LEMMA BlocksProceed ==
    ASSUME Solid(disk), CreationInv(at, creator, disk), Advances, WholeAt, UNCHANGED before, CreateSourceBlocks
    PROVE  Proceeds
<1> DEFINE seqs == [i \in DOMAIN creator.sources |->
                      BlocksOf(creator.sources[i], GetFileSize(disk, creator.sources[i]), creator.blocksize)]
<1>1. PICK blocks : blocks = FlattenSeq(seqs)
  OBVIOUS
<1>2. at = "blocks" /\ at' = "layout" /\ UNCHANGED disk /\ creator' = [creator EXCEPT !.blocks = blocks]
  BY <1>1 DEF CreateSourceBlocks, Goto, Only
<1>3. /\ MoreFields \subseteq DOMAIN creator /\ Figured(creator) /\ disk = before
      /\ creator.items = <<>> /\ Filed /\ Recorded
  BY <1>2 DEF WholeAt, Advancing, Early, Deciding
<1>4. /\ Given(creator) /\ Decided(creator) /\ Same(creator, disk) /\ Once(creator.sources)
      /\ ToSet(creator.sources) = ToSet(Names(creator.extrafiles))
  BY <1>2 DEF CreationInv, Deciding
<1>5. IsList(blocks) /\ Len(blocks) = creator.sourceblockcount
  BY <1>1, <1>4, BlocksCounted
<1>6. PICK size \in Nat \ {0} : size = creator.blocksize
  BY <1>4 DEF Decided
<1>7. PICK n \in Nat : n = Len(creator.sources) /\ DOMAIN creator.sources = 1 .. n
  BY <1>4, ListFacts DEF Once
<1>8. \A i \in 1 .. n : /\ creator.sources[i] \in ToSet(creator.sources)
                        /\ creator.sources[i] \in DOMAIN disk /\ IsList(disk[creator.sources[i]])
  <2> TAKE i \in 1 .. n
  <2>1. creator.sources[i] \in ToSet(creator.sources)
    BY <1>7 DEF ToSet
  <2>a. /\ DOMAIN Names(creator.extrafiles) = DOMAIN creator.extrafiles
        /\ \A j \in DOMAIN creator.extrafiles : Names(creator.extrafiles)[j] = creator.extrafiles[j].name
    BY <1>4, NamesAre DEF Given
  <2>b. creator.sources[i] \in ToSet(Names(creator.extrafiles))
    BY <1>4, <2>1
  <2>2. PICK j \in DOMAIN creator.extrafiles : creator.sources[i] = creator.extrafiles[j].name
    BY <2>a, <2>b DEF ToSet
  <2>3. GetFileSize(disk, creator.sources[i]) # 0
    BY <1>4, <2>2 DEF Given, Same
  <2>4. creator.sources[i] \in DOMAIN disk
    BY <2>3 DEF GetFileSize, FileExists
  <2> QED BY <2>1, <2>4 DEF Solid
<1> DEFINE inside(b) == b.file \in ToSet(creator.sources) /\ b.file \in DOMAIN disk /\ InsideOf(b, disk, size)
           T == {b \in UNION {ToSet(seqs[i]) : i \in 1 .. n} : inside(b)}
<1>9. ASSUME NEW i \in 1 .. n PROVE seqs[i] \in Seq(T)
  <2>1. PICK name : name = creator.sources[i]
    OBVIOUS
  <2>2. PICK l : l = BlocksOf(name, GetFileSize(disk, name), size)
    OBVIOUS
  <2>3. seqs[i] = l
    BY <1>6, <1>7, <2>1, <2>2
  <2>4. PICK m \in Nat : m = CeilDiv(GetFileSize(disk, name), size)
    <3>1. GetFileSize(disk, name) \in Nat
      BY <1>8, <2>1, ListFacts DEF GetFileSize
    <3> QED BY <3>1, CeilIs
  <2>5. l = [k \in 1 .. m |-> l[k]]
    BY <2>2, <2>4 DEF BlocksOf
  <2>6. \A k \in 1 .. m : l[k].file = name /\ InsideOf(l[k], disk, size)
    BY <1>8, <2>1, <2>2, <2>4, BlocksInside
  <2>7. \A k \in 1 .. m : inside(l[k])
    BY <1>8, <2>1, <2>6
  <2> HIDE DEF inside
  <2>8. \A k \in 1 .. m : l[k] \in ToSet(l)
    BY <2>5 DEF ToSet
  <2>9. ToSet(l) \subseteq UNION {ToSet(seqs[j]) : j \in 1 .. n}
    BY <2>3
  <2> HIDE DEF seqs
  <2>10. \A k \in 1 .. m : l[k] \in T
    BY <2>7, <2>8, <2>9
  <2> HIDE DEF T
  <2>11. l \in [1 .. m -> T]
    BY <2>5, <2>10
  <2> QED BY <2>3, <2>11
<1>10. PICK q : q = seqs
  OBVIOUS
<1>11. q = [i \in 1 .. n |-> q[i]]
  BY <1>7, <1>10
<1>12. q \in [1 .. n -> Seq(T)]
  <2> HIDE DEF seqs, T
  <2> QED BY <1>9, <1>10, <1>11
<1>13. blocks \in Seq(T)
  <2> HIDE DEF seqs, T
  <2>1. PICK f : Joined(f, T, q, n)
    BY <1>12, FlattenIs
  <2> QED BY <1>1, <1>10, <2>1 DEF Joined
<1>14. \A b \in ToSet(blocks) : inside(b)
  <2> HIDE DEF inside, seqs
  <2>1. \A b \in T : inside(b)
    OBVIOUS
  <2> HIDE DEF T
  <2>2. \A b \in ToSet(blocks) : b \in T
    BY <1>13, ElementOfSeq, LenProperties DEF ToSet
  <2> QED BY <2>1, <2>2
<1>15. Keeps(creator, creator', {"blocks"}) /\ creator'.blocks = blocks
  BY <1>2, <1>3 DEF Keeps, MoreFields, Resting
<1>16. /\ creator'.items = creator.items /\ MoreFields \subseteq DOMAIN creator'
       /\ creator'.sources = creator.sources /\ creator'.blocksize = creator.blocksize
       /\ creator'.sourceblockcount = creator.sourceblockcount
  BY <1>15 DEF Keeps, MoreFields, Resting
<1>17. Figured(creator') /\ Filed' /\ Recorded'
  BY <1>3, <1>15, FiguredSame, FiledSame, RecordedSame
<1>18. CutUp'
  <2> HIDE DEF seqs, T
  <2>1. \A b \in ToSet(blocks) : /\ b.file \in ToSet(creator.sources) /\ b.file \in DOMAIN before
                                 /\ InsideOf(b, before, creator.blocksize)
    BY <1>3, <1>6, <1>14
  <2> QED BY <1>4, <1>5, <1>15, <1>16, <2>1 DEF CutUp, Decided
<1>19. WholeAt'
  BY <1>2, <1>3, <1>16, <1>17, <1>18 DEF WholeAt, Advancing, Early, Deciding, Late
<1> QED BY <1>19 DEF Proceeds

\* AllocateFiles: every exponent is in one of the files.
LEMMA LayoutProceeds ==
    ASSUME CreationInv(at, creator, disk), WholeAt, UNCHANGED before, AllocateFiles
    PROVE  Proceeds
<1>1. PICK a : a = Allocations
  OBVIOUS
<1>2. /\ at = "layout" /\ UNCHANGED disk
      /\ \/ at' = "hung" /\ UNCHANGED creator
         \/ at' = "outputs" /\ ~Hangs /\ creator' = [creator EXCEPT !.allocations = a]
  BY <1>1 DEF AllocateFiles, Goto
<1>3. /\ MoreFields \subseteq DOMAIN creator /\ Figured(creator) /\ disk = before
      /\ creator.items = <<>> /\ Filed /\ Recorded /\ CutUp
  BY <1>2 DEF WholeAt, Advancing, Early, Deciding
<1>4. CASE at' = "hung" /\ UNCHANGED creator
  <2>1. WholeAt'
    BY <1>3, <1>4 DEF WholeAt, Advancing, Early, Deciding, Late
  <2> QED BY <2>1 DEF Proceeds
<1>5. CASE at' = "outputs" /\ ~Hangs /\ creator' = [creator EXCEPT !.allocations = a]
  <2>1. Given(creator) /\ Decided(creator) /\ creator.next = 1
    BY <1>2 DEF CreationInv
  <2>2. /\ creator.firstblock \in Nat /\ creator.recoveryblockcount \in Nat /\ creator.recoveryblockcount <= Count
        /\ creator.firstblock + creator.recoveryblockcount <= Count
    <3>1. Count \in Nat
      BY CountIsPower
    <3> QED BY <1>3, <3>1 DEF Figured
  <2>3. \E m, f : Allotted(f, Allocations, creator.firstblock, creator.recoveryblockcount, m)
    BY <1>3, <1>5, <2>1, <2>2, AllocationsSum
  <2>4. PICK m, f : Allotted(f, a, creator.firstblock, creator.recoveryblockcount, m)
    BY <1>1, <2>3
  <2>5. Keeps(creator, creator', {"allocations"}) /\ creator'.allocations = a
    BY <1>3, <1>5 DEF Keeps, MoreFields, Resting
  <2>6. /\ creator'.items = <<>> /\ MoreFields \subseteq DOMAIN creator' /\ creator'.next = 1
        /\ creator'.firstblock = creator.firstblock /\ creator'.recoveryblockcount = creator.recoveryblockcount
        /\ creator'.criticals = creator.criticals /\ creator'.blocksize = creator.blocksize
    BY <1>3, <2>1, <2>5 DEF Keeps, MoreFields, Resting
  <2>7. Figured(creator') /\ Recorded' /\ CutUp'
    BY <1>3, <2>5, FiguredSame, CutUpSame
  <2>8. Intact'
    BY <1>2, <1>3 DEF Intact
  <2>9. f[0] = creator.firstblock /\ 1 \in 1 .. m
    BY <2>4 DEF Allotted
  <2>10. Stowed(<<>>, a, creator.firstblock, creator.firstblock, 1)
    BY <2>2, StowedNone
  <2>11. \A x : Items(x)' = Items(x)
    BY <2>6, ItemsSame
  <2>12. (Stowed(creator.items, creator.allocations, creator.firstblock, f[creator.next - 1], creator.next))'
    <3>1. 1 - 1 = 0
      OBVIOUS
    <3>2. f[creator'.next - 1] = creator.firstblock
      BY <2>6, <2>9, <3>1
    <3> QED BY <2>5, <2>6, <2>10, <2>11, <3>2 DEF Stowed
  <2>13. ProducingAt(f, m)'
    <3>1. \A j \in 1 .. 1 - 1 : FALSE
      OBVIOUS
    <3> QED BY <2>4, <2>5, <2>6, <2>9, <2>12, <3>1 DEF ProducingAt
  <2>14. Producing'
    BY <2>8, <2>13 DEF Producing
  <2>15. WholeAt'
    BY <1>2, <1>3, <1>5, <2>6, <2>7, <2>14 DEF WholeAt, Advancing, Early, Deciding, Late
  <2> QED BY <2>15 DEF Proceeds
<1> QED BY <1>2, <1>4, <1>5

\* The items of a file, in the order of its packets.
LEMMA ItemsOrdered ==
    ASSUME NEW a, a.count \in Nat, a.exponent \in Nat, NEW e \in Nat, a.count > 0 => e = a.exponent,
           Recorded, creator.blocksize \in Nat
    PROVE  /\ Whole(Items(a)) /\ Ordered(PacketList(Items(a)), e, e + a.count)
           /\ FileSize(a) \in Nat
<1>1. /\ Tiles(Items(a), FileSize(a)) /\ Len(Items(a)) = Len(Packets(a))
      /\ \A i \in DOMAIN Items(a) : Items(a)[i].packet = Packets(a)[i]
  BY ItemsAre DEF Recorded
<1>2. Ordered(Packets(a), e, e + a.count)
  BY PacketsHold DEF Recorded
<1>3. PICK p \in Seq(Int) : p = Packets(a)
  BY <1>2 DEF Ordered
<1>4. PICK l : l = Items(a)
  OBVIOUS
<1>5. IsList(l) /\ \A i \in DOMAIN l : l[i].packet \in Int
  BY <1>1, <1>4 DEF Tiles
<1>6. PICK n \in Nat : n = Len(p) /\ DOMAIN l = 1 .. n /\ p = [i \in 1 .. n |-> p[i]]
  <2>1. DOMAIN l = 1 .. Len(l)
    BY <1>5, ListFacts
  <2> QED BY <1>1, <1>3, <1>4, <2>1, LenProperties
<1>7. PacketList(l) = [i \in 1 .. n |-> p[i]]
  <2>1. \A i \in 1 .. n : l[i].packet = p[i]
    BY <1>1, <1>3, <1>4, <1>6
  <2> QED BY <1>6, <2>1 DEF PacketList
<1>8. PacketList(Items(a)) = Packets(a)
  BY <1>3, <1>4, <1>6, <1>7
<1>9. Whole(Items(a)) /\ FileSize(a) \in Nat
  BY <1>1, <1>4, <1>5 DEF Whole, Tiles
<1> QED BY <1>2, <1>8, <1>9

\* The next file: what has been made so far stays as it was made.
LEMMA OneMoreLaid ==
    ASSUME NEW f, NEW m, ProducingAt(f, m), Recorded, creator.blocksize \in Nat \ {0}, creator.firstblock \in Nat,
           NEW a, a = creator.allocations[creator.next],
           NEW items, items = creator.items \o Items(a), NEW e, e = Create(disk, a.file, FileSize(a))
    PROVE  /\ Stowed(items, creator.allocations, creator.firstblock, f[creator.next], creator.next + 1)
           /\ \A j \in 1 .. creator.next : LaidDown(creator.allocations[j], e)
           /\ Intact => \A name \in DOMAIN before \ FilesMade : name \in DOMAIN e /\ e[name] = before[name]
<1>1. PICK all : all = creator.allocations
  OBVIOUS
<1>2. PICK k \in Nat \ {0} : k = creator.next /\ k \in 1 .. m
  BY SMTT(30) DEF ProducingAt, Allotted
<1>3. /\ f \in [0 .. m -> Nat] /\ all = [i \in 1 .. m |-> all[i]] /\ m \in Nat
      /\ a.count \in Nat /\ a.exponent \in Nat
      /\ f[k] = f[k - 1] + a.count /\ (a.count > 0 => a.exponent = f[k - 1])
      /\ \A i, j \in 1 .. m : all[i].file = all[j].file => all[i] = all[j]
  BY <1>1, <1>2 DEF ProducingAt, Allotted
<1>4. PICK lo \in Nat : lo = f[k - 1]
  <2>1. k - 1 \in 0 .. m
    BY <1>2, <1>3
  <2> QED BY <1>3, <2>1
<1>5. Whole(Items(a)) /\ Ordered(PacketList(Items(a)), lo, lo + a.count) /\ FileSize(a) \in Nat
  BY <1>3, <1>4, ItemsOrdered
<1>6. Stowed(creator.items, all, creator.firstblock, lo, k)
  BY <1>1, <1>2, <1>4 DEF ProducingAt
<1>7. Stowed(items, all, creator.firstblock, lo + a.count, k + 1)
  <2>1. a = all[k]
    BY <1>1, <1>2
  <2>2. lo + a.count \in Int
    BY <1>3
  <2> QED BY <1>5, <1>6, <2>1, <2>2, StowedNext
<1>8. PICK size \in Nat : size = FileSize(a)
  BY <1>5
<1>9. /\ DOMAIN e = DOMAIN disk \cup {a.file} /\ DOMAIN e[a.file] = 1 .. size
      /\ \A name \in DOMAIN disk : name # a.file => e[name] = disk[name]
  BY <1>8 DEF Create, Put
<1>10. ASSUME NEW j \in 1 .. k PROVE LaidDown(all[j], e)
  <2>1. CASE all[j].file = a.file
    <3>0. a = all[k] /\ j \in 1 .. m
      BY <1>1, <1>2, <1>3
    <3>1. all[j] = a
      BY <1>2, <1>3, <2>1, <3>0, SMTT(30)
    <3> QED BY <1>8, <1>9, <3>1 DEF LaidDown
  <2>2. CASE all[j].file # a.file
    <3>1. j \in 1 .. k - 1
      BY <1>1, <1>2, <2>2
    <3>2. LaidDown(all[j], disk)
      BY <1>1, <1>2, <3>1 DEF ProducingAt
    <3> QED BY <1>9, <2>2, <3>2 DEF LaidDown
  <2> QED BY <2>1, <2>2, SMTT(30)
<1>11. a.file \in FilesMade
  <2>1. k \in DOMAIN all
    BY <1>2, <1>3, SMTT(30)
  <2> QED BY <1>1, <1>2, <2>1 DEF FilesMade
<1>12. Intact => \A name \in DOMAIN before \ FilesMade : name \in DOMAIN e /\ e[name] = before[name]
  BY <1>9, <1>11 DEF Intact
<1> QED BY <1>1, <1>2, <1>3, <1>4, <1>7, <1>10, <1>12, Zenon

\* InitialiseOutputFiles.
LEMMA OutputsProceed ==
    ASSUME CreationInv(at, creator, disk), WholeAt, UNCHANGED before, InitialiseOutputFiles
    PROVE  Proceeds
<1>1. PICK a : a = creator.allocations[creator.next]
  OBVIOUS
<1>2. PICK n : n = Len(creator.allocations)
  OBVIOUS
<1>3. PICK items : items = creator.items \o Items(a)
  OBVIOUS
<1>4. /\ at = "outputs" /\ MoreFields \subseteq DOMAIN creator /\ Figured(creator) /\ Recorded /\ CutUp /\ Producing
  BY DEF InitialiseOutputFiles, WholeAt, Advancing, Late
<1>5. \/ /\ disk' = Create(disk, a.file, FileSize(a))
         /\ creator' = [creator EXCEPT !.items = items,
                                       !.next = IF creator.next = n THEN 1 ELSE creator.next + 1]
         /\ \/ creator.next # n /\ at' = "outputs"
            \/ creator.next = n /\ creator.dummy /\ at' = "close"
            \/ creator.next = n /\ at' = "process" /\ creator.recoveryblockcount > 0
            \/ creator.next = n /\ at' = "criticals" /\ ~(creator.recoveryblockcount > 0)
      \/ at' = "end" /\ result' = "FileIOError"
  <2>1. "next" \in DOMAIN creator /\ "items" \in DOMAIN creator
    BY <1>4 DEF MoreFields, Resting
  <2> QED BY <1>1, <1>2, <1>3, <2>1 DEF InitialiseOutputFiles, Goto, End
<1>6. CASE at' = "end" /\ result' = "FileIOError"
  BY <1>6 DEF Proceeds
<1>7. CASE /\ disk' = Create(disk, a.file, FileSize(a))
           /\ creator' = [creator EXCEPT !.items = items,
                                         !.next = IF creator.next = n THEN 1 ELSE creator.next + 1]
           /\ \/ creator.next # n /\ at' = "outputs"
              \/ creator.next = n /\ creator.dummy /\ at' = "close"
              \/ creator.next = n /\ at' = "process" /\ creator.recoveryblockcount > 0
              \/ creator.next = n /\ at' = "criticals" /\ ~(creator.recoveryblockcount > 0)
  <2>1. PICK m, f : ProducingAt(f, m)
    BY <1>4 DEF Producing
  <2>2. creator.blocksize \in Nat \ {0}
    BY <1>4 DEF CreationInv, Decided
  <2>3. /\ Stowed(items, creator.allocations, creator.firstblock, f[creator.next], creator.next + 1)
        /\ \A j \in 1 .. creator.next : LaidDown(creator.allocations[j], disk')
        /\ \A name \in DOMAIN before \ FilesMade : name \in DOMAIN disk' /\ disk'[name] = before[name]
    <3>1. PICK e : e = Create(disk, a.file, FileSize(a))
      OBVIOUS
    <3>2. creator.firstblock \in Nat
      BY <1>4 DEF Figured
    <3>3. Intact
      BY <1>4 DEF Producing
    <3>4. /\ Stowed(items, creator.allocations, creator.firstblock, f[creator.next], creator.next + 1)
          /\ \A j \in 1 .. creator.next : LaidDown(creator.allocations[j], e)
          /\ \A name \in DOMAIN before \ FilesMade : name \in DOMAIN e /\ e[name] = before[name]
      BY <1>1, <1>3, <1>4, <2>1, <2>2, <3>1, <3>2, <3>3, OneMoreLaid
    <3> QED BY <1>7, <3>1, <3>4
  <2>4. /\ Keeps(creator, creator', {"items", "next"}) /\ creator'.items = items
        /\ creator'.next = IF creator.next = n THEN 1 ELSE creator.next + 1
    BY <1>4, <1>7 DEF Keeps, MoreFields, Resting
  <2>5. AtRest
    BY <2>4 DEF Keeps, MoreFields, AtRest, Resting
  <2>6. /\ creator'.allocations = creator.allocations /\ creator'.firstblock = creator.firstblock
        /\ creator'.recoveryblockcount = creator.recoveryblockcount /\ MoreFields \subseteq DOMAIN creator'
        /\ creator'.blocksize = creator.blocksize /\ creator'.chunksize = creator.chunksize
        /\ creator'.blockoffset = creator.blockoffset /\ creator'.criticals = creator.criticals
        /\ creator'.dummy = creator.dummy
    BY <2>4 DEF Keeps, MoreFields, Resting
  <2>7. /\ FilesMade' = FilesMade /\ CutUp' /\ Recorded' /\ \A x : Extent(x)' = Extent(x)
        /\ \A x : Items(x)' = Items(x) /\ FileSize(x)' = FileSize(x)
    BY <1>4, <2>5, RestingSame
  <2>8. Figured(creator')
    BY <1>4, <2>4, FiguredSame
  <2>9. Intact'
    BY <2>3, <2>7 DEF Intact
  <2>10. /\ Allotted(f, creator.allocations, creator.firstblock, creator.recoveryblockcount, m)
         /\ creator.next \in 1 .. m
    BY <2>1 DEF ProducingAt
  <2>11. n = m /\ m \in Nat
    <3>1. m \in Nat /\ creator.allocations = [k \in 1 .. m |-> creator.allocations[k]]
      BY <2>10 DEF Allotted
    <3> QED BY <1>2, <3>1, ListOf
  <2>12. CASE creator.next # n /\ at' = "outputs"
    <3>1. creator'.next = creator.next + 1 /\ creator'.next \in 1 .. m /\ creator'.next - 1 = creator.next
      BY <2>4, <2>10, <2>11, <2>12
    <3>2. (Stowed(creator.items, creator.allocations, creator.firstblock, f[creator.next - 1], creator.next))'
      BY <2>3, <2>4, <2>6, <2>7, <3>1 DEF Stowed
    <3>3. (\A j \in 1 .. creator.next - 1 : LaidDown(creator.allocations[j], disk))'
      BY <2>3, <2>6, <2>7, <3>1 DEF LaidDown
    <3>4. ProducingAt(f, m)'
      BY <2>6, <2>10, <3>1, <3>2, <3>3 DEF ProducingAt
    <3>5. Producing'
      BY <2>9, <3>4 DEF Producing
    <3>6. WholeAt'
      BY <2>6, <2>7, <2>8, <2>12, <3>5 DEF WholeAt, Advancing, Early, Deciding, Late
    <3> QED BY <3>6 DEF Proceeds
  <2>13. CASE /\ creator.next = n
              /\ \/ creator.dummy /\ at' = "close"
                 \/ at' = "process" /\ creator.recoveryblockcount > 0
                 \/ at' = "criticals" /\ ~(creator.recoveryblockcount > 0)
    <3>1. f[m] = creator.firstblock + creator.recoveryblockcount
      BY <2>10 DEF Allotted
    <3>2. /\ Whole(items) /\ Ordered(PacketList(items), creator.firstblock, creator.firstblock + creator.recoveryblockcount)
          /\ ToSet(items) = UNION {ToSet(Items(creator.allocations[j])) : j \in 1 .. m}
      <4>1. m + 1 - 1 = m
        BY <2>11
      <4> QED BY <2>3, <2>11, <2>13, <3>1, <4>1 DEF Stowed
    <3>3. \A j \in 1 .. m : LaidDown(creator.allocations[j], disk')
      BY <2>3, <2>11, <2>13
    <3>4. Occupied(items, FilesMade, disk') /\ Held(items)
      BY <1>4, <2>2, <2>10, <2>11, <3>2, <3>3, OutputsReady
    <3>5. (Occupied(creator.items, FilesMade, disk))'
      BY <2>4, <2>7, <3>4 DEF Occupied
    <3>6. (Held(creator.items))'
      BY <2>4, <2>6, <2>7, <3>4 DEF Held
    <3>7. (Stored(creator.items, disk))'
      BY <2>4, <2>6, <3>2, <3>5, <3>6 DEF Stored
    <3>8. Amounts'
      BY <1>4, <2>2, <2>6 DEF Amounts, Figured
    <3>9. creator.blockoffset = 0
      BY <1>4 DEF Figured
    <3>10. (DataUpTo(creator.items, disk, creator.blockoffset))'
      <4>1. 1 .. 0 = {}
        OBVIOUS
      <4> QED BY <2>6, <3>9, <4>1 DEF DataUpTo
    <3>11. ASSUME ~(creator.recoveryblockcount > 0)
           PROVE  \A x \in ToSet(items) : ~IsRecovery(x.packet)
      <4>1. creator.recoveryblockcount = 0 /\ creator.firstblock \in Nat
        BY <1>4, <3>11 DEF Figured
      <4>2. PICK first \in Int : first = creator.firstblock /\ Ordered(PacketList(items), first, first)
        <5>1. creator.firstblock + 0 = creator.firstblock
          BY <4>1
        <5> QED BY <3>2, <4>1, <5>1
      <4>3. PICK l : l = ItemsOf(items, TRUE)
        OBVIOUS
      <4>4. /\ Len(l) = first - first /\ \A x \in ToSet(items) : IsRecovery(x.packet) = TRUE => Occurs(x, l)
        BY <3>2, <4>2, <4>3, ItemsOfAre
      <4>5. \A x \in ToSet(items) : ~Occurs(x, l)
        BY <4>2, <4>4 DEF Occurs
      <4>6. \A x \in ToSet(items) : IsRecovery(x.packet) \in BOOLEAN
        BY DEF IsRecovery
      <4> QED BY <4>4, <4>5, <4>6
    <3>12. ASSUME ~(creator.recoveryblockcount > 0)
           PROVE  (DataUpTo(creator.items, disk, creator.blocksize) /\ PacketsIn(creator.items, disk, TRUE))'
      BY <2>4, <3>11, <3>12 DEF DataUpTo, PacketsIn
    <3>13. Filling'
      BY <2>6, <2>9, <2>13, <3>7, <3>8, <3>10, <3>12 DEF Filling
    <3>14. WholeAt'
      BY <2>6, <2>7, <2>13, <3>13 DEF WholeAt, Advancing, Early, Deciding, Late
    <3> QED BY <3>14 DEF Proceeds
  <2> QED BY <1>7, <2>12, <2>13
<1> QED BY <1>5, <1>6, <1>7

\* CreateProcessData: one more chunk of all the recovery blocks is written.
LEMMA DataProceeds ==
    ASSUME WholeAt, UNCHANGED before, CreateProcessData
    PROVE  Proceeds
<1>1. PICK after : after = creator.blockoffset + ChunkLength(creator)
  OBVIOUS
<1>2. /\ at = "process" /\ MoreFields \subseteq DOMAIN creator /\ Recorded /\ CutUp /\ Filling
  BY DEF CreateProcessData, WholeAt, Late
<1>3. \/ /\ disk' = AllWrites(disk, RecoveryWrites) /\ creator' = [creator EXCEPT !.blockoffset = after]
         /\ IF after < creator.blocksize THEN at' = "process" ELSE at' = "headers"
      \/ at' = "end" /\ result' = "FileIOError"
  BY <1>1 DEF CreateProcessData, Goto, End
<1>4. CASE at' = "end" /\ result' = "FileIOError"
  BY <1>4 DEF Proceeds
<1>5. CASE /\ disk' = AllWrites(disk, RecoveryWrites) /\ creator' = [creator EXCEPT !.blockoffset = after]
           /\ IF after < creator.blocksize THEN at' = "process" ELSE at' = "headers"
  <2>1. Keeps(creator, creator', {"blockoffset"}) /\ creator'.blockoffset = after
    BY <1>2, <1>5 DEF Keeps, MoreFields, Resting
  <2>2. AtRest
    BY <2>1 DEF Keeps, MoreFields, AtRest, Resting
  <2>3. /\ creator'.items = creator.items /\ MoreFields \subseteq DOMAIN creator'
        /\ creator'.blocksize = creator.blocksize /\ creator'.dummy = creator.dummy
        /\ creator'.recoveryblockcount = creator.recoveryblockcount
    BY <2>1 DEF Keeps, MoreFields, Resting
  <2>4. FilesMade' = FilesMade /\ (Separate' <=> Separate) /\ CutUp' /\ Recorded' /\ \A e : Due(e)' = Due(e)
    BY <1>2, <2>2, RestingSame
  <2>5. ASSUME Separate, ~creator.dummy
        PROVE  /\ Amounts' /\ (Stored(creator.items, disk))' /\ Intact' /\ creator.recoveryblockcount > 0
               /\ (DataUpTo(creator.items, disk, creator.blockoffset))'
               /\ after \in Nat /\ after <= creator.blocksize /\ creator.blocksize \in Nat
    <3>1. /\ Amounts /\ Stored(creator.items, disk) /\ Intact /\ creator.recoveryblockcount > 0
          /\ DataUpTo(creator.items, disk, creator.blockoffset)
      BY <1>2, <2>5 DEF Filling
    <3>2. after \in Nat /\ after <= creator.blocksize /\ creator.blocksize \in Nat
      <4>1. ChunkLength(creator) \in Nat /\ after <= creator.blocksize
        BY <1>1, <3>1, ChunkIs
      <4> QED BY <1>1, <3>1, <4>1 DEF Amounts
    <3>3. PICK e : e = AllWrites(disk, RecoveryWrites)
      OBVIOUS
    <3>4. /\ DOMAIN e = DOMAIN disk
          /\ \A name \in DOMAIN disk :
               DOMAIN e[name] = DOMAIN disk[name] /\ (name \notin FilesMade => e[name] = disk[name])
          /\ DataUpTo(creator.items, e, after)
      BY <1>1, <1>2, <2>5, <3>1, <3>3, DataWritten DEF Stored
    <3>5. SameCells(disk, disk') /\ DataUpTo(creator.items, disk', after)
      BY <1>5, <3>3, <3>4 DEF SameCells
    <3>6. Amounts' /\ (Stored(creator.items, disk))' /\ Intact'
      BY <2>1, <2>2, <2>3, <3>1, <3>2, <3>5, FillingKept
    <3>7. (DataUpTo(creator.items, disk, creator.blockoffset))'
      BY <2>1, <2>3, <2>4, <3>5 DEF DataUpTo
    <3> QED BY <3>1, <3>2, <3>6, <3>7
  <2>6. ASSUME Separate, ~creator.dummy, ~(after < creator.blocksize)
        PROVE  (DataUpTo(creator.items, disk, creator.blocksize))'
    <3>1. after = creator.blocksize
      BY <2>5, <2>6
    <3>2. (DataUpTo(creator.items, disk, creator.blockoffset))'
      BY <2>5, <2>6
    <3>3. creator'.blockoffset = creator'.blocksize
      BY <2>1, <2>3, <3>1
    <3> QED BY <3>2, <3>3 DEF DataUpTo
  <2>7. Filling'
    BY <1>5, <2>3, <2>4, <2>5, <2>6 DEF Filling
  <2>8. WholeAt'
    BY <1>5, <2>3, <2>4, <2>7 DEF WholeAt, Advancing, Early, Deciding, Late
  <2> QED BY <2>8 DEF Proceeds
<1> QED BY <1>3, <1>4, <1>5

\* Headers or critical packets: the data stays, and so do the packets that are there.
LEMMA PacketsProceed ==
    ASSUME WholeAt, UNCHANGED <<creator, before>>, NEW which \in BOOLEAN,
           at = IF which THEN "headers" ELSE "criticals", at' = IF which THEN "criticals" ELSE "close",
           disk' = AllWrites(disk, PacketWrites(ItemsOf(creator.items, which)))
    PROVE  Proceeds
<1>1. MoreFields \subseteq DOMAIN creator /\ Recorded /\ CutUp /\ Filling
  BY DEF WholeAt, Late
<1>2. AtRest
  BY DEF AtRest
<1>3. FilesMade' = FilesMade /\ (Separate' <=> Separate) /\ CutUp' /\ Recorded' /\ \A e : Due(e)' = Due(e)
  BY <1>1, <1>2, RestingSame
<1>4. ASSUME Separate, ~creator.dummy
      PROVE  /\ Amounts' /\ (Stored(creator.items, disk))' /\ Intact'
             /\ (DataUpTo(creator.items, disk, creator.blocksize))'
             /\ (PacketsIn(creator.items, disk, which))'
             /\ PacketsIn(creator.items, disk, ~which) => (PacketsIn(creator.items, disk, ~which))'
  <2>1. /\ Amounts /\ Stored(creator.items, disk) /\ Intact
        /\ DataUpTo(creator.items, disk, creator.blocksize)
    BY <1>1, <1>4 DEF Filling
  <2>2. creator.blocksize \in Nat /\ creator.blockoffset \in Nat /\ creator.blockoffset <= creator.blocksize
    BY <2>1 DEF Amounts
  <2>3. PICK e : e = AllWrites(disk, PacketWrites(ItemsOf(creator.items, which)))
    OBVIOUS
  <2>4. /\ SameCells(disk, e) /\ DataUpTo(creator.items, e, creator.blocksize) /\ PacketsIn(creator.items, e, which)
        /\ PacketsIn(creator.items, disk, ~which) => PacketsIn(creator.items, e, ~which)
    BY <2>1, <2>2, <2>3, PacketsFill
  <2>5. Amounts' /\ (Stored(creator.items, disk))' /\ Intact'
    BY <1>2, <2>1, <2>2, <2>3, <2>4, FillingKept
  <2>6. (DataUpTo(creator.items, disk, creator.blocksize))'
    BY <1>3, <2>3, <2>4 DEF DataUpTo
  <2> QED BY <2>3, <2>4, <2>5, <2>6 DEF PacketsIn
<1>5. CASE which
  <2>1. at' = "criticals"
    BY <1>5
  <2>2. Filling'
    BY <1>3, <1>4, <1>5, <2>1 DEF Filling
  <2>3. WholeAt'
    BY <1>1, <1>3, <2>1, <2>2 DEF WholeAt, Advancing, Early, Deciding, Late
  <2> QED BY <2>3 DEF Proceeds
<1>6. CASE ~which
  <2>1. at = "criticals" /\ at' = "close" /\ which = FALSE
    BY <1>6
  <2>2. Separate /\ ~creator.dummy => PacketsIn(creator.items, disk, TRUE)
    BY <1>1, <2>1 DEF Filling
  <2>3. Separate /\ ~creator.dummy => (PacketsIn(creator.items, disk, TRUE) /\ PacketsIn(creator.items, disk, FALSE))'
    BY <1>4, <2>1, <2>2
  <2>4. Filling'
    BY <1>3, <1>4, <2>1, <2>3 DEF Filling
  <2>5. WholeAt'
    BY <1>1, <1>3, <2>1, <2>4 DEF WholeAt, Advancing, Early, Deciding, Late
  <2> QED BY <2>5 DEF Proceeds
<1> QED BY <1>5, <1>6

LEMMA HeadersProceed ==
    ASSUME WholeAt, UNCHANGED before, WriteRecoveryPacketHeaders \/ WriteCriticalPackets
    PROVE  Proceeds
<1>1. /\ UNCHANGED creator
      /\ \/ /\ at = "headers" /\ at' = "criticals"
            /\ disk' = AllWrites(disk, PacketWrites(ItemsOf(creator.items, TRUE)))
         \/ /\ at = "criticals" /\ at' = "close"
            /\ disk' = AllWrites(disk, PacketWrites(ItemsOf(creator.items, FALSE)))
         \/ at' = "end" /\ result' = "FileIOError"
  BY DEF WriteRecoveryPacketHeaders, WriteCriticalPackets, WritePackets, RecoveryItems, CriticalItems, Goto, End
<1>2. CASE at' = "end" /\ result' = "FileIOError"
  BY <1>2 DEF Proceeds
<1>3. CASE at = "headers" /\ at' = "criticals" /\ disk' = AllWrites(disk, PacketWrites(ItemsOf(creator.items, TRUE)))
  <2>1. PICK which \in BOOLEAN : which = TRUE
    OBVIOUS
  <2> QED BY <1>1, <1>3, <2>1, PacketsProceed
<1>4. CASE at = "criticals" /\ at' = "close" /\ disk' = AllWrites(disk, PacketWrites(ItemsOf(creator.items, FALSE)))
  <2>1. PICK which \in BOOLEAN : which = FALSE
    OBVIOUS
  <2> QED BY <1>1, <1>4, <2>1, PacketsProceed
<1> QED BY <1>1, <1>2, <1>3, <1>4

\* CloseFiles: all is there.
LEMMA CloseDone ==
    ASSUME WholeAt, UNCHANGED before, CloseFiles
    PROVE  CreatedWhole'
<1>1. at = "close" /\ UNCHANGED <<disk, creator>>
  BY DEF CloseFiles
<1>2. Recorded /\ CutUp /\ Filling
  BY <1>1 DEF WholeAt, Late
<1>3. Separate' <=> Separate
  BY <1>1, RestingSame DEF AtRest
<1>4. ASSUME Separate, ~creator.dummy PROVE AsDue'
  <2>1. /\ Amounts /\ Stored(creator.items, disk) /\ DataUpTo(creator.items, disk, creator.blocksize)
        /\ PacketsIn(creator.items, disk, TRUE) /\ PacketsIn(creator.items, disk, FALSE)
    BY <1>1, <1>2, <1>4 DEF Filling
  <2>2. Complete(creator.items, disk) /\ Held(creator.items)
    BY <2>1 DEF Complete, Stored
  <2>3. AsDue
    BY <1>2, <1>4, <2>1, <2>2, AllFound
  <2> QED BY <1>1, <2>3, AsDueSame
<1>5. (CreatedWhole <=> (at = "end" /\ Creators /\ result = "Success" /\ ~creator.dummy /\ Separate => AsDue))'
  BY AsDueIs, PTL
<1> QED BY <1>1, <1>3, <1>4, <1>5

-----------------------------------------------------------------------------
(* Every step of the program keeps the invariant *)

LEMMA NotThere == ASSUME at # "end" PROVE CreatedWhole
BY AsDueIs

LEMMA InitWhole == Init => WholeInv
<1> SUFFICES ASSUME Init PROVE WholeInv
  OBVIOUS
<1>1. at = "parse"
  BY DEF Init
<1> QED BY <1>1, NotThere DEF WholeInv, CreatePlaces

\* The next state is neither a place of a creation nor the end of one.
LEMMA Elsewhere ==
    ASSUME at' \notin CreatePlaces, at' # "end" \/ ~Creating(commandline') \/ result' # "Success"
    PROVE  WholeInv'
<1>1. (CreatedWhole <=> (at = "end" /\ Creators /\ result = "Success" /\ ~creator.dummy /\ Separate => AsDue))'
  BY AsDueIs, PTL
<1>2. Creators' => Creating(commandline')
  BY DEF Creators, Creating
<1>3. CreatedWhole'
  BY <1>1, <1>2
<1> QED BY <1>3 DEF WholeInv

\* Dispatch: the figures that the creation begins with.
LEMMA FiguredFirst ==
    ASSUME NEW s, s.ok, Setting(s), NEW c, c = Defaults(s), c.ok, Creating(c)
    PROVE  Figured(NewCreator(c)) /\ MoreFields \subseteq DOMAIN NewCreator(c) /\ NewCreator(c).items = <<>>
<1>1. SettingFields \subseteq DOMAIN s /\ Figures(s)
  BY DEF Setting
<1>2. s.parfile # NoName
  BY <1>1 DEF Defaults, Refused, SettingFields
<1>3. Creating(s)
  <2> SUFFICES ASSUME ~Creating(s) PROVE FALSE
    OBVIOUS
  <2>1. c.operation = s.operation
    BY <1>1, <1>2 DEF Defaults, SettingFields
  <2> QED BY <2>1 DEF Creating
<1>4. PICK g : g = SourcesGiven(s)
  OBVIOUS
<1>5. PICK e : e = CreateDefaults(s)
  OBVIOUS
<1>6. DOMAIN g = DOMAIN s /\ \A x \in SettingFields \ {"ok", "extrafiles"} : g[x] = s[x]
  BY <1>1, <1>4 DEF SourcesGiven, Provided, Refused, SettingFields
<1>7. DOMAIN e = DOMAIN s /\ \A x \in {"firstblock", "recoveryblockcount", "memorylimit"} : e[x] = s[x]
  BY <1>1, <1>4, <1>5, <1>6 DEF CreateDefaults, SettingFields
<1>8. PICK m : m = IF e.memorylimit = 0 THEN 64 ELSE e.memorylimit
  OBVIOUS
<1>9. c.firstblock = s.firstblock /\ c.recoveryblockcount = s.recoveryblockcount /\ c.memorylimit = Megabyte * m
  BY <1>1, <1>2, <1>3, <1>5, <1>7, <1>8 DEF Defaults, SettingFields
<1>10. /\ s.firstblock \in Nat /\ s.firstblock <= Half
       /\ s.recoveryblockcount \in Nat /\ s.recoveryblockcount <= Half /\ s.memorylimit \in Nat
  BY <1>1 DEF Figures
<1>11. m \in Nat /\ Megabyte \in Nat
  BY <1>7, <1>8, <1>10, CreateAssumption
<1>12. Megabyte * m \in Nat
  BY <1>11
<1>13. c.firstblock + c.recoveryblockcount <= Count
  BY <1>9, <1>10, CountIsPower
<1>14. PICK q : q = NewCreator(c)
  OBVIOUS
<1>15. /\ MoreFields \subseteq DOMAIN q /\ q.items = <<>> /\ q.chunksize = 0 /\ q.blockoffset = 0
       /\ q.firstblock = c.firstblock /\ q.recoveryblockcount = c.recoveryblockcount
       /\ q.memorylimit = c.memorylimit
  BY <1>14 DEF NewCreator, MoreFields, Resting
<1> QED BY <1>9, <1>10, <1>12, <1>13, <1>14, <1>15 DEF Figured

LEMMA DispatchWhole ==
    ASSUME PlanInv, Dispatch
    PROVE  WholeInv'
<1>1. PICK c : c = IF commandline.ok THEN Defaults(commandline) ELSE commandline
  OBVIOUS
<1>2. /\ at = "parse" /\ before' = disk /\ disk' = disk
      /\ \/ at' = "end" /\ result' = "InvalidCommandLineArguments"
         \/ at' = "sizes" /\ c.ok /\ Creating(c) /\ creator' = NewCreator(c)
         \/ at' = "load"
  BY <1>1 DEF Dispatch, End, Goto
<1>3. CASE at' = "end" /\ result' = "InvalidCommandLineArguments"
  BY <1>3, Elsewhere DEF CreatePlaces
<1>4. CASE at' = "load"
  BY <1>4, Elsewhere DEF CreatePlaces
<1>5. CASE at' = "sizes" /\ c.ok /\ Creating(c) /\ creator' = NewCreator(c)
  <2>1. commandline.ok /\ c = Defaults(commandline)
    BY <1>1, <1>5
  <2>2. Setting(commandline)
    BY <1>2 DEF PlanInv, Reading
  <2>3. Figured(creator') /\ MoreFields \subseteq DOMAIN creator' /\ creator'.items = <<>>
    BY <1>5, <2>1, <2>2, FiguredFirst
  <2>4. WholeAt'
    BY <1>2, <1>5, <2>3 DEF WholeAt, Advancing, Early, Deciding, Late
  <2>5. (at # "end" => CreatedWhole)'
    BY NotThere, PTL
  <2> QED BY <1>5, <2>4, <2>5 DEF WholeInv
<1> QED BY <1>2, <1>3, <1>4, <1>5

\* A step of a creation.
LEMMA CreateWhole ==
    ASSUME IInv, PlanInv, WholeInv, CreateStep, UNCHANGED before
    PROVE  WholeInv'
<1>1. at \in CreatePlaces
  BY PlanMade, SourcesOpened, MainPacketCreated, OutputCreated, OutputWritten DEF CreateStep
<1>2. WholeAt
  BY <1>1 DEF WholeInv
<1>3. Solid(disk) /\ Contents /\ Agreed(creator) /\ CreatorFields \subseteq DOMAIN creator
  BY <1>1 DEF PlanInv
<1>4. at \in Advancing => CreationInv(at, creator, disk)
  BY DEF PlanInv
<1>5. ASSUME Proceeds, at' # "end" PROVE WholeInv'
  <2>1. WholeAt'
    BY <1>5 DEF Proceeds
  <2>2. (at # "end" => CreatedWhole)'
    BY NotThere, PTL
  <2> QED BY <1>5, <2>1, <2>2 DEF WholeInv
<1>6. ASSUME at' = "end", result' # "Success" PROVE WholeInv'
  BY <1>6, Elsewhere DEF CreatePlaces
<1>7. ASSUME CloseFiles PROVE WholeInv'
  <2>1. CreatedWhole' /\ at' = "end"
    BY <1>2, <1>7, CloseDone DEF CloseFiles, End
  <2> QED BY <2>1 DEF WholeInv, CreatePlaces
<1>8. ASSUME \/ ComputeBlockSizeAndBlockCount \/ ComputeRecoveryBlockCount \/ CalculateProcessBlockSize
             \/ ComputeRecoveryFileCount \/ OpenSourceFiles \/ CreateMainPacket \/ CreateSourceBlocks
             \/ AllocateFiles \/ InitialiseOutputFiles
      PROVE  Proceeds
  <2>1. at \in Advancing
    BY <1>8, Zenon DEF ComputeBlockSizeAndBlockCount, ComputeRecoveryBlockCount, CalculateProcessBlockSize,
           ComputeRecoveryFileCount, OpenSourceFiles, CreateMainPacket, CreateSourceBlocks,
           AllocateFiles, InitialiseOutputFiles, Advancing, Deciding
  <2>2. CreationInv(at, creator, disk)
    BY <1>4, <2>1
  <2>3. CASE ComputeBlockSizeAndBlockCount
    BY <1>2, <2>2, <2>3, SizesProceed
  <2>4. CASE ComputeRecoveryBlockCount
    BY <1>2, <1>3, <2>2, <2>4, RecoveryCounted, RedundancyProceeds
  <2>5. CASE CalculateProcessBlockSize
    BY <1>2, <2>2, <2>5, ChunksProceed
  <2>6. CASE ComputeRecoveryFileCount
    BY <1>2, <2>2, <2>6, FilesProceed
  <2>7. CASE OpenSourceFiles
    BY <1>2, <2>2, <2>7, OpenProceeds
  <2>8. CASE CreateMainPacket
    BY <1>2, <2>2, <2>8, MainProceeds
  <2>9. CASE CreateSourceBlocks
    BY <1>2, <1>3, <2>2, <2>9, BlocksMade, BlocksProceed
  <2>10. CASE AllocateFiles
    BY <1>2, <2>2, <2>10, LayoutProceeds
  <2>11. CASE InitialiseOutputFiles
    BY <1>2, <2>2, <2>11, OutputsProceed
  <2> QED BY <1>8, <2>3, <2>4, <2>5, <2>6, <2>7, <2>8, <2>9, <2>10, <2>11
<1>9. ASSUME CreateProcessData \/ WriteRecoveryPacketHeaders \/ WriteCriticalPackets PROVE Proceeds
  BY <1>2, <1>9, DataProceeds, HeadersProceed
<1>10. ASSUME CreateStep, ~CloseFiles PROVE at' = "end" => result' # "Success"
  BY <1>10 DEF CreateStep, ComputeBlockSizeAndBlockCount, ComputeRecoveryBlockCount, CalculateProcessBlockSize,
         ComputeRecoveryFileCount, OpenSourceFiles, CreateMainPacket, CreateSourceBlocks, AllocateFiles,
         InitialiseOutputFiles, CreateProcessData, WriteRecoveryPacketHeaders, WriteCriticalPackets,
         WritePackets, End, Goto
<1> QED BY <1>5, <1>6, <1>7, <1>8, <1>9, <1>10 DEF CreateStep

\* A step of a repair.
LEMMA RepairWhole ==
    ASSUME IInv, PlanInv, RepairStep \/ Par1Step, UNCHANGED commandline
    PROVE  WholeInv'
<1>1. Solid(disk) /\ Contents /\ (at \in RepairPlaces => Known(repairer, disk))
  BY DEF PlanInv
<1>2. at \in RepairPlaces
  BY <1>1, RepairUpheld
<1>3. ~Creating(commandline)
  BY <1>2 DEF IInv, Placed
<1>4. ~Creating(commandline')
  BY <1>3 DEF Creating
<1>5. Onward
  BY PacketsLoaded, OneSourceFile, SourceFilesDone, ExtraFiles, ResultsChecked, TargetsRenamed, TargetFiles,
     MatrixIs, Buffers, DataProcessed, OneTargetFile, TargetFilesDone, TargetsDeleted, RecoveryFilesLoaded,
     SourceFiles1, ExtraFiles1, TargetFiles1, OneTargetFile1 DEF RepairStep, Par1Step
<1>6. at' \in RepairPlaces \cup {"end"}
  BY <1>5 DEF Onward
<1>7. at' \notin CreatePlaces
  BY <1>6 DEF RepairPlaces, CreatePlaces
<1> QED BY <1>4, <1>7, Elsewhere

\* Nothing changes.
LEMMA WholeSame ==
    ASSUME WholeAt, UNCHANGED <<at, disk, creator, before>>
    PROVE  WholeAt'
<1>1. AtRest /\ Keeps(creator, creator', {}) /\ SameCells(disk, disk')
  BY DEF AtRest, Keeps, SameCells, WholeAt
<1>2. /\ FilesMade' = FilesMade /\ (Separate' <=> Separate) /\ (CutUp => CutUp') /\ (Recorded => Recorded')
      /\ (\A e : Due(e)' = Due(e)) /\ (\A a : Items(a)' = Items(a) /\ FileSize(a)' = FileSize(a))
      /\ \A x : Extent(x)' = Extent(x)
  BY <1>1, RestingSame
<1>3. Figured(creator) => Figured(creator')
  BY DEF Figured
<1>4. Filed => Filed'
  BY <1>1, FiledSame
<1>5. Packed => Packed'
  BY DEF Packed
<1>6. Intact => Intact'
  BY <1>2 DEF Intact
<1>7. Producing => Producing'
  <2> SUFFICES ASSUME Producing PROVE Producing'
    OBVIOUS
  <2>1. PICK m, f : ProducingAt(f, m)
    BY DEF Producing
  <2>2. creator'.allocations = creator.allocations /\ creator'.next = creator.next /\ creator'.items = creator.items
        /\ creator'.firstblock = creator.firstblock /\ creator'.recoveryblockcount = creator.recoveryblockcount
    OBVIOUS
  <2>3. (Stowed(creator.items, creator.allocations, creator.firstblock, f[creator.next - 1], creator.next))'
    BY <1>2, <2>1, <2>2 DEF ProducingAt, Stowed
  <2>4. ProducingAt(f, m)'
    BY <1>2, <2>1, <2>2, <2>3 DEF ProducingAt, LaidDown
  <2> QED BY <1>6, <2>1, <2>4 DEF Producing
<1>8. Filling => Filling'
  <2> SUFFICES ASSUME Filling, Separate, ~creator.dummy PROVE Filling'
    BY <1>2 DEF Filling
  <2>1. Amounts /\ Stored(creator.items, disk) /\ Intact
    BY DEF Filling
  <2>2. creator'.blockoffset \in Nat /\ creator'.blockoffset <= creator.blocksize
    BY <2>1 DEF Amounts
  <2>3. Amounts' /\ (Stored(creator.items, disk))' /\ Intact'
    BY <1>1, <2>1, <2>2, FillingKept
  <2>4. \A n : DataUpTo(creator.items, disk, n) => (DataUpTo(creator.items, disk, n))'
    BY <1>2 DEF DataUpTo
  <2>5. \A which : PacketsIn(creator.items, disk, which) => (PacketsIn(creator.items, disk, which))'
    BY DEF PacketsIn
  <2>6. at = "process" => (DataUpTo(creator.items, disk, creator.blockoffset))'
    BY <1>2 DEF Filling, DataUpTo
  <2>7. at \in {"headers", "criticals", "close"} => (DataUpTo(creator.items, disk, creator.blocksize))'
    BY <1>2 DEF Filling, DataUpTo
  <2> QED BY <2>3, <2>5, <2>6, <2>7 DEF Filling
<1> QED BY <1>2, <1>3, <1>4, <1>5, <1>7, <1>8 DEF WholeAt

LEMMA RestWhole ==
    ASSUME WholeInv, UNCHANGED <<at, result, commandline, disk, creator, before>>
    PROVE  WholeInv'
<1>1. at' \in CreatePlaces => WholeAt'
  BY WholeSame DEF WholeInv
<1>2. AtRest
  BY DEF AtRest
<1>3. Separate' <=> Separate
  BY <1>2, RestingSame
<1>4. Creators' <=> Creators
  BY DEF Creators, Creating
<1>5. (CreatedWhole <=> (at = "end" /\ Creators /\ result = "Success" /\ ~creator.dummy /\ Separate => AsDue))'
  BY AsDueIs, PTL
<1>6. CreatedWhole'
  BY <1>3, <1>4, <1>5, AsDueIs, AsDueSame DEF WholeInv
<1> QED BY <1>1, <1>6 DEF WholeInv

LEMMA StepWhole == IInv /\ PlanInv /\ WholeInv /\ [Next]_vars => WholeInv'
<1> SUFFICES ASSUME IInv, PlanInv, WholeInv, [Next]_vars PROVE WholeInv'
  OBVIOUS
<1>1. CASE ParseArgument
  <2>1. at' = "parse"
    BY <1>1 DEF ParseArgument
  <2> QED BY <2>1, Elsewhere DEF CreatePlaces
<1>2. CASE Dispatch
  BY <1>2, DispatchWhole
<1>3. CASE Run
  BY <1>3, CreateWhole, RepairWhole DEF Run
<1>4. CASE Damage
  <2>1. at' = "damaged"
    BY <1>4 DEF Damage
  <2> QED BY <2>1, Elsewhere DEF CreatePlaces
<1>5. CASE NextRun
  <2>1. at' = "parse"
    BY <1>5 DEF NextRun, Begin
  <2> QED BY <2>1, Elsewhere DEF CreatePlaces
<1>6. CASE UNCHANGED vars
  BY <1>6, RestWhole DEF vars
<1> QED BY <1>1, <1>2, <1>3, <1>4, <1>5, <1>6 DEF Next, Finished

\* par2creator.cpp:997-1247, 1681-1697.  After a creation that succeeded every
\* recovery block is in one file, once, with the exponent that is due and as data
\* the sum of the source blocks, as they were when it began, each times the power
\* of its base; every file holds every critical packet that was recorded, and
\* without threads these are all there are; and no file has a gap.
THEOREM CreatedWholeHolds == Spec => []CreatedWhole
<1>1. WholeInv => CreatedWhole
  BY DEF WholeInv
<1> QED BY <1>1, InitWhole, StepWhole, Inductive, PlanHolds, PTL DEF Spec
=============================================================================
