------------------------------- MODULE Galois -------------------------------
(***************************************************************************)
(* Arithmetic in GF(2^Bits) by logarithms, for any number of bits: the     *)
(* code has 8 (PAR 1.0) and 16 (PAR 2.0).                                  *)
(***************************************************************************)
EXTENDS Integers

CONSTANTS Bits, Generator

\* 1 << n
shift[n \in 0 .. Bits] == IF n = 0 THEN 1 ELSE 2 * shift[n - 1]
Count == shift[Bits]
Limit == Count - 1
Values == 0 .. Limit

\* a ^ b, of a bit more than a value has.
Wide == 0 .. 2 * Count - 1
xor[p \in Wide \X Wide] ==
    IF p = <<0, 0>> THEN 0
    ELSE 2 * xor[<<p[1] \div 2, p[2] \div 2>>] + ((p[1] + p[2]) % 2)
Xor(a, b) == xor[<<a, b>>]

\* b <<= 1; if (b & Count) b ^= Generator
Twice(b) == IF 2 * b >= Count THEN Xor(2 * b, Generator) ELSE 2 * b
antilog[l \in 0 .. Limit] ==
    IF l = Limit THEN 0 ELSE IF l = 0 THEN 1 ELSE Twice(antilog[l - 1])

AntilogTable == [l \in 0 .. Limit |-> antilog[l]]
LogTable == [v \in Values |-> CHOOSE l \in 0 .. Limit : AntilogTable[l] = v]
SumTable == [p \in Values \X Values |-> Xor(p[1], p[2])]

\* The code has 8 and 16 bits.  Every power of the generator up to Limit is another
\* value.
ASSUME GaloisAssumption ==
    /\ Bits \in Nat \ {0, 1} /\ Generator \in Count .. 2 * Count - 1
    /\ {AntilogTable[l] : l \in 0 .. Limit} = Values

Wrap(sum) == IF sum >= Limit THEN sum - Limit ELSE sum

Plus(a, b) == SumTable[<<a, b>>]
Minus(a, b) == SumTable[<<a, b>>]

Times(a, b) ==
    IF a = 0 \/ b = 0 THEN 0 ELSE AntilogTable[Wrap(LogTable[a] + LogTable[b])]

Over(a, b) ==
    IF a = 0 \/ b = 0 THEN 0
    ELSE LET sum == LogTable[a] - LogTable[b]
         IN  AntilogTable[IF sum < 0 THEN sum + Limit ELSE sum]

Power(a, n) ==
    IF n = 0 THEN 1
    ELSE IF a = 0 THEN 0
    ELSE LET sum == LogTable[a] * n IN AntilogTable[Wrap((sum \div Count) + (sum % Count))]
=============================================================================
