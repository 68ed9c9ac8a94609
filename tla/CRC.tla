-------------------------------- MODULE CRC --------------------------------
(***************************************************************************)
(* The CRC of a window of bytes: table driven, and slid along by one byte. *)
(* Bytes and checksums are the sets of the bits that are 1, so that XOR is *)
(* the symmetric difference.                                               *)
(***************************************************************************)
EXTENDS Naturals

CONSTANTS
    CharBits,    \* bits of a byte: 8
    Width,       \* bits of a checksum: 32
    Polynomial,  \* the bits of the polynomial, low bit first
    BlockSize    \* how many bytes the window holds

ASSUME CRCAssumption ==
    /\ Width \in Nat /\ CharBits \in 0 .. Width /\ Polynomial \subseteq 0 .. Width - 1
    /\ BlockSize \in Nat \ {0}

Chars == SUBSET (0 .. CharBits - 1)
Words == SUBSET (0 .. Width - 1)
AllOnes == 0 .. Width - 1
Zeros == [i \in 1 .. BlockSize |-> {}]

Xor(x, y) == (x \ y) \cup (y \ x)
ShiftRight(x, n) == {i \in 0 .. Width - 1 : i + n \in x}
LowChar(x) == x \cap (0 .. CharBits - 1)

\* The states of a register that goes through data from its first byte on.
Register(step, crc, data, n) ==
    LET r[i \in 0 .. n] == IF i = 0 THEN crc ELSE step[<<r[i - 1], data[i]>>] IN r

round == [p \in Words \X Chars |->
            IF 0 \in p[1] THEN Xor(ShiftRight(p[1], 1), Polynomial) ELSE ShiftRight(p[1], 1)]
ccitttable == [ch \in Chars |->
                 Register(round, ch, [i \in 1 .. CharBits |-> {}], CharBits)[CharBits]]

CRCUpdateChar(crc, ch) == Xor(ShiftRight(crc, CharBits), ccitttable[Xor(LowChar(crc), ch)])
update == [p \in Words \X Chars |-> CRCUpdateChar(p[1], p[2])]
CRCUpdateBlock(crc, window) == Register(update, crc, window, BlockSize)[BlockSize]
CRC(window) == Xor(AllOnes, CRCUpdateBlock(AllOnes, window))

windowtable == [ch \in Chars |-> CRCUpdateBlock(ccitttable[ch], Zeros)]
windowmask == Xor(AllOnes, CRCUpdateBlock(AllOnes, Zeros))
CRCSlideChar(crc, chNew, chOld) == Xor(CRCUpdateChar(crc, chNew), windowtable[chOld])
=============================================================================
