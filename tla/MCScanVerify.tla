---------------------------- MODULE MCScanVerify ----------------------------
(* Three source files of at most three blocks of two bytes.  The blocks of *)
(* the first two begin alike, and the second ends as its first block does. *)
EXTENDS ScanVerify

Byte(n) == {i \in 0 .. CharBits - 1 : (n \div 2 ^ i) % 2 = 1}
Bytes(numbers) == [i \in 1 .. Len(numbers) |-> Byte(numbers[i])]

MCSources == <<Bytes(<<1, 2, 1, 2, 3>>), Bytes(<<1, 2, 3, 2>>), Bytes(<<3, 3, 1>>)>>
MCSorted == <<2, 1, 3>>
MCPath == <<"b", "a", "c", "x", "y", "b", "p.par2">>

On(data) == [exists |-> TRUE, data |-> Bytes(data)]
Intact(s) == [exists |-> TRUE, data |-> MCSources[s]]

First == {Intact(1), Missing, On(<<0, 1, 2, 1, 2, 3>>), On(<<1, 2, 1, 2>>), On(<<1, 2, 3, 3, 1>>)}
Second == {Intact(2), Intact(1), On(<<1, 2, 3>>), On(<<>>), On(<<1, 2, 1, 0, 0>>)}
Third == {Intact(3), On(<<2, 3, 3, 1>>), Missing}
Extra == {Missing, Intact(3), On(<<1, 2, 0, 3, 2>>), On(<<0, 0, 1, 2, 3, 2>>)}

MCWorlds ==
    {[disk |-> <<a, b, c, d, Missing, On(<<3>>), On(<<1, 2>>)>>, verifiable |-> v] :
       a \in First, b \in Second, c \in Third, d \in Extra, v \in {{1, 2}, {}}}
=============================================================================
