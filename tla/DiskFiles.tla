------------------------------ MODULE DiskFiles ------------------------------
(***************************************************************************)
(* DiskFile, DataBlock and the names of files.  The disk maps names to     *)
(* sequences of cells.  A cell is a value of the Galois field or all of a  *)
(* packet but its recovery data; Garbage is any other.                     *)
(***************************************************************************)
EXTENDS Integers, FiniteSets, SequencesExt

VARIABLES
    disk,
    faults   \* how many calls of the system may still fail

Garbage == -1

\* <<base, kind, first, count, renamed>> is base.kind, with the numbers a volume's
\* name has in it, followed by .n for every n in renamed.
Name(base, kind, first, count) == <<base, kind, first, count, <<>>>>
NoName == Name("", "", 0, 0)
Base(name) == name[1]
HasPar2(name) == name[2] \in {"par2", "vol"}
IsPar2(name) == HasPar2(name) /\ name[5] = <<>>
IsPar1(name) == name[2] \in {"par", "p"} /\ name[5] = <<>>
WithPar2(name) == Name(Base(name), "par2", 0, 0)
WithPar(name) == Name(Base(name), "par", 0, 0)

FileExists(d, name) == name \in DOMAIN d
GetFileSize(d, name) == IF FileExists(d, name) THEN Len(d[name]) ELSE 0
FindFiles(d, Like(_)) == {name \in DOMAIN d : Like(name)}

Put(d, name, cells) == [n \in DOMAIN d \cup {name} |-> IF n = name THEN cells ELSE d[n]]
DeleteAll(d, names) == [n \in DOMAIN d \ names |-> d[n]]
Delete(d, name) == DeleteAll(d, {name})

\* What was there is lost; something is written at the end to make it as long.
Create(d, name, size) ==
    Put(d, name, [k \in 1 .. size |-> IF k = size THEN Garbage ELSE 0])
\* fopen fails, or what follows it, and the file is removed.
CreateFailures(d, name) == {d, Delete(d, name)}

CanRead(d, name, offset, length) == FileExists(d, name) /\ offset + length <= Len(d[name])
Read(d, name, offset, length) == SubSeq(d[name], offset + 1, offset + length)

\* The numbered name that is free; to rename to a name is to replace its file.
Numbered(name, n) == <<name[1], name[2], name[3], name[4], Append(name[5], n)>>
NewName(d, name) ==
    LET free == {n \in 1 .. Cardinality(DOMAIN d) + 1 : ~FileExists(d, Numbered(name, n))}
    IN  Numbered(name, CHOOSE n \in free : \A m \in free : n <= m)
Rename(d, from, to) == Put(Delete(d, from), to, d[from])

(* A DataBlock: part of a file *)

NoBlock == [file |-> NoName, offset |-> 0, length |-> 0]
Block(file, offset, length) == [file |-> file, offset |-> offset, length |-> length]
IsSet(b) == b.file # NoName

\* How much of a chunk of size cells at the position lies within the block.
Within(b, position, size) ==
    IF b.length <= position THEN 0
    ELSE IF size < b.length - position THEN size ELSE b.length - position

CanReadData(d, b, position, size) ==
    Within(b, position, size) = 0
    \/ CanRead(d, b.file, b.offset + position, Within(b, position, size))
ReadData(d, b, position, size) ==
    LET want == Within(b, position, size)
        data == IF want = 0 THEN <<>> ELSE Read(d, b.file, b.offset + position, want)
    IN  [k \in 1 .. size |-> IF k <= want THEN data[k] ELSE 0]

\* A write <<block, position, cells>>: which cells of the block's file it sets.
WriteData(w) == LET start == w[1].offset + w[2]
                IN  start + 1 .. start + Within(w[1], w[2], Len(w[3]))

\* The disk after those of the numbered writes that are done.  Every file is
\* created as long as it will ever be.
AfterWrites(d, writes, done) ==
    LET into(name) == {n \in done : IsSet(writes[n][1]) /\ writes[n][1].file = name}
        upon(name, p) == {n \in into(name) : p \in WriteData(writes[n])}
        cell(w, p) == w[3][p - (w[1].offset + w[2])]
    IN  [name \in DOMAIN d |->
           IF into(name) = {} THEN d[name]
           ELSE [p \in DOMAIN d[name] |-> IF upon(name, p) = {} THEN d[name][p]
                                          ELSE cell(writes[Max(upon(name, p))], p)]]
AllWrites(d, writes) == AfterWrites(d, writes, DOMAIN writes)
\* One of them fails, after those before it.
SomeWrites(d, writes) ==
    {AfterWrites(d, writes, {m \in DOMAIN writes : m < n}) : n \in DOMAIN writes}

Fault == faults > 0 /\ faults' = faults - 1
NoFault == UNCHANGED faults
=============================================================================
