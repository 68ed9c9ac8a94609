----------------------------- MODULE ScanVerify -----------------------------
(***************************************************************************)
(* Verification of the source files: every target file, then every extra   *)
(* file, is read through a sliding window (FileCheckSummer), whose         *)
(* checksum and hash are looked up among the blocks of the source files    *)
(* (VerificationHashTable); what is found is recorded in the DataBlocks    *)
(* and, for files found whole, in the source files.  Target files may be   *)
(* scanned by several threads at once, which share all of these records.   *)
(*                                                                         *)
(* A hash stands for what it hashes.  The checksum is a real CRC, of fewer *)
(* bits.  A location is set in two steps, as there is no lock.             *)
(***************************************************************************)
EXTENDS CRC, FiniteSets, Sequences

CONSTANTS
    Sources,     \* Sources[s]: the bytes of source file s
    Short,       \* how many bytes the short hash covers: 16384
    Sorted,      \* the source files in the order of their names
    Extras,      \* the number of extra files
    Path,        \* Path[f]: the name of file f
    ParPaths,    \* names that have ".par2" in them
    Worlds,      \* what may be on disk, and which verification packets were found
    Threads,
    Levels,      \* whether target files are verified concurrently
    ReadFaults   \* whether reading may fail

NumSources == Len(Sources)
SourceIds == 1 .. NumSources
Files == 1 .. NumSources + Extras    \* target file s, then the extra files
NoFile == 0
Missing == [exists |-> FALSE, data |-> <<>>]

ASSUME ScanAssumption ==
    /\ Sources \in Seq(Seq(Chars)) /\ Extras \in Nat
    /\ BlockSize # 1 /\ Short \in Nat \ {0}
    /\ Sorted \in [SourceIds -> SourceIds]
    /\ \A i, j \in SourceIds : Sorted[i] = Sorted[j] => i = j
    /\ Threads # {} /\ Levels \subseteq BOOLEAN /\ ReadFaults \in BOOLEAN
    /\ \A w \in Worlds : /\ w.disk \in [Files -> [exists : BOOLEAN, data : Seq(Chars)]]
                         /\ w.verifiable \subseteq SourceIds

VARIABLES
    disk, verifiable,  \* the world chosen
    concurrent,
    phase,             \* which files are being scanned
    next,              \* idx_, or the position in the list of extra files
    scan,              \* scan[t]: the checksummer and the local variables of thread t
    finalresult,
    location,          \* location[b]: file and offset of the DataBlock of block b
    complete,          \* complete[s]: GetCompleteFile()
    target,            \* target[s]: GetTargetExists()
    used,              \* the names in diskFileMap
    blockcount,        \* blockcount[f]: what the DiskFile was told by SetBlockCount
    completefilecount  \* only UpdateVerificationResults sets it

vars == <<disk, verifiable, concurrent, phase, next, scan, finalresult, location,
          complete, target, used, blockcount, completefilecount>>
records == <<finalresult, location, complete, target, used, blockcount, completefilecount>>

Min2(a, b) == IF a < b THEN a ELSE b
Part(data, from, n) == [i \in 1 .. n |-> data[from + i]]
Size(f) == Len(disk[f].data)

(* The blocks of the source files, and where they are to be found *)

BlocksOf(s) == (Len(Sources[s]) + BlockSize - 1) \div BlockSize
AllBlocks == UNION {{s} \X (1 .. BlocksOf(s)) : s \in SourceIds}
Start(b) == (b[2] - 1) * BlockSize
Length(b) == Min2(BlockSize, Len(Sources[b[1]]) - Start(b))
Data(b) == Part(Sources[b[1]], Start(b), Length(b))
Padded(b) == [i \in 1 .. BlockSize |-> IF i <= Length(b) THEN Sources[b[1]][Start(b) + i] ELSE {}]
NoBlock == <<0, 0>>
FirstBlock(b) == b[2] = 1
NextBlock(b) == IF b[2] < BlocksOf(b[1]) THEN <<b[1], b[2] + 1>> ELSE NoBlock

IsSet(b) == location[b].file # NoFile

\* Entries with the same checksum and hash are kept in the order they were loaded.
Entries == {b \in AllBlocks : b[1] \in verifiable}
Earlier(a, b) == a[1] < b[1] \/ (a[1] = b[1] /\ a[2] < b[2])
Earliest(blocks) == CHOOSE b \in blocks : \A a \in blocks : ~Earlier(a, b)

ShortOf(data) == Part(data, 0, Min2(Short, Len(data)))

(* FileCheckSummer: c is a record with its variables *)

Window(c) == Part(c.buffer, c.out, BlockSize)
BlockLength(c) == Min2(BlockSize, Size(c.file) - c.offset)
ShortBlock(c) == BlockLength(c) < BlockSize

\* The short hash covers the first bytes; the full hash goes on from there.
UpdateHashes(c, data, n) ==
    LET first == Short - c.read IN
    IF c.read >= Short THEN [c EXCEPT !.full = @ \o data]
    ELSE IF c.read + n >= Short
         THEN [c EXCEPT !.short = @ \o Part(data, 0, first), !.full = c.short \o data]
         ELSE [c EXCEPT !.short = @ \o data]
HashFull(c) == IF Size(c.file) < Short THEN c.short ELSE c.full

\* Once the end of the file has been read the rest of the buffer stays as it is.
AtEnd(c) == c.read >= Size(c.file)
Fill(c) ==
    IF AtEnd(c) THEN c
    ELSE LET want == Min2(Size(c.file) - c.read, 2 * BlockSize - c.tail)
             data == Part(disk[c.file].data, c.read, want)
         IN  [UpdateHashes(c, data, want) EXCEPT
                !.buffer = [i \in 1 .. 2 * BlockSize |->
                              IF i <= c.tail THEN c.buffer[i]
                              ELSE IF i <= c.tail + want THEN data[i - c.tail] ELSE {}],
                !.read = @ + want, !.tail = @ + want]

WithChecksum(c) == [c EXCEPT !.checksum = CRC(Window(c))]
Started(c) == WithChecksum(Fill(c))
Ended(c) == [c EXCEPT !.offset = Size(c.file), !.tail = 0, !.out = 0, !.checksum = {},
               !.buffer = [i \in 1 .. 2 * BlockSize |-> IF i <= BlockSize THEN {} ELSE c.buffer[i]]]

\* The window moves by one byte; when it reaches the second half of the
\* buffer, that half becomes the first.
Slid(c) ==
    LET in == c.buffer[c.out + BlockSize + 1]
    IN  [c EXCEPT !.offset = @ + 1, !.out = @ + 1,
           !.checksum = Xor(windowmask,
                            CRCSlideChar(Xor(windowmask, c.checksum), in, c.buffer[c.out + 1]))]
Halved(c) == [i \in 1 .. 2 * BlockSize |-> c.buffer[IF i <= BlockSize THEN i + BlockSize ELSE i]]
WrappedOutStays(c) == [c EXCEPT !.tail = @ - BlockSize]
WrappedTailStays(c) == [c EXCEPT !.buffer = Halved(c), !.out = 0]
Wrapped(c) == [c EXCEPT !.buffer = Halved(c), !.out = 0, !.tail = @ - BlockSize]
Step(c) ==
    IF c.offset + 1 >= Size(c.file) THEN Ended(c)
    ELSE IF c.out + 1 < BlockSize THEN Slid(c)
    ELSE Fill(Wrapped(Slid(c)))

\* What is left is moved to the start of the buffer.
Kept(c, out) ==
    LET keep == c.tail - out
    IN  [c EXCEPT !.out = 0, !.tail = keep,
           !.buffer = [i \in 1 .. 2 * BlockSize |-> c.buffer[IF i <= keep THEN out + i ELSE i]]]
Jump(c, distance) ==
    IF distance = 1 THEN Step(c)
    ELSE IF c.offset + distance >= Size(c.file) THEN Ended(c)
    ELSE Started([Kept(c, c.out + distance) EXCEPT !.offset = @ + distance])

(* VerificationHashTable::FindMatch *)

Found(b) == [block |-> b, duplicate |-> FALSE]
Nothing == [block |-> NoBlock, duplicate |-> FALSE]
Duplicate == [block |-> NoBlock, duplicate |-> TRUE]

WrongLength(c, b) == ShortBlock(c) /\ BlockLength(c) # Length(b)

\* The block expected next is the last of its file: its own length counts.
LastExpected(c) ==
    /\ c.next # NoBlock /\ NextBlock(c.next) = NoBlock
    /\ Part(Window(c), 0, Length(c.next)) = Data(c.next)
Expected(c) ==
    /\ c.next # NoBlock /\ NextBlock(c.next) # NoBlock /\ ~IsSet(c.next)
    /\ CRC(Padded(c.next)) = c.checksum /\ Padded(c.next) = Window(c)

SameChecksum(c) == {b \in Entries : CRC(Padded(b)) = c.checksum}
Same(c) == {b \in Entries : CRC(Padded(b)) = c.checksum /\ Padded(b) = Window(c)}

OnlyMatch(c, b) ==
    IF complete[b[1]] # NoFile THEN Duplicate
    ELSE IF WrongLength(c, b) THEN Nothing
    ELSE IF \/ FirstBlock(b) /\ c.offset = 0
            \/ b = c.next /\ location[b].file # c.file
            \/ ~IsSet(b)
         THEN Found(b)
    ELSE Duplicate

\* Of several, an unused one of the right length, of the preferred file first.
SeveralMatches(c, same) ==
    LET usable == {b \in same : ~IsSet(b) /\ ~WrongLength(c, b)}
        own    == {b \in usable : b[1] = c.source}
    IN  IF usable = {} THEN Duplicate
        ELSE Found(Earliest(IF own # {} THEN own ELSE usable))

FindMatch(c) ==
    LET same == Same(c) IN
    IF LastExpected(c) \/ Expected(c) THEN Found(c.next)
    ELSE IF same = {} THEN Nothing
    ELSE IF \E b \in same : same = {b} THEN OnlyMatch(c, CHOOSE b \in same : TRUE)
    ELSE SeveralMatches(c, same)

(* The scans *)

Main == CHOOSE t \in Threads : TRUE
Idle == [pc |-> "idle", file |-> NoFile, source |-> 0, offset |-> 0, read |-> 0,
         buffer |-> [i \in 1 .. 2 * BlockSize |-> {}], out |-> 0, tail |-> 0,
         checksum |-> {},
         short |-> <<>>, full |-> <<>>, next |-> NoBlock, count |-> 0,
         partial |-> FALSE, block |-> NoBlock]

Init ==
    /\ \E w \in Worlds : disk = w.disk /\ verifiable = w.verifiable
    /\ concurrent \in Levels
    /\ phase = "verify" /\ next = 1
    /\ scan = [t \in Threads |-> Idle]
    /\ finalresult = TRUE
    /\ location = [b \in AllBlocks |-> [file |-> NoFile, offset |-> 0]]
    /\ complete = [s \in SourceIds |-> NoFile]
    /\ target = [s \in SourceIds |-> FALSE]
    /\ used = {}
    /\ blockcount = [f \in Files |-> 0]
    /\ completefilecount = 0

blockverifiable == verifiable # {}
CompleteFiles == Cardinality({s \in SourceIds : complete[s] # NoFile})

\* ScanDataFile begins.  A file that is empty, or that nothing can be compared
\* with block by block, goes to the comparison of whole files at once.
Begin(t, f, s) ==
    LET c == [Idle EXCEPT !.pc = "scan", !.file = f, !.source = s] IN
    scan' = [scan EXCEPT ![t] =
               IF blockverifiable /\ Size(f) > 0 THEN Started(c) ELSE [c EXCEPT !.pc = "whole"]]

\* A read of the disk fails where Fill would read: VerifyDataFile gives up.
\* For a target file the result is kept; for an extra file it is ignored.
GiveUp(t) ==
    /\ scan' = [scan EXCEPT ![t] = Idle]
    /\ finalresult' = (finalresult /\ phase # "verify")
    /\ completefilecount' = IF phase = "extras" THEN CompleteFiles ELSE completefilecount
    /\ UNCHANGED <<disk, verifiable, concurrent, phase, next, location, complete, target, used,
                   blockcount>>
ReadFails(t) ==
    /\ ReadFaults /\ scan[t].pc \in {"scan", "whole"}
    /\ scan[t].read < Size(scan[t].file) \/ scan[t].offset = 0
    /\ GiveUp(t)

\* VerifyOneSourceFile, for the next name of the sorted list.
TakeTarget(t) ==
    /\ phase = "verify" /\ scan[t].pc = "idle" /\ next <= NumSources
    /\ concurrent \/ t = Main
    /\ next' = next + 1
    /\ LET s == Sorted[next] IN
         IF Path[s] \in used
           THEN finalresult' = FALSE /\ UNCHANGED <<scan, target, used>>
         ELSE IF disk[s].exists
           THEN /\ Begin(t, s, s)
                /\ target' = [target EXCEPT ![s] = TRUE]
                /\ used' = used \cup {Path[s]}
                /\ UNCHANGED finalresult
         ELSE UNCHANGED <<scan, target, used, finalresult>>
    /\ UNCHANGED <<disk, verifiable, concurrent, phase, location, complete, blockcount,
                   completefilecount>>

\* Every target file has been scanned.
VerifyExtras ==
    /\ phase = "verify" /\ next > NumSources /\ \A t \in Threads : scan[t].pc = "idle"
    /\ IF ~finalresult THEN phase' = "failed" /\ UNCHANGED <<next, completefilecount>>
       ELSE IF completefilecount < NumSources
            THEN phase' = "extras" /\ next' = NumSources + 1 /\ UNCHANGED completefilecount
            ELSE phase' = "done" /\ completefilecount' = CompleteFiles /\ UNCHANGED next
    /\ UNCHANGED <<disk, verifiable, concurrent, scan, finalresult, location, complete, target,
                   used, blockcount>>

\* The loop of VerifyExtraFiles; when it ends the results are counted again.
TakeExtra ==
    /\ phase = "extras" /\ scan[Main].pc = "idle"
    /\ IF next \in Files /\ completefilecount < NumSources
       THEN /\ next' = next + 1
            /\ IF Path[next] \notin used \cup ParPaths /\ disk[next].exists
               THEN Begin(Main, next, 0) /\ used' = used \cup {Path[next]}
               ELSE UNCHANGED <<scan, used>>
            /\ UNCHANGED <<phase, completefilecount>>
       ELSE /\ phase' = "done" /\ completefilecount' = CompleteFiles
            /\ UNCHANGED <<next, scan, used>>
    /\ UNCHANGED <<disk, verifiable, concurrent, finalresult, location, complete, target,
                   blockcount>>

\* What a match says of the file as a whole.
Breaks(c, b) ==
    IF c.count = 0 THEN ~FirstBlock(b) \/ c.offset # 0 ELSE b # c.next

MatchBlock(t) ==
    LET c == scan[t]
        m == FindMatch(c)
        lost == [c EXCEPT !.partial = TRUE, !.next = NoBlock]
    IN  /\ c.pc = "scan" /\ c.offset < Size(c.file)
        /\ scan' = [scan EXCEPT ![t] =
             IF m.block # NoBlock
             THEN [c EXCEPT !.pc = "setfile", !.block = m.block, !.partial = @ \/ Breaks(c, m.block),
                            !.source = IF c.count = 0 THEN m.block[1] ELSE @]
             ELSE IF m.duplicate THEN Jump(lost, BlockSize) ELSE Step(lost)]
        /\ UNCHANGED <<disk, verifiable, concurrent, phase, next, records>>

CountedInOrder(c) == IF c.count = 0 \/ c.block = c.next THEN c.count + 1 ELSE c.count
Counted(c) == c.count + 1

\* DataBlock::SetLocation, and the jump past the block.
SetFile(t) ==
    /\ scan[t].pc = "setfile"
    /\ location' = [location EXCEPT ![scan[t].block].file = scan[t].file]
    /\ scan' = [scan EXCEPT ![t].pc = "setoffset"]
    /\ UNCHANGED <<disk, verifiable, concurrent, phase, next, finalresult, complete, target, used,
                   blockcount, completefilecount>>
SetOffset(t) ==
    LET c == scan[t] IN
    /\ c.pc = "setoffset"
    /\ location' = [location EXCEPT ![c.block].offset = c.offset]
    /\ scan' = [scan EXCEPT ![t] =
         Jump([c EXCEPT !.pc = "scan", !.count = Counted(c), !.next = NextBlock(c.block),
                        !.block = NoBlock], Length(c.block))]
    /\ UNCHANGED <<disk, verifiable, concurrent, phase, next, finalresult, complete, target, used,
                   blockcount, completefilecount>>

\* The end of ScanDataFile and the switch on the match type.
FullMatchByCount(c) == ~c.partial /\ c.count = BlocksOf(c.source)
FullMatch(c) ==
    /\ ~c.partial /\ c.count = BlocksOf(c.source) /\ Size(c.file) = Len(Sources[c.source])
    /\ c.short = ShortOf(Sources[c.source])
    /\ HashFull(c) = Sources[c.source]
AfterScan == IF phase = "extras" THEN CompleteFiles' ELSE completefilecount

EndScan(t) ==
    LET c == scan[t] IN
    /\ c.pc = "scan" /\ c.offset >= Size(c.file)
    /\ blockcount' = [blockcount EXCEPT ![c.file] = c.count]
    /\ complete' = IF c.count > 0 /\ FullMatch(c)
                   THEN [complete EXCEPT ![c.source] = c.file] ELSE complete
    /\ scan' = [scan EXCEPT ![t] = IF c.count > 0 THEN Idle ELSE [c EXCEPT !.pc = "whole"]]
    /\ completefilecount' = IF c.count > 0 THEN AfterScan ELSE completefilecount
    /\ UNCHANGED <<disk, verifiable, concurrent, phase, next, finalresult, location, target, used>>

\* Whether the hashes of the file agree with those of source file s.  Where
\* they were not computed (an empty file) or were computed into a variable
\* that hides the one compared (nothing block verifiable), any outcome.
Agree(c, s, yes) ==
    IF ~blockverifiable THEN yes => ShortOf(disk[c.file].data) = ShortOf(Sources[s])
    ELSE IF Size(c.file) = 0 THEN TRUE
    ELSE yes <=> c.short = ShortOf(Sources[s]) /\ HashFull(c) = Sources[s]
Comparable(c, s) == s \notin verifiable /\ complete[s] = NoFile /\ Size(c.file) = Len(Sources[s])

\* The first source file that agrees is taken to be complete, with all its blocks.
CompareWhole(t) ==
    LET c == scan[t] IN
    /\ c.pc = "whole"
    /\ \E agreed \in SUBSET {s \in SourceIds : Comparable(c, s)} :
         /\ \A s \in SourceIds : Comparable(c, s) => Agree(c, s, s \in agreed)
         /\ \/ agreed = {} /\ UNCHANGED <<complete, location>>
            \/ \E s \in agreed :
                 /\ \A r \in agreed : s <= r
                 /\ complete' = [complete EXCEPT ![s] = c.file]
                 /\ location' = [b \in AllBlocks |->
                      IF b[1] = s THEN [file |-> c.file, offset |-> Start(b)] ELSE location[b]]
    /\ scan' = [scan EXCEPT ![t] = Idle]
    /\ completefilecount' = AfterScan
    /\ UNCHANGED <<disk, verifiable, concurrent, phase, next, finalresult, target, used, blockcount>>

Finished == phase \in {"failed", "done"} /\ UNCHANGED vars

Next ==
    \/ \E t \in Threads :
         \/ TakeTarget(t) \/ MatchBlock(t) \/ SetFile(t) \/ SetOffset(t) \/ EndScan(t)
         \/ CompareWhole(t) \/ ReadFails(t)
    \/ VerifyExtras \/ TakeExtra \/ Finished

Spec == Init /\ [][Next]_vars

-----------------------------------------------------------------------------
(* Properties *)

TypeOK ==
    /\ phase \in {"verify", "extras", "failed", "done"}
    /\ next \in 1 .. NumSources + Extras + 1
    /\ \A t \in Threads :
         LET c == scan[t] IN
           /\ c.pc \in {"idle", "scan", "setfile", "setoffset", "whole"}
           /\ c.file \in Files \cup {NoFile} /\ c.source \in SourceIds \cup {0}
           /\ c.buffer \in [1 .. 2 * BlockSize -> Chars]
           /\ c.out \in 0 .. BlockSize - 1 /\ c.tail \in 0 .. 2 * BlockSize
           /\ c.checksum \in Words
           /\ c.next \in AllBlocks \cup {NoBlock} /\ c.block \in AllBlocks \cup {NoBlock}
    /\ location \in [AllBlocks -> [file : Files \cup {NoFile}, offset : Nat]]
    /\ complete \in [SourceIds -> Files \cup {NoFile}]
    /\ completefilecount \in 0 .. NumSources

\* filechecksummer.cpp, filechecksummer.h:142-182.  However the window was slid
\* and moved, it holds the bytes of the file at its offset, as far as the file
\* goes, and its checksum is that of all the bytes it holds.
WindowExact ==
    \A t \in Threads :
      LET c == scan[t] IN
        c.pc = "scan" /\ c.offset < Size(c.file) =>
          /\ Part(Window(c), 0, BlockLength(c)) = Part(disk[c.file].data, c.offset, BlockLength(c))
          /\ c.checksum = CRC(Window(c))

\* par2repairer.cpp:2052-2100, 1727-1746.  A file taken for a complete copy of
\* a source file is one, byte for byte, in whatever order the files are
\* scanned; where there is no verification packet at all, the hash that was
\* never computed leaves only the size and the first bytes.
CompleteIsComplete ==
    \A s \in SourceIds : complete[s] # NoFile =>
      LET found == disk[complete[s]].data IN
        IF blockverifiable THEN found = Sources[s]
        ELSE Len(found) = Len(Sources[s])
               /\ ShortOf(found) = ShortOf(Sources[s])

\* par2repairer.cpp:2012-2020.  Where the file has as many bytes as a block
\* needs, a block that was found has its bytes there.  With several threads
\* file and offset may come from two of them; where there is no verification
\* packet at all, the blocks go with the file (CompleteIsComplete).
InFile(b) == location[b].offset + Length(b) <= Size(location[b].file)
Settled(b) == \A t \in Threads : scan[t].pc = "setoffset" => scan[t].block # b
FoundWhenSerial ==
    ~concurrent /\ blockverifiable =>
      \A b \in AllBlocks : IsSet(b) /\ Settled(b) /\ InFile(b) =>
        Part(disk[location[b].file].data, location[b].offset, Length(b)) = Data(b)

\* par2repairer.cpp:2230 with pipeline.h:287-330.  A repair closes a file when
\* it has counted its block count down to 0: a count that is not 0 to begin
\* with, when the file would stay open, is not below the number of blocks that
\* are to be read from the file.
CountCovers ==
    \A f \in Files :
      LET here == {b \in AllBlocks : location[b].file = f /\ b[1] \in verifiable}
      IN  (\A t \in Threads : scan[t].file # f) /\ phase = "done" =>
            blockcount[f] = 0 \/ Cardinality(here) <= blockcount[f]

\* verificationhashtable.h:344-346, "If we are close to the end of the file and
\* the block length is wrong, don't return it because it is an invalid match":
\* a block is never found where the file has fewer bytes than the block.
NothingPastEnd == \A b \in AllBlocks : IsSet(b) /\ Settled(b) => InFile(b)
=============================================================================
