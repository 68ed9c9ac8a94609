---------------------------- MODULE CreateProcess ----------------------------
(***************************************************************************)
(* Par2Creator::Process: from the settings of the command line to the      *)
(* recovery files on disk, one action for each of the functions it calls   *)
(* in turn, and for each turn of those that call the system in a loop.     *)
(* The pipeline inside ProcessData is in module CreatePipeline: here the   *)
(* outputs are what its run leaves.                                        *)
(***************************************************************************)
EXTENDS CommandLine, ReedSolomon

CONSTANTS
    Width,   \* bits of the type that 1 << recoveryfilecount is computed in
    FileId   \* FileId[name]: the order of the sources by their ids, which are hashes

ASSUME CreateAssumption ==
    /\ Width \in Nat \ {0} /\ Width >= Bits /\ Megabyte \in Nat /\ DefaultBlocks \in 1 .. Half
    /\ Half <= Len(UsableLogs)
    /\ NoName \notin DOMAIN FileId
    /\ \A m, n \in DOMAIN FileId : FileId[m] \in Nat /\ (FileId[m] = FileId[n] => m = n)

VARIABLES
    at,       \* what main does next
    result,
    creator,  \* the Par2Creator
    set       \* what the packets of the recovery set say

Nobody == [sources |-> <<>>]
End(r) == at' = "end" /\ result' = r
Goto(place) == at' = place /\ UNCHANGED result
Only(c) == creator' = c /\ UNCHANGED <<disk, faults, set>>

\* A critical packet takes a cell, and so does the header of a recovery packet.
\* None of them is a value.
MainPacket == -2
CreatorPacket == -3
DescriptionPacket(name) == -4 - 2 * FileId[name]
VerificationPacket(name) == -5 - 2 * FileId[name]
RecoveryHeader(exponent) == Count + exponent

NewCreator(c) ==
    [blocksize |-> c.blocksize, sourceblockcount |-> c.blockcount, extrafiles |-> c.extrafiles,
     redundancy |-> c.redundancy, recoveryblockcount |-> c.recoveryblockcount,
     filecount |-> c.filecount, firstblock |-> c.firstblock, scheme |-> c.scheme,
     parfile |-> c.parfile, memorylimit |-> c.memorylimit, concurrent |-> c.level = "+",
     dummy |-> c.dummy, base |-> c.base, largest |-> LargestSourceSize(c),
     chunksize |-> 0, sources |-> <<>>, criticals |-> <<>>, blocks |-> <<>>,
     allocations |-> <<>>, items |-> <<>>, next |-> 1, blockoffset |-> 0]

-----------------------------------------------------------------------------
(* How many blocks of what size, in how many files *)

CeilDiv(a, b) == (a + b - 1) \div b
Total(numbers) ==
    LET sum[k \in 0 .. Len(numbers)] == IF k = 0 THEN 0 ELSE sum[k - 1] + numbers[k]
    IN  sum[Len(numbers)]
CountOfWhole(sizes, blocksize) == CeilDiv(Total(sizes), blocksize)
CountOf(sizes, blocksize) == Total([i \in DOMAIN sizes |-> CeilDiv(sizes[i], blocksize)])

\* The sizes that are looked at: two bounds, then the middle of the bounds after
\* each turn of the binary search.
Probes(sizes, wanted) ==
    LET lower == Total(sizes) \div wanted
        upper == CeilDiv(Total(sizes), wanted - Len(sizes))
        middle(b) == (b[1] + b[2]) \div 2
        bounds[k \in 0 .. upper] ==
          IF k = 0 THEN <<lower, upper>>
          ELSE LET b == bounds[k - 1]
               IN  IF CountOf(sizes, middle(b)) > wanted THEN <<middle(b), b[2]>>
                   ELSE <<b[1], middle(b)>>
        turns == {k \in 1 .. upper : bounds[k - 1][1] + 1 < bounds[k - 1][2]}
    IN  <<lower, upper>> \o [k \in 1 .. Cardinality(turns) |-> middle(bounds[k - 1])]

\* The first of those that come closest.
Distance(sizes, wanted, size) ==
    LET n == CountOf(sizes, size) - wanted IN IF n < 0 THEN -n ELSE n
Closest(sizes, wanted, probes, i) ==
    \A j \in DOMAIN probes :
      LET own == Distance(sizes, wanted, probes[i])
          other == Distance(sizes, wanted, probes[j])
      IN  own <= other /\ (j < i => own < other)
BestSize(sizes, wanted) ==
    LET probes == Probes(sizes, wanted)
    IN  probes[CHOOSE i \in DOMAIN probes : Closest(sizes, wanted, probes, i)]

\* <<blocksize, sourceblockcount>>, or <<>>.
Sizes(blocksize, blockcount, sizes) ==
    LET quads == [i \in DOMAIN sizes |-> CeilDiv(sizes[i], 4)]
        best == BestSize(quads, blockcount)
        limited(size, count) == IF count > Half THEN <<>> ELSE <<size, count>>
    IN  IF blocksize > 0 THEN limited(blocksize, CountOf(sizes, blocksize))
        ELSE IF blockcount < Len(sizes) THEN <<>>
        ELSE IF blockcount = Len(sizes) THEN <<4 * Max(ToSet(quads)), blockcount>>
        ELSE IF blockcount > Total(quads) THEN <<4, Total(quads)>>
        ELSE limited(4 * best, CountOf(quads, best))

ComputeBlockSizeAndBlockCount ==
    LET sizes == Sizes(creator.blocksize, creator.sourceblockcount,
                       [i \in DOMAIN creator.extrafiles |-> creator.extrafiles[i].size])
    IN  /\ at = "sizes"
        /\ IF sizes = <<>> THEN End("InvalidCommandLineArguments") /\ UNCHANGED creator
           ELSE /\ Goto("redundancy")
                /\ creator' = [creator EXCEPT !.blocksize = sizes[1],
                                              !.sourceblockcount = sizes[2]]
        /\ UNCHANGED <<disk, faults, set>>

\* Only for a redundancy: a number of blocks given by -c is not checked.
ComputeRecoveryBlockCount ==
    LET n == (creator.sourceblockcount * creator.redundancy + 50) \div 100
        count == IF n = 0 THEN 1 ELSE n
    IN  /\ at = "redundancy"
        /\ IF creator.redundancy <= 0 THEN Goto("chunks") /\ UNCHANGED creator
           ELSE IF creator.firstblock + count >= Count
                THEN End("InvalidCommandLineArguments") /\ UNCHANGED creator
           ELSE Goto("chunks") /\ creator' = [creator EXCEPT !.recoveryblockcount = count]
        /\ UNCHANGED <<disk, faults, set>>

\* Down to a multiple of 4.
ChunkSize(blocksize, blocks, memorylimit) ==
    IF blocksize * blocks > memorylimit THEN 4 * ((memorylimit \div blocks) \div 4) ELSE blocksize

CalculateProcessBlockSize ==
    /\ at = "chunks"
    /\ Goto("files")
    /\ Only([creator EXCEPT !.chunksize =
               IF creator.recoveryblockcount = 0 THEN 0
               ELSE ChunkSize(creator.blocksize, creator.recoveryblockcount, creator.memorylimit)])

\* 1 << n
PowerOf2(n) ==
    LET power[k \in 0 .. n] == IF k = 0 THEN 1 ELSE 2 * power[k - 1] IN power[n]
BitLength(n) == Cardinality({k \in 0 .. n : PowerOf2(k) <= n})
LargestBlocks == CeilDiv(creator.largest, creator.blocksize)
\* Files that hold as many blocks as the largest source file has.
WholeFiles ==
    LET whole == creator.recoveryblockcount \div LargestBlocks
    IN  IF whole >= 1 THEN whole - 1 ELSE 0

FileCount ==
    IF creator.recoveryblockcount = 0 THEN 0
    ELSE IF creator.scheme = "limited"
         THEN WholeFiles + BitLength(creator.recoveryblockcount - WholeFiles * LargestBlocks)
    ELSE IF creator.filecount = 0 THEN BitLength(creator.recoveryblockcount)
    ELSE creator.filecount

ComputeRecoveryFileCount ==
    /\ at = "files"
    /\ IF creator.scheme # "limited" /\ FileCount > creator.recoveryblockcount
       THEN End("InvalidCommandLineArguments") /\ UNCHANGED creator
       ELSE Goto("open") /\ creator' = [creator EXCEPT !.filecount = FileCount]
    /\ UNCHANGED <<disk, faults, set>>

-----------------------------------------------------------------------------
(* The source files and the packets about them *)

PacketsOf(name) == <<DescriptionPacket(name), VerificationPacket(name)>>

\* The list of critical packets after the files were opened: one after the
\* other, or by threads that append to the same std::list.  Each keeps its own
\* order; of packets appended at the same time one may be lost.
InTurn(names) == FlattenSeq([i \in DOMAIN names |-> PacketsOf(names[i])])
AtOnce(names) ==
    LET all == ToSet(InTurn(names))
        before(p, name) == p = DescriptionPacket(name)
    IN  {list \in UNION {SetToSeqs(packets) : packets \in {all} \cup {all \ {p} : p \in all}} :
           \A i, j \in DOMAIN list : \A name \in ToSet(names) :
              list[i] = DescriptionPacket(name) /\ list[j] = VerificationPacket(name) => i < j}

Names(files) == [i \in DOMAIN files |-> files[i].name]

\* Reading may fail, and a file must be in the base directory if there is one.
OpenSourceFiles ==
    LET names == Names(creator.extrafiles) IN
    /\ at = "open"
    /\ \/ /\ creator.base \in {"", "here"}
          /\ \E list \in IF creator.concurrent /\ Len(names) > 1 THEN AtOnce(names)
                         ELSE {InTurn(names)} :
               creator' = [creator EXCEPT !.sources = names, !.criticals = list]
          /\ Goto("main") /\ NoFault
       \/ creator.base \notin {"", "here"} /\ End("FileIOError") /\ NoFault /\ UNCHANGED creator
       \/ End("FileIOError") /\ Fault /\ UNCHANGED creator
    /\ UNCHANGED <<disk, set>>

\* The sources are sorted by their ids: from here on that is their order.
CreateMainPacket ==
    LET names == ToSet(creator.sources)
        rank(name) == Cardinality({n \in names : FileId[n] <= FileId[name]})
        sorted == [k \in DOMAIN creator.sources |-> CHOOSE name \in names : rank(name) = k]
    IN
    /\ at = "main"
    /\ creator' = [creator EXCEPT !.sources = sorted, !.criticals = Append(@, MainPacket)]
    /\ set' = [blocksize |-> creator.blocksize,
               files |-> [i \in DOMAIN sorted |-> [name |-> sorted[i], content |-> disk[sorted[i]]]]]
    /\ Goto("blocks") /\ UNCHANGED <<disk, faults>>

\* InitialiseSourceBlocks of one file.
BlocksOf(name, size, blocksize) ==
    [k \in 1 .. CeilDiv(size, blocksize) |->
       Block(name, (k - 1) * blocksize,
             IF blocksize < size - (k - 1) * blocksize THEN blocksize
             ELSE size - (k - 1) * blocksize)]
CreateSourceBlocks ==
    /\ at = "blocks" /\ Goto("layout")
    /\ Only([creator EXCEPT !.blocks =
               FlattenSeq([i \in DOMAIN creator.sources |->
                             BlocksOf(creator.sources[i], GetFileSize(disk, creator.sources[i]),
                                      creator.blocksize)])])

-----------------------------------------------------------------------------
(* The recovery files *)

Min2(a, b) == IF a < b THEN a ELSE b

\* Doubling from low until the blocks are used up.
Doubling(low, files, blocks) ==
    LET left[i \in 0 .. files] ==
          IF i = 0 THEN blocks
          ELSE left[i - 1] - Min2(low * PowerOf2(i - 1), left[i - 1])
    IN  [i \in 1 .. files |-> Min2(low * PowerOf2(i - 1), left[i - 1])]

\* A shift by the width or more shifts by the rest.
Shifted == PowerOf2(creator.filecount % Width) - 1
Hangs == creator.scheme = "variable" /\ creator.filecount > 0 /\ Shifted = 0
LowBlockCount ==
    LET low[k \in 0 .. Width] ==
          IF k = 0 THEN 1
          ELSE IF Shifted * low[k - 1] < creator.recoveryblockcount THEN 2 * low[k - 1]
          ELSE low[k - 1]
    IN  low[Width]

\* How many blocks each file has, and the exponent of the first.
BlockCounts ==
    LET n == creator.filecount
        blocks == creator.recoveryblockcount
        top == IF blocks < 2 * LargestBlocks THEN 0 ELSE blocks \div LargestBlocks - 1
    IN  IF n = 0 THEN <<>>
        ELSE CASE creator.scheme = "uniform"  -> [i \in 1 .. n |-> blocks \div n
                                                    + IF i - 1 < blocks % n THEN 1 ELSE 0]
               [] creator.scheme = "variable" -> Doubling(LowBlockCount, n, blocks)
               [] creator.scheme = "limited"  -> Doubling(1, n - top, blocks - top * LargestBlocks)
                                                   \o [i \in 1 .. top |-> LargestBlocks]
FirstExponentsFromZero(counts) == [i \in DOMAIN counts |-> Total(SubSeq(counts, 1, i - 1))]
FirstExponents(counts) ==
    [i \in DOMAIN counts |-> creator.firstblock + Total(SubSeq(counts, 1, i - 1))]

Allocations ==
    LET counts == BlockCounts
        exponents == FirstExponents(counts)
    IN  [i \in DOMAIN counts |->
           [file |-> Name(Base(creator.parfile), "vol", exponents[i], counts[i]),
            exponent |-> exponents[i], count |-> counts[i]]]
          \o <<[file |-> WithPar2(creator.parfile), exponent |-> 0, count |-> 0]>>

\* The packets of a file in order: after each recovery packet its share of the
\* copies of the critical packets, then the creator packet.
Spread(k, copies, packets, count) == (k * copies * packets) \div count
Packets(a) ==
    LET criticals == creator.criticals
        n == Len(criticals)
        upto(k) == Spread(k, BitLength(a.count), n, a.count)
    IN  (IF a.count = 0 THEN criticals
         ELSE FlattenSeq([k \in 1 .. a.count |->
                <<RecoveryHeader(a.exponent + k - 1)>>
                  \o [j \in 1 .. upto(k) - upto(k - 1) |->
                        criticals[((upto(k - 1) + j - 1) % n) + 1]]]))
          \o <<CreatorPacket>>

IsRecovery(packet) == packet >= RecoveryHeader(0)
PacketLength(packet) == 1 + IF IsRecovery(packet) THEN creator.blocksize ELSE 0
\* Where the packets of a file go.
Items(a) ==
    LET packets == Packets(a)
        lengths == [i \in DOMAIN packets |-> PacketLength(packets[i])]
    IN  [i \in DOMAIN packets |-> [packet |-> packets[i], file |-> a.file,
                                   offset |-> Total(SubSeq(lengths, 1, i - 1))]]
FileSize(a) == LET i == Items(a) IN Last(i).offset + PacketLength(Last(i).packet)

\* Which blocks go where is decided; the loop of scVariable may have no end.
AllocateFiles ==
    /\ at = "layout"
    /\ IF Hangs THEN Goto("hung") /\ UNCHANGED creator
       ELSE Goto("outputs") /\ creator' = [creator EXCEPT !.allocations = Allocations]
    /\ UNCHANGED <<disk, faults, set>>

\* The next file is created; a failure leaves those before it.
InitialiseOutputFiles ==
    LET a == creator.allocations[creator.next]
        last == creator.next = Len(creator.allocations)
    IN  /\ at = "outputs"
        /\ \/ /\ disk' = Create(disk, a.file, FileSize(a))
              /\ creator' = [creator EXCEPT !.items = @ \o Items(a),
                                            !.next = IF last THEN 1 ELSE @ + 1]
              /\ Goto(IF ~last THEN "outputs"
                      ELSE IF creator.dummy THEN "close"
                      ELSE IF creator.recoveryblockcount > 0 THEN "process" ELSE "criticals")
              /\ NoFault
           \/ /\ disk' \in CreateFailures(disk, a.file)
              /\ End("FileIOError") /\ Fault /\ UNCHANGED creator
        /\ UNCHANGED set

-----------------------------------------------------------------------------
(* Reed-Solomon, one chunk of every block after the other *)

ItemsOf(items, which) ==
    LET index == Indexes([k \in DOMAIN items |-> IsRecovery(items[k].packet)], which)
    IN  [k \in DOMAIN index |-> items[index[k]]]
RecoveryItems == ItemsOf(creator.items, TRUE)
CriticalItems == ItemsOf(creator.items, FALSE)
DataBlock(i) == Block(i.file, i.offset + 1, creator.blocksize)

ComputeRSMatrix ==
    LET n == creator.sourceblockcount
        base == Bases16(n)
        rows == [i \in 1 .. creator.recoveryblockcount |->
                   OutputRow(FALSE, creator.firstblock + i - 1)]
    IN  Compute(base, [i \in 1 .. n |-> TRUE], rows)

ChunkLengthAlways(c) == c.chunksize
ChunkLength(c) == Min2(c.chunksize, c.blocksize - c.blockoffset)
\* What is no part of the original data counts as 0.
AsValues(cells) == [k \in DOMAIN cells |-> IF cells[k] \in Values THEN cells[k] ELSE 0]
RecoveryWrites ==
    LET length == ChunkLength(creator)
        inputs == [i \in DOMAIN creator.blocks |->
                     AsValues(ReadData(disk, creator.blocks[i], creator.blockoffset, length))]
        outputs == Outputs(ComputeRSMatrix, inputs, length)
        items == RecoveryItems
    IN  [i \in DOMAIN items |-> <<DataBlock(items[i]), creator.blockoffset, outputs[i]>>]

\* Reading fails, or the writing of some recovery packet; or a source file has
\* become too short, having been replaced by a recovery file of its name.
CreateProcessData ==
    LET length == ChunkLength(creator)
        after == creator.blockoffset + length
        able == \A b \in ToSet(creator.blocks) : CanReadData(disk, b, creator.blockoffset, length)
    IN  /\ at = "process"
        /\ \/ /\ able
              /\ disk' = AllWrites(disk, RecoveryWrites)
              /\ creator' = [creator EXCEPT !.blockoffset = after]
              /\ Goto(IF after < creator.blocksize THEN "process" ELSE "headers")
              /\ NoFault
           \/ ~able /\ End("FileIOError") /\ NoFault /\ UNCHANGED <<disk, creator>>
           \/ /\ able
              /\ disk' \in SomeWrites(disk, RecoveryWrites)
              /\ End("FileIOError") /\ Fault /\ UNCHANGED creator
        /\ UNCHANGED set

\* Headers or critical packets are written, or some of them.
PacketWrites(items) ==
    [i \in DOMAIN items |-> <<Block(items[i].file, items[i].offset, 1), 0, <<items[i].packet>>>>]
WritePackets(place, items, onwards) ==
    LET writes == PacketWrites(items) IN
    /\ at = place
    /\ \/ disk' = AllWrites(disk, writes) /\ onwards /\ NoFault
       \/ /\ disk' \in SomeWrites(disk, writes)
          /\ End("FileIOError") /\ Fault
    /\ UNCHANGED <<creator, set>>

WriteRecoveryPacketHeaders == WritePackets("headers", RecoveryItems, Goto("criticals"))
WriteCriticalPackets == WritePackets("criticals", CriticalItems, Goto("close"))

CloseFiles == at = "close" /\ End("Success") /\ UNCHANGED <<disk, faults, creator, set>>

CreateStep ==
    \/ ComputeBlockSizeAndBlockCount \/ ComputeRecoveryBlockCount
    \/ CalculateProcessBlockSize \/ ComputeRecoveryFileCount
    \/ OpenSourceFiles \/ CreateMainPacket \/ CreateSourceBlocks
    \/ AllocateFiles \/ InitialiseOutputFiles \/ CreateProcessData
    \/ WriteRecoveryPacketHeaders \/ WriteCriticalPackets \/ CloseFiles
=============================================================================
