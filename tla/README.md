# A formal model of par2-tbb

par2cmdline-0.4-tbb creates PAR 2.0 recovery files for a set of data files, and
verifies and repairs the data files with them. This directory holds TLA+
modules of the program, the TLC configurations that check them on small
instances, and proofs that TLAPS checks for every instance. Paths such as
`pipeline.h:225` are relative to the source tree.

The models are of the default build for POSIX systems with TBB
(`WANT_CONCURRENT`, `CONCURRENT_PIPELINE`, `HAVE_ASYNC_IO`, `DSTOUT` 0), with
and without the video card (`GPGPU_CUDA`).

## 1. The system

### Components, their state and their operations

| component | state | operations | what makes it correct |
|---|---|---|---|
| **Buffers and pipeline** (`buffer.*`, `pipeline.*`) | the pool of buffers with their reference counts, `inputblock_`, `openfiles_`, `ok_` | acquire, add_ref, release; read stage (serial), process stage (parallel) | a buffer has one user at a time unless it is shared on purpose; every block is folded in under its own column; files are closed; the run ends |
| **Output slots** (`par2repairer.cpp:2692-2810`, `par2creator.cpp:1320-1423`) | the output buffer, one atomic integer for each output | ProcessDataConcurrently and the two functions below it | no XOR is lost, none is made twice, none is forgotten |
| **Creation pass** (`par2creator.cpp:36-220`, `par2creatorsourcefile.cpp`) | the walk over the source files, `shm_` with the next index and the deferred buffers of each file | on_mutex_held, try_to_update_hashes | every file is hashed in order; no buffer is lost to the deferral |
| **Repair passes** (`par2repairer.cpp:41-124, 357-384, 2816-3136`, `datablock.*`) | the pass, the walk over the copy blocks, the asynchronous writes | on_mutex_held, on_inputbuffer_read, ProcessData | what is written is complete and right; a write never outlives its buffer |
| **Repair process** (`par2repairer.cpp:210-420, 2236-2680, 3139-3221`) | file counts, lists of blocks, target files and their names | Process, RenameTargetFiles, CreateTargetFiles, ComputeRSmatrix, VerifyTargetFiles, DeleteIncompleteTargetFiles | no file is lost; a repair that claims success is one; one that was said to be possible succeeds |
| **Verification** (`par2repairer.cpp:1354-2232`, `verificationhashtable.*`, `filechecksummer.*`, `crc.*`) | the block table, the sliding window, where each source block was found | VerifySourceFiles, VerifyExtraFiles, VerifyDataFile, ScanDataFile | a block is recorded where its data is; a file called complete is complete; the counts the repair closes files by cover it |
| **Packet loading** (`par2repairer.cpp:422-1350`, `*packet.*`) | the packets, the source file map, the set id | LoadPacketsFrom..., CheckPacketConsistency | packets of one set only; none is lost; what is kept fits together |
| **Creation process** (`par2creator.cpp:299-1305, 1627-1718`) | block sizes, recovery files, critical packets | Process and its steps | recovery files hold every critical packet, and each recovery block once, at places that do not overlap |
| **Reed-Solomon** (`reedsolomon.*`, `galois.*`) | the matrix | SetInput, SetOutput, Compute, Process | the computed matrix inverts the damage |
| **Disk files** (`diskfile.*`, `datablock.*`) | handle, offset, size, the map of names | Open, Create, Read, Write, Rename, Delete | writes land where they should; a new name is nobody else's |
| **Command line** (`commandline.*`, `par2cmdline.cpp`) | options | Parse | what is accepted can be carried out |
| **PAR 1.0** (`par1*`) | as the repairer, one block for each file | Process and its steps | as the repairer |
| MD5, video card, assembler kernels, byte order, build and tests | - | - | outside the models, see section 7 |

### How they interact

`Par2Creator::ProcessData` and `Par2Repairer::ProcessData` make a
`pipeline_state` (the pool, the position in the input) and two filters on the
stack, and run a `tbb::pipeline` with as many tokens as the pool has buffers.
The **read stage** is serial: it acquires a buffer, takes the next input block
under `inputblock_mutex_`, opens the block's file if need be, reads, and calls
the hook `on_inputbuffer_read`, with which the repairer starts an asynchronous
write from the same buffer. The **process stage** is parallel: it calls back
`ProcessDataConcurrently`, whose `parallel_for` folds the buffer into every
output; then it waits for the buffer's write, and releases the buffer. The
creator puts the hashing of the source files before the process stage. Tasks
of different input blocks meet in the output slots, in the reference counts,
in `inputbuffersidx_` and `ok_` (both unsynchronised), and, in the creator, in
`shm_`. After the run the main thread fetches what the video card has
computed through one more buffer of the pool, and writes the outputs.

Around the pipeline the program is one thread that calls one function after
the other (`Par2Creator::Process`, `Par2Repairer::Process`), each of which may
return with a failure, and three places where it hands a list of files to
several threads: opening the source files in a creation, loading the packets of
the recovery files, and verifying the source files. Those threads share
`criticalpackets`, `sourcefilemap`, `setid` and the source blocks without a
lock. A repair meets what a creation has left on disk, and whatever has
happened to the files since; a second repair meets what the first has left.

### What is hard

* Locking is by counters that every contender changes before it knows the
  outcome (`try_to_acquire`, `outputbuffer_element_state_`), with an undo.
* A buffer has up to four users at once: the token, the hash it waits for,
  the asynchronous write, the failed attempt of the reader.
* The parallel stage reorders what must be hashed in order.
* Any call to the operating system may fail while other tokens are in flight.
* The pool is exactly as large as the number of tokens, and some paths keep a buffer.
* File handles are closed by counting blocks, and passes repeat the whole run.
* Several threads fill one `std::map`, and set one field of a block after the other.
* A window slides over a file whose blocks overlap, repeat, and end short.
* Any step of a repair may fail after files were renamed, created or half written.

`PROJECT.json` lists each of these hazards at its line with the properties that cover it.

## 2. The modules

| module | models | with |
|---|---|---|
| `OutputSlots` | output slots | `MCOutputSlots`, `OutputSlots_proof` |
| `Pipeline` | buffers and the two stages; on its own, a creation pass without hashing | `MCPipeline`, `Pipeline_proof` |
| `FileHashing` | abstract: each file's hash is fed its blocks in order | - |
| `CreatePipeline` | extends `Pipeline` with the hashing of `Par2Creator`; implements `FileHashing` | `MCCreatePipeline`, `CreatePipeline_proof` |
| `RepairPipeline` | extends `Pipeline` with the copies, the passes and the writes of `Par2Repairer` | `MCRepairPipeline`, `Pipeline_proof` |
| `PacketLoading` | which files are loaded, what their packets add to the tables, what becomes of the tables | `MCPacketLoading`, `PacketLoading_proof` |
| `CRC` | the tables of the checksum, and how it is computed and slid | used by `ScanVerify` |
| `ScanVerify` | verification of the source and extra files, byte by byte | `MCScanVerify`, `ScanVerify_proof` |
| `Galois`, `ReedSolomon` | arithmetic, matrix, elimination, application to data | used by the next five |
| `DiskFiles` | the disk by name, `DiskFile`, `DataBlock` | used by the next four |
| `CommandLine` | `CommandLine::Parse` | `Par2CmdLine` |
| `CreateProcess` | `Par2Creator::Process` | `Par2CmdLine`, `CreateProcess_proof` |
| `RepairProcess` | `Par2Repairer::Process` | `Par2CmdLine` |
| `Par1Repair` | `Par1Repairer::Process`, where it differs | `Par2CmdLine` |
| `Par2CmdLine` | `main`, run several times in a folder where files get damaged | `MCPar2CmdLine`, `Par2CmdLine_proof`, `Par2Create_proof` |

`Par2CmdLine` extends `Par1Repair`, which extends `RepairProcess`, `CreateProcess`,
`CommandLine`, `DiskFiles` and so on: one state, one action for each function.

**OutputSlots.** A call of `ProcessDataForOutputIndex` is a process with a
program counter. `TryLock` is the atomic `state -= 2` with its test, `Undo` the
`+= 2` of the loser, `ReadOutput`/`WriteOutput` are `rs.Process` torn into one
read and one write (so that an overlap would lose an update), `Unlock` the
`+= 2` of the holder, `EndRound` the turn of the `do ... while` that goes on
with the deferred outputs. An output is the set of inputs XORed into it, `Xor`
is symmetric difference. Which ranges `parallel_for` makes is a constant;
the one fact assumed is that the ranges of one input block are disjoint.

**Pipeline.** One action per step that another thread can see. `rc` is
`refcount_`; `Search`, `TryAcquire`, `BackOff` are `first_available_buffer`
(starting anywhere, because `inputbuffersidx_` is racy), `Fetch`/`EndOfInput`
the critical section of `inputblock_mutex_`, `ReadBlock`/`OpenFails`/`ReadFails`
the rest of the read stage, `Process`/`Release` the parallel stage, `RunReturns`
and `GpuXor`/`GpuFails` what follows `p.run`. `stage[i]` is the place of input
block `i`; a token is in flight from the end of the read stage to the end of
`Release`, and `StartRead` needs one left. `content[b]` is the block whose data
is in buffer `b`, `folded` the pairs of column and data that reached the
outputs (the folding itself is `OutputSlots`). `handles[f]` counts the `FILE`
objects of a `DiskFile`: `Open` without a `Close` before leaks one.

**CreatePipeline.** `CreateFetch` adds the walk over the source files
(`on_mutex_held`), `HashNow`/`KeepForLater`/`HashOne` are
`try_to_update_hashes`: the accessor to the file's entry of `shm_` is held from
`HashNow` to the last `HashOne` (`hasher`), each turn of the hashing loop is a
step of its own, since others acquire and release buffers meanwhile.

**RepairPipeline.** `RepairFetch` pairs input and copy blocks, `ReadOnly` and
`ReadAndStartWrite` are the read with the hook, `WriteCompletes` is the
operating system (external), `Await` is `suspend_until_completed` with its
check. `WriteOutput`, `NextPass`, `LastPassDone`, `RunFailed` are `ProcessData`
after the run and the loop over the chunks in `Process`; `GiveUp` stands for
`DeleteIncompleteTargetFiles`. Lengths are counted in chunks.

**PacketLoading.** A file is a sequence of pieces: whole packets, damaged
ones, and places that cannot be read. `FindPacket` searches for the next whole
packet; the first of all decides about the set, and since `setid` is copied and
`firstpacket` cleared without a lock, `ClaimSet` and `SetClaimed` are two steps.
`SkipPacket`, `LoadMainPacket`, `LoadRecoveryPacket`, `LoadCreatorPacket` are
the handlers whose tables have locks or atomics. The description and
verification packets go through a `std::map` that has none: `LookUpFile`,
`AttachPacket`, `BeginInsert` and `LinkEntry` are separate steps, and an insert
whose walk is out of date may take another thread's entry out of the tree again.
`CloseFile` sets the block count of the `DiskFile`, which the read stage of a
repair will count down. `CheckPacketConsistency` to `CheckDetails` turn the
tables into the list of source files.

**CRC.** A byte or a checksum is the set of its bits that are 1, so that XOR is
the symmetric difference and a shift moves the members. `Register` is the loop
that all of `crc.cpp` and `crc.h` consist of: a value that is fed one byte after
the other. `ccitttable`, `windowtable` and `windowmask` are computed as in the
code, for any width of checksum and byte, polynomial and length of window.

**ScanVerify.** `MatchBlock` is one turn of the loop of
`ScanDataFile`: the match in the hash table (with the suggested next block, the
test of the length at the end of the file, the choice among equal blocks), and
the step or the jump of `FileCheckSummer` with its buffer of two blocks.
`SetFile` and `SetOffset` set the two fields of the location of a block, which
two threads that find the same block do in any order. `EndScan` and
`CompareWhole` decide whether the file is complete. MD5 of some bytes is those
bytes, so that two blocks are equal in the model just if their data is.

**Galois, ReedSolomon.** The logarithm tables are built from the generator as
in the code (`Twice` is a turn of that loop); `xor` is the machine's exclusive or,
bit by bit from the last, and sums are looked up in a table of it. `Compute` lays
out the two matrices for the missing inputs, eliminates without exchanging rows,
and fails at a zero pivot as the code does. `LongMultiply` is the product by two
table look-ups that the inner loop for 16 bits uses; for 8 bits the code looks the
product up in one table. `Bits` is 16 for PAR 2.0 and 8 for PAR 1.0 in the code.

**DiskFiles.** The disk is a function from names to sequences of cells; a cell
is a value of the field, or all of a packet but its recovery data, or garbage.
`Create` makes the file as long as it will be; `NewName` is the search for a
numbered name; `ReadData` and `WriteData` are those of `DataBlock`, with what
lies within the block and what is past its end. The writes of a chunk are one
function from their numbers: `AllWrites` is the disk after all of them, cell by
cell, `SomeWrites` the disks after those before one that fails.

**CommandLine.** An argument is an option with its number or text. Each option
has an operator with the tests of its case; `RecoveryFile` and `FileName` treat
the names; `Defaults` is what follows the loop.

**CreateProcess.** Block sizes and counts (with the binary search of `-b`, in
integers), redundancy, chunk size, number of files, `OpenSourceFiles` in turn or
by threads that append to one `std::list`, main packet, layout
(`AllocateFiles`, `Packets`, `Items`), `InitialiseOutputFiles`, matrix, one
`CreateProcessData` for each chunk, headers, critical packets. A loop that calls
the system is one action for each turn, and each turn may fail.

**RepairProcess.** `repairer` holds what `Par2Repairer` does. Verification takes
the target files in any order and leaves for each block where it was found;
`RenameDamaged`, `RenameMisnamed`, `CreateTargetFiles` take one file each, a
failure leaves what was done before; `ComputeRSmatrix` chooses any of the
orders in which the hash map of recovery packets can be walked;
`ProcessData` is a chunk: all of it is written, or, after a failure, any first
part of it; then the created files are verified again, and deleted if they are
not complete. Scanning is here the outcome that `ScanVerify` shows for files
whose blocks all differ, the pipeline the outcome that `RepairPipeline` shows:
a copy of a block that ends before the chunk fails, as `WriteDataAsync` does.
A file that cannot be opened counts as missing, as in the code (`unopened`
remembers it for the properties).

**Par1Repair.** A file is one block, a volume one recovery block; loading,
comparison and matrix are its own, renaming, creation and deletion are those of
`RepairProcess`, where the code has its own copy of the same functions.

## 3. The runs

| run | instance | shows |
|---|---|---|
| `output_slots` | 4 calls of 3 input blocks, 2 outputs, one block cut into two ranges | MutualExclusion, OutputIsExact, OneInputAtATime, CompleteAtEnd |
| `pipeline` | 3 buffers, 4 blocks of 2 files, faults, video card | NoSharing, InputIntact, AlwaysSucceeds, RunComplete, RunEnds |
| `create_pipeline` | 3 buffers, files of 3 and 1 blocks, faults, video card | RefsExact, KeptIntact, NothingLeftToHash, refinement of FileHashing, CreateRunEnds |
| `repair_pipeline` | 3 buffers, 3 blocks (intact, to be copied, recovery), 2 passes, 2 outputs of different length, faults, video card | TargetsComplete, BufferKeptForWrite, NoWriteLeft, FilesOpenedOnce, OnlyFailOnFault, RepairEnds |
| `packet_loading` | 4 files, each with up to three contents; 2 threads, serial and concurrent; 83129 states | OneSet, BlockCountCovers, SerialLosesNothing, DetailsFit |
| `scan_verify` | 3 source files of up to 3 blocks, 4 extra files, 2 threads, read faults; 260610 states | WindowExact, CompleteIsComplete, FoundWhenSerial, CountCovers |
| `par2cmdline` | creations, damage and repairs of 2 files, PAR 1.0 sets, typed command lines, a failing call; 41257 states | SuccessMeansRestored, NothingDestroyed, PossibleMeansRepaired, CreatedWhole, SizesAgree |
| `pipeline_serial_gpu` | 1 buffer, video card, no faults | RunEnds is violated |
| `repair_short_block` | no faults, the block to be copied shorter than a chunk | OnlyFailOnFault is violated |
| `repair_spare_packet` | no faults, a recovery file with a packet to spare | FilesOpenedOnce is violated |
| `scan_past_end` | one thread, no faults | NothingPastEnd is violated |
| `repair_rename_collision` | a set with the files f and f.1 | PossibleMeansRepaired is violated |

What the last five show of the code:

1. *The run hangs with one token and a video card.* At the end of the input the
   read stage keeps the buffer it has acquired (`pipeline.h:245`). With `-t-`
   the pool has no other, and `first_available_buffer` after the run
   (`par2creator.cpp:1469`, `par2repairer.cpp:2866`) never returns.
2. *A repair in several passes fails for an intact short block.*
   `DataBlock::WriteDataAsync` reports failure when the block ends before the
   chunk (`datablock.cpp:151`); `WriteData` reports success. The target files
   are deleted.
3. *A recovery file with unused packets is never closed*, and opened again in
   every pass, because the count that closes it is that of its packets.
4. *A block is found past the end of a file.* The block suggested by its
   predecessor is accepted without the test of the length that the comment at
   `verificationhashtable.h:344` describes, so a block that ends in zeros is
   recorded where the file is too short for it.
5. *A damaged file is renamed to the name of another file of the set.* `f`
   becomes `f.1`, `f.1` is created anew, and the blocks of `f` that the repair
   was to use are gone: it fails though it was reported as possible.

Two statements hold only in part, and the properties say so. "This should
always succeed" (`pipeline.h:234`) holds for `Pipeline` (AlwaysSucceeds), but in
the creator buffers kept for hashing outlive their tokens, so the reader may
pause there; `CreateRunEnds` shows that the pause ends. No packet is lost when
files are loaded one after the other (SerialLosesNothing); with several threads
the race on `sourcefilemap` may lose one.

The properties about whole runs relate a repair to the disk it began with:
*NothingDestroyed* says that the contents of every file there was are on the
disk under some name in every state of a repair, also after a failure at any
call; *SuccessMeansRestored* that a result of success is true of the disk;
*PossibleMeansRepaired* that a repair that was announced as possible, and met
no failing call, restores everything; *CreatedWhole* that the recovery files of a
successful creation hold what they should. They would be empty if the arithmetic
were not real: `ReedSolomon` computes the recovery data in the creation, and
the matrix that inverts the damage in the repair.

PossibleMeansRepaired has three exceptions, each a way in which the code gives up
or fails after it has said that repair is possible: a matrix that cannot be solved
(`Unsolved`); a short block that is copied in several passes (`ShortCopy`, the run
`repair_short_block`); and a set none of whose files has a verification packet.
The last is the work of two variables of one name: the hash that a file is compared
by is declared at `par2repairer.cpp:1716`, and set only by the scan of its blocks;
without blocks to look for, the hash of the file is computed into another
`hashfull` (line 1818), so that no file, not even one just repaired, is recognised.

CreatedWhole has two. A source file whose name is that of a recovery file to be
made, or which itself holds packets, is one that a creation does not expect and
does not look for (`Separate`). And when threads open the source files, a packet
may be lost, since they append to one `std::list` without a lock
(`par2creator.cpp:768`): the property then asks only that each file holds all the
packets that were recorded. That all are recorded it asks of a creation without threads.

Both NothingDestroyed and SuccessMeansRestored speak of a set whose files have
different names, none with a number at its end, and of a repair that could open
every target file it found (`Regular`). The code relies on both and checks
neither. Of the names, the run `repair_rename_collision` shows the need. The other
was found when the proof was tried, and TLC showed the way: without it
SuccessMeansRestored is violated in the scenario `Swapped`. Let f and g have each
other's name. If f cannot be opened for a moment it counts as missing
(`par2repairer.cpp:1434`, `par1repairer.cpp:590`); g is recognised as the copy of
f; then f is read after all, as one of the extra files, and recognised as the copy
of g. The target g is not what g should be, and is put aside as g.1
(`par2repairer.cpp:2388`, `par1repairer.cpp:1015`). Then each file gets its name
(`par2repairer.cpp:2424`, `par1repairer.cpp:1042`): g.1 is renamed to f, which
replaces the file there was, and the file that is now called f is renamed to g. Its
contents are those of f; those of g are lost, and there is no file f. But both
files were counted as they got their names, and the repair reports success.

### Bounds and why they are enough

*The pipelines.* Three buffers let two tokens be processed while the reader
holds a third or fails to acquire; a fourth adds no new kind of user. Four
blocks through three buffers make every buffer be reused. In `create_pipeline`
the file of three blocks allows both a deferral by one and by two, and the hash
of a second file next to it. Two passes show what a pass leaves for the next.
Two outputs and three contending input blocks let a loser meet a holder and
another loser. `U32` is the modulus of the file counts, 65536 in place of 2^32:
only whether a count is 0, 1 or wraps matters, and the instances stay below either.

*PacketLoading.* The file named on the command line is empty, damaged, or of a
consistent or inconsistent set; the two files loaded at the same time meet in
every table; the extra file adds duplicates and packets of another set. Two
threads suffice for every race of check and act.

*ScanVerify.* Blocks of two bytes in files of up to six: windows that overlap
two blocks, blocks that begin alike, a last block that is the end of another
file, a file that is two others one after the other. Bytes of two bits and a
checksum of three (`CharBits`, `Width`) make different windows have equal
checksums. `Short` 3 stands for the first 16 KiB.

*Par2CmdLine.* GF(16): `Bits` 4, generator 19, so at most 8 source blocks in
place of 32768. `DefaultBlocks` 6 for 2000, `Megabyte` 8 cells, so that `-m1`
gives passes of half a block, `Width` 4 bits for the shift that counts files.
One file of 10 and one of 5 cells: whole blocks and a short one. Damage strikes
at `Spots`, in the middle of a block, and reading breaks off at `Breaks`.
`faults` is the number of calls that may still fail, at most one in a scenario
(two actions cannot both fail, since a repair ends with the first); `damages`
at most two. `Scenarios` fixes what the user types; the typed command lines are
all pairs of 31 words before the names.

No symmetry is used: blocks, buffers and files are ordered.

### Fairness

Weak fairness of the reader, of the workers together, and of each write the
operating system has accepted. TBB's threads run tasks until there are none,
so an enabled stage is taken up in the end; nothing is assumed of *which* token
is served, of the order of writes, or of faults. The one wait in the code that
is not for another enabled step is the pause of `first_available_buffer`.
The modules of the other components state no fairness and no liveness: their
threads never wait for each other, and deadlock is checked.

## 4. Proofs

`OutputSlots_proof` proves, for any outputs, inputs, finite set of calls and
partition of the ranges:

* TypeOK, MutualExclusion, OutputIsExact, CompleteAtEnd as invariants, and
  OneInputAtATime as an action property.

The inductive invariant `IInv` adds to the types: the state of an output is
minus two for each call whose decrement is not undone (`StateCounts`); at most
one of them holds the output; `todo`, `deferred` and the output a call is at
are disjoint parts of its range (`Bookkeeping`); what a holder has read is
still what the output holds (`ReadIsCurrent`); the output is the set of inputs
through with it. It is needed because mutual exclusion follows only from
*counting*: a new decrement yields -2 just when nobody else's stands.

`Pipeline_proof` proves, for any pool, input, files, with or without faults
and video card:

* TypeOK, NoSharing, InputIntact as invariants.

Neither NoSharing nor InputIntact is inductive: that an acquired buffer is
nobody's follows from its count having been 0, so the count must be tied to
the users. It is *not* the number of users: a failed attempt raises it for a
moment, and a buffer that the reader forgets at the end of the input or after a
failed open stays counted. `Counted` says that it is 0 or 1 plus the reader's
attempt, and 1 plus the attempt for a buffer that is used. `Exclusive` is the
property over all states of the reader, `Fetched` says that what is fetched but
not read is in no other stage, `Control` ties the reader's locals to its place.
There is one lemma per action.

Its second half (`EndInv`) is what takes counting:

* AlwaysSucceeds, if a pool that serves a video card has more than one buffer
  (`EnoughBuffers`); the run `pipeline_serial_gpu` shows why it must;
* RunComplete, if the file count of a file is the number of its blocks in the
  input (`BlocksCounted`), as it is in a creation.

There are as many buffers as tokens, and the reader starts only while a token is
left: some buffer is with no token, and while the input lasts nothing is
forgotten, so its count is 0 (`Exact`). Only the reader raises counts; hence the
buffer is still free when the search comes to it, and it comes to it within the
tries it has left, wherever the racy `inputbuffersidx_` made it start
(`FreeAhead`). For RunComplete, `FilesCounted` equates the entry of
`openfiles_` with the cardinality of the file's blocks not yet read, so the
file is closed at its last block and not before; `PassedOn` says that without a
failure no fetched block was dropped, `FoldedExact` what has been folded.

`CreatePipeline_proof` proves, for any pool, any source files and any blocks in
them, with or without faults and video card:

* CreateTypeOK, KeptIntact, RefsExact, NothingLeftToHash as invariants, and
  HashesInFileOrder, the refinement of `FileHashing`.

A buffer may here outlive its token, so that `Pipeline`'s invariants are not
enough. `CInv` rests on two facts. The first is that a buffer in use holds the
block that its label `src[b]` names (`Tokens`, `Kept`, `AtCursor`): a block is
with one token, in one deferred entry or at one cursor, hence so is the buffer,
and each of the three counts for one reference (`Counted`). The second is that a
block which has left the hashing stage has been hashed, is kept, or is the one
at the cursor (`Through`), and one before it has not been hashed; with `Fed`,
which says what a hash was fed, the index at which hashing goes on is always that
of a block still to come, until the file is finished. When no token is left
nothing can be kept: the block before it would have to come by (`NoneKeptAtEnd`).
A step maps to a step of `FileHashing` if it is a turn of the hashing loop, to a
stutter otherwise.

Its second part is about the passes of a repair. It proves, for any pool, blocks,
copies, outputs and number of passes, with or without faults and video card:

* RepairTypeOK, BufferKeptForWrite, NoWriteLeft, TargetsComplete as invariants;
* OnlyFailOnFault, if every block to be copied lasts for all the passes
  (`WholeCopies`); the run `repair_short_block` shows that it fails otherwise;
* FilesOpenedOnce, if the file count of a file is the number of its blocks that
  are read (`BlocksCounted`); the run `repair_spare_packet` shows that it fails
  otherwise.

`Counted`, `Exclusive` and `Fetched` carry over from the first part, since a
write has no reference of its own. What is new follows a block: `Walk` says
which copy block goes with it, `WriteOut` that a write belongs to a token
that has not yet waited for it, which is why it cannot outlive the run;
`CopiedRight` and `WrittenRight` say what is on the disk at any moment of any
pass, and `HandedOn` that without a failure no block was left behind. For
FilesOpenedOnce, `FileCounted` says that a file has its one handle just while its
entry in `openfiles_` is the number of its blocks still to be read, and that
otherwise all or none of them are; it holds as long as the read stage may still
open a file (`Opening`), since a failed read leaves the file open but ends the run.

`PacketLoading_proof` proves, for any directory, any contents of its files, any
finite set of threads and either level of concurrency:

* TypeOK, OneSet, BlockCountCovers, SerialLosesNothing, DetailsFit as invariants.

`Types` ties the place of a thread to the packet it is at. `OneSetInv` says that
before the set is decided only the caller is at work, on its way to the first
whole packet of the file it was given, with every table still empty; and that
afterwards `setid` is constant, and what a thread still holds for the source
file map was of that set when it was looked up. `CountInv` follows the count of
recovery blocks from the thread that loads a file to the `DiskFile` it becomes:
what the tables hold of a file is at most the thread's own count while it
loads, and at most the block count of the `DiskFile` from then on. It rests on
no file having two loading threads, which holds because no name is twice in the
list of the other files. There is one lemma per action here too.

SerialLosesNothing needs `SerialInv`: the one thread has put every packet that is
behind it in its file into the tables (`Passed`), as it had those of the files
loaded before (`SeenAll`), and what it looked up in the source file map is still
so when it attaches or inserts (`LookedUp`). DetailsFit needs `DetailInv`, which
says what each step from the tables to the list of source files has made, and an
induction over the files (`FirstBlockIs`): the first block of a file is the sum
of the counts before it.

`ScanVerify_proof` proves, for any number of source and extra files with any
bytes in them, any block size but one, any checksum, any set of threads, with or
without read faults:

* SlidingIsExact: the checksum of a window slid by one byte, as `CRCSlideChar`
  with `windowtable` and `windowmask` computes it, is the checksum of the next window;
* TypeOK, WindowExact, CompleteIsComplete, FoundWhenSerial, CountCovers as invariants.

SlidingIsExact rests on one fact. A step of any register of `CRC` maps the sum
of two arguments to the sum of the two results (`RoundLinear`, `TableLinear`,
`UpdateLinear`), hence so does a whole run of it (`Superposed`, by induction over
the bytes, for which the set of the lengths it holds for is shown to be `Nat`).
So a window's checksum is the sum of what the mask, the first byte and the other
bytes contribute, each alone, and the first can be cancelled.

The other theorems need `Inv`: what is true of the checksummer of each thread at
each stage (`Sound`). `Hashed` says that the two hashes have been fed what has
been read of the file, `Buffered` that the buffer holds the file from
`offset - out` on as far as it was read, `Filled` that it was read to its end or
the buffer is full, and `Live` adds the checksum. There is one lemma for each
operation (`FillWorks`, `SlidWorks`, `WrappedWorks`, `KeptWorks`, `StepWorks`,
`JumpWorks`); `FindMatchWorks` shows that each of the five ways out of
`FindMatch` that return a block return one whose bytes the window begins with.
CompleteIsComplete then follows from the hashes (`HashIsWhole`), and
FoundWhenSerial from the window and from there being one thread between the two
stores of a location (`OneScans`). For CountCovers, `CountInv` says that no two
threads scan one file, that a file nobody has come to has no blocks, and that
those found in a file are at most as many as the thread in it has counted, and
as the block count is once the thread has left; other threads only take blocks
of a file away.

`CreateProcess_proof` proves, for any number of bits from two and any generator
whose powers are all the values (`GaloisAssumption`), any number of blocks and any
data:

* Field: the sums, products and quotients that the code looks up are those of a field;
* PowerIs: the power that is taken by one multiplication of the logarithm and one
  reduction is the repeated product, for every exponent there may be;
* LongMultiplyIs: the two look-ups of the inner loop for 16 bits give the product;
* Encodes: the matrix of a creation can always be computed, and the outputs are the
  recovery blocks (`Recovery`: the sum of the data blocks, each times a power of its base);
* Decodes: if `Compute` finds a matrix, the data blocks that are there and the recovery
  blocks that were chosen give, with it, the missing data blocks and the recovery blocks asked for.

These do not say that a matrix is found: `GaussElim` gives up at a pivot that is
zero, and whether one turns up depends on the field and the blocks. They say that
there is no third outcome, a matrix that gives something else. `xor` is a recursion
over halves, which is shown to be well founded (`XorIs`); it is a group (`XorLaws`)
and commutes with doubling (`XorDouble`), so that `Twice` is linear (`TwiceIs`). A
product is that of the factor's predecessor among the powers, doubled, and an
induction over the logarithm gives the distributive law (`Distributes`); that a
logarithm may be reduced modulo `Limit` rests on the power after the last being 1
again, as the generator is odd (`Cycle`). The second half reads a row of the two
matrices as an equation between the blocks that are given and those to be made. The
rows that `Compute` lays out hold (`RowSolves`, `Equations`); a round of `Eliminate`
keeps what solves them (`EliminateKeeps`), and clears a column (`EliminateClears`);
when all are cleared each row gives the block that belongs to it (`ReadOff`).
`Indexes` splits the blocks into those that are present and those that are missing,
and the sum over all blocks into two (`SumSplit`). The last sections are about sums,
sizes and lists, of which the theorems on creations below make use.

`Par2CmdLine_proof` proves, for any files on disk, any set, any command lines,
damages and failing calls, and both formats:

* SuccessMeansRestored, NothingDestroyed as invariants, and the inductive
  invariant they need (`Inductive`), which TLC has checked on the instance of
  `par2cmdline` as well;
* SizesAgree as an invariant, from the inductive `PlanInv` (`PlanHolds`).

Neither of the first two is inductive. That the contents of a file are still there says nothing of
the next step, which may rename another file onto it, create a file over it,
write a block into it or delete it; that a repair succeeds is decided by a count
of files, and not by looking at the disk. `IInv` therefore says for each stage of
a repair what the files it knows have to do with the disk. At all stages a
target is on disk under its name, and a file that was found complete holds what it
should (`OnDisk`); what there was is in files that are not going to be written
(`Kept`); and what is to be copied or computed goes only to files that the
repair has created (`Aimed`). Then `Verifying` and `Searching` say that no file on
disk counts as a copy of two files (`Apart`), as each is looked at only once, and
that a file without a target is not there under its name (`Absent`), which is
where a file that could not be opened breaks it. `Moving` keeps both while files
are renamed, and adds that the count of complete files is right; without `Apart`
the second renaming would take away what the first has put in place, without
`Absent` a renaming would replace a file. `Making` says that each file found complete
is its own target and none that was created; so whatever the blocks written hold,
they leave alone what counts as complete. `Rechecking` says that the count is right
again if all created files have been found complete. The rest of `IInv` says that
lists are lists and that a file has as many blocks as its size asks for (`Shaped`),
so that the blocks of all files can be numbered (`SlotsAre`) and the write to
each has a target (`WritesFit`).

The proof first says what each operation changes of the repairer (`Kin`: all but
the fields and the fields of files named) and of the disk (`Outcome` for a file that
was looked at, `Passed` for one renamed, `Added` for one created, `Spared` for
writes), for any repairer and disk; then, of each stage, that its steps keep it or
lead to the next (the lemmas called ...`Stage`), and that each way to end a repair
leaves what the theorems say (`StageEnds`, ...`Ends`). There is one lemma for
each action of both repairers, one for each step of a creation, and one each for
`ParseArgument`, `Dispatch`, `Damage` and `NextRun`. Where Par1Repair has its own
action, it is shown to have the same effect. Of the arithmetic nothing is used: these
theorems hold whatever the matrix is. That a number that no file has as an ending
exists (`NewNameIs`) is the pigeon-hole principle.

The second half is about creations, and rests on the last sections of
`CreateProcess_proof`. The number of source blocks is fixed three ways: for a given
block size by rounding up each file's size, for a given number of blocks by a search
among block sizes, or as the number of files; the files are cut up long after, from
their sizes on disk. Those sections say what a sum of numbers is (`TotalIs`, the
last of the sums that `Sums` follows), that it does not depend on the order of the
numbers (`TotalShuffled`, needed because the main packet has the files sorted by
their ids), and that lists of the lengths summed, joined, have the length of the sum
(`FlattenLength`); then that `Sizes`, if it does not refuse, gives a positive size
and the count that goes with it (`SizesAre`); of the search it needs only that what
it chooses is one of the sizes it has tried. `PlanInv` then follows the decision
from stage to stage: the sizes are those on disk while nothing has been written
(`Same`), the count is theirs (`Decided`), the exponents fit (`Fit`), and the layout
has a file for the next step (`LaidOut`). It also has to speak of what is no
creation: whatever is on disk is a list of cells (`Solid`), through every repair and
all damage, as the sizes of the files are the lengths of those lists; a repair, in
turn, keeps that because what it writes to is on disk and the contents of the set's
files are lists (`Known`). While the command line is read the numbers in it are
within the limits of their options (`Setting`).

`Par2Create_proof` proves, on top of `IInv` and `PlanInv` and for the same constants:

* CreatedWhole as an invariant, from the inductive `WholeInv`.

It is decided at the end, when the files are on disk, but what makes it true is
decided long before: `WholeInv` follows it from `Dispatch` to the last write. Until
the first file is made the disk is as it was (`Early`). `AllocateFiles` deals out
the exponents, to each file a run that begins where the one before it ends
(`Allotted`, from `AllocationsSum`), and `Packets` puts them into the file in order,
however the critical packets are spread among them (`PacketsHold`): so the recovery
packets of all files, one file after the other, are in order of their exponents
(`Ordered`, `ItemsOrdered`), which is how `ItemsOf` numbers them and how the rows of
the matrix are numbered. `StowedNext` says that the items of a file lie one after
the other and fill it, hence that every cell of a file that is made is in one item
(`Occupied`). Then the data: `EncodingIs` (of which Encodes is the statement) says
that the outputs of a chunk are the sums that are due, `ChunkWrites` where they are
written, and `DataUpTo` that of every recovery block what lies before `blockoffset`
is there, and the source files are still what they were, as no write goes to them
(`Separate`). Headers and critical packets go to the first cell of their item
(`PacketsWritten`). At the end each cell of a file is known from the item it is in,
so that the headers found are those of the items and none is in the data
(`CellsAre`, `AllFound`), as no packet is a value of the field.

The assumptions are those named in the modules (`CallAssumption`,
`PipelineAssumption`, `CreateAssumption`, `RepairAssumption`, `LoadingAssumption`,
`CRCAssumption`, `ScanAssumption`, `MainAssumption`, `GaloisAssumption`): calls,
disks, files and exponents are finite, levels and sizes are numbers, the powers of
the generator are all the values but 0, there are as many bases as there may be
blocks, no two files have one id, a byte is no wider than a checksum, the sorted
list holds every source file once, and the source blocks are laid out file after
file, as `CreateSourceBlocks` does. Where a theorem needs more, its hypothesis has a
name (`EnoughBuffers`, `BlocksCounted`, `WholeCopies`) and a run that shows the
need. TLC evaluates them in every run.

## 5. Checked by TLC only

Of the invariants that the runs check, two are not proved, both of `Par2CmdLine`.
The arithmetic that PossibleMeansRepaired rests on is proved (Encodes, Decodes), and
that a creation leaves what is due (CreatedWholeHolds); what is not is that a repair finds
it. The disk would have to be shown to hold the recovery data of the very set that is
repaired, through any damage and a first repair, and of the disks that a run begins with
the constants say nothing. TypeOK, of the shapes of all variables, is checked
there too; the proofs use only the shapes they need, and for every state of them.
The runs carry out the whole of the arithmetic.
The induction theorems of the library cannot be instantiated; an induction over
numbers can be had from the least member of a set, as `CreateProcess_proof`, `ScanVerify_proof`,
`PacketLoading_proof` and `Par2CmdLine_proof` do, for functions defined on numbers.

Liveness (RunEnds, CreateRunEnds, RepairEnds) stays with TLC: the prover has no
support for ENABLED and fairness.

## 6. What is left to do

* TypeOK of `Par2CmdLine`, and what PossibleMeansRepaired needs besides the
  arithmetic (section 5).
* That a repair refines a specification with a disk only: each of its steps
  renames, creates, writes to created files, or deletes those.

## 7. Not modelled, and why

* MD5, a pure function of bytes: a hash is what it was taken of. The CRC is
  modelled, since its sliding is where it could go wrong.
* The video card's kernels and locks: driver calls. Its outputs come back
  through a buffer of the pool, which `Pipeline` has.
* The assembler kernels: one read and one write of an output.
* The overflow of the numbers after `-n` and `-m`, the two options whose digits are not
  limited: a number is what its digits come to.
* Byte order (`letype.h`), build files, platform files and the shell tests: no state.
* The disabled branches (asynchronous reads, `DSTOUT`, builds without TBB, Windows)
  and block devices.
* `assert`: the release build defines `NDEBUG`, so an assertion is no step.
* Signals: `aio_suspend` could return early in a process with signal handlers; the program has none.
* A short asynchronous write, which `completedOK` takes for success: left to
  `VerifyTargetFiles`, which reads the files again.
* A crash as the outcome of the races on `std::map` and `std::list`: the models
  have the other outcomes, an entry that is lost.
* The spelling of names, wildcards and folders: an argument is the names it
  expands to. Two different descriptions of one file in a set are not among the instances.
* The deletion of packets, blocks and files in the destructors, and all output.
