------------------------------ MODULE Pipeline ------------------------------
(***************************************************************************)
(* One run of the two-stage TBB pipeline that feeds a Reed-Solomon pass:   *)
(* a serial stage reads the input blocks in order, each into a buffer of a *)
(* fixed pool, a parallel stage folds the buffers into the outputs         *)
(* (OutputSlots).  CreatePipeline and RepairPipeline add what Par2Creator  *)
(* and Par2Repairer hook into the two stages; on its own this is a         *)
(* creation pass whose hashes were computed beforehand.                    *)
(*                                                                         *)
(* The steps here are those another thread can observe: each operation on  *)
(* the reference count of a buffer, and each change of ok_ or of a stage.  *)
(* openfiles_ and the position in the input belong to the serial stage.    *)
(***************************************************************************)
EXTENDS Integers, FiniteSets

CONSTANTS
    NumBuffers,      \* max_tokens: tokens in flight at most, and buffers in the pool
    NumBlocks,       \* the number of input blocks
    FileOf,          \* FileOf[i]: the DiskFile of input block i
    FileBlockCount,  \* FileBlockCount[f]: what GetBlockCount() of DiskFile f returns
    IOFaults,        \* whether opening and reading may fail
    HasGpu           \* whether the outputs on the video card are XORed in at the end

\* u32 counters wrap.  Any modulus above the number of blocks tells as much as 2^32.
U32 == 65536

Buffers == 0 .. NumBuffers - 1
Blocks == 0 .. NumBlocks - 1
Files == DOMAIN FileBlockCount

ASSUME PipelineAssumption ==
    /\ NumBuffers \in Nat \ {0}
    /\ NumBlocks \in Nat
    /\ FileBlockCount \in [Files -> 0 .. U32 - 1]
    /\ FileOf \in [Blocks -> Files]
    /\ IOFaults \in BOOLEAN
    /\ HasGpu \in BOOLEAN

NoBuffer == -1
Absent == -1

VARIABLES
    ok,          \* ok_
    rc,          \* rc[b]: refcount_ of buffer b
    index,       \* index[b]: inputindex_ of buffer b
    content,     \* content[b]: the input block whose data is in buffer b
    rpc,         \* where the read stage is (after it: the thread that called run)
    post,        \* whether run() has returned and the GPU's outputs are being fetched
    off,         \* the buffer the search is at
    tries,       \* how many buffers the search has still to try
    held,        \* the buffer acquired and not yet handed over
    nextblock,   \* inputblock_ and inputindex_, which move together
    openfiles,   \* openfiles_: blocks yet to be read from a file, or Absent
    handles,     \* handles[f]: FILE objects of DiskFile f that are open
    stage,       \* stage[i]: how far input block i has got
    bufOf,       \* bufOf[i]: the buffer that block i travels in
    folded       \* the <<column, block>> pairs folded into the outputs

poolVars == <<rc, index, content>>
searchVars == <<off, tries>>
readVars == <<nextblock, openfiles, handles>>
vars == <<ok, rc, index, content, rpc, post, off, tries, held, nextblock,
          openfiles, handles, stage, bufOf, folded>>

\* A fresh pipeline_state.
Init ==
    /\ ok = TRUE
    /\ rc = [b \in Buffers |-> 0]
    /\ rpc = "idle"
    /\ post = FALSE
    /\ off = 0
    /\ tries = 0
    /\ held = NoBuffer
    /\ nextblock = 0
    /\ openfiles = [f \in Files |-> Absent]
    /\ stage = [i \in Blocks |-> "unread"]
    /\ folded = {}
    /\ index = [b \in Buffers |-> 0]
    /\ content = [b \in Buffers |-> 0]
    /\ bufOf = [i \in Blocks |-> 0]
    /\ handles = [f \in Files |-> 0]

-----------------------------------------------------------------------------
(* rcbuffer: reference counts.                                             *)

\* release: --refcount_.  (A count that reaches 0 also moves inputbuffersidx_.)
ReleaseRefTwice(b) == [rc EXCEPT ![b] = @ - 2]
ReleaseRef(b) == [rc EXCEPT ![b] = @ - 1]

-----------------------------------------------------------------------------
(* The serial stage.                                                       *)

\* A token is in flight from the end of the read stage to the end of the other.
InFlight == {i \in Blocks : stage[i] \notin {"unread", "done"}}

\* TBB starts the input filter only while a token is left.
TokenLeftLax == Cardinality(InFlight) <= NumBuffers
TokenLeft == Cardinality(InFlight) < NumBuffers

StartRead ==
    /\ rpc = "idle"
    /\ TokenLeft
    /\ rpc' = IF ok THEN "search" ELSE "finished"
    /\ UNCHANGED <<ok, post, held, stage, bufOf, folded, poolVars, searchVars, readVars>>

(***************************************************************************)
(* first_available_buffer starts at inputbuffersidx_, which the releasing  *)
(* threads write without synchronisation: any buffer.                      *)
(***************************************************************************)
Search ==
    /\ rpc = "search"
    /\ off' \in Buffers
    /\ tries' = NumBuffers
    /\ rpc' = "try"
    /\ UNCHANGED <<ok, post, held, stage, bufOf, folded, poolVars, readVars>>

\* 1 == ++refcount_
WasFreeLax(b) == rc[b] <= 1
WasFreePostIncrement(b) == rc[b] = 1
WasFree(b) == rc[b] = 0

\* try_to_acquire increments first and looks at the result.
TryAcquire ==
    /\ rpc = "try"
    /\ rc' = [rc EXCEPT ![off] = @ + 1]
    /\ IF WasFree(off)
         THEN /\ held' = off
              /\ rpc' = IF post THEN "xor" ELSE "fetch"
              /\ off' = 0 /\ tries' = 0      \* the locals of the search are gone
         ELSE /\ rpc' = "backoff"
              /\ UNCHANGED <<held, searchVars>>
    /\ UNCHANGED <<ok, post, index, content, stage, bufOf, folded, readVars>>

\* --refcount_, then the next buffer; after the last one a pause and a new search.
BackOff ==
    /\ rpc = "backoff"
    /\ rc' = ReleaseRef(off)
    /\ off' = (off + 1) % NumBuffers
    /\ tries' = tries - 1
    /\ rpc' = IF tries = 1 THEN "search" ELSE "try"
    /\ UNCHANGED <<ok, post, held, index, content, stage, bufOf, folded, readVars>>

(***************************************************************************)
(* Under inputblock_mutex_.  At the end of the input the stage returns     *)
(* NULL and keeps the buffer it has acquired.                              *)
(***************************************************************************)
EndOfInput ==
    /\ rpc = "fetch"
    /\ nextblock = NumBlocks
    /\ rpc' = "finished"
    /\ UNCHANGED <<ok, post, held, stage, bufOf, folded, poolVars, searchVars, readVars>>

\* return inputindex_++
InputIndexPreIncrement == nextblock + 1
InputIndex == nextblock

Fetch ==
    /\ rpc = "fetch"
    /\ nextblock < NumBlocks
    /\ nextblock' = nextblock + 1
    /\ index' = [index EXCEPT ![held] = InputIndex]
    /\ rpc' = "read"
    /\ UNCHANGED <<ok, rc, content, post, held, openfiles, handles, stage, bufOf, folded,
                   searchVars>>

\* The block fetched last, and its file.
Reading == nextblock - 1
ReadingFile == FileOf[Reading]

IsOpen(f) == openfiles[f] # Absent

\* What is left to be read from f, the file being opened first if it is not open.
BlocksLeft(f) == IF IsOpen(f) THEN openfiles[f] ELSE FileBlockCount[f]
HandlesOnceOpen(f) == IF IsOpen(f) THEN handles[f] ELSE handles[f] + 1

\* 0 == --fa->second: the block counted as the file's last was read.
LastBlockPostDecrement(f) == BlocksLeft(f) = 0
LastBlock(f) == BlocksLeft(f) = 1

\* Open the file if need be, read the block, hand the buffer to stage s.
ReadBlock(s) ==
    /\ rpc = "read"
    /\ LET f == ReadingFile
           left == IF LastBlock(f) THEN Absent ELSE (BlocksLeft(f) - 1) % U32
           open == IF LastBlock(f) THEN HandlesOnceOpen(f) - 1 ELSE HandlesOnceOpen(f)
       IN  /\ openfiles' = [openfiles EXCEPT ![f] = left]
           /\ handles' = [handles EXCEPT ![f] = open]
    /\ content' = [content EXCEPT ![held] = Reading]
    /\ stage' = [stage EXCEPT ![Reading] = s]
    /\ bufOf' = [bufOf EXCEPT ![Reading] = held]
    /\ held' = NoBuffer
    /\ rpc' = "idle"
    /\ UNCHANGED <<ok, rc, index, post, nextblock, folded, searchVars>>

\* The entry made for the file stays, and so does the buffer.
OpenFails ==
    /\ IOFaults
    /\ rpc = "read"
    /\ ~ IsOpen(ReadingFile)
    /\ openfiles' = [openfiles EXCEPT ![ReadingFile] = 0]
    /\ ok' = FALSE
    /\ rpc' = "finished"
    /\ UNCHANGED <<post, held, nextblock, handles, stage, bufOf, folded, poolVars, searchVars>>

\* Reading fails, or the hook that takes the buffer on does.
ReadAborts ==
    /\ rpc = "read"
    /\ openfiles' = [openfiles EXCEPT ![ReadingFile] = BlocksLeft(ReadingFile)]
    /\ handles' = [handles EXCEPT ![ReadingFile] = HandlesOnceOpen(ReadingFile)]
    /\ ok' = FALSE
    /\ rc' = ReleaseRef(held)
    /\ held' = NoBuffer
    /\ rpc' = "finished"
    /\ UNCHANGED <<index, content, post, nextblock, stage, bufOf, folded, searchVars>>

ReadFails == IOFaults /\ ReadAborts

\* run() returns when the input has ended and every token is through.
RunReturns ==
    /\ rpc = "finished"
    /\ InFlight = {}
    /\ rpc' = IF HasGpu THEN "search" ELSE "returned"
    /\ post' = HasGpu
    /\ UNCHANGED <<ok, held, stage, bufOf, folded, poolVars, searchVars, readVars>>

\* The outputs on the video card pass through one more buffer of the pool.
GpuXor ==
    /\ rpc = "xor"
    /\ rc' = ReleaseRef(held)
    /\ held' = NoBuffer
    /\ rpc' = "returned"
    /\ UNCHANGED <<ok, index, content, post, stage, bufOf, folded, searchVars, readVars>>

\* The copy from the card fails: ProcessData returns false, like for ok_ = false.
GpuFails ==
    /\ IOFaults
    /\ rpc = "xor"
    /\ ok' = FALSE
    /\ rpc' = "returned"
    /\ UNCHANGED <<post, held, stage, bufOf, folded, poolVars, searchVars, readVars>>

-----------------------------------------------------------------------------
(* The parallel stage.                                                     *)

\* ProcessDataConcurrently folds what is in the buffer in as column inputindex_.
Process(i, next) ==
    /\ stage[i] = "process"
    /\ folded' = folded \cup {<<index[bufOf[i]], content[bufOf[i]]>>}
    /\ stage' = [stage EXCEPT ![i] = next]
    /\ UNCHANGED <<ok, rpc, post, held, bufOf, poolVars, searchVars, readVars>>

Release(i) ==
    /\ stage[i] = "release"
    /\ rc' = ReleaseRef(bufOf[i])
    /\ stage' = [stage EXCEPT ![i] = "done"]
    /\ UNCHANGED <<ok, rpc, post, held, index, content, bufOf, folded, searchVars, readVars>>

-----------------------------------------------------------------------------

Acquire == Search \/ TryAcquire \/ BackOff

ReaderStep ==
    \/ StartRead \/ Acquire
    \/ EndOfInput \/ Fetch
    \/ ReadBlock("process") \/ OpenFails \/ ReadFails
    \/ RunReturns \/ GpuXor \/ GpuFails

WorkerStep(i) == Process(i, "release") \/ Release(i)

Returned == rpc = "returned" /\ UNCHANGED vars

Next == ReaderStep \/ (\E i \in Blocks : WorkerStep(i)) \/ Returned

Spec == Init /\ [][Next]_vars

\* The threads of the TBB pool run until they have nothing to do.
Fairness == WF_vars(ReaderStep) /\ WF_vars(\E i \in Blocks : WorkerStep(i))

FairSpec == Spec /\ Fairness

-----------------------------------------------------------------------------

TypeOK ==
    /\ ok \in BOOLEAN
    /\ rc \in [Buffers -> 0 .. 2]      \* a user, and the reader's failed attempt
    /\ index \in [Buffers -> Nat]
    /\ content \in [Buffers -> Nat]
    /\ rpc \in {"idle", "search", "try", "backoff", "fetch", "read", "xor",
                "finished", "returned"}
    /\ post \in BOOLEAN
    /\ off \in Buffers
    /\ tries \in 0 .. NumBuffers
    /\ held \in Buffers \cup {NoBuffer}
    /\ nextblock \in 0 .. NumBlocks
    /\ openfiles \in [Files -> {Absent} \cup 0 .. U32 - 1]
    /\ handles \in [Files -> Nat]
    /\ stage \in [Blocks -> {"unread", "process", "release", "done"}]
    /\ bufOf \in [Blocks -> Buffers]
    /\ folded \subseteq Nat \X Nat

(***************************************************************************)
(* No two blocks in flight share a buffer, and the buffer being filled is  *)
(* nobody else's: a failed try_to_acquire, which raises the count of a     *)
(* buffer for a moment, never lets two users in.                           *)
(***************************************************************************)
NoSharing ==
    /\ \A i, j \in InFlight : bufOf[i] = bufOf[j] => i = j
    /\ rpc \in {"fetch", "read", "xor"} => \A i \in InFlight : bufOf[i] # held

(***************************************************************************)
(* The data of a block in flight stays in its buffer, with its column,     *)
(* until the last thread that uses it has let go.                          *)
(***************************************************************************)
InputIntact == \A i \in InFlight : index[bufOf[i]] = i /\ content[bufOf[i]] = i

(***************************************************************************)
(* "try to acquire a buffer (this should always succeed)": a search of the *)
(* read stage finds a buffer before it has gone through all of them, so    *)
(* the stage never pauses.                                                 *)
(***************************************************************************)
AlwaysSucceeds == ~ (rpc = "backoff" /\ tries = 1)

(***************************************************************************)
(* A run that reports no failure has folded every input block into the     *)
(* outputs, with its own column, and has closed every file it opened.      *)
(***************************************************************************)
RunComplete ==
    rpc = "returned" /\ ok =>
        /\ folded = {<<i, i>> : i \in Blocks}
        /\ \A f \in Files : handles[f] = 0

(***************************************************************************)
(* Whatever fails, the run ends, the wait for a buffer included.           *)
(***************************************************************************)
RunEnds == <>(rpc = "returned")
=============================================================================
